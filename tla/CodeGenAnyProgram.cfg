CONSTANTS
    x = x  y = y
    main = main  print = print  f = f
    Vars <- MCOneVar
    FuncNames <- MCFuncs
    Main = main
    IOFuncs <- MCIOFuncs
    GlobalFunc = GlobalFunc
    NoFunc = NoFunc
    Const = Const
    BadExpr = BadExpr
    NoExpr = NoExpr
    MaxStmts = 4
    MaxBB = 9
    NestedReturn = TRUE
    LateDef = TRUE
    GlobalVars = TRUE
SPECIFICATION FairSpec
INVARIANTS
    TypeOK
    StackDiscipline
    InCurrentFunc
    HandlersNested
    NoFallThrough
    TargetsPlaced
    VariablesConfined
PROPERTIES
    LexicalScoping
    UsesInScope
    Finishes
