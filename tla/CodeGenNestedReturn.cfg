CONSTANTS
    x = x  y = y
    main = main  print = print  f = f
    Vars <- MCOneVar
    FuncNames <- MCMain
    Main = main
    IOFuncs <- MCIOFuncs
    GlobalFunc = GlobalFunc
    NoFunc = NoFunc
    Const = Const
    BadExpr = BadExpr
    NoExpr = NoExpr
    MaxStmts = 4
    MaxBB = 9
    NestedReturn = TRUE
    LateDef = FALSE
    GlobalVars = FALSE
SPECIFICATION Spec
INVARIANTS
    WellFormed
