CONSTANTS
    x = x
    main = main  print = print
    Vars <- MCOneVar
    FuncNames <- MCMain
    Main = main
    IOFuncs <- MCIOFuncs
    GlobalFunc = GlobalFunc
    NoFunc = NoFunc
    Const = Const
    BadExpr = BadExpr
    NoExpr = NoExpr
    MaxStmts = 5
    MaxBB = 11
    NestedReturn = FALSE
    LateDef = FALSE
    GlobalVars = FALSE
SPECIFICATION FlowSpec
INVARIANTS
    WellFormed
    NoDanglingUse
    DefDominatesUse
    FlowAsWritten
PROPERTIES
    FinishedUnchanged
