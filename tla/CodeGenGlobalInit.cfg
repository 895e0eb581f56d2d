CONSTANTS
    x = x  y = y
    main = main  print = print  f = f
    Vars <- MCTwoVars
    FuncNames <- MCMain
    Main = main
    IOFuncs <- MCIOFuncs
    GlobalFunc = GlobalFunc
    NoFunc = NoFunc
    Const = Const
    BadExpr = BadExpr
    NoExpr = NoExpr
    MaxStmts = 4
    MaxBB = 9
    NestedReturn = FALSE
    LateDef = FALSE
    GlobalVars = TRUE
SPECIFICATION Spec
PROPERTIES
    FinishedUnchanged
