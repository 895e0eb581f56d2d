CONSTANTS
    x = x  c = c
    two = two  yes = yes  no = no  half = half
    f = f
    Vars <- MCNone
    Lits <- MCBoolLits
    Funcs <- MCNone
    BinOps <- MCRelational
    NoName = NoName
    MaxTokens = 3
    VarType <- MCVarType
    LitType <- MCLitType
    LitValue <- MCLitValue
    Params <- MCParams
    Returns <- MCReturns
    Initial <- MCInitial
    Bits <- MCBits
SPECIFICATION Spec
INVARIANTS
    BooleansUnsigned
