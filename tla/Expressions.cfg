CONSTANTS
    x = x  c = c
    two = two  yes = yes  no = no  half = half
    f = f
    Vars <- MCIntVar
    Lits <- MCMixed
    Funcs <- MCFuncs
    BinOps <- MCAllOps
    NoName = NoName
    MaxTokens = 7
    VarType <- MCVarType
    LitType <- MCLitType
    LitValue <- MCLitValue
    Params <- MCParams
    Returns <- MCReturns
    Initial <- MCInitial
    Bits <- MCBits
SPECIFICATION Spec
INVARIANTS
    TypeOK
    TreeAsDeclared
    ReadsAsC
    ComputesAsC
