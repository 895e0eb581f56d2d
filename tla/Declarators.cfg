CONSTANTS
    a = a  b = b
    s = s  t = t
    int = int  char = char
    Names <- MCNames
    Sizes <- MCSizes
    BaseTypes <- MCBaseTypes
    NoName = NoName
    NoBase = NoBase
    MaxTokens = 8
SPECIFICATION FairSpec
INVARIANTS
    TypeOK
    TypesReadAsC
    NamesAsWritten
    ReversalSplits
    TypesApart
PROPERTIES
    Ends
