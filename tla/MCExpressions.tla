--------------------------- MODULE MCExpressions ---------------------------
(***************************************************************************)
(* Expressions over few variables, constants and functions: an int x, a    *)
(* char c, an int two, booleans, a double, a function of int.              *)
(***************************************************************************)
EXTENDS Expressions

CONSTANTS x, c,                \* variables
          two, yes, no, half,  \* constants
          f                    \* a function

MCIntVar   == {x}
MCCharVar  == {c}
MCIntLit   == {two}
MCBoolLits == {yes, no}
MCMixed    == {two, half}
MCNone     == {}
MCFuncs    == {f}

MCVarType  == [v \in Vars |-> IF v = c THEN "char" ELSE "int"]
MCLitType  == [l \in Lits |-> CASE l = two -> "int" [] l = half -> "double" [] OTHER -> "bool"]
MCLitValue == [l \in Lits |-> CASE l = two -> 2 [] l = no -> 0 [] OTHER -> 1]
MCInitial  == [v \in Vars |-> 3]
MCParams   == [g \in Funcs |-> <<"int">>]
MCReturns  == [g \in Funcs |-> "int"]
MCBits     == [t \in IntTypes |-> CASE t = "bool" -> 1 [] t = "char" -> 3 [] OTHER -> 4]

MCAllOps     == Operators
MCSomeOps    == {"-", "*", "/", "<", "="}
MCRelational == {"<", ">"}
=============================================================================
