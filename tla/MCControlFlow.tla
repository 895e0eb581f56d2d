--------------------------- MODULE MCControlFlow ---------------------------
(***************************************************************************)
(* ControlFlow on small programs.                                          *)
(***************************************************************************)
EXTENDS ControlFlow

CONSTANTS x,            \* a variable
          main, print   \* functions

MCOneVar  == {x}
MCIOFuncs == {print}
MCMain    == {main, print}
=============================================================================
