----------------------------- MODULE MCCodeGen -----------------------------
(***************************************************************************)
(* CodeGen on small programs: the names and bounds that the .cfg files     *)
(* give to its constants.                                                  *)
(***************************************************************************)
EXTENDS CodeGen

CONSTANTS x, y,             \* variables
          main, print, f    \* functions

MCOneVar  == {x}
MCTwoVars == {x, y}
MCIOFuncs == {print}
MCMain    == {main, print}
MCFuncs   == {main, print, f}
=============================================================================
