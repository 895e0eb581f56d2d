--------------------------- MODULE MCDeclarators ---------------------------
(***************************************************************************)
(* Declarators on short texts.                                             *)
(***************************************************************************)
EXTENDS Declarators

CONSTANTS a, b,         \* identifiers
          s, t,         \* array sizes
          int, char     \* base types

MCNames     == {a, b}
MCSizes     == {s, t}
MCBaseTypes == {int, char}
=============================================================================
