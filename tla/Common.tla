-------------------------------- MODULE Common --------------------------------
(***************************************************************************)
(* What all parts of the program have in common.                           *)
(***************************************************************************)

CONSTANTS
  Empty,      \* the empty string
  Assertions  \* TRUE: the debug build; FALSE: built with -DNDEBUG

ASSUME BuildAssumption == Assertions \in BOOLEAN
=============================================================================
