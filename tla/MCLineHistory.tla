--------------------------- MODULE MCLineHistory ---------------------------
(***************************************************************************)
(* The line with its history, on the table as shipped.                     *)
(***************************************************************************)
EXTENDS LineHistory, MCLineOfStates
=============================================================================
