------------------------------ MODULE MCCatchUp ------------------------------
(***************************************************************************)
(* Small instances of CatchUp: constants only.                             *)
(***************************************************************************)
EXTENDS CatchUp

CONSTANTS p1, p2
=============================================================================
