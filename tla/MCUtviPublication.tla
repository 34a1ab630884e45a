------------------------- MODULE MCUtviPublication -------------------------
(***************************************************************************)
(* UtviPublication on its own: runs one after another over a settled date  *)
(* whose rows the source no longer changes.                                *)
(***************************************************************************)
EXTENDS UtviPublication, TLC

CONSTANTS a, b

MCTotal == a :> 1
=============================================================================
