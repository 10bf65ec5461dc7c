---------------------------- MODULE MCTurnUsage ----------------------------
(***************************************************************************)
(* TurnUsage with caps and a safe-integer range small enough that a turn of*)
(* four calls meets each of them, and stays below each of them as well.    *)
(***************************************************************************)
EXTENDS TurnUsage
=============================================================================
