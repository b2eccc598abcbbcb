------------------------------ MODULE MCHarness ------------------------------
(***************************************************************************)
(* Values for model checking Harness.                                       *)
(***************************************************************************)
EXTENDS Harness, MCValues

CONSTANTS rogue

TheScope == CHOOSE s \in OneScope : TRUE
NoActs == [allowed_actions |-> {}, action_commitments |-> {}, max_spend |-> 0]
=============================================================================
