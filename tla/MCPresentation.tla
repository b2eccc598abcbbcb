--------------------------- MODULE MCPresentation ---------------------------
(***************************************************************************)
(* Values for model checking Presentation and its refinement.               *)
(***************************************************************************)
EXTENDS PresentationInv, MCValues, TLC

CONSTANTS r1, r2, rogue, ours, theirs

AllRevealed == {SdName}
SomeRevealed == {SdName, {"principal"}, {"ear_status"}}

SameAud == [r \in RP |-> ours]
TwoAuds == [r \in RP |-> IF r = r1 THEN ours ELSE theirs]

Symmetry == Permutations(Nonce) \cup Permutations(Challenge) \cup Permutations(Salt)
=============================================================================
