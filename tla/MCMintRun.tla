----------------------------- MODULE MCMintRun -----------------------------
(***************************************************************************)
(* Values for model checking MintRun.                                       *)
(***************************************************************************)
EXTENDS MintRun, TLC

CONSTANTS i1, i2, h1, h2

MC_Text == {"pay", "wire"}
MC_nfc == [t \in MC_Text |-> t]
AllEndorsers == {[service_type |-> AGENT_ENDORSER, x5t |-> i] : i \in Issuer}

PayHash == action_hash_of("pay", "done")
Good ==
    [action_id |-> "pay", outcome |-> "done", action_hash |-> PayHash,
     allowed_actions |-> {"pay"}, action_commitments |-> {PayHash},
     max_spend |-> Euros(2), positive |-> Euros(2), over_limit |-> Euros(3)]

(* Manifests that contradict themselves: both cases over the limit, neither *)
(* over it, the act not allowed, another act's hash, another act committed  *)
(* to, a limit with a fraction.                                             *)
MC_Manifests ==
    {Good, [Good EXCEPT !.positive = Euros(3)], [Good EXCEPT !.over_limit = Euros(2)],
     [Good EXCEPT !.allowed_actions = {"wire"}],
     [Good EXCEPT !.action_hash = action_hash_of("wire", "done")],
     [Good EXCEPT !.action_commitments = {action_hash_of("wire", "done")}],
     [Good EXCEPT !.max_spend = [@ EXCEPT !.frac = TRUE]]}
OnlyGood == {Good}

Symmetry == Permutations(Issuer) \cup Permutations(Holder)
=============================================================================
