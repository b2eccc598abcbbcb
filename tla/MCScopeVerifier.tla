--------------------------- MODULE MCScopeVerifier ---------------------------
(***************************************************************************)
(* Values for model checking ScopeVerifier: texts and lists of MCValues.    *)
(***************************************************************************)
EXTENDS ScopeVerifier, MCValues

CONSTANTS rogue

Limit1(allowed, commitments) ==
    [allowed_actions |-> allowed, action_commitments |-> commitments, max_spend |-> 1]

BothScope ==
    Limit1({"cafe"}, {action_hash_of("cafe", "done"), action_hash_of("cafe", "open")})
ReviewScope == Limit1({"cafe", "cafe+acute"}, {action_hash_of("cafe", "done")})

(* An act committed to, alone and beside another; one allowed but not       *)
(* committed to; one outside.                                               *)
MC_Mandates ==
    {[action_id |-> "cafe+acute", outcome |-> "done", scope |-> ReviewScope],
     [action_id |-> "cafe", outcome |-> "open", scope |-> ReviewScope],
     [action_id |-> "cafe", outcome |-> "open", scope |-> BothScope],
     [action_id |-> "wire", outcome |-> "done",
      scope |-> Limit1({"pay"}, {action_hash_of("wire", "done")})]}

Some(id, outcome, type, floor, frac) ==
    [action_id |-> id, outcome |-> outcome,
     amount |-> [type |-> type, floor |-> floor, frac |-> frac]]

MC_Requests ==
    {Some("cafe", "done", "int", 1, FALSE), Some("cafe+acute", "done", "int", 2, FALSE),
     Some("cafe+acute", "done", "float", 1, TRUE), Some("cafe", "done", "other", 0, FALSE),
     Some("cafe", "open", "int", 0, FALSE), Some("wire", "done", "int", 1, FALSE)}
=============================================================================
