----------------------------- MODULE HarnessInv -----------------------------
(***************************************************************************)
(* What is true after every statement of a harness, where the properties of *)
(* Harness speak of its end: the arguments are those it was called with,    *)
(* the token is the one of this run, and a gate is passed for its reason    *)
(* and denied for the lack of it.                                           *)
(***************************************************************************)
EXTENDS Harness

(* The calls there are: those of Runs, of the tables and of the planner.    *)
WellCalled(r) ==
    /\ r.harness \in Harnesses /\ r.issuer \in {Listed, OtherRole, Unlisted}
    /\ r.replay \in BOOLEAN /\ r.contraindicated \in BOOLEAN
    /\ r.harness = "verify_scoped" => r.mandated \in Request /\ r.executed \in Request
    /\ r.harness # "verify_scoped" => r.mandated \in Action /\ r.executed \in Action

RunsL4(h) == CleansList(h) \/ h = "verify_scoped"

Verdict == outcome \in {"ACCEPT", "DENY"}
Issued == pc \in {"rebind", "verify", "l4", "conclude"} \/ Verdict
Judged == pc \in {"l4", "conclude"} \/ Verdict
Settled == pc = "conclude" \/ Verdict

(* A run has its arguments from beginning to end, a verdict at the end only.*)
RunFollows ==
    /\ run = Missing <=> pc = "idle"
    /\ run # Missing => WellCalled(run)
    /\ outcome # "running" <=> pc \in {"finally", "done"}

(* The session is a request's, the token the one issued in it earlier.      *)
TokenFollows ==
    /\ pc = "issue" \/ Issued => session \in [nonce : Nonce, challenge : Challenge]
    /\ Issued => ~Refused(run) /\ vp # Missing
    /\ pc \in {"make_tl", "request", "issue"} => vp = Missing
    /\ vp # Missing => \E issued \in 0 .. now : vp = Token(run, session, issued)
    /\ pc = "verify" => quote.status = Evidence(run)
    /\ pc = "verify" =>
          quote.nonce = IF run.replay THEN StaleChallenge
                        ELSE IF FromMain(run.harness) THEN SessionNonce
                        ELSE session.challenge

(* A gate is passed for its reason, and not passed for the lack of it.      *)
GatesFollow ==
    /\ Judged =>
          /\ "L1" \in passed => run.harness # "forged_credential"
          /\ "L1" \notin passed => run.harness = "forged_credential" \/ Expired
          /\ "L2" \in passed <=> "L1" \in passed /\ ~run.replay /\ ~run.contraindicated
          /\ "L3" \in passed <=> "L1" \in passed /\ run.issuer = Listed
    /\ "L4" \in denied => RunsL4(run.harness)
    /\ pc = "l4" => "L4" \notin passed \cup denied /\ RunsL4(run.harness)

(* The same of L4, where it was run.                                        *)
L4Follows ==
    Settled =>
        /\ "L4" \in passed => RunsL4(run.harness) /\ ~Unlike(run) /\ ~OutOfScope(run)
        /\ {"L1", "L2", "L3"} \subseteq passed /\ RunsL4(run.harness) /\ "L4" \notin passed =>
              Unlike(run) \/ OutOfScope(run) \/ Expired

(* A gate that was evaluated is in one of the two sets.                     *)
DenialFollows ==
    /\ Judged => (IF run.harness = "forged_credential" THEN {"L1"}
                  ELSE {"L1", "L2", "L3"}) \ passed \subseteq denied
    /\ Settled /\ {"L1", "L2", "L3"} \subseteq passed /\ RunsL4(run.harness) =>
          "L4" \in passed \cup denied

(* What verify_l4_scope says of a credential that is valid.                 *)
ReasonOf(r) ==
    IF ~Sealable(r.executed) THEN "malformed"
    ELSE IF action_hash(r.mandated) # action_hash(r.executed) THEN "hash mismatch"
    ELSE IF r.executed.tool \notin Scope.allowed_actions THEN "not allowed"
    ELSE IF r.executed.amount_eur.floor > Scope.max_spend THEN "spend limit"
    ELSE "ok"

ReasonFollows ==
    /\ reason # "none" => run.harness = "run_case"
    /\ Settled /\ {"L1", "L2", "L3"} \subseteq passed /\ run.harness = "run_case" =>
          Expired \/ reason = ReasonOf(run)

(* An exception has one of three causes.                                    *)
RaiseFollows ==
    outcome = "raised" =>
        \/ Refused(run)
        \/ vp # Missing /\ Expired
        \/ run.harness = "verify_scoped" /\ run.executed.amount.type = "other"

VerdictFollows ==
    /\ outcome = "ACCEPT" => passed = Needed(run.harness)
    /\ outcome = "DENY" => passed # Needed(run.harness)

RunInv ==
    /\ TypeOK /\ RunFollows /\ TokenFollows /\ GatesFollow /\ L4Follows
    /\ DenialFollows /\ ReasonFollows /\ RaiseFollows /\ VerdictFollows
=============================================================================
