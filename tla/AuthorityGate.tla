---------------------------- MODULE AuthorityGate ----------------------------
(***************************************************************************)
(* What the four gates promise together, without credentials, presentations *)
(* or evidence: an action is executed only in answer to a question, on a    *)
(* mandate in force that covers it, and an attestation answers one question.*)
(***************************************************************************)
EXTENDS ActionSeal, TrustedList

VARIABLES
    clock,
    mandates,   \* what was granted: issuer, action, scope, and until when
    questions,  \* what was asked: by whom, under which nonce
    executed    \* what was done: for which question, on which attestation

gateVars == <<clock, mandates, questions, executed>>

Covers(m, a) ==
    /\ SameAction(m.action, a)
    /\ a.tool \in m.scope.allowed_actions
    /\ a.amount_eur.floor <= m.scope.max_spend

Init ==
    /\ clock = 0
    /\ mandates = {} /\ questions = {} /\ executed = {}

Tick ==
    /\ clock' = clock + 1
    /\ UNCHANGED <<mandates, questions, executed>>

Grant(m) ==
    /\ mandates' = mandates \cup {m}
    /\ UNCHANGED <<clock, questions, executed>>

Ask(q) ==
    /\ \A p \in questions : p.nonce # q.nonce
    /\ questions' = questions \cup {q}
    /\ UNCHANGED <<clock, mandates, executed>>

Execute(e) ==
    /\ e.question \in questions
    /\ e.at = clock
    /\ \E m \in mandates :
          m.issuer \in Endorsers /\ Covers(m, e.action) /\ clock < m.until
    /\ \A f \in executed : (f.question = e.question) <=> (f.attestation = e.attestation)
    /\ executed' = executed \cup {e}
    /\ UNCHANGED <<clock, mandates, questions>>

(* The new element is read off the next state.                              *)
Next ==
    \/ Tick
    \/ \E m \in mandates' : Grant(m)
    \/ \E q \in questions' : Ask(q)
    \/ \E e \in executed' : Execute(e)

Spec == Init /\ [][Next]_gateVars
=============================================================================
