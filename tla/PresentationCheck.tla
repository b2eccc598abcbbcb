-------------------------- MODULE PresentationCheck --------------------------
(***************************************************************************)
(* interop/presentation_invariance_check.py beside the mint: a second       *)
(* process reads three files of the run directory, one after another,       *)
(* presents the credential six times and records what it found.  Nothing    *)
(* keeps a mint from writing between two of its reads.                      *)
(***************************************************************************)
EXTENDS MintRun

VARIABLES
    check,      \* the process: its next statement, what it read, what it found
    disturbed   \* history: the directory changed while it ran

checkVars == <<check, disturbed>>
allVars == <<vars, checkVars>>

NoCheck == [pc |-> "idle", digest |-> Nothing, credential |-> Nothing, holder |-> Nothing,
            issuer |-> Nothing, n |-> 1, verified |-> {}, answer |-> "none"]

(* VARIATIONS; its nonces and audiences are as many as its places.          *)
Reveal == <<{"principal", "ear_status"}, {"principal"}, {"ear_status"}, {"composition_action_id"},
            {"principal", "ear_status", "composition_action_id"}, {}>>

CheckTypeOK ==
    /\ TypeOK
    /\ check.pc \in {"idle", "holder", "issuer", "present", "record", "done"}
    /\ check.pc = "present" => check.credential = check.digest /\ check.n \in 1 .. 6
    /\ check.verified \subseteq 1 .. 6

CheckInit == Init /\ check = NoCheck /\ disturbed = FALSE

Goes(c) == check' = c /\ UNCHANGED <<vars, disturbed>>
Answers(c, how) == Goes([c EXCEPT !.pc = "done", !.answer = how])

(* Started for a digest that was frozen.  A missing file raises.            *)
ReadCredential(d) ==
    /\ check.pc = "idle" /\ d \in frozen
    /\ LET c == [NoCheck EXCEPT !.digest = d, !.credential = dir["credential.sdjwt"]]
       IN IF c.credential = Absent THEN Answers(c, "raises") ELSE Goes([c EXCEPT !.pc = "holder"])

(* An empty key file does not load.                                         *)
ReadHolder ==
    /\ check.pc = "holder"
    /\ LET c == [check EXCEPT !.holder = dir["holder-key.pem"]]
       IN IF c.holder \in {Absent, Truncated} THEN Answers(c, "raises")
          ELSE Goes([c EXCEPT !.pc = "issuer"])

(* Then the digest is compared, whose answer needs no shared state.         *)
ReadIssuer ==
    /\ check.pc = "issuer"
    /\ LET c == [check EXCEPT !.issuer = dir["issuer.jwk"]]
       IN IF c.issuer \in {Absent, Truncated} THEN Answers(c, "raises")
          ELSE IF c.credential # c.digest THEN Answers(c, "ABORT")
          ELSE Goes([c EXCEPT !.pc = "present"])

(* One variation: presented and verified under its own nonce and audience.  *)
PresentNext ==
    /\ check.pc = "present"
    /\ LET n == check.n
           vp == present_sd(check.credential, check.holder, n, n, Reveal[n], now)
           ok == verify_presentation_sd(vp, check.issuer, n, n, now)
       IN Goes([check EXCEPT !.n = n + 1, !.pc = IF n = 6 THEN "record" ELSE "present",
                             !.verified = IF ok THEN @ \cup {n} ELSE @])

(* Mutant: only the digests decide, which present_sd cannot change.          *)
Bug_Finding == "passes"

Finding == IF check.verified = 1 .. 6 THEN "passes" ELSE "CHECK FAILED"

(* The record, which nothing reads, and the exit status say the same.       *)
WriteRecord == check.pc = "record" /\ Answers(check, Finding)

CheckEnds ==
    /\ check.pc # "idle"                        \* with its answer, or killed before it
    /\ check' = NoCheck /\ disturbed' = FALSE
    /\ UNCHANGED vars

CheckStep ==
    \/ \E d \in frozen : ReadCredential(d)
    \/ ReadHolder \/ ReadIssuer \/ PresentNext \/ WriteRecord \/ CheckEnds

MintStep ==
    /\ Next
    /\ disturbed' = (disturbed \/ (check.pc # "idle" /\ dir' # dir))
    /\ UNCHANGED check

CheckSpec == CheckInit /\ [][CheckStep \/ MintStep]_allVars

-----------------------------------------------------------------------------
(* What the check answers about a frozen credential is right although the   *)
(* files it goes by may be of two mints and the clock runs: it passes only  *)
(* under the keys the credential was minted with, and it fails or gives up  *)
(* only if the credential expired or a mint wrote under its hands.          *)
CheckIsRight ==
    check.pc = "done" /\ check.credential = check.digest =>
        LET d == check.digest IN
        /\ check.answer = "passes" => check.issuer = d.signer /\ check.holder = d.cnf
        /\ check.answer # "passes" => disturbed \/ now >= d.exp + Leeway

-----------------------------------------------------------------------------
(* The inductive invariant beside MintInv, in named parts.                  *)

Running == check.pc \in {"holder", "issuer", "present", "record"}

(* The digest is a frozen one as long as the check runs or has answered;    *)
(* nothing is verified before everything is read.                           *)
CheckFollows ==
    /\ DOMAIN check = DOMAIN NoCheck /\ disturbed \in BOOLEAN
    /\ check.pc # "idle" => check.digest \in frozen
    /\ check.pc \in {"holder", "issuer"} => check.verified = {} /\ check.n = 1
    /\ check.pc \in {"present", "record"} => check.credential = check.digest
    /\ check.pc = "record" => check.n = 7

(* A variation that verified did so under the credential's own keys.        *)
VerifiedByKeys ==
    check.verified # {} => check.issuer = check.digest.signer /\ check.holder = check.digest.cnf

(* As long as the directory is left alone, the files there and the keys     *)
(* read go with the frozen credential found there ...                       *)
Undisturbed ==
    Running /\ ~disturbed /\ check.credential = check.digest =>
        /\ dir["issuer.jwk"] = check.digest.signer
        /\ dir["holder-key.pem"] = check.digest.cnf
        /\ check.pc # "holder" => check.holder = check.digest.cnf
        /\ check.pc \notin {"holder", "issuer"} => check.issuer = check.digest.signer

(* ... and every variation tried so far verified, or the credential has     *)
(* expired by now.                                                          *)
TriedVerified ==
    check.pc \in {"present", "record"} /\ ~disturbed /\ now < check.digest.exp + Leeway =>
        1 .. (check.n - 1) \subseteq check.verified

CheckInv ==
    /\ CheckTypeOK
    /\ CheckFollows
    /\ VerifiedByKeys
    /\ Undisturbed
    /\ TriedVerified
    /\ CheckIsRight
=============================================================================
