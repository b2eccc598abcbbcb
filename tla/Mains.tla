-------------------------------- MODULE Mains --------------------------------
(***************************************************************************)
(* The programs: the mains of agent_demo, run_ablation, mock_verifier and   *)
(* scope_enforce, each a table of cases run one after another, with what is *)
(* written at the end, and "library", one call of a harness by another      *)
(* program.  A process may be killed between any two statements and started *)
(* again; a file it had not removed stays.                                  *)
(***************************************************************************)
EXTENDS Harness, Planner

CONSTANTS
    Programs,
    GOOD, OverLimit, Injected, Swapped,             \* actions of run_ablation
    Tasks,                                          \* cases of agent_demo
    InScope, OverScope, OverSpend,                  \* requests of scope_enforce
    MaxStarts                                       \* bound on restarts

ASSUME MainsAssumption ==
    /\ Programs \subseteq {"agent_demo", "run_ablation", "mock_verifier", "scope_enforce", "library"}
    /\ "agent_demo" \in Programs => "run_case" \in Harnesses
    /\ "run_ablation" \in Programs =>
          {"evaluate", "forged_credential", "untrusted_issuer"} \subseteq Harnesses
    /\ "mock_verifier" \in Programs => "mock_verifier" \in Harnesses
    /\ "scope_enforce" \in Programs => "verify_scoped" \in Harnesses
    /\ MaxStarts \in Nat

(* The constants of the three tables of calls: GOOD is in scope, the others *)
(* of the ablation are not, or not what was approved.                       *)
InScopeAction(a) == a.tool \in Scope.allowed_actions /\ a.amount_eur.floor <= Scope.max_spend

ASSUME TablesAssumption ==
    /\ {GOOD, OverLimit, Injected, Swapped} \subseteq {a \in Action : Sealable(a)}
    /\ InScopeAction(GOOD) /\ ~InScopeAction(OverLimit) /\ ~InScopeAction(Injected)
    /\ ~SameAction(GOOD, Swapped)
    /\ {InScope, OverScope, OverSpend} \subseteq {q \in Request : q.amount.type # "other"}
    /\ ~OutOfScope(Call("verify_scoped", InScope, InScope))
    /\ OutOfScope(Call("verify_scoped", OverScope, OverScope))
    /\ OutOfScope(Call("verify_scoped", OverSpend, OverSpend))

(* The sentence of a task names its tool before any other, its amount after *)
(* the first EUR and its payee after the last "to".                         *)
PlainlyWorded(c) ==
    /\ \E k \in Where(c.words, "tool") :
          c.words[k].text = c.expected_tool /\ \A l \in Where(c.words, "tool") : k <= l
    /\ \E k \in Priced(c.words) :
          PriceAt(c.words, k) = c.expected_amount_eur /\ \A l \in Priced(c.words) : k <= l
    /\ \E k \in Tos(c.words) :
          c.words[k + 1].text = c.payee /\ \A l \in Tos(c.words) : l <= k

(* What the table expects of a task is what the demo's scope says of it.    *)
Expected(c) ==
    IF c.execute_tamper # NotText
    THEN nfc[c.execute_tamper] # nfc[c.payee] /\ c.verdict = "DENY" /\ c.by = "hash mismatch"
    ELSE IF c.expected_tool \notin Scope.allowed_actions
    THEN c.verdict = "DENY" /\ c.by = "not allowed"
    ELSE IF c.expected_amount_eur > Scope.max_spend
    THEN c.verdict = "DENY" /\ c.by = "spend limit"
    ELSE c.verdict = "ACCEPT" /\ c.by = "any"

Task == [words : Seq(TaskWord), expected_tool : Text, expected_amount_eur : Int, payee : Text,
         execute_tamper : Text \cup {NotText}, verdict : {"ACCEPT", "DENY"}, by : STRING]

ASSUME TasksAssumption ==
    Tasks \in Seq(Task) /\ \A k \in DOMAIN Tasks : PlainlyWorded(Tasks[k]) /\ Expected(Tasks[k])

VARIABLES
    program,    \* the process that runs
    starts,     \* how often it was started
    stage,      \* where its main is
    results,    \* out / results / fails: what the finished cases gave
    temps,      \* main's own temporary files
    litter,     \* files no step will remove any more
    artifact,   \* artifacts/<program>.json
    exit        \* "running", the status, or "killed"

mainVars == <<program, starts, stage, results, temps, litter, artifact, exit>>
allVars == <<vars, plannerVars, mainVars>>

-----------------------------------------------------------------------------
(* The tables.  A row is a call, the verdict expected and, unless "any",    *)
(* the gate (ablation) or the reason (demo) expected to deny it; the demo's *)
(* calls are made of what the planner decides.                              *)
Row(call, verdict, by) == [call |-> call, verdict |-> verdict, by |-> by]
Evaluate(a) == Call("evaluate", GOOD, a)

AblationCases == <<
    Row(Evaluate(GOOD), "ACCEPT", "any"),
    Row(Call("forged_credential", GOOD, GOOD), "DENY", "L1"),
    Row([Evaluate(GOOD) EXCEPT !.replay = TRUE], "DENY", "L2"),
    Row([Evaluate(GOOD) EXCEPT !.contraindicated = TRUE], "DENY", "L2"),
    Row([Call("untrusted_issuer", GOOD, GOOD) EXCEPT !.issuer = Unlisted], "DENY", "L3"),
    Row(Call("evaluate", OverLimit, OverLimit), "DENY", "L4"),
    Row(Call("evaluate", Injected, Injected), "DENY", "L4"),
    Row(Evaluate(Swapped), "DENY", "L4")>>

MockCases ==
    LET good == Call("mock_verifier", GOOD, GOOD) IN <<
    Row(good, "ACCEPT", "any"),
    Row([good EXCEPT !.issuer = OtherRole], "DENY", "any"),
    Row([good EXCEPT !.replay = TRUE], "DENY", "any"),
    Row([good EXCEPT !.contraindicated = TRUE], "DENY", "any"),
    Row([good EXCEPT !.issuer = Unlisted], "DENY", "any")>>

ScopeCases ==
    LET good == Call("verify_scoped", InScope, InScope) IN <<
    Row(good, "ACCEPT", "any"),
    Row(Call("verify_scoped", OverScope, OverScope), "DENY", "any"),
    Row(Call("verify_scoped", OverSpend, OverSpend), "DENY", "any"),
    Row([good EXCEPT !.issuer = OtherRole], "DENY", "any"),
    Row([good EXCEPT !.replay = TRUE], "DENY", "any"),
    Row([good EXCEPT !.issuer = Unlisted], "DENY", "any")>>

Cases ==
    CASE program = "agent_demo" -> Tasks
      [] program = "run_ablation" -> AblationCases
      [] program = "mock_verifier" -> MockCases
      [] program = "scope_enforce" -> ScopeCases
      [] program = "library" -> <<"a call of one harness">>

case == Cases[Len(results) + 1]
InPlace == program \in {"mock_verifier", "scope_enforce"}
WritesArtifact == InPlace \/ program = "agent_demo"

(* The call of the demo: the credential is made for what was decided, the   *)
(* executor may diverge from it.                                            *)
RunCase(c, d) ==
    Call("run_case", d.action,
         IF c.execute_tamper = NotText THEN d.action
         ELSE [d.action EXCEPT !.to = c.execute_tamper])

(* The first gate found False.                                              *)
Denier == IF denied = {} THEN "none"
          ELSE LET gate == <<"L1", "L2", "L3", "L4">>
               IN gate[First({k \in DOMAIN gate : gate[k] \in denied})]

(* Mutant: a denial by any gate will do.                                     *)
Bug_Matches(c) == outcome = c.verdict

Matches(c) == outcome = c.verdict /\ c.by \in {"any", Denier, reason}

Absent == [state |-> "absent"]
Torn == [state |-> "torn"]
Whole(rows) == [state |-> "whole", rows |-> rows]
LeftBy(who, fs) == {[file |-> f, by |-> who] : f \in fs}

(* No case under way.                                                       *)
NoCase == Fresh(Missing, "idle") /\ attempt' = 0 /\ decision' = NoDecision
KeepCase == UNCHANGED <<vars, plannerVars>>

MainsInit ==
    /\ run = Missing /\ pc = "idle" /\ now = 0 /\ files = {}
    /\ session = Missing /\ vp = Missing /\ quote = Missing
    /\ passed = {} /\ denied = {} /\ reason = "none" /\ outcome = "running"
    /\ attempt = 0 /\ decision = NoDecision
    /\ program \in Programs /\ starts = 1 /\ stage = "setup"
    /\ results = <<>> /\ temps = {} /\ litter = {} /\ artifact = Absent /\ exit = "running"

(* The evidence of all cases is rebound to the challenges main draws.       *)
Setup ==
    /\ stage = "setup"
    /\ temps' = IF WritesArtifact THEN {"evidence"} ELSE {}
    /\ stage' = "cases"
    /\ KeepCase /\ UNCHANGED <<program, starts, results, litter, artifact, exit>>

Remaining == stage = "cases" /\ Len(results) < Len(Cases)
AllDone == stage = "cases" /\ Len(results) = Len(Cases)

BeginPlan ==
    /\ Remaining /\ program = "agent_demo"
    /\ attempt' = 1 /\ stage' = "plan"
    /\ UNCHANGED <<vars, decision, program, starts, results, temps, litter, artifact, exit>>

Plan ==
    /\ stage = "plan" /\ decide_action(case)
    /\ UNCHANGED <<vars, mainVars>>

Begin(call) ==
    /\ Fresh(call, "make_tl") /\ stage' = "case"
    /\ UNCHANGED <<now, plannerVars, program, starts, results, temps, litter, artifact, exit>>

BeginCase ==
    \/ stage = "plan" /\ decision # NoDecision /\ Begin(RunCase(case, decision))
    \/ Remaining /\ program \notin {"agent_demo", "library"} /\ Begin(case.call)
    \/ Remaining /\ program = "library" /\ \E r \in Runs : Begin(r)

CaseStep == stage = "case" /\ Step /\ UNCHANGED <<plannerVars, mainVars>>
CaseTick == stage = "case" /\ Tick /\ UNCHANGED <<plannerVars, mainVars>>

EndCase ==
    /\ stage = "case" /\ pc = "done" /\ outcome # "raised"
    /\ results' = Append(results, [verdict |-> outcome, by |-> Denier,
                                   match |-> program = "library" \/ Matches(case)])
    /\ litter' = litter \cup LeftBy(run.harness, files)
    /\ stage' = "cases"
    /\ NoCase /\ UNCHANGED <<now, program, starts, temps, artifact, exit>>

(* An exception of a case ends the program with a traceback: only the       *)
(* demo's evidence is in a with statement.                                  *)
Raised ==
    /\ stage = "case" /\ pc = "done" /\ outcome = "raised"
    /\ litter' = litter \cup LeftBy(run.harness, files \cup (IF InPlace THEN temps ELSE {}))
    /\ temps' = {} /\ stage' = "ended" /\ exit' = "failed"
    /\ NoCase /\ UNCHANGED <<now, program, starts, results, artifact>>

(* Mutant: the demo, too, opens its artifact in place.                       *)
Bug_OpenArtifact ==
    /\ WritesArtifact /\ AllDone
    /\ artifact' = Torn
    /\ stage' = "write"
    /\ KeepCase /\ UNCHANGED <<program, starts, results, temps, litter, exit>>

(* The demo's evidence is gone when it makes a temporary file for its       *)
(* artifact; the others empty the artifact itself.                          *)
OpenArtifact ==
    /\ WritesArtifact /\ AllDone
    /\ temps' = IF InPlace THEN temps ELSE {"artifact"}
    /\ artifact' = IF InPlace THEN Torn ELSE artifact
    /\ stage' = "write"
    /\ KeepCase /\ UNCHANGED <<program, starts, results, litter, exit>>

(* json.dump; os.replace in the demo.                                       *)
WriteArtifact ==
    /\ stage = "write"
    /\ artifact' = Whole(results)
    /\ temps' = temps \ {"artifact"}
    /\ stage' = "exit"
    /\ KeepCase /\ UNCHANGED <<program, starts, results, litter, exit>>

(* rmtree and the exit status.                                              *)
Exit ==
    /\ stage = "exit" \/ (AllDone /\ ~WritesArtifact)
    /\ exit' = IF \A k \in DOMAIN results : results[k].match THEN "ok" ELSE "failed"
    /\ temps' = {}
    /\ stage' = "ended"
    /\ KeepCase /\ UNCHANGED <<program, starts, results, litter, artifact>>

Killed ==
    /\ exit = "running"
    /\ litter' = litter \cup LeftBy("killed", files \cup temps)
    /\ temps' = {} /\ results' = <<>>
    /\ stage' = "ended" /\ exit' = "killed"
    /\ NoCase /\ UNCHANGED <<now, program, starts, artifact>>

Restart ==
    /\ exit # "running" /\ starts < MaxStarts /\ program # "library"
    /\ starts' = starts + 1 /\ stage' = "setup" /\ results' = <<>> /\ exit' = "running"
    /\ KeepCase /\ UNCHANGED <<program, temps, litter, artifact>>

ProgramStep ==
    \/ Setup \/ BeginPlan \/ Plan \/ BeginCase \/ CaseStep \/ EndCase \/ Raised
    \/ OpenArtifact \/ WriteArtifact \/ Exit

MainsNext == ProgramStep \/ CaseTick \/ Killed \/ Restart

MainsSpec == MainsInit /\ [][MainsNext]_allVars /\ WF_allVars(ProgramStep)

-----------------------------------------------------------------------------
MainsTypeOK ==
    /\ TypeOK
    /\ attempt \in 0 .. 2 * Endpoints + 1
    /\ decision # NoDecision =>
          decision.path \in {"hermes", "fallback"} /\ Sealable(decision.action)
    /\ stage \in {"setup", "cases", "plan", "case", "write", "exit", "ended"}
    /\ (stage = "ended") <=> (exit # "running")
    /\ temps \subseteq {"evidence", "artifact"}
    /\ \A r \in litter : r.file \in {"tl", "evidence", "artifact"}

(* Every row of a table gives what the table expects, though the clock runs *)
(* and the planner may be silent, talk nonsense or lie: a mismatch needs a  *)
(* credential that expired under the case, or a model that named the payee  *)
(* the tampered executor pays, in any encoding.                             *)
RowsAsExpected ==
    stage = "case" /\ pc = "done" /\ program # "library" =>
        \/ Matches(case)
        \/ vp # Missing /\ Expired
        \/ /\ program = "agent_demo" /\ decision.path = "hermes"
           /\ case.execute_tamper # NotText
           /\ nfc[decision.action.to] = nfc[case.execute_tamper]

(* What is decided has the tool and the amount of the task, whoever decided *)
(* it; the policy also takes the payee from the task, a model need not.     *)
PlanReadsTask ==
    stage \in {"plan", "case"} /\ decision # NoDecision =>
        /\ decision.action.tool = case.expected_tool
        /\ decision.action.amount_eur = Euros(case.expected_amount_eur)
        /\ decision.path = "fallback" => decision.action.to = case.payee

(* A program that reports success has run its whole table, every row as     *)
(* expected, and its artifact is that table; the ablation's PASS line is    *)
(* true: every gate is the first denier of a row.                           *)
SuccessMeansTable ==
    exit = "ok" =>
        /\ Len(results) = Len(Cases)
        /\ \A k \in DOMAIN results : results[k].match
        /\ WritesArtifact => artifact = Whole(results)
        /\ program = "run_ablation" =>
              AllGates \subseteq {results[k].by : k \in DOMAIN results}

(* An artifact is absent, or the complete table of one run, whoever reads   *)
(* it and whenever the writer was killed: of agent-demo.json always, of the *)
(* two written in place unless the writer is at it or was killed.           *)
WholeOrInPlace ==
    /\ artifact.state = "torn" =>
          InPlace /\ (stage = "write" \/ exit = "killed" \/ starts > 1)
    /\ artifact.state = "whole" => Len(artifact.rows) = Len(Cases)

(* Every program ends, with a verdict or an exception, and what it leaves   *)
(* behind without having been killed is at most the list of a harness that  *)
(* has no finally clause, scope_enforce's only if its case raised.          *)
EndsClean ==
    <>[](/\ exit # "running"
         /\ \A l \in litter :
               \/ l.by = "killed"
               \/ /\ l.file = "tl"
                  /\ \/ l.by \in {"forged_credential", "untrusted_issuer"}
                     \/ l.by = "verify_scoped" /\ exit = "failed")
=============================================================================
