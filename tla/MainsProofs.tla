----------------------------- MODULE MainsProofs -----------------------------
(***************************************************************************)
(* The programs, proved for every table, planner and clock: ProgramInv is   *)
(* inductive.  It says that every row gives what its table expects, that    *)
(* what is decided reads the task, and that a success means the table.      *)
(***************************************************************************)
EXTENDS MainsInv, HarnessProofs, SequenceTheorems

-----------------------------------------------------------------------------
(* The first and the last of a set of positions.                            *)
LEMMA FirstIs ==
    ASSUME NEW S \in SUBSET Int, NEW k \in S, \A l \in S : k <= l
    PROVE  First(S) = k
PROOF
  <1> DEFINE first == First(S)
  <1>1. first \in S /\ \A l \in S : first <= l
    BY DEF First
  <1> HIDE DEF first
  <1>2. first = k
    <2>1. first \in Int /\ k \in Int /\ first <= k /\ k <= first
      BY <1>1
    <2>2. QED
      BY <2>1
  <1>3. QED
    BY <1>2 DEF first

LEMMA LastIs ==
    ASSUME NEW S \in SUBSET Int, NEW k \in S, \A l \in S : l <= k
    PROVE  Last(S) = k
PROOF
  <1> DEFINE last == Last(S)
  <1>1. last \in S /\ \A l \in S : l <= last
    BY DEF Last
  <1> HIDE DEF last
  <1>2. last = k
    <2>1. last \in Int /\ k \in Int /\ last <= k /\ k <= last
      BY <1>1
    <2>2. QED
      BY <2>1
  <1>3. QED
    BY <1>2 DEF last

(* The first gate found False.                                              *)
LEMMA DenierIs ==
    ASSUME denied \subseteq AllGates
    PROVE  /\ denied = {} => Denier = "none"
           /\ "L1" \in denied => Denier = "L1"
           /\ "L1" \notin denied /\ "L2" \in denied => Denier = "L2"
           /\ denied \cap {"L1", "L2"} = {} /\ "L3" \in denied => Denier = "L3"
           /\ denied \cap {"L1", "L2", "L3"} = {} /\ "L4" \in denied => Denier = "L4"
PROOF
  <1> DEFINE gate == <<"L1", "L2", "L3", "L4">>
             found == {k \in DOMAIN gate : gate[k] \in denied}
  <1>1. /\ DOMAIN gate = {1, 2, 3, 4}
        /\ gate[1] = "L1" /\ gate[2] = "L2" /\ gate[3] = "L3" /\ gate[4] = "L4"
    OBVIOUS
  <1>2. denied # {} => Denier = gate[First(found)]
    BY DEF Denier
  <1>3. denied = {} => Denier = "none"
    BY DEF Denier
  <1> HIDE DEF gate
  <1>4. /\ found \subseteq {1, 2, 3, 4}
        /\ 1 \in found <=> "L1" \in denied
        /\ 2 \in found <=> "L2" \in denied
        /\ 3 \in found <=> "L3" \in denied
        /\ 4 \in found <=> "L4" \in denied
    BY <1>1
  <1> HIDE DEF found
  <1>5. found \in SUBSET Int
    BY <1>4
  <1>6. ASSUME NEW k \in {1, 2, 3, 4}, k \in found, \A l \in 1 .. k - 1 : l \notin found
        PROVE  Denier = gate[k]
    <2>1. \A l \in found : k <= l
      BY <1>4, <1>6
    <2>2. First(found) = k
      BY <1>5, <1>6, <2>1, FirstIs
    <2>3. denied # {}
      BY <1>4, <1>6
    <2>4. QED
      BY <1>2, <2>2, <2>3
  <1>7. "L1" \in denied => Denier = "L1"
    BY <1>1, <1>4, <1>6
  <1>8. "L1" \notin denied /\ "L2" \in denied => Denier = "L2"
    BY <1>1, <1>4, <1>6
  <1>9. denied \cap {"L1", "L2"} = {} /\ "L3" \in denied => Denier = "L3"
    BY <1>1, <1>4, <1>6
  <1>10. denied \cap {"L1", "L2", "L3"} = {} /\ "L4" \in denied => Denier = "L4"
    BY <1>1, <1>4, <1>6
  <1>11. QED
    BY <1>3, <1>7, <1>8, <1>9, <1>10

LEMMA DenierTyped ==
    ASSUME denied \subseteq AllGates
    PROVE  Denier \in AllGates \cup {"none"}
PROOF
  <1>1. \/ denied = {}
        \/ "L1" \in denied
        \/ "L1" \notin denied /\ "L2" \in denied
        \/ denied \cap {"L1", "L2"} = {} /\ "L3" \in denied
        \/ denied \cap {"L1", "L2", "L3"} = {} /\ "L4" \in denied
    BY DEF AllGates
  <1>2. QED
    BY <1>1, DenierIs DEF AllGates

-----------------------------------------------------------------------------
(* The policy on a plainly worded task, and whatever decides it.            *)
LEMMA PolicyReads ==
    ASSUME NEW c \in Task, PlainlyWorded(c)
    PROVE  Reads(c, deterministic_policy(c.words))
PROOF
  <1> DEFINE words == c.words
  <1>1. words \in Seq(TaskWord) /\ c.payee \in Text
    BY DEF Task
  <1>2. DOMAIN words \subseteq Int
    BY <1>1, LenProperties
  <1>3. PolicyTool(words) = c.expected_tool
    <2>1. PICK k \in Where(words, "tool") :
              words[k].text = c.expected_tool /\ \A l \in Where(words, "tool") : k <= l
      BY DEF PlainlyWorded
    <2>2. Where(words, "tool") \in SUBSET Int
      BY <1>2 DEF Where
    <2>3. First(Where(words, "tool")) = k
      BY <2>1, <2>2, FirstIs
    <2>4. QED
      BY <2>1, <2>3 DEF PolicyTool
  <1>4. PolicyAmount(words) = c.expected_amount_eur
    <2>1. PICK k \in Priced(words) :
              PriceAt(words, k) = c.expected_amount_eur /\ \A l \in Priced(words) : k <= l
      BY DEF PlainlyWorded
    <2>2. Priced(words) \in SUBSET Int
      BY <1>2 DEF Where, Priced
    <2>3. First(Priced(words)) = k
      BY <2>1, <2>2, FirstIs
    <2>4. QED
      BY <2>1, <2>3 DEF PolicyAmount
  <1>5. PolicyPayee(words) = c.payee
    <2>1. PICK k \in Tos(words) :
              words[k + 1].text = c.payee /\ \A l \in Tos(words) : l <= k
      BY DEF PlainlyWorded
    <2>2. Tos(words) \in SUBSET Int
      BY <1>2 DEF Where, Tos
    <2>3. Last(Tos(words)) = k
      BY <2>1, <2>2, LastIs
    <2>4. QED
      BY <2>1, <2>3 DEF PolicyPayee
  <1>6. QED
    BY <1>1, <1>3, <1>4, <1>5 DEF Reads, deterministic_policy

LEMMA PlannerReads ==
    ASSUME NEW c \in Task, PlainlyWorded(c), decide_action(c),
           attempt \in 0 .. 2 * Endpoints + 1
    PROVE  \/ decision' = decision /\ attempt' = attempt + 1 /\ attempt \in 1 .. 2 * Endpoints
           \/ attempt' = 0 /\ Reads(c, decision')
PROOF
  <1>1. CASE AttemptFails
    BY <1>1 DEF AttemptFails, Attempting
  <1>2. CASE Answered(c)
    <2>1. PICK a \in Answers :
              /\ Usable(a)
              /\ Decide(IF Preserves(c, normalise_action(a))
                        THEN [path |-> "hermes", action |-> normalise_action(a)]
                        ELSE deterministic_policy(c.words))
      BY <1>2 DEF Answered
    <2>2. CASE Preserves(c, normalise_action(a))
      <3>1. strip[a.to] \in Text
        BY <2>1, PlannerAssumption DEF Usable, Complete
      <3>2. Reads(c, [path |-> "hermes", action |-> normalise_action(a)])
        BY <2>2, <3>1 DEF Reads, Preserves, normalise_action
      <3>3. QED
        BY <2>1, <2>2, <3>2 DEF Decide
    <2>3. CASE ~Preserves(c, normalise_action(a))
      BY <2>1, <2>3, PolicyReads DEF Decide
    <2>4. QED
      BY <2>2, <2>3
  <1>3. CASE GivesUp(c)
    BY <1>3, PolicyReads DEF GivesUp, Decide
  <1>4. QED
    BY <1>1, <1>2, <1>3 DEF decide_action

-----------------------------------------------------------------------------
(* The tables.                                                              *)
LEMMA TableSame ==
    ASSUME program' = program
    PROVE  Cases' = Cases /\ InPlace' = InPlace /\ WritesArtifact' = WritesArtifact
BY DEF Cases, InPlace, WritesArtifact

LEMMA CaseSame ==
    ASSUME program' = program, results' = results
    PROVE  case' = case
BY TableSame DEF case

LEMMA TableLength ==
    ASSUME program \in Programs
    PROVE  /\ Len(Cases) \in Nat
           /\ program = "run_ablation" => Len(Cases) = 8
PROOF
  <1>1. /\ Len(AblationCases) = 8
        /\ Len(MockCases) = 5
        /\ Len(ScopeCases) = 6
        /\ Len(<<"a call of one harness">>) = 1
    BY DEF AblationCases, MockCases, ScopeCases
  <1>2. Len(Tasks) \in Nat
    BY TasksAssumption, LenProperties
  <1>3. program \in {"agent_demo", "run_ablation", "mock_verifier", "scope_enforce", "library"}
    BY MainsAssumption
  <1>4. QED
    BY <1>1, <1>2, <1>3 DEF Cases

LEMMA NoRows ==
    /\ <<>> \in Seq(RowDone)
    /\ Len(<<>>) = 0
    /\ DOMAIN <<>> = {}
OBVIOUS

LEMMA ProgramInit == MainsInit => ProgramInv
PROOF
  <1> SUFFICES ASSUME MainsInit PROVE ProgramInv
    OBVIOUS
  <1>1. RunInv
    <2> USE DEF MainsInit
    <2>1. TypeOK /\ RunFollows /\ TokenFollows /\ GatesFollow
      BY DEF TypeOK, RunFollows, TokenFollows, GatesFollow, Issued, Judged, Verdict
    <2>2. L4Follows /\ DenialFollows /\ ReasonFollows /\ RaiseFollows /\ VerdictFollows
      BY DEF L4Follows, DenialFollows, ReasonFollows, RaiseFollows, VerdictFollows,
             Settled, Judged, Verdict
    <2>3. QED
      BY <2>1, <2>2 DEF RunInv
  <1>2. ProgramTyped
    BY DEF MainsInit, ProgramTyped
  <1>3. RowsFollow
    BY NoRows, TableLength DEF MainsInit, RowsFollow
  <1>4. PlanFollows /\ CaseFollows
    BY PlannerAssumption DEF MainsInit, PlanFollows, CaseFollows, NoDecision
  <1>5. MatchesFollow
    BY NoRows DEF MainsInit, MatchesFollow
  <1>6. ArtifactFollows
    BY DEF MainsInit, ArtifactFollows, Absent
  <1>7. QED
    BY <1>1, <1>2, <1>3, <1>4, <1>5, <1>6 DEF ProgramInv

-----------------------------------------------------------------------------
LEMMA ProgramSetup ==
    ASSUME ProgramInv, Setup PROVE ProgramInv'
PROOF
  <1>1. /\ stage = "setup" /\ stage' = "cases" /\ temps' \subseteq {"evidence"}
        /\ UNCHANGED <<vars, plannerVars, program, starts, results, litter, artifact, exit>>
    BY DEF Setup, KeepCase
  <1>2. RunInv'
    BY <1>1, RunSame DEF ProgramInv
  <1>3. /\ Cases' = Cases /\ case' = case
        /\ InPlace' = InPlace /\ WritesArtifact' = WritesArtifact
    BY <1>1, TableSame, CaseSame
  <1>4. ProgramTyped' /\ RowsFollow'
    BY <1>1, <1>3 DEF ProgramInv, ProgramTyped, RowsFollow, vars
  <1>5. PlanFollows' /\ CaseFollows'
    BY <1>1, <1>3 DEF ProgramInv, PlanFollows, CaseFollows, plannerVars, NoDecision
  <1>6. MatchesFollow' /\ ArtifactFollows'
    BY <1>1, <1>3 DEF ProgramInv, ProgramTyped, MatchesFollow, ArtifactFollows
  <1>7. QED
    BY <1>2, <1>4, <1>5, <1>6 DEF ProgramInv

LEMMA ProgramBeginPlan ==
    ASSUME ProgramInv, BeginPlan PROVE ProgramInv'
PROOF
  <1>1. /\ stage = "cases" /\ Len(results) < Len(Cases) /\ program = "agent_demo"
        /\ stage' = "plan" /\ attempt' = 1
        /\ UNCHANGED <<vars, decision, program, starts, results, temps, litter, artifact, exit>>
    BY DEF BeginPlan, Remaining
  <1>2. RunInv'
    BY <1>1, RunSame DEF ProgramInv
  <1>3. /\ Cases' = Cases /\ case' = case
        /\ InPlace' = InPlace /\ WritesArtifact' = WritesArtifact
    BY <1>1, TableSame, CaseSame
  <1>4. ProgramTyped' /\ RowsFollow'
    BY <1>1, <1>3 DEF ProgramInv, ProgramTyped, RowsFollow, vars
  <1>5. PlanFollows' /\ CaseFollows'
    BY <1>1, <1>3, PlannerAssumption DEF ProgramInv, PlanFollows, CaseFollows
  <1>6. MatchesFollow' /\ ArtifactFollows'
    BY <1>1, <1>3 DEF ProgramInv, ProgramTyped, MatchesFollow, ArtifactFollows
  <1>7. QED
    BY <1>2, <1>4, <1>5, <1>6 DEF ProgramInv

(* The task of the demo that comes next.                                    *)
LEMMA NextTask ==
    ASSUME ProgramInv, program = "agent_demo", Len(results) < Len(Cases)
    PROVE  case \in Task /\ PlainlyWorded(case) /\ Expected(case)
PROOF
  <1>1. Cases = Tasks
    BY DEF Cases
  <1>2. Len(results) \in Nat /\ Len(Tasks) \in Nat
    BY LenProperties, TasksAssumption DEF ProgramInv, RowsFollow
  <1>3. Len(results) + 1 \in 1 .. Len(Tasks)
    BY <1>1, <1>2
  <1>4. Len(results) + 1 \in DOMAIN Tasks
    BY <1>3, LenProperties, TasksAssumption
  <1>5. case = Tasks[Len(results) + 1]
    BY <1>1 DEF case
  <1>6. case \in Task
    BY <1>3, <1>5, ElementOfSeq, TasksAssumption
  <1>7. QED
    BY <1>4, <1>5, <1>6, TasksAssumption

LEMMA ProgramPlan ==
    ASSUME ProgramInv, Plan PROVE ProgramInv'
PROOF
  <1>1. /\ stage = "plan" /\ decide_action(case) /\ program = "agent_demo"
        /\ UNCHANGED <<vars, program, starts, stage, results, temps, litter, artifact, exit>>
    BY DEF Plan, mainVars, ProgramInv, PlanFollows
  <1>2. RunInv'
    BY <1>1, RunSame DEF ProgramInv
  <1>3. /\ Cases' = Cases /\ case' = case
        /\ InPlace' = InPlace /\ WritesArtifact' = WritesArtifact
    BY <1>1, TableSame, CaseSame
  <1>4. ProgramTyped' /\ RowsFollow'
    BY <1>1, <1>3 DEF ProgramInv, ProgramTyped, RowsFollow, vars
  <1>5. PlanFollows' /\ CaseFollows'
    <2>1. case \in Task /\ PlainlyWorded(case) /\ attempt \in 0 .. 2 * Endpoints + 1
      BY <1>1, NextTask DEF ProgramInv, RowsFollow, PlanFollows
    <2>2. \/ decision' = decision /\ attempt' = attempt + 1 /\ attempt \in 1 .. 2 * Endpoints
          \/ attempt' = 0 /\ Reads(case, decision')
      BY <1>1, <2>1, PlannerReads
    <2>3. attempt' \in 0 .. 2 * Endpoints + 1
      BY <2>2, PlannerAssumption
    <2>4. Reads(case, decision)' <=> Reads(case, decision')
      BY <1>3 DEF Reads
    <2>5. PlanFollows'
      BY <1>1, <2>2, <2>3, <2>4 DEF ProgramInv, PlanFollows
    <2>6. QED
      BY <1>1, <2>5 DEF CaseFollows
  <1>6. MatchesFollow' /\ ArtifactFollows'
    BY <1>1, <1>3 DEF ProgramInv, ProgramTyped, MatchesFollow, ArtifactFollows
  <1>7. QED
    BY <1>2, <1>4, <1>5, <1>6 DEF ProgramInv

-----------------------------------------------------------------------------
(* A row of a table of calls expects what its call deserves: an acceptance  *)
(* if nothing is wrong with it, and otherwise the first gate that should    *)
(* find out.                                                                *)
Blameless(r) ==
    /\ r.harness \notin {"forged_credential", "untrusted_issuer"}
    /\ ~r.replay /\ ~r.contraindicated /\ r.issuer = Listed
    /\ RunsL4(r.harness) => ~Unlike(r) /\ ~OutOfScope(r)

Cause(r) ==
    IF r.harness = "forged_credential" THEN "L1"
    ELSE IF r.replay \/ r.contraindicated THEN "L2"
    ELSE IF r.issuer # Listed THEN "L3"
    ELSE "L4"

Callable(r) ==
    /\ WellCalled(r) /\ IsCall(r) /\ ~Refused(r)
    /\ r.harness = "verify_scoped" => r.executed.amount.type # "other"
    /\ r.harness = "untrusted_issuer" => r.issuer # Listed

Rightly(row) ==
    /\ Callable(row.call)
    /\ row.verdict = IF Blameless(row.call) THEN "ACCEPT" ELSE "DENY"
    /\ row.by # "any" => row.verdict = "DENY" /\ row.by = Cause(row.call)

(* The arguments of the rows.                                               *)
LEMMA TableActions ==
    /\ {GOOD, OverLimit, Injected, Swapped} \subseteq {a \in Action : Sealable(a)}
    /\ {InScope, OverScope, OverSpend} \subseteq {q \in Request : q.amount.type # "other"}
    /\ OtherRole # Listed /\ Unlisted # Listed
BY TablesAssumption, CallersIssue

(* A call, by its arguments.                                                *)
Given(r, h, i, a, b, re, c) ==
    /\ IsCall(r) /\ r.harness = h /\ r.issuer = i /\ r.mandated = a /\ r.executed = b
    /\ r.replay = re /\ r.contraindicated = c

LEMMA GivenBut ==
    ASSUME NEW h, NEW a, NEW b, NEW i
    PROVE  /\ Given(Call(h, a, b), h, Listed, a, b, FALSE, FALSE)
           /\ Given([Call(h, a, b) EXCEPT !.issuer = i], h, i, a, b, FALSE, FALSE)
           /\ Given([Call(h, a, b) EXCEPT !.replay = TRUE], h, Listed, a, b, TRUE, FALSE)
           /\ Given([Call(h, a, b) EXCEPT !.contraindicated = TRUE], h, Listed, a, b, FALSE, TRUE)
PROOF
  <1> DEFINE r == Call(h, a, b)
  <1>1. Given(r, h, Listed, a, b, FALSE, FALSE)
    BY DEF Call, Given, IsCall
  <1>2. QED
    <2> HIDE DEF r
    <2>1. Given([r EXCEPT !.issuer = i], h, i, a, b, FALSE, FALSE)
      BY <1>1 DEF Given, IsCall
    <2>2. Given([r EXCEPT !.replay = TRUE], h, Listed, a, b, TRUE, FALSE)
      BY <1>1 DEF Given, IsCall
    <2>3. Given([r EXCEPT !.contraindicated = TRUE], h, Listed, a, b, FALSE, TRUE)
      BY <1>1 DEF Given, IsCall
    <2>4. QED
      BY <1>1, <2>1, <2>2, <2>3 DEF r

Addressed(r) ==
    /\ IsCall(r) /\ r.harness \in Harnesses /\ r.issuer \in {Listed, OtherRole, Unlisted}
    /\ r.replay \in BOOLEAN /\ r.contraindicated \in BOOLEAN
    /\ r.harness = "untrusted_issuer" => r.issuer # Listed

LEMMA CallRightly ==
    ASSUME NEW r, Addressed(r), r.harness # "verify_scoped",
           r.mandated \in Action, r.executed \in Action,
           Sealable(r.mandated), Sealable(r.executed)
    PROVE  /\ Callable(r)
           /\ Unlike(r) <=> ~SameAction(r.mandated, r.executed)
           /\ OutOfScope(r) <=> ~InScopeAction(r.executed)
PROOF
  <1>1. r.executed.amount_eur.floor \in Int /\ Scope.max_spend \in Int
    BY HarnessAssumption DEF Action, Amount
  <1>2. OutOfScope(r) <=> ~InScopeAction(r.executed)
    BY <1>1 DEF OutOfScope, InScopeAction
  <1>3. Unlike(r) <=> ~SameAction(r.mandated, r.executed)
    BY DEF Unlike
  <1>4. WellCalled(r)
    BY DEF WellCalled, Addressed
  <1>5. ~Refused(r)
    BY DEF Refused
  <1>6. QED
    BY <1>2, <1>3, <1>4, <1>5 DEF Callable, Addressed

LEMMA ScopedRightly ==
    ASSUME NEW r, Addressed(r), r.harness = "verify_scoped",
           r.executed \in Request, r.mandated = r.executed, r.executed.amount.type # "other"
    PROVE  /\ Callable(r)
           /\ ~Unlike(r)
           /\ OutOfScope(r) <=> OutOfScope(Call("verify_scoped", r.executed, r.executed))
PROOF
  <1> DEFINE good == Call("verify_scoped", r.executed, r.executed)
  <1>1. good.harness = "verify_scoped" /\ good.executed = r.executed
    BY DEF Call
  <1> HIDE DEF good
  <1>2. OutOfScope(r) <=> OutOfScope(good)
    BY <1>1 DEF OutOfScope
  <1>3. ~Unlike(r)
    BY DEF Unlike
  <1>4. WellCalled(r)
    BY DEF WellCalled, Addressed
  <1>5. ~Refused(r)
    BY DEF Refused
  <1>6. QED
    BY <1>2, <1>3, <1>4, <1>5 DEF good, Callable, Addressed

LEMMA AblationRightly ==
    ASSUME "run_ablation" \in Programs
    PROVE  \A k \in 1 .. 8 :
              /\ Rightly(AblationCases[k])
              /\ AblationCases[k].call.harness # "run_case"
              /\ AblationCases[k].by \in AllGates \cup {"any"}
PROOF
  <1> DEFINE Fair(row) == /\ Rightly(row) /\ row.call.harness # "run_case"
                          /\ row.by \in AllGates \cup {"any"}
  <1>1. {"evaluate", "forged_credential", "untrusted_issuer"} \subseteq Harnesses
    BY MainsAssumption
  <1>2. ASSUME NEW r, Addressed(r),
               r.harness \in {"evaluate", "forged_credential", "untrusted_issuer"},
               r.mandated \in Action, r.executed \in Action,
               Sealable(r.mandated), Sealable(r.executed), NEW verdict, NEW by,
               IF /\ r.harness = "evaluate" /\ ~r.replay /\ ~r.contraindicated /\ r.issuer = Listed
                  /\ SameAction(r.mandated, r.executed) /\ InScopeAction(r.executed)
               THEN verdict = "ACCEPT" /\ by = "any"
               ELSE verdict = "DENY" /\ by = Cause(r)
        PROVE  Fair(Row(r, verdict, by))
    <2> DEFINE row == Row(r, verdict, by)
    <2>1. row.call = r /\ row.verdict = verdict /\ row.by = by
      BY DEF Row
    <2>2. /\ Callable(r)
          /\ Unlike(r) <=> ~SameAction(r.mandated, r.executed)
          /\ OutOfScope(r) <=> ~InScopeAction(r.executed)
      BY <1>2, CallRightly
    <2>3. RunsL4(r.harness) <=> r.harness = "evaluate"
      BY <1>2 DEF RunsL4, CleansList
    <2>4. Blameless(r) <=>
              /\ r.harness = "evaluate" /\ ~r.replay /\ ~r.contraindicated /\ r.issuer = Listed
              /\ SameAction(r.mandated, r.executed) /\ InScopeAction(r.executed)
      BY <1>2, <2>2, <2>3 DEF Blameless
    <2>5. by \in AllGates \cup {"any"}
      BY <1>2 DEF Cause, AllGates
    <2> HIDE DEF row
    <2>6. Rightly(row)
      BY <1>2, <2>1, <2>2, <2>4 DEF Rightly
    <2>7. QED
      BY <1>2, <2>1, <2>5, <2>6 DEF row
  <1>3. /\ InScopeAction(GOOD) /\ ~InScopeAction(OverLimit) /\ ~InScopeAction(Injected)
        /\ ~SameAction(GOOD, Swapped) /\ SameAction(GOOD, GOOD)
    BY TablesAssumption DEF SameAction
  <1>4. /\ GOOD \in Action /\ OverLimit \in Action /\ Injected \in Action /\ Swapped \in Action
        /\ Sealable(GOOD) /\ Sealable(OverLimit) /\ Sealable(Injected) /\ Sealable(Swapped)
    BY TableActions
  <1>5. Unlisted # Listed
    BY TableActions
  <1> HIDE DEF Fair
  <1>6. Fair(AblationCases[1])
    <2> DEFINE call == Evaluate(GOOD)
    <2>1. AblationCases[1] = Row(call, "ACCEPT", "any")
      BY DEF AblationCases
    <2>2. Given(call, "evaluate", Listed, GOOD, GOOD, FALSE, FALSE)
      BY GivenBut DEF Evaluate
    <2> HIDE DEF call
    <2>3. Addressed(call)
      BY <1>1, <1>5, <2>2 DEF Given, Addressed
    <2>4. QED
      BY <1>2, <1>3, <1>4, <2>1, <2>2, <2>3 DEF Given, Cause
  <1>7. Fair(AblationCases[2])
    <2> DEFINE call == Call("forged_credential", GOOD, GOOD)
    <2>1. AblationCases[2] = Row(call, "DENY", "L1")
      BY DEF AblationCases
    <2>2. Given(call, "forged_credential", Listed, GOOD, GOOD, FALSE, FALSE)
      BY GivenBut DEF Evaluate
    <2> HIDE DEF call
    <2>3. Addressed(call)
      BY <1>1, <1>5, <2>2 DEF Given, Addressed
    <2>4. QED
      BY <1>2, <1>3, <1>4, <2>1, <2>2, <2>3 DEF Given, Cause
  <1>8. Fair(AblationCases[3])
    <2> DEFINE call == [Evaluate(GOOD) EXCEPT !.replay = TRUE]
    <2>1. AblationCases[3] = Row(call, "DENY", "L2")
      BY DEF AblationCases
    <2>2. Given(call, "evaluate", Listed, GOOD, GOOD, TRUE, FALSE)
      BY GivenBut DEF Evaluate
    <2> HIDE DEF call
    <2>3. Addressed(call)
      BY <1>1, <1>5, <2>2 DEF Given, Addressed
    <2>4. QED
      BY <1>2, <1>3, <1>4, <2>1, <2>2, <2>3 DEF Given, Cause
  <1>9. Fair(AblationCases[4])
    <2> DEFINE call == [Evaluate(GOOD) EXCEPT !.contraindicated = TRUE]
    <2>1. AblationCases[4] = Row(call, "DENY", "L2")
      BY DEF AblationCases
    <2>2. Given(call, "evaluate", Listed, GOOD, GOOD, FALSE, TRUE)
      BY GivenBut DEF Evaluate
    <2> HIDE DEF call
    <2>3. Addressed(call)
      BY <1>1, <1>5, <2>2 DEF Given, Addressed
    <2>4. QED
      BY <1>2, <1>3, <1>4, <2>1, <2>2, <2>3 DEF Given, Cause
  <1>10. Fair(AblationCases[5])
    <2> DEFINE call == [Call("untrusted_issuer", GOOD, GOOD) EXCEPT !.issuer = Unlisted]
    <2>1. AblationCases[5] = Row(call, "DENY", "L3")
      BY DEF AblationCases
    <2>2. Given(call, "untrusted_issuer", Unlisted, GOOD, GOOD, FALSE, FALSE)
      BY GivenBut DEF Evaluate
    <2> HIDE DEF call
    <2>3. Addressed(call)
      BY <1>1, <1>5, <2>2 DEF Given, Addressed
    <2>4. QED
      BY <1>2, <1>3, <1>4, <1>5, <2>1, <2>2, <2>3 DEF Given, Cause
  <1>11. Fair(AblationCases[6])
    <2> DEFINE call == Call("evaluate", OverLimit, OverLimit)
    <2>1. AblationCases[6] = Row(call, "DENY", "L4")
      BY DEF AblationCases
    <2>2. Given(call, "evaluate", Listed, OverLimit, OverLimit, FALSE, FALSE)
      BY GivenBut DEF Evaluate
    <2> HIDE DEF call
    <2>3. Addressed(call)
      BY <1>1, <1>5, <2>2 DEF Given, Addressed
    <2>4. QED
      BY <1>2, <1>3, <1>4, <2>1, <2>2, <2>3 DEF Given, Cause
  <1>12. Fair(AblationCases[7])
    <2> DEFINE call == Call("evaluate", Injected, Injected)
    <2>1. AblationCases[7] = Row(call, "DENY", "L4")
      BY DEF AblationCases
    <2>2. Given(call, "evaluate", Listed, Injected, Injected, FALSE, FALSE)
      BY GivenBut DEF Evaluate
    <2> HIDE DEF call
    <2>3. Addressed(call)
      BY <1>1, <1>5, <2>2 DEF Given, Addressed
    <2>4. QED
      BY <1>2, <1>3, <1>4, <2>1, <2>2, <2>3 DEF Given, Cause
  <1>13. Fair(AblationCases[8])
    <2> DEFINE call == Evaluate(Swapped)
    <2>1. AblationCases[8] = Row(call, "DENY", "L4")
      BY DEF AblationCases
    <2>2. Given(call, "evaluate", Listed, GOOD, Swapped, FALSE, FALSE)
      BY GivenBut DEF Evaluate
    <2> HIDE DEF call
    <2>3. Addressed(call)
      BY <1>1, <1>5, <2>2 DEF Given, Addressed
    <2>4. QED
      BY <1>2, <1>3, <1>4, <2>1, <2>2, <2>3 DEF Given, Cause
  <1>14. \A k \in 1 .. 8 : k \in {1, 2, 3, 4, 5, 6, 7, 8}
    OBVIOUS
  <1>15. \A k \in 1 .. 8 : Fair(AblationCases[k])
    BY <1>6, <1>7, <1>8, <1>9, <1>10, <1>11, <1>12, <1>13, <1>14
  <1>16. QED
    BY <1>15 DEF Fair

LEMMA MockRightly ==
    ASSUME "mock_verifier" \in Programs
    PROVE  \A k \in 1 .. 5 : Rightly(MockCases[k]) /\ MockCases[k].call.harness # "run_case"
PROOF
  <1> DEFINE Fair(row) == Rightly(row) /\ row.call.harness # "run_case"
  <1>1. "mock_verifier" \in Harnesses
    BY MainsAssumption
  <1>2. GOOD \in Action /\ Sealable(GOOD) /\ Unlisted # Listed /\ OtherRole # Listed
    BY TableActions
  <1>3. ASSUME NEW r, Addressed(r), r.harness = "mock_verifier",
               r.mandated = GOOD, r.executed = GOOD, NEW verdict,
               verdict = IF ~r.replay /\ ~r.contraindicated /\ r.issuer = Listed
                         THEN "ACCEPT" ELSE "DENY"
        PROVE  Fair(Row(r, verdict, "any"))
    <2>1. Callable(r)
      BY <1>2, <1>3, CallRightly
    <2>2. Blameless(r) <=> ~r.replay /\ ~r.contraindicated /\ r.issuer = Listed
      BY <1>3 DEF Blameless, RunsL4, CleansList
    <2>3. QED
      BY <1>3, <2>1, <2>2 DEF Rightly, Row
  <1> HIDE DEF Fair
  <1>4. Fair(MockCases[1])
    <2> DEFINE call == Call("mock_verifier", GOOD, GOOD)
    <2>1. MockCases[1] = Row(call, "ACCEPT", "any")
      BY DEF MockCases
    <2>2. Given(call, "mock_verifier", Listed, GOOD, GOOD, FALSE, FALSE)
      BY GivenBut
    <2> HIDE DEF call
    <2>3. Addressed(call)
      BY <1>1, <2>2 DEF Given, Addressed
    <2>4. QED
      BY <1>2, <1>3, <2>1, <2>2, <2>3 DEF Given
  <1>5. Fair(MockCases[2])
    <2> DEFINE call == [Call("mock_verifier", GOOD, GOOD) EXCEPT !.issuer = OtherRole]
    <2>1. MockCases[2] = Row(call, "DENY", "any")
      BY DEF MockCases
    <2>2. Given(call, "mock_verifier", OtherRole, GOOD, GOOD, FALSE, FALSE)
      BY GivenBut
    <2> HIDE DEF call
    <2>3. Addressed(call)
      BY <1>1, <2>2 DEF Given, Addressed
    <2>4. QED
      BY <1>2, <1>3, <2>1, <2>2, <2>3 DEF Given
  <1>6. Fair(MockCases[3])
    <2> DEFINE call == [Call("mock_verifier", GOOD, GOOD) EXCEPT !.replay = TRUE]
    <2>1. MockCases[3] = Row(call, "DENY", "any")
      BY DEF MockCases
    <2>2. Given(call, "mock_verifier", Listed, GOOD, GOOD, TRUE, FALSE)
      BY GivenBut
    <2> HIDE DEF call
    <2>3. Addressed(call)
      BY <1>1, <2>2 DEF Given, Addressed
    <2>4. QED
      BY <1>2, <1>3, <2>1, <2>2, <2>3 DEF Given
  <1>7. Fair(MockCases[4])
    <2> DEFINE call == [Call("mock_verifier", GOOD, GOOD) EXCEPT !.contraindicated = TRUE]
    <2>1. MockCases[4] = Row(call, "DENY", "any")
      BY DEF MockCases
    <2>2. Given(call, "mock_verifier", Listed, GOOD, GOOD, FALSE, TRUE)
      BY GivenBut
    <2> HIDE DEF call
    <2>3. Addressed(call)
      BY <1>1, <2>2 DEF Given, Addressed
    <2>4. QED
      BY <1>2, <1>3, <2>1, <2>2, <2>3 DEF Given
  <1>8. Fair(MockCases[5])
    <2> DEFINE call == [Call("mock_verifier", GOOD, GOOD) EXCEPT !.issuer = Unlisted]
    <2>1. MockCases[5] = Row(call, "DENY", "any")
      BY DEF MockCases
    <2>2. Given(call, "mock_verifier", Unlisted, GOOD, GOOD, FALSE, FALSE)
      BY GivenBut
    <2> HIDE DEF call
    <2>3. Addressed(call)
      BY <1>1, <2>2 DEF Given, Addressed
    <2>4. QED
      BY <1>2, <1>3, <2>1, <2>2, <2>3 DEF Given
  <1>9. \A k \in 1 .. 5 : k \in {1, 2, 3, 4, 5}
    OBVIOUS
  <1>10. \A k \in 1 .. 5 : Fair(MockCases[k])
    BY <1>4, <1>5, <1>6, <1>7, <1>8, <1>9
  <1>11. QED
    BY <1>10 DEF Fair

LEMMA ScopeRightly ==
    ASSUME "scope_enforce" \in Programs
    PROVE  \A k \in 1 .. 6 : Rightly(ScopeCases[k]) /\ ScopeCases[k].call.harness # "run_case"
PROOF
  <1> DEFINE Fair(row) == Rightly(row) /\ row.call.harness # "run_case"
  <1>1. "verify_scoped" \in Harnesses
    BY MainsAssumption
  <1>2. /\ InScope \in Request /\ InScope.amount.type # "other"
        /\ OverScope \in Request /\ OverScope.amount.type # "other"
        /\ OverSpend \in Request /\ OverSpend.amount.type # "other"
        /\ Unlisted # Listed /\ OtherRole # Listed
    BY TableActions
  <1>3. /\ ~OutOfScope(Call("verify_scoped", InScope, InScope))
        /\ OutOfScope(Call("verify_scoped", OverScope, OverScope))
        /\ OutOfScope(Call("verify_scoped", OverSpend, OverSpend))
    BY TablesAssumption
  <1>4. ASSUME NEW r, Addressed(r), r.harness = "verify_scoped", ~r.contraindicated,
               r.executed \in {InScope, OverScope, OverSpend}, r.mandated = r.executed,
               NEW verdict,
               verdict = IF ~r.replay /\ r.issuer = Listed /\ r.executed = InScope
                         THEN "ACCEPT" ELSE "DENY"
        PROVE  Fair(Row(r, verdict, "any"))
    <2>1. /\ Callable(r) /\ ~Unlike(r)
          /\ OutOfScope(r) <=> OutOfScope(Call("verify_scoped", r.executed, r.executed))
      BY <1>2, <1>4, ScopedRightly
    <2>2. OutOfScope(r) <=> r.executed # InScope
      BY <1>3, <1>4, <2>1
    <2>3. Blameless(r) <=> ~r.replay /\ r.issuer = Listed /\ r.executed = InScope
      BY <1>4, <2>1, <2>2 DEF Blameless, RunsL4
    <2>4. QED
      BY <1>4, <2>1, <2>3 DEF Rightly, Row
  <1> HIDE DEF Fair
  <1>5. Fair(ScopeCases[1])
    <2> DEFINE call == Call("verify_scoped", InScope, InScope)
    <2>1. ScopeCases[1] = Row(call, "ACCEPT", "any")
      BY DEF ScopeCases
    <2>2. Given(call, "verify_scoped", Listed, InScope, InScope, FALSE, FALSE)
      BY GivenBut
    <2> HIDE DEF call
    <2>3. Addressed(call)
      BY <1>1, <2>2 DEF Given, Addressed
    <2>4. QED
      BY <1>2, <1>3, <1>4, <2>1, <2>2, <2>3 DEF Given
  <1>6. Fair(ScopeCases[2])
    <2> DEFINE call == Call("verify_scoped", OverScope, OverScope)
    <2>1. ScopeCases[2] = Row(call, "DENY", "any")
      BY DEF ScopeCases
    <2>2. Given(call, "verify_scoped", Listed, OverScope, OverScope, FALSE, FALSE)
      BY GivenBut
    <2> HIDE DEF call
    <2>3. Addressed(call)
      BY <1>1, <2>2 DEF Given, Addressed
    <2>4. QED
      BY <1>2, <1>3, <1>4, <2>1, <2>2, <2>3 DEF Given
  <1>7. Fair(ScopeCases[3])
    <2> DEFINE call == Call("verify_scoped", OverSpend, OverSpend)
    <2>1. ScopeCases[3] = Row(call, "DENY", "any")
      BY DEF ScopeCases
    <2>2. Given(call, "verify_scoped", Listed, OverSpend, OverSpend, FALSE, FALSE)
      BY GivenBut
    <2> HIDE DEF call
    <2>3. Addressed(call)
      BY <1>1, <2>2 DEF Given, Addressed
    <2>4. QED
      BY <1>2, <1>3, <1>4, <2>1, <2>2, <2>3 DEF Given
  <1>8. Fair(ScopeCases[4])
    <2> DEFINE call == [Call("verify_scoped", InScope, InScope) EXCEPT !.issuer = OtherRole]
    <2>1. ScopeCases[4] = Row(call, "DENY", "any")
      BY DEF ScopeCases
    <2>2. Given(call, "verify_scoped", OtherRole, InScope, InScope, FALSE, FALSE)
      BY GivenBut
    <2> HIDE DEF call
    <2>3. Addressed(call)
      BY <1>1, <2>2 DEF Given, Addressed
    <2>4. QED
      BY <1>2, <1>3, <1>4, <2>1, <2>2, <2>3 DEF Given
  <1>9. Fair(ScopeCases[5])
    <2> DEFINE call == [Call("verify_scoped", InScope, InScope) EXCEPT !.replay = TRUE]
    <2>1. ScopeCases[5] = Row(call, "DENY", "any")
      BY DEF ScopeCases
    <2>2. Given(call, "verify_scoped", Listed, InScope, InScope, TRUE, FALSE)
      BY GivenBut
    <2> HIDE DEF call
    <2>3. Addressed(call)
      BY <1>1, <2>2 DEF Given, Addressed
    <2>4. QED
      BY <1>2, <1>3, <1>4, <2>1, <2>2, <2>3 DEF Given
  <1>10. Fair(ScopeCases[6])
    <2> DEFINE call == [Call("verify_scoped", InScope, InScope) EXCEPT !.issuer = Unlisted]
    <2>1. ScopeCases[6] = Row(call, "DENY", "any")
      BY DEF ScopeCases
    <2>2. Given(call, "verify_scoped", Unlisted, InScope, InScope, FALSE, FALSE)
      BY GivenBut
    <2> HIDE DEF call
    <2>3. Addressed(call)
      BY <1>1, <2>2 DEF Given, Addressed
    <2>4. QED
      BY <1>2, <1>3, <1>4, <2>1, <2>2, <2>3 DEF Given
  <1>11. \A k \in 1 .. 6 : k \in {1, 2, 3, 4, 5, 6}
    OBVIOUS
  <1>12. \A k \in 1 .. 6 : Fair(ScopeCases[k])
    BY <1>5, <1>6, <1>7, <1>8, <1>9, <1>10, <1>11
  <1>13. QED
    BY <1>12 DEF Fair

-----------------------------------------------------------------------------
(* The call that comes next: of a table of calls, and of the demo.          *)
LEMMA NextCall ==
    ASSUME ProgramInv, program \in {"run_ablation", "mock_verifier", "scope_enforce"},
           Len(results) < Len(Cases)
    PROVE  /\ Rightly(case) /\ case.call.harness # "run_case"
           /\ program = "run_ablation" =>
                 /\ case = AblationCases[Len(results) + 1]
                 /\ case.by \in AllGates \cup {"any"}
PROOF
  <1>1. program \in Programs /\ Len(results) \in Nat
    BY LenProperties DEF ProgramInv, ProgramTyped, RowsFollow
  <1>2. /\ Len(AblationCases) = 8 /\ Len(MockCases) = 5 /\ Len(ScopeCases) = 6
    BY DEF AblationCases, MockCases, ScopeCases
  <1>3. \A n \in Nat : /\ n < 8 => n + 1 \in 1 .. 8
                       /\ n < 5 => n + 1 \in 1 .. 5
                       /\ n < 6 => n + 1 \in 1 .. 6
    OBVIOUS
  <1>4. CASE program = "run_ablation"
    <2>1. Cases = AblationCases
      BY <1>4 DEF Cases
    <2>2. case = AblationCases[Len(results) + 1] /\ Len(results) + 1 \in 1 .. 8
      BY <1>1, <1>2, <1>3, <2>1 DEF case
    <2>3. QED
      BY <1>1, <1>4, <2>2, AblationRightly
  <1>5. CASE program = "mock_verifier"
    <2>1. Cases = MockCases
      BY <1>5 DEF Cases
    <2>2. case = MockCases[Len(results) + 1] /\ Len(results) + 1 \in 1 .. 5
      BY <1>1, <1>2, <1>3, <2>1 DEF case
    <2>3. QED
      BY <1>1, <1>5, <2>2, MockRightly
  <1>6. CASE program = "scope_enforce"
    <2>1. Cases = ScopeCases
      BY <1>6 DEF Cases
    <2>2. case = ScopeCases[Len(results) + 1] /\ Len(results) + 1 \in 1 .. 6
      BY <1>1, <1>2, <1>3, <2>1 DEF case
    <2>3. QED
      BY <1>1, <1>6, <2>2, ScopeRightly
  <1>7. QED
    BY <1>4, <1>5, <1>6

LEMMA DemoCall ==
    ASSUME NEW c \in Task, NEW d, Reads(c, d), "run_case" \in Harnesses
    PROVE  LET r == RunCase(c, d)
           IN /\ Callable(r) /\ r.harness = "run_case"
              /\ r.replay = FALSE /\ r.contraindicated = FALSE /\ r.issuer = Listed
              /\ r.mandated = d.action
              /\ r.mandated \in Action /\ Sealable(r.mandated)
              /\ r.executed \in Action /\ Sealable(r.executed)
              /\ r.executed.tool = c.expected_tool
              /\ r.executed.amount_eur = Euros(c.expected_amount_eur)
              /\ r.executed.to = IF c.execute_tamper = NotText THEN d.action.to ELSE c.execute_tamper
PROOF
  <1> DEFINE executed == IF c.execute_tamper = NotText THEN d.action
                         ELSE [d.action EXCEPT !.to = c.execute_tamper]
             r == RunCase(c, d)
  <1>1. /\ c.expected_tool \in Text /\ c.expected_amount_eur \in Int
        /\ c.execute_tamper \in Text \cup {NotText} /\ d.action.to \in Text
    BY DEF Task, Reads
  <1>2. PICK to : to = d.action.to
    OBVIOUS
  <1>3. /\ d.action = [tool |-> c.expected_tool, amount_eur |-> Euros(c.expected_amount_eur),
                       to |-> to]
        /\ to \in Text
    BY <1>1, <1>2 DEF Reads
  <1>4. Euros(c.expected_amount_eur) \in Amount /\ _exact_int(Euros(c.expected_amount_eur))
    BY <1>1 DEF Euros, Amount, _exact_int
  <1>5. d.action \in Action /\ Sealable(d.action)
    BY <1>1, <1>3, <1>4 DEF Action, Sealable, _exact_str
  <1>6. executed = [tool |-> c.expected_tool, amount_eur |-> Euros(c.expected_amount_eur),
                    to |-> IF c.execute_tamper = NotText THEN to ELSE c.execute_tamper]
    BY <1>3
  <1> HIDE DEF executed
  <1>7. executed \in Action /\ Sealable(executed)
    BY <1>1, <1>3, <1>4, <1>6 DEF Action, Sealable, _exact_str
  <1>8. /\ r.harness = "run_case" /\ r.issuer = Listed /\ r.mandated = d.action
        /\ r.executed = executed /\ r.replay = FALSE /\ r.contraindicated = FALSE /\ IsCall(r)
    BY DEF RunCase, Call, executed, IsCall
  <1> HIDE DEF r
  <1>9. Addressed(r)
    BY <1>8 DEF Addressed
  <1>10. Callable(r)
    BY <1>5, <1>7, <1>8, <1>9, CallRightly
  <1>11. QED
    BY <1>2, <1>5, <1>6, <1>7, <1>8, <1>10 DEF r

LEMMA ProgramBegins ==
    ASSUME ProgramInv, NEW r, Callable(r) \/ r \in Runs, Begin(r),
           stage \in {"cases", "plan"}, Len(results) < Len(Cases),
           decision # NoDecision \/ stage = "cases",
           program = "agent_demo" =>
               decision # NoDecision /\ r = RunCase(case, decision),
           program \in {"run_ablation", "mock_verifier", "scope_enforce"} => r = case.call
    PROVE  ProgramInv'
PROOF
  <1>1. /\ Fresh(r, "make_tl") /\ stage' = "case"
        /\ UNCHANGED <<now, plannerVars, program, starts, results, temps, litter, artifact, exit>>
    BY DEF Begin
  <1>2. RunInv'
    <2>1. WellCalled(r) /\ IsCall(r)
      BY RunsWell DEF Callable
    <2>2. r # Missing
      BY <2>1, CallThere
    <2>3. now' \in Nat
      BY <1>1 DEF ProgramInv, RunInv, TypeOK
    <2>4. QED
      BY <1>1, <2>1, <2>2, <2>3, RunBegins
  <1>3. /\ Cases' = Cases /\ case' = case
        /\ InPlace' = InPlace /\ WritesArtifact' = WritesArtifact
    BY <1>1, TableSame, CaseSame
  <1>4. ProgramTyped' /\ RowsFollow'
    BY <1>1, <1>3 DEF ProgramInv, ProgramTyped, RowsFollow, Fresh
  <1>5. PlanFollows'
    BY <1>1, <1>3 DEF ProgramInv, PlanFollows, plannerVars
  <1>6. CaseFollows'
    <2>1. run' = r /\ decision' = decision /\ program' = program
      BY <1>1 DEF Fresh, plannerVars
    <2>2. RunCase(case, decision)' = RunCase(case, decision)
      BY <1>3, <2>1 DEF RunCase
    <2>3. QED
      BY <1>3, <2>1, <2>2 DEF CaseFollows
  <1>7. MatchesFollow' /\ ArtifactFollows'
    BY <1>1, <1>3 DEF ProgramInv, ProgramTyped, MatchesFollow, ArtifactFollows
  <1>8. QED
    BY <1>2, <1>4, <1>5, <1>6, <1>7 DEF ProgramInv

LEMMA ProgramBeginCase ==
    ASSUME ProgramInv, BeginCase PROVE ProgramInv'
PROOF
  <1>1. /\ stage = "plan" => Len(results) < Len(Cases) /\ program = "agent_demo"
        /\ program \in Programs
        /\ decision # NoDecision => Reads(case, decision)
    BY DEF ProgramInv, ProgramTyped, RowsFollow, PlanFollows
  <1>2. CASE stage = "plan" /\ decision # NoDecision /\ Begin(RunCase(case, decision))
    <2>1. case \in Task /\ "run_case" \in Harnesses
      BY <1>1, <1>2, NextTask, MainsAssumption
    <2>2. Callable(RunCase(case, decision))
      BY <1>1, <1>2, <2>1, DemoCall
    <2>3. QED
      BY <1>1, <1>2, <2>2, ProgramBegins
  <1>3. CASE Remaining /\ program \notin {"agent_demo", "library"} /\ Begin(case.call)
    <2>1. program \in {"run_ablation", "mock_verifier", "scope_enforce"}
      BY <1>1, <1>3, MainsAssumption
    <2>2. Callable(case.call)
      BY <1>3, <2>1, NextCall DEF Remaining, Rightly
    <2>3. QED
      BY <1>3, <2>1, <2>2, ProgramBegins DEF Remaining
  <1>4. CASE Remaining /\ program = "library" /\ \E r \in Runs : Begin(r)
    BY <1>4, ProgramBegins DEF Remaining
  <1>5. QED
    BY <1>2, <1>3, <1>4 DEF BeginCase

-----------------------------------------------------------------------------
(* A statement of the harness leaves the main where it is, and the call.    *)
LEMMA StepKeepsCall ==
    ASSUME Step
    PROVE  run' = run
BY DEF Step, MakeTrustedList, request, issue_action_mandate, IssueRaises, rebind_evidence,
       Verify, VerifyL4, VerifyScoped, Conclude, Finally

LEMMA CaseGoesOn ==
    ASSUME ProgramInv, stage = "case", RunInv', run' = run, UNCHANGED <<plannerVars, mainVars>>
    PROVE  ProgramInv'
PROOF
  <1>1. UNCHANGED <<run, attempt, decision, program, starts, stage, results, temps, litter,
                    artifact, exit>>
    BY DEF plannerVars, mainVars
  <1>2. (pc' = "idle") <=> (pc = "idle")
    BY <1>1 DEF ProgramInv, RunInv, RunFollows
  <1>3. /\ Cases' = Cases /\ case' = case
        /\ InPlace' = InPlace /\ WritesArtifact' = WritesArtifact
    BY <1>1, TableSame, CaseSame
  <1>4. ProgramTyped' /\ RowsFollow'
    BY <1>1, <1>2, <1>3 DEF ProgramInv, ProgramTyped, RowsFollow
  <1>5. PlanFollows'
    BY <1>1, <1>3 DEF ProgramInv, PlanFollows
  <1>6. CaseFollows'
    <2>1. RunCase(case, decision)' = RunCase(case, decision)
      BY <1>1, <1>3 DEF RunCase
    <2>2. QED
      BY <1>1, <1>3, <2>1 DEF ProgramInv, CaseFollows
  <1>7. MatchesFollow' /\ ArtifactFollows'
    BY <1>1, <1>3 DEF ProgramInv, MatchesFollow, ArtifactFollows
  <1>8. QED
    BY <1>4, <1>5, <1>6, <1>7 DEF ProgramInv

LEMMA ProgramCaseStep ==
    ASSUME ProgramInv, CaseStep PROVE ProgramInv'
PROOF
  <1>1. RunInv' /\ run' = run
    BY RunStep, StepKeepsCall DEF CaseStep, ProgramInv
  <1>2. QED
    BY <1>1, CaseGoesOn DEF CaseStep

LEMMA ProgramCaseTick ==
    ASSUME ProgramInv, CaseTick PROVE ProgramInv'
PROOF
  <1>1. RunInv' /\ run' = run
    BY RunTick DEF CaseTick, ProgramInv, Tick
  <1>2. QED
    BY <1>1, CaseGoesOn DEF CaseTick

(* The row of a finished case is the next of the results.                   *)
LEMMA RowRecorded ==
    ASSUME NEW S, NEW s \in Seq(S), NEW e \in S
    PROVE  /\ Append(s, e) \in Seq(S)
           /\ Len(Append(s, e)) = Len(s) + 1
           /\ \A k \in DOMAIN Append(s, e) :
                 \/ k \in DOMAIN s /\ Append(s, e)[k] = s[k]
                 \/ k = Len(s) + 1 /\ Append(s, e)[k] = e
PROOF
  <1>1. /\ Append(s, e) \in Seq(S)
        /\ Len(Append(s, e)) = Len(s) + 1
        /\ \A k \in 1 .. Len(s) : Append(s, e)[k] = s[k]
        /\ Append(s, e)[Len(s) + 1] = e
    BY AppendProperties
  <1>2. /\ DOMAIN s = 1 .. Len(s) /\ Len(s) \in Nat
        /\ DOMAIN Append(s, e) = 1 .. Len(Append(s, e))
    BY <1>1, LenProperties
  <1>3. \A k \in 1 .. Len(s) + 1 : k \in 1 .. Len(s) \/ k = Len(s) + 1
    BY <1>2
  <1>4. QED
    BY <1>1, <1>2, <1>3

LEMMA ProgramEndCase ==
    ASSUME ProgramInv, EndCase PROVE ProgramInv'
PROOF
  <1> DEFINE row == [verdict |-> outcome, by |-> Denier,
                     match |-> program = "library" \/ Matches(case)]
  <1>1. /\ stage = "case" /\ pc = "done" /\ outcome # "raised" /\ stage' = "cases"
        /\ results' = Append(results, row)
        /\ litter' = litter \cup LeftBy(run.harness, files)
        /\ Fresh(Missing, "idle") /\ attempt' = 0 /\ decision' = NoDecision
        /\ UNCHANGED <<now, program, starts, temps, artifact, exit>>
    BY DEF EndCase, NoCase
  <1>2. RunInv'
    <2>1. now' \in Nat
      BY <1>1 DEF ProgramInv, RunInv, TypeOK
    <2>2. QED
      BY <1>1, <2>1, NoRun
  <1>3. /\ Cases' = Cases
        /\ InPlace' = InPlace /\ WritesArtifact' = WritesArtifact
    BY <1>1, TableSame
  <1>4. row \in RowDone
    <2>1. outcome \in {"ACCEPT", "DENY"}
      BY <1>1 DEF ProgramInv, RunInv, TypeOK, RunFollows
    <2>2. Denier \in AllGates \cup {"none"}
      BY DenierTyped DEF ProgramInv, RunInv, TypeOK
    <2>3. (program = "library" \/ Matches(case)) \in BOOLEAN
      OBVIOUS
    <2>4. QED
      BY <2>1, <2>2, <2>3 DEF RowDone
  <1>5. row.by = Denier /\ (row.match <=> program = "library" \/ Matches(case))
    OBVIOUS
  <1> HIDE DEF row
  <1>6. results \in Seq(RowDone) /\ Len(results) < Len(Cases)
    BY <1>1 DEF ProgramInv, RowsFollow
  <1>7. /\ results' \in Seq(RowDone) /\ Len(results') = Len(results) + 1
        /\ \A k \in DOMAIN results' : \/ k \in DOMAIN results /\ results'[k] = results[k]
                                      \/ k = Len(results) + 1 /\ results'[k] = row
    BY <1>1, <1>4, <1>6, RowRecorded
  <1>8. Len(results') <= Len(Cases)
    <2>1. Len(results) \in Nat /\ Len(Cases) \in Nat
      BY <1>6, LenProperties, TableLength DEF ProgramInv, ProgramTyped
    <2>2. QED
      BY <1>6, <1>7, <2>1
  <1>9. ProgramTyped'
    <2>1. files \subseteq {"tl", "evidence"}
      BY DEF ProgramInv, RunInv, TypeOK
    <2>2. \A l \in litter' : l.file \in {"tl", "evidence", "artifact"}
      BY <1>1, <2>1 DEF ProgramInv, ProgramTyped, LeftBy
    <2>3. QED
      BY <1>1, <2>2 DEF ProgramInv, ProgramTyped
  <1>10. RowsFollow'
    BY <1>1, <1>3, <1>7, <1>8 DEF ProgramInv, ProgramTyped, RowsFollow, Fresh
  <1>11. PlanFollows' /\ CaseFollows'
    BY <1>1, PlannerAssumption DEF PlanFollows, CaseFollows
  <1>12. MatchesFollow'
    <2> SUFFICES ASSUME program = "run_ablation", NEW k \in DOMAIN results',
                        results'[k].match, AblationCases[k].by # "any"
                 PROVE  results'[k].by = AblationCases[k].by
      BY <1>1 DEF MatchesFollow
    <2>1. CASE k \in DOMAIN results /\ results'[k] = results[k]
      BY <2>1 DEF ProgramInv, MatchesFollow
    <2>2. CASE k = Len(results) + 1 /\ results'[k] = row
      <3>1. /\ case = AblationCases[k] /\ case.by \in AllGates \cup {"any"}
            /\ case.call.harness # "run_case"
        BY <1>6, <2>2, NextCall
      <3>2. run = case.call
        BY <1>1 DEF ProgramInv, CaseFollows
      <3>3. reason = "none"
        BY <3>1, <3>2 DEF ProgramInv, RunInv, ReasonFollows
      <3>4. Matches(case)
        BY <1>5, <2>2
      <3>5. case.by = Denier
        BY <3>1, <3>3, <3>4 DEF Matches, AllGates
      <3>6. QED
        BY <1>5, <2>2, <3>1, <3>5
    <2>3. QED
      BY <1>7, <2>1, <2>2
  <1>13. ArtifactFollows'
    BY <1>1, <1>3 DEF ProgramInv, ProgramTyped, ArtifactFollows
  <1>14. QED
    BY <1>2, <1>9, <1>10, <1>11, <1>12, <1>13 DEF ProgramInv

LEMMA ProgramRaised ==
    ASSUME ProgramInv, Raised PROVE ProgramInv'
PROOF
  <1>1. /\ stage = "case" /\ stage' = "ended" /\ exit' = "failed" /\ temps' = {}
        /\ litter' = litter \cup LeftBy(run.harness, files \cup (IF InPlace THEN temps ELSE {}))
        /\ Fresh(Missing, "idle") /\ attempt' = 0 /\ decision' = NoDecision
        /\ UNCHANGED <<now, program, starts, results, artifact>>
    BY DEF Raised, NoCase
  <1>2. RunInv'
    <2>1. now' \in Nat
      BY <1>1 DEF ProgramInv, RunInv, TypeOK
    <2>2. QED
      BY <1>1, <2>1, NoRun
  <1>3. /\ Cases' = Cases /\ case' = case
        /\ InPlace' = InPlace /\ WritesArtifact' = WritesArtifact
    BY <1>1, TableSame, CaseSame
  <1>4. ProgramTyped'
    <2>1. files \cup (IF InPlace THEN temps ELSE {}) \subseteq {"tl", "evidence", "artifact"}
      BY DEF ProgramInv, RunInv, TypeOK, ProgramTyped
    <2>2. \A l \in litter' : l.file \in {"tl", "evidence", "artifact"}
      BY <1>1, <2>1 DEF ProgramInv, ProgramTyped, LeftBy
    <2>3. QED
      BY <1>1, <2>2 DEF ProgramInv, ProgramTyped
  <1>5. RowsFollow'
    BY <1>1, <1>3 DEF ProgramInv, ProgramTyped, RowsFollow, Fresh
  <1>6. PlanFollows' /\ CaseFollows'
    BY <1>1, PlannerAssumption DEF PlanFollows, CaseFollows
  <1>7. MatchesFollow' /\ ArtifactFollows'
    BY <1>1, <1>3 DEF ProgramInv, ProgramTyped, MatchesFollow, ArtifactFollows
  <1>8. QED
    BY <1>2, <1>4, <1>5, <1>6, <1>7 DEF ProgramInv

LEMMA ProgramOpenArtifact ==
    ASSUME ProgramInv, OpenArtifact PROVE ProgramInv'
PROOF
  <1>1. /\ WritesArtifact /\ stage = "cases" /\ Len(results) = Len(Cases) /\ stage' = "write"
        /\ temps' = IF InPlace THEN temps ELSE {"artifact"}
        /\ artifact' = IF InPlace THEN Torn ELSE artifact
        /\ UNCHANGED <<vars, plannerVars, program, starts, results, litter, exit>>
    BY DEF OpenArtifact, AllDone, KeepCase
  <1>2. RunInv'
    BY <1>1, RunSame DEF ProgramInv
  <1>3. /\ Cases' = Cases /\ case' = case
        /\ InPlace' = InPlace /\ WritesArtifact' = WritesArtifact
    BY <1>1, TableSame, CaseSame
  <1>4. ProgramTyped' /\ RowsFollow'
    BY <1>1, <1>3 DEF ProgramInv, ProgramTyped, RowsFollow, vars
  <1>5. PlanFollows' /\ CaseFollows'
    BY <1>1, <1>3 DEF ProgramInv, PlanFollows, CaseFollows, plannerVars
  <1>6. MatchesFollow'
    BY <1>1, <1>3 DEF ProgramInv, MatchesFollow
  <1>7. ArtifactFollows'
    BY <1>1, <1>3 DEF ProgramInv, ProgramTyped, ArtifactFollows, Torn
  <1>8. QED
    BY <1>2, <1>4, <1>5, <1>6, <1>7 DEF ProgramInv

LEMMA ProgramWriteArtifact ==
    ASSUME ProgramInv, WriteArtifact PROVE ProgramInv'
PROOF
  <1>1. /\ stage = "write" /\ stage' = "exit" /\ artifact' = Whole(results)
        /\ temps' = temps \ {"artifact"}
        /\ UNCHANGED <<vars, plannerVars, program, starts, results, litter, exit>>
    BY DEF WriteArtifact, KeepCase
  <1>2. RunInv'
    BY <1>1, RunSame DEF ProgramInv
  <1>3. /\ Cases' = Cases /\ case' = case
        /\ InPlace' = InPlace /\ WritesArtifact' = WritesArtifact
    BY <1>1, TableSame, CaseSame
  <1>4. ProgramTyped' /\ RowsFollow'
    BY <1>1, <1>3 DEF ProgramInv, ProgramTyped, RowsFollow, vars
  <1>5. PlanFollows' /\ CaseFollows'
    BY <1>1, <1>3 DEF ProgramInv, PlanFollows, CaseFollows, plannerVars
  <1>6. MatchesFollow'
    BY <1>1, <1>3 DEF ProgramInv, MatchesFollow
  <1>7. ArtifactFollows'
    <2>1. Len(results) = Len(Cases)
      BY <1>1 DEF ProgramInv, RowsFollow
    <2>2. artifact'.state = "whole" /\ artifact'.rows = results
      BY <1>1 DEF Whole
    <2>3. exit' # "ok"
      BY <1>1 DEF ProgramInv, ProgramTyped
    <2>4. artifact' = Whole(results)'
      BY <1>1 DEF Whole
    <2>5. QED
      BY <1>1, <1>3, <2>1, <2>2, <2>3, <2>4 DEF ArtifactFollows
  <1>8. QED
    BY <1>2, <1>4, <1>5, <1>6, <1>7 DEF ProgramInv

LEMMA ProgramExit ==
    ASSUME ProgramInv, Exit PROVE ProgramInv'
PROOF
  <1>1. /\ stage = "exit" \/ (stage = "cases" /\ Len(results) = Len(Cases) /\ ~WritesArtifact)
        /\ exit' = IF \A k \in DOMAIN results : results[k].match THEN "ok" ELSE "failed"
        /\ temps' = {} /\ stage' = "ended"
        /\ UNCHANGED <<vars, plannerVars, program, starts, results, litter, artifact>>
    BY DEF Exit, AllDone, KeepCase
  <1>2. RunInv'
    BY <1>1, RunSame DEF ProgramInv
  <1>3. /\ Cases' = Cases /\ case' = case
        /\ InPlace' = InPlace /\ WritesArtifact' = WritesArtifact
    BY <1>1, TableSame, CaseSame
  <1>4. ProgramTyped' /\ RowsFollow'
    BY <1>1, <1>3 DEF ProgramInv, ProgramTyped, RowsFollow, vars
  <1>5. PlanFollows' /\ CaseFollows'
    BY <1>1, <1>3 DEF ProgramInv, PlanFollows, CaseFollows, plannerVars
  <1>6. MatchesFollow'
    BY <1>1, <1>3 DEF ProgramInv, MatchesFollow
  <1>7. ArtifactFollows'
    <2>1. Whole(results)' = Whole(results)
      BY <1>1 DEF Whole
    <2>2. exit # "killed"
      BY <1>1 DEF ProgramInv, ProgramTyped
    <2>3. artifact.state = "torn" => InPlace /\ starts > 1
      BY <1>1, <2>2 DEF ProgramInv, ArtifactFollows
    <2>4. QED
      BY <1>1, <1>3, <2>1, <2>3 DEF ProgramInv, ArtifactFollows
  <1>8. QED
    BY <1>2, <1>4, <1>5, <1>6, <1>7 DEF ProgramInv

LEMMA ProgramKilled ==
    ASSUME ProgramInv, Killed PROVE ProgramInv'
PROOF
  <1>1. /\ exit = "running" /\ stage' = "ended" /\ exit' = "killed" /\ temps' = {}
        /\ results' = <<>>
        /\ litter' = litter \cup LeftBy("killed", files \cup temps)
        /\ Fresh(Missing, "idle") /\ attempt' = 0 /\ decision' = NoDecision
        /\ UNCHANGED <<now, program, starts, artifact>>
    BY DEF Killed, NoCase
  <1>2. RunInv'
    <2>1. now' \in Nat
      BY <1>1 DEF ProgramInv, RunInv, TypeOK
    <2>2. QED
      BY <1>1, <2>1, NoRun
  <1>3. /\ Cases' = Cases
        /\ InPlace' = InPlace /\ WritesArtifact' = WritesArtifact
    BY <1>1, TableSame
  <1>4. ProgramTyped'
    <2>1. files \cup temps \subseteq {"tl", "evidence", "artifact"}
      BY DEF ProgramInv, RunInv, TypeOK, ProgramTyped
    <2>2. \A l \in litter' : l.file \in {"tl", "evidence", "artifact"}
      BY <1>1, <2>1 DEF ProgramInv, ProgramTyped, LeftBy
    <2>3. QED
      BY <1>1, <2>2 DEF ProgramInv, ProgramTyped
  <1>5. /\ results' \in Seq(RowDone) /\ Len(results') = 0 /\ DOMAIN results' = {}
    BY <1>1, NoRows
  <1>6. Len(Cases') \in Nat
    BY <1>3, TableLength DEF ProgramInv, ProgramTyped
  <1>7. RowsFollow'
    BY <1>1, <1>5, <1>6 DEF RowsFollow, Fresh
  <1>8. PlanFollows' /\ CaseFollows'
    BY <1>1, PlannerAssumption DEF PlanFollows, CaseFollows
  <1>9. MatchesFollow'
    BY <1>5 DEF MatchesFollow
  <1>10. ArtifactFollows'
    BY <1>1, <1>3 DEF ProgramInv, ArtifactFollows
  <1>11. QED
    BY <1>2, <1>4, <1>7, <1>8, <1>9, <1>10 DEF ProgramInv

LEMMA ProgramRestart ==
    ASSUME ProgramInv, Restart PROVE ProgramInv'
PROOF
  <1>1. /\ exit # "running" /\ stage' = "setup" /\ exit' = "running" /\ results' = <<>>
        /\ starts' = starts + 1
        /\ UNCHANGED <<vars, plannerVars, program, temps, litter, artifact>>
    BY DEF Restart, KeepCase
  <1>2. RunInv'
    BY <1>1, RunSame DEF ProgramInv
  <1>3. /\ Cases' = Cases
        /\ InPlace' = InPlace /\ WritesArtifact' = WritesArtifact
    BY <1>1, TableSame
  <1>4. stage = "ended" /\ starts \in Nat \ {0}
    BY <1>1 DEF ProgramInv, ProgramTyped
  <1>5. ProgramTyped'
    BY <1>1, <1>4 DEF ProgramInv, ProgramTyped
  <1>6. /\ results' \in Seq(RowDone) /\ Len(results') = 0 /\ DOMAIN results' = {}
    BY <1>1, NoRows
  <1>7. Len(Cases') \in Nat /\ pc' = "idle"
    BY <1>1, <1>3, <1>4, TableLength DEF ProgramInv, ProgramTyped, RowsFollow, vars
  <1>8. RowsFollow'
    <2>1. stage' = "setup" /\ exit' = "running"
      BY <1>1
    <2>2. stage' = "setup" => results' = <<>>
      BY <1>1
    <2>3. QED
      BY <1>6, <1>7, <2>1, <2>2 DEF RowsFollow
  <1>9. PlanFollows' /\ CaseFollows'
    BY <1>1, <1>4 DEF ProgramInv, PlanFollows, CaseFollows, plannerVars
  <1>10. MatchesFollow'
    BY <1>6 DEF MatchesFollow
  <1>11. ArtifactFollows'
    BY <1>1, <1>3, <1>4 DEF ProgramInv, ArtifactFollows
  <1>12. QED
    BY <1>2, <1>5, <1>8, <1>9, <1>10, <1>11 DEF ProgramInv

LEMMA ProgramSame ==
    ASSUME ProgramInv, UNCHANGED allVars PROVE ProgramInv'
PROOF
  <1>1. UNCHANGED <<vars, run, pc, attempt, decision, program, starts, stage, results, temps,
                    litter, artifact, exit>>
    BY DEF allVars, vars, plannerVars, mainVars
  <1>2. RunInv'
    BY <1>1, RunSame DEF ProgramInv
  <1>3. /\ Cases' = Cases /\ case' = case
        /\ InPlace' = InPlace /\ WritesArtifact' = WritesArtifact
    BY <1>1, TableSame, CaseSame
  <1>4. ProgramTyped' /\ RowsFollow'
    BY <1>1, <1>3 DEF ProgramInv, ProgramTyped, RowsFollow
  <1>5. PlanFollows'
    BY <1>1, <1>3 DEF ProgramInv, PlanFollows
  <1>6. CaseFollows'
    <2>1. RunCase(case, decision)' = RunCase(case, decision)
      BY <1>1, <1>3 DEF RunCase
    <2>2. QED
      BY <1>1, <1>3, <2>1 DEF ProgramInv, CaseFollows
  <1>7. MatchesFollow' /\ ArtifactFollows'
    BY <1>1, <1>3 DEF ProgramInv, MatchesFollow, ArtifactFollows
  <1>8. QED
    BY <1>2, <1>4, <1>5, <1>6, <1>7 DEF ProgramInv

LEMMA ProgramNext == ProgramInv /\ [MainsNext]_allVars => ProgramInv'
BY ProgramSetup, ProgramBeginPlan, ProgramPlan, ProgramBeginCase, ProgramCaseStep,
   ProgramCaseTick, ProgramEndCase, ProgramRaised, ProgramOpenArtifact, ProgramWriteArtifact,
   ProgramExit, ProgramKilled, ProgramRestart, ProgramSame DEF MainsNext, ProgramStep

(* Every program, with any tables its assumptions allow, any answers of the *)
(* model, killed anywhere and started again any number of times, is at every*)
(* statement where ProgramInv says.                                         *)
THEOREM ProgramSafe == MainsSpec => []ProgramInv
BY ProgramInit, ProgramNext, PTL DEF MainsSpec

-----------------------------------------------------------------------------
(* The variables of the programs have their types; what was decided can be  *)
(* sealed.                                                                  *)
THEOREM ProgramTypeCorrect == MainsSpec => []MainsTypeOK
PROOF
  <1>1. ProgramInv => MainsTypeOK
    <2> SUFFICES ASSUME ProgramInv PROVE MainsTypeOK
      OBVIOUS
    <2>1. ASSUME decision # NoDecision
          PROVE  decision.path \in {"hermes", "fallback"} /\ Sealable(decision.action)
      <3>1. /\ program = "agent_demo" /\ Len(results) < Len(Cases) /\ Reads(case, decision)
        BY <2>1 DEF ProgramInv, PlanFollows, RowsFollow
      <3>2. case.expected_tool \in Text /\ case.expected_amount_eur \in Int
        BY <3>1, NextTask DEF Task
      <3>3. PICK to : to = decision.action.to
        OBVIOUS
      <3>4. /\ decision.path \in {"hermes", "fallback"} /\ to \in Text
            /\ decision.action = [tool |-> case.expected_tool,
                                  amount_eur |-> Euros(case.expected_amount_eur), to |-> to]
        BY <3>1, <3>3 DEF Reads
      <3>5. QED
        BY <3>2, <3>4 DEF Sealable, _exact_int, _exact_str, Euros
    <2>2. QED
      BY <2>1 DEF ProgramInv, RunInv, ProgramTyped, PlanFollows, MainsTypeOK
  <1>2. QED
    BY <1>1, ProgramSafe, PTL

(* In every program, whatever table or caller the call is of, nothing is    *)
(* accepted that is not sound, and the gate that denies names the cause.    *)
THEOREM AcceptedSoundly == MainsSpec => []AcceptsOnlySound
PROOF
  <1>1. ProgramInv => AcceptsOnlySound
    BY AcceptSound DEF ProgramInv
  <1>2. QED
    BY <1>1, ProgramSafe, PTL

THEOREM DeniedByCause == MainsSpec => []DenierNamesCause
PROOF
  <1>1. ProgramInv => DenierNamesCause
    BY DenierNames DEF ProgramInv
  <1>2. QED
    BY <1>1, ProgramSafe, PTL

(* Whoever decides, and whatever a model answers, the tool and the amount   *)
(* are those of the task.                                                   *)
THEOREM DecidedAsAsked == MainsSpec => []PlanReadsTask
PROOF
  <1>1. ProgramInv => PlanReadsTask
    <2> SUFFICES ASSUME ProgramInv, decision # NoDecision
                 PROVE  /\ decision.action.tool = case.expected_tool
                        /\ decision.action.amount_eur = Euros(case.expected_amount_eur)
                        /\ decision.path = "fallback" => decision.action.to = case.payee
      BY DEF PlanReadsTask
    <2>1. Reads(case, decision)
      BY DEF ProgramInv, PlanFollows
    <2>2. PICK to : to = decision.action.to
      OBVIOUS
    <2>3. decision.action = [tool |-> case.expected_tool,
                             amount_eur |-> Euros(case.expected_amount_eur), to |-> to]
      BY <2>1, <2>2 DEF Reads
    <2>4. QED
      BY <2>1, <2>3 DEF Reads
  <1>2. QED
    BY <1>1, ProgramSafe, PTL

(* An artifact is whole, or torn where it is written in place.              *)
THEOREM ArtifactWhole == MainsSpec => []WholeOrInPlace
PROOF
  <1>1. ProgramInv => WholeOrInPlace
    BY DEF ProgramInv, ArtifactFollows, WholeOrInPlace
  <1>2. QED
    BY <1>1, ProgramSafe, PTL

(* A success has run and recorded the whole table, and the four rows of the *)
(* ablation that name a gate were denied by it first.                       *)
THEOREM SuccessIsTable == MainsSpec => []SuccessMeansTable
PROOF
  <1>1. ProgramInv => SuccessMeansTable
    <2> SUFFICES ASSUME ProgramInv, exit = "ok"
                 PROVE  /\ Len(results) = Len(Cases)
                        /\ \A k \in DOMAIN results : results[k].match
                        /\ WritesArtifact => artifact = Whole(results)
                        /\ program = "run_ablation" =>
                              AllGates \subseteq {results[k].by : k \in DOMAIN results}
      BY DEF SuccessMeansTable
    <2>1. /\ Len(results) = Len(Cases)
          /\ \A k \in DOMAIN results : results[k].match
          /\ WritesArtifact => artifact = Whole(results)
      BY DEF ProgramInv, RowsFollow, ArtifactFollows
    <2>2. ASSUME program = "run_ablation"
          PROVE  AllGates \subseteq {results[k].by : k \in DOMAIN results}
      <3>1. {2, 3, 5, 6} \subseteq DOMAIN results
        <4>1. Len(results) = 8
          BY <2>1, <2>2, TableLength DEF ProgramInv, ProgramTyped
        <4>2. DOMAIN results = 1 .. 8
          BY <4>1, LenProperties DEF ProgramInv, RowsFollow
        <4>3. QED
          BY <4>2
      <3>2. /\ AblationCases[2].by = "L1" /\ AblationCases[3].by = "L2"
            /\ AblationCases[5].by = "L3" /\ AblationCases[6].by = "L4"
        BY DEF AblationCases, Row
      <3>3. /\ results[2].by = "L1" /\ results[3].by = "L2"
            /\ results[5].by = "L3" /\ results[6].by = "L4"
        BY <2>1, <2>2, <3>1, <3>2 DEF ProgramInv, MatchesFollow
      <3>4. QED
        BY <3>1, <3>3 DEF AllGates
    <2>3. QED
      BY <2>1, <2>2
  <1>2. QED
    BY <1>1, ProgramSafe, PTL

-----------------------------------------------------------------------------
(* How a call ends that is not overtaken by the expiry of its credential:   *)
(* accepted if nothing is wrong with it, and otherwise denied first by the  *)
(* gate that should have found out.                                         *)
LEMMA CallEnds ==
    ASSUME RunInv, pc = "done", Callable(run), ~(vp # Missing /\ Expired)
    PROVE  /\ outcome = IF Blameless(run) THEN "ACCEPT" ELSE "DENY"
           /\ ~Blameless(run) => Denier = Cause(run)
           /\ /\ run.harness = "run_case" /\ ~run.replay /\ ~run.contraindicated
              /\ run.issuer = Listed
              => reason = ReasonOf(run)
PROOF
  <1>1. outcome \in {"ACCEPT", "DENY"}
    BY DEF RunInv, TypeOK, RunFollows, RaiseFollows, Callable
  <1>2. Verdict /\ Issued /\ Judged /\ Settled /\ vp # Missing /\ ~Expired
    BY <1>1 DEF Verdict, Issued, Judged, Settled, RunInv, TokenFollows
  <1>3. /\ "L1" \in passed <=> run.harness # "forged_credential"
        /\ "L2" \in passed <=> "L1" \in passed /\ ~run.replay /\ ~run.contraindicated
        /\ "L3" \in passed <=> "L1" \in passed /\ run.issuer = Listed
    BY <1>2 DEF RunInv, GatesFollow
  <1>4. /\ passed \subseteq AllGates /\ denied \subseteq AllGates /\ passed \cap denied = {}
    BY DEF RunInv, TypeOK
  <1>5. /\ "L4" \in passed => RunsL4(run.harness) /\ ~Unlike(run) /\ ~OutOfScope(run)
        /\ {"L1", "L2", "L3"} \subseteq passed /\ RunsL4(run.harness) /\ "L4" \notin passed =>
              (Unlike(run) \/ OutOfScope(run)) /\ "L4" \in denied
    BY <1>2 DEF RunInv, L4Follows, DenialFollows
  <1>6. /\ run.harness = "forged_credential" => "L1" \in denied
        /\ run.harness # "forged_credential" =>
              /\ "L2" \in passed \/ "L2" \in denied
              /\ "L3" \in passed \/ "L3" \in denied
    BY <1>2, <1>3 DEF RunInv, DenialFollows
  <1>7. outcome = "ACCEPT" <=> passed = Needed(run.harness)
    BY <1>1 DEF RunInv, VerdictFollows
  <1>8. run.harness \in {"evaluate", "run_case", "forged_credential", "untrusted_issuer",
                         "mock_verifier", "verify_scoped"}
    BY HarnessAssumption DEF Callable, WellCalled
  <1>9. RunsL4(run.harness) <=> run.harness \in {"evaluate", "run_case", "verify_scoped"}
    BY DEF RunsL4, CleansList
  <1>10. CASE run.harness = "forged_credential"
    <2>1. passed # Needed(run.harness) /\ ~Blameless(run) /\ Denier = "L1"
      BY <1>3, <1>4, <1>6, <1>10, DenierIs DEF Needed, AllGates, Blameless
    <2>2. QED
      BY <1>1, <1>7, <1>10, <2>1 DEF Cause
  <1>11. CASE run.harness # "forged_credential" /\ (run.replay \/ run.contraindicated)
    <2>1. passed # Needed(run.harness) /\ ~Blameless(run) /\ Denier = "L2"
      BY <1>3, <1>4, <1>6, <1>11, DenierIs DEF Needed, AllGates, Blameless
    <2>2. Cause(run) = "L2"
      BY <1>11 DEF Cause
    <2>3. QED
      BY <1>1, <1>7, <1>11, <2>1, <2>2
  <1>12. CASE /\ run.harness # "forged_credential" /\ ~run.replay /\ ~run.contraindicated
              /\ run.issuer # Listed
    <2>1. passed # Needed(run.harness) /\ ~Blameless(run) /\ Denier = "L3"
      BY <1>3, <1>4, <1>6, <1>12, DenierIs DEF Needed, AllGates, Blameless
    <2>2. Cause(run) = "L3"
      BY <1>12 DEF Cause
    <2>3. QED
      BY <1>1, <1>7, <1>12, <2>1, <2>2
  <1>13. CASE /\ run.harness # "forged_credential" /\ ~run.replay /\ ~run.contraindicated
              /\ run.issuer = Listed
    <2>1. {"L1", "L2", "L3"} \subseteq passed /\ denied \cap {"L1", "L2", "L3"} = {}
      BY <1>3, <1>4, <1>13
    <2>2. run.harness # "untrusted_issuer"
      BY <1>13 DEF Callable
    <2>3. passed = Needed(run.harness) <=> Blameless(run)
      <3>1. CASE RunsL4(run.harness)
        <4>1. "L4" \in passed <=> Blameless(run)
          BY <1>5, <1>13, <2>1, <2>2, <3>1 DEF Blameless
        <4>2. Needed(run.harness) = AllGates
          BY <1>9, <3>1 DEF Needed
        <4>3. QED
          BY <1>4, <2>1, <4>1, <4>2 DEF AllGates
      <3>2. CASE ~RunsL4(run.harness)
        <4>1. run.harness = "mock_verifier"
          BY <1>8, <1>9, <1>13, <2>2, <3>2
        <4>2. Needed(run.harness) = {"L1", "L2", "L3"} /\ "L4" \notin passed
          BY <1>5, <3>2, <4>1 DEF Needed
        <4>3. QED
          BY <1>4, <1>13, <2>1, <2>2, <3>2, <4>2 DEF AllGates, Blameless
      <3>3. QED
        BY <3>1, <3>2
    <2>4. ~Blameless(run) => Denier = "L4"
      <3>1. ~Blameless(run) => RunsL4(run.harness) /\ "L4" \notin passed
        BY <1>5, <1>13, <2>2 DEF Blameless
      <3>2. ~Blameless(run) => "L4" \in denied
        BY <1>5, <2>1, <3>1
      <3>3. QED
        BY <1>4, <2>1, <3>2, DenierIs
    <2>5. Cause(run) = "L4"
      BY <1>13 DEF Cause
    <2>6. run.harness = "run_case" => reason = ReasonOf(run)
      BY <1>2, <2>1 DEF RunInv, ReasonFollows
    <2>7. QED
      BY <1>1, <1>7, <2>3, <2>4, <2>5, <2>6
  <1>14. QED
    BY <1>10, <1>11, <1>12, <1>13

(* What verify_l4_scope says of a case of the demo: a payee of another      *)
(* reading is a mismatch, and otherwise it says what the table expects.     *)
LEMMA DemoReason ==
    ASSUME NEW c \in Task, NEW d, Reads(c, d), "run_case" \in Harnesses, Expected(c)
    PROVE  LET r == RunCase(c, d)
           IN \/ /\ ReasonOf(r) = "ok" /\ c.verdict = "ACCEPT" /\ c.by = "any"
              \/ ReasonOf(r) # "ok" /\ c.verdict = "DENY" /\ c.by = ReasonOf(r)
              \/ /\ d.path = "hermes" /\ c.execute_tamper # NotText
                 /\ nfc[d.action.to] = nfc[c.execute_tamper]
PROOF
  <1> DEFINE r == RunCase(c, d)
  <1>1. PICK to : to = d.action.to
    OBVIOUS
  <1>2. d.action = [tool |-> c.expected_tool, amount_eur |-> Euros(c.expected_amount_eur),
                    to |-> to]
    BY <1>1 DEF Reads
  <1>3. /\ r.mandated.tool = c.expected_tool /\ r.mandated.to = to
        /\ r.mandated.amount_eur = Euros(c.expected_amount_eur)
        /\ Sealable(r.executed) /\ r.executed.tool = c.expected_tool
        /\ r.executed.amount_eur = Euros(c.expected_amount_eur)
        /\ r.executed.to = IF c.execute_tamper = NotText THEN to ELSE c.execute_tamper
    <2>1. /\ r.mandated = d.action
          /\ Sealable(r.executed) /\ r.executed.tool = c.expected_tool
          /\ r.executed.amount_eur = Euros(c.expected_amount_eur)
          /\ r.executed.to = IF c.execute_tamper = NotText THEN d.action.to ELSE c.execute_tamper
      BY DemoCall
    <2> HIDE DEF r
    <2>2. QED
      BY <1>1, <1>2, <2>1
  <1> HIDE DEF r
  <1>4. action_hash(r.mandated) = action_hash(r.executed) <=>
            nfc[to] = nfc[IF c.execute_tamper = NotText THEN to ELSE c.execute_tamper]
    BY <1>3 DEF action_hash
  <1>5. r.executed.amount_eur.floor = c.expected_amount_eur
    BY <1>3 DEF Euros
  <1>6. CASE c.execute_tamper # NotText
    <2>1. nfc[c.execute_tamper] # nfc[c.payee] /\ c.verdict = "DENY" /\ c.by = "hash mismatch"
      BY <1>6 DEF Expected
    <2>2. CASE nfc[to] = nfc[c.execute_tamper]
      BY <1>1, <1>6, <2>1, <2>2 DEF Reads
    <2>3. CASE nfc[to] # nfc[c.execute_tamper]
      <3>1. ReasonOf(r) = "hash mismatch"
        BY <1>3, <1>4, <1>6, <2>3 DEF ReasonOf
      <3>2. QED
        BY <2>1, <3>1 DEF r
    <2>4. QED
      BY <2>2, <2>3
  <1>7. CASE c.execute_tamper = NotText
    <2>1. ReasonOf(r) = IF c.expected_tool \notin Scope.allowed_actions THEN "not allowed"
                        ELSE IF c.expected_amount_eur > Scope.max_spend THEN "spend limit"
                        ELSE "ok"
      BY <1>3, <1>4, <1>5, <1>7 DEF ReasonOf
    <2>2. QED
      BY <1>7, <2>1 DEF Expected, r
  <1>8. QED
    BY <1>6, <1>7

(* Every row of every table gives what the table expects, unless the        *)
(* credential expired under it or the model named the payee the tampered    *)
(* executor pays.                                                           *)
THEOREM RowsRight == MainsSpec => []RowsAsExpected
PROOF
  <1>1. ProgramInv => RowsAsExpected
    <2> SUFFICES ASSUME ProgramInv, stage = "case", pc = "done", program # "library",
                        ~(vp # Missing /\ Expired)
                 PROVE  \/ Matches(case)
                        \/ /\ program = "agent_demo" /\ decision.path = "hermes"
                           /\ case.execute_tamper # NotText
                           /\ nfc[decision.action.to] = nfc[case.execute_tamper]
      BY DEF RowsAsExpected
    <2>1. RunInv /\ Len(results) < Len(Cases) /\ program \in Programs
      BY DEF ProgramInv, RowsFollow, ProgramTyped
    <2>2. CASE program = "agent_demo"
      <3>1. /\ run = RunCase(case, decision) /\ Reads(case, decision)
            /\ "run_case" \in Harnesses
        BY <2>1, <2>2, MainsAssumption DEF ProgramInv, CaseFollows, PlanFollows
      <3>2. case \in Task /\ Expected(case)
        BY <2>1, <2>2, NextTask
      <3>3. /\ Callable(run) /\ run.harness = "run_case"
            /\ run.replay = FALSE /\ run.contraindicated = FALSE /\ run.issuer = Listed
        BY <3>1, <3>2, DemoCall
      <3>4. Blameless(run) <=> ReasonOf(run) = "ok"
        BY <3>3, ReasonOk DEF Blameless, Callable, RunsL4, CleansList
      <3>5. outcome = (IF ReasonOf(run) = "ok" THEN "ACCEPT" ELSE "DENY") /\ reason = ReasonOf(run)
        BY <2>1, <3>3, <3>4, CallEnds
      <3>6. \/ ReasonOf(run) = "ok" /\ case.verdict = "ACCEPT" /\ case.by = "any"
            \/ ReasonOf(run) # "ok" /\ case.verdict = "DENY" /\ case.by = ReasonOf(run)
            \/ /\ decision.path = "hermes" /\ case.execute_tamper # NotText
               /\ nfc[decision.action.to] = nfc[case.execute_tamper]
        BY <3>1, <3>2, DemoReason
      <3>7. QED
        BY <2>2, <3>5, <3>6 DEF Matches
    <2>3. CASE program # "agent_demo"
      <3>1. program \in {"run_ablation", "mock_verifier", "scope_enforce"}
        BY <2>1, <2>3, MainsAssumption
      <3>2. Rightly(case) /\ run = case.call
        BY <2>1, <3>1, NextCall DEF ProgramInv, CaseFollows
      <3>3. /\ outcome = IF Blameless(run) THEN "ACCEPT" ELSE "DENY"
            /\ ~Blameless(run) => Denier = Cause(run)
        BY <2>1, <3>2, CallEnds DEF Rightly
      <3>4. QED
        BY <3>2, <3>3 DEF Rightly, Matches
    <2>4. QED
      BY <2>2, <2>3
  <1>2. QED
    BY <1>1, ProgramSafe, PTL
=============================================================================
