------------------------------ MODULE MainsInv ------------------------------
(***************************************************************************)
(* What is true after every statement of a program: the case under way is   *)
(* the row its table has next, what was decided reads the task of that row, *)
(* and what was recorded and written is what the finished rows gave.        *)
(***************************************************************************)
EXTENDS Mains, HarnessInv

ProgramTyped ==
    /\ program \in Programs /\ starts \in Nat \ {0}
    /\ stage \in {"setup", "cases", "plan", "case", "write", "exit", "ended"}
    /\ exit \in {"running", "ok", "failed", "killed"}
    /\ stage = "ended" <=> exit # "running"
    /\ temps \subseteq {"evidence", "artifact"}
    /\ \A l \in litter : l.file \in {"tl", "evidence", "artifact"}

(* One row after the other: a row is recorded once it is done.              *)
RowDone == [verdict : {"ACCEPT", "DENY"}, by : AllGates \cup {"none"}, match : BOOLEAN]

RowsFollow ==
    /\ results \in Seq(RowDone)
    /\ Len(results) <= Len(Cases)
    /\ stage \in {"plan", "case"} => Len(results) < Len(Cases)
    /\ stage = "setup" => results = <<>>
    /\ stage \in {"write", "exit"} \/ exit = "ok" => Len(results) = Len(Cases)
    /\ stage \in {"write", "exit"} => WritesArtifact
    /\ stage = "case" <=> pc # "idle"

(* The planner works for the next task of the demo, and what it decided     *)
(* reads that task.                                                         *)
Reads(c, d) ==
    /\ d.path \in {"hermes", "fallback"}
    /\ d.action = [tool |-> c.expected_tool, amount_eur |-> Euros(c.expected_amount_eur),
                   to |-> d.action.to]
    /\ d.action.to \in Text
    /\ d.path = "fallback" => d.action.to = c.payee

PlanFollows ==
    /\ attempt \in 0 .. 2 * Endpoints + 1
    /\ attempt # 0 => stage = "plan" /\ decision = NoDecision
    /\ stage = "plan" => program = "agent_demo"
    /\ decision # NoDecision =>
          stage \in {"plan", "case"} /\ program = "agent_demo" /\ Reads(case, decision)

(* The case under way is the call of its row.                               *)
CaseFollows ==
    stage = "case" =>
        /\ program = "agent_demo" => decision # NoDecision /\ run = RunCase(case, decision)
        /\ program \in {"run_ablation", "mock_verifier", "scope_enforce"} => run = case.call

(* A row of the ablation that matches has the denier its table names.       *)
MatchesFollow ==
    program = "run_ablation" =>
        \A k \in DOMAIN results :
            results[k].match /\ AblationCases[k].by # "any" =>
                results[k].by = AblationCases[k].by

(* What is in the artifact, and what a program that succeeded recorded.     *)
ArtifactFollows ==
    /\ artifact.state \in {"absent", "torn", "whole"}
    /\ artifact.state = "torn" =>
          InPlace /\ (stage = "write" \/ exit = "killed" \/ starts > 1)
    /\ artifact.state = "whole" => Len(artifact.rows) = Len(Cases)
    /\ stage = "exit" \/ (exit = "ok" /\ WritesArtifact) => artifact = Whole(results)
    /\ exit = "ok" => \A k \in DOMAIN results : results[k].match

ProgramInv ==
    /\ RunInv /\ ProgramTyped /\ RowsFollow /\ PlanFollows /\ CaseFollows
    /\ MatchesFollow /\ ArtifactFollows
=============================================================================
