------------------------------- MODULE Planner -------------------------------
(***************************************************************************)
(* decide_action of src/agent_demo.py: ask a language model, over one or    *)
(* two endpoints with and without JSON mode, and fall back to a policy that *)
(* reads the words of the task.                                             *)
(***************************************************************************)
EXTENDS ActionSeal, Sequences

CONSTANTS
    Endpoints,  \* how many hermes_base_candidates yields
    RawText,    \* texts of an answer, as they come
    strip,      \* str(.).strip() of each, NotText when nothing is left
    Answers,    \* the JSON objects a model may answer with
    DefaultTool,\* the first allowed action of the scope
    payee_of    \* tool.split("/", 1)[-1]

(* An amount of an answer in tenths.  "text" is a string with digits in it, *)
(* "infinite" what float() reads and int() does not, "other" what either    *)
(* refuses.                                                                 *)
RawAmount == [type : {"number", "text", "infinite", "other"}, tenths : Int]

ASSUME PlannerAssumption ==
    /\ Endpoints \in {1, 2}
    /\ strip \in [RawText -> Text \cup {NotText}]
    /\ Answers \subseteq [tool : RawText, amount_eur : RawAmount, to : RawText]
    /\ DefaultTool \in Text /\ payee_of \in [Text -> Text]

VARIABLES
    attempt,    \* the next attempt at the model, 0 when nobody is asked
    decision    \* [action, path], or NoDecision

plannerVars == <<attempt, decision>>
NoDecision == [path |-> "none"]

-----------------------------------------------------------------------------
(* The policy.  A word of a task is a tool, "EUR", a number, "EUR" glued to *)
(* its number, "to" or any other text; each can be read as a text.          *)
Word(kind, text) == [kind |-> kind, text |-> text, n |-> 0]
Number(kind, n, text) == [kind |-> kind, text |-> text, n |-> n]
TaskWord == [kind : {"tool", "EUR", "number", "glued", "to", "other"}, text : Text, n : Int]

Where(words, kind) == {k \in DOMAIN words : words[k].kind = kind}
First(S) == CHOOSE k \in S : \A l \in S : k <= l
Last(S) == CHOOSE k \in S : \A l \in S : l <= k

PolicyTool(words) ==
    LET tools == Where(words, "tool")
    IN IF tools = {} THEN DefaultTool ELSE words[First(tools)].text

Priced(words) == (Where(words, "EUR") \ {Len(words)}) \cup Where(words, "glued")
PriceAt(words, k) == IF k \in Where(words, "glued") THEN words[k].n ELSE words[k + 1].n

PolicyAmount(words) ==
    IF Priced(words) = {} THEN 0 ELSE PriceAt(words, First(Priced(words)))

Tos(words) == Where(words, "to") \ {Len(words)}

(* Mutant: the loop over the words stops at the first "to".                  *)
Bug_PolicyPayee(words) ==
    IF Tos(words) = {} THEN payee_of[PolicyTool(words)] ELSE words[First(Tos(words)) + 1].text

(* The last "to" wins; the loop stops short of the last word.               *)
PolicyPayee(words) ==
    IF Tos(words) = {} THEN payee_of[PolicyTool(words)] ELSE words[Last(Tos(words)) + 1].text

deterministic_policy(words) ==
    [path |-> "fallback",
     action |-> [tool |-> PolicyTool(words), amount_eur |-> Euros(PolicyAmount(words)),
                 to |-> PolicyPayee(words)]]

-----------------------------------------------------------------------------
(* An answer.  round() goes to the even neighbour; a text keeps its digits  *)
(* and its point and loses its sign.                                        *)
Round(tenths) ==
    LET q == tenths \div 10 r == tenths % 10
    IN IF r > 5 \/ (r = 5 /\ q % 2 = 1) THEN q + 1 ELSE q

numeric_amount(v) == Round(IF v.type = "text" /\ v.tenths < 0 THEN -v.tenths ELSE v.tenths)

Complete(a) == strip[a.tool] # NotText /\ strip[a.to] # NotText
Usable(a) == Complete(a) /\ a.amount_eur.type \in {"number", "text"}

(* int() of an infinity raises OverflowError, which the loop does not catch.*)
Escapes(a) == Complete(a) /\ a.amount_eur.type = "infinite"

normalise_action(a) ==
    [tool |-> strip[a.tool], amount_eur |-> Euros(numeric_amount(a.amount_eur)),
     to |-> strip[a.to]]

(* The payee is not among the fields compared.                              *)
Preserves(case, action) ==
    action.tool = case.expected_tool /\ action.amount_eur = Euros(case.expected_amount_eur)

Attempting == attempt \in 1 .. 2 * Endpoints
Decide(d) == decision' = d /\ attempt' = 0

(* Mutant: the endpoints are tried over and over.                            *)
Bug_AttemptFails ==
    /\ Attempting
    /\ attempt' = (attempt % (2 * Endpoints)) + 1
    /\ UNCHANGED decision

(* No connection, a timeout, an error status, no JSON object, an answer     *)
(* that does not normalise: the next attempt.                               *)
AttemptFails ==
    /\ Attempting
    /\ attempt' = attempt + 1
    /\ UNCHANGED decision

Answered(case) ==
    /\ Attempting
    /\ \E a \in Answers :
          /\ Usable(a)
          /\ LET action == normalise_action(a)
             IN Decide(IF Preserves(case, action) THEN [path |-> "hermes", action |-> action]
                       ELSE deterministic_policy(case.words))

(* An exception the loop does not catch leaves call_hermes, as the last     *)
(* ConnectionError does.                                                    *)
GivesUp(case) ==
    /\ \/ Attempting /\ \E a \in Answers : Escapes(a)
       \/ attempt > 2 * Endpoints
    /\ Decide(deterministic_policy(case.words))

decide_action(case) == AttemptFails \/ Answered(case) \/ GivesUp(case)
=============================================================================
