----------------------------- MODULE ActionSeal -----------------------------
(***************************************************************************)
(* The tamper-seal of an action: src/agent_demo.py action_hash over         *)
(* deps/jcs.py.  SHA-256 is collision-free here, so the hash of an action   *)
(* is the canonical (NFC) form of the action itself.                        *)
(***************************************************************************)
EXTENDS Integers

CONSTANTS
    Text,       \* the strings that occur as tools and recipients
    NotText,    \* any value of an action field that is missing or no string
    nfc         \* unicodedata.normalize("NFC", .) on Text

ASSUME TextAssumption ==
    /\ NotText \notin Text
    /\ nfc \in [Text -> Text]
    /\ \A t \in Text : nfc[nfc[t]] = nfc[t]

(* A Python value given as amount_eur: its type, the integer below it and   *)
(* whether a fraction is left.  "other" is a string, None or a missing key. *)
Amount == [type : {"int", "float", "bool", "other"}, floor : Int, frac : BOOLEAN]
Euros(n) == [type |-> "int", floor |-> n, frac |-> FALSE]

Action == [tool : Text \cup {NotText}, amount_eur : Amount, to : Text \cup {NotText}]

(* Mutant: the int() coercion the seal once had, 250.99 sealed as 250.       *)
Bug_exact_int(v) == v.type \in {"int", "float"}

_exact_int(v) == v.type = "int" /\ ~v.frac
_exact_str(v) == v \in Text

(* action_hash raises on every other action, it never coerces.              *)
Sealable(a) ==
    /\ _exact_str(a.tool)
    /\ _exact_int(a.amount_eur)
    /\ _exact_str(a.to)

Seal == [tool : Text, amount_eur : Int, to : Text]

action_hash(a) ==
    [tool |-> nfc[a.tool], amount_eur |-> a.amount_eur.floor, to |-> nfc[a.to]]

(* What a person reads as one action: the same amount and canonically       *)
(* equivalent tool and recipient.                                           *)
SameAction(a, b) ==
    /\ nfc[a.tool] = nfc[b.tool]
    /\ nfc[a.to] = nfc[b.to]
    /\ a.amount_eur = b.amount_eur
=============================================================================
