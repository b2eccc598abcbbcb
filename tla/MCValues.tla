------------------------------ MODULE MCValues ------------------------------
(***************************************************************************)
(* Actions, scopes and trusted lists the model-checking runs share.         *)
(***************************************************************************)
EXTENDS ActionSeal, TrustedList

CONSTANTS endorser, qtsp, none

(* "Cafe" with a precomposed and with a combining accent is one payee, and  *)
(* so is "prelever" one tool.                                               *)
MC_Text == {"pay", "wire", "cafe", "cafe+acute", "prelever", "prelever+acute"}
MC_nfc == [t \in MC_Text |->
    CASE t = "cafe+acute" -> "cafe" [] t = "prelever+acute" -> "prelever" [] OTHER -> t]

Pay(n, payee) == [tool |-> "pay", amount_eur |-> Euros(n), to |-> payee]
OneAction == {Pay(1, "cafe")}
TwoEncodings == {Pay(1, "cafe"), Pay(1, "cafe+acute")}
NearMisses ==
    TwoEncodings \cup
    {[Pay(1, "cafe") EXCEPT !.amount_eur = [type |-> "float", floor |-> 1, frac |-> TRUE]],
     [Pay(1, "cafe") EXCEPT !.tool = "wire"]}
SeveralActions ==
    NearMisses \cup {Pay(2, "cafe"), [Pay(1, "cafe") EXCEPT !.to = none]}

(* One act in several encodings, and a fraction of a euro more of it.       *)
Prelever(tool, payee) == [Pay(1, payee) EXCEPT !.tool = tool]
ToolEncodings == {Prelever("prelever", "cafe"), Prelever("prelever+acute", "cafe")}
Lookalikes ==
    ToolEncodings \cup
    {Prelever("prelever", "cafe+acute"),
     [Prelever("prelever", "cafe") EXCEPT !.amount_eur = [type |-> "float", floor |-> 1, frac |-> TRUE]]}

(* Scopes name a tool in one encoding.                                      *)
EncodedScopes == {[allowed_actions |-> {t}, max_spend |-> 1] : t \in {"prelever", "prelever+acute"}}
OneEncoding == {s \in EncodedScopes : s.allowed_actions = {"prelever"}}

OneScope == {[allowed_actions |-> {"pay"}, max_spend |-> 1]}

EndorserOnly == {[service_type |-> AGENT_ENDORSER, x5t |-> endorser]}
EndorserAndQtsp ==
    EndorserOnly \cup {[service_type |-> CA_QC, x5t |-> qtsp]}
=============================================================================
