-------------------------- MODULE MCTrustedListXML --------------------------
(***************************************************************************)
(* All lists of up to two services with up to two certificate elements.     *)
(***************************************************************************)
EXTENDS TrustedListXML

CONSTANTS ec, ecRenewed, other, keyEC

(* A renewed certificate over one EC key, and a key without a thumbprint.   *)
MC_jkt == [c \in Cert |-> IF c = other THEN NoJkt ELSE keyEC]

UpTo(n, S) == UNION {[1 .. k -> S] : k \in 0 .. n}

MC_Services ==
    [info : {TRUE}, type : ServiceType, status : Status, certs : UpTo(2, Element)]
    \cup [info : {FALSE}, type : {"AgentRuntimeEndorser/Q"}, status : {GrantedStatus}, certs : {<<>>}]

MC_Lists == UpTo(2, MC_Services)
=============================================================================
