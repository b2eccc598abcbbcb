----------------------------- MODULE TrustedList -----------------------------
(***************************************************************************)
(* What a relying party knows of a trusted list once src/tl_xml.py has      *)
(* parsed it: its services, each with a type and the issuer its             *)
(* certificate names.  MockVerifier loads the list once, with               *)
(* granted_only=False, and never reloads it.                                *)
(***************************************************************************)
CONSTANTS
    Issuer,     \* issuers, each one key pair and one certificate
    Anchors     \* the services of the list: [service_type, x5t]

AGENT_ENDORSER == "AgentRuntimeEndorser/Q"
CA_QC == "CA/QC"

ASSUME AnchorsAssumption ==
    Anchors \subseteq [service_type : {AGENT_ENDORSER, CA_QC}, x5t : Issuer]

by_type(service_type) == {a \in Anchors : a.service_type = service_type}

Endorsers == {a.x5t : a \in by_type(AGENT_ENDORSER)}
=============================================================================
