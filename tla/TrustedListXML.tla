--------------------------- MODULE TrustedListXML ---------------------------
(***************************************************************************)
(* src/tl_xml.py: the parse of one national trusted list into anchors and   *)
(* two indices, service by service and certificate by certificate.  A       *)
(* certificate that cannot be read is skipped; a service is counted even if *)
(* it carries none.                                                         *)
(***************************************************************************)
EXTENDS Integers, Sequences, FiniteSets

CONSTANTS
    Cert,           \* readable certificates, each named by its x5t fingerprint
    jkt,            \* the JWK thumbprint of a certificate's key, or NoJkt
    NoJkt,          \* _jwk_thumbprint's None for a key that is neither EC nor RSA
    Malformed,      \* a certificate element that fails to decode
    Blank,          \* a certificate element without text
    ServiceType, Status, GrantedStatus,
    Lists           \* the lists that are parsed

Element == Cert \cup {Malformed, Blank}
Service == [info : BOOLEAN, type : ServiceType, status : Status, certs : Seq(Element)]

ASSUME TrustedListAssumption ==
    /\ Malformed \notin Cert /\ Blank \notin Cert /\ Malformed # Blank
    /\ DOMAIN jkt = Cert
    /\ GrantedStatus \in Status
    /\ Lists \subseteq Seq(Service)

VARIABLES
    list, granted_only,     \* the arguments of from_file
    i, j,                   \* the service and the certificate looked at; j = 0: not recorded
    anchors, services,      \* tl.anchors, tl.services
    by_x5t, by_jkt          \* tl._by_x5t, tl._by_jkt

vars == <<list, granted_only, i, j, anchors, services, by_x5t, by_jkt>>
args == <<list, granted_only>>

Anchor == [service_type : ServiceType, status : Status, x5t : Cert, granted : BOOLEAN]
ServiceEntry == [type : ServiceType, granted : BOOLEAN, has_cert : BOOLEAN]

(* Mutant: only a certificate that can be read counts as one.               *)
Bug_has_cert(svc) == \E k \in DOMAIN svc.certs : svc.certs[k] \in Cert

granted(svc) == svc.status = GrantedStatus
has_cert(svc) == \E k \in DOMAIN svc.certs : svc.certs[k] # Blank

(* Mutant: granted_only is not passed on.                                    *)
Bug_Eligible(svc) == TRUE

Eligible(svc) == ~granted_only \/ granted(svc)

TypeOK ==
    /\ list \in Seq(Service) /\ granted_only \in BOOLEAN
    /\ i \in 1 .. Len(list) + 1 /\ j \in Nat
    /\ anchors \in Seq(Anchor)
    /\ services \in Seq(ServiceEntry)
    /\ by_x5t \subseteq Cert

Init ==
    /\ list \in Lists /\ granted_only \in BOOLEAN
    /\ i = 1 /\ j = 0
    /\ anchors = <<>> /\ services = <<>>
    /\ by_x5t = {} /\ by_jkt = {}

(* A service without ServiceInformation leaves no trace.                    *)
SkipService ==
    /\ i <= Len(list) /\ ~list[i].info
    /\ i' = i + 1
    /\ UNCHANGED <<args, j, anchors, services, by_x5t, by_jkt>>

(* The service itself is recorded before its certificates are looked at.    *)
RecordService ==
    /\ i <= Len(list) /\ list[i].info /\ j = 0
    /\ services' = Append(services, [type |-> list[i].type, granted |-> granted(list[i]),
                                     has_cert |-> has_cert(list[i])])
    /\ j' = 1
    /\ UNCHANGED <<args, i, anchors, by_x5t, by_jkt>>

AtCert == i <= Len(list) /\ j \in DOMAIN list[i].certs

(* Mutant: the except clause gives up on the service, not the certificate.  *)
Bug_SkipCert ==
    /\ AtCert
    /\ list[i].certs[j] \in {Malformed, Blank}
    /\ j' = Len(list[i].certs) + 1
    /\ UNCHANGED <<args, i, anchors, services, by_x5t, by_jkt>>

(* Mutant: a certificate is indexed before it is decoded.                   *)
Bug_SkipCert_indexed ==
    /\ AtCert
    /\ list[i].certs[j] \in {Malformed, Blank}
    /\ by_x5t' = by_x5t \cup {list[i].certs[j]}
    /\ j' = j + 1
    /\ UNCHANGED <<args, i, anchors, services, by_jkt>>

(* No text, or an exception while decoding: this certificate is skipped.    *)
SkipCert ==
    /\ AtCert
    /\ list[i].certs[j] \in {Malformed, Blank}
    /\ j' = j + 1
    /\ UNCHANGED <<args, i, anchors, services, by_x5t, by_jkt>>

FilterCert ==
    /\ AtCert
    /\ list[i].certs[j] \in Cert /\ ~Eligible(list[i])
    /\ j' = j + 1
    /\ UNCHANGED <<args, i, anchors, services, by_x5t, by_jkt>>

(* Mutant: the thumbprint is indexed without the test for None.             *)
Bug_AddAnchor ==
    /\ AtCert
    /\ list[i].certs[j] \in Cert /\ Eligible(list[i])
    /\ LET c == list[i].certs[j]
       IN /\ anchors' = Append(anchors, [service_type |-> list[i].type, status |-> list[i].status,
                                         x5t |-> c, granted |-> granted(list[i])])
          /\ by_x5t' = by_x5t \cup {c}
          /\ by_jkt' = by_jkt \cup {jkt[c]}
    /\ j' = j + 1
    /\ UNCHANGED <<args, i, services>>

AddAnchor ==
    /\ AtCert
    /\ list[i].certs[j] \in Cert /\ Eligible(list[i])
    /\ LET c == list[i].certs[j]
       IN /\ anchors' = Append(anchors, [service_type |-> list[i].type, status |-> list[i].status,
                                         x5t |-> c, granted |-> granted(list[i])])
          /\ by_x5t' = by_x5t \cup {c}
          /\ by_jkt' = by_jkt \cup ({jkt[c]} \ {NoJkt})
    /\ j' = j + 1
    /\ UNCHANGED <<args, i, services>>

NextService ==
    /\ i <= Len(list) /\ j > Len(list[i].certs)
    /\ i' = i + 1 /\ j' = 0
    /\ UNCHANGED <<args, anchors, services, by_x5t, by_jkt>>

Next == SkipService \/ RecordService \/ SkipCert \/ FilterCert \/ AddAnchor \/ NextService

Spec == Init /\ [][Next]_vars

-----------------------------------------------------------------------------
(* The queries of the parsed list.                                          *)
Parsed == i > Len(list)

by_type(t) == {n \in DOMAIN anchors : anchors[n].service_type = t}
cert_listed(c) == c \in by_x5t
issuer_listed(thumb) == thumb \in by_jkt

Counted(only) == {k \in DOMAIN services : only => services[k].granted}
service_type_counts(t, only) == Cardinality({k \in Counted(only) : services[k].type = t})
rqscd_identity_split(rq) ==
    LET ks == {k \in Counted(TRUE) : services[k].type \in rq}
    IN [cert |-> Cardinality({k \in ks : services[k].has_cert}),
        other |-> Cardinality({k \in ks : ~services[k].has_cert})]

-----------------------------------------------------------------------------
(* What the list says, read off the list itself.                            *)
Readable(k) == {list[k].certs[n] : n \in DOMAIN list[k].certs} \cap Cert
Counts(k) == list[k].info /\ (granted_only => list[k].status = GrantedStatus)
Sources(c) == {k \in DOMAIN list : Counts(k) /\ c \in Readable(k)}

(* One unreadable certificate costs that certificate and nothing else: when *)
(* the parse ends the list vouches for exactly the readable certificates of *)
(* the eligible services, each under the type of a service that carries it. *)
ListedExactly ==
    Parsed =>
        \A c \in Cert :
            /\ cert_listed(c) <=> Sources(c) # {}
            /\ \A t \in ServiceType :
                  (\E n \in by_type(t) : anchors[n].x5t = c)
                      <=> \E k \in Sources(c) : list[k].type = t

(* The two indices stay in step with the anchors at every point of the      *)
(* parse, whatever certificate failed in between: an issuer is listed by    *)
(* its thumbprint if and only if an anchor has that key, and a key without  *)
(* thumbprint is not counted as one (summary: distinct_jwk).                *)
IdentitiesAgree ==
    /\ by_x5t = {anchors[n].x5t : n \in DOMAIN anchors}
    /\ NoJkt \notin by_jkt
    /\ \A thumb \in {jkt[c] : c \in Cert} \ {NoJkt} :
          issuer_listed(thumb) <=> \E n \in DOMAIN anchors : jkt[anchors[n].x5t] = thumb

(* The census counts services, not certificates: a granted service that     *)
(* carries no certificate, or only unreadable ones, is counted once, on the *)
(* name-only side of the split only if it has no certificate element.       *)
CensusComplete ==
    Parsed =>
        LET rows(t) == {k \in DOMAIN list : list[k].info /\ granted(list[k]) /\ list[k].type = t}
        IN \A t \in ServiceType :
              /\ service_type_counts(t, TRUE) = Cardinality(rows(t))
              /\ rqscd_identity_split({t}).other =
                    Cardinality({k \in rows(t) :
                        {list[k].certs[n] : n \in DOMAIN list[k].certs} \subseteq {Blank}})

vouched == {<<anchors[n].service_type, anchors[n].x5t>> : n \in DOMAIN anchors}

(* The parse implements VouchedList: certificate by certificate, it vouches *)
(* for published entries only, takes none back, and has them all at the end.*)
Vouched == INSTANCE VouchedList WITH
    Entry <- ServiceType \X Cert,
    published <- {e \in ServiceType \X Cert : \E k \in Sources(e[2]) : list[k].type = e[1]},
    vouched <- vouched,
    complete <- Parsed

RefinesList == Vouched!Spec

-----------------------------------------------------------------------------
(* What is true halfway through the parse, where the four invariants only   *)
(* speak of its end: the list vouches for what it has passed and has        *)
(* counted what it has recorded.                                            *)
Passed(k, n) == k < i \/ (k = i /\ n < j)
Recorded == {k \in DOMAIN list : list[k].info /\ (k < i \/ (k = i /\ j > 0))}

(* Only a service with ServiceInformation has its certificates looked at.   *)
InStep == j > 0 => (i <= Len(list) /\ list[i].info /\ j <= Len(list[i].certs) + 1)

(* The list vouches for exactly the readable certificates it has passed.    *)
VouchedSoFar ==
    vouched = {e \in ServiceType \X Cert : \E k \in DOMAIN list :
        /\ Counts(k) /\ list[k].type = e[1]
        /\ \E n \in DOMAIN list[k].certs : Passed(k, n) /\ list[k].certs[n] = e[2]}

(* The census has one entry for every service recorded.                     *)
CountedSoFar ==
    \A t \in ServiceType, nameOnly \in BOOLEAN :
        Cardinality({k \in Counted(TRUE) :
            services[k].type = t /\ (nameOnly => ~services[k].has_cert)})
      = Cardinality({k \in Recorded :
            granted(list[k]) /\ list[k].type = t /\ (nameOnly => ~has_cert(list[k]))})

ParseInv == TypeOK /\ InStep /\ IdentitiesAgree /\ VouchedSoFar /\ CountedSoFar
=============================================================================
