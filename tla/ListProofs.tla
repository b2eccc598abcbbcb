----------------------------- MODULE ListProofs -----------------------------
(***************************************************************************)
(* The parse of a trusted list, proved for every list: ParseInv is          *)
(* inductive, it gives the invariants of TrustedListXML where the parse     *)
(* ends, and every step of the parse is one of VouchedList or none.         *)
(***************************************************************************)
EXTENDS TrustedListXML, FiniteSetTheorems, TLAPS

-----------------------------------------------------------------------------
(* The service and the certificate the parse looks at.                      *)
LEMMA ListedTyped ==
    ASSUME list \in Seq(Service), NEW k \in DOMAIN list
    PROVE  /\ k \in 1 .. Len(list)
           /\ list[k].info \in BOOLEAN /\ list[k].type \in ServiceType
           /\ list[k].status \in Status
           /\ list[k].certs \in Seq(Element)
           /\ \A n \in DOMAIN list[k].certs : list[k].certs[n] \in Element
PROOF
  <1>1. list[k] \in Service
    OBVIOUS
  <1>2. list[k].certs \in Seq(Element)
    BY <1>1 DEF Service
  <1>3. QED
    BY <1>1, <1>2 DEF Service

(* Two sets of one size grow by one element each and keep one size.         *)
LEMMA GrowTogether ==
    ASSUME NEW S, NEW T, IsFiniteSet(S), IsFiniteSet(T), Cardinality(S) = Cardinality(T),
           NEW x, NEW y, x \notin S, y \notin T
    PROVE  Cardinality(S \cup {x}) = Cardinality(T \cup {y})
BY FS_AddElement

(* What a new anchor adds to what the list vouches for.                     *)
LEMMA AnchorAdded ==
    ASSUME anchors \in Seq(Anchor), NEW a \in Anchor, anchors' = Append(anchors, a)
    PROVE  /\ anchors' \in Seq(Anchor)
           /\ vouched' = vouched \cup {<<a.service_type, a.x5t>>}
           /\ {anchors'[n].x5t : n \in DOMAIN anchors'}
                = {anchors[n].x5t : n \in DOMAIN anchors} \cup {a.x5t}
PROOF
  <1>1. /\ anchors' \in Seq(Anchor)
        /\ DOMAIN anchors' = DOMAIN anchors \cup {Len(anchors) + 1}
        /\ anchors'[Len(anchors) + 1] = a
        /\ \A n \in DOMAIN anchors : anchors'[n] = anchors[n]
    OBVIOUS
  <1>2. QED
    BY <1>1 DEF vouched

-----------------------------------------------------------------------------
LEMMA ParseInit ==
    ASSUME Init PROVE ParseInv
PROOF
  <1> USE TrustedListAssumption DEF Init
  <1>1. TypeOK
    BY DEF TypeOK
  <1>2. InStep
    BY DEF InStep
  <1>3. IdentitiesAgree
    BY DEF IdentitiesAgree, issuer_listed
  <1>4. VouchedSoFar
    <2>1. vouched = {}
      BY DEF vouched
    <2>2. \A k \in DOMAIN list : \A n \in DOMAIN list[k].certs : ~Passed(k, n)
      BY <1>1, ListedTyped DEF TypeOK, Passed
    <2>3. QED
      BY <2>1, <2>2 DEF VouchedSoFar
  <1>5. CountedSoFar
    <2>1. Counted(TRUE) = {}
      BY DEF Counted
    <2>2. Recorded = {}
      BY <1>1 DEF Recorded, TypeOK
    <2>3. QED
      BY <2>1, <2>2 DEF CountedSoFar
  <1>6. QED
    BY <1>1, <1>2, <1>3, <1>4, <1>5 DEF ParseInv

(* Each action keeps the types and stays inside the service it looks at.    *)
LEMMA ParseTyped ==
    ASSUME TypeOK, InStep, [Next]_vars
    PROVE  TypeOK' /\ InStep'
PROOF
  <1> USE DEF TypeOK, InStep, args
  <1> USE ListedTyped, TrustedListAssumption
  <1>1. CASE SkipService
    BY <1>1 DEF SkipService
  <1>2. CASE RecordService
    <2>1. [type |-> list[i].type, granted |-> granted(list[i]),
           has_cert |-> has_cert(list[i])] \in ServiceEntry
      BY <1>2 DEF RecordService, ServiceEntry, granted, has_cert
    <2>2. QED
      BY <1>2, <2>1 DEF RecordService
  <1>3. CASE SkipCert
    BY <1>3 DEF SkipCert, AtCert
  <1>4. CASE FilterCert
    BY <1>4 DEF FilterCert, AtCert
  <1>5. CASE AddAnchor
    <2>1. [service_type |-> list[i].type, status |-> list[i].status,
           x5t |-> list[i].certs[j], granted |-> granted(list[i])] \in Anchor
      BY <1>5 DEF AddAnchor, AtCert, Anchor, granted
    <2>2. QED
      BY <1>5, <2>1 DEF AddAnchor, AtCert
  <1>6. CASE NextService
    BY <1>6 DEF NextService
  <1>7. CASE UNCHANGED vars
    BY <1>7 DEF vars
  <1>8. QED
    BY <1>1, <1>2, <1>3, <1>4, <1>5, <1>6, <1>7 DEF Next

(* The two indices grow with the anchors and with nothing else.             *)
LEMMA ParseIndexed ==
    ASSUME TypeOK, InStep, IdentitiesAgree, [Next]_vars
    PROVE  IdentitiesAgree'
PROOF
  <1>1. CASE AddAnchor
    <2> DEFINE c == list[i].certs[j]
               a == [service_type |-> list[i].type, status |-> list[i].status,
                     x5t |-> c, granted |-> granted(list[i])]
    <2>1. a \in Anchor /\ a.x5t = c /\ c \in Cert
      BY <1>1, ListedTyped DEF AddAnchor, AtCert, Anchor, granted, TypeOK
    <2>2. /\ anchors' = Append(anchors, a)
          /\ by_x5t' = by_x5t \cup {c}
          /\ by_jkt' = by_jkt \cup ({jkt[c]} \ {NoJkt})
      BY <1>1 DEF AddAnchor
    <2> HIDE DEF a, c
    <2>3. {anchors'[n].x5t : n \in DOMAIN anchors'}
            = {anchors[n].x5t : n \in DOMAIN anchors} \cup {c}
      BY <2>1, <2>2, AnchorAdded DEF TypeOK
    <2>4. ASSUME NEW thumb \in {jkt[d] : d \in Cert} \ {NoJkt}
          PROVE  issuer_listed(thumb)' <=> \E n \in DOMAIN anchors' : jkt[anchors'[n].x5t] = thumb
      <3>1. thumb \in by_jkt <=> \E n \in DOMAIN anchors : jkt[anchors[n].x5t] = thumb
        BY DEF IdentitiesAgree, issuer_listed
      <3>2. (\E n \in DOMAIN anchors' : jkt[anchors'[n].x5t] = thumb)
              <=> (\E n \in DOMAIN anchors : jkt[anchors[n].x5t] = thumb) \/ jkt[c] = thumb
        <4>1. (\E n \in DOMAIN anchors' : jkt[anchors'[n].x5t] = thumb)
                <=> \E d \in {anchors'[n].x5t : n \in DOMAIN anchors'} : jkt[d] = thumb
          OBVIOUS
        <4>2. (\E n \in DOMAIN anchors : jkt[anchors[n].x5t] = thumb)
                <=> \E d \in {anchors[n].x5t : n \in DOMAIN anchors} : jkt[d] = thumb
          OBVIOUS
        <4>3. QED
          BY <2>3, <4>1, <4>2
      <3>3. QED
        BY <2>2, <3>1, <3>2 DEF issuer_listed
    <2>5. QED
      BY <2>2, <2>3, <2>4 DEF IdentitiesAgree
  <1>2. CASE UNCHANGED <<anchors, by_x5t, by_jkt>>
    BY <1>2 DEF IdentitiesAgree, issuer_listed
  <1>3. QED
    BY <1>1, <1>2 DEF Next, vars, SkipService, RecordService, SkipCert, FilterCert, NextService

-----------------------------------------------------------------------------
(* What VouchedSoFar says, entry by entry.                                  *)
SeenEntry(e) ==
    \E k \in DOMAIN list :
        /\ Counts(k) /\ list[k].type = e[1]
        /\ \E n \in DOMAIN list[k].certs : Passed(k, n) /\ list[k].certs[n] = e[2]

(* A step that passes no eligible certificate leaves what has been seen.    *)
LEMMA SeenSame ==
    ASSUME list' = list, granted_only' = granted_only, VouchedSoFar, vouched' = vouched,
           \A k \in DOMAIN list : \A n \in DOMAIN list[k].certs :
               Counts(k) /\ list[k].certs[n] \in Cert => (Passed(k, n)' <=> Passed(k, n))
    PROVE  VouchedSoFar'
PROOF
  <1>1. \A e \in ServiceType \X Cert : SeenEntry(e)' <=> SeenEntry(e)
    BY DEF SeenEntry, Counts
  <1>2. VouchedSoFar' <=> vouched' = {e \in ServiceType \X Cert : SeenEntry(e)'}
    BY DEF VouchedSoFar, SeenEntry
  <1>3. VouchedSoFar <=> vouched = {e \in ServiceType \X Cert : SeenEntry(e)}
    BY DEF VouchedSoFar, SeenEntry
  <1>4. QED
    BY <1>1, <1>2, <1>3

(* Certificate by certificate, the list vouches for what it has passed.     *)
LEMMA ParseVouches ==
    ASSUME TypeOK, InStep, VouchedSoFar, [Next]_vars
    PROVE  VouchedSoFar'
PROOF
  <1> USE TrustedListAssumption DEF args
  <1>0. list \in Seq(Service) /\ i \in Nat /\ j \in Nat
    BY DEF TypeOK
  <1>1. CASE SkipService
    <2>1. vouched' = vouched /\ UNCHANGED args
      BY <1>1 DEF SkipService, vouched
    <2>2. j = 0 /\ j' = 0 /\ i' = i + 1 /\ ~Counts(i)
      BY <1>0, <1>1 DEF SkipService, InStep, Counts
    <2>3. \A k \in DOMAIN list : \A n \in DOMAIN list[k].certs :
              Counts(k) => (Passed(k, n)' <=> Passed(k, n))
      BY <1>0, <2>2, ListedTyped DEF Passed
    <2>4. QED
      BY <2>1, <2>3, SeenSame
  <1>2. CASE RecordService
    <2>1. vouched' = vouched /\ UNCHANGED args
      BY <1>2 DEF RecordService, vouched
    <2>2. \A k \in DOMAIN list : \A n \in DOMAIN list[k].certs : Passed(k, n)' <=> Passed(k, n)
      BY <1>0, <1>2, ListedTyped DEF Passed, RecordService
    <2>3. QED
      BY <2>1, <2>2, SeenSame
  <1>3. CASE SkipCert \/ FilterCert
    <2>1. vouched' = vouched /\ UNCHANGED args
      BY <1>3 DEF SkipCert, FilterCert, vouched
    <2>2. /\ AtCert /\ i' = i /\ j' = j + 1
          /\ ~(Counts(i) /\ list[i].certs[j] \in Cert)
      BY <1>3 DEF SkipCert, FilterCert, Eligible, granted, Counts
    <2>3. \A k \in DOMAIN list : \A n \in DOMAIN list[k].certs :
              Counts(k) /\ list[k].certs[n] \in Cert => (Passed(k, n)' <=> Passed(k, n))
      BY <1>0, <2>2, ListedTyped DEF Passed, AtCert
    <2>4. QED
      BY <2>1, <2>3, SeenSame
  <1>4. CASE AddAnchor
    <2> DEFINE c == list[i].certs[j]
               a == [service_type |-> list[i].type, status |-> list[i].status,
                     x5t |-> c, granted |-> granted(list[i])]
    <2>1. /\ AtCert /\ i \in DOMAIN list /\ j \in DOMAIN list[i].certs
          /\ UNCHANGED args /\ i' = i /\ j' = j + 1
          /\ anchors' = Append(anchors, a)
      BY <1>0, <1>4 DEF AddAnchor, AtCert, TypeOK
    <2>2. a \in Anchor /\ a.x5t = c /\ c \in Cert /\ a.service_type = list[i].type
      BY <1>0, <1>4, <2>1, ListedTyped DEF AddAnchor, Anchor, granted
    <2>3. Counts(i)
      <3>1. list[i].info
        BY <1>0, <2>1, ListedTyped DEF InStep
      <3>2. QED
        BY <1>4, <3>1 DEF AddAnchor, Eligible, granted, Counts
    <2>4. vouched' = vouched \cup {<<list[i].type, c>>}
      <3> HIDE DEF a
      <3>1. QED
        BY <2>1, <2>2, AnchorAdded DEF TypeOK
    <2>5. \A k \in DOMAIN list : \A n \in DOMAIN list[k].certs :
              Passed(k, n)' <=> Passed(k, n) \/ (k = i /\ n = j)
      BY <1>0, <2>1, ListedTyped DEF Passed
    <2>6. \A e \in ServiceType \X Cert :
              SeenEntry(e)' <=> SeenEntry(e) \/ e = <<list[i].type, c>>
      <3> TAKE e \in ServiceType \X Cert
      <3>1. SeenEntry(e)' <=>
              \E k \in DOMAIN list :
                 /\ Counts(k) /\ list[k].type = e[1]
                 /\ \E n \in DOMAIN list[k].certs :
                       (Passed(k, n) \/ (k = i /\ n = j)) /\ list[k].certs[n] = e[2]
        BY <2>1, <2>5 DEF SeenEntry, Counts
      <3>2. (\E k \in DOMAIN list :
                 /\ Counts(k) /\ list[k].type = e[1]
                 /\ \E n \in DOMAIN list[k].certs :
                       (Passed(k, n) \/ (k = i /\ n = j)) /\ list[k].certs[n] = e[2])
              <=> SeenEntry(e) \/ (list[i].type = e[1] /\ c = e[2])
        BY <2>1, <2>3 DEF SeenEntry
      <3>3. (list[i].type = e[1] /\ c = e[2]) <=> e = <<list[i].type, c>>
        OBVIOUS
      <3>4. QED
        BY <3>1, <3>2, <3>3
    <2>7. <<list[i].type, c>> \in ServiceType \X Cert
      BY <1>0, <2>1, <2>2, ListedTyped
    <2>8. vouched = {e \in ServiceType \X Cert : SeenEntry(e)}
      BY DEF VouchedSoFar, SeenEntry
    <2>9. vouched' = {e \in ServiceType \X Cert : SeenEntry(e)'}
      <3> HIDE DEF c
      <3>1. QED
        BY <2>4, <2>6, <2>7, <2>8
    <2>10. QED
      BY <2>9 DEF VouchedSoFar, SeenEntry
  <1>5. CASE NextService
    <2>1. vouched' = vouched /\ UNCHANGED args
      BY <1>5 DEF NextService, vouched
    <2>2. \A k \in DOMAIN list : \A n \in DOMAIN list[k].certs : Passed(k, n)' <=> Passed(k, n)
      BY <1>0, <1>5, ListedTyped DEF Passed, NextService
    <2>3. QED
      BY <2>1, <2>2, SeenSame
  <1>6. CASE UNCHANGED vars
    BY <1>6 DEF vars, VouchedSoFar, vouched, Counts, Passed
  <1>7. QED
    BY <1>1, <1>2, <1>3, <1>4, <1>5, <1>6 DEF Next

-----------------------------------------------------------------------------
(* The two sides of the census, for one type and one side of the split.     *)
Rows(t, nameOnly) ==
    {k \in Counted(TRUE) : services[k].type = t /\ (nameOnly => ~services[k].has_cert)}
Listed(t, nameOnly) ==
    {k \in Recorded : granted(list[k]) /\ list[k].type = t /\ (nameOnly => ~has_cert(list[k]))}

LEMMA CensusFinite ==
    ASSUME TypeOK, NEW t, NEW nameOnly
    PROVE  IsFiniteSet(Rows(t, nameOnly)) /\ IsFiniteSet(Listed(t, nameOnly))
PROOF
  <1>1. IsFiniteSet(1 .. Len(services)) /\ IsFiniteSet(1 .. Len(list))
    BY FS_Interval DEF TypeOK
  <1>2. Rows(t, nameOnly) \subseteq 1 .. Len(services)
    BY DEF Rows, Counted, TypeOK
  <1>3. Listed(t, nameOnly) \subseteq 1 .. Len(list)
    BY DEF Listed, Recorded, TypeOK
  <1>4. QED
    BY <1>1, <1>2, <1>3, FS_Subset

(* A service that is recorded is one more on both sides of the census, or   *)
(* on neither.                                                              *)
LEMMA ParseCounts ==
    ASSUME TypeOK, InStep, CountedSoFar, [Next]_vars
    PROVE  CountedSoFar'
PROOF
  <1> USE DEF args
  <1>0. list \in Seq(Service) /\ i \in Nat /\ j \in Nat
    BY DEF TypeOK
  <1>1. CASE RecordService
    <2> DEFINE x == Len(services) + 1
               entry == [type |-> list[i].type, granted |-> granted(list[i]),
                         has_cert |-> has_cert(list[i])]
    <2> SUFFICES ASSUME NEW t \in ServiceType, NEW nameOnly \in BOOLEAN
                 PROVE  Cardinality(Rows(t, nameOnly)') = Cardinality(Listed(t, nameOnly)')
      BY DEF CountedSoFar, Rows, Listed
    <2>1. /\ list' = list /\ i' = i /\ j = 0 /\ j' = 1 /\ i \in DOMAIN list /\ list[i].info
          /\ services' = Append(services, entry)
      BY <1>0, <1>1 DEF RecordService, TypeOK
    <2>2. /\ DOMAIN services' = DOMAIN services \cup {x} /\ x \notin DOMAIN services
          /\ services'[x] = entry
          /\ \A k \in DOMAIN services : services'[k] = services[k]
      BY <2>1 DEF TypeOK
    <2>3. Recorded' = Recorded \cup {i} /\ i \notin Recorded
      BY <1>0, <2>1 DEF Recorded
    <2>4. Cardinality(Rows(t, nameOnly)) = Cardinality(Listed(t, nameOnly))
      BY DEF CountedSoFar, Rows, Listed
    <2>5. IsFiniteSet(Rows(t, nameOnly)) /\ IsFiniteSet(Listed(t, nameOnly))
      BY CensusFinite
    <2>6. x \notin Rows(t, nameOnly) /\ i \notin Listed(t, nameOnly)
      BY <2>2, <2>3 DEF Rows, Counted, Listed
    <2>7. CASE granted(list[i]) /\ list[i].type = t /\ (nameOnly => ~has_cert(list[i]))
      <3>1. Rows(t, nameOnly)' = Rows(t, nameOnly) \cup {x}
        BY <2>2, <2>7 DEF Rows, Counted
      <3>2. Listed(t, nameOnly)' = Listed(t, nameOnly) \cup {i}
        BY <2>1, <2>3, <2>7 DEF Listed
      <3>3. QED
        BY <3>1, <3>2, <2>4, <2>5, <2>6, GrowTogether
    <2>8. CASE ~(granted(list[i]) /\ list[i].type = t /\ (nameOnly => ~has_cert(list[i])))
      <3>1. Rows(t, nameOnly)' = Rows(t, nameOnly)
        BY <2>2, <2>8 DEF Rows, Counted
      <3>2. Listed(t, nameOnly)' = Listed(t, nameOnly)
        BY <2>1, <2>3, <2>8 DEF Listed
      <3>3. QED
        BY <3>1, <3>2, <2>4
    <2>9. QED
      BY <2>7, <2>8
  <1>2. CASE ~RecordService
    <2>1. services' = services /\ list' = list
      BY <1>2 DEF Next, vars, SkipService, SkipCert, FilterCert, AddAnchor, NextService
    <2>2. Recorded' = Recorded
      <3>1. CASE SkipService
        BY <1>0, <3>1 DEF SkipService, InStep, Recorded
      <3>2. CASE SkipCert \/ FilterCert \/ AddAnchor
        BY <1>0, <3>2, ListedTyped DEF SkipCert, FilterCert, AddAnchor, AtCert, Recorded
      <3>3. CASE NextService
        <4>1. j > 0 /\ j' = 0 /\ i' = i + 1
          BY <1>0, <3>3, ListedTyped DEF NextService
        <4>2. QED
          BY <1>0, <2>1, <4>1 DEF Recorded
      <3>4. CASE UNCHANGED vars
        BY <3>4 DEF vars, Recorded
      <3>5. QED
        BY <1>2, <3>1, <3>2, <3>3, <3>4 DEF Next
    <2>3. QED
      BY <2>1, <2>2 DEF CountedSoFar, Counted
  <1>3. QED
    BY <1>1, <1>2

-----------------------------------------------------------------------------
(* For every trusted list, the parse is always where ParseInv says: it has  *)
(* vouched for what it passed and counted what it recorded.                 *)
THEOREM ParseSafe == Spec => []ParseInv
PROOF
  <1>1. Init => ParseInv
    BY ParseInit
  <1>2. ParseInv /\ [Next]_vars => ParseInv'
    BY ParseTyped, ParseIndexed, ParseVouches, ParseCounts DEF ParseInv
  <1>3. QED
    BY <1>1, <1>2, PTL DEF Spec

(* The state of the parse keeps its types.                                  *)
THEOREM ParseTypeCorrect == Spec => []TypeOK
PROOF
  <1>1. ParseInv => TypeOK
    BY DEF ParseInv
  <1>2. QED
    BY <1>1, ParseSafe, PTL

(* At every point of every parse both indices name the anchors' identities, *)
(* and a key without a thumbprint is not in the second.                     *)
THEOREM IdentitiesInStep == Spec => []IdentitiesAgree
PROOF
  <1>1. ParseInv => IdentitiesAgree
    BY DEF ParseInv
  <1>2. QED
    BY <1>1, ParseSafe, PTL

(* Where the parse has ended every certificate is passed, so the list       *)
(* vouches for all that counts.                                             *)
LEMMA AllPassed ==
    ASSUME TypeOK, VouchedSoFar, Parsed
    PROVE  vouched = {e \in ServiceType \X Cert : \E k \in Sources(e[2]) : list[k].type = e[1]}
PROOF
  <1>1. \A k \in DOMAIN list : \A n \in DOMAIN list[k].certs : Passed(k, n)
    BY DEF TypeOK, Passed, Parsed
  <1>2. QED
    BY <1>1 DEF VouchedSoFar, Sources, Readable

(* A list that is parsed vouches for exactly the readable certificates of   *)
(* its eligible services, whatever else is wrong with it.                   *)
THEOREM ListExact == Spec => []ListedExactly
PROOF
  <1>1. ASSUME ParseInv PROVE ListedExactly
    <2> SUFFICES ASSUME Parsed, NEW c \in Cert
                 PROVE  /\ cert_listed(c) <=> Sources(c) # {}
                        /\ \A t \in ServiceType :
                              (\E n \in by_type(t) : anchors[n].x5t = c)
                                  <=> \E k \in Sources(c) : list[k].type = t
      BY DEF ListedExactly
    <2> USE <1>1
    <2>1. \A t \in ServiceType : <<t, c>> \in vouched <=> \E k \in Sources(c) : list[k].type = t
      BY AllPassed DEF ParseInv
    <2>2. \A t \in ServiceType :
              <<t, c>> \in vouched <=> \E n \in by_type(t) : anchors[n].x5t = c
      BY DEF vouched, by_type
    <2>3. cert_listed(c) <=> \E n \in DOMAIN anchors : anchors[n].x5t = c
      BY DEF cert_listed, ParseInv, IdentitiesAgree
    <2>4. \A n \in DOMAIN anchors : anchors[n].service_type \in ServiceType
      <3>1. \A n \in DOMAIN anchors : anchors[n] \in Anchor
        BY DEF ParseInv, TypeOK
      <3>2. QED
        BY <3>1 DEF Anchor
    <2>5. \A k \in Sources(c) : list[k].type \in ServiceType
      BY ListedTyped DEF ParseInv, TypeOK, Sources
    <2>6. QED
      BY <2>1, <2>2, <2>3, <2>4, <2>5 DEF by_type
  <1>2. QED
    BY <1>1, ParseSafe, PTL

(* The census of a parsed list counts its granted services, one by one, and *)
(* puts on the name-only side those without a certificate element.          *)
THEOREM CensusExact == Spec => []CensusComplete
PROOF
  <1>1. ASSUME ParseInv PROVE CensusComplete
    <2> DEFINE rows(t) == {k \in DOMAIN list : list[k].info /\ granted(list[k]) /\ list[k].type = t}
    <2> SUFFICES ASSUME Parsed, NEW t \in ServiceType
                 PROVE  /\ service_type_counts(t, TRUE) = Cardinality(rows(t))
                        /\ rqscd_identity_split({t}).other =
                              Cardinality({k \in rows(t) :
                                  {list[k].certs[n] : n \in DOMAIN list[k].certs} \subseteq {Blank}})
      BY DEF CensusComplete
    <2> USE <1>1
    <2>1. Recorded = {k \in DOMAIN list : list[k].info}
      BY DEF Recorded, Parsed, ParseInv, TypeOK
    <2>2. Cardinality(Rows(t, FALSE)) = Cardinality(Listed(t, FALSE))
          /\ Cardinality(Rows(t, TRUE)) = Cardinality(Listed(t, TRUE))
      BY DEF ParseInv, CountedSoFar, Rows, Listed
    <2>3. Listed(t, FALSE) = rows(t)
      BY <2>1 DEF Listed
    <2>4. Listed(t, TRUE) = {k \in rows(t) :
                {list[k].certs[n] : n \in DOMAIN list[k].certs} \subseteq {Blank}}
      BY <2>1 DEF Listed, has_cert
    <2>5. service_type_counts(t, TRUE) = Cardinality(Rows(t, FALSE))
      BY DEF service_type_counts, Rows
    <2>6. rqscd_identity_split({t}).other = Cardinality(Rows(t, TRUE))
      <3>1. Rows(t, TRUE) = {k \in {r \in Counted(TRUE) : services[r].type \in {t}} :
                                ~services[k].has_cert}
        BY DEF Rows
      <3>2. QED
        BY <3>1 DEF rqscd_identity_split
    <2>7. QED
      BY <2>2, <2>3, <2>4, <2>5, <2>6
  <1>2. QED
    BY <1>1, ParseSafe, PTL

-----------------------------------------------------------------------------
(* The step that ends the parse finds everything published vouched for; a   *)
(* step that vouches adds one published entry; no other step shows.         *)
LEMMA ParseStep ==
    ASSUME ParseInv, ParseInv', [Next]_vars
    PROVE  [Vouched!Vouch \/ Vouched!Complete]_(Vouched!vars)
PROOF
  <1> DEFINE published == {e \in ServiceType \X Cert : \E k \in Sources(e[2]) : list[k].type = e[1]}
  <1>0. /\ list \in Seq(Service) /\ i \in Nat /\ j \in Nat
        /\ Parsed' => vouched' = published'
    <2>1. Parsed' => \A k \in DOMAIN list' : \A n \in DOMAIN list'[k].certs : Passed(k, n)'
      BY DEF ParseInv, TypeOK, Passed, Parsed
    <2>2. Parsed' => vouched' = published'
      BY <2>1 DEF ParseInv, VouchedSoFar, Sources, Readable
    <2>3. QED
      BY <2>2 DEF ParseInv, TypeOK
  <1>1. list' = list /\ granted_only' = granted_only
    BY DEF Next, vars, args, SkipService, RecordService, SkipCert, FilterCert, AddAnchor, NextService
  <1>2. published' = published
    BY <1>1 DEF Sources, Readable, Counts
  <1>3. CASE AddAnchor
    <2> DEFINE c == list[i].certs[j]
               a == [service_type |-> list[i].type, status |-> list[i].status,
                     x5t |-> c, granted |-> granted(list[i])]
    <2>1. /\ i \in DOMAIN list /\ j \in DOMAIN list[i].certs
          /\ i' = i /\ anchors' = Append(anchors, a) /\ c \in Cert
      BY <1>0, <1>3 DEF AddAnchor, AtCert, TypeOK, ParseInv
    <2>2. a \in Anchor /\ a.x5t = c /\ a.service_type = list[i].type
      BY <1>0, <2>1, ListedTyped DEF Anchor, granted
    <2>3. vouched' = vouched \cup {<<list[i].type, c>>}
      <3> HIDE DEF a
      <3>1. QED
        BY <2>1, <2>2, AnchorAdded DEF TypeOK, ParseInv
    <2>4. <<list[i].type, c>> \in published
      <3>1. i \in Sources(c)
        <4>1. list[i].info
          BY <1>0, <2>1, ListedTyped DEF InStep, ParseInv
        <4>2. QED
          BY <1>3, <2>1, <4>1 DEF AddAnchor, Eligible, granted, Counts, Sources, Readable
      <3>2. QED
        BY <1>0, <2>1, <3>1, ListedTyped
    <2>5. ~Parsed /\ ~Parsed'
      BY <1>0, <1>1, <2>1 DEF Parsed
    <2>6. Vouched!Vouch
      <3>1. \E e \in published : vouched' = vouched \cup {e}
        <4> HIDE DEF published
        <4>1. QED
          BY <2>3, <2>4
      <3>2. published' = published /\ Parsed' = Parsed
        BY <1>2, <2>5 DEF Parsed
      <3>3. QED
        BY <2>5, <3>1, <3>2 DEF Vouched!Vouch
    <2>7. QED
      BY <2>6
  <1>4. CASE ~AddAnchor
    <2>1. vouched' = vouched
      BY <1>4 DEF Next, vars, vouched, SkipService, RecordService, SkipCert, FilterCert, NextService
    <2>2. CASE Parsed' <=> Parsed
      BY <1>2, <2>1, <2>2 DEF Vouched!vars, Parsed
    <2>3. CASE ~(Parsed' <=> Parsed)
      <3>1. ~Parsed
        BY <1>0, <2>3, <1>1 DEF Next, vars, SkipService, RecordService, SkipCert, FilterCert,
              NextService, AddAnchor, AtCert, Parsed
      <3>2. Parsed' /\ vouched = published
        BY <1>0, <1>2, <2>1, <2>3, <3>1
      <3>3. Vouched!Complete
        BY <1>2, <2>1, <3>1, <3>2 DEF Vouched!Complete, Parsed
      <3>4. QED
        BY <3>3
    <2>4. QED
      BY <2>2, <2>3
  <1>5. QED
    BY <1>3, <1>4

(* The parse of every trusted list implements VouchedList: it vouches for   *)
(* published entries only, takes none back and misses none.                 *)
THEOREM ListRefined == Spec => RefinesList
PROOF
  <1>1. Init => Vouched!Init
    <2> SUFFICES ASSUME Init PROVE Vouched!Init
      OBVIOUS
    <2>1. vouched = {}
      BY DEF Init, vouched
    <2>2. ParseInv
      BY ParseInit
    <2>3. QED
      BY <2>1, <2>2, AllPassed DEF Vouched!Init, ParseInv, Parsed
  <1>2. ParseInv /\ ParseInv' /\ [Next]_vars => [Vouched!Vouch \/ Vouched!Complete]_(Vouched!vars)
    BY ParseStep
  <1>3. QED
    BY <1>1, <1>2, ParseSafe, PTL DEF Spec, RefinesList, Vouched!Spec
=============================================================================
