------------------------- MODULE LookupDecodeProofs -------------------------
(***************************************************************************)
(* Proofs of LookupDecode: what a lookup answers is what the delivery as a *)
(* whole calls for.  The candidates collected so far are numbered by the   *)
(* positions of the answers that count (DecodeInv); what the folds of      *)
(* EndpointCandidates make of numbers is then read off the delivery.       *)
(***************************************************************************)
EXTENDS LookupDecode, EndpointCandidateProofs

-----------------------------------------------------------------------------
(* The selection of a decoded delivery *)

PickedBy(s, I) ==
  /\ Cardinality(I) \in Nat /\ Counts(Order(I), I)
  /\ DOMAIN Pick(s, I) = 1..Cardinality(I) /\ Len(Pick(s, I)) = Cardinality(I)
  /\ \A n \in 1..Cardinality(I) : Order(I)[n] \in I /\ Pick(s, I)[n] = s[Order(I)[n]]

(* A concatenation has the elements of both sequences. *)
LEMMA ConcatUnion ==
  ASSUME NEW S, NEW T, NEW s \in Seq(S), NEW t \in Seq(T)
  PROVE  s \o t \in Seq(S \cup T)
<1>1. s \in Seq(S \cup T)
  OBVIOUS
<1>2. t \in Seq(S \cup T)
  OBVIOUS
<1>3. QED
  BY <1>1, <1>2

LEMMA PickFacts ==
  ASSUME NEW S, NEW s \in Seq(S), NEW I \in SUBSET DOMAIN s PROVE PickedBy(s, I)
BY Picking DEF PickedBy

SelectedBy(cs, W) ==
  /\ W \in SUBSET (1..Len(cs))
  /\ Cardinality(W) \in Nat /\ Counts(Order(W), W)
  /\ DOMAIN Selected(cs) = 1..Cardinality(W) /\ Len(Selected(cs)) = Cardinality(W)
  /\ \A n \in 1..Cardinality(W) :
       /\ Order(W)[n] \in W
       /\ Selected(cs)[n].chain = Key(cs, Order(W)[n])
       /\ Selected(cs)[n].items
            = Pick(Items(cs), Kept(cs, lookup.family, lookup.record_limit, Order(W)[n]))

LEMMA SelectedIs ==
  ASSUME NEW C, NEW cs \in Seq(C), lookup \in EndpointLookup,
         NEW W, W = Wanted(cs, lookup.family, lookup.sequences)
  PROVE  SelectedBy(cs, W)
<1>1. PICK family, query, limit :
        /\ family = lookup.family /\ query = lookup.sequences /\ limit = lookup.record_limit
        /\ query.kind \in {"default", "exact", "limit", "all"} /\ query.n \in Nat
        /\ limit = None \/ limit \in Nat
  BY DEF EndpointLookup
<1>2. PICK A : A = [k \in DOMAIN cs |-> Matching(cs, family, k)]
  BY Zenon
<1>3. PICK GS : /\ ChainsWith(cs, A) \in Seq(GS) /\ DOMAIN ChainsWith(cs, A) = DOMAIN cs
                /\ \A k \in DOMAIN cs :
                     ChainsWith(cs, A)[k] = [chain |-> Key(cs, k), items |-> Pick(Items(cs), A[k])]
  BY ChainsSeq
<1>4. PICK s \in Seq(GS) : s = ChainsWith(cs, A) /\ DOMAIN s = DOMAIN cs
  BY <1>3
<1>5. PICK t : t = Pick(s, W)
  OBVIOUS
<1>6. W \in SUBSET DOMAIN cs /\ W \in SUBSET DOMAIN s
  BY <1>1, <1>4 DEF Wanted, Offering, Heads, Listing
<1>7. /\ Cardinality(W) \in Nat /\ Counts(Order(W), W)
      /\ DOMAIN t = 1..Cardinality(W) /\ Len(t) = Cardinality(W)
      /\ \A n \in 1..Cardinality(W) : Order(W)[n] \in W /\ t[n] = s[Order(W)[n]]
  <2>1. PICK I \in SUBSET DOMAIN s : I = W
    BY Zenon, <1>6
  <2>2. PickedBy(s, I)
    BY Zenon, PickFacts
  <2>3. QED
    BY Zenon, <1>5, <2>1, <2>2 DEF PickedBy
<1>8. t = select_group_pairs(
            filter_endpoint_candidate_groups(grouped_endpoint_candidates(cs), family), query)
  BY <1>1, <1>2, <1>4, <1>5, Filtering, Selecting
<1>9. Selected(cs) = [n \in DOMAIN t |-> [chain |-> t[n].chain,
                                          items |-> unique_endpoints(t[n].items, limit)]]
  BY <1>1, <1>8 DEF Selected
<1>10. ASSUME NEW n \in 1..Cardinality(W)
       PROVE  /\ Selected(cs)[n].chain = Key(cs, Order(W)[n])
              /\ Selected(cs)[n].items = Pick(Items(cs), Kept(cs, family, limit, Order(W)[n]))
  <2>1. PICK k \in DOMAIN cs : k = Order(W)[n]
    BY <1>6, <1>7
  <2>2. PICK c, a : c = Key(cs, k) /\ a = Pick(Items(cs), A[k]) /\ t[n] = [chain |-> c, items |-> a]
    BY <1>3, <1>4, <1>7, <2>1
  <2>3. t[n].chain = c /\ t[n].items = a
    BY <2>2
  <2>4. PICK b : b = unique_endpoints(a, limit)
    OBVIOUS
  <2>5. Selected(cs)[n] = [chain |-> c, items |-> b]
    BY <1>7, <1>9, <2>3, <2>4
  <2>6. Selected(cs)[n].chain = c /\ Selected(cs)[n].items = b
    BY <2>5
  <2>7. PICK M \in SUBSET DOMAIN cs : M = Matching(cs, family, k) /\ M = A[k]
    BY Zenon, <1>2 DEF Matching, Alike, Listing
  <2>8. b = unique_endpoints(Pick(Items(cs), M), limit)
    BY <2>2, <2>4, <2>7
  <2>9. b = Pick(Items(cs), UpTo(limit, Distinct(cs, M)))
    BY <1>1, <2>8, UniqueItems
  <2>11. b = Pick(Items(cs), Kept(cs, family, limit, k))
    BY <2>7, <2>9 DEF Kept
  <2>12. QED
    BY <2>1, <2>2, <2>6, <2>11
<1>11. Len(Selected(cs)) = Cardinality(W) /\ DOMAIN Selected(cs) = 1..Cardinality(W)
  BY <1>7, <1>9
<1>12. W \in SUBSET (1..Len(cs))
  BY <1>6
<1>13. QED
  BY Zenon, <1>1, <1>7, <1>10, <1>11, <1>12 DEF SelectedBy

-----------------------------------------------------------------------------
(* The inductive invariant *)

(* The answers that count among the records before n, in order of delivery *)
(* numbered by pos, as the candidates are.                                 *)
Positions(n) ==
  {p \in UNION {{k} \X DOMAIN body.records[k].dns.answers : k \in DOMAIN body.records} :
     LET a == body.records[p[1]].dns.answers[p[2]] IN
     p[1] < n /\ Genuine(body.records[p[1]]) /\ a.own /\ a.e}

Numbers(pos, es, P) ==
  /\ pos \in [DOMAIN es -> P]
  /\ \A p \in P : \E k \in DOMAIN es : pos[k] = p
  /\ \A j, k \in DOMAIN es : j < k => Before(pos[j], pos[k])
  /\ \A k \in DOMAIN es : es[k] = Candidate(pos[k])

Result ==
  IF via = "server" THEN ServerAnswer(Selected(endpoints))
  ELSE [error |-> None, groups |-> MdnsAnswer, ttl |-> 0]

DecodeInv ==
  /\ via \in {"server", "mdns", "stream"} /\ lookup \in EndpointLookup /\ body \in Bodies
  /\ headers.age \in Nat /\ headers.cc \in Seq(Seq([name : STRING, n : Nat]))
  /\ at \in 1..(Len(body.records) + 1)
  /\ rejected \in Nat
  /\ rejected = 0 <=> \A k \in 1..(at - 1) : Genuine(body.records[k])
  /\ endpoints \in Seq(Range(endpoints))
  /\ \E pos : Numbers(pos, endpoints, Positions(at))
  /\ outcome # None => \/ outcome = [error |-> "decode", groups |-> <<>>, ttl |-> 0]
                       \/ at > Len(body.records) /\ outcome = Result

LEMMA SeqFacts ==
  ASSUME NEW S, NEW s \in Seq(S)
  PROVE  Len(s) \in Nat /\ DOMAIN s = 1..Len(s) /\ \A i \in 1..Len(s) : s[i] \in S
OBVIOUS

LEMMA BodyTypes ==
  ASSUME body \in Bodies
  PROVE  /\ Len(body.records) \in Nat /\ DOMAIN body.records = 1..Len(body.records)
         /\ \A k \in DOMAIN body.records :
              LET as == body.records[k].dns.answers IN
              /\ as \in Seq(Range(as)) /\ Len(as) \in Nat /\ DOMAIN as = 1..Len(as)
              /\ \A i \in DOMAIN as : as[i].ttl \in Nat /\ as[i].record.main \in BOOLEAN
<1>1. PICK R, T : R = body.records /\ T = Range(R)
  OBVIOUS
<1>2. /\ R \in Seq(T)
      /\ \A r \in T :
           /\ r.dns.answers \in Seq(Range(r.dns.answers))
           /\ \A a \in Range(r.dns.answers) : a.ttl \in Nat /\ a.record.main \in BOOLEAN
  BY <1>1, DecodeAssumption
<1>3. Len(R) \in Nat /\ DOMAIN R = 1..Len(R) /\ \A k \in DOMAIN R : R[k] \in T
  BY <1>2
<1>4. ASSUME NEW k \in DOMAIN R
      PROVE  LET as == R[k].dns.answers IN
             /\ as \in Seq(Range(as)) /\ Len(as) \in Nat /\ DOMAIN as = 1..Len(as)
             /\ \A i \in DOMAIN as : as[i].ttl \in Nat /\ as[i].record.main \in BOOLEAN
  <2>1. PICK as, A : as = R[k].dns.answers /\ A = Range(as)
    OBVIOUS
  <2>2. as \in Seq(A)
    BY <1>2, <1>3, <2>1
  <2>3. \A a \in A : a.ttl \in Nat /\ a.record.main \in BOOLEAN
    BY <1>2, <1>3, <2>1
  <2>4. Len(as) \in Nat /\ DOMAIN as = 1..Len(as) /\ \A i \in DOMAIN as : as[i] \in A
    BY Zenon, <2>2, SeqFacts
  <2>5. QED
    BY <2>1, <2>2, <2>3, <2>4
<1>5. QED
  BY Zenon, <1>1, <1>3, <1>4

(* verify accepts exactly what Signed describes. *)
LEMMA TrustedIsGenuine ==
  ASSUME NEW r, via = "server"
  PROVE  Trusted(r) <=> Genuine(r)
<1>1. PICK f, dns, cert, input : f = r.fields /\ dns = r.dns /\ cert = r.cert /\ input = f.signature_input
  OBVIOUS
<1>2. \A alg : scheme_for_alg_name(alg) # None
               => /\ scheme_for_alg_name(alg) \in VerifiableSchemes
                  /\ alg = <<"alg", scheme_for_alg_name(alg)>>
  BY DEF scheme_for_alg_name, AlgNames, alg_name_for_scheme
<1>3. \A s \in VerifiableSchemes : s # None /\ scheme_for_alg_name(<<"alg", s>>) = s
  <2>1. \A s \in VerifiableSchemes : s # None
    BY DecodeAssumption
  <2>2. ASSUME NEW s \in VerifiableSchemes PROVE scheme_for_alg_name(<<"alg", s>>) = s
    <3>1. PICK alg : alg = <<"alg", s>>
      BY Zenon
    <3>4. alg[2] = s
      BY <3>1
    <3>2. alg \in AlgNames
      BY <3>1 DEF AlgNames, alg_name_for_scheme
    <3>3. QED
      BY <3>1, <3>2, <3>4 DEF scheme_for_alg_name
  <2>3. QED
    BY Zenon, <2>1, <2>2
<1>4. ASSUME ~is_empty(f) PROVE verify(f, dns, cert) = "true" <=> Signed(f, dns, cert)
  <2>1. ASSUME verify(f, dns, cert) = "true" PROVE Signed(f, dns, cert)
    BY <1>1, <1>2, <2>1 DEF verify, verifyIf, Signed, signature_base
  <2>2. ASSUME Signed(f, dns, cert) PROVE verify(f, dns, cert) = "true"
    BY <1>1, <1>3, <1>4, <2>2 DEF verify, verifyIf, Signed, signature_base
  <2>3. QED
    BY <2>1, <2>2
<1>5. QED
  BY <1>1, <1>4 DEF Trusted, Genuine

(* An answer counts if its record is genuine and it is of the asked name.  *)
Counted(k, i) ==
  /\ Genuine(body.records[k])
  /\ body.records[k].dns.answers[i].own /\ body.records[k].dns.answers[i].e

LEMMA PositionsAre ==
  ASSUME NEW n
  PROVE  \A p : p \in Positions(n) <=>
           \E k \in DOMAIN body.records : \E i \in DOMAIN body.records[k].dns.answers :
             p = <<k, i>> /\ k < n /\ Counted(k, i)
<1>1. ASSUME NEW p \in Positions(n)
      PROVE  \E k \in DOMAIN body.records : \E i \in DOMAIN body.records[k].dns.answers :
               p = <<k, i>> /\ k < n /\ Counted(k, i)
  <2>1. PICK k \in DOMAIN body.records : p \in {k} \X DOMAIN body.records[k].dns.answers
    BY Zenon, <1>1 DEF Positions
  <2>2. PICK i \in DOMAIN body.records[k].dns.answers : p = <<k, i>>
    BY <2>1
  <2>3. p[1] = k /\ p[2] = i
    BY <2>2
  <2>4. QED
    BY Zenon, <1>1, <2>2, <2>3 DEF Positions, Counted
<1>2. ASSUME NEW k \in DOMAIN body.records, NEW i \in DOMAIN body.records[k].dns.answers,
             k < n, Counted(k, i)
      PROVE  <<k, i>> \in Positions(n)
  <2>1. PICK p : p = <<k, i>>
    BY Zenon
  <2>2. p[1] = k /\ p[2] = i
    BY <2>1
  <2>3. p \in {k} \X DOMAIN body.records[k].dns.answers
    BY <2>1
  <2>4. QED
    BY Zenon, <1>2, <2>1, <2>2, <2>3 DEF Positions, Counted
<1>3. QED
  BY Zenon, <1>1, <1>2

LEMMA BeforePairs ==
  ASSUME NEW a, NEW b, NEW c, NEW d
  PROVE  Before(<<a, b>>, <<c, d>>) <=> a < c \/ (a = c /\ b < d)
BY DEF Before

(* The candidates of an accepted record continue the numbering. *)
LEMMA Extend ==
  ASSUME body \in Bodies, at \in DOMAIN body.records, Genuine(Response),
         NEW C, NEW es \in Seq(C), NEW pos, Numbers(pos, es, Positions(at)),
         NEW own, own = OwnAnswers(Response.dns.answers), NEW more, 
         more = [i \in DOMAIN own |->
                   [tag |-> own[i].ttl, record |-> own[i].record,
                    fallback |-> IF via = "server" THEN publisher_certificate_chain_key(Response)
                                 ELSE None]]
  PROVE  /\ es \o more \in Seq(Range(es \o more))
         /\ \E q : Numbers(q, es \o more, Positions(at + 1))
<1>1. PICK as, A : /\ as = Response.dns.answers /\ as \in Seq(A)
                   /\ Len(as) \in Nat /\ DOMAIN as = 1..Len(as)
  BY Zenon, BodyTypes DEF Response
<1>2. at \in Nat /\ \A k \in DOMAIN body.records : k \in Nat
  BY BodyTypes
<1>3. PICK I \in SUBSET DOMAIN as : I = {i \in DOMAIN as : as[i].own /\ as[i].e}
  BY Zenon
<1>4. PICK o, m : o = Order(I) /\ m = Cardinality(I)
  OBVIOUS
<1>5. /\ m \in Nat /\ Counts(o, I) /\ DOMAIN own = 1..m
      /\ \A n \in 1..m : o[n] \in I /\ own[n] = as[o[n]]
  <2>1. own = Pick(as, I)
    BY Zenon, <1>1, <1>3 DEF OwnAnswers
  <2>2. QED
    BY <1>1, <1>4, <2>1, Picking
<1>6. \A n \in 1..m : more[n] = Candidate(<<at, o[n]>>)
  <2> SUFFICES ASSUME NEW n \in 1..m PROVE more[n] = Candidate(<<at, o[n]>>)
    BY Zenon
  <2>1. PICK p : p = <<at, o[n]>>
    BY Zenon
  <2>2. p[1] = at /\ p[2] = o[n]
    BY <2>1
  <2>3. own[n] = body.records[p[1]].dns.answers[p[2]]
    BY Zenon, <1>1, <1>5, <2>2 DEF Response
  <2>4. QED
    BY Zenon, <1>5, <2>1, <2>2, <2>3 DEF Candidate, Response
<1>7. PICK l \in Nat : l = Len(es) /\ DOMAIN es = 1..l
  OBVIOUS
<1>8. PICK D : more \in Seq(D) /\ Len(more) = m
  <2>1. PICK D : D = {more[i] : i \in 1..m}
    BY Zenon
  <2>2. more = [i \in 1..m |-> more[i]] /\ \A i \in 1..m : more[i] \in D
    BY Zenon, <1>5, <2>1
  <2>3. more \in Seq(D)
    BY <1>5, <2>2
  <2>4. DOMAIN more = 1..m
    BY <1>5
  <2>5. Len(more) = m
    BY <1>5, <2>3, <2>4
  <2>6. QED
    BY Zenon, <2>3, <2>5
<1>9. PICK all : all = es \o more
  BY Zenon
<1>10. /\ all \in Seq(C \cup D) /\ DOMAIN all = 1..(l + m)
       /\ \A k \in 1..l : all[k] = es[k]
       /\ \A k \in 1..m : all[l + k] = more[k]
  <2>1. /\ Len(es \o more) = Len(es) + Len(more)
        /\ \A k \in 1..(Len(es) + Len(more)) :
             (es \o more)[k] = IF k <= Len(es) THEN es[k] ELSE more[k - Len(es)]
    BY <1>8
  <2>2. all \in Seq(C \cup D)
    BY Zenon, <1>8, <1>9, ConcatUnion
  <2>3. DOMAIN all = 1..(l + m)
    <3>1. Len(all) = l + m
      BY Zenon, <1>7, <1>8, <1>9, <2>1
    <3>2. DOMAIN all = 1..Len(all)
      BY <2>2, SeqFacts
    <3>3. QED
      BY <3>1, <3>2
  <2>4. \A k \in 1..(l + m) : all[k] = IF k <= l THEN es[k] ELSE more[k - l]
    BY Zenon, <1>7, <1>8, <1>9, <2>1
  <2>5. \A k \in 1..l : k \in 1..(l + m) /\ k <= l
    BY <1>5
  <2>6. \A k \in 1..m : l + k \in 1..(l + m) /\ ~(l + k <= l) /\ (l + k) - l = k
    BY <1>5
  <2>7. QED
    BY Zenon, <2>2, <2>3, <2>4, <2>5, <2>6
<1>11. PICK q : q = [k \in 1..(l + m) |-> IF k <= l THEN pos[k] ELSE <<at, o[k - l]>>]
  BY Zenon
<1>12. /\ \A k \in 1..l : q[k] = pos[k]
       /\ \A k \in 1..m : q[l + k] = <<at, o[k]>>
       /\ DOMAIN q = 1..(l + m)
  BY <1>5, <1>11
<1>13. \A k \in 1..(l + m) : k \in 1..l \/ \E n \in 1..m : k = l + n
  <2>1. \A k \in 1..(l + m) : k \in 1..l \/ (k - l \in 1..m /\ k = l + (k - l))
    BY <1>5
  <2>2. QED
    BY <2>1
<1>14. \A k \in 1..l : k \in 1..(l + m)
  BY <1>5
<1>15. \A n \in 1..m : l + n \in 1..(l + m)
  BY <1>5
<1>16. \A p : p \in Positions(at + 1) <=>
                p \in Positions(at) \/ \E i \in I : p = <<at, i>>
  <2>1. ASSUME NEW k \in DOMAIN body.records PROVE k < at + 1 <=> k < at \/ k = at
    BY <1>2
  <2>2. \A i \in DOMAIN as : Counted(at, i) <=> i \in I
    BY Zenon, <1>1, <1>3 DEF Counted, Response
  <2>3. PICK n : n = at + 1
    OBVIOUS
  <2>4. \A p : p \in Positions(n) <=>
          \E k \in DOMAIN body.records : \E i \in DOMAIN body.records[k].dns.answers :
             p = <<k, i>> /\ k < n /\ Counted(k, i)
    BY PositionsAre
  <2>5. \A p : p \in Positions(at) <=>
          \E k \in DOMAIN body.records : \E i \in DOMAIN body.records[k].dns.answers :
             p = <<k, i>> /\ k < at /\ Counted(k, i)
    BY Zenon, PositionsAre
  <2>6. DOMAIN body.records[at].dns.answers = DOMAIN as
    BY Zenon, <1>1 DEF Response
  <2>7. ASSUME NEW p \in Positions(n) PROVE p \in Positions(at) \/ \E i \in I : p = <<at, i>>
    <3>1. PICK k \in DOMAIN body.records : \E i \in DOMAIN body.records[k].dns.answers :
             p = <<k, i>> /\ k < n /\ Counted(k, i)
      BY Zenon, <2>4, <2>7
    <3>2. CASE k < at
      BY Zenon, <2>5, <3>1, <3>2
    <3>3. CASE k = at
      BY Zenon, <2>2, <2>6, <3>1, <3>3
    <3>4. QED
      BY Zenon, <2>1, <2>3, <3>1, <3>2, <3>3
  <2>8. ASSUME NEW p \in Positions(at) PROVE p \in Positions(n)
    BY <2>1, <2>3, <2>4, <2>5, <2>8
  <2>9. ASSUME NEW i \in I PROVE <<at, i>> \in Positions(n)
    <3>1. i \in DOMAIN body.records[at].dns.answers /\ Counted(at, i) /\ at < n
      <4>1. at < n
        BY <1>2, <2>3
      <4>2. QED
        BY Zenon, <1>3, <2>2, <2>6, <4>1
    <3>2. QED
      BY <2>4, <3>1
  <2>10. QED
    BY <2>3, <2>7, <2>8, <2>9
<1>17. \A k \in 1..l : pos[k] \in Positions(at)
  BY <1>7 DEF Numbers
<1>18. \A k \in 1..(l + m) : q[k] \in Positions(at + 1)
  <2> SUFFICES ASSUME NEW k \in 1..(l + m) PROVE q[k] \in Positions(at + 1)
    OBVIOUS
  <2>1. CASE k \in 1..l
    BY <1>12, <1>16, <1>17, <2>1
  <2>2. ASSUME NEW n \in 1..m, k = l + n PROVE q[k] \in Positions(at + 1)
    <3>1. q[k] = <<at, o[n]>> /\ o[n] \in I
      BY Zenon, <1>5, <1>12, <2>2
    <3>2. QED
      BY <1>16, <3>1
  <2>3. QED
    BY <1>13, <2>1, <2>2
<1>19. \A p \in Positions(at + 1) : \E k \in 1..(l + m) : q[k] = p
  <2> SUFFICES ASSUME NEW p \in Positions(at + 1) PROVE \E k \in 1..(l + m) : q[k] = p
    OBVIOUS
  <2>1. CASE p \in Positions(at)
    BY Zenon, <1>7, <1>12, <1>14, <2>1 DEF Numbers
  <2>2. ASSUME NEW i \in I, p = <<at, i>> PROVE \E k \in 1..(l + m) : q[k] = p
    <3>1. PICK n \in 1..m : o[n] = i
      BY Zenon, <1>4, <1>5 DEF Counts
    <3>2. QED
      BY Zenon, <1>12, <1>15, <2>2, <3>1
  <2>3. QED
    BY <1>16, <2>1, <2>2
<1>20. ASSUME NEW j \in 1..(l + m), NEW k \in 1..(l + m), j < k PROVE Before(q[j], q[k])
  <2>1. CASE j \in 1..l /\ k \in 1..l
    BY Zenon, <1>7, <1>12, <1>20, <2>1 DEF Numbers
  <2>2. ASSUME j \in 1..l, NEW n \in 1..m, k = l + n PROVE Before(q[j], q[k])
    <3>1. PICK a, b : a \in DOMAIN body.records /\ pos[j] = <<a, b>> /\ a < at
      BY Zenon, <1>17, <2>2, PositionsAre
    <3>2. Before(<<a, b>>, <<at, o[n]>>)
      BY Zenon, <3>1, BeforePairs
    <3>3. q[j] = <<a, b>> /\ q[k] = <<at, o[n]>>
      BY Zenon, <1>12, <2>2, <3>1
    <3>4. QED
      BY Zenon, <3>2, <3>3
  <2>3. ASSUME NEW a \in 1..m, NEW n \in 1..m, j = l + a, k = l + n PROVE Before(q[j], q[k])
    <3>1. a < n
      BY <1>5, <1>20, <2>3
    <3>2. o[a] < o[n]
      BY Zenon, <1>4, <1>5, <3>1 DEF Counts
    <3>3. Before(<<at, o[a]>>, <<at, o[n]>>)
      BY Zenon, <3>2, BeforePairs
    <3>4. q[j] = <<at, o[a]>> /\ q[k] = <<at, o[n]>>
      BY Zenon, <1>12, <2>3
    <3>5. QED
      BY Zenon, <3>3, <3>4
  <2>4. ~(k \in 1..l /\ \E a \in 1..m : j = l + a)
    BY <1>5, <1>20
  <2>5. QED
    BY Zenon, <1>13, <2>1, <2>2, <2>3, <2>4
<1>21. ASSUME NEW k \in 1..(l + m) PROVE all[k] = Candidate(q[k])
  <2>1. CASE k \in 1..l
    BY Zenon, <1>7, <1>10, <1>12, <2>1 DEF Numbers
  <2>2. ASSUME NEW n \in 1..m, k = l + n PROVE all[k] = Candidate(q[k])
    BY Zenon, <1>6, <1>10, <1>12, <2>2
  <2>3. QED
    BY <1>13, <2>1, <2>2
<1>22. q \in [1..(l + m) -> Positions(at + 1)]
  BY Zenon, <1>11, <1>18
<1>23. Numbers(q, all, Positions(at + 1))
  BY Zenon, <1>10, <1>19, <1>20, <1>21, <1>22 DEF Numbers
<1>24. all \in Seq(Range(all))
  BY Zenon, <1>10, SeqOfRange
<1>25. QED
  BY Zenon, <1>9, <1>23, <1>24

LEMMA DecodeInvInit == DecodeInit => DecodeInv
<1> SUFFICES ASSUME DecodeInit PROVE DecodeInv
  OBVIOUS
<1>1. via \in {"server", "mdns", "stream"} /\ body \in Bodies
  BY DEF DecodeInit
<1>2. lookup \in EndpointLookup
  <2>1. PICK q \in Queries : \E s \in {None, 1} : lookup = [exact_override(q, s) EXCEPT !.asked = s]
    BY DEF DecodeInit
  <2>2. PICK s \in {None, 1} : lookup = [exact_override(q, s) EXCEPT !.asked = s]
    BY <2>1
  <2>3. q \in EndpointLookup
    BY DecodeAssumption
  <2>4. PICK x : x = exact_override(q, s)
    OBVIOUS
  <2>5. x \in EndpointLookup
    BY <2>2, <2>3, <2>4 DEF exact_override, EndpointLookup
  <2>6. QED
    BY <2>2, <2>4, <2>5 DEF EndpointLookup
<1>3. headers.age \in Nat /\ headers.cc \in Seq(Seq([name : STRING, n : Nat]))
  <2>1. CASE via = "server"
    BY <2>1, DecodeAssumption DEF DecodeInit
  <2>2. CASE via # "server"
    <3>1. headers = [cc |-> <<>>, age |-> 0]
      BY <2>2 DEF DecodeInit
    <3>2. headers.cc = <<>> /\ headers.age = 0
      BY <3>1
    <3>3. QED
      BY <3>2
  <2>3. QED
    BY <2>1, <2>2
<1>4. at = 1 /\ rejected = 0 /\ endpoints = <<>> /\ outcome = None
  BY DEF DecodeInit
<1>5. at \in 1..(Len(body.records) + 1) /\ \A k \in DOMAIN body.records : ~(k < 1)
  BY <1>1, <1>4, BodyTypes
<1>6. PICK P : P = Positions(at)
  OBVIOUS
<1>7. P = {}
  BY <1>4, <1>5, <1>6, PositionsAre
<1>8. Numbers(<<>>, <<>>, P)
  BY <1>7 DEF Numbers
<1>9. endpoints \in Seq(Range(endpoints))
  <2>1. PICK S : S = Range(endpoints)
    OBVIOUS
  <2>2. <<>> \in Seq(S)
    OBVIOUS
  <2>3. QED
    BY <1>4, <2>1, <2>2
<1>10. rejected = 0 <=> \A k \in 1..(at - 1) : Genuine(body.records[k])
  BY <1>4
<1>11. QED
  BY Zenon, <1>1, <1>2, <1>3, <1>4, <1>5, <1>6, <1>8, <1>9, <1>10 DEF DecodeInv

(* What is not read again stays what it was. *)
LEMMA SameDelivery ==
  ASSUME UNCHANGED <<via, lookup, headers, body>>
  PROVE  /\ \A r : Genuine(r)' <=> Genuine(r)
         /\ \A n : Positions(n)' = Positions(n)
         /\ \A pos, es, P : Numbers(pos, es, P)' <=> Numbers(pos, es, P)
         /\ \A es : Selected(es)' = Selected(es)
<1>1. \A r : Genuine(r)' <=> Genuine(r)
  BY DEF Genuine
<1>2. \A p : Candidate(p)' = Candidate(p)
  BY DEF Candidate
<1>3. \A n : Positions(n)' = Positions(n)
  BY Zenon, <1>1 DEF Positions
<1>4. \A pos, es, P : Numbers(pos, es, P)' <=> Numbers(pos, es, P)
  BY <1>2 DEF Numbers
<1>5. \A es : Selected(es)' = Selected(es)
  BY DEF Selected
<1>6. QED
  BY Zenon, <1>1, <1>3, <1>4, <1>5

LEMMA Untouched ==
  ASSUME DecodeInv, UNCHANGED <<via, lookup, headers, body, at, rejected, endpoints>>
  PROVE  /\ (via \in {"server", "mdns", "stream"} /\ lookup \in EndpointLookup /\ body \in Bodies)'
         /\ (headers.age \in Nat /\ headers.cc \in Seq(Seq([name : STRING, n : Nat])))'
         /\ (at \in 1..(Len(body.records) + 1) /\ rejected \in Nat)'
         /\ (rejected = 0 <=> \A k \in 1..(at - 1) : Genuine(body.records[k]))'
         /\ (endpoints \in Seq(Range(endpoints)))'
         /\ (\E pos : Numbers(pos, endpoints, Positions(at)))'
<1>1. PICK P : P = Positions(at) /\ P = Positions(at)'
  BY SameDelivery
<1>2. (\E pos : Numbers(pos, endpoints, Positions(at)))'
  BY <1>1, SameDelivery DEF DecodeInv
<1>3. (rejected = 0 <=> \A k \in 1..(at - 1) : Genuine(body.records[k]))'
  BY SameDelivery DEF DecodeInv
<1>4. QED
  BY Zenon, <1>2, <1>3 DEF DecodeInv

LEMMA DecodeInvStep == DecodeInv /\ [DecodeNext]_decodeVars => DecodeInv'
<1> SUFFICES ASSUME DecodeInv, [DecodeNext]_decodeVars PROVE DecodeInv'
  OBVIOUS
<1>1. CASE BadBody \/ BadPacket
  <2>1. UNCHANGED <<via, lookup, headers, body, at, rejected, endpoints>>
        /\ outcome' = [error |-> "decode", groups |-> <<>>, ttl |-> 0]
    BY <1>1 DEF BadBody, BadPacket, Error
  <2>2. QED
    BY <2>1, Untouched DEF DecodeInv
<1>2. CASE Finish
  <2>1. /\ UNCHANGED <<via, lookup, headers, body, at, rejected, endpoints>>
        /\ at > Len(body.records) /\ outcome' = Result
    BY <1>2 DEF Finish, Result
  <2>2. Result' = Result
    BY Zenon, <2>1 DEF Result, ServerAnswer, MdnsAnswer, Selected, AnswerFor, freshness, freshnessOf
  <2>3. (at > Len(body.records))' /\ outcome' = Result'
    BY <2>1, <2>2
  <2>4. QED
    BY <2>1, <2>3, Untouched DEF DecodeInv
<1>3. CASE UNCHANGED decodeVars
  <2>1. UNCHANGED <<via, lookup, headers, body, at, rejected, endpoints, outcome>>
    BY <1>3 DEF decodeVars
  <2>2. Result' = Result
    BY Zenon, <2>1 DEF Result, ServerAnswer, MdnsAnswer, Selected, AnswerFor, freshness, freshnessOf
  <2>3. (outcome # None => \/ outcome = [error |-> "decode", groups |-> <<>>, ttl |-> 0]
                           \/ at > Len(body.records) /\ outcome = Result)'
    BY <2>1, <2>2 DEF DecodeInv
  <2>4. QED
    BY <2>1, <2>3, Untouched DEF DecodeInv
<1>4. CASE RejectRecord \/ AcceptRecord
  <2>1. /\ UNCHANGED <<via, lookup, headers, body, outcome>>
        /\ outcome = None /\ at' = at + 1 /\ at \in DOMAIN body.records
    BY Zenon, <1>4 DEF RejectRecord, AcceptRecord, Decoding
  <2>2. body \in Bodies /\ at \in Nat /\ rejected \in Nat
        /\ Len(body.records) \in Nat /\ DOMAIN body.records = 1..Len(body.records)
    <3>1. body \in Bodies /\ at \in Nat /\ rejected \in Nat
      BY SMTT(30) DEF DecodeInv
    <3>2. Len(body.records) \in Nat /\ DOMAIN body.records = 1..Len(body.records)
      BY Zenon, <3>1, BodyTypes
    <3>3. QED
      BY Zenon, <3>1, <3>2
  <2>3. at' \in 1..(Len(body.records) + 1) /\ 1..(at' - 1) = 1..(at - 1) \cup {at}
    BY <2>1, <2>2
  <2>4. PICK pos : Numbers(pos, endpoints, Positions(at))
    BY DEF DecodeInv
  <2>5. \A r : Genuine(r)' <=> Genuine(r)
    BY <2>1, SameDelivery
  <2>6. PICK n : n = at + 1 /\ n = at'
    BY <2>1
  <2>7. Positions(at)' = Positions(at + 1)
    BY Zenon, <2>1, <2>6, SameDelivery
  <2>8. CASE RejectRecord
    <3>1. /\ rejected' = rejected + 1 /\ endpoints' = endpoints
          /\ ~Genuine(body.records[at])
      BY <2>8, TrustedIsGenuine DEF RejectRecord, Response
    <3>2. Positions(n) = Positions(at)
      <4>1. \A k \in DOMAIN body.records : k < n /\ Genuine(body.records[k])
                                           <=> k < at /\ Genuine(body.records[k])
        BY <2>2, <2>6, <3>1
      <4>2. QED
        BY <4>1, PositionsAre DEF Counted
    <3>3. (\E q : Numbers(q, endpoints, Positions(at)))'
      BY <2>1, <2>4, <2>6, <2>7, <3>1, <3>2, SameDelivery
    <3>4. rejected' \in Nat /\ rejected' # 0
      BY <2>2, <3>1
    <3>5. ~(\A k \in 1..(at' - 1) : Genuine(body.records[k])')
      BY Zenon, <2>1, <2>3, <2>5, <3>1
    <3>6. QED
      BY Zenon, <2>1, <2>3, <3>1, <3>3, <3>4, <3>5 DEF DecodeInv
  <2>9. CASE AcceptRecord
    <3>1. Genuine(Response) /\ rejected' = rejected
      BY Zenon, <2>9, TrustedIsGenuine DEF AcceptRecord, Genuine
    <3>2. PICK C : endpoints \in Seq(C)
      BY DEF DecodeInv
    <3>3. PICK own : own = OwnAnswers(Response.dns.answers)
      OBVIOUS
    <3>4. PICK more : 
            more = [i \in DOMAIN own |->
                      [tag |-> own[i].ttl, record |-> own[i].record,
                       fallback |-> IF via = "server" THEN publisher_certificate_chain_key(Response)
                                    ELSE None]]
      BY Zenon
    <3>5. endpoints' = endpoints \o more
      BY Zenon, <2>9, <3>3, <3>4 DEF AcceptRecord
    <3>6. PICK all : all = endpoints'
      OBVIOUS
    <3>7. all \in Seq(Range(all)) /\ \E q : Numbers(q, all, Positions(at + 1))
      BY Zenon, <2>1, <2>2, <2>4, <3>1, <3>2, <3>3, <3>4, <3>5, <3>6, Extend
    <3>8. (\E q : Numbers(q, endpoints, Positions(at)))'
      BY Zenon, <2>1, <2>6, <2>7, <3>6, <3>7, SameDelivery
    <3>9. (rejected = 0 <=> \A k \in 1..(at - 1) : Genuine(body.records[k]))'
      <4>1. (\A k \in 1..(at' - 1) : Genuine(body.records[k])')
              <=> \A k \in 1..(at - 1) : Genuine(body.records[k])
        BY Zenon, <2>1, <2>3, <2>5, <3>1 DEF Response
      <4>2. QED
        BY Zenon, <2>1, <3>1, <4>1 DEF DecodeInv
    <3>10. QED
      BY Zenon, <2>1, <2>3, <3>1, <3>6, <3>7, <3>8, <3>9 DEF DecodeInv
  <2>10. QED
    BY <1>4, <2>8, <2>9
<1>5. QED
  BY Zenon, <1>1, <1>2, <1>3, <1>4 DEF DecodeNext

-----------------------------------------------------------------------------
(* The delivery as a whole, by the numbers of its candidates *)

Delivery(pos) ==
  /\ \A k \in DOMAIN endpoints : Candidate(pos[k]) = endpoints[k]
  /\ \A j, k \in DOMAIN endpoints : Before(pos[j], pos[k]) <=> j < k
  /\ Listed = {pos[k] : k \in Listing(endpoints)}

LEMMA Delivered ==
  ASSUME DecodeInv, at > Len(body.records)
  PROVE  \E pos : Delivery(pos)
<1>1. PICK pos : Numbers(pos, endpoints, Positions(at))
  BY DEF DecodeInv
<1>2. /\ Len(body.records) \in Nat /\ DOMAIN body.records = 1..Len(body.records) /\ at \in Nat
      /\ \A k \in DOMAIN body.records : \A i \in DOMAIN body.records[k].dns.answers : i \in Nat
  BY SMTT(30), BodyTypes DEF DecodeInv
<1>3. PICK m \in Nat : DOMAIN endpoints = 1..m
  BY DEF DecodeInv
<1>4. ASSUME NEW j \in DOMAIN endpoints, NEW k \in DOMAIN endpoints, Before(pos[j], pos[k])
      PROVE  j < k
  <2>1. pos[j] \in Positions(at) /\ pos[k] \in Positions(at)
    BY <1>1 DEF Numbers
  <2>2. PICK a \in Nat, b \in Nat : pos[j] = <<a, b>>
    BY <1>2, <2>1, PositionsAre
  <2>3. PICK c \in Nat, d \in Nat : pos[k] = <<c, d>>
    BY <1>2, <2>1, PositionsAre
  <2>4. Before(<<a, b>>, <<c, d>>) <=> a < c \/ (a = c /\ b < d)
    BY BeforePairs
  <2>5. Before(<<c, d>>, <<a, b>>) <=> c < a \/ (c = a /\ d < b)
    BY BeforePairs
  <2>6. ~Before(pos[k], pos[j])
    BY <1>4, <2>2, <2>3, <2>4, <2>5
  <2>7. j # k
    BY <1>4, <2>6
  <2>8. ~(k < j)
    BY <1>1, <2>6 DEF Numbers
  <2>9. QED
    BY <1>3, <2>7, <2>8
<1>5. \A p : p \in Listed <=> p \in Positions(at) /\ Groupable(Candidate(p))
  <2>1. ASSUME NEW p, p \in UNION {{k} \X DOMAIN body.records[k].dns.answers : k \in DOMAIN body.records}
        PROVE  p[1] < at
    <3>1. PICK k \in DOMAIN body.records : p \in {k} \X DOMAIN body.records[k].dns.answers
      BY <2>1
    <3>2. p[1] = k
      BY <3>1
    <3>3. QED
      BY <1>2, <3>2
  <2>2. QED
    BY Zenon, <2>1 DEF Listed, Positions
<1>6. ASSUME NEW p \in Listed PROVE \E k \in Listing(endpoints) : p = pos[k]
  <2>1. PICK k \in DOMAIN endpoints : pos[k] = p
    BY <1>1, <1>5, <1>6 DEF Numbers
  <2>2. Groupable(endpoints[k])
    BY <1>1, <1>5, <2>1 DEF Numbers
  <2>3. QED
    BY <2>1, <2>2 DEF Listing
<1>7. ASSUME NEW k \in Listing(endpoints) PROVE pos[k] \in Listed
  <2>1. k \in DOMAIN endpoints /\ Groupable(endpoints[k])
    BY DEF Listing
  <2>2. pos[k] \in Positions(at) /\ endpoints[k] = Candidate(pos[k])
    BY <1>1, <2>1 DEF Numbers
  <2>3. QED
    BY <1>5, <2>1, <2>2
<1>8. Listed = {pos[k] : k \in Listing(endpoints)}
  BY <1>6, <1>7
<1>9. QED
  BY <1>1, <1>4, <1>8 DEF Delivery, Numbers

(* The positions answer for the candidates: their chains, their endpoints, *)
(* the usable ones, those of a chain, and the first listed of a chain.     *)
Numbered(pos, cs, family, H) ==
  /\ \A k \in DOMAIN cs : ChainOf(pos[k]) = Key(cs, k) /\ EndpointOf(pos[k]) = EndpointAt(cs, k)
  /\ \A p : p \in Usable <=> \E k \in Listing(cs) :
       p = pos[k] /\ endpoint_matches_family(EndpointAt(cs, k), family)
  /\ \A k \in Listing(cs) : OfChain(Key(cs, k)) = {pos[j] : j \in Matching(cs, family, k)}
  /\ \A k \in H : FirstListed(Key(cs, k)) = pos[k]

LEMMA ByNumber ==
  ASSUME NEW pos, Delivery(pos), NEW C, NEW cs \in Seq(C), cs = endpoints,
         NEW family, family = lookup.family, NEW H, H = Heads(cs, Len(cs))
  PROVE  Numbered(pos, cs, family, H)
<1>1. \A k \in DOMAIN cs : ChainOf(pos[k]) = Key(cs, k) /\ EndpointOf(pos[k]) = EndpointAt(cs, k)
  BY DEF Delivery, ChainOf, EndpointOf, Key, EndpointAt
<1>2. PICK m \in Nat : m = Len(cs) /\ DOMAIN cs = 1..m
  OBVIOUS
<1>3. \A p : p \in Usable <=> \E k \in Listing(cs) :
              p = pos[k] /\ endpoint_matches_family(EndpointAt(cs, k), family)
  <2>1. \A k \in Listing(cs) : k \in DOMAIN cs
    BY DEF Listing
  <2>2. QED
    BY <1>1, <2>1 DEF Delivery, Usable
<1>4. ASSUME NEW k \in Listing(cs) PROVE OfChain(Key(cs, k)) = {pos[j] : j \in Matching(cs, family, k)}
  <2>1. \A j : j \in Matching(cs, family, k) <=>
               j \in Listing(cs) /\ Key(cs, j) = Key(cs, k)
                 /\ endpoint_matches_family(EndpointAt(cs, j), family)
    BY <1>2 DEF Matching, Alike, Listing
  <2>2. \A j \in Listing(cs) : ChainOf(pos[j]) = Key(cs, j)
    BY <1>1 DEF Listing
  <2>3. \A p : p \in OfChain(Key(cs, k)) <=> \E j \in Matching(cs, family, k) : p = pos[j]
    BY <1>3, <2>1, <2>2 DEF OfChain
  <2>4. QED
    BY <2>3
<1>5. ASSUME NEW k \in H PROVE FirstListed(Key(cs, k)) = pos[k]
  <2>1. k \in Listing(cs) /\ k \in DOMAIN cs /\ \A j \in Listing(cs) : j < k => Key(cs, j) # Key(cs, k)
    BY DEF Heads, Listing
  <2>2. \A p : p \in Listed <=> \E j \in Listing(cs) : p = pos[j]
    BY DEF Delivery
  <2>3. \A j \in Listing(cs) : j \in DOMAIN cs /\ j \in Nat /\ ChainOf(pos[j]) = Key(cs, j)
    BY <1>1, <1>2 DEF Listing
  <2>4. \A i, j \in Listing(cs) : Before(pos[i], pos[j]) <=> i < j
    BY <2>3 DEF Delivery
  <2> DEFINE F(p) == ChainOf(p) = Key(cs, k) /\ \A q \in Listed : Before(q, p) => ChainOf(q) # Key(cs, k)
  <2>5. pos[k] \in Listed /\ F(pos[k])
    BY <2>1, <2>2, <2>3, <2>4
  <2>6. ASSUME NEW p \in Listed, F(p) PROVE p = pos[k]
    <3>1. PICK j \in Listing(cs) : p = pos[j]
      BY <2>2
    <3>2. Key(cs, j) = Key(cs, k)
      BY <2>3, <2>6, <3>1
    <3>3. ~(j < k)
      BY <2>1, <3>2
    <3>4. ~(k < j)
      BY <2>1, <2>3, <2>4, <2>5, <2>6, <3>1
    <3>5. j = k
      BY <2>1, <2>3, <3>3, <3>4
    <3>6. QED
      BY <3>1, <3>5
  <2>7. FirstListed(Key(cs, k)) = CHOOSE p \in Listed : F(p)
    BY DEF FirstListed
  <2> HIDE DEF F
  <2>8. QED
    BY <2>5, <2>6, <2>7
<1>6. QED
  BY Zenon, <1>1, <1>3, <1>4, <1>5 DEF Numbered

LEMMA ChainsByNumber ==
  ASSUME NEW pos, Delivery(pos), NEW C, NEW cs \in Seq(C), cs = endpoints,
         lookup \in EndpointLookup, NEW O, O = Offering(cs, lookup.family),
         NEW W, W = Wanted(cs, lookup.family, lookup.sequences)
  PROVE  /\ O \in SUBSET (1..Len(cs)) /\ O \in SUBSET Heads(cs, Len(cs)) /\ W \in SUBSET O
         /\ Chosen = {Key(cs, k) : k \in W}
         /\ Cardinality(Chosen) = Cardinality(W)
         /\ \A k \in W : Cardinality(ChainsBefore(Key(cs, k)) \cap Chosen) = Rank(W, k) - 1
<1>1. PICK family, query : /\ family = lookup.family /\ query = lookup.sequences
                           /\ query.kind \in {"default", "exact", "limit", "all"}
  BY DEF EndpointLookup
<1>2. PICK m \in Nat : m = Len(cs) /\ DOMAIN cs = 1..m
  OBVIOUS
<1>3. PICK H : H = Heads(cs, Len(cs))
  OBVIOUS
<1>4. /\ \A k \in DOMAIN cs : ChainOf(pos[k]) = Key(cs, k)
      /\ \A p : p \in Usable <=> \E k \in Listing(cs) :
              p = pos[k] /\ endpoint_matches_family(EndpointAt(cs, k), family)
      /\ \A k \in H : FirstListed(Key(cs, k)) = pos[k]
  <2>1. Numbered(pos, cs, family, H)
    BY Zenon, <1>1, <1>3, ByNumber
  <2>2. QED
    BY Zenon, <2>1 DEF Numbered
<1>5. /\ \A k : k \in O <=> k \in H /\ Matching(cs, family, k) # {}
      /\ \A k \in H : k \in Listing(cs) /\ k \in 1..m
      /\ \A k \in Listing(cs) : k \in 1..m /\ k \in Nat /\ k <= m
  BY <1>1, <1>2, <1>3 DEF Offering, Heads, Listing
<1>6. \A i, j \in H : Key(cs, i) = Key(cs, j) => i = j
  <2> SUFFICES ASSUME NEW i \in H, NEW j \in H, Key(cs, i) = Key(cs, j) PROVE i = j
    OBVIOUS
  <2>1. ~(i < j) /\ ~(j < i)
    BY <1>3, <1>5 DEF Heads
  <2>2. QED
    BY <1>5, <2>1
<1>7. \A j, k : j \in Matching(cs, family, k) <=>
        j \in Listing(cs) /\ Key(cs, j) = Key(cs, k) /\ endpoint_matches_family(EndpointAt(cs, j), family)
  BY <1>2, <1>5 DEF Matching, Alike
<1>8. PICK U : U = {ChainOf(p) : p \in Usable}
  BY Zenon
<1>9. \A c : c \in U <=> \E k \in O : c = Key(cs, k)
  <2>1. ASSUME NEW c \in U PROVE \E k \in O : c = Key(cs, k)
    <3>1. PICK j \in Listing(cs) : /\ c = Key(cs, j)
                                   /\ endpoint_matches_family(EndpointAt(cs, j), family)
      BY <1>2, <1>4, <1>5, <1>8, <2>1
    <3>2. PICK k \in Heads(cs, j) : Key(cs, k) = Key(cs, j)
      BY HeadOf
    <3>3. k \in H
      BY <1>2, <1>3, <1>5 DEF Heads
    <3>4. j \in Matching(cs, family, k)
      BY <1>7, <3>1, <3>2
    <3>5. QED
      BY <1>5, <3>1, <3>2, <3>3, <3>4
  <2>2. ASSUME NEW k \in O PROVE Key(cs, k) \in U
    <3>1. PICK j : j \in Matching(cs, family, k)
      BY <1>5
    <3>2. pos[j] \in Usable /\ ChainOf(pos[j]) = Key(cs, k)
      BY <1>2, <1>4, <1>5, <1>7, <3>1
    <3>3. QED
      BY <1>8, <3>2
  <2>3. QED
    BY <2>1, <2>2
<1>10. ASSUME NEW k \in O
       PROVE  \A c : c \in ChainsBefore(Key(cs, k)) <=> \E j \in O : j < k /\ c = Key(cs, j)
  <2>1. \A j \in O : Before(FirstListed(Key(cs, j)), FirstListed(Key(cs, k))) <=> j < k
    BY SMTT(30), <1>2, <1>4, <1>5 DEF Delivery
  <2>2. \A c : c \in ChainsBefore(Key(cs, k)) <=> c \in U /\ Before(FirstListed(c), FirstListed(Key(cs, k)))
    BY <1>8 DEF ChainsBefore
  <2>3. QED
    BY <1>9, <2>1, <2>2
<1>11. PICK e : e = [k \in 1..m |-> Key(cs, k)]
  BY Zenon
<1>12. O \in SUBSET (1..m) /\ \A k \in O : e[k] = Key(cs, k)
  BY <1>5, <1>11
<1>13. W \in SUBSET O /\ W \in SUBSET (1..m)
  BY <1>1, <1>12 DEF Wanted
<1>14. \A i, j \in O : e[i] = e[j] => i = j
  BY <1>5, <1>6, <1>12
<1>15. ASSUME NEW k \in O PROVE Cardinality(ChainsBefore(Key(cs, k))) = Rank(O, k) - 1
  <2>1. ChainsBefore(Key(cs, k)) = Values(e, Below(O, k))
    BY <1>10, <1>12 DEF Values, Below
  <2>2. Cardinality(Values(e, Below(O, k))) = Rank(O, k) - 1
    <3>1. PICK V \in SUBSET (1..m) : V = O
      BY <1>12
    <3>2. \A i, j \in V : e[i] = e[j] => i = j
      BY <1>14, <3>1
    <3>3. \A i \in V : Cardinality(Values(e, Below(V, i))) = Rank(V, i) - 1
      BY Zenon, <3>2, ImageBefore
    <3>4. QED
      BY <3>1, <3>3
  <2>3. QED
    BY <2>1, <2>2
<1>16. ASSUME NEW k \in O
       PROVE  Key(cs, k) \in Chosen <=> k \in W
  <2>1. Rank(O, k) \in Nat
    <3>1. PICK V \in SUBSET (1..m) : V = O
      BY <1>12
    <3>2. Cardinality(V) \in Nat /\ Counts(Order(V), V)
      BY Zenon, Ordered
    <3>3. QED
      BY <3>1, <3>2 DEF Counts
  <2>2. PICK r : r = Cardinality(ChainsBefore(Key(cs, k))) /\ r = Rank(O, k) - 1
    BY <1>15
  <2>3. Key(cs, k) \in U
    BY <1>9
  <2>4. CASE query.kind = "exact"
    BY <1>1, <1>8, <2>3, <2>4 DEF Chosen, Wanted
  <2>5. CASE query.kind = "all"
    BY <1>1, <1>8, <2>3, <2>5 DEF Chosen, Wanted
  <2>6. CASE query.kind \in {"default", "limit"}
    <3>1. PICK limit : limit = IF query.kind = "limit" THEN query.n ELSE 3
      OBVIOUS
    <3>2. limit \in Nat
      BY <1>1, <3>1 DEF EndpointLookup
    <3>3. Key(cs, k) \in Chosen <=> r < limit
      BY Zenon, <1>1, <1>8, <2>2, <2>3, <2>6, <3>1 DEF Chosen
    <3>4. k \in W <=> Rank(O, k) <= limit
      BY <1>1, <2>6, <3>1 DEF Wanted
    <3>5. QED
      BY <2>1, <2>2, <3>2, <3>3, <3>4
  <2>7. QED
    BY <1>1, <2>4, <2>5, <2>6
<1>17. \A c : c \in Chosen <=> \E k \in W : c = Key(cs, k)
  <2>1. \A c \in Chosen : c \in U
    BY <1>8 DEF Chosen
  <2>2. QED
    BY <1>9, <1>13, <1>16, <2>1
<1>18. Chosen = Values(e, W)
  BY <1>12, <1>13, <1>17 DEF Values
<1>19. \A i, j \in W : e[i] = e[j] => i = j
  BY <1>13, <1>14
<1>20. /\ Cardinality(Values(e, W)) = Cardinality(W)
       /\ \A k \in W : Cardinality(Values(e, Below(W, k))) = Rank(W, k) - 1
  <2>1. PICK V \in SUBSET (1..m) : V = W
    BY <1>13
  <2>2. \A i, j \in V : e[i] = e[j] => i = j
    BY <1>19, <2>1
  <2>3. /\ Cardinality(Values(e, V)) = Cardinality(V)
        /\ \A k \in V : Cardinality(Values(e, Below(V, k))) = Rank(V, k) - 1
    BY Zenon, <2>2, ImageBefore
  <2>4. QED
    BY <2>1, <2>3
<1>21. ASSUME NEW k \in W
       PROVE  ChainsBefore(Key(cs, k)) \cap Chosen = Values(e, Below(W, k))
  <2>1. k \in O
    BY <1>13
  <2>2. \A c : c \in ChainsBefore(Key(cs, k)) /\ c \in Chosen <=> \E j \in W : j < k /\ c = Key(cs, j)
    BY <1>5, <1>6, <1>10, <1>13, <1>17, <2>1
  <2>3. QED
    BY <1>12, <1>13, <2>2 DEF Values, Below
<1>22. QED
  BY Zenon, <1>2, <1>3, <1>5, <1>12, <1>13, <1>17, <1>18, <1>20, <1>21

(* What a group has: the first limit different endpoints of its chain. *)
GroupHas(c, items) ==
  LET all == {EndpointOf(p) : p \in OfChain(c)}
      limit == lookup.record_limit
  IN  /\ Len(items) = IF limit = None THEN Cardinality(all) ELSE Minimum({limit, Cardinality(all)})
      /\ DOMAIN items = 1..Len(items) /\ Len(items) \in Nat /\ items # <<>>
      /\ \A j \in DOMAIN items : \E p \in OfChain(c) :
           /\ EndpointOf(p) = items[j].endpoint
           /\ EndpointOf(p) \notin EndpointsBefore(p)
           /\ Cardinality(EndpointsBefore(p)) = j - 1
           /\ Candidate(p).tag = items[j].tag

LEMMA GroupByNumber ==
  ASSUME NEW pos, Delivery(pos), NEW C, NEW cs \in Seq(C), cs = endpoints,
         lookup \in EndpointLookup, NEW k \in Heads(cs, Len(cs)),
         Matching(cs, lookup.family, k) # {}
  PROVE  GroupHas(Key(cs, k), Pick(Items(cs), Kept(cs, lookup.family, lookup.record_limit, k)))
<1>26. PICK limit, items, all : /\ limit = lookup.record_limit
                                /\ items = Pick(Items(cs), Kept(cs, lookup.family, limit, k))
                                /\ all = {EndpointOf(p) : p \in OfChain(Key(cs, k))}
  BY Zenon
<1>1. PICK family : family = lookup.family
  OBVIOUS
<1>2. PICK n \in Nat : n = Len(cs) /\ DOMAIN cs = 1..n
  OBVIOUS
<1>3. PICK M \in SUBSET (1..n) : M = Matching(cs, family, k)
  BY Zenon, <1>2 DEF Matching, Alike, Listing
<1>4. PICK D \in SUBSET M : D = Distinct(cs, M)
  BY Zenon DEF Distinct
<1>5. PICK K \in SUBSET D : K = Kept(cs, family, limit, k) /\ K = UpTo(limit, D)
  BY Zenon, <1>3, <1>4 DEF Kept, UpTo, Leading
<1>6. PICK e : e = [j \in 1..n |-> EndpointAt(cs, j)]
  BY Zenon
<1>7. \A j \in M : j \in D <=> \A l \in M : l < j => e[l] # e[j]
  BY Zenon, <1>4, <1>6 DEF Distinct
<1>8. /\ Values(e, M) = Values(e, D) /\ Cardinality(Values(e, M)) = Cardinality(D)
      /\ \A i \in D : Cardinality(Values(e, Below(M, i))) = Rank(D, i) - 1
  <2>1. D = FirstOf(e, M)
    BY Zenon, <1>7 DEF FirstOf
  <2>2. QED
    BY Zenon, <2>1, FirstMet
<1>9. /\ \A j \in DOMAIN cs : ChainOf(pos[j]) = Key(cs, j) /\ EndpointOf(pos[j]) = EndpointAt(cs, j)
      /\ \A j \in Listing(cs) : OfChain(Key(cs, j)) = {pos[l] : l \in Matching(cs, family, j)}
  <2>1. PICK H : H = Heads(cs, Len(cs))
    BY Zenon
  <2>2. Numbered(pos, cs, family, H)
    BY Zenon, <1>1, <2>1, ByNumber
  <2>3. QED
    BY Zenon, <2>2 DEF Numbered
<1>10. k \in Listing(cs) /\ k \in DOMAIN cs
  BY DEF Heads, Listing
<1>11. OfChain(Key(cs, k)) = {pos[l] : l \in M}
  BY <1>3, <1>9, <1>10
<1>12. \A j \in M : j \in 1..n /\ EndpointOf(pos[j]) = e[j] /\ ChainOf(pos[j]) = Key(cs, k)
  BY <1>2, <1>3, <1>6, <1>9 DEF Matching, Alike
<1>13. all = Values(e, M)
  <2>1. \A y : y \in all <=> \E j \in M : y = EndpointOf(pos[j])
    BY Zenon, <1>11, <1>26
  <2>2. \A y : y \in Values(e, M) <=> \E j \in M : y = e[j]
    BY Zenon DEF Values
  <2>3. \A y : y \in all <=> y \in Values(e, M)
    BY <1>12, <2>1, <2>2
  <2>4. QED
    BY <2>3
<1>14. ASSUME NEW m \in M PROVE EndpointsBefore(pos[m]) = Values(e, Below(M, m))
  <2>1. \A l \in M : Before(pos[l], pos[m]) <=> l < m
    BY <1>2, <1>12 DEF Delivery
  <2>2. ChainOf(pos[m]) = Key(cs, k)
    BY <1>12
  <2>3. {q \in OfChain(Key(cs, k)) : Before(q, pos[m])} = {pos[l] : l \in {j \in M : j < m}}
    BY <1>11, <2>1
  <2>4. EndpointsBefore(pos[m]) = {EndpointOf(q) : q \in {pos[l] : l \in {j \in M : j < m}}}
    BY <2>2, <2>3 DEF EndpointsBefore
  <2>5. QED
    BY <1>12, <2>4 DEF Values, Below
<1>15. D \in SUBSET (1..n) /\ K \in SUBSET (1..n)
  OBVIOUS
<1>16. PICK d \in Nat : d = Cardinality(D)
  BY Zenon, <1>15, Ordered
<1>17. /\ Cardinality(K) = IF limit = None THEN d ELSE IF limit < d THEN limit ELSE d
       /\ \A i \in K : Rank(K, i) = Rank(D, i)
  <2>1. CASE limit = None
    BY <1>5, <1>16, <2>1 DEF UpTo
  <2>2. CASE limit # None
    <3>1. limit \in Nat
      BY <1>26, <2>2 DEF EndpointLookup
    <3>2. K = Leading(limit, D)
      BY <1>5, <2>2 DEF UpTo
    <3>3. QED
      <4>1. PICK E \in SUBSET (1..n) : E = D
        BY <1>15
      <4>2. /\ Cardinality(Leading(limit, E)) = IF limit < Cardinality(E) THEN limit ELSE Cardinality(E)
            /\ \A i \in Leading(limit, E) : Rank(Leading(limit, E), i) = Rank(E, i)
        BY Zenon, <3>1, Initial
      <4>3. QED
        BY <1>16, <2>2, <3>2, <4>1, <4>2
  <2>3. QED
    BY <2>1, <2>2
<1>18. PICK IT : /\ Items(cs) \in Seq(IT) /\ DOMAIN Items(cs) = DOMAIN cs
                 /\ \A j \in DOMAIN cs : Items(cs)[j].endpoint = EndpointAt(cs, j)
                                         /\ Items(cs)[j].tag = cs[j].tag
  BY Zenon, ItemsOf
<1>19. PICK it \in Seq(IT) : it = Items(cs)
  BY <1>18
<1>20. K \in SUBSET DOMAIN it /\ items = Pick(it, K)
  BY Zenon, <1>1, <1>2, <1>5, <1>15, <1>18, <1>19, <1>26
<1>21. /\ Cardinality(K) \in Nat /\ Counts(Order(K), K) /\ items \in Seq(IT)
       /\ Len(items) = Cardinality(K) /\ DOMAIN items = 1..Cardinality(K)
       /\ \A j \in 1..Cardinality(K) : Order(K)[j] \in K /\ items[j] = it[Order(K)[j]]
       /\ items = <<>> <=> K = {}
  BY <1>20, Picking
<1>22. Len(items) = IF limit = None THEN Cardinality(all) ELSE Minimum({limit, Cardinality(all)})
  <2>1. Cardinality(all) = d
    BY <1>8, <1>13, <1>16
  <2>2. CASE limit = None
    BY <1>17, <1>21, <2>1, <2>2
  <2>3. CASE limit # None
    <3>1. limit \in Nat
      BY <1>26, <2>3 DEF EndpointLookup
    <3>2. PICK T \in SUBSET Nat : T = {limit, d}
      BY Zenon, <3>1
    <3>3. Minimum(T) \in {limit, d} /\ Minimum(T) <= limit /\ Minimum(T) <= d
      BY Zenon, <3>2, MinimumIsLeast
    <3>4. Minimum(T) = IF limit < d THEN limit ELSE d
      BY <3>1, <3>3
    <3>5. QED
      BY <1>17, <1>21, <2>1, <2>3, <3>2, <3>4
  <2>4. QED
    BY <2>2, <2>3
<1>23. items # <<>>
  <2>8. M # {}
    BY <1>1, <1>3
  <2>1. PICK T \in SUBSET Nat : T = M
    BY <1>15
  <2>2. PICK i \in T : \A j \in T : i <= j
    BY <2>1, <2>8, Least
  <2>3. i \in D
    BY <1>7, <2>1, <2>2
  <2>4. d # 0
    <3>1. PICK E \in SUBSET (1..n) : E = D
      BY <1>15
    <3>2. Counts(Order(E), E)
      BY Zenon, Ordered
    <3>3. QED
      BY <1>16, <2>3, <3>1, <3>2 DEF Counts
  <2>5. limit # None => limit \in Nat \ {0}
    BY <1>26 DEF EndpointLookup
  <2>6. Cardinality(K) # 0
    BY <1>17, <2>4, <2>5
  <2>7. QED
    BY <1>21, <2>6
<1>24. ASSUME NEW j \in DOMAIN items
       PROVE  \E p \in OfChain(Key(cs, k)) :
              /\ EndpointOf(p) = items[j].endpoint
              /\ EndpointOf(p) \notin EndpointsBefore(p)
              /\ Cardinality(EndpointsBefore(p)) = j - 1
              /\ Candidate(p).tag = items[j].tag
  <2>1. PICK m \in K : m = Order(K)[j] /\ items[j] = it[m] /\ Rank(K, m) = j
    BY Zenon, <1>21 DEF Counts
  <2>2. m \in D /\ m \in M /\ m \in DOMAIN cs
    BY <1>2
  <2>3. pos[m] \in OfChain(Key(cs, k)) /\ EndpointOf(pos[m]) = e[m]
    BY <1>11, <1>12, <2>2
  <2>4. e[m] = items[j].endpoint /\ items[j].tag = cs[m].tag
    BY Zenon, <1>2, <1>6, <1>18, <1>19, <2>1, <2>2
  <2>5. e[m] \notin EndpointsBefore(pos[m])
    <3>1. \A l \in M : l < m => e[l] # e[m]
      BY <1>7, <2>2
    <3>2. e[m] \notin Values(e, Below(M, m))
      BY <3>1 DEF Values, Below
    <3>3. QED
      BY <1>14, <2>2, <3>2
  <2>6. Cardinality(EndpointsBefore(pos[m])) = j - 1
    BY <1>8, <1>14, <1>17, <2>1, <2>2
  <2>7. Candidate(pos[m]).tag = cs[m].tag
    BY <2>2 DEF Delivery
  <2>8. QED
    BY Zenon, <2>3, <2>4, <2>5, <2>6, <2>7
<1>25. GroupHas(Key(cs, k), items)
  <2>1. Len(items) = IF lookup.record_limit = None
                     THEN Cardinality({EndpointOf(p) : p \in OfChain(Key(cs, k))})
                     ELSE Minimum({lookup.record_limit,
                                   Cardinality({EndpointOf(p) : p \in OfChain(Key(cs, k))})})
    BY <1>22, <1>26
  <2>2. DOMAIN items = 1..Len(items) /\ Len(items) \in Nat
    BY <1>21
  <2>3. QED
    BY Zenon, <1>23, <1>24, <2>1, <2>2 DEF GroupHas
<1>27. QED
  BY Zenon, <1>25, <1>26

-----------------------------------------------------------------------------
(* What is answered *)

GroupIs(g, i) ==
  /\ g.chain \in Chosen
  /\ Cardinality(ChainsBefore(g.chain) \cap Chosen) = i - 1
  /\ GroupHas(g.chain, g.items)

LEMMA Answered ==
  ASSUME DecodeInv, at > Len(body.records), NEW gs, gs = Selected(endpoints)
  PROVE  /\ Len(gs) = Cardinality(Chosen) /\ Len(gs) \in Nat /\ DOMAIN gs = 1..Len(gs)
         /\ Len(gs) = 0 => Chosen = {}
         /\ \A i \in DOMAIN gs : GroupIs(gs[i], i)
<1>1. PICK pos : Delivery(pos)
  BY Delivered
<1>2. PICK C : endpoints \in Seq(C)
  BY DEF DecodeInv
<1>3. PICK cs \in Seq(C) : cs = endpoints
  BY <1>2
<1>4. lookup \in EndpointLookup
  BY DEF DecodeInv
<1>5. PICK O, W, limit : /\ O = Offering(cs, lookup.family)
                         /\ W = Wanted(cs, lookup.family, lookup.sequences)
                         /\ limit = lookup.record_limit
  OBVIOUS
<1>6. /\ Cardinality(W) \in Nat /\ Counts(Order(W), W)
      /\ DOMAIN gs = 1..Cardinality(W) /\ Len(gs) = Cardinality(W)
      /\ \A n \in 1..Cardinality(W) :
              /\ Order(W)[n] \in W
              /\ gs[n].chain = Key(cs, Order(W)[n])
              /\ gs[n].items = Pick(Items(cs), Kept(cs, lookup.family, limit, Order(W)[n]))
  <2>1. SelectedBy(cs, W)
    BY Zenon, <1>4, <1>5, SelectedIs
  <2>2. gs = Selected(cs) /\ limit = lookup.record_limit
    BY Zenon, <1>3, <1>5
  <2>3. QED
    BY Zenon, <2>1, <2>2 DEF SelectedBy
<1>7. /\ O \in SUBSET Heads(cs, Len(cs)) /\ W \in SUBSET O
      /\ Chosen = {Key(cs, k) : k \in W}
      /\ Cardinality(Chosen) = Cardinality(W)
      /\ \A k \in W : Cardinality(ChainsBefore(Key(cs, k)) \cap Chosen) = Rank(W, k) - 1
  BY <1>1, <1>3, <1>4, <1>5, ChainsByNumber
<1>8. ASSUME Len(gs) = 0 PROVE Chosen = {}
  <2>1. W = {}
    BY <1>6, <1>8 DEF Counts
  <2>2. QED
    BY <1>7, <2>1
<1>9. ASSUME NEW n \in DOMAIN gs PROVE GroupIs(gs[n], n)
  <2>1. PICK k \in W : k = Order(W)[n] /\ Rank(W, k) = n
    BY <1>6, <1>9 DEF Counts
  <2>2. PICK items : items = gs[n].items
    OBVIOUS
  <2>3. gs[n].chain = Key(cs, k) /\ items = Pick(Items(cs), Kept(cs, lookup.family, limit, k))
    BY <1>6, <2>1, <2>2
  <2>4. k \in Heads(cs, Len(cs)) /\ Matching(cs, lookup.family, k) # {}
    <3>1. k \in O
      BY <1>7
    <3>2. QED
      BY <1>5, <3>1 DEF Offering
  <2>6. GroupHas(Key(cs, k), Pick(Items(cs), Kept(cs, lookup.family, lookup.record_limit, k)))
    BY <1>1, <1>3, <1>4, <2>4, GroupByNumber
  <2>7. Key(cs, k) \in Chosen /\ Cardinality(ChainsBefore(Key(cs, k)) \cap Chosen) = n - 1
    BY <1>7, <2>1
  <2>8. QED
    BY <1>5, <2>2, <2>3, <2>6, <2>7 DEF GroupIs
<1>10. QED
  BY Zenon, <1>6, <1>7, <1>8, <1>9

LEMMA Success ==
  ASSUME DecodeInv, Succeeded, via # "stream"
  PROVE  at > Len(body.records) /\ outcome.groups = Selected(endpoints)
<1>1. "decode" # None /\ "none" # None /\ "unusable" # None
  BY DecodeAssumption
<1>2. at > Len(body.records) /\ outcome = Result
  BY <1>1 DEF DecodeInv, Succeeded
<1>3. PICK gs : gs = Selected(endpoints)
  OBVIOUS
<1>4. CASE via = "server"
  BY <1>1, <1>2, <1>3, <1>4 DEF Succeeded, Result, ServerAnswer, AnswerFor
<1>5. CASE via = "mdns"
  BY <1>2, <1>5 DEF Result, MdnsAnswer
<1>6. QED
  BY Zenon, <1>2, <1>4, <1>5 DEF DecodeInv

LEMMA ExactGroupsHolds == DecodeInv => ExactGroups
<1> SUFFICES ASSUME DecodeInv, Succeeded, via # "stream"
             PROVE  /\ Len(outcome.groups) = Cardinality(Chosen)
                    /\ \A i \in DOMAIN outcome.groups : ExactGroup(outcome.groups[i], i)
  BY DEF ExactGroups
<1>1. PICK gs : gs = outcome.groups /\ gs = Selected(endpoints)
  BY Success
<1>2. Len(gs) = Cardinality(Chosen) /\ \A i \in DOMAIN gs : GroupIs(gs[i], i)
  BY <1>1, Success, Answered
<1>3. \A g, i : GroupIs(g, i) => ExactGroup(g, i)
  BY Zenon DEF GroupIs, GroupHas, ExactGroup
<1>4. QED
  BY Zenon, <1>1, <1>2, <1>3

LEMMA AnsweredItems ==
  ASSUME DecodeInv, at > Len(body.records), NEW gs, gs = Selected(endpoints),
         NEW g \in Range(gs), NEW x \in Range(g.items)
  PROVE  \E p \in OfChain(g.chain) : /\ EndpointOf(p) = x.endpoint /\ Candidate(p).tag = x.tag
                                     /\ x.tag \in Nat
<1>1. PICK i \in DOMAIN gs : g = gs[i]
  BY DEF Range
<1>2. PICK items, c : items = g.items /\ c = g.chain
  OBVIOUS
<1>3. PICK j \in DOMAIN items : x = items[j]
  BY <1>2 DEF Range
<1>4. GroupHas(c, items)
  BY Zenon, <1>1, <1>2, Answered DEF GroupIs
<1>5. PICK p \in OfChain(c) : EndpointOf(p) = x.endpoint /\ Candidate(p).tag = x.tag
  BY Zenon, <1>3, <1>4 DEF GroupHas
<1>6. p \in Listed
  BY DEF OfChain, Usable
<1>7. Candidate(p).tag \in Nat
  <2>1. PICK k \in DOMAIN body.records : p \in {k} \X DOMAIN body.records[k].dns.answers
    BY Zenon, <1>6 DEF Listed
  <2>2. PICK l \in DOMAIN body.records[k].dns.answers : p = <<k, l>>
    BY <2>1
  <2>3. p[1] = k /\ p[2] = l
    BY <2>2
  <2>4. body.records[k].dns.answers[l].ttl \in Nat
    BY Zenon, BodyTypes DEF DecodeInv
  <2>5. QED
    BY Zenon, <2>3, <2>4 DEF Candidate
<1>8. QED
  BY <1>2, <1>5, <1>7

LEMMA EmptyHolds == DecodeInv => EmptyIsExplained
<1> SUFFICES ASSUME DecodeInv, outcome # None, via = "server", outcome.error \in {"none", "unusable"}
             PROVE  /\ Chosen = {}
                    /\ outcome.error = "none" <=> \A r \in Range(body.records) : Genuine(r)
  BY DEF EmptyIsExplained
<1>1. at > Len(body.records) /\ outcome = Result
  BY DEF DecodeInv
<1>2. PICK gs : gs = Selected(endpoints)
  OBVIOUS
<1>3. outcome = ServerAnswer(gs)
  BY <1>1, <1>2 DEF Result
<1>4. None \notin {"none", "unusable"}
  BY DecodeAssumption
<1>5. gs = <<>> /\ outcome.error = IF rejected = 0 THEN "none" ELSE "unusable"
  BY <1>3, <1>4 DEF ServerAnswer, AnswerFor
<1>6. Chosen = {}
  <2>1. Len(gs) = 0
    BY <1>5
  <2>2. QED
    BY <1>1, <1>2, <2>1, Answered
<1>7. \A k : k \in DOMAIN body.records <=> k \in 1..(at - 1)
  <2>1. Len(body.records) \in Nat /\ DOMAIN body.records = 1..Len(body.records)
    BY Zenon, BodyTypes DEF DecodeInv
  <2>2. at \in 1..(Len(body.records) + 1)
    BY DEF DecodeInv
  <2>3. QED
    BY <1>1, <2>1, <2>2
<1>8. (\A r \in Range(body.records) : Genuine(r)) <=> rejected = 0
  BY <1>7 DEF DecodeInv, Range
<1>9. QED
  BY <1>5, <1>6, <1>8

LEMMA Fresh ==
  ASSUME NEW d \in Nat, headers.age \in Nat, headers.cc \in Seq(Seq([name : STRING, n : Nat])),
         NEW t, t = freshness(d), t > 0
  PROVE  /\ t \in Nat /\ t + headers.age <= d
         /\ \A i \in DOMAIN headers.cc : \A j \in DOMAIN headers.cc[i] :
              /\ headers.cc[i][j].name \notin {"no-store", "no-cache"}
              /\ headers.cc[i][j].name = "max-age" /\ i = 1
                   /\ (\A l \in 1..(j - 1) : headers.cc[1][l].name # "max-age")
                   => t + headers.age <= headers.cc[i][j].n
<1>1. PICK cc \in Seq(Seq([name : STRING, n : Nat])), age \in Nat : cc = headers.cc /\ age = headers.age
  OBVIOUS
<1>2. PICK first : first = IF cc = <<>> THEN <<>> ELSE cc[1]
  OBVIOUS
<1>3. PICK ages : ages = {i \in DOMAIN first : first[i].name = "max-age"}
  BY Zenon
<1>4. PICK lim : lim = IF ages = {} THEN {} ELSE {first[Minimum(ages)].n}
  BY Zenon
<1>5. t = IF \E i \in DOMAIN cc : \E x \in Range(cc[i]) : x.name \in {"no-store", "no-cache"}
          THEN 0 ELSE Monus(Minimum({d} \cup lim), age)
  BY Zenon, <1>1, <1>2, <1>3, <1>4 DEF freshness, freshnessOf
<1>6. ASSUME NEW i \in DOMAIN cc, NEW j \in DOMAIN cc[i]
      PROVE  cc[i][j].name \notin {"no-store", "no-cache"}
  <2>1. cc[i][j] \in Range(cc[i])
    BY DEF Range
  <2>2. QED
    BY <1>5, <2>1
<1>7. t = Monus(Minimum({d} \cup lim), age)
  BY <1>5
<1>8. first \in Seq([name : STRING, n : Nat])
  <2>1. CASE cc = <<>>
    BY <1>2, <2>1
  <2>2. CASE cc # <<>>
    <3>1. 1 \in DOMAIN cc
      BY <2>2
    <3>2. QED
      BY <1>2, <2>2, <3>1
  <2>3. QED
    BY <2>1, <2>2
<1>9. PICK k \in Nat : DOMAIN first = 1..k /\ \A i \in 1..k : first[i].n \in Nat
  <2>1. Len(first) \in Nat /\ DOMAIN first = 1..Len(first)
        /\ \A i \in 1..Len(first) : first[i] \in [name : STRING, n : Nat]
    BY Zenon, <1>8, SeqFacts
  <2>2. QED
    BY Zenon, <2>1
<1>10. PICK A \in SUBSET Nat : A = ages
  <2>1. \A i \in ages : i \in Nat
    BY <1>3, <1>9
  <2>2. QED
    BY <2>1
<1>11. ages # {} => Minimum(ages) \in ages /\ \A i \in ages : Minimum(ages) <= i
  BY <1>10, MinimumIsLeast
<1>12. PICK T \in SUBSET Nat : T = {d} \cup lim
  BY Zenon, <1>3, <1>4, <1>9, <1>11
<1>13. Minimum(T) \in Nat /\ \A x \in T : Minimum(T) <= x
  BY Zenon, <1>12, MinimumIsLeast
<1>14. PICK m \in Nat : m = Minimum(T)
  BY <1>13
<1>15. t \in Nat /\ t + age = m
  BY <1>7, <1>12, <1>14 DEF Monus
<1>16. \A x \in {d} \cup lim : t + age <= x
  BY Zenon, <1>12, <1>13, <1>14, <1>15
<1>17. ASSUME NEW j \in DOMAIN cc[1], 1 \in DOMAIN cc, cc[1][j].name = "max-age",
              \A l \in 1..(j - 1) : cc[1][l].name # "max-age"
       PROVE  t + age <= cc[1][j].n
  <2>1. first = cc[1]
    BY <1>2, <1>17
  <2>2. j \in ages /\ j \in Nat
    BY <1>3, <1>9, <1>17, <2>1
  <2>3. PICK l \in Nat : l = Minimum(ages)
    BY Zenon, <1>10, <1>11, <2>2
  <2>4. l \in ages /\ l <= j
    BY <1>11, <2>2, <2>3
  <2>5. l >= 1
    BY <1>3, <1>9, <2>4
  <2>6. ~(l \in 1..(j - 1))
    BY Zenon, <1>3, <1>17, <2>1, <2>4
  <2>7. l = j
    BY <2>2, <2>4, <2>5, <2>6
  <2>8. lim = {cc[1][j].n}
    BY <1>4, <2>1, <2>2, <2>3, <2>7
  <2>9. QED
    BY <1>16, <2>8
<1>18. QED
  BY Zenon, <1>1, <1>6, <1>15, <1>16, <1>17

LEMMA CachedHolds == DecodeInv => CachedNoLongerThanFresh
<1> SUFFICES ASSUME DecodeInv, Succeeded, via = "server", outcome.ttl > 0
             PROVE  CachedNoLongerThanFresh
  BY DEF CachedNoLongerThanFresh
<1>1. PICK gs, t : gs = outcome.groups /\ gs = Selected(endpoints) /\ t = outcome.ttl
  BY Success
<1>2. at > Len(body.records)
  BY Success
<1>3. PICK tags : tags = UNION {{x.tag : x \in Range(g.items)} : g \in Range(gs)}
  BY Zenon
<1>4. outcome = ServerAnswer(gs)
  BY <1>1, DecodeAssumption DEF DecodeInv, Succeeded, Result
<1>5. gs # <<>> /\ t = freshness(Minimum(tags))
  BY SMTT(30), <1>1, <1>3, <1>4, DecodeAssumption DEF ServerAnswer, AnswerFor, Succeeded
<1>6. ASSUME NEW g \in Range(gs), NEW x \in Range(g.items)
      PROVE  /\ x.tag \in Nat /\ x.tag \in tags
             /\ \E p \in OfChain(g.chain) : EndpointOf(p) = x.endpoint /\ Candidate(p).tag = x.tag
  <2>1. \E p \in OfChain(g.chain) : /\ EndpointOf(p) = x.endpoint /\ Candidate(p).tag = x.tag
                                    /\ x.tag \in Nat
    BY <1>1, <1>2, AnsweredItems
  <2>2. x.tag \in tags
    <3>1. PICK X : X = {z.tag : z \in Range(g.items)}
      BY Zenon
    <3>2. x.tag \in X
      BY <3>1
    <3>3. X \in {{z.tag : z \in Range(h.items)} : h \in Range(gs)}
      BY Zenon, <3>1
    <3>4. QED
      BY Zenon, <1>3, <3>2, <3>3
  <2>3. QED
    BY Zenon, <2>1, <2>2
<1>7. PICK T \in SUBSET Nat : T = tags
  <2>1. \A x \in tags : x \in Nat
    BY <1>3, <1>6
  <2>2. QED
    BY <2>1
<1>8. T # {}
  <2>1. /\ Len(gs) \in Nat /\ DOMAIN gs = 1..Len(gs) /\ \A i \in DOMAIN gs : GroupIs(gs[i], i)
    BY <1>1, <1>2, Answered
  <2>2. 1 \in DOMAIN gs
    <3>1. Len(gs) # 0
      <4>1. PICK C : endpoints \in Seq(C)
        BY DEF DecodeInv
      <4>2. SUFFICES ASSUME Len(gs) = 0 PROVE FALSE
        OBVIOUS
      <4>3. gs = [i \in DOMAIN gs |-> gs[i]]
        BY <1>1 DEF Selected
      <4>4. DOMAIN gs = {}
        BY <2>1, <4>2
      <4>5. gs = <<>>
        BY <4>3, <4>4
      <4>6. QED
        BY <1>5, <4>5
    <3>2. QED
      BY <2>1, <3>1
  <2>3. PICK items : items = gs[1].items
    OBVIOUS
  <2>4. gs[1] \in Range(gs) /\ DOMAIN items = 1..Len(items) /\ Len(items) \in Nat /\ items # <<>>
        /\ Len(items) # 0
    <3>1. GroupIs(gs[1], 1)
      BY <2>1, <2>2
    <3>2. GroupHas(gs[1].chain, items)
      BY <2>3, <3>1 DEF GroupIs
    <3>3. QED
      BY <2>2, <3>2 DEF GroupHas, Range
  <2>5. items[1] \in Range(items)
    BY <2>4 DEF Range
  <2>6. QED
    BY Zenon, <1>6, <1>7, <2>3, <2>4, <2>5
<1>9. PICK d \in Nat : d = Minimum(tags) /\ \A x \in tags : d <= x
  BY Zenon, <1>7, <1>8, MinimumIsLeast
<1>10. headers.age \in Nat /\ headers.cc \in Seq(Seq([name : STRING, n : Nat]))
  BY DEF DecodeInv
<1>11. PICK c : c = freshness(d) /\ c = t /\ c > 0
  BY <1>1, <1>5, <1>9
<1>12. /\ c \in Nat /\ c + headers.age <= d
       /\ \A i \in DOMAIN headers.cc : \A j \in DOMAIN headers.cc[i] :
              /\ headers.cc[i][j].name \notin {"no-store", "no-cache"}
              /\ headers.cc[i][j].name = "max-age" /\ i = 1
                   /\ (\A l \in 1..(j - 1) : headers.cc[1][l].name # "max-age")
                   => c + headers.age <= headers.cc[i][j].n
  BY Zenon, <1>10, <1>11, Fresh
<1>13. ASSUME NEW g \in Range(outcome.groups), NEW x \in Range(g.items)
       PROVE  \E p \in OfChain(g.chain) : /\ EndpointOf(p) = x.endpoint
                                          /\ outcome.ttl + headers.age <= Candidate(p).tag
  <2>1. x.tag \in Nat /\ d <= x.tag
    BY <1>1, <1>6, <1>9
  <2>2. c + headers.age <= x.tag
    BY <1>10, <1>12, <2>1
  <2>3. QED
    BY <1>1, <1>6, <1>11, <2>2
<1>14. QED
  BY Zenon, <1>1, <1>11, <1>12, <1>13 DEF CachedNoLongerThanFresh

(* The mDNS stream's group *)
Asks(cs, sequence, k) == sequence = None \/ Key(cs, k).sequence = sequence

LEMMA StreamGroup ==
  ASSUME NEW C, NEW cs \in Seq(C), NEW sequence, NEW H, H = Heads(cs, Len(cs))
  PROVE  \/ FirstGroup(cs, sequence) = <<>> /\ \A k \in H : ~Asks(cs, sequence, k)
         \/ \E k \in H : /\ Asks(cs, sequence, k) /\ \A j \in H : Asks(cs, sequence, j) => k <= j
                         /\ FirstGroup(cs, sequence) = Pick(Items(cs), Alike(cs, Len(cs), k))
<1>1. PICK n \in Nat : n = Len(cs) /\ DOMAIN cs = 1..n
  OBVIOUS
<1>2. PICK ga : ga = GroupAt(cs, n)
  OBVIOUS
<1>3. PICK GS : ga \in Seq(GS) /\ DOMAIN ga = 1..n
  <2>1. DOMAIN ga = 1..n /\ ga = [k \in 1..n |-> ga[k]]
    BY <1>1, <1>2 DEF GroupAt
  <2>2. PICK GS : GS = {ga[k] : k \in 1..n}
    BY Zenon
  <2>3. \A k \in 1..n : ga[k] \in GS
    BY <2>2
  <2>4. ga \in Seq(GS)
    BY <2>1, <2>3
  <2>5. QED
    BY Zenon, <2>1, <2>4
<1>4. PICK s \in Seq(GS) : s = ga /\ DOMAIN s = 1..n
  BY <1>3
<1>5. PICK h \in SUBSET DOMAIN s : h = H
  BY Zenon, <1>1, <1>4 DEF Heads, Listing
<1>6. PICK gs, o, c : gs = Pick(s, h) /\ o = Order(h) /\ c = Cardinality(h)
  OBVIOUS
<1>7. /\ c \in Nat /\ Counts(o, h) /\ DOMAIN gs = 1..c
      /\ \A i \in 1..c : o[i] \in h /\ gs[i] = s[o[i]]
  BY SMTT(30), <1>6, Picking
<1>8. gs = grouped_endpoint_candidates(cs)
  BY <1>1, <1>2, <1>4, <1>5, <1>6, Grouping DEF GroupsTo
<1>9. \A i \in 1..c : gs[i].chain = Key(cs, o[i]) /\ gs[i].items = Pick(Items(cs), Alike(cs, n, o[i]))
  <2> SUFFICES ASSUME NEW i \in 1..c
               PROVE  gs[i].chain = Key(cs, o[i]) /\ gs[i].items = Pick(Items(cs), Alike(cs, n, o[i]))
    OBVIOUS
  <2>1. PICK k \in DOMAIN cs : k = o[i]
    BY <1>1, <1>4, <1>7
  <2>2. PICK a, b : a = Key(cs, k) /\ b = Pick(Items(cs), Alike(cs, n, k)) /\ gs[i] = [chain |-> a, items |-> b]
    <3>1. gs[i] = ga[k]
      BY Zenon, <1>4, <1>7, <2>1
    <3>2. ga[k] = [chain |-> Key(cs, k), items |-> Pick(Items(cs), Alike(cs, n, k))]
      BY Zenon, <1>2 DEF GroupAt
    <3>3. QED
      BY Zenon, <3>1, <3>2
  <2>3. gs[i].chain = a /\ gs[i].items = b
    BY <2>2
  <2>4. QED
    BY <2>1, <2>2, <2>3
<1>10. PICK of \in SUBSET (1..c) : /\ of = IF sequence = None THEN DOMAIN gs
                                         ELSE {i \in DOMAIN gs : gs[i].chain.sequence = sequence}
                                   /\ \A i \in 1..c : i \in of <=> Asks(cs, sequence, o[i])
  <2>1. CASE sequence = None
    BY <1>7, <2>1 DEF Asks
  <2>2. CASE sequence # None
    <3>1. PICK of \in SUBSET (1..c) : of = {i \in DOMAIN gs : gs[i].chain.sequence = sequence}
      BY Zenon, <1>7
    <3>2. \A i \in 1..c : i \in of <=> gs[i].chain.sequence = sequence
      BY <1>7, <3>1
    <3>3. \A i \in 1..c : i \in of <=> Asks(cs, sequence, o[i])
      BY <1>9, <2>2, <3>2 DEF Asks
    <3>4. QED
      BY Zenon, <2>2, <3>1, <3>3
  <2>3. QED
    BY Zenon, <2>1, <2>2
<1>11. FirstGroup(cs, sequence) = IF of = {} THEN <<>> ELSE gs[Minimum(of)].items
  BY <1>8, <1>10 DEF FirstGroup
<1>12. \A k \in h : \E i \in 1..c : o[i] = k
  BY <1>6, <1>7 DEF Counts
<1>13. CASE of = {}
  BY Zenon, <1>5, <1>10, <1>11, <1>12, <1>13
<1>14. CASE of # {}
  <2>1. PICK T \in SUBSET Nat : T = of
    OBVIOUS
  <2>2. PICK i \in of : i = Minimum(of) /\ \A j \in of : i <= j
    BY Zenon, <1>14, <2>1, MinimumIsLeast
  <2>3. PICK k \in H : k = o[i]
    BY <1>5, <1>7
  <2>4. Asks(cs, sequence, k) /\ FirstGroup(cs, sequence) = Pick(Items(cs), Alike(cs, n, k))
    BY Zenon, <1>9, <1>10, <1>11, <1>14, <2>2, <2>3
  <2>5. ASSUME NEW j \in H, Asks(cs, sequence, j) PROVE k <= j
    <3>1. PICK l \in 1..c : o[l] = j
      BY <1>5, <1>12
    <3>2. i <= l /\ i \in 1..c
      BY Zenon, <1>10, <2>2, <2>5, <3>1
    <3>3. k \in Nat /\ j \in Nat
      BY <1>4, <1>5
    <3>4. ~(l < i)
      BY <1>7, <3>2
    <3>5. ~(o[l] < o[i])
      BY <1>6, <1>7, <3>2, <3>4 DEF Counts
    <3>6. QED
      BY <2>3, <3>1, <3>3, <3>5
  <2>6. QED
    BY <1>1, <2>4, <2>5
<1>15. QED
  BY Zenon, <1>13, <1>14

(* The items t are the endpoints of the family in the first chain asked for. *)
StreamOf(t, cs, sequence, family, H, k) ==
  /\ Asks(cs, sequence, k) /\ \A j \in H : Asks(cs, sequence, j) => k <= j
  /\ \A y : (\E x \in Range(t) : y = x.endpoint)
              <=> \E j \in Matching(cs, family, k) : y = EndpointAt(cs, j)

LEMMA StreamItems ==
  ASSUME NEW C, NEW cs \in Seq(C), NEW sequence, NEW family, NEW H, H = Heads(cs, Len(cs)),
         NEW t, t = OfFamily(FirstGroup(cs, sequence), family)
  PROVE  \/ Range(t) = {} /\ \A k \in H : ~Asks(cs, sequence, k)
         \/ \E k \in H : StreamOf(t, cs, sequence, family, H, k)
<1>1. CASE FirstGroup(cs, sequence) = <<>> /\ \A k \in H : ~Asks(cs, sequence, k)
  <2>1. OfFamily(<<>>, family) = Pick(<<>>, {})
    BY DEF OfFamily
  <2>2. t = <<>>
    BY <1>1, <2>1, PickNone
  <2>3. QED
    BY <1>1, <2>2 DEF Range
<1>2. ASSUME NEW k \in H, Asks(cs, sequence, k), \A j \in H : Asks(cs, sequence, j) => k <= j,
             FirstGroup(cs, sequence) = Pick(Items(cs), Alike(cs, Len(cs), k))
      PROVE  \A y : (\E x \in Range(t) : y = x.endpoint)
                      <=> \E j \in Matching(cs, family, k) : y = EndpointAt(cs, j)
  <2>1. PICK I \in SUBSET DOMAIN cs : I = Alike(cs, Len(cs), k)
    BY Zenon DEF Alike, Listing
  <2>2. t = Pick(Items(cs), {j \in I : endpoint_matches_family(EndpointAt(cs, j), family)})
    BY <1>2, <2>1, FamilyItems
  <2>3. PICK M \in SUBSET DOMAIN cs : M = Matching(cs, family, k)
    BY Zenon, <2>1 DEF Matching
  <2>4. t = Pick(Items(cs), M)
    BY <2>1, <2>2, <2>3 DEF Matching
  <2>5. PICK IT : /\ Items(cs) \in Seq(IT) /\ DOMAIN Items(cs) = DOMAIN cs
                  /\ \A j \in DOMAIN cs : Items(cs)[j].endpoint = EndpointAt(cs, j)
    BY ItemsOf
  <2>6. PICK it \in Seq(IT) : it = Items(cs)
    BY <2>5
  <2>7. Range(Pick(it, M)) = {it[j] : j \in M}
    <3>1. PICK J \in SUBSET DOMAIN it : J = M
      BY <2>5, <2>6
    <3>2. /\ Pick(it, J) \in Seq(IT)
          /\ Range(Pick(it, J)) = {it[j] : j \in J}
          /\ (\A i, j \in J : it[i] = it[j] => i = j) => IsInjective(Pick(it, J))
      BY Zenon, PickedElements
    <3>3. QED
      BY Zenon, <3>1, <3>2
  <2>8. \A x : x \in Range(t) <=> \E j \in M : x = it[j]
    BY <2>4, <2>6, <2>7
  <2>9. \A j \in M : it[j].endpoint = EndpointAt(cs, j)
    BY <2>5, <2>6
  <2>10. ASSUME NEW y PROVE (\E x \in Range(t) : y = x.endpoint)
                             <=> \E j \in M : y = EndpointAt(cs, j)
    <3>1. ASSUME NEW x \in Range(t), y = x.endpoint PROVE \E j \in M : y = EndpointAt(cs, j)
      <4>1. PICK j \in M : x = it[j]
        BY Zenon, <2>8
      <4>2. y = EndpointAt(cs, j)
        BY Zenon, <2>9, <3>1, <4>1
      <4>3. QED
        BY Zenon, <4>2
    <3>2. ASSUME NEW j \in M, y = EndpointAt(cs, j) PROVE \E x \in Range(t) : y = x.endpoint
      <4>1. it[j] \in Range(t)
        BY Zenon, <2>8
      <4>2. y = it[j].endpoint
        BY Zenon, <2>9, <3>2
      <4>3. QED
        BY Zenon, <4>1, <4>2
    <3>3. QED
      BY Zenon, <3>1, <3>2
  <2>11. QED
    BY Zenon, <2>3, <2>10
<1>3. CASE ~(FirstGroup(cs, sequence) = <<>> /\ \A k \in H : ~Asks(cs, sequence, k))
  <2>1. PICK k \in H : /\ Asks(cs, sequence, k) /\ \A j \in H : Asks(cs, sequence, j) => k <= j
                      /\ FirstGroup(cs, sequence) = Pick(Items(cs), Alike(cs, Len(cs), k))
    BY <1>3, StreamGroup
  <2>2. \A y : (\E x \in Range(t) : y = x.endpoint)
                <=> \E j \in Matching(cs, family, k) : y = EndpointAt(cs, j)
    BY Zenon, <1>2, <2>1
  <2>3. StreamOf(t, cs, sequence, family, H, k)
    BY <2>1, <2>2 DEF StreamOf
  <2>4. QED
    BY <2>3
<1>4. QED
  BY Zenon, <1>1, <1>3

LEMMA KeyOfSequence ==
  ASSUME DecodeInv, via = "stream", NEW pos, Delivery(pos), NEW C, NEW cs \in Seq(C), cs = endpoints,
         NEW j \in Listing(cs), NEW k \in Listing(cs), Key(cs, j).sequence = Key(cs, k).sequence
  PROVE  Key(cs, j) = Key(cs, k)
<1>1. ASSUME NEW i \in Listing(cs)
      PROVE  Key(cs, i) = [primary |-> TRUE, sequence |-> Key(cs, i).sequence]
  <2>1. PICK p \in Listed : p = pos[i] /\ Candidate(p) = cs[i] /\ Groupable(cs[i])
    BY DEF Delivery, Listing
  <2>2. PICK a \in DOMAIN body.records : \E b \in DOMAIN body.records[a].dns.answers : p = <<a, b>>
    <3>1. PICK X \in {{k0} \X DOMAIN body.records[k0].dns.answers : k0 \in DOMAIN body.records} : p \in X
      BY Zenon DEF Listed
    <3>2. PICK a \in DOMAIN body.records : X = {a} \X DOMAIN body.records[a].dns.answers
      BY Zenon, <3>1
    <3>3. PICK b \in DOMAIN body.records[a].dns.answers : p = <<a, b>>
      BY <3>1, <3>2
    <3>4. QED
      BY Zenon, <3>3
  <2>3. PICK b \in DOMAIN body.records[a].dns.answers : p = <<a, b>> /\ p[1] = a /\ p[2] = b
    BY <2>2
  <2>4. body.records[a].dns.answers[b].record.main \in BOOLEAN
    BY Zenon, BodyTypes DEF DecodeInv
  <2>5. PICK r, c : r = body.records[a].dns.answers[b].record /\ c = cs[i] /\ c.record = r /\ c.fallback = None
    <3>1. PICK x : x = body.records[a].dns.answers[b]
      BY Zenon
    <3>2. Candidate(p) = [tag |-> x.ttl, record |-> x.record, fallback |-> None]
      BY Zenon, <2>3, <3>1 DEF Candidate
    <3>3. cs[i].record = x.record /\ cs[i].fallback = None
      BY SMTT(30), <2>1, <3>2
    <3>4. QED
      BY Zenon, <3>1, <3>3
  <2>6. PICK s : certificate_chain_key(r) = [primary |-> r.main, sequence |-> s]
    BY Zenon DEF certificate_chain_key
  <2>7. Key(cs, i) = [primary |-> r.main, sequence |-> s]
    BY Zenon, <2>5, <2>6 DEF Key, effective_chain_key
  <2>8. Key(cs, i).primary /\ r.main \in BOOLEAN
    BY Zenon, <2>1, <2>4, <2>5 DEF Key, Groupable
  <2>9. r.main
    BY <2>7, <2>8
  <2>10. r.main = TRUE
    BY <2>8, <2>9
  <2>11. Key(cs, i).sequence = s
    BY <2>7
  <2>12. QED
    BY Zenon, <2>7, <2>10, <2>11
<1>2. PICK n : n = Key(cs, j).sequence /\ n = Key(cs, k).sequence
  OBVIOUS
<1>3. QED
  BY Zenon, <1>1, <1>2

LEMMA StreamSuccess ==
  ASSUME DecodeInv, Succeeded, via = "stream"
  PROVE  /\ at > Len(body.records)
         /\ outcome.groups = <<[chain |-> None,
                                items |-> OfFamily(FirstGroup(endpoints, lookup.asked), lookup.family)]>>
<1>1. "decode" # None
  BY DecodeAssumption
<1>2. at > Len(body.records) /\ outcome = Result
  BY <1>1 DEF DecodeInv, Succeeded
<1>3. outcome = [error |-> None, groups |-> MdnsAnswer, ttl |-> 0]
  BY <1>2 DEF Result
<1>4. outcome.groups = MdnsAnswer
  BY <1>3
<1>5. QED
  BY Zenon, <1>2, <1>4 DEF MdnsAnswer, selected_endpoint_addrs_for_sequence

(* The first of each chain, and that of all, in the delivery. *)
LEMMA ListedChains ==
  ASSUME NEW pos, Delivery(pos), NEW C, NEW cs \in Seq(C), cs = endpoints,
         NEW H, H = Heads(cs, Len(cs))
  PROVE  /\ \A c : (\E p \in Listed : c = ChainOf(p)) <=> \E k \in H : c = Key(cs, k)
         /\ \A k \in H : (\A p \in Listed : ~Before(p, FirstListed(Key(cs, k)))) <=> \A j \in H : k <= j
<1>1. /\ \A k \in DOMAIN cs : ChainOf(pos[k]) = Key(cs, k)
      /\ \A k \in H : FirstListed(Key(cs, k)) = pos[k]
  <2>1. PICK family : family = lookup.family
    BY Zenon
  <2>2. Numbered(pos, cs, family, H)
    BY Zenon, <2>1, ByNumber
  <2>3. QED
    BY Zenon, <2>2 DEF Numbered
<1>2. PICK m \in Nat : m = Len(cs) /\ DOMAIN cs = 1..m
  OBVIOUS
<1>3. \A k \in Listing(cs) : k \in DOMAIN cs /\ k \in Nat
  BY <1>2 DEF Listing
<1>4. \A k \in H : k \in Listing(cs) /\ k \in Nat
  BY <1>3 DEF Heads
<1>5. ASSUME NEW j \in Listing(cs) PROVE \E k \in H : Key(cs, k) = Key(cs, j) /\ k <= j
  <2>1. PICK k \in Heads(cs, j) : Key(cs, k) = Key(cs, j)
    BY HeadOf
  <2>2. k \in Listing(cs) /\ k <= j /\ k <= m
    BY <1>2, <1>3 DEF Heads
  <2>3. QED
    BY <1>2, <2>1, <2>2 DEF Heads
<1>6. \A p : p \in Listed <=> \E j \in Listing(cs) : p = pos[j]
  BY DEF Delivery
<1>7. ASSUME NEW p \in Listed PROVE \E k \in H : ChainOf(p) = Key(cs, k)
  <2>1. PICK j \in Listing(cs) : p = pos[j]
    BY <1>6
  <2>2. PICK k \in H : Key(cs, k) = Key(cs, j)
    BY <1>5
  <2>3. QED
    BY <1>1, <1>3, <2>1, <2>2
<1>8. ASSUME NEW k \in H PROVE \E p \in Listed : ChainOf(p) = Key(cs, k)
  BY <1>1, <1>3, <1>4, <1>6
<1>9. ASSUME NEW k \in H
      PROVE  (\A p \in Listed : ~Before(p, FirstListed(Key(cs, k)))) <=> \A j \in H : k <= j
  <2>1. \A j \in Listing(cs) : Before(pos[j], pos[k]) <=> j < k
    BY <1>3, <1>4 DEF Delivery
  <2>2. (\A p \in Listed : ~Before(p, FirstListed(Key(cs, k)))) <=> \A j \in Listing(cs) : ~(j < k)
    BY <1>1, <1>6, <2>1
  <2>3. (\A j \in Listing(cs) : ~(j < k)) => \A j \in H : k <= j
    BY <1>4
  <2>4. ASSUME \A j \in H : k <= j, NEW j \in Listing(cs) PROVE ~(j < k)
    <3>1. PICK l \in H : l <= j
      BY <1>5
    <3>2. k <= l /\ k \in Nat /\ l \in Nat /\ j \in Nat
      BY <1>3, <1>4, <2>4
    <3>3. QED
      BY <3>1, <3>2
  <2>5. QED
    BY <2>2, <2>3, <2>4
<1>10. QED
  BY <1>7, <1>8, <1>9

LEMMA StreamHolds == DecodeInv => StreamIsOneChain
<1> SUFFICES ASSUME DecodeInv, Succeeded, via = "stream" PROVE StreamIsOneChain
  BY DEF StreamIsOneChain
<1>1. PICK C : endpoints \in Seq(C)
  BY DEF DecodeInv
<1>2. PICK cs \in Seq(C) : cs = endpoints
  BY <1>1
<1>3. PICK s, f, H, t : /\ s = lookup.asked /\ f = lookup.family /\ H = Heads(cs, Len(cs))
                        /\ t = OfFamily(FirstGroup(cs, s), f)
  OBVIOUS
<1>4. at > Len(body.records) /\ outcome.groups = <<[chain |-> None, items |-> t]>>
  BY <1>2, <1>3, StreamSuccess
<1>5. outcome.groups[1].items = t
  BY <1>4
<1>6. PICK pos : Delivery(pos)
  BY <1>4, Delivered
<1> DEFINE got == {x.endpoint : x \in Range(outcome.groups[1].items)}
           chains == {c \in {ChainOf(p) : p \in Listed} :
                        IF lookup.asked = None
                        THEN \A p \in Listed : ~Before(p, FirstListed(c))
                        ELSE c.sequence = lookup.asked}
<1>7. \A c : c \in chains <=>
        \E k \in H : c = Key(cs, k) /\ IF s = None THEN \A j \in H : k <= j ELSE c.sequence = s
  <2>1. /\ \A c : (\E p \in Listed : c = ChainOf(p)) <=> \E k \in H : c = Key(cs, k)
        /\ \A k \in H : (\A p \in Listed : ~Before(p, FirstListed(Key(cs, k)))) <=> \A j \in H : k <= j
    BY <1>2, <1>3, <1>6, ListedChains
  <2>2. QED
    BY Zenon, <1>3, <2>1
<1>8. \A y : y \in got <=> \E x \in Range(t) : y = x.endpoint
  BY <1>5
<1>9. /\ \A k \in H : k \in Listing(cs) /\ k \in Nat
      /\ \A k \in Listing(cs) : k \in DOMAIN cs
  BY <1>3 DEF Heads, Listing
<1> HIDE DEF got, chains
<1>10. \A y : y \in got <=> \E c \in chains : \E p \in OfChain(c) : y = EndpointOf(p)
  <2>1. CASE Range(t) = {} /\ \A k \in H : ~Asks(cs, s, k)
    <3>1. \A c : c \notin chains
      BY <1>7, <2>1 DEF Asks
    <3>2. QED
      BY <1>8, <2>1, <3>1
  <2>2. CASE ~(Range(t) = {} /\ \A k \in H : ~Asks(cs, s, k))
    <3>0. PICK k \in H : StreamOf(t, cs, s, f, H, k)
      BY <1>3, <2>2, StreamItems
    <3>1. /\ Asks(cs, s, k) /\ \A j \in H : Asks(cs, s, j) => k <= j
          /\ \A y : (\E x \in Range(t) : y = x.endpoint)
                      <=> \E j \in Matching(cs, f, k) : y = EndpointAt(cs, j)
      BY <3>0 DEF StreamOf
    <3>2. \A c : c \in chains <=> c = Key(cs, k)
      <4>1. CASE s = None
        <5>1. \A j \in H : k <= j
          BY <3>1, <4>1 DEF Asks
        <5>2. \A l \in H : (\A j \in H : l <= j) => l = k
          BY <1>9, <5>1
        <5>3. QED
          BY <1>7, <4>1, <5>1, <5>2
      <4>2. CASE s # None
        <5>1. Key(cs, k).sequence = s
          BY <3>1, <4>2 DEF Asks
        <5>2. \A l \in H : Key(cs, l).sequence = s => Key(cs, l) = Key(cs, k)
          BY <1>2, <1>6, <1>9, <5>1, KeyOfSequence
        <5>3. QED
          BY <1>7, <4>2, <5>1, <5>2
      <4>3. QED
        BY <4>1, <4>2
    <3>9. Numbered(pos, cs, f, H)
      BY Zenon, <1>2, <1>3, <1>6, ByNumber
    <3>3. OfChain(Key(cs, k)) = {pos[j] : j \in Matching(cs, f, k)}
      BY Zenon, <1>9, <3>9 DEF Numbered
    <3>4. \A j \in Matching(cs, f, k) : EndpointOf(pos[j]) = EndpointAt(cs, j)
      <4>1. \A j \in Matching(cs, f, k) : j \in DOMAIN cs
        BY <1>9 DEF Matching, Alike
      <4>2. QED
        BY Zenon, <3>9, <4>1 DEF Numbered
    <3>5. \A y : (\E p \in OfChain(Key(cs, k)) : y = EndpointOf(p))
                   <=> \E j \in Matching(cs, f, k) : y = EndpointAt(cs, j)
      BY <3>3, <3>4
    <3>6. QED
      BY Zenon, <1>8, <3>1, <3>2, <3>5
  <2>3. QED
    BY <2>1, <2>2
<1>11. got = UNION {{EndpointOf(p) : p \in OfChain(c)} : c \in chains}
  BY <1>10
<1>12. QED
  BY Zenon, <1>11 DEF StreamIsOneChain, got, chains

LEMMA UsableHolds == DecodeInv => OnlyUsable
<1> SUFFICES ASSUME DecodeInv, Succeeded,
                    NEW g \in Range(outcome.groups), NEW x \in Range(g.items)
             PROVE  \E p \in Usable :
                      EndpointOf(p) = x.endpoint /\ (g.chain = None \/ ChainOf(p) = g.chain)
  BY DEF OnlyUsable
<1>1. CASE via # "stream"
  <2>1. PICK gs : gs = outcome.groups /\ gs = Selected(endpoints) /\ at > Len(body.records)
    BY <1>1, Success
  <2>2. PICK p \in OfChain(g.chain) : EndpointOf(p) = x.endpoint
    BY <2>1, AnsweredItems
  <2>3. p \in Usable /\ ChainOf(p) = g.chain
    BY DEF OfChain
  <2>4. QED
    BY <2>2, <2>3
<1>2. CASE via = "stream"
  <2>1. PICK t : t = OfFamily(FirstGroup(endpoints, lookup.asked), lookup.family)
    OBVIOUS
  <2>2. outcome.groups = <<[chain |-> None, items |-> t]>>
    BY <1>2, <2>1, StreamSuccess
  <2>3. g = [chain |-> None, items |-> t] /\ outcome.groups[1] = g
    BY <2>2 DEF Range
  <2>4. g.chain = None /\ g.items = t
    BY <2>3
  <2>5. PICK y : y = x.endpoint /\ y \in {z.endpoint : z \in Range(outcome.groups[1].items)}
    BY <2>3, <2>4
  <2>6. \E c : \E p \in OfChain(c) : y = EndpointOf(p)
    BY <1>2, <2>5, StreamHolds DEF StreamIsOneChain
  <2>7. QED
    BY <2>4, <2>5, <2>6 DEF OfChain
<1>3. QED
  BY Zenon, <1>1, <1>2

-----------------------------------------------------------------------------
(* What a lookup answers *)

(* OnlyUsable in every state, for any delivery, headers and query: what is *)
(* returned was put into its chain by a genuine answer of the asked name.  *)
THEOREM AnswersAreUsable == DecodeSpec => []OnlyUsable
BY DecodeInvInit, DecodeInvStep, UsableHolds, PTL DEF DecodeSpec

(* ExactGroups in every state: the fold that groups, the filter by family, *)
(* the selection of chains, the removal of duplicates and the record limit *)
(* give together exactly the groups the whole delivery calls for.          *)
THEOREM AnswersAreExact == DecodeSpec => []ExactGroups
BY DecodeInvInit, DecodeInvStep, ExactGroupsHolds, PTL DEF DecodeSpec

(* CachedNoLongerThanFresh in every state: the time a server's answer may  *)
(* be cached exceeds neither what is left of any returned record's TTL nor *)
(* of the response's max-age, and an uncacheable response is not cached.   *)
THEOREM CachedWhileFresh == DecodeSpec => []CachedNoLongerThanFresh
BY DecodeInvInit, DecodeInvStep, CachedHolds, PTL DEF DecodeSpec

(* EmptyIsExplained in every state: "no record found" is only reported of  *)
(* deliveries in which everything verified and nothing was chosen.         *)
THEOREM EmptyAnswersAreExplained == DecodeSpec => []EmptyIsExplained
BY DecodeInvInit, DecodeInvStep, EmptyHolds, PTL DEF DecodeSpec

(* StreamIsOneChain in every state: the mDNS stream never mixes chains.    *)
THEOREM StreamsAreOneChain == DecodeSpec => []StreamIsOneChain
BY DecodeInvInit, DecodeInvStep, StreamHolds, PTL DEF DecodeSpec
=============================================================================
