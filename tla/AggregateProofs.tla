--------------------------- MODULE AggregateProofs ---------------------------
(***************************************************************************)
(* Proofs about the aggregate resolver.  Aggregate, for any number of      *)
(* entries that answer in any order with streams and group lists of any    *)
(* length: merged candidates are exact, a call fails only if all entries   *)
(* do, Resolvers passes on every record, each once.  InstallResolvers, for *)
(* any number of threads and requests: a source is registered once, and an *)
(* Ok means that all of them are.                                          *)
(***************************************************************************)
EXTENDS Aggregate, InstallResolvers, EndpointCandidateProofs

-----------------------------------------------------------------------------
(* Merging candidate groups *)

(* h is what the groups in of come to: their endpoints, each once, and     *)
(* their sources.                                                          *)
Joined(h, of) ==
  /\ Range(h.endpoints) = UNION {Range(g.endpoints) : g \in of}
  /\ IsInjective(h.endpoints)
  /\ h.sources = UNION {g.sources : g \in of}

(* gr has one group for each chain of G, with all of its groups joined.    *)
Exact(gr, G) ==
  /\ \A i \in DOMAIN gr : \E g \in G : g.chain = gr[i].chain
  /\ \A g \in G : \E i \in DOMAIN gr : gr[i].chain = g.chain
  /\ \A i, j \in DOMAIN gr : gr[i].chain = gr[j].chain => i = j
  /\ \A i \in DOMAIN gr : Joined(gr[i], {g \in G : g.chain = gr[i].chain})

(* The endpoints a group has already are not added again.                  *)
LEMMA Extended ==
  ASSUME NEW old \in Seq(Endpoint), NEW new \in Seq(Endpoint),
         IsInjective(old), IsInjective(new)
  PROVE  /\ old \o NotIn(old, new) \in Seq(Endpoint)
         /\ IsInjective(old \o NotIn(old, new))
         /\ Range(old \o NotIn(old, new)) = Range(old) \cup Range(new)
<1>1. PICK I \in SUBSET DOMAIN new : I = {i \in DOMAIN new : new[i] \notin Range(old)}
  BY Zenon
<1>2. PICK p : p = NotIn(old, new) /\ p = Pick(new, I)
  BY Zenon, <1>1 DEF NotIn
<1>3. p \in Seq(Endpoint) /\ Range(p) = {new[i] : i \in I} /\ IsInjective(p)
  <2>1. \A i, j \in I : new[i] = new[j] => i = j
    BY DEF IsInjective
  <2>2. QED
    BY <1>2, <2>1, PickedElements
<1>4. Range(old \o p) = Range(old) \cup Range(p)
  BY <1>3, RangeConcatenation
<1>5. Range(p) = Range(new) \ Range(old)
  BY Zenon, <1>1, <1>3 DEF Range
<1>6. old \o p \in Seq(Endpoint)
  BY <1>3
<1>7. IsInjective(old \o p)
  <2> SUFFICES ASSUME NEW i \in DOMAIN (old \o p), NEW j \in DOMAIN (old \o p),
                      (old \o p)[i] = (old \o p)[j]
               PROVE  i = j
    BY DEF IsInjective
  <2>1. \A n \in DOMAIN (old \o p) :
          \/ n \in DOMAIN old /\ (old \o p)[n] = old[n]
          \/ n - Len(old) \in DOMAIN p /\ (old \o p)[n] = p[n - Len(old)] /\ n \in Nat
    BY <1>3
  <2>2. \A n \in DOMAIN old : old[n] \in Range(old)
    BY DEF Range
  <2>3. \A n \in DOMAIN p : p[n] \notin Range(old)
    BY Zenon, <1>5 DEF Range
  <2>4. CASE i \in DOMAIN old /\ j \in DOMAIN old /\ old[i] = old[j]
    BY <2>4 DEF IsInjective
  <2>5. CASE i \in Nat /\ j \in Nat /\ i - Len(old) \in DOMAIN p /\ j - Len(old) \in DOMAIN p
             /\ p[i - Len(old)] = p[j - Len(old)]
    <3>1. i - Len(old) = j - Len(old)
      BY <1>3, <2>5 DEF IsInjective
    <3>2. QED
      BY <2>5, <3>1
  <2>6. QED
    BY Zenon, <2>1, <2>2, <2>3, <2>4, <2>5
<1>8. QED
  BY <1>2, <1>4, <1>5, <1>6, <1>7

LEMMA MergedGroup ==
  ASSUME NEW target \in Seq(Group), NEW g \in Group, IsInjective(g.endpoints),
         NEW G, Exact(target, G)
  PROVE  MergeGroup(target, g) \in Seq(Group) /\ Exact(MergeGroup(target, g), G \cup {g})
<1> DEFINE same == {i \in DOMAIN target : target[i].chain = g.chain}
           of(c) == {x \in G : x.chain = c}
           new(c) == {x \in G \cup {g} : x.chain = c}
<1>1. CASE same = {}
  <2>1. PICK r : r = MergeGroup(target, g) /\ r = Append(target, g)
    BY Zenon, <1>1 DEF MergeGroup
  <2>2. /\ r \in Seq(Group) /\ DOMAIN r = DOMAIN target \cup {Len(target) + 1}
        /\ r[Len(target) + 1] = g /\ \A i \in DOMAIN target : r[i] = target[i]
    BY <2>1
  <2>3. \A i \in DOMAIN target : target[i].chain # g.chain
    BY <1>1
  <2>4. \A x \in G : x.chain # g.chain
    BY <2>3 DEF Exact
  <2>5. Joined(g, new(g.chain))
    <3>1. new(g.chain) = {g}
      BY <2>4
    <3>2. QED
      BY <3>1 DEF Joined
  <2>6. ASSUME NEW i \in DOMAIN target PROVE Joined(r[i], new(r[i].chain))
    <3>1. new(target[i].chain) = of(target[i].chain)
      BY <2>3
    <3>2. QED
      BY <2>2, <3>1 DEF Exact
  <2>7. /\ \A i \in DOMAIN r : \E x \in G \cup {g} : x.chain = r[i].chain
        /\ \A x \in G \cup {g} : \E i \in DOMAIN r : r[i].chain = x.chain
    BY <2>2 DEF Exact
  <2>8. \A i, j \in DOMAIN r : r[i].chain = r[j].chain => i = j
    BY <2>2, <2>3 DEF Exact
  <2>9. \A i \in DOMAIN r : Joined(r[i], {x \in G \cup {g} : x.chain = r[i].chain})
    BY Zenon, <2>2, <2>5, <2>6
  <2>10. Exact(r, G \cup {g})
    BY <2>7, <2>8, <2>9 DEF Exact
  <2>11. QED
    BY <2>1, <2>2, <2>10
<1>2. CASE same # {}
  <2>1. PICK k : k = Minimum(same)
    BY Zenon
  <2>2. k \in DOMAIN target /\ target[k].chain = g.chain
    <3>1. same \in SUBSET Nat
      OBVIOUS
    <3>2. Minimum(same) \in same
      BY Zenon, <1>2, <3>1, MinimumIsLeast
    <3>3. QED
      BY <2>1, <3>2
  <2>3. PICK h : h = Join(target[k], g)
    OBVIOUS
  <2>4. target[k] \in Group
    BY <2>2
  <2>5. /\ h.chain = target[k].chain /\ h.sources = target[k].sources \cup g.sources
        /\ h.endpoints = target[k].endpoints \o NotIn(target[k].endpoints, g.endpoints)
        /\ h = [chain |-> h.chain, endpoints |-> h.endpoints, sources |-> h.sources]
    BY Zenon, <2>3 DEF Join
  <2>6. PICK r : r = MergeGroup(target, g) /\ r = [target EXCEPT ![k] = h]
    BY Zenon, <1>2, <2>1, <2>3 DEF MergeGroup
  <2>7. /\ h.endpoints \in Seq(Endpoint) /\ IsInjective(h.endpoints)
        /\ Range(h.endpoints) = Range(target[k].endpoints) \cup Range(g.endpoints)
    <3>1. IsInjective(target[k].endpoints)
      BY <2>2 DEF Exact, Joined
    <3>2. target[k].endpoints \in Seq(Endpoint) /\ g.endpoints \in Seq(Endpoint)
      BY <2>4 DEF Group
    <3>3. QED
      BY Zenon, <2>5, <3>1, <3>2, Extended
  <2>8. h \in Group /\ h.chain = g.chain
    BY Zenon, <2>2, <2>4, <2>5, <2>7 DEF Group
  <2>9. /\ r \in Seq(Group) /\ DOMAIN r = DOMAIN target /\ r[k] = h
        /\ \A i \in DOMAIN target : i # k => r[i] = target[i]
        /\ \A i \in DOMAIN target : r[i].chain = target[i].chain
    BY <2>2, <2>6, <2>8
  <2>10. Joined(h, new(h.chain))
    <3>1. Joined(target[k], of(g.chain))
      BY <2>2 DEF Exact
    <3>2. new(h.chain) = of(g.chain) \cup {g}
      BY <2>8
    <3>3. QED
      BY <2>5, <2>7, <3>1, <3>2 DEF Joined
  <2>11. ASSUME NEW i \in DOMAIN target, i # k PROVE Joined(r[i], new(r[i].chain))
    <3>1. target[i].chain # g.chain
      BY <2>2, <2>11 DEF Exact
    <3>2. new(target[i].chain) = of(target[i].chain)
      BY <3>1
    <3>3. QED
      BY <2>9, <2>11, <3>2 DEF Exact
  <2>12. /\ \A i \in DOMAIN r : \E x \in G \cup {g} : x.chain = r[i].chain
         /\ \A x \in G \cup {g} : \E i \in DOMAIN r : r[i].chain = x.chain
    BY <2>2, <2>9 DEF Exact
  <2>13. \A i, j \in DOMAIN r : r[i].chain = r[j].chain => i = j
    BY <2>9 DEF Exact
  <2>14. \A i \in DOMAIN r : Joined(r[i], {x \in G \cup {g} : x.chain = r[i].chain})
    BY Zenon, <2>9, <2>10, <2>11
  <2>15. Exact(r, G \cup {g})
    BY <2>12, <2>13, <2>14 DEF Exact
  <2>16. QED
    BY <2>6, <2>9, <2>15
<1>3. QED
  BY Zenon, <1>1, <1>2

(* Merging the groups of an answer one by one adds all of them.            *)
LEMMA MergedGroups ==
  ASSUME NEW target \in Seq(Group), NEW G, Exact(target, G),
         NEW gs \in Seq({g \in Group : IsInjective(g.endpoints)})
  PROVE  /\ merge_groups(target, gs) \in Seq(Group)
         /\ Exact(merge_groups(target, gs), G \cup Range(gs))
<1> DEFINE Offered(i) == G \cup {gs[j] : j \in 1..i}
           Q(f) == f = [i \in 0..Len(gs) |->
                          IF i = 0 THEN target ELSE MergeGroup(f[i - 1], gs[i])]
<1>0. PICK m \in Nat : m = Len(gs) /\ DOMAIN gs = 1..m
  OBVIOUS
<1>g. \A i \in 1..m : gs[i] \in Group /\ IsInjective(gs[i].endpoints)
  BY <1>0
<1>1. ASSUME NEW f, f[0] = target,
             \A i \in 1..m : f[i - 1] \in Seq(Group) => f[i] = MergeGroup(f[i - 1], gs[i])
      PROVE  \A i \in 0..m : f[i] \in Seq(Group) /\ Exact(f[i], Offered(i))
  <2> DEFINE S == {i \in 0..m : f[i] \in Seq(Group) /\ Exact(f[i], Offered(i))}
  <2>1. 0 \in S
    <3>1. Offered(0) = G
      OBVIOUS
    <3>2. 0 \in 0..m /\ f[0] \in Seq(Group) /\ Exact(f[0], G)
      BY <1>1
    <3>3. QED
      BY Zenon, <3>1, <3>2
  <2>2. ASSUME NEW n \in 0..(m - 1), n \in S PROVE n + 1 \in S
    <3>1. f[n] \in Seq(Group) /\ Exact(f[n], Offered(n))
      BY <2>2
    <3>2. n + 1 \in 1..m /\ (n + 1) - 1 = n
      BY <1>0
    <3>3. f[n + 1] = MergeGroup(f[n], gs[n + 1])
      BY <1>1, <3>1, <3>2
    <3>4. f[n + 1] \in Seq(Group) /\ Exact(f[n + 1], Offered(n) \cup {gs[n + 1]})
      <4>1. gs[n + 1] \in Group /\ IsInjective(gs[n + 1].endpoints)
        BY <1>g, <3>2
      <4> HIDE DEF Offered
      <4>2. QED
        BY Zenon, <3>1, <3>3, <4>1, MergedGroup
    <3>5. Offered(n + 1) = Offered(n) \cup {gs[n + 1]}
      <4>1. 1..(n + 1) = (1..n) \cup {n + 1}
        BY <3>2
      <4>2. QED
        BY <4>1
    <3> HIDE DEF Offered
    <3>6. n + 1 \in 0..m
      BY <3>2
    <3>7. Exact(f[n + 1], Offered(n + 1))
      BY Zenon, <3>4, <3>5
    <3>8. QED
      BY <3>4, <3>6, <3>7
  <2> HIDE DEF S
  <2>3. \A n \in 0..m : n \in S
    BY Zenon, <2>1, <2>2, Induct
  <2>4. QED
    BY Zenon, <2>3 DEF S
<1>2. \E f : Q(f)
  <2> DEFINE step == [p \in Seq(Group) \X (1..m) |-> MergeGroup(p[1], gs[p[2]])]
  <2>1. PICK f : IsFold(f, target, m, step)
    BY Zenon, FoldExists
  <2>2. /\ f = [i \in 0..m |-> f[i]]
        /\ f[0] = target /\ \A i \in 1..m : f[i] = step[<<f[i - 1], i>>]
    BY Zenon, <2>1 DEF IsFold
  <2>3. \A i \in 1..m : f[i - 1] \in Seq(Group) => f[i] = MergeGroup(f[i - 1], gs[i])
    BY Zenon, <2>2
  <2>4. \A i \in 0..m : f[i] \in Seq(Group)
    BY Zenon, <1>1, <2>2, <2>3
  <2>5. \A i \in 1..m : f[i] = MergeGroup(f[i - 1], gs[i])
    BY <2>3, <2>4
  <2> HIDE DEF step
  <2>6. f = [i \in 0..m |-> IF i = 0 THEN target ELSE MergeGroup(f[i - 1], gs[i])]
    <3>1. \A i \in 0..m : f[i] = IF i = 0 THEN target ELSE MergeGroup(f[i - 1], gs[i])
      <4> SUFFICES ASSUME NEW i \in 0..m
                   PROVE  f[i] = IF i = 0 THEN target ELSE MergeGroup(f[i - 1], gs[i])
        OBVIOUS
      <4>1. i = 0 \/ i \in 1..m
        OBVIOUS
      <4>2. QED
        BY Zenon, <2>2, <2>5, <4>1
    <3>2. QED
      BY Zenon, <2>2, <3>1
  <2>7. QED
    BY Zenon, <1>0, <2>6
<1>3. PICK f : Q(f) /\ merge_groups(target, gs) = f[Len(gs)]
  <2>1. merge_groups(target, gs) = (CHOOSE f : Q(f))[Len(gs)]
    BY DEF merge_groups
  <2> HIDE DEF Q
  <2>2. QED
    BY Zenon, <1>2, <2>1
<1>4. f[0] = target /\ \A i \in 1..m : f[i] = MergeGroup(f[i - 1], gs[i])
  <2> DEFINE at(i) == IF i = 0 THEN target ELSE MergeGroup(f[i - 1], gs[i])
  <2>1. f = [i \in 0..m |-> at(i)]
    BY Zenon, <1>0, <1>3
  <2> HIDE DEF at
  <2>2. \A i \in 0..m : f[i] = at(i)
    BY <2>1
  <2>3. QED
    BY <2>2 DEF at
<1>5. f[m] \in Seq(Group) /\ Exact(f[m], Offered(m))
  <2> HIDE DEF Offered
  <2>1. \A i \in 0..m : f[i] \in Seq(Group) /\ Exact(f[i], Offered(i))
    BY <1>1, <1>4
  <2>2. QED
    BY <2>1
<1>6. Offered(m) = G \cup Range(gs)
  BY <1>0 DEF Range
<1>7. QED
  BY Zenon, <1>0, <1>3, <1>5, <1>6

-----------------------------------------------------------------------------
(* Answers *)

(* Every entry of a call that collects is pending, has succeeded or has    *)
(* failed; a call that is over waits for none, and what it returned is     *)
(* what its answers allow.                                                 *)
AnswerInv ==
  /\ result \in [entries -> Answers(op)]
  /\ good \subseteq Answered /\ bad \subseteq entries \ Answered
  /\ pending \subseteq entries \ Unsupported(op, kind, entries)
  /\ phase \in {"collect", "ok", "failed"} => entries = pending \cup good \cup bad
  /\ phase \in {"ok", "failed"} => pending = {}
  /\ op = "lookup" /\ phase \in {"collect", "ok", "failed"} => good = {}
  /\ phase \in {"ok", "returned", "next", "ended"} => good # {}
  /\ phase \in {"returned", "next", "ended"} => op = "lookup"
  /\ phase = "failed" => good = {} \/ (op = "candidates" /\ kind = "mdns" /\ groups = <<>>)

(* The groups merged so far are those of the entries that have succeeded.  *)
Offered == UNION {Range(result[e]) : e \in good}
MergeInv == op = "candidates" => groups \in Seq(Group) /\ Exact(groups, Offered)

LEMMA NoGroups ==
  ASSUME NEW gr \in Seq(Group), NEW G, Exact(gr, G)
  PROVE  gr = <<>> <=> G = {}
<1>1. gr = <<>> <=> DOMAIN gr = {}
  OBVIOUS
<1>2. QED
  BY Zenon, <1>1 DEF Exact

LEMMA AnswerInit == Init => AnswerInv /\ MergeInv
<1> SUFFICES ASSUME Init PROVE AnswerInv /\ MergeInv
  OBVIOUS
<1>1. AnswerInv
  BY DEF Init, AnswerInv, Answered, Unsupported
<1>2. Exact(groups, Offered) /\ groups \in Seq(Group)
  <2>1. good = {} /\ groups = <<>>
    BY DEF Init
  <2>2. Offered = {} /\ DOMAIN groups = {}
    BY <2>1 DEF Offered
  <2>3. QED
    BY <2>1, <2>2 DEF Exact
<1>3. QED
  BY <1>1, <1>2 DEF MergeInv

LEMMA AnswerStep == AnswerInv /\ MergeInv /\ [Next]_vars => AnswerInv'
<1> SUFFICES ASSUME AnswerInv, MergeInv, [Next]_vars PROVE AnswerInv'
  OBVIOUS
<1>0. /\ UNCHANGED callVars /\ Answered' = Answered
      /\ Unsupported(op, kind, entries)' = Unsupported(op, kind, entries)
      /\ Answers(op)' = Answers(op)
  <2>1. UNCHANGED callVars
    BY Zenon DEF Next, vars, Answer, FirstOk, LaterOk, Push, CandidatesOk, PublishOk, AnswerOk,
           AnswerErr, LaterErr, Yield, YieldAll, YieldUnless, Exhausted, Poll, End, EndWhen,
           Return, ReturnMdns, ReturnPublish, ReturnNotFound, ReturnIf
  <2>2. QED
    BY <2>1 DEF callVars, Answered, Unsupported, Answers
<1>c. op' = op /\ kind' = kind /\ entries' = entries /\ result' = result
  BY <1>0 DEF callVars
<1>1. ASSUME NEW e \in Entry, FirstOk(e) \/ LaterOk(e) PROVE AnswerInv'
  <2>1. /\ e \in pending /\ result[e] # Err /\ pending' = pending \ {e}
        /\ good' = good \cup {e} /\ bad' = bad /\ phase' \in {"returned", "next"}
        /\ op = "lookup"
    BY <1>1 DEF FirstOk, LaterOk, Push, AnswerInv
  <2>2. e \in Answered
    BY <2>1 DEF AnswerInv, Answered
  <2>3. QED
    BY <1>0, <1>c, <2>1, <2>2 DEF AnswerInv
<1>2. ASSUME NEW e \in Entry, AnswerOk(e), op # "lookup" PROVE AnswerInv'
  <2>1. /\ e \in pending /\ result[e] # Err /\ pending' = pending \ {e}
        /\ good' = good \cup {e} /\ bad' = bad /\ phase' = "collect" /\ phase = "collect"
    BY <1>2 DEF AnswerOk
  <2>2. e \in Answered
    BY <2>1 DEF AnswerInv, Answered
  <2>3. QED
    BY <1>0, <1>2, <1>c, <2>1, <2>2 DEF AnswerInv
<1>3. ASSUME NEW e \in Entry, AnswerErr(e) \/ LaterErr(e) PROVE AnswerInv'
  <2>1. /\ e \in pending /\ result[e] = Err /\ pending' = pending \ {e}
        /\ good' = good /\ phase' = phase /\ groups' = groups
        /\ \/ phase = "next" /\ bad' = bad
           \/ phase = "collect" /\ bad' = bad \cup {e}
    BY <1>3 DEF AnswerErr, LaterErr
  <2>2. e \in entries \ Answered
    BY <2>1 DEF AnswerInv, Answered
  <2>3. QED
    BY <1>0, <1>c, <2>1, <2>2 DEF AnswerInv
<1>4. CASE \E e \in Entry : Yield(e) \/ YieldAll(e) \/ Exhausted(e)
  <2>1. /\ UNCHANGED <<pending, good, bad, groups>>
        /\ phase = "next" /\ phase' \in {"next", "returned"}
    BY Zenon, <1>4 DEF Yield, YieldAll, YieldUnless, Exhausted
  <2>2. QED
    BY <1>0, <1>c, <2>1 DEF AnswerInv
<1>5. CASE Poll \/ End
  <2>1. /\ UNCHANGED <<pending, good, bad, groups>>
        /\ phase \in {"next", "returned"} /\ phase' \in {"next", "ended"}
    BY <1>5 DEF Poll, End, EndWhen
  <2>2. QED
    BY <1>0, <1>c, <2>1 DEF AnswerInv
<1>6. CASE Return \/ ReturnMdns \/ ReturnPublish \/ ReturnNotFound
  <2>1. /\ phase = "collect" /\ pending = {}
        /\ phase' \in {"ok", "failed"}
        /\ UNCHANGED <<pending, good, bad, groups>>
    BY <1>6 DEF Return, ReturnMdns, ReturnPublish, ReturnNotFound, ReturnIf
  <2>2. \/ phase' = "ok" /\ good # {}
        \/ phase' = "failed" /\ good = {}
        \/ phase' = "failed" /\ op = "candidates" /\ kind = "mdns" /\ groups = <<>>
    <3>1. CASE Return \/ ReturnPublish
      BY <3>1 DEF Return, ReturnPublish, ReturnIf
    <3>2. CASE ReturnNotFound
      BY <3>2 DEF ReturnNotFound, ReturnIf, AnswerInv
    <3>3. CASE ReturnMdns
      <4>1. groups # <<>> => good # {}
        BY <3>3, NoGroups DEF ReturnMdns, MergeInv, Offered
      <4>2. QED
        BY <3>3, <4>1 DEF ReturnMdns, ReturnIf
    <3>4. QED
      BY <1>6, <3>1, <3>2, <3>3
  <2>3. QED
    BY <1>0, <1>c, <2>1, <2>2 DEF AnswerInv
<1>7. CASE UNCHANGED vars
  BY <1>0, <1>7 DEF vars, callVars, AnswerInv
<1>8. QED
  BY Zenon, <1>1, <1>2, <1>3, <1>4, <1>5, <1>6, <1>7 DEF Next, Answer, CandidatesOk, PublishOk

LEMMA MergeStep == AnswerInv /\ MergeInv /\ [Next]_vars => MergeInv'
<1> SUFFICES ASSUME AnswerInv, MergeInv, [Next]_vars, op' = "candidates"
             PROVE  groups' \in Seq(Group) /\ Exact(groups', Offered')
  BY DEF MergeInv
<1>1. ASSUME NEW e \in Entry, CandidatesOk(e)
      PROVE  groups' \in Seq(Group) /\ Exact(groups', Offered')
  <2>1. /\ op = "candidates" /\ e \in pending /\ result[e] # Err /\ good' = good \cup {e}
        /\ groups' = merge_groups(groups, result[e]) /\ result' = result
    BY <1>1 DEF CandidatesOk, AnswerOk, callVars
  <2>2. result[e] \in Candidates
    BY <2>1 DEF AnswerInv, Answers
  <2>3. result[e] \in Seq({g \in Group : IsInjective(g.endpoints)})
    BY <2>2, AggregateAssumption
  <2>4. Offered' = Offered \cup Range(result[e])
    BY <2>1 DEF Offered
  <2>5. groups \in Seq(Group) /\ Exact(groups, Offered)
    BY <2>1 DEF MergeInv
  <2>6. QED
    BY Zenon, <2>1, <2>3, <2>4, <2>5, MergedGroups
<1>2. CASE ~\E e \in Entry : CandidatesOk(e)
  <2>1. op = op' /\ result' = result /\ good' = good /\ groups' = groups
    BY Zenon, <1>2 DEF Next, vars, callVars, Answer, FirstOk, LaterOk, Push, PublishOk, AnswerOk,
           AnswerErr, LaterErr, Yield, YieldAll, YieldUnless, Exhausted, Poll, End, EndWhen,
           Return, ReturnMdns, ReturnPublish, ReturnNotFound, ReturnIf, AnswerInv
  <2>2. QED
    BY <2>1 DEF MergeInv, Offered
<1>3. QED
  BY Zenon, <1>1, <1>2

LEMMA AnswerInvariance == Spec => [](AnswerInv /\ MergeInv)
<1>1. AnswerInv /\ MergeInv /\ [Next]_vars => (AnswerInv /\ MergeInv)'
  BY AnswerStep, MergeStep
<1>2. QED
  BY AnswerInit, <1>1, PTL DEF Spec

LEMMA AllHeard ==
  ASSUME AnswerInv, phase \in {"ok", "failed"}
  PROVE  good = Answered /\ bad = entries \ Answered
BY Zenon DEF AnswerInv, Answered

(* Resolvers::lookup_endpoint_candidates, the same call of the mDNS set    *)
(* and Publishers::publish_all fail only if no entry succeeded (or, in the *)
(* set, none had a candidate), and record the errors of those that failed, *)
(* for any number of entries (resolvers.rs:258, mdns.rs:476).              *)
THEOREM PartialFailureSucceeds == Spec => []FailsOnlyIfAllFail
<1>1. AnswerInv /\ MergeInv => FailsOnlyIfAllFail
  <2> SUFFICES ASSUME AnswerInv, MergeInv PROVE FailsOnlyIfAllFail
    OBVIOUS
  <2>1. phase = "failed" => Answered = {} \/ (kind = "mdns" /\ \A e \in Answered : result[e] = <<>>)
    <3> SUFFICES ASSUME phase = "failed", Answered # {}
                 PROVE  kind = "mdns" /\ \A e \in Answered : result[e] = <<>>
      OBVIOUS
    <3>1. good = Answered
      BY AllHeard
    <3>2. op = "candidates" /\ kind = "mdns" /\ groups = <<>>
      BY <3>1 DEF AnswerInv
    <3>3. Offered = {}
      BY Zenon, <3>2, NoGroups DEF MergeInv
    <3>4. ASSUME NEW e \in Answered PROVE result[e] = <<>>
      <4>1. Range(result[e]) = {}
        BY <3>1, <3>3 DEF Offered
      <4>2. result[e] \in Candidates
        <5>1. e \in entries /\ result[e] # Err
          BY DEF Answered
        <5>2. result \in [entries -> Candidates \cup {Err}]
          BY <3>2 DEF AnswerInv, Answers
        <5>3. QED
          BY <5>1, <5>2
      <4>3. PICK D : D = {g \in Group : IsInjective(g.endpoints)}
        BY Zenon
      <4>4. result[e] \in Seq(D)
        BY <4>2, <4>3, AggregateAssumption
      <4>5. QED
        BY <4>1, <4>4, EmptyRange
    <3>5. QED
      BY <3>2, <3>4
  <2>2. phase \in {"ok", "returned", "next", "ended"} => Answered # {}
    BY DEF AnswerInv
  <2>3. phase \in {"ok", "failed"} => bad = entries \ Answered
    BY AllHeard
  <2>4. QED
    BY <2>1, <2>2, <2>3 DEF FailsOnlyIfAllFail
<1>2. QED
  BY AnswerInvariance, <1>1, PTL

(* The candidates a call returns are exactly those of the entries that     *)
(* succeeded, one group per chain and each endpoint once, in whatever      *)
(* order the answers arrive (resolvers.rs:239, mdns.rs:593).               *)
THEOREM MergeIsExact == Spec => []MergedExactly
<1>1. AnswerInv /\ MergeInv => MergedExactly
  <2> SUFFICES ASSUME AnswerInv, MergeInv, op = "candidates", phase = "ok" PROVE MergedExactly
    BY Zenon DEF MergedExactly
  <2>1. good = Answered /\ groups \in Seq(Group) /\ Exact(groups, Offered)
    BY AllHeard DEF MergeInv
  <2>g. \A i \in DOMAIN groups : groups[i] \in Group
    BY <2>1
  <2>2. PICK cs : cs = [i \in DOMAIN groups |-> groups[i].chain]
    BY Zenon
  <2>3. Range(cs) = Chains /\ {g.chain : g \in Range(groups)} = Chains
    <3>1. Range(cs) = {g.chain : g \in Range(groups)}
      BY <2>2 DEF Range
    <3>2. Chains = {g.chain : g \in Offered}
      BY DEF Chains, Offered
    <3>3. \A c : c \in Range(cs) <=> c \in {g.chain : g \in Offered}
      BY <2>1, <2>2 DEF Exact, Range
    <3>4. QED
      BY Zenon, <3>1, <3>2, <3>3
  <2>4. Cardinality(Chains) = Len(groups)
    <3>1. cs \in Seq(Chain) /\ Len(cs) = Len(groups)
      <4>1. \A i \in DOMAIN groups : groups[i].chain \in Chain
        BY <2>g DEF Group
      <4>2. QED
        BY <2>1, <2>2, <4>1
    <3>2. IsInjective(cs)
      BY <2>1, <2>2 DEF Exact, IsInjective
    <3>3. QED
      BY <2>3, <3>1, <3>2, InjectiveCounts
  <2>5. ASSUME NEW i \in DOMAIN groups
        PROVE  LET offered == UNION {Offers(e, groups[i].chain) : e \in good}
                   es == UNION {Range(g.endpoints) : g \in offered}
               IN  /\ Range(groups[i].endpoints) = es
                   /\ Len(groups[i].endpoints) = Cardinality(es)
                   /\ groups[i].sources = UNION {g.sources : g \in offered}
    <3>1. PICK of : of = {g \in Offered : g.chain = groups[i].chain}
      BY Zenon
    <3>2. UNION {Offers(e, groups[i].chain) : e \in good} = of
      BY <3>1 DEF Offers, Offered
    <3>3. /\ Range(groups[i].endpoints) = UNION {Range(g.endpoints) : g \in of}
          /\ IsInjective(groups[i].endpoints)
          /\ groups[i].sources = UNION {g.sources : g \in of}
      BY Zenon, <2>1, <3>1 DEF Exact, Joined
    <3>4. groups[i].endpoints \in Seq(Endpoint)
      BY <2>g DEF Group
    <3>5. Cardinality(Range(groups[i].endpoints)) = Len(groups[i].endpoints)
      BY Zenon, <3>3, <3>4, InjectiveCounts
    <3>6. QED
      BY Zenon, <3>2, <3>3, <3>5
  <2>6. QED
    BY Zenon, <2>1, <2>3, <2>4, <2>5 DEF MergedExactly
<1>2. QED
  BY AnswerInvariance, <1>1, PTL

-----------------------------------------------------------------------------
(* Streams *)

(* The elements of a sequence are its head and the elements of its tail. *)
LEMMA HeadAndTail ==
  ASSUME NEW S, NEW s \in Seq(S), s # <<>>
  PROVE  /\ Head(s) \in S /\ Tail(s) \in Seq(S)
         /\ {s[i] : i \in DOMAIN s} = {Head(s)} \cup {Tail(s)[i] : i \in DOMAIN Tail(s)}
<1>0. Head(s) \in S /\ Tail(s) \in Seq(S) /\ <<Head(s)>> \in Seq(S)
  OBVIOUS
<1>1. PICK h \in Seq(S), t \in Seq(S) : h = <<Head(s)>> /\ t = Tail(s)
  BY Zenon, <1>0
<1>2. s = h \o t
  BY <1>1
<1>3. Range(h \o t) = Range(h) \cup Range(t)
  BY RangeConcatenation
<1>4. Range(h) = {Head(s)}
  BY <1>1 DEF Range
<1>5. Range(s) = {Head(s)} \cup Range(Tail(s))
  BY Zenon, <1>1, <1>2, <1>3, <1>4
<1>6. QED
  BY Zenon, <1>0, <1>5 DEF Range

TypeInv ==
  /\ op = "lookup" => result \in [entries -> Streams \cup {Err}]
  /\ pending \subseteq entries /\ good \subseteq entries /\ good \cap pending = {}
  /\ op = "lookup" => \A e \in good : result[e] # Err
  /\ phase \in {"returned", "next", "ended"} => op = "lookup"
  /\ op # "lookup" => Open = {}
  /\ Open \subseteq good
  /\ rest = [e \in Open |-> rest[e]]
  /\ \A e \in Open : rest[e] \in Seq(Record)
  /\ seen \subseteq Record
  /\ yields \in [Record -> Nat]

(* What an entry that answered has not put into seen is still in its       *)
(* stream, and only what it supplied is there.                             *)
Left(e) == IF e \in Open THEN Range(rest[e]) ELSE {}

StreamInv ==
  /\ \A e \in entries : e \in pending \/ e \in good \/ result[e] = Err
  /\ \A e \in good : /\ Range(result[e]) \subseteq seen \cup Left(e)
                      /\ Left(e) \subseteq Range(result[e])
  /\ \A r \in seen : \E e \in good : r \in Range(result[e])
  /\ phase = "ended" => pending = {} /\ Open = {}
  /\ kind = "resolvers" => \A r \in Record : yields[r] = IF r \in seen THEN 1 ELSE 0

IInv == TypeInv /\ (op = "lookup" => StreamInv) /\ (op # "lookup" => seen = {} /\ yields = [r \in Record |-> 0])

LEMMA InitInv == Init => IInv
<1> SUFFICES ASSUME Init PROVE IInv
  OBVIOUS
<1>1. Open = {} /\ rest = <<>> /\ seen = {} /\ good = {} /\ phase = "collect"
  BY DEF Init, Open
<1>2. TypeInv
  BY <1>1 DEF Init, TypeInv, Answers
<1>3. op = "lookup" => StreamInv
  BY <1>1 DEF Init, StreamInv, Unsupported
<1>4. QED
  BY Zenon, <1>1, <1>2, <1>3 DEF IInv, Init

(* Steps that leave the streams and what was yielded alone. *)
LEMMA StillInv ==
  ASSUME IInv, UNCHANGED <<callVars, rest, seen, yields>>,
         pending' \subseteq pending, good \subseteq good', good' \subseteq good \cup pending,
         good' \cap pending' = {},
         op = "lookup" => good' = good /\ \A e \in pending \ pending' : result[e] = Err,
         phase' \in {"returned", "next", "ended"} => op = "lookup",
         phase' = "ended" => pending' = {} /\ Open = {}
  PROVE  IInv'
<1>1. TypeInv'
  BY DEF IInv, TypeInv, callVars, Open
<1>2. op = "lookup" => StreamInv'
  <2> SUFFICES ASSUME op = "lookup" PROVE StreamInv'
    OBVIOUS
  <2>1. StreamInv /\ good' = good /\ UNCHANGED <<callVars, rest, seen, yields>>
    BY DEF IInv
  <2>2. \A e \in good : Left(e)' = Left(e)
    BY <2>1 DEF Left, Open
  <2>3. \A e \in entries' : e \in pending' \/ e \in good' \/ result'[e] = Err
    BY <2>1 DEF StreamInv, callVars
  <2>4. QED
    BY <2>1, <2>2, <2>3 DEF StreamInv, callVars, Open
<1>3. QED
  BY Zenon, <1>1, <1>2 DEF IInv, callVars

(* A stream joins: all it holds is still to come. *)
LEMMA PushInv ==
  ASSUME IInv, NEW e \in pending, op = "lookup", result[e] # Err, Push(e),
         phase' \in {"returned", "next"}
  PROVE  IInv'
<1>1. result[e] \in Seq(Record) /\ e \in entries /\ e \notin Open
  BY AggregateAssumption DEF IInv, TypeInv
<1>2. /\ Open' = Open \cup {e} /\ rest'[e] = result[e]
      /\ \A d \in Open : rest'[d] = rest[d]
      /\ pending' = pending \ {e} /\ good' = good \cup {e}
      /\ UNCHANGED <<callVars, seen, yields>>
  BY <1>1 DEF Push, Open
<1>3. rest' = [d \in Open' |-> rest'[d]]
  BY DEF Push, Open
<1>4. TypeInv'
  BY <1>1, <1>2, <1>3 DEF IInv, TypeInv, callVars
<1>5. Left(e)' = Range(result[e]) /\ \A d \in good : Left(d)' = Left(d)
  BY <1>1, <1>2 DEF Left, IInv, TypeInv
<1>6. StreamInv
  BY DEF IInv
<1>7. \A d \in good' : /\ Range(result'[d]) \subseteq seen' \cup Left(d)'
                       /\ Left(d)' \subseteq Range(result'[d])
  BY <1>2, <1>5, <1>6 DEF StreamInv, callVars
<1>8. StreamInv'
  BY <1>2, <1>6, <1>7 DEF StreamInv, callVars
<1>9. QED
  BY Zenon, <1>2, <1>4, <1>8 DEF IInv, callVars

(* A record leaves its stream; if it is a new one, it is seen and yielded. *)
LEMMA YieldInv ==
  ASSUME IInv, NEW e, NEW duplicates, kind = "resolvers" => duplicates = seen,
         duplicates \subseteq seen, YieldUnless(e, duplicates)
  PROVE  IInv'
<1> DEFINE r == Head(rest[e])
<1>1. /\ phase = "next" /\ op = "lookup" /\ e \in Open /\ e \in good /\ e \in entries
      /\ rest[e] \in Seq(Record) /\ rest[e] # <<>>
      /\ StreamInv
  BY DEF YieldUnless, IInv, TypeInv
<1>2. /\ r \in Record /\ Tail(rest[e]) \in Seq(Record)
      /\ Range(rest[e]) = {r} \cup Range(Tail(rest[e]))
  <2>1. /\ Head(rest[e]) \in Record /\ Tail(rest[e]) \in Seq(Record)
        /\ {rest[e][i] : i \in DOMAIN rest[e]} =
             {Head(rest[e])} \cup {Tail(rest[e])[i] : i \in DOMAIN Tail(rest[e])}
    BY Zenon, <1>1, HeadAndTail
  <2>2. QED
    BY Zenon, <2>1 DEF Range
<1>3. /\ rest' = [rest EXCEPT ![e] = Tail(@)]
      /\ UNCHANGED <<callVars, pending, good>>
      /\ \/ r \in duplicates /\ UNCHANGED <<phase, seen, yields>>
         \/ /\ r \notin duplicates /\ seen' = seen \cup {r} /\ phase' = "returned"
            /\ yields' = [yields EXCEPT ![r] = @ + 1]
  BY Zenon DEF YieldUnless
<1> HIDE DEF r
<1>4. /\ Open' = Open /\ rest'[e] = Tail(rest[e])
      /\ \A d \in Open \ {e} : rest'[d] = rest[d]
      /\ rest' = [d \in Open' |-> rest'[d]]
  BY Zenon, <1>1, <1>3 DEF Open
<1>5. seen' = seen \cup {r} /\ phase' \in {"next", "returned"} /\ yields' \in [Record -> Nat]
  BY <1>1, <1>2, <1>3 DEF IInv, TypeInv
<1>6. TypeInv'
  BY Zenon, <1>1, <1>2, <1>3, <1>4, <1>5 DEF IInv, TypeInv, callVars
<1>7. /\ Left(e) = {r} \cup Left(e)'
      /\ \A d \in good \ {e} : Left(d)' = Left(d)
  BY <1>1, <1>2, <1>4 DEF Left
<1>8. \A d \in good : /\ Range(result[d]) \subseteq seen' \cup Left(d)'
                      /\ Left(d)' \subseteq Range(result[d])
  BY <1>1, <1>5, <1>7 DEF StreamInv
<1>9. \A x \in seen' : \E d \in good : x \in Range(result[d])
  <2>1. r \in Range(result[e])
    BY <1>1, <1>7 DEF StreamInv
  <2>2. QED
    BY <1>1, <1>5, <2>1 DEF StreamInv
<1>10. kind = "resolvers" => \A x \in Record : yields'[x] = IF x \in seen' THEN 1 ELSE 0
  BY <1>1, <1>2, <1>3 DEF StreamInv, IInv, TypeInv
<1>11. StreamInv'
  BY Zenon, <1>1, <1>3, <1>5, <1>8, <1>9, <1>10 DEF StreamInv, callVars
<1>12. QED
  BY Zenon, <1>1, <1>3, <1>6, <1>11 DEF IInv, callVars

LEMMA StepInv == IInv /\ [Next]_vars => IInv'
<1> SUFFICES ASSUME IInv, [Next]_vars PROVE IInv'
  OBVIOUS
<1>t. TypeInv
  BY DEF IInv
<1>1. ASSUME NEW e \in Entry, FirstOk(e) \/ LaterOk(e) PROVE IInv'
  <2>1. op = "lookup"
    BY <1>1, <1>t DEF FirstOk, LaterOk, TypeInv
  <2>2. QED
    BY <1>1, <2>1, PushInv DEF FirstOk, LaterOk
<1>2. ASSUME NEW e \in Entry, AnswerOk(e), op # "lookup" PROVE IInv'
  BY <1>2, <1>t, StillInv DEF AnswerOk, TypeInv
<1>3. ASSUME NEW e \in Entry, AnswerErr(e) \/ LaterErr(e) PROVE IInv'
  <2>1. /\ pending' = pending \ {e} /\ result[e] = Err
        /\ UNCHANGED <<callVars, good, phase, rest, seen, yields>>
        /\ phase' \in {"collect", "next"} /\ phase' = phase
    BY <1>3 DEF AnswerErr, LaterErr
  <2>2. QED
    BY <1>t, <2>1, StillInv DEF TypeInv
<1>4. ASSUME NEW e \in Entry, Yield(e) PROVE IInv'
  BY <1>4, YieldInv DEF Yield
<1>5. ASSUME NEW e \in Entry, YieldAll(e) PROVE IInv'
  BY <1>5, YieldInv DEF YieldAll
<1>6. ASSUME NEW e \in Entry, Exhausted(e) PROVE IInv'
  <2>1. /\ phase = "next" /\ phase' = phase /\ op = "lookup" /\ e \in Open /\ rest[e] = <<>>
        /\ StreamInv
        /\ UNCHANGED <<callVars, pending, good, seen, yields>>
    BY <1>6, <1>t DEF Exhausted, TypeInv, IInv
  <2>2. /\ Open' = Open \ {e} /\ rest' = [d \in Open' |-> rest'[d]]
        /\ \A d \in Open' : rest'[d] = rest[d]
    BY <1>6 DEF Exhausted, Without, Open
  <2>3. TypeInv'
    BY Zenon, <1>t, <2>1, <2>2 DEF TypeInv, callVars
  <2>4. \A d \in good : Left(d)' = Left(d)
    <3>1. Left(e) = {} /\ Left(e)' = {}
      BY <2>1, <2>2 DEF Left, Range
    <3>2. \A d \in good \ {e} : Left(d)' = Left(d)
      BY <2>2 DEF Left
    <3>3. QED
      BY <3>1, <3>2
  <2>5. StreamInv'
    BY <2>1, <2>4 DEF StreamInv, callVars
  <2>6. QED
    BY <2>1, <2>3, <2>5 DEF IInv, callVars
<1>7. CASE Poll \/ End
  BY <1>7, <1>t, StillInv DEF Poll, End, EndWhen, TypeInv
<1>8. CASE Return \/ ReturnMdns \/ ReturnPublish \/ ReturnNotFound
  <2>1. phase' \in {"ok", "failed"} /\ UNCHANGED <<callVars, pending, good, rest, seen, yields>>
    BY <1>8 DEF Return, ReturnMdns, ReturnPublish, ReturnNotFound, ReturnIf
  <2>2. QED
    BY <1>t, <2>1, StillInv DEF TypeInv
<1>9. CASE UNCHANGED vars
  <2>1. UNCHANGED <<callVars, pending, good, phase, rest, seen, yields>>
    BY <1>9 DEF vars
  <2>2. phase = "ended" => pending = {} /\ Open = {}
    BY Zenon, <1>t DEF IInv, StreamInv, TypeInv
  <2>3. QED
    BY <1>t, <2>1, <2>2, StillInv DEF TypeInv
<1>10. QED
  BY Zenon, <1>1, <1>2, <1>3, <1>4, <1>5, <1>6, <1>7, <1>8, <1>9
     DEF Next, Answer, CandidatesOk, PublishOk

(* Resolvers::lookup passes a record on once, whatever number of resolvers *)
(* supply it and in whatever order they answer (resolvers.rs:343).         *)
THEOREM RecordsAreUnique == Spec => []YieldedOnce
<1>1. IInv => YieldedOnce
  BY DEF IInv, StreamInv, YieldedOnce
<1>2. QED
  BY InitInv, StepInv, <1>1, PTL DEF Spec

(* How many records of an entry have left its stream, and where among all  *)
(* that were supplied the ones equal to r were: the set of mDNS resolvers  *)
(* has passed on each of these.                                            *)
Taken(e) == Len(result[e]) - IF e \in Open THEN Len(rest[e]) ELSE 0
Passed(r) == {p \in good \X Nat : p[2] \in 1..Taken(p[1]) /\ result[p[1]][p[2]] = r}

Suffix(e) ==
  /\ Len(rest[e]) <= Len(result[e])
  /\ \A k \in 1..Len(rest[e]) : rest[e][k] = result[e][Taken(e) + k]

CountInv ==
  /\ \A e \in Open : Suffix(e)
  /\ kind # "resolvers" =>
       \A r \in Record : IsFiniteSet(Passed(r)) /\ yields[r] = Cardinality(Passed(r))

LEMMA CountSame ==
  ASSUME CountInv, UNCHANGED callVars, UNCHANGED yields, good \subseteq good',
         \A e \in good : Taken(e)' = Taken(e),
         \A e \in good' \ good : Taken(e)' = 0,
         \A e \in Open' : Suffix(e)'
  PROVE  CountInv'
<1>1. ASSUME NEW r PROVE Passed(r)' = Passed(r)
  <2>1. result' = result /\ 1..0 = {}
    BY DEF callVars
  <2>2. \A p \in good' \X Nat : p[2] \in 1..Taken(p[1])' => p[1] \in good
    BY <2>1
  <2>3. QED
    BY <2>1, <2>2 DEF Passed
<1>2. QED
  BY Zenon, <1>1 DEF CountInv, callVars

LEMMA CountStep == IInv /\ op = "lookup" /\ CountInv /\ [Next]_vars => CountInv'
<1> SUFFICES ASSUME IInv, op = "lookup", CountInv, [Next]_vars PROVE CountInv'
  OBVIOUS
<1>t. /\ \A e \in Open : rest[e] \in Seq(Record) /\ e \in good
      /\ \A e \in good : result[e] \in Seq(Record)
      /\ \A e \in pending : result[e] # Err => result[e] \in Seq(Record)
      /\ good \cap pending = {}
  BY AggregateAssumption DEF IInv, TypeInv
<1>1. ASSUME NEW e \in Entry, FirstOk(e) \/ LaterOk(e) PROVE CountInv'
  <2>1. /\ e \in pending /\ result[e] # Err /\ good' = good \cup {e}
        /\ UNCHANGED callVars /\ UNCHANGED yields /\ result' = result
        /\ rest' = [d \in Open \cup {e} |-> IF d = e THEN result[e] ELSE rest[d]]
    BY <1>1 DEF FirstOk, LaterOk, Push, callVars
  <2>2. e \notin Open /\ Open' = Open \cup {e} /\ rest'[e] = result[e]
        /\ \A d \in Open : rest'[d] = rest[d]
    BY <1>t, <2>1 DEF Open
  <2>3. Taken(e)' = 0 /\ \A d \in good : Taken(d)' = Taken(d)
    <3>1. Len(result[e]) \in Nat
      BY <1>t, <2>1
    <3>2. Taken(e)' = 0
      BY <2>1, <2>2, <3>1 DEF Taken
    <3>3. \A d \in good : d # e
      BY <1>t, <2>1
    <3>4. QED
      BY Zenon, <2>1, <2>2, <3>2, <3>3 DEF Taken
  <2>4. Suffix(e)'
    <3>1. PICK s \in Seq(Record) : s = result[e]
      BY <1>t, <2>1
    <3>2. QED
      BY <2>1, <2>2, <2>3, <3>1 DEF Suffix
  <2>5. \A d \in Open : Suffix(d)'
    BY <1>t, <2>1, <2>2, <2>3 DEF Suffix, CountInv
  <2>6. QED
    BY <2>1, <2>2, <2>3, <2>4, <2>5, CountSame
<1>2. ASSUME NEW e \in Entry, Yield(e) \/ YieldAll(e) PROVE CountInv'
  <2>1. /\ e \in Open /\ rest[e] # <<>> /\ rest' = [rest EXCEPT ![e] = Tail(@)]
        /\ good' = good /\ UNCHANGED callVars /\ result' = result /\ kind' = kind
    BY Zenon, <1>2 DEF Yield, YieldAll, YieldUnless, callVars
  <2>2. Open' = Open /\ rest'[e] = Tail(rest[e]) /\ \A d \in Open \ {e} : rest'[d] = rest[d]
    BY <2>1 DEF Open
  <2>3. PICK s \in Seq(Record), t \in Seq(Record) :
          s = rest[e] /\ t = result[e] /\ s # <<>> /\ e \in good
    BY <1>t, <2>1
  <2>4. /\ Tail(s) \in Seq(Record) /\ Len(Tail(s)) = Len(s) - 1 /\ Head(s) = s[1] /\ Head(s) \in Record
        /\ \A k \in 1..Len(Tail(s)) : Tail(s)[k] = s[k + 1]
    BY <2>3
  <2>5. PICK n \in Nat : n = Taken(e) /\ n = Len(t) - Len(s)
    <3>1. Len(s) \in Nat /\ Len(t) \in Nat
      OBVIOUS
    <3>2. Len(s) <= Len(t)
      BY Zenon, <2>1, <2>3 DEF CountInv, Suffix
    <3>3. Taken(e) = Len(t) - Len(s)
      BY <2>1, <2>3 DEF Taken
    <3>4. QED
      BY <3>1, <3>2, <3>3
  <2>6. Taken(e)' = n + 1 /\ \A d \in good \ {e} : Taken(d)' = Taken(d)
    <3>1. Taken(e)' = Len(t) - Len(Tail(s))
      BY Zenon, <2>1, <2>2, <2>3 DEF Taken
    <3>2. Len(t) - Len(Tail(s)) = n + 1
      <4>1. n = Len(t) - Len(s) /\ Len(Tail(s)) = Len(s) - 1
        BY <2>4, <2>5
      <4>2. Len(t) - (Len(s) - 1) = (Len(t) - Len(s)) + 1
        OBVIOUS
      <4>3. QED
        BY <4>1, <4>2, Zenon
    <3>3. \A d \in good \ {e} : Taken(d)' = Taken(d)
      BY <2>1, <2>2 DEF Taken
    <3>4. QED
      BY Zenon, <3>1, <3>2, <3>3
  <2>7. \A k \in 1..Len(s) : s[k] = t[n + k]
    BY Zenon, <2>1, <2>3, <2>5 DEF CountInv, Suffix
  <2>8. \A d \in Open' : Suffix(d)'
    <3>1. Suffix(e)'
      <4>1. Len(Tail(s)) <= Len(t)
        BY <2>3, <2>4, <2>5
      <4>2. \A k \in 1..Len(Tail(s)) : Tail(s)[k] = t[(n + 1) + k]
        <5> SUFFICES ASSUME NEW k \in 1..Len(Tail(s)) PROVE Tail(s)[k] = t[(n + 1) + k]
          BY Zenon
        <5>1. k + 1 \in 1..Len(s) /\ n + (k + 1) = (n + 1) + k
          BY <2>4
        <5>2. QED
          BY Zenon, <2>4, <2>7, <5>1
      <4>3. QED
        BY Zenon, <2>1, <2>2, <2>3, <2>6, <4>1, <4>2 DEF Suffix
    <3>2. ASSUME NEW d \in Open \ {e} PROVE Suffix(d)'
      <4>1. Suffix(d) /\ rest'[d] = rest[d] /\ Taken(d)' = Taken(d)
        BY Zenon, <1>t, <2>2, <2>6 DEF CountInv
      <4>2. QED
        BY Zenon, <2>1, <4>1 DEF Suffix
    <3>3. QED
      BY <2>2, <3>1, <3>2
  <2>9. ASSUME kind # "resolvers", NEW r \in Record
        PROVE  IsFiniteSet(Passed(r)') /\ yields'[r] = Cardinality(Passed(r)')
    <3>1. /\ IsFiniteSet(Passed(r)) /\ yields[r] = Cardinality(Passed(r))
      BY <2>9 DEF CountInv
    <3>2. yields' = [yields EXCEPT ![Head(s)] = @ + 1] /\ yields \in [Record -> Nat]
      BY Zenon, <1>2, <2>3, <2>9 DEF Yield, YieldAll, YieldUnless, IInv, TypeInv
    <3>3. t[n + 1] = Head(s)
      BY <2>3, <2>4, <2>7
    <3>4. n + 1 \notin 1..n /\ 1..(n + 1) = (1..n) \cup {n + 1}
      OBVIOUS
    <3>5. PICK q : q = <<e, n + 1>> /\ q \in good \X Nat /\ q[1] = e /\ q[2] = n + 1
      <4>1. e \in good /\ n + 1 \in Nat
        BY <2>3
      <4>2. <<e, n + 1>> \in good \X Nat
        BY <4>1
      <4>3. QED
        BY <4>2
    <3>a. q \notin Passed(r)
      BY Zenon, <2>5, <3>4, <3>5 DEF Passed
    <3>b. \A p \in good \X Nat :
            p[2] \in 1..Taken(p[1])' <=> p = q \/ p[2] \in 1..Taken(p[1])
      <4> SUFFICES ASSUME NEW p \in good \X Nat
                   PROVE  p[2] \in 1..Taken(p[1])' <=> p = q \/ p[2] \in 1..Taken(p[1])
        BY Zenon
      <4>1. CASE p[1] = e
        <5>1. p = q <=> p[2] = n + 1
          BY <3>5, <4>1
        <5>2. QED
          BY Zenon, <2>5, <2>6, <3>4, <4>1, <5>1
      <4>2. CASE p[1] # e
        BY <2>6, <3>5, <4>2
      <4>3. QED
        BY <4>1, <4>2
    <3>6. CASE r = Head(s)
      <4>1. Passed(r)' = Passed(r) \cup {q}
        BY Zenon, <2>1, <2>3, <3>3, <3>5, <3>6, <3>b DEF Passed
      <4>2. PICK P : P = Passed(r)
        OBVIOUS
      <4>3. IsFiniteSet(P \cup {q}) /\ Cardinality(P \cup {q}) = Cardinality(P) + 1
        BY Zenon, <3>1, <3>a, <4>2, FS_AddElement
      <4>4. QED
        BY Zenon, <3>1, <3>2, <3>5, <3>6, <4>1, <4>2, <4>3
    <3>7. CASE r # Head(s)
      <4>1. Passed(r)' = Passed(r)
        BY Zenon, <2>1, <2>3, <3>3, <3>5, <3>7, <3>b DEF Passed
      <4>2. QED
        BY Zenon, <2>4, <3>1, <3>2, <3>7, <4>1
    <3>8. QED
      BY <3>6, <3>7
  <2>10. QED
    BY <2>1, <2>8, <2>9 DEF CountInv
<1>3. ASSUME NEW e \in Entry, Exhausted(e) PROVE CountInv'
  <2>1. /\ e \in Open /\ rest[e] = <<>> /\ rest' = [d \in Open \ {e} |-> rest[d]]
        /\ good' = good /\ UNCHANGED callVars /\ UNCHANGED yields /\ result' = result
    BY <1>3 DEF Exhausted, Without, callVars
  <2>2. Open' = Open \ {e} /\ \A d \in Open' : rest'[d] = rest[d]
    BY <2>1 DEF Open
  <2>3. \A d \in good : Taken(d)' = Taken(d)
    <3>1. Len(rest[e]) = 0
      BY <2>1
    <3>2. Taken(e)' = Len(result[e]) - 0 /\ Taken(e) = Len(result[e]) - 0
      BY <2>1, <2>2, <3>1 DEF Taken
    <3>3. \A d \in good \ {e} : Taken(d)' = Taken(d)
      BY <2>1, <2>2 DEF Taken
    <3>4. QED
      BY <3>2, <3>3
  <2>4. \A d \in Open' : Suffix(d)'
    BY <1>t, <2>1, <2>2, <2>3 DEF Suffix, CountInv
  <2>5. QED
    BY Zenon, <2>1, <2>3, <2>4, CountSame
<1>4. CASE UNCHANGED <<callVars, good, rest, yields>>
  <2>1. Open' = Open /\ result' = result /\ rest' = rest /\ good' = good
    BY <1>4 DEF Open, callVars
  <2>2. \A d \in good : Taken(d)' = Taken(d)
    BY <2>1 DEF Taken
  <2>3. \A d \in Open' : Suffix(d)'
    BY Zenon, <1>t, <2>1, <2>2 DEF Suffix, CountInv
  <2>4. QED
    BY <1>4, <2>1, <2>2, <2>3, CountSame
<1>5. QED
  BY Zenon, <1>1, <1>2, <1>3, <1>4 DEF Next, vars, Answer, CandidatesOk, PublishOk, AnswerErr, LaterErr,
     Poll, End, EndWhen, Return, ReturnMdns, ReturnPublish, ReturnNotFound, ReturnIf

(* At the end of the stream of a lookup every entry was heard, and the     *)
(* records of all that answered were passed on: by Resolvers each once, by *)
(* the set of mDNS resolvers each as often as it was supplied.  No slow,   *)
(* failing or duplicating entry costs a record (resolvers.rs:305-347,      *)
(* mdns.rs:522).                                                           *)
THEOREM StreamsAreComplete == Spec => []StreamIsComplete
<1> DEFINE Counted == op = "lookup" => CountInv
<1>1. Init => Counted
  <2> SUFFICES ASSUME Init, op = "lookup" PROVE CountInv
    OBVIOUS
  <2>1. good = {} /\ Open = {} /\ yields = [r \in Record |-> 0]
    BY DEF Init, Open
  <2>2. \A r : Passed(r) = {}
    BY <2>1 DEF Passed
  <2>3. QED
    BY <2>1, <2>2, FS_EmptySet DEF CountInv
<1>2. IInv /\ Counted /\ [Next]_vars => Counted'
  <2>1. [Next]_vars => op' = op
    BY Zenon DEF Next, vars, callVars, Answer, FirstOk, LaterOk, Push, CandidatesOk, PublishOk, AnswerOk,
           AnswerErr, LaterErr, Yield, YieldAll, YieldUnless, Exhausted, Poll, End, EndWhen,
           Return, ReturnMdns, ReturnPublish, ReturnNotFound, ReturnIf
  <2>2. QED
    BY <2>1, CountStep
<1>3. IInv /\ Counted => StreamIsComplete
  <2> SUFFICES ASSUME IInv, CountInv, op = "lookup", phase = "ended" PROVE StreamIsComplete
    BY DEF StreamIsComplete
  <2>1. TypeInv /\ StreamInv /\ pending = {} /\ Open = {}
    BY DEF IInv, StreamInv
  <2>2. good = {e \in entries : result[e] # Err}
    BY <2>1 DEF TypeInv, StreamInv
  <2>t. \A e \in good : result[e] \in Seq(Record)
    BY <2>1, AggregateAssumption DEF TypeInv
  <2>3. ASSUME NEW r \in Record, kind = "resolvers" PROVE yields[r] = 1 <=> Supplied(r) # {}
    <3>1. \A e \in good : Range(result[e]) \subseteq seen
      BY <2>1 DEF StreamInv, Left
    <3>2. yields[r] = 1 <=> r \in seen
      BY <2>1, <2>3 DEF StreamInv
    <3>3. r \in seen <=> \E e \in good : r \in Range(result[e])
      BY <2>1, <3>1 DEF StreamInv
    <3>4. Supplied(r) # {} <=> \E e \in good : r \in Range(result[e])
      <4>1. ASSUME NEW p \in Supplied(r) PROVE \E e \in good : r \in Range(result[e])
        BY <4>1 DEF Supplied, Range
      <4>2. ASSUME NEW e \in good, r \in Range(result[e]) PROVE Supplied(r) # {}
        <5>1. PICK k \in DOMAIN result[e] : result[e][k] = r
          BY <4>2 DEF Range
        <5>2. <<e, k>> \in Supplied(r)
          BY <5>1 DEF Supplied
        <5>3. QED
          BY <5>2
      <4>3. QED
        BY <4>1, <4>2
    <3>5. QED
      BY <3>2, <3>3, <3>4
  <2>4. ASSUME NEW r \in Record, kind # "resolvers" PROVE yields[r] = Cardinality(Supplied(r))
    <3>1. \A e \in good : Taken(e) = Len(result[e]) /\ DOMAIN result[e] = 1..Len(result[e])
      BY <2>1, <2>t DEF Taken
    <3>2. Passed(r) = Supplied(r)
      BY <3>1 DEF Passed, Supplied
    <3>3. QED
      BY <2>4, <3>2 DEF CountInv
  <2>5. QED
    BY <2>2, <2>3, <2>4 DEF StreamIsComplete
<1>4. QED
  BY InitInv, StepInv, <1>1, <1>2, <1>3, PTL DEF Spec

-----------------------------------------------------------------------------
(* Registering the sources (InstallResolvers) *)

(* What a call asks for is among what it registers. *)
LEMMA Expanded ==
  ASSUME NEW s \in Seq(Scheme)
  PROVE  Expand(s) \in Seq(Scheme) /\ Range(s) \subseteq Range(Expand(s))
<1>1. Append(s, "system") \in Seq(Scheme)
  BY DEF Scheme
<1>2. \A i \in DOMAIN s : i \in DOMAIN Append(s, "system") /\ Append(s, "system")[i] = s[i]
  OBVIOUS
<1>3. Range(s) \subseteq Range(Append(s, "system"))
  BY <1>2 DEF Range
<1>4. QED
  BY Zenon, <1>1, <1>3 DEF Expand

(* The holder of the mutex still has to register what is neither installed *)
(* nor behind it in its list, installed is what the resolver has, each     *)
(* once, and the set that is remembered is the one that is registered.     *)
Held(t) ==
  /\ Range(Expand(schemes[t])) \subseteq installed \cup Range(requested[t])
  /\ pc[t] = "construct" => requested[t] # <<>> /\ Head(requested[t]) \notin installed

Done(t) ==
  /\ Range(Expand(schemes[t])) \subseteq installed
  /\ "mdns" \in Range(schemes[t]) => ret[t].set = mdns

InstallInv ==
  /\ InstallTypeOK
  /\ ret \in [Thread -> [status : {"none", "ok", "error"}, set : Nat \cup {Nil}]]
  /\ mdns \in Nat \cup {Nil}
  /\ Registered = installed
  /\ NoDuplicateSource
  /\ "mdns" \in installed => \E i \in DOMAIN registry : registry[i] = <<"mdns", mdns>>
  /\ \A t \in Thread : lock = t => Held(t)
  /\ \A t \in Thread : Ok(t) => pc[t] \in {"idle"} /\ Done(t)

LEMMA InstallInvInit == InstallInit => InstallInv
BY InstallAssumption DEF InstallInit, InstallInv, InstallTypeOK, Registered, NoDuplicateSource, Ok, NoResult

(* A step that registers nothing has the control state to account for.     *)
LEMMA InstallFrame ==
  ASSUME InstallInv, InstallTypeOK', UNCHANGED <<installed, mdns, registry>>,
         ret' \in [Thread -> [status : {"none", "ok", "error"}, set : Nat \cup {Nil}]],
         \A u \in Thread : lock' = u => Held(u)',
         \A u \in Thread : Ok(u)' => pc'[u] \in {"idle"} /\ Done(u)'
  PROVE  InstallInv'
<1>1. Registered' = Registered /\ (NoDuplicateSource <=> NoDuplicateSource')
  BY DEF Registered, NoDuplicateSource
<1>2. /\ mdns' \in Nat \cup {Nil} /\ Registered' = installed' /\ NoDuplicateSource'
      /\ "mdns" \in installed' => \E i \in DOMAIN registry' : registry'[i] = <<"mdns", mdns'>>
  BY <1>1 DEF InstallInv
<1>3. QED
  BY Zenon, <1>2 DEF InstallInv

LEMMA InstallInvStep == InstallInv /\ [InstallNext]_installVars => InstallInv'
<1> SUFFICES ASSUME InstallInv, [InstallNext]_installVars PROVE InstallInv'
  OBVIOUS
<1>h. ASSUME NEW t \in Thread, requested[t] # <<>>
      PROVE  /\ Head(requested[t]) \in Scheme /\ Tail(requested[t]) \in Seq(Scheme)
             /\ Range(requested[t]) = {Head(requested[t])} \cup Range(Tail(requested[t]))
  <2>1. requested[t] \in Seq(Scheme)
    BY DEF InstallInv, InstallTypeOK
  <2>2. QED
    BY Zenon, <1>h, <2>1, HeadAndTail DEF Range
<1> USE InstallAssumption
<1>t. /\ InstallTypeOK
      /\ ret \in [Thread -> [status : {"none", "ok", "error"}, set : Nat \cup {Nil}]]
      /\ mdns \in Nat \cup {Nil}
  BY DEF InstallInv
<1>1. ASSUME NEW t \in Thread, Call(t) PROVE InstallInv'
  <2>1. /\ pc[t] = "idle" /\ lock # t
        /\ pc' = [pc EXCEPT ![t] = "lock"]
        /\ ret' = [ret EXCEPT ![t] = NoResult]
        /\ UNCHANGED <<lock, installed, mdns, registry, made, requested>>
        /\ schemes' \in [Thread -> Seq(Scheme)]
        /\ \A u \in Thread \ {t} : schemes'[u] = schemes[u]
    BY Zenon, <1>1, <1>t DEF Call, Goto, InstallTypeOK
  <2>2. InstallTypeOK'
    BY <1>t, <2>1 DEF InstallTypeOK
  <2>3. ret' \in [Thread -> [status : {"none", "ok", "error"}, set : Nat \cup {Nil}]]
    BY <1>t, <2>1 DEF NoResult
  <2>4. \A u \in Thread : lock' = u => Held(u)'
    BY Zenon, <1>t, <2>1 DEF InstallInv, Held, InstallTypeOK
  <2>5. \A u \in Thread : Ok(u)' => pc'[u] \in {"idle"} /\ Done(u)'
    BY Zenon, <1>t, <2>1 DEF InstallInv, Ok, Done, NoResult, InstallTypeOK
  <2>6. QED
    BY <2>1, <2>2, <2>3, <2>4, <2>5, InstallFrame
<1>2. ASSUME NEW t \in Thread, Lock(t) PROVE InstallInv'
  <2>1. /\ pc[t] = "lock" /\ lock = Nil /\ lock' = t
        /\ requested' = [requested EXCEPT ![t] = Expand(schemes[t])]
        /\ pc' = [pc EXCEPT ![t] = "install"]
        /\ UNCHANGED <<installed, mdns, registry, made, schemes, ret>>
    BY <1>2 DEF Lock, LockIf, Goto
  <2>2. schemes[t] \in Seq(Scheme) /\ Expand(schemes[t]) \in Seq(Scheme)
    BY <1>t, Expanded DEF InstallTypeOK
  <2>3. InstallTypeOK'
    BY <1>t, <2>1, <2>2 DEF InstallTypeOK
  <2>4. requested'[t] = Expand(schemes[t]) /\ pc'[t] = "install"
    BY <1>t, <2>1 DEF InstallTypeOK
  <2>5. \A u \in Thread : lock' = u => Held(u)'
    BY <2>1, <2>4 DEF Held
  <2>6. \A u \in Thread : Ok(u)' => pc'[u] \in {"idle"} /\ Done(u)'
    BY Zenon, <1>t, <2>1 DEF InstallInv, Ok, Done, InstallTypeOK
  <2>7. ret' \in [Thread -> [status : {"none", "ok", "error"}, set : Nat \cup {Nil}]]
    BY <1>t, <2>1
  <2>8. QED
    BY <2>1, <2>3, <2>5, <2>6, <2>7, InstallFrame
<1>3. ASSUME NEW t \in Thread, Check(t) PROVE InstallInv'
  <2>1. /\ pc[t] = "install" /\ requested[t] # <<>> /\ lock = t
        /\ UNCHANGED <<lock, installed, mdns, registry, made, schemes, ret>>
    BY <1>3, <1>t DEF Check, InstallTypeOK
  <2>2. ret' \in [Thread -> [status : {"none", "ok", "error"}, set : Nat \cup {Nil}]]
    BY <1>t, <2>1
  <2>3. /\ Tail(requested[t]) \in Seq(Scheme)
        /\ Range(requested[t]) = {Head(requested[t])} \cup Range(Tail(requested[t]))
    BY <1>h, <2>1
  <2>4. InstallTypeOK'
    <3>1. requested' \in [Thread -> Seq(Scheme)]
      BY Zenon, <1>3, <1>t, <2>3 DEF Check, Advance, InstallTypeOK
    <3>2. \E x \in {"install", "construct"} : pc' = [pc EXCEPT ![t] = x]
      BY Zenon, <1>3, <1>t, <2>1 DEF Check, Goto, InstallTypeOK
    <3>3. QED
      BY Zenon, <1>t, <2>1, <3>1, <3>2 DEF InstallTypeOK
  <2>5. Held(t)
    BY <2>1 DEF InstallInv
  <2>6. CASE Head(requested[t]) \in installed
    <3>1. requested'[t] = Tail(requested[t]) /\ pc' = pc
      BY Zenon, <1>3, <1>t, <2>6 DEF Check, Advance, InstallTypeOK
    <3>2. Held(t)'
      BY Zenon, <2>1, <2>3, <2>5, <2>6, <3>1 DEF Held
    <3>3. \A u \in Thread : Ok(u)' => pc'[u] \in {"idle"} /\ Done(u)'
      BY Zenon, <2>1, <3>1 DEF InstallInv, Ok, Done
    <3>4. \A u \in Thread : lock' = u => Held(u)'
      BY <2>1, <3>2
    <3>5. QED
      BY Zenon, <2>1, <2>2, <2>4, <3>3, <3>4, InstallFrame
  <2>7. CASE Head(requested[t]) \notin installed
    <3>1. requested' = requested /\ pc' = [pc EXCEPT ![t] = "construct"]
      BY <1>3, <2>7 DEF Check, Goto
    <3>2. Held(t)'
      BY Zenon, <2>1, <2>5, <2>7, <3>1 DEF Held
    <3>3. \A u \in Thread : Ok(u)' => pc'[u] \in {"idle"} /\ Done(u)'
      BY Zenon, <1>t, <2>1, <3>1 DEF InstallInv, Ok, Done, InstallTypeOK
    <3>4. \A u \in Thread : lock' = u => Held(u)'
      BY <2>1, <3>2
    <3>5. QED
      BY <2>1, <2>2, <2>4, <3>3, <3>4, InstallFrame
  <2>8. QED
    BY <2>6, <2>7
<1>4. ASSUME NEW t \in Thread, Add(t) PROVE InstallInv'
  <2> DEFINE added == Head(requested[t])
  <2> DEFINE set == IF added = "mdns" THEN made + 1 ELSE Nil
  <2>1. /\ pc[t] = "construct" /\ lock = t
        /\ registry' = Append(registry, <<added, set>>)
        /\ installed' = installed \cup {added}
        /\ (added = "mdns" => mdns' = set /\ made' = set) /\ (added # "mdns" => UNCHANGED <<mdns, made>>)
        /\ requested' = [requested EXCEPT ![t] = Tail(@)]
        /\ pc' = [pc EXCEPT ![t] = "install"]
        /\ UNCHANGED <<lock, schemes, ret>>
    BY Zenon, <1>4, <1>t DEF Add, Advance, Goto, InstallTypeOK
  <2>2. Held(t) /\ requested[t] # <<>> /\ added \notin installed
    <3>1. Held(t)
      BY Zenon, <2>1 DEF InstallInv
    <3>2. QED
      BY Zenon, <2>1, <3>1 DEF Held
  <2>3. /\ added \in Scheme /\ Tail(requested[t]) \in Seq(Scheme)
        /\ Range(requested[t]) = {added} \cup Range(Tail(requested[t]))
    BY Zenon, <1>h, <2>2
  <2>4. set \in Nat \cup {Nil}
    BY <1>t DEF InstallTypeOK
  <2>5. made' \in Nat /\ mdns' \in Nat \cup {Nil}
    <3>1. made \in Nat /\ mdns \in Nat \cup {Nil}
      BY Zenon, <1>t DEF InstallTypeOK
    <3>2. QED
      BY <2>1, <3>1
  <2>6. registry \in Seq(Scheme \X (Nat \cup {Nil}))
    BY <1>t DEF InstallTypeOK
  <2> HIDE DEF added, set
  <2>7. /\ registry' \in Seq(Scheme \X (Nat \cup {Nil}))
        /\ Len(registry') = Len(registry) + 1
        /\ registry'[Len(registry) + 1] = <<added, set>>
        /\ \A i \in 1 .. Len(registry) : registry'[i] = registry[i]
    <3>1. PICK x \in Scheme \X (Nat \cup {Nil}) : x = <<added, set>>
      BY <2>3, <2>4
    <3>2. registry' = Append(registry, x)
      BY Zenon, <2>1, <3>1
    <3>3. QED
      BY <2>6, <3>1, <3>2
  <2>8. InstallTypeOK'
    <3>1. requested' \in [Thread -> Seq(Scheme)]
      BY Zenon, <1>t, <2>1, <2>3 DEF InstallTypeOK
    <3>2. pc' \in [Thread -> {"idle", "lock", "install", "construct"}]
      BY Zenon, <1>t, <2>1 DEF InstallTypeOK
    <3>3. \A u \in Thread : pc'[u] \in {"install", "construct"} <=> lock' = u
      BY Zenon, <1>t, <2>1 DEF InstallTypeOK
    <3>4. QED
      BY Zenon, <1>t, <2>1, <2>3, <2>5, <2>7, <3>1, <3>2, <3>3 DEF InstallTypeOK
  <2>9. DOMAIN registry = 1 .. Len(registry) /\ Len(registry) \in Nat
        /\ DOMAIN registry' = 1 .. Len(registry) + 1
    BY <2>6, <2>7
  <2>10. Registered' = Registered \cup {added}
    <3>1. ASSUME NEW x \in Registered' PROVE x \in Registered \cup {added}
      <4>1. PICK i \in 1 .. Len(registry) + 1 : x = registry'[i][1]
        BY <2>9, <3>1 DEF Registered
      <4>2. CASE i \in 1 .. Len(registry)
        BY Zenon, <2>7, <2>9, <4>1, <4>2 DEF Registered
      <4>3. CASE i = Len(registry) + 1
        BY <2>7, <4>1, <4>3
      <4>4. QED
        BY <2>9, <4>2, <4>3
    <3>2. ASSUME NEW x \in Registered PROVE x \in Registered'
      BY <2>7, <2>9, <3>2 DEF Registered
    <3>3. added \in Registered'
      BY <2>7, <2>9 DEF Registered
    <3>4. QED
      BY Zenon, <3>1, <3>2, <3>3
  <2>11. NoDuplicateSource'
    <3>0. registry'[Len(registry) + 1][1] = added
      BY <2>7
    <3>1. \A i \in 1 .. Len(registry) : registry[i][1] # added
      BY Zenon, <2>2, <2>9 DEF InstallInv, Registered
    <3>2. ASSUME NEW i \in 1 .. Len(registry) + 1, NEW j \in 1 .. Len(registry) + 1,
                 registry'[i][1] = registry'[j][1]
          PROVE  i = j
      <4>1. CASE i \in 1 .. Len(registry) /\ j \in 1 .. Len(registry)
        BY Zenon, <2>7, <2>9, <3>2, <4>1 DEF InstallInv, NoDuplicateSource
      <4>2. CASE i \in 1 .. Len(registry) /\ j = Len(registry) + 1
        BY Zenon, <2>7, <3>0, <3>1, <3>2, <4>2
      <4>3. CASE i = Len(registry) + 1 /\ j \in 1 .. Len(registry)
        BY Zenon, <2>7, <3>0, <3>1, <3>2, <4>3
      <4>4. QED
        BY <2>9, <4>1, <4>2, <4>3
    <3>3. QED
      BY Zenon, <2>9, <3>2 DEF NoDuplicateSource
  <2>12. "mdns" \in installed' => \E i \in DOMAIN registry' : registry'[i] = <<"mdns", mdns'>>
    <3>1. CASE added = "mdns"
      BY <2>1, <2>7, <2>9, <3>1
    <3>2. CASE added # "mdns"
      <4>1. "mdns" \in installed' => "mdns" \in installed
        BY <2>1, <3>2
      <4>2. "mdns" \in installed => \E i \in 1 .. Len(registry) : registry[i] = <<"mdns", mdns>>
        BY Zenon, <2>9 DEF InstallInv
      <4>3. mdns' = mdns /\ 1 .. Len(registry) \subseteq DOMAIN registry'
        BY <2>1, <2>9, <3>2
      <4>4. QED
        BY Zenon, <2>7, <4>1, <4>2, <4>3
    <3>3. QED
      BY <3>1, <3>2
  <2>13. Held(t)'
    BY Zenon, <1>t, <2>1, <2>2, <2>3 DEF Held, InstallTypeOK
  <2>14. ASSUME NEW u \in Thread, Ok(u)' PROVE pc'[u] \in {"idle"} /\ Done(u)'
    <3>1. Ok(u) /\ u # t
      BY Zenon, <1>t, <2>1, <2>14 DEF Ok, InstallInv, InstallTypeOK
    <3>2. pc[u] = "idle" /\ Done(u)
      BY Zenon, <3>1 DEF InstallInv
    <3>3. schemes[u] \in Seq(Scheme)
      BY Zenon, <1>t DEF InstallTypeOK
    <3>4. "mdns" \in Range(schemes[u]) => added # "mdns"
      BY Zenon, <2>2, <3>2, <3>3, Expanded DEF Done
    <3>5. QED
      BY Zenon, <1>t, <2>1, <3>1, <3>2, <3>4 DEF Done, InstallTypeOK
  <2>15. QED
    BY Zenon, <1>t, <2>1, <2>5, <2>8, <2>10, <2>11, <2>12, <2>13, <2>14 DEF InstallInv
<1>5. ASSUME NEW t \in Thread, Fail(t) \/ ReturnOk(t) PROVE InstallInv'
  <2>1. /\ pc[t] \in {"install", "construct"} /\ lock = t /\ lock' = Nil
        /\ requested' = [requested EXCEPT ![t] = <<>>]
        /\ pc' = [pc EXCEPT ![t] = "idle"]
        /\ UNCHANGED <<installed, mdns, registry, made, schemes>>
    BY <1>5, <1>t DEF Fail, ReturnOk, ReturnWhen, Goto, InstallTypeOK
  <2>2. InstallTypeOK'
    BY <1>t, <2>1 DEF InstallTypeOK
  <2>3. \A u \in Thread \ {t} : ret'[u] = ret[u]
    BY <1>5, <1>t DEF Fail, ReturnOk, ReturnWhen
  <2>4. ret' \in [Thread -> [status : {"none", "ok", "error"}, set : Nat \cup {Nil}]]
    BY <1>5, <1>t DEF Fail, ReturnOk, ReturnWhen, NoResult
  <2>5. Ok(t)' => Done(t)'
    <3>1. CASE Fail(t)
      BY <1>t, <3>1 DEF Fail, Ok, NoResult
    <3>2. CASE ReturnOk(t)
      <4>1. requested[t] = <<>> /\ Range(<<>>) = {}
        BY <3>2 DEF ReturnOk, ReturnWhen, Range
      <4>2. Range(Expand(schemes[t])) \subseteq installed
        <5>1. Held(t)
          BY Zenon, <2>1 DEF InstallInv
        <5>2. QED
          BY <4>1, <5>1 DEF Held
      <4>3. "mdns" \in Range(schemes[t]) => ret'[t].set = mdns
        BY Zenon, <1>t, <3>2 DEF ReturnOk, ReturnWhen
      <4>4. QED
        BY Zenon, <2>1, <4>2, <4>3 DEF Done
    <3>3. QED
      BY Zenon, <1>5, <3>1, <3>2
  <2>6. \A u \in Thread : Ok(u)' => pc'[u] \in {"idle"} /\ Done(u)'
    BY Zenon, <1>t, <2>1, <2>3, <2>5 DEF InstallInv, Ok, Done, InstallTypeOK
  <2>7. \A u \in Thread : lock' = u => Held(u)'
    BY Zenon, <2>1
  <2>8. QED
    BY Zenon, <2>1, <2>2, <2>4, <2>6, <2>7, InstallFrame
<1>6. CASE UNCHANGED installVars
  BY <1>6 DEF installVars, InstallInv, InstallTypeOK, Registered, NoDuplicateSource, Held, Done, Ok
<1>7. QED
  BY Zenon, <1>1, <1>2, <1>3, <1>4, <1>5, <1>6 DEF InstallNext, Step

(* A scheme is registered once in the process-wide resolver, however many  *)
(* threads install it, however often, and whichever constructors failed    *)
(* before (resolver_config.rs:53-56).                                      *)
THEOREM SourcesAreUnique == InstallSpec => []NoDuplicateSource
<1>1. InstallInv => NoDuplicateSource
  BY DEF InstallInv
<1>2. QED
  BY InstallInvInit, InstallInvStep, <1>1, PTL DEF InstallSpec

(* An Ok of install_resolvers means that every requested scheme, and       *)
(* System for H3 and HTTP, is registered, and that the mDNS set it returns *)
(* is the registered one (resolver_config.rs:41-87).                       *)
THEOREM OkMeansComplete == InstallSpec => []OkIsComplete
<1>1. InstallInv => OkIsComplete
  <2> SUFFICES ASSUME InstallInv, NEW t \in Thread, Ok(t)
               PROVE  /\ Range(Expand(schemes[t])) \subseteq Registered
                      /\ "mdns" \in Range(schemes[t]) =>
                           \E i \in DOMAIN registry : registry[i] = <<"mdns", ret[t].set>>
    BY DEF OkIsComplete
  <2>1. schemes[t] \in Seq(Scheme) /\ Done(t)
    BY DEF InstallInv, InstallTypeOK
  <2>2. QED
    BY <2>1, Expanded DEF InstallInv, Done
<1>2. QED
  BY InstallInvInit, InstallInvStep, <1>1, PTL DEF InstallSpec
=============================================================================
