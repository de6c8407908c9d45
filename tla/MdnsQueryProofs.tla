-------------------------- MODULE MdnsQueryProofs --------------------------
(***************************************************************************)
(* Proofs about MdnsQuery, for any number of nodes, names, queries,        *)
(* attempts and queue lengths.                                             *)
(***************************************************************************)
EXTENDS MdnsQuery, SequenceTheorems, TLAPS

ElementsOf(s) == {s[i] : i \in DOMAIN s}

(* The elements of a sequence are its head and the elements of its tail. *)
LEMMA HeadAndTail ==
  ASSUME NEW S, NEW s \in Seq(S), s # <<>>
  PROVE  /\ Head(s) \in S /\ Tail(s) \in Seq(S)
         /\ {s[i] : i \in DOMAIN s} = {Head(s)} \cup {Tail(s)[i] : i \in DOMAIN Tail(s)}
<1>0. Head(s) \in S /\ Tail(s) \in Seq(S) /\ <<Head(s)>> \in Seq(S)
  OBVIOUS
<1>1. PICK h \in Seq(S), t \in Seq(S) : h = <<Head(s)>> /\ t = Tail(s)
  BY Zenon, <1>0
<1>2. s = h \o t
  BY <1>1
<1>3. Range(h \o t) = Range(h) \cup Range(t)
  BY RangeConcatenation
<1>4. Range(h) = {Head(s)}
  BY <1>1 DEF Range
<1>5. QED
  BY <1>0, <1>1, <1>2, <1>3, <1>4 DEF Range

LEMMA NoneIsNothing == None \notin Query \cup Response \cup Node \cup Name \cup Id
BY QueryAssumption

(* What a query has when it runs. *)
Running ==
  /\ \A q \in Query : pc[q] = "idle" => qid[q] = None
  /\ \A q \in Query : pc[q] # "idle" => qname[q] \in Name /\ qid[q] \in Id
  /\ \A q \in Query : pc[q] = "await" => at[q] \in Node /\ qid[q] \in Id \ {0}

TypeInv == TypeOK /\ Running

-----------------------------------------------------------------------------
(* Types *)

(* Unregister, and the end of a query, keep the types. *)
LEMMA EndTypes ==
  ASSUME TypeInv, NEW q \in Query, pc[q] = "await", NEW s \in {"ok", "failed"}, End(q, s)
  PROVE  /\ pc' \in [Query -> {"idle", "await", "ok", "failed"}]
         /\ queries' \in [Node -> [Id \ {0} -> Query \cup {None}]]
         /\ \A p \in Query : pc'[p] = IF p = q THEN s ELSE pc[p]
<1>1. /\ pc \in [Query -> {"idle", "await", "ok", "failed"}]
      /\ queries \in [Node -> [Id \ {0} -> Query \cup {None}]]
      /\ at[q] \in Node /\ qid[q] \in Id \ {0}
  BY Zenon DEF TypeInv, TypeOK, Running
<1>2. QED
  BY Zenon, <1>1 DEF End, Unregister

LEMMA AgainTypes ==
  ASSUME TypeInv, NEW q \in Query, pc[q] = "await", Again(q)
  PROVE  /\ pc' \in [Query -> {"idle", "await", "ok", "failed"}]
         /\ queries' \in [Node -> [Id \ {0} -> Query \cup {None}]]
         /\ attempt' \in [Query -> 0 .. Attempts]
         /\ \A p \in Query : pc'[p] = pc[p] \/ (p = q /\ pc'[p] = "failed")
<1>1. /\ pc \in [Query -> {"idle", "await", "ok", "failed"}]
      /\ queries \in [Node -> [Id \ {0} -> Query \cup {None}]]
      /\ attempt \in [Query -> 0 .. Attempts]
  BY Zenon DEF TypeInv, TypeOK
<1>2. Attempts \in Nat
  BY QueryAssumption
<1>3. CASE attempt[q] < Attempts /\ attempt' = [attempt EXCEPT ![q] = @ + 1] /\ UNCHANGED <<pc, queries>>
  <2>1. attempt[q] + 1 \in 0 .. Attempts
    BY <1>1, <1>2, <1>3
  <2>2. attempt' \in [Query -> 0 .. Attempts]
    BY <1>1, <1>3, <2>1
  <2>3. QED
    BY Zenon, <1>1, <1>3, <2>2
<1>4. CASE End(q, "failed") /\ UNCHANGED attempt
  BY Zenon, <1>1, <1>4, EndTypes
<1>5. QED
  BY Zenon, <1>3, <1>4 DEF Again, AgainIf

LEMMA TypeStep == TypeInv /\ [Next]_vars => TypeInv'
<1> SUFFICES ASSUME TypeInv, [Next]_vars PROVE TypeInv'
  OBVIOUS
<1> USE DEF TypeInv
<1>1. ASSUME NEW n \in Node, NEW x \in Name, NEW eps \in SUBSET Endpoint, Publish(n, x, eps)
      PROVE  TypeInv'
  BY Zenon, <1>1 DEF Publish, TypeOK, Running, queryVars, Records
<1>2. ASSUME NEW q \in Query, NEW n \in Node, NEW x \in Name, NEW i \in Id, Ask(q, n, x, i)
      PROVE  TypeInv'
  <2>1. pc' \in [Query -> {"idle", "await", "ok", "failed"}]
    <3>1. pc' = [pc EXCEPT ![q] = "await"] \/ pc' = [pc EXCEPT ![q] = "failed"]
      BY <1>2 DEF Ask
    <3>2. pc \in [Query -> {"idle", "await", "ok", "failed"}]
      BY DEF TypeOK
    <3>3. QED
      BY <3>1, <3>2
  <2>2. queries' \in [Node -> [Id \ {0} -> Query \cup {None}]]
    <3>1. queries' = queries \/ (i # 0 /\ queries' = [queries EXCEPT ![n][i] = q])
      BY <1>2 DEF Ask
    <3>2. queries \in [Node -> [Id \ {0} -> Query \cup {None}]]
      BY Zenon DEF TypeOK
    <3>3. QED
      BY <3>1, <3>2
  <2>3. attempt' \in [Query -> 0 .. Attempts] /\ stale' \in [Query -> SUBSET Endpoint]
    BY <1>2, QueryAssumption DEF Ask, TypeOK
  <2>4. /\ at' \in [Query -> Node \cup {None}] /\ qid' \in [Query -> Id \cup {None}]
        /\ qname' \in [Query -> Name \cup {None}]
    BY <1>2 DEF Ask, TypeOK
  <2>5. TypeOK'
    BY Zenon, <1>2, <2>1, <2>2, <2>3, <2>4 DEF Ask, TypeOK, nodeVars
  <2>6. Running'
    BY <1>2 DEF Ask, TypeOK, Running
  <2>7. QED
    BY <2>5, <2>6
<1>3. ASSUME NEW q \in Query, Broadcast(q) PROVE TypeInv'
  <2>1. [kind |-> "request", id |-> qid[q], name |-> qname[q]] \in Request
    BY <1>3 DEF Broadcast, TypeOK, Running, Request
  <2>2. QED
    BY Zenon, <1>3, <2>1 DEF Broadcast, TypeOK, Running, nodeVars, queryVars
<1>4. ASSUME NEW q \in Query, NextPacket(q) PROVE TypeInv'
  <2> DEFINE m == Head(packets[q])
  <2>1. m \in Response /\ Tail(packets[q]) \in Seq(Response) /\ qname[q] \in Name
    BY <1>4, HeadAndTail DEF NextPacket, NextPacketOr, TypeOK, Running
  <2>2. m.records[qname[q]] \in SUBSET Endpoint
    BY <2>1 DEF Response, Records
  <2> HIDE DEF m
  <2>3. packets' \in [Query -> Seq(Response)]
    BY <1>4, <2>1 DEF NextPacket, NextPacketOr, TypeOK
  <2>4. /\ pc' \in [Query -> {"idle", "await", "ok", "failed"}]
        /\ queries' \in [Node -> [Id \ {0} -> Query \cup {None}]]
        /\ attempt' \in [Query -> 0 .. Attempts]
        /\ found' \in [Query -> SUBSET Endpoint]
        /\ \A p \in Query : pc'[p] = pc[p] \/ (p = q /\ pc'[p] \in {"ok", "failed"})
    <3>1. CASE Answers(q, m) # {} /\ found' = [found EXCEPT ![q] = Answers(q, m)]
               /\ End(q, "ok") /\ UNCHANGED attempt
      BY Zenon, <1>4, <3>1, <2>2, EndTypes DEF NextPacket, NextPacketOr, Answers, TypeOK
    <3>2. CASE Again(q) /\ UNCHANGED found
      BY Zenon, <1>4, <3>2, AgainTypes DEF NextPacket, NextPacketOr, TypeOK
    <3>3. QED
      BY Zenon, <1>4, <3>1, <3>2 DEF NextPacket, NextPacketOr, m
  <2>5. TypeOK'
    BY Zenon, <1>4, <2>3, <2>4 DEF NextPacket, NextPacketOr, TypeOK, nodeVars
  <2>6. Running'
    BY Zenon, <1>4, <2>4 DEF NextPacket, NextPacketOr, Running, TypeOK
  <2>7. QED
    BY <2>5, <2>6
<1>5. ASSUME NEW q \in Query, NoPacket(q) PROVE TypeInv'
  <2>1. /\ pc' \in [Query -> {"idle", "await", "ok", "failed"}]
        /\ queries' \in [Node -> [Id \ {0} -> Query \cup {None}]]
        /\ attempt' \in [Query -> 0 .. Attempts]
        /\ \A p \in Query : pc'[p] = pc[p] \/ (p = q /\ pc'[p] = "failed")
    BY Zenon, <1>5, AgainTypes DEF NoPacket
  <2>2. TypeOK'
    BY Zenon, <1>5, <2>1 DEF NoPacket, TypeOK, nodeVars
  <2>3. Running'
    BY <1>5, <2>1 DEF NoPacket, Running, TypeOK
  <2>4. QED
    BY <2>2, <2>3
<1>6. ASSUME NEW q \in Query, CancelQuery(q) PROVE TypeInv'
  <2>1. /\ pc' \in [Query -> {"idle", "await", "ok", "failed"}]
        /\ queries' \in [Node -> [Id \ {0} -> Query \cup {None}]]
        /\ \A p \in Query : pc'[p] = IF p = q THEN "failed" ELSE pc[p]
    BY Zenon, <1>6, EndTypes DEF CancelQuery
  <2>2. TypeOK'
    BY Zenon, <1>6, <2>1 DEF CancelQuery, TypeOK, nodeVars
  <2>3. Running'
    BY <1>6, <2>1 DEF CancelQuery, Running, TypeOK
  <2>4. QED
    BY <2>2, <2>3
<1>7. ASSUME NEW n \in Node, NEW m \in net, Receive(n, m) PROVE TypeInv'
  <2>k. (m \in Request /\ m.kind = "request") \/ (m \in Response /\ m.kind = "response")
    <3>1. m \in Request \/ m \in Response
      BY DEF TypeOK
    <3>2. QED
      BY <3>1 DEF Request, Response
  <2>1. packets' \in [Query -> Seq(Response)] /\ requests' \in [Node -> Seq(Request)]
    <3>1. CASE m.kind = "response"
      <4>1. m \in Response
        BY <3>1, <2>k
      <4>2. QED
        <5>1. packets \in [Query -> Seq(Response)] /\ requests \in [Node -> Seq(Request)]
          BY DEF TypeOK
        <5>2. PICK q \in Query : packets' = [packets EXCEPT ![q] = Append(@, m)]
          BY Zenon, <1>7, <3>1 DEF Receive, ReceiveFor
        <5>3. requests' = requests
          BY <1>7, <3>1 DEF Receive, ReceiveFor
        <5>4. Append(packets[q], m) \in Seq(Response)
          BY <4>1, <5>1
        <5>5. QED
          BY <5>1, <5>2, <5>3, <5>4
    <3>2. CASE m.kind = "request"
      <4>1. m \in Request /\ requests[n] \in Seq(Request) /\ MaxDeque \in Nat \ {0}
        BY <3>2, <2>k, QueryAssumption DEF TypeOK
      <4>2. (IF Len(requests[n]) < MaxDeque THEN requests[n] ELSE Tail(requests[n])) \in Seq(Request)
        BY <4>1
      <4>3. QED
        <5>1. packets \in [Query -> Seq(Response)] /\ requests \in [Node -> Seq(Request)]
          BY DEF TypeOK
        <5>2. /\ requests' = [requests EXCEPT ![n] =
                                 Append(IF Len(@) < MaxDeque THEN @ ELSE Tail(@), m)]
              /\ packets' = packets
          BY <1>7, <3>2 DEF Receive, ReceiveFor
        <5>3. QED
          BY <4>1, <4>2, <5>1, <5>2
    <3>3. QED
      BY <1>7, <3>1, <3>2 DEF Receive, ReceiveFor
  <2>2. QED
    BY Zenon, <1>7, <2>1 DEF Receive, ReceiveFor, TypeOK, Running
<1>8. ASSUME NEW n \in Node, Respond(n) PROVE TypeInv'
  <2>1. Head(requests[n]) \in Request /\ Tail(requests[n]) \in Seq(Request)
    BY Zenon, <1>8, HeadAndTail DEF Respond, TypeOK
  <2>2. [kind |-> "response", id |-> Head(requests[n]).id, records |-> hosts[n]] \in Response
    BY Zenon, <2>1 DEF TypeOK, Request, Response
  <2>3. answering' \in [Node -> Response \cup {None}]
    BY Zenon, <1>8, <2>2 DEF Respond, TypeOK
  <2>4. requests' \in [Node -> Seq(Request)] /\ responder' \in [Node -> BOOLEAN]
    BY Zenon, <1>8, <2>1 DEF Respond, AwaitRequest, Asking, TypeOK
  <2>5. QED
    BY Zenon, <1>8, <2>3, <2>4 DEF Respond, TypeOK, Running, queryVars
<1>9. ASSUME NEW n \in Node, SendAnswer(n) PROVE TypeInv'
  <2>1. answering[n] \in Response
    BY <1>9 DEF SendAnswer, TypeOK
  <2>2. responder' \in [Node -> BOOLEAN]
    BY <1>9 DEF SendAnswer, AwaitRequest, Asking, TypeOK
  <2>3. QED
    BY Zenon, <1>9, <2>1, <2>2 DEF SendAnswer, TypeOK, Running, queryVars
<1>10. ASSUME NEW n \in Node, RouteFails(n) PROVE TypeInv'
  BY Zenon, <1>10 DEF RouteFails, TypeOK, Running, queryVars
<1>11. ASSUME NEW n \in Node, Shutdown(n) PROVE TypeInv'
  <2>1. /\ requests' \in [Node -> Seq(Request)] /\ answering' \in [Node -> Response \cup {None}]
        /\ proto' \in [Node -> BOOLEAN] /\ route' \in [Node -> BOOLEAN]
        /\ responder' \in [Node -> BOOLEAN]
    BY <1>11 DEF Shutdown, TypeOK
  <2>2. TypeOK'
    BY Zenon, <1>11, <2>1 DEF Shutdown, TypeOK, queryVars
  <2>3. Running'
    BY Zenon, <1>11 DEF Shutdown, Running, queryVars
  <2>4. QED
    BY <2>2, <2>3
<1>12. CASE UNCHANGED vars
  <2>1. TypeOK'
    BY Zenon, <1>12 DEF vars, nodeVars, queryVars, TypeOK
  <2>2. Running'
    BY Zenon, <1>12 DEF vars, queryVars, Running
  <2>3. QED
    BY <2>1, <2>2
<1>13. QED
  BY <1>1, <1>2, <1>3, <1>4, <1>5, <1>6, <1>7, <1>8, <1>9, <1>10, <1>11, <1>12
     DEF Next, QueryStep

LEMMA TypeInit == Init => TypeInv
BY QueryAssumption DEF Init, TypeInv, TypeOK, Running, Records

-----------------------------------------------------------------------------
(* Registrations *)

(* A query ends: what was registered under its id is gone. *)
Ended(q) ==
  /\ pc[q] = "await" /\ pc'[q] # "await" /\ \A p \in Query \ {q} : pc'[p] = pc[p]
  /\ \A n \in Node : \A i \in Id \ {0} :
       queries'[n][i] = IF n = at[q] /\ i = qid[q] THEN None ELSE queries[n][i]
  /\ UNCHANGED <<at, qid>>

(* A query begins, as Ask does. *)
Begun(q) == \E n \in Node, x \in Name, i \in Id : Ask(q, n, x, i)

LEMMA EndEnds ==
  ASSUME TypeInv, NEW q \in Query, NEW s \in {"ok", "failed"}, pc[q] = "await", End(q, s),
         UNCHANGED <<at, qid>>
  PROVE  Ended(q)
<1>1. /\ pc \in [Query -> {"idle", "await", "ok", "failed"}]
      /\ queries \in [Node -> [Id \ {0} -> Query \cup {None}]]
      /\ at[q] \in Node /\ qid[q] \in Id \ {0}
  BY Zenon DEF TypeInv, TypeOK, Running
<1>2. QED
  BY <1>1 DEF End, Unregister, Ended

LEMMA AgainEnds ==
  ASSUME TypeInv, NEW q \in Query, pc[q] = "await", Again(q), UNCHANGED <<at, qid>>
  PROVE  Ended(q) \/ UNCHANGED <<pc, queries, at, qid>>
BY EndEnds DEF Again, AgainIf

(* Registrations change only when a query begins or ends. *)
LEMMA BeginOrEnd ==
  ASSUME TypeInv, [Next]_vars
  PROVE  \/ \E q \in Query : Begun(q) \/ Ended(q)
         \/ UNCHANGED <<pc, queries, at, qid>>
<1>1. ASSUME NEW q \in Query, NextPacket(q) PROVE Ended(q) \/ UNCHANGED <<pc, queries, at, qid>>
  BY <1>1, EndEnds, AgainEnds DEF NextPacket, NextPacketOr
<1>2. ASSUME NEW q \in Query, NoPacket(q) PROVE Ended(q) \/ UNCHANGED <<pc, queries, at, qid>>
  BY <1>2, AgainEnds DEF NoPacket
<1>3. ASSUME NEW q \in Query, CancelQuery(q) PROVE Ended(q)
  BY <1>3, EndEnds DEF CancelQuery
<1>4. ASSUME NEW q \in Query, NEW n \in Node, NEW x \in Name, NEW i \in Id, Ask(q, n, x, i)
      PROVE  Begun(q)
  BY <1>4 DEF Begun
<1>5. CASE \/ \E n \in Node, x \in Name, eps \in SUBSET Endpoint : Publish(n, x, eps)
           \/ \E q \in Query : Broadcast(q)
           \/ \E n \in Node, m \in net : Receive(n, m)
           \/ \E n \in Node : Respond(n) \/ SendAnswer(n) \/ RouteFails(n) \/ Shutdown(n)
           \/ UNCHANGED vars
  BY Zenon, <1>5 DEF Publish, Broadcast, Receive, ReceiveFor, Respond, SendAnswer, RouteFails,
              Shutdown, queryVars, vars
<1>6. QED
  BY <1>1, <1>2, <1>3, <1>4, <1>5 DEF Next, QueryStep

LEMMA RegistrationStep ==
  TypeInv /\ RegistrationIsRunning /\ [Next]_vars => RegistrationIsRunning'
<1> SUFFICES ASSUME TypeInv, RegistrationIsRunning, [Next]_vars,
                    NEW m \in Node, NEW j \in Id \ {0}, NEW p \in Query, queries'[m][j] = p
             PROVE  pc'[p] = "await" /\ at'[p] = m /\ qid'[p] = j
  BY DEF RegistrationIsRunning
<1>1. ASSUME NEW q \in Query, Begun(q) PROVE pc'[p] = "await" /\ at'[p] = m /\ qid'[p] = j
  <2>1. PICK n \in Node, x \in Name, i \in Id : Ask(q, n, x, i)
    BY <1>1 DEF Begun
  <2>2. p # q => pc'[p] = pc[p] /\ at'[p] = at[p] /\ qid'[p] = qid[p]
    BY <2>1 DEF Ask, TypeInv, TypeOK
  <2>3. CASE queries'[m][j] = queries[m][j]
    BY <2>1, <2>2, <2>3 DEF Ask, RegistrationIsRunning
  <2>4. CASE queries'[m][j] # queries[m][j]
    <3>1. p = q /\ m = n /\ j = i /\ pc'[q] = "await" /\ at'[q] = n /\ qid'[q] = i
      BY <2>1, <2>4 DEF Ask, TypeInv, TypeOK
    <3>2. QED
      BY <3>1
  <2>5. QED
    BY <2>3, <2>4
<1>2. ASSUME NEW q \in Query, Ended(q) PROVE pc'[p] = "await" /\ at'[p] = m /\ qid'[p] = j
  <2>1. ~(m = at[q] /\ j = qid[q]) /\ queries[m][j] = p
    BY <1>2, NoneIsNothing DEF Ended
  <2>2. pc[p] = "await" /\ at[p] = m /\ qid[p] = j
    BY <2>1 DEF RegistrationIsRunning
  <2>3. QED
    BY <1>2, <2>1, <2>2 DEF Ended
<1>3. CASE UNCHANGED <<pc, queries, at, qid>>
  BY <1>3 DEF RegistrationIsRunning
<1>4. QED
  BY <1>1, <1>2, <1>3, BeginOrEnd

LEMMA SharedStep ==
  TypeInv /\ RegisteredUnlessShared /\ [Next]_vars => RegisteredUnlessShared'
<1> SUFFICES ASSUME TypeInv, RegisteredUnlessShared, [Next]_vars,
                    NEW p \in Query, pc'[p] = "await"
             PROVE  queries'[at'[p]][qid'[p]] = p \/ \E r \in Query \ {p} : qid'[r] = qid'[p]
  BY DEF RegisteredUnlessShared, Shared
<1>1. ASSUME pc[p] = "await"
      PROVE  /\ queries[at[p]][qid[p]] = p \/ \E r \in Query \ {p} : qid[r] = qid[p]
             /\ at[p] \in Node /\ qid[p] \in Id \ {0}
  BY <1>1 DEF RegisteredUnlessShared, Shared, TypeInv, Running
<1>2. ASSUME NEW q \in Query, Begun(q)
      PROVE  queries'[at'[p]][qid'[p]] = p \/ \E r \in Query \ {p} : qid'[r] = qid'[p]
  <2>1. PICK n \in Node, x \in Name, i \in Id : Ask(q, n, x, i)
    BY <1>2 DEF Begun
  <2>2. at' = [at EXCEPT ![q] = n] /\ qid' = [qid EXCEPT ![q] = i] /\ pc[q] = "idle"
    BY <2>1 DEF Ask
  <2>3. \A r \in Query \ {q} : pc'[r] = pc[r] /\ at'[r] = at[r] /\ qid'[r] = qid[r]
    BY <2>1, <2>2 DEF Ask, TypeInv, TypeOK
  <2>4. CASE p = q
    BY <2>1, <2>4 DEF Ask, TypeInv, TypeOK
  <2>5. CASE p # q
    <3>1. pc[p] = "await" /\ at'[p] = at[p] /\ qid'[p] = qid[p] /\ qid'[q] = i /\ qid[q] = None
      BY <2>2, <2>3, <2>5 DEF TypeInv, TypeOK, Running
    <3>2. CASE qid[p] = i
      BY <3>1, <3>2, <2>5
    <3>3. CASE qid[p] # i /\ queries[at[p]][qid[p]] = p
      <4>1. queries'[at[p]][qid[p]] = queries[at[p]][qid[p]]
        <5>1. queries' = queries \/ (i # 0 /\ queries' = [queries EXCEPT ![n][i] = q])
          BY <2>1 DEF Ask
        <5>2. /\ queries \in [Node -> [Id \ {0} -> Query \cup {None}]]
              /\ at[p] \in Node /\ qid[p] \in Id \ {0}
          BY Zenon, <1>1, <3>1 DEF TypeInv, TypeOK
        <5>3. QED
          BY <3>3, <5>1, <5>2
      <4>2. QED
        BY <3>1, <3>3, <4>1
    <3>4. ASSUME NEW r \in Query \ {p}, qid[r] = qid[p] PROVE \E t \in Query \ {p} : qid'[t] = qid'[p]
      <4>1. r # q
        BY <3>1, <3>4, <1>1, NoneIsNothing
      <4>2. QED
        BY <2>3, <3>1, <3>4, <4>1
    <3>5. QED
      BY <1>1, <3>1, <3>2, <3>3, <3>4
  <2>6. QED
    BY <2>4, <2>5
<1>3. ASSUME NEW q \in Query, Ended(q)
      PROVE  queries'[at'[p]][qid'[p]] = p \/ \E r \in Query \ {p} : qid'[r] = qid'[p]
  <2>1. p # q /\ pc[p] = "await" /\ at' = at /\ qid' = qid
    BY <1>3 DEF Ended
  <2>2. CASE qid[p] = qid[q]
    BY <2>1, <2>2
  <2>3. CASE qid[p] # qid[q]
    BY <1>1, <1>3, <2>1, <2>3 DEF Ended
  <2>4. QED
    BY <2>2, <2>3
<1>4. CASE UNCHANGED <<pc, queries, at, qid>>
  BY <1>1, <1>4
<1>5. QED
  BY <1>2, <1>3, <1>4, BeginOrEnd

(* A query that got as far as sending. *)
Began(q) == pc[q] \in {"await", "ok"}

(* A query begins once; its id and name stay, what is stale shrinks. *)
LEMMA BeginsOnce ==
  ASSUME TypeInv, [Next]_vars, NEW q \in Query
  PROVE  \/ pc[q] = "idle" /\ Begun(q)
         \/ /\ qid'[q] = qid[q] /\ qname'[q] = qname[q] /\ stale'[q] \subseteq stale[q]
            /\ Began(q)' => Began(q)
<1>0. /\ pc \in [Query -> {"idle", "await", "ok", "failed"}]
      /\ qid \in [Query -> Id \cup {None}] /\ qname \in [Query -> Name \cup {None}]
      /\ stale \in [Query -> SUBSET Endpoint]
  BY DEF TypeInv, TypeOK
<1>1. ASSUME NEW p \in Query, NEW n \in Node, NEW x \in Name, NEW i \in Id, Ask(p, n, x, i)
      PROVE  \/ pc[q] = "idle" /\ Begun(q)
             \/ /\ qid'[q] = qid[q] /\ qname'[q] = qname[q] /\ stale'[q] = stale[q]
                /\ pc'[q] = pc[q]
  <2>1. CASE p = q
    BY Zenon, <1>1, <2>1 DEF Begun, Ask
  <2>2. CASE p # q
    BY <1>0, <1>1, <2>2 DEF Ask
  <2>3. QED
    BY <2>1, <2>2
<1>2. ASSUME NEW p \in Query, NextPacket(p) \/ NoPacket(p) \/ CancelQuery(p)
      PROVE  UNCHANGED <<qid, qname, stale>> /\ (Began(q)' => Began(q))
  <2>1. UNCHANGED <<qid, qname, stale>> /\ pc[p] = "await"
    BY <1>2 DEF NextPacket, NextPacketOr, NoPacket, CancelQuery
  <2>2. p # q => pc'[q] = pc[q]
    BY <1>2, EndTypes, AgainTypes DEF NextPacket, NextPacketOr, NoPacket, CancelQuery
  <2>3. QED
    BY <2>1, <2>2 DEF Began
<1>3. ASSUME NEW n \in Node, NEW x \in Name, NEW eps \in SUBSET Endpoint, Publish(n, x, eps)
      PROVE  UNCHANGED <<pc, qid, qname>> /\ stale'[q] \subseteq stale[q]
  BY <1>0, <1>3 DEF Publish, queryVars
<1>4. CASE \/ \E p \in Query : Broadcast(p)
           \/ \E n \in Node, m \in net : Receive(n, m)
           \/ \E n \in Node : Respond(n) \/ SendAnswer(n) \/ RouteFails(n) \/ Shutdown(n)
           \/ UNCHANGED vars
  <2>1. UNCHANGED <<pc, qid, qname, stale>>
    BY Zenon, <1>4 DEF Broadcast, Receive, ReceiveFor, Respond, SendAnswer, RouteFails, Shutdown,
       queryVars, vars
  <2>2. QED
    BY <2>1 DEF Began
<1>5. QED
  BY <1>1, <1>2, <1>3, <1>4 DEF Next, QueryStep, Began

-----------------------------------------------------------------------------
(* What a step sends, queues and finds *)

(* What a step sends. *)
LEMMA NewPackets ==
  ASSUME TypeInv, [Next]_vars, NEW m \in net', m \notin net
  PROVE  \/ \E q \in Query : m = [kind |-> "request", id |-> qid[q], name |-> qname[q]]
         \/ \E n \in Node : answering[n] # None /\ m = answering[n]
<1>1. ASSUME NEW q \in Query, Broadcast(q)
      PROVE  m = [kind |-> "request", id |-> qid[q], name |-> qname[q]]
  BY <1>1 DEF Broadcast
<1>2. ASSUME NEW n \in Node, SendAnswer(n) PROVE answering[n] # None /\ m = answering[n]
  BY <1>2 DEF SendAnswer
<1>3. QED
  BY Zenon, <1>1, <1>2 DEF Next, Publish, Ask, QueryStep, NextPacket, NextPacketOr, NoPacket,
     CancelQuery, Receive, ReceiveFor, Respond, RouteFails, Shutdown, vars

(* What a responder is about to send: its records, to a request it has. *)
LEMMA NewAnswers ==
  ASSUME TypeInv, [Next]_vars, NEW n \in Node, answering'[n] # None,
         answering'[n] # answering[n]
  PROVE  /\ \E m \in ElementsOf(requests[n]) : answering'[n].id = m.id
         /\ answering'[n].records = hosts[n]
         /\ UNCHANGED <<hosts, queryVars, stale>>
<1>0. answering \in [Node -> Response \cup {None}] /\ requests \in [Node -> Seq(Request)]
  BY DEF TypeInv, TypeOK
<1>1. ASSUME NEW k \in Node, Respond(k)
      PROVE  /\ k = n /\ requests[n] # <<>>
             /\ answering'[n] = [kind |-> "response", id |-> Head(requests[n]).id,
                                 records |-> hosts[n]]
             /\ UNCHANGED <<hosts, queryVars, stale>>
  BY <1>0, <1>1 DEF Respond
<1>2. ASSUME NEW k \in Node PROVE ~SendAnswer(k) /\ ~Shutdown(k)
  BY <1>0 DEF SendAnswer, Shutdown
<1>3. PICK k \in Node : Respond(k)
  BY Zenon, <1>2 DEF Next, Publish, Ask, Broadcast, QueryStep, NextPacket, NextPacketOr, NoPacket,
     CancelQuery, Receive, ReceiveFor, RouteFails, nodeVars, vars
<1>4. Head(requests[n]) \in ElementsOf(requests[n])
  <2>1. requests[n] \in Seq(Request) /\ requests[n] # <<>>
    BY <1>0, <1>1, <1>3
  <2>2. ElementsOf(requests[n]) = {Head(requests[n])} \cup ElementsOf(Tail(requests[n]))
    BY <2>1, HeadAndTail, Zenon DEF ElementsOf
  <2>3. QED
    BY <2>2
<1>5. QED
  BY <1>1, <1>3, <1>4

(* What is queued came over the net. *)
LEMMA NewElement ==
  ASSUME NEW S, NEW s \in Seq(S), NEW e \in S, NEW m \in ElementsOf(Append(s, e))
  PROVE  m = e \/ m \in ElementsOf(s)
<1>1. PICK i \in DOMAIN Append(s, e) : m = Append(s, e)[i]
  BY DEF ElementsOf
<1>2. i \in 1 .. Len(s) => m = s[i] /\ i \in DOMAIN s
  BY <1>1
<1>3. i \notin 1 .. Len(s) => m = e
  BY <1>1
<1>4. QED
  BY <1>2, <1>3 DEF ElementsOf

LEMMA NewQueued ==
  ASSUME TypeInv, [Next]_vars, NEW q \in Query, NEW m \in ElementsOf(packets'[q])
  PROVE  \/ m \in ElementsOf(packets[q])
         \/ m \in net /\ m.id \in Id \ {0} /\ \E n \in Node : queries[n][m.id] = q
<1>0. packets \in [Query -> Seq(Response)]
  BY DEF TypeInv, TypeOK
<1>1. ASSUME NEW p \in Query, NextPacket(p) PROVE m \in ElementsOf(packets[q])
  <2>1. packets[p] # <<>> /\ packets' = [packets EXCEPT ![p] = Tail(@)]
    BY <1>1 DEF NextPacket, NextPacketOr
  <2>2. ElementsOf(Tail(packets[p])) \subseteq ElementsOf(packets[p])
    BY <1>0, <2>1, HeadAndTail DEF ElementsOf
  <2>3. QED
    BY <1>0, <2>1, <2>2
<1>2. ASSUME NEW n \in Node, NEW r \in net, Receive(n, r), m \notin ElementsOf(packets[q])
      PROVE  m = r /\ r.id \in Id \ {0} /\ queries[n][r.id] = q
  <2>1. r.kind = "response"
    BY <1>2 DEF Receive, ReceiveFor
  <2>2. PICK p \in Query : /\ r.id # 0 /\ queries[n][r.id] = p
                           /\ packets' = [packets EXCEPT ![p] = Append(@, r)]
    BY <1>2, <2>1 DEF Receive, ReceiveFor
  <2>3. p = q /\ packets'[q] = Append(packets[q], r) /\ packets[q] \in Seq(Response)
    BY <1>0, <1>2, <2>2
  <2>4. r \in Response /\ r.id \in Id
    BY <2>1 DEF TypeInv, TypeOK, Request, Response
  <2>5. m = r
    BY <1>2, <2>3, <2>4, NewElement
  <2>6. QED
    BY <2>2, <2>3, <2>4, <2>5
<1>3. QED
  BY Zenon, <1>1, <1>2 DEF Next, Publish, Ask, Broadcast, QueryStep, NoPacket, CancelQuery,
     Respond, SendAnswer, RouteFails, Shutdown, queryVars, vars

(* A query that ends well returns the endpoints of a response it queued. *)
LEMMA NewlyFound ==
  ASSUME TypeInv, [Next]_vars, NEW q \in Query, pc'[q] = "ok"
  PROVE  \/ pc[q] = "ok" /\ found'[q] = found[q]
         \/ /\ pc[q] = "await"
            /\ \E m \in ElementsOf(packets[q]) :
                 m.kind = "response" /\ found'[q] = m.records[qname[q]]
<1>0. /\ pc \in [Query -> {"idle", "await", "ok", "failed"}]
      /\ found \in [Query -> SUBSET Endpoint] /\ packets \in [Query -> Seq(Response)]
  BY DEF TypeInv, TypeOK
<1>1. ASSUME NEW p \in Query, NextPacket(p), p # q PROVE pc'[q] = pc[q] /\ found'[q] = found[q]
  <2>1. pc'[q] = pc[q]
    BY <1>1, EndTypes, AgainTypes DEF NextPacket, NextPacketOr
  <2>2. found' = found \/ found' = [found EXCEPT ![p] = Answers(p, Head(packets[p]))]
    BY <1>1 DEF NextPacket, NextPacketOr
  <2>3. QED
    BY <1>0, <1>1, <2>1, <2>2
<1>2. ASSUME NextPacket(q)
      PROVE  /\ pc[q] = "await"
             /\ \E m \in ElementsOf(packets[q]) :
                  m.kind = "response" /\ found'[q] = m.records[qname[q]]
  <2>1. pc[q] = "await" /\ packets[q] # <<>>
    BY <1>2 DEF NextPacket, NextPacketOr
  <2>2. ~Again(q)
    BY <2>1, AgainTypes
  <2>3. found' = [found EXCEPT ![q] = Answers(q, Head(packets[q]))]
    BY <1>2, <2>2 DEF NextPacket, NextPacketOr
  <2>4. packets[q] \in Seq(Response)
    BY <1>0
  <2>5. /\ Head(packets[q]) \in Response
        /\ ElementsOf(packets[q]) = {Head(packets[q])} \cup ElementsOf(Tail(packets[q]))
    BY <2>1, <2>4, HeadAndTail, Zenon DEF ElementsOf
  <2>6. Head(packets[q]).kind = "response"
    BY <2>5 DEF Response
  <2>7. found'[q] = Head(packets[q]).records[qname[q]]
    BY <1>0, <2>3 DEF Answers
  <2>8. QED
    BY <2>1, <2>5, <2>6, <2>7
<1>3. ASSUME NEW p \in Query, NoPacket(p) \/ CancelQuery(p) PROVE pc[q] = "ok" /\ found' = found
  BY <1>3, AgainTypes, EndTypes DEF NoPacket, CancelQuery
<1>4. ASSUME NEW p \in Query, NEW n \in Node, NEW x \in Name, NEW i \in Id, Ask(p, n, x, i)
      PROVE  pc[q] = "ok" /\ found' = found
  BY <1>0, <1>4 DEF Ask
<1>5. QED
  BY Zenon, <1>1, <1>2, <1>3, <1>4 DEF Next, Publish, Broadcast, QueryStep, Receive, ReceiveFor,
     Respond, SendAnswer, RouteFails, Shutdown, queryVars, vars

-----------------------------------------------------------------------------
(* Answers *)

Honest(m) == m.kind = "response" => \A x \in Name : m.records[x] \subseteq ever[x]

OwnInv ==
  /\ \A n \in Node, x \in Name : hosts[n][x] \subseteq ever[x]
  /\ \A m \in net : m.id # 0 => Honest(m)
  /\ \A n \in Node : answering[n] # None => Honest(answering[n])
  /\ \A q \in Query : \A m \in ElementsOf(packets[q]) : Honest(m)
  /\ OwnAnswer

(* Nothing is ever forgotten of what was published. *)
LEMMA EverGrows ==
  ASSUME TypeInv, [Next]_vars
  PROVE  \A x \in Name : ever[x] \subseteq ever'[x]
<1>1. ASSUME NEW n \in Node, NEW y \in Name, NEW eps \in SUBSET Endpoint, Publish(n, y, eps)
      PROVE  \A x \in Name : ever[x] \subseteq ever'[x]
  BY <1>1 DEF Publish, TypeInv, TypeOK, Records
<1>2. CASE UNCHANGED ever
  BY <1>2
<1>3. QED
  BY Zenon, <1>1, <1>2 DEF Next, Ask, Broadcast, QueryStep, NextPacket, NextPacketOr, NoPacket,
     CancelQuery, Receive, ReceiveFor, Respond, SendAnswer, RouteFails, Shutdown, vars

(* What holds of the messages and answers that are there keeps holding. *)
LEMMA StillHonest ==
  ASSUME TypeInv, OwnInv, [Next]_vars
  PROVE  /\ \A m : Honest(m) => Honest(m)'
         /\ \A q \in Query : pc[q] = "ok" => found[q] \subseteq ever'[qname[q]]
<1>1. ASSUME NEW m, Honest(m) PROVE Honest(m)'
  BY <1>1, EverGrows DEF Honest
<1>2. ASSUME NEW q \in Query, pc[q] = "ok" PROVE found[q] \subseteq ever'[qname[q]]
  BY <1>2, EverGrows DEF OwnInv, OwnAnswer, TypeInv, Running
<1>3. QED
  BY <1>1, <1>2

LEMMA HostsStep ==
  ASSUME TypeInv, OwnInv, [Next]_vars
  PROVE  \A n \in Node, x \in Name : hosts'[n][x] \subseteq ever'[x]
<1>1. ASSUME NEW n \in Node, NEW x \in Name, NEW eps \in SUBSET Endpoint, Publish(n, x, eps),
             NEW m \in Node, NEW y \in Name
      PROVE  hosts'[m][y] \subseteq ever'[y]
  <2>1. hosts \in [Node -> [Name -> SUBSET Endpoint]] /\ ever \in [Name -> SUBSET Endpoint]
    BY DEF TypeInv, TypeOK, Records
  <2>2. hosts' = [hosts EXCEPT ![n][x] = eps] /\ ever' = [ever EXCEPT ![x] = @ \cup eps]
    BY <1>1 DEF Publish
  <2>3. hosts[m][y] \subseteq ever[y]
    BY DEF OwnInv
  <2>4. QED
    BY <2>1, <2>2, <2>3
<1>2. CASE UNCHANGED hosts
  BY <1>2, EverGrows DEF OwnInv
<1>3. QED
  BY Zenon, <1>1, <1>2 DEF Next, Ask, Broadcast, QueryStep, NextPacket, NextPacketOr, NoPacket, nodeVars,
     CancelQuery, Receive, ReceiveFor, Respond, SendAnswer, RouteFails, Shutdown, vars

LEMMA NetStep ==
  ASSUME TypeInv, OwnInv, [Next]_vars, NEW m \in net', m.id # 0
  PROVE  Honest(m)'
<1>1. CASE m \in net
  BY <1>1, StillHonest DEF OwnInv
<1>2. ASSUME NEW q \in Query, m = [kind |-> "request", id |-> qid[q], name |-> qname[q]]
      PROVE  Honest(m)'
  BY <1>2 DEF Honest
<1>3. ASSUME NEW n \in Node, answering[n] # None, m = answering[n] PROVE Honest(m)'
  BY <1>3, StillHonest DEF OwnInv
<1>4. QED
  BY <1>1, <1>2, <1>3, NewPackets

LEMMA AnsweringStep ==
  ASSUME TypeInv, OwnInv, [Next]_vars, NEW n \in Node, answering'[n] # None
  PROVE  Honest(answering[n])'
<1>1. CASE answering'[n] = answering[n]
  BY <1>1, StillHonest DEF OwnInv, Honest
<1>2. CASE answering'[n] # answering[n]
  BY <1>2, NewAnswers, EverGrows DEF OwnInv, Honest
<1>3. QED
  BY <1>1, <1>2

LEMMA PacketsStep ==
  ASSUME TypeInv, OwnInv, [Next]_vars, NEW q \in Query, NEW m \in ElementsOf(packets'[q])
  PROVE  Honest(m)'
<1>1. Honest(m)
  BY NewQueued DEF OwnInv
<1>2. QED
  BY <1>1, StillHonest

LEMMA FoundStep ==
  ASSUME TypeInv, OwnInv, [Next]_vars, NEW q \in Query, pc'[q] = "ok"
  PROVE  found'[q] \subseteq ever'[qname'[q]]
<1>1. pc[q] # "idle"
  BY NewlyFound
<1>2. qname'[q] = qname[q] /\ qname[q] \in Name
  BY <1>1, BeginsOnce DEF TypeInv, Running
<1>3. CASE pc[q] = "ok" /\ found'[q] = found[q]
  BY <1>2, <1>3, StillHonest
<1>4. ASSUME NEW m \in ElementsOf(packets[q]), m.kind = "response",
             found'[q] = m.records[qname[q]]
      PROVE  found'[q] \subseteq ever'[qname'[q]]
  BY <1>2, <1>4, EverGrows DEF OwnInv, Honest
<1>5. QED
  BY <1>3, <1>4, NewlyFound

LEMMA OwnStep == TypeInv /\ OwnInv /\ [Next]_vars => OwnInv'
<1> SUFFICES ASSUME TypeInv, OwnInv, [Next]_vars PROVE OwnInv'
  OBVIOUS
<1>1. (\A n \in Node, x \in Name : hosts[n][x] \subseteq ever[x])'
  BY HostsStep
<1>2. (\A m \in net : m.id # 0 => Honest(m))'
  BY NetStep
<1>3. (\A n \in Node : answering[n] # None => Honest(answering[n]))'
  BY AnsweringStep
<1>4. (\A q \in Query : \A m \in ElementsOf(packets[q]) : Honest(m))'
  BY PacketsStep
<1>5. OwnAnswer'
  BY FoundStep DEF OwnAnswer
<1>6. QED
  BY <1>1, <1>2, <1>3, <1>4, <1>5 DEF OwnInv

LEMMA OwnInit == Init => OwnInv
BY ForeignAssumption DEF Init, OwnInv, OwnAnswer, ElementsOf

-----------------------------------------------------------------------------
(* Stale answers.  Every packet carries 0 or the id of a query; so when a  *)
(* query begins with an id of its own there is no packet with that id yet, *)
(* and every response to it is made of records read after it began.        *)

Known(m) == m.id # 0 => \E p \in Query : qid[p] = m.id

Current(q, m) ==
  m.kind = "response" /\ m.id = qid[q] => m.records[qname[q]] \cap stale[q] = {}

KnownInv ==
  /\ \A m \in net : Known(m)
  /\ \A n \in Node : \A m \in ElementsOf(requests[n]) : Known(m)
  /\ \A n \in Node : answering[n] # None => Known(answering[n])
QueuedInv == \A q \in Query : \A m \in ElementsOf(packets[q]) : m \in net /\ m.id = qid[q]
HostedInv == \A q \in Query, n \in Node : Began(q) => hosts[n][qname[q]] \cap stale[q] = {}
CurrentInv ==
  \A q \in Query : Began(q) /\ ~Shared(q) =>
    /\ \A m \in net : Current(q, m)
    /\ \A n \in Node : answering[n] # None => Current(q, answering[n])

LEMMA StaysKnown ==
  ASSUME TypeInv, [Next]_vars, NEW m, m.id \in Id, Known(m)
  PROVE  Known(m)'
<1> SUFFICES ASSUME m.id # 0 PROVE \E p \in Query : qid'[p] = m.id
  BY DEF Known
<1>1. PICK p \in Query : qid[p] = m.id
  BY DEF Known
<1>2. pc[p] # "idle"
  BY <1>1, NoneIsNothing DEF TypeInv, Running
<1>3. QED
  BY <1>1, <1>2, BeginsOnce

LEMMA NewRequests ==
  ASSUME TypeInv, [Next]_vars, NEW n \in Node, NEW m \in ElementsOf(requests'[n])
  PROVE  m \in ElementsOf(requests[n]) \/ m \in net
<1>0. requests \in [Node -> Seq(Request)]
  BY DEF TypeInv, TypeOK
<1>t. ASSUME requests[n] # <<>> PROVE ElementsOf(Tail(requests[n])) \subseteq ElementsOf(requests[n])
  BY <1>0, <1>t, HeadAndTail DEF ElementsOf
<1>1. ASSUME NEW k \in Node, Respond(k) PROVE m \in ElementsOf(requests[n])
  <2>1. requests[k] # <<>> /\ requests' = [requests EXCEPT ![k] = Tail(@)]
    BY <1>1 DEF Respond
  <2>2. QED
    BY <1>0, <1>t, <2>1
<1>2. ASSUME NEW k \in Node, Shutdown(k) PROVE m \in ElementsOf(requests[n])
  BY <1>0, <1>2 DEF Shutdown, ElementsOf
<1>3. ASSUME NEW k \in Node, NEW r \in net, Receive(k, r), m \notin ElementsOf(requests[n])
      PROVE  m = r
  <2>1. /\ r.kind = "request"
        /\ requests' = [requests EXCEPT ![k] =
                          Append(IF Len(@) < MaxDeque THEN @ ELSE Tail(@), r)]
    BY <1>3 DEF Receive, ReceiveFor
  <2>2. PICK s : s = IF Len(requests[n]) < MaxDeque THEN requests[n] ELSE Tail(requests[n])
    BY Zenon
  <2>3. s \in Seq(Request) /\ ElementsOf(s) \subseteq ElementsOf(requests[n])
    <3>1. requests[n] \in Seq(Request)
      BY <1>0
    <3>2. CASE Len(requests[n]) < MaxDeque
      BY <2>2, <3>1, <3>2
    <3>3. CASE ~(Len(requests[n]) < MaxDeque)
      <4>0. MaxDeque > 0
        BY QueryAssumption
      <4>1. requests[n] # <<>>
        BY <3>3, <4>0
      <4>2. QED
        BY <1>t, <2>2, <3>1, <3>3, <4>1
    <3>4. QED
      BY <3>2, <3>3
  <2>4. n = k /\ requests'[n] = Append(s, r)
    BY <1>0, <1>3, <2>1, <2>2
  <2>5. r \in Request
    BY <2>1 DEF TypeInv, TypeOK, Request, Response
  <2>6. QED
    BY <1>3, <2>3, <2>4, <2>5, NewElement
<1>4. QED
  BY Zenon, <1>1, <1>2, <1>3 DEF Next, Publish, Ask, Broadcast, QueryStep, NextPacket, NextPacketOr,
     NoPacket, CancelQuery, SendAnswer, RouteFails, nodeVars, vars

LEMMA NetGrows == ASSUME [Next]_vars PROVE net \subseteq net'
BY Zenon DEF Next, Publish, Ask, Broadcast, QueryStep, NextPacket, NextPacketOr, NoPacket, CancelQuery,
   Receive, ReceiveFor, Respond, SendAnswer, RouteFails, Shutdown, vars

LEMMA KnownStep == TypeInv /\ KnownInv /\ [Next]_vars => KnownInv'
<1> SUFFICES ASSUME TypeInv, KnownInv, [Next]_vars PROVE KnownInv'
  OBVIOUS
<1>0. /\ \A m \in net : m.id \in Id
      /\ \A n \in Node : answering[n] # None => answering[n].id \in Id
      /\ \A n \in Node : \A m \in ElementsOf(requests[n]) : m.id \in Id
  <2>1. \A m \in net : m.id \in Id
    BY DEF TypeInv, TypeOK, Request, Response
  <2>2. \A n \in Node : answering[n] # None => answering[n].id \in Id
    BY DEF TypeInv, TypeOK, Response
  <2>3. ASSUME NEW n \in Node, NEW m \in ElementsOf(requests[n]) PROVE m.id \in Id
    <3>1. requests[n] \in Seq(Request)
      BY DEF TypeInv, TypeOK
    <3>2. PICK i \in DOMAIN requests[n] : m = requests[n][i]
      BY <2>3 DEF ElementsOf
    <3>3. m \in Request
      BY <3>1, <3>2
    <3>4. QED
      BY <3>3 DEF Request
  <2>4. QED
    BY <2>1, <2>2, <2>3
<1>1. ASSUME NEW m \in net' PROVE Known(m)'
  <2>1. CASE m \in net
    BY <1>0, <2>1, StaysKnown DEF KnownInv
  <2>2. ASSUME NEW q \in Query, m = [kind |-> "request", id |-> qid[q], name |-> qname[q]],
               m \notin net
        PROVE  Known(m)'
    <3>1. m.id \in Id
      BY Zenon, TypeStep DEF TypeInv, TypeOK, Request, Response
    <3>2. Known(m)
      BY <2>2 DEF Known
    <3>3. QED
      BY <3>1, <3>2, StaysKnown
  <2>3. ASSUME NEW n \in Node, answering[n] # None, m = answering[n] PROVE Known(m)'
    BY <1>0, <2>3, StaysKnown DEF KnownInv
  <2>4. QED
    BY <2>1, <2>2, <2>3, NewPackets
<1>2. ASSUME NEW n \in Node, NEW m \in ElementsOf(requests'[n]) PROVE Known(m)'
  BY <1>0, <1>2, StaysKnown, NewRequests DEF KnownInv
<1>3. ASSUME NEW n \in Node, answering'[n] # None PROVE Known(answering[n])'
  <2>1. CASE answering'[n] = answering[n]
    BY <1>0, <1>3, <2>1, StaysKnown DEF KnownInv, Known
  <2>2. CASE answering'[n] # answering[n]
    <3>1. PICK m \in ElementsOf(requests[n]) : answering'[n].id = m.id
      BY <1>3, <2>2, NewAnswers
    <3>2. Known(m)'
      BY <1>0, <3>1, StaysKnown DEF KnownInv
    <3>3. QED
      BY <3>1, <3>2 DEF Known
  <2>3. QED
    BY <2>1, <2>2
<1>4. QED
  BY <1>1, <1>2, <1>3 DEF KnownInv

LEMMA QueuedStep ==
  TypeInv /\ RegistrationIsRunning /\ QueuedInv /\ [Next]_vars => QueuedInv'
<1> SUFFICES ASSUME TypeInv, RegistrationIsRunning, QueuedInv, [Next]_vars,
                    NEW q \in Query, NEW m \in ElementsOf(packets'[q])
             PROVE  m \in net' /\ m.id = qid'[q]
  BY DEF QueuedInv
<1>1. m \in net /\ m.id = qid[q]
  <2>1. CASE m \in ElementsOf(packets[q])
    BY <2>1 DEF QueuedInv
  <2>2. CASE m \in net /\ m.id \in Id \ {0} /\ \E n \in Node : queries[n][m.id] = q
    BY <2>2 DEF RegistrationIsRunning
  <2>3. QED
    BY <2>1, <2>2, NewQueued
<1>2. m.id \in Id
  BY <1>1 DEF TypeInv, TypeOK, Request, Response
<1>3. pc[q] # "idle"
  BY <1>1, <1>2, NoneIsNothing DEF TypeInv, Running
<1>4. QED
  BY <1>1, <1>3, BeginsOnce, NetGrows

LEMMA HostedStep == TypeInv /\ HostedInv /\ [Next]_vars => HostedInv'
<1> SUFFICES ASSUME TypeInv, HostedInv, [Next]_vars, NEW q \in Query, NEW n \in Node, Began(q)'
             PROVE  hosts'[n][qname'[q]] \cap stale'[q] = {}
  BY DEF HostedInv
<1>0. /\ hosts \in [Node -> [Name -> SUBSET Endpoint]]
      /\ qname \in [Query -> Name \cup {None}] /\ stale \in [Query -> SUBSET Endpoint]
  BY DEF TypeInv, TypeOK, Records
<1>1. CASE pc[q] = "idle" /\ Begun(q)
  <2>1. PICK k \in Node, x \in Name, i \in Id : Ask(q, k, x, i)
    BY <1>1 DEF Begun
  <2>2. hosts' = hosts /\ qname'[q] = x /\ stale'[q] = Endpoint \ Published(x)
    BY <1>0, <2>1 DEF Ask, nodeVars
  <2>3. hosts[n][x] \subseteq Published(x)
    BY DEF Published
  <2>4. QED
    BY <2>2, <2>3
<1>2. CASE /\ qname'[q] = qname[q] /\ stale'[q] \subseteq stale[q]
           /\ Began(q)
  <2>1. hosts[n][qname[q]] \cap stale[q] = {}
    BY <1>2 DEF HostedInv
  <2>2. ASSUME NEW k \in Node, NEW x \in Name, NEW eps \in SUBSET Endpoint, Publish(k, x, eps)
        PROVE  hosts'[n][qname'[q]] \cap stale'[q] = {}
    <3>1. CASE k = n /\ x = qname[q]
      <4>1. hosts'[n][qname'[q]] = eps
        BY <1>0, <1>2, <2>2, <3>1 DEF Publish
      <4>2. stale'[q] \cap eps = {}
        BY <2>2, <3>1 DEF Publish
      <4>3. QED
        BY <4>1, <4>2
    <3>2. CASE ~(k = n /\ x = qname[q])
      <4>1. qname[q] \in Name
        BY <1>2 DEF TypeInv, Running, Began
      <4>2. hosts'[n][qname'[q]] = hosts[n][qname[q]]
        BY <1>0, <1>2, <2>2, <3>2, <4>1 DEF Publish
      <4>3. QED
        BY <1>2, <2>1, <4>2
    <3>3. QED
      BY <3>1, <3>2
  <2>3. CASE UNCHANGED hosts
    BY <1>2, <2>1, <2>3
  <2>4. QED
    BY Zenon, <2>2, <2>3 DEF Next, Ask, Broadcast, QueryStep, NextPacket, NextPacketOr, NoPacket, nodeVars,
       CancelQuery, Receive, ReceiveFor, Respond, SendAnswer, RouteFails, Shutdown, vars
<1>3. QED
  BY <1>1, <1>2, BeginsOnce

(* An id that collides keeps colliding. *)
LEMMA StaysShared ==
  ASSUME TypeInv, [Next]_vars, NEW q \in Query, Began(q), Shared(q)
  PROVE  Shared(q)'
<1>1. PICK p \in Query \ {q} : qid[p] = qid[q]
  BY DEF Shared
<1>2. qid[q] \in Id /\ pc[q] # "idle" /\ pc[p] # "idle"
  BY <1>1, NoneIsNothing DEF TypeInv, Running, Began
<1>3. qid'[q] = qid[q] /\ qid'[p] = qid[p]
  BY <1>2, BeginsOnce
<1>4. QED
  BY <1>1, <1>3 DEF Shared

LEMMA CurrentStep ==
  TypeInv /\ KnownInv /\ HostedInv /\ CurrentInv /\ [Next]_vars => CurrentInv'
<1> SUFFICES ASSUME TypeInv, KnownInv, HostedInv, CurrentInv, [Next]_vars,
                    NEW q \in Query, Began(q)', ~Shared(q)'
             PROVE  /\ \A m \in net' : Current(q, m)'
                    /\ \A n \in Node : answering'[n] # None => Current(q, answering[n])'
  BY DEF CurrentInv
<1>1. CASE pc[q] = "idle" /\ Begun(q)
  <2>1. PICK k \in Node, x \in Name, i \in Id : Ask(q, k, x, i)
    BY <1>1 DEF Begun
  <2>2. net' = net /\ answering' = answering /\ pc'[q] # "failed"
    BY <2>1 DEF Ask, nodeVars, Began
  <2>3. i # 0 /\ qid' = [qid EXCEPT ![q] = i] /\ qid \in [Query -> Id \cup {None}]
    BY <2>1, <2>2 DEF Ask, TypeInv, TypeOK
  <2>4. qid[q] # i
    BY <1>1, NoneIsNothing DEF TypeInv, Running
  <2>5. ASSUME NEW m, Known(m) PROVE m.id # qid'[q]
    BY <2>3, <2>4, <2>5 DEF Known, Shared
  <2>6. QED
    BY <2>2, <2>5 DEF KnownInv, Current
<1>2. CASE /\ qid'[q] = qid[q] /\ qname'[q] = qname[q] /\ stale'[q] \subseteq stale[q]
           /\ Began(q)
  <2>1. /\ \A m \in net : Current(q, m)
        /\ \A n \in Node : answering[n] # None => Current(q, answering[n])
    BY <1>2, StaysShared DEF CurrentInv
  <2>2. ASSUME NEW m, Current(q, m) PROVE Current(q, m)'
    BY <1>2, <2>2 DEF Current
  <2>3. ASSUME NEW m \in net', m \notin net PROVE Current(q, m)'
    <3>1. ASSUME NEW p \in Query, m = [kind |-> "request", id |-> qid[p], name |-> qname[p]]
          PROVE  Current(q, m)'
      BY <3>1 DEF Current
    <3>2. QED
      BY <2>1, <2>2, <2>3, <3>1, NewPackets
  <2>4. ASSUME NEW n \in Node, answering'[n] # None PROVE Current(q, answering[n])'
    <3>1. CASE answering'[n] = answering[n]
      BY <1>2, <2>1, <2>4, <3>1 DEF Current
    <3>2. CASE answering'[n] # answering[n]
      <4>1. answering'[n].records = hosts[n] /\ qname' = qname /\ stale' = stale
        BY <2>4, <3>2, NewAnswers DEF queryVars
      <4>2. QED
        BY <1>2, <4>1 DEF HostedInv, Current
    <3>3. QED
      BY <3>1, <3>2
  <2>5. QED
    BY <2>1, <2>2, <2>3, <2>4
<1>3. QED
  BY <1>1, <1>2, BeginsOnce

LEMMA StaleStep ==
  TypeInv /\ QueuedInv /\ CurrentInv /\ NoStaleAnswer /\ [Next]_vars => NoStaleAnswer'
<1> SUFFICES ASSUME TypeInv, QueuedInv, CurrentInv, NoStaleAnswer, [Next]_vars,
                    NEW q \in Query, pc'[q] = "ok", ~Shared(q)'
             PROVE  found'[q] \cap stale'[q] = {}
  BY DEF NoStaleAnswer
<1>1. Began(q)
  BY NewlyFound DEF Began
<1>2. ~Shared(q)
  BY <1>1, StaysShared
<1>3. stale'[q] \subseteq stale[q]
  BY <1>1, BeginsOnce DEF Began
<1>4. CASE pc[q] = "ok" /\ found'[q] = found[q]
  BY <1>2, <1>3, <1>4 DEF NoStaleAnswer
<1>5. ASSUME NEW m \in ElementsOf(packets[q]), m.kind = "response",
             found'[q] = m.records[qname[q]]
      PROVE  found'[q] \cap stale'[q] = {}
  <2>1. m \in net /\ m.id = qid[q]
    BY DEF QueuedInv
  <2>2. Current(q, m)
    BY <1>1, <1>2, <2>1 DEF CurrentInv
  <2>3. QED
    BY <1>3, <1>5, <2>1, <2>2 DEF Current
<1>6. QED
  BY <1>4, <1>5, NewlyFound

-----------------------------------------------------------------------------
(* The registrations of a node are those of its running queries, each      *)
(* under its own id: the Drop of Responses leaves nothing behind           *)
(* (protocol.rs:199-205).                                                  *)
THEOREM RegistrationsAreRunning == Spec => []RegistrationIsRunning
<1>1. Init => RegistrationIsRunning
  BY NoneIsNothing DEF Init, RegistrationIsRunning
<1>2. QED
  BY <1>1, TypeInit, TypeStep, RegistrationStep, PTL DEF Spec

(* Only another query with the same id takes the registration of a running *)
(* query away (protocol.rs:178-212).                                       *)
THEOREM RegistrationsAreKept == Spec => []RegisteredUnlessShared
<1>1. Init => RegisteredUnlessShared
  BY DEF Init, RegisteredUnlessShared
<1>2. QED
  BY <1>1, TypeInit, TypeStep, SharedStep, PTL DEF Spec

(* However ids collide and packets are lost, repeated and reordered, a     *)
(* query returns endpoints that were published under the name it asked for *)
(* (protocol.rs:316-340).                                                  *)
THEOREM AnswersAreOwn == Spec => []OwnAnswer
<1>1. OwnInv => OwnAnswer
  BY DEF OwnInv
<1>2. QED
  BY <1>1, TypeInit, TypeStep, OwnInit, OwnStep, PTL DEF Spec

(* A query with an id of its own returns no endpoint that had been         *)
(* withdrawn before it began and was not published again: the records are  *)
(* read after the request was sent (service.rs:165-181).                   *)
THEOREM AnswersAreCurrent == Spec => []NoStaleAnswer
<1> DEFINE Inv == KnownInv /\ QueuedInv /\ HostedInv /\ CurrentInv /\ NoStaleAnswer
<1>1. Init => Inv
  BY ForeignAssumption DEF Init, KnownInv, Known, QueuedInv, HostedInv, CurrentInv, Began,
     NoStaleAnswer, ElementsOf
<1>2. TypeInv /\ RegistrationIsRunning /\ Inv /\ [Next]_vars => Inv'
  BY KnownStep, QueuedStep, HostedStep, CurrentStep, StaleStep
<1>3. Inv => NoStaleAnswer
  OBVIOUS
<1> HIDE DEF Inv
<1>4. QED
  BY <1>1, <1>2, <1>3, TypeInit, TypeStep, RegistrationsAreRunning, PTL DEF Spec
=============================================================================
