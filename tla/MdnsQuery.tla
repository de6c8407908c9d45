----------------------------- MODULE MdnsQuery -----------------------------
(***************************************************************************)
(* Queries and answers of the mDNS instances on one link: the packet       *)
(* router and the query loop of src/src/mdns/protocol.rs, the host records *)
(* and the responder of src/src/mdns/service.rs.  Packets are multicast    *)
(* over UDP; net holds every packet ever sent, and a node may receive any  *)
(* of them, in any order, more than once, or never.                        *)
(***************************************************************************)
EXTENDS Naturals, Sequences

CONSTANTS
  Node,      \* instances on the link, one per host
  Name,      \* local names
  Endpoint,
  Query,     \* calls of MdnsResolver::query
  Id,        \* packet ids; the code draws them from all of u16
  Attempts,  \* how often a query is sent, 3 in the code
  MaxDeque,  \* MAX_DEQUE_SIZE, 64 in the code
  Contains,  \* <<hosted, asked>>: the hosted name contains the asked one
  Foreign,   \* packets of other mDNS software on the link
  None

Records == [Name -> SUBSET Endpoint]
Request == [kind : {"request"}, id : Id, name : Name]
Response == [kind : {"response"}, id : Id, records : Records]

ASSUME QueryAssumption ==
  /\ Id \subseteq Nat /\ MaxDeque \in Nat \ {0} /\ Attempts \in Nat \ {0}
  /\ Contains \subseteq Name \X Name
  /\ \A x \in Name : <<x, x>> \in Contains
  /\ Foreign \subseteq Request \cup Response
  /\ None \notin Query \cup Response \cup Node \cup Name \cup Id

(* Multicast responses of other software have id 0, for which no query is  *)
(* registered.                                                             *)
ASSUME ForeignAssumption == \A m \in Foreign : m.id = 0

VARIABLES
  hosts,      \* the records a node publishes
  net,        \* the packets sent so far
  proto,      \* the node has not been shut down
  route,      \* its route task runs
  responder,  \* its responder task runs
  requests,   \* its queue of requests to answer
  answering,  \* the response its responder is about to broadcast
  queries,    \* its map from packet id to the query that registered it
  pc,         \* where a query is
  at, qid, qname,  \* its node, packet id and name
  attempt,
  packets,    \* its queue of responses
  found,      \* the endpoints it returns
  ever,       \* all endpoints ever published under a name
  stale       \* endpoints that nobody publishes under its name since it began

nodeVars == <<hosts, proto, route, responder, requests, answering>>
queryVars == <<pc, at, qid, qname, attempt, packets, found>>
vars == <<nodeVars, net, queries, queryVars, ever, stale>>

TypeOK ==
  /\ hosts \in [Node -> Records]
  /\ net \subseteq Request \cup Response
  /\ proto \in [Node -> BOOLEAN]
  /\ route \in [Node -> BOOLEAN]
  /\ responder \in [Node -> BOOLEAN]
  /\ requests \in [Node -> Seq(Request)]
  /\ answering \in [Node -> Response \cup {None}]
  /\ queries \in [Node -> [Id \ {0} -> Query \cup {None}]]
  /\ pc \in [Query -> {"idle", "await", "ok", "failed"}]
  /\ at \in [Query -> Node \cup {None}]
  /\ qid \in [Query -> Id \cup {None}]
  /\ qname \in [Query -> Name \cup {None}]
  /\ attempt \in [Query -> 0 .. Attempts]
  /\ packets \in [Query -> Seq(Response)]
  /\ found \in [Query -> SUBSET Endpoint]
  /\ ever \in Records
  /\ stale \in [Query -> SUBSET Endpoint]

Init ==
  /\ hosts = [n \in Node |-> [x \in Name |-> {}]]
  /\ net = Foreign
  /\ proto = [n \in Node |-> TRUE]
  /\ route = [n \in Node |-> TRUE]
  /\ responder = [n \in Node |-> TRUE]
  /\ requests = [n \in Node |-> <<>>]
  /\ answering = [n \in Node |-> None]
  /\ queries = [n \in Node |-> [i \in Id \ {0} |-> None]]
  /\ pc = [q \in Query |-> "idle"]
  /\ at = [q \in Query |-> None]
  /\ qid = [q \in Query |-> None]
  /\ qname = [q \in Query |-> None]
  /\ attempt = [q \in Query |-> 0]
  /\ packets = [q \in Query |-> <<>>]
  /\ found = [q \in Query |-> {}]
  /\ ever = [x \in Name |-> {}]
  /\ stale = [q \in Query |-> {}]

-----------------------------------------------------------------------------
(* Publishing: publish_endpoints without endpoints is remove_name. *)

Published(x) == UNION {hosts[n][x] : n \in Node}

Publish(n, x, eps) ==
  /\ hosts' = [hosts EXCEPT ![n][x] = eps]
  /\ ever' = [ever EXCEPT ![x] = @ \cup eps]
  /\ stale' = [q \in Query |-> IF qname[q] = x THEN stale[q] \ eps ELSE stale[q]]
  /\ UNCHANGED <<net, proto, route, responder, requests, answering, queries, queryVars>>

-----------------------------------------------------------------------------
(* query *)

(* The router lives while the route task or a query refers to it, or the   *)
(* responder waits for a request.                                          *)
Asking(n) == \E q \in Query : pc[q] = "await" /\ at[q] = n
Router(n) == route[n] \/ Asking(n) \/ (responder[n] /\ answering[n] = None)

(* The random id may be in use already, by this node or by another: the    *)
(* registration then replaces the earlier one, whose sender is dropped.    *)
Ask(q, n, x, i) ==
  /\ pc[q] = "idle"
  /\ \/ /\ proto[n] /\ Router(n) /\ i # 0
        /\ pc' = [pc EXCEPT ![q] = "await"]
        /\ queries' = [queries EXCEPT ![n][i] = q]
     \/ /\ ~proto[n] \/ ~Router(n) \/ i = 0
        /\ pc' = [pc EXCEPT ![q] = "failed"]
        /\ UNCHANGED queries
  /\ at' = [at EXCEPT ![q] = n]
  /\ qid' = [qid EXCEPT ![q] = i]
  /\ qname' = [qname EXCEPT ![q] = x]
  /\ attempt' = [attempt EXCEPT ![q] = 1]
  /\ stale' = [stale EXCEPT ![q] = Endpoint \ Published(x)]
  /\ UNCHANGED <<nodeVars, net, packets, found, ever>>

(* A spawned broadcast runs: every attempt sends the same packet, and the  *)
(* broadcasts that have not run are aborted when the query ends.           *)
Broadcast(q) ==
  /\ pc[q] = "await"
  /\ net' = net \cup {[kind |-> "request", id |-> qid[q], name |-> qname[q]]}
  /\ UNCHANGED <<nodeVars, queries, queryVars, ever, stale>>

LeaveRegistered(q) == queries' = queries  \* mutant: Responses has no Drop
UnregisterAll(q) ==                       \* mutant: the map is cleared
  queries' = [queries EXCEPT ![at[q]] = [i \in Id \ {0} |-> None]]

(* Drop for Responses removes the id, whoever registered it last. *)
Unregister(q) == queries' = [queries EXCEPT ![at[q]][qid[q]] = None]

End(q, s) ==
  /\ pc' = [pc EXCEPT ![q] = s]
  /\ Unregister(q)

AgainIf(q, more) ==
  \/ /\ more
     /\ attempt' = [attempt EXCEPT ![q] = @ + 1]
     /\ UNCHANGED <<pc, queries>>
  \/ /\ ~more
     /\ End(q, "failed")
     /\ UNCHANGED attempt

(* The next attempt, or io::ErrorKind::TimedOut. *)
Again(q) == AgainIf(q, attempt[q] < Attempts)

AnyAnswers(q, m) == UNION {m.records[x] : x \in Name}  \* mutant: names not compared

Answers(q, m) == m.records[qname[q]]

NextPacketOr(q, retry) ==
  LET m == Head(packets[q]) IN
  /\ pc[q] = "await" /\ packets[q] # <<>>
  /\ packets' = [packets EXCEPT ![q] = Tail(@)]
  /\ \/ /\ Answers(q, m) # {}
        /\ found' = [found EXCEPT ![q] = Answers(q, m)]
        /\ End(q, "ok")
        /\ UNCHANGED attempt
     \/ /\ Answers(q, m) = {}
        /\ retry
        /\ UNCHANGED found
  /\ UNCHANGED <<nodeVars, net, at, qid, qname, ever, stale>>

NextPacketFree(q) ==  \* mutant: an unusable response costs no attempt
  NextPacketOr(q, UNCHANGED <<attempt, pc, queries>>)

(* A response without a record for the name asked uses up the attempt. *)
NextPacket(q) == NextPacketOr(q, Again(q))

(* Nothing for 300 ms; or the sender was dropped, and the stream is over.  *)
NoPacket(q) ==
  /\ pc[q] = "await" /\ packets[q] = <<>>
  /\ Again(q)
  /\ UNCHANGED <<nodeVars, net, at, qid, qname, packets, found, ever, stale>>

CancelQuery(q) ==
  /\ pc[q] = "await"
  /\ End(q, "failed")
  /\ UNCHANGED <<nodeVars, net, at, qid, qname, attempt, packets, found, ever, stale>>
-----------------------------------------------------------------------------
(* The route task *)

(* deliver: of the responses the newest is dropped when the queue of a     *)
(* receiver is full, of the requests the oldest.                           *)
ReceiveFor(n, m, receivers) ==
  /\ route[n] /\ m \in net
  /\ \/ /\ m.kind = "response"
        /\ \E q \in receivers :
             /\ Len(packets[q]) < MaxDeque
             /\ packets' = [packets EXCEPT ![q] = Append(@, m)]
        /\ UNCHANGED requests
     \/ /\ m.kind = "request"
        /\ requests' = [requests EXCEPT ![n] =
                          Append(IF Len(@) < MaxDeque THEN @ ELSE Tail(@), m)]
        /\ UNCHANGED packets
  /\ UNCHANGED <<hosts, net, proto, route, responder, answering, queries,
                 pc, at, qid, qname, attempt, found, ever, stale>>

ReceiveAny(n, m) ==  \* mutant: the id is not looked at
  ReceiveFor(n, m, {q \in Query : pc[q] = "await" /\ at[q] = n})

(* Responses go to the query registered for their id; 0 never is. *)
Receive(n, m) ==
  ReceiveFor(n, m, {q \in Query : m.id # 0 /\ queries[n][m.id] = q})

(* A socket error ends the route task; the instance is not told. *)
RouteFails(n) ==
  /\ route[n]
  /\ route' = [route EXCEPT ![n] = FALSE]
  /\ UNCHANGED <<hosts, net, proto, responder, requests, answering,
                 queries, queryVars, ever, stale>>

-----------------------------------------------------------------------------
(* The responder *)

(* Back in receive_query, which fails and ends the task if the router is gone. *)
AwaitRequest(n) == responder' = [responder EXCEPT ![n] = route[n] \/ Asking(n)]

(* Under the lock of the records: if the name asked occurs inside one of   *)
(* the names published, all records of the node make up the answer.        *)
Respond(n) ==
  LET m == Head(requests[n])
      asked == \E x \in Name : hosts[n][x] # {} /\ <<x, m.name>> \in Contains IN
  /\ responder[n] /\ requests[n] # <<>> /\ answering[n] = None
  /\ requests' = [requests EXCEPT ![n] = Tail(@)]
  /\ \/ /\ asked
        /\ answering' = [answering EXCEPT ![n] =
                           [kind |-> "response", id |-> m.id, records |-> hosts[n]]]
        /\ UNCHANGED responder
     \/ /\ ~asked
        /\ AwaitRequest(n)
        /\ UNCHANGED answering
  /\ UNCHANGED <<hosts, net, proto, route, queries, queryVars, ever, stale>>

(* The broadcast happens after the lock is released. *)
SendAnswer(n) ==
  /\ answering[n] # None
  /\ net' = net \cup {answering[n]}
  /\ answering' = [answering EXCEPT ![n] = None]
  /\ AwaitRequest(n)
  /\ UNCHANGED <<hosts, proto, route, requests, queries, queryVars, ever, stale>>

(* shutdown_tasks takes the protocol and aborts both tasks.  Queries that  *)
(* run keep the router alive, and go on until they time out.               *)
Shutdown(n) ==
  /\ proto[n]
  /\ proto' = [proto EXCEPT ![n] = FALSE]
  /\ route' = [route EXCEPT ![n] = FALSE]
  /\ responder' = [responder EXCEPT ![n] = FALSE]
  /\ requests' = [requests EXCEPT ![n] = <<>>]
  /\ answering' = [answering EXCEPT ![n] = None]
  /\ UNCHANGED <<hosts, net, queries, queryVars, ever, stale>>

QueryStep(q) == NextPacket(q) \/ NoPacket(q)

Next ==
  \/ \E n \in Node, x \in Name, eps \in SUBSET Endpoint : Publish(n, x, eps)
  \/ \E q \in Query, n \in Node, x \in Name, i \in Id : Ask(q, n, x, i)
  \/ \E q \in Query : Broadcast(q) \/ QueryStep(q) \/ CancelQuery(q)
  \/ \E n \in Node, m \in net : Receive(n, m)
  \/ \E n \in Node : Respond(n) \/ SendAnswer(n) \/ RouteFails(n) \/ Shutdown(n)

Spec == Init /\ [][Next]_vars

(* The runtime polls the query: a response is there, or 300 ms pass. *)
FairSpec == Spec /\ \A q \in Query : WF_vars(QueryStep(q))

-----------------------------------------------------------------------------
(* Properties *)

(* Another query, of any node, drew the same id. *)
Shared(q) == \E p \in Query \ {q} : qid[p] = qid[q]

(* Whatever ids collide and however packets are delayed, a query returns   *)
(* only endpoints that some node published under the name it asked for     *)
(* (protocol.rs:316-340).                                                  *)
OwnAnswer == \A q \in Query : pc[q] = "ok" => found[q] \subseteq ever[qname[q]]

(* An id is registered only for a query that runs: ended and cancelled     *)
(* queries leave nothing behind (protocol.rs:199-205).                     *)
RegistrationIsRunning ==
  \A n \in Node : \A i \in Id \ {0} : \A q \in Query :
    queries[n][i] = q => pc[q] = "await" /\ at[q] = n /\ qid[q] = i

(* A running query loses its registration only to one with the same id.    *)
RegisteredUnlessShared ==
  \A q \in Query : pc[q] = "await" => queries[at[q]][qid[q]] = q \/ Shared(q)

(* Records withdrawn before the query began, and not published again, are  *)
(* never its answer, unless ids collide: the responder reads the records   *)
(* after the request was sent (service.rs:165-181).                        *)
NoStaleAnswer == \A q \in Query : pc[q] = "ok" => found[q] \cap stale[q] = {} \/ Shared(q)

(* Every query ends, even in a flood of responses for other names.         *)
QueriesEnd == \A q \in Query : pc[q] = "await" ~> pc[q] # "await"
=============================================================================
