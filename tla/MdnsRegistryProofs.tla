------------------------- MODULE MdnsRegistryProofs -------------------------
(***************************************************************************)
(* Proofs of what MdnsResolverSet promises its callers: no instance lives  *)
(* that nobody tracks, and a closed set comes to rest; to one that         *)
(* serializes its calls, reconcile converges; to all, the set implements   *)
(* MdnsRegistry, and the handles it gives out are of the map.              *)
(***************************************************************************)
EXTENDS MdnsResolverSetProofs

-----------------------------------------------------------------------------
(* Who may stop an instance *)

(* No step loses track of a live instance: the map hands it to the call    *)
(* that takes it out, and a call lets go of it only by stopping it.        *)
LEMMA OwnStep == TypeOK /\ LocalInv /\ OwnInv /\ [Next]_vars => OwnInv'
<1> DEFINE Lost == "cancel" \in Ops /\ closed
<1> SUFFICES ASSUME TypeOK, LocalInv, OwnInv, [Next]_vars, NEW i \in Instance, Live(i)'
             PROVE  i \in Registered' \/ Owned(i)' \/ Lost'
  BY DEF OwnInv
<1> USE DEF Goto, Finish
<1>1. CASE ~Live(i)
  <2>1. PICK t \in Task : Bind(t) /\ proto[i] = "free" /\ obj'[t] = i
    BY <1>1, OnlyBindStarts
  <2>2. pc'[t] = "insert"
    BY Zenon, <1>1, <2>1 DEF Bind, Live, TypeOK
  <2>3. QED
    BY <2>1, <2>2 DEF Owned
<1>2. ASSUME Live(i), NEW t \in Task, Start(t) \/ Step(t) \/ Cancel(t)
      PROVE  i \in Registered' \/ Owned(i)' \/ Lost'
  <2>1. closed => closed'
    BY Zenon, <1>2, MapWriters DEF Close
  <2>2. CASE i \in Registered
    <3>1. CASE Take(t)
      BY <2>2, <3>1, ConstantsAssumption DEF Take, TakeLeaving, Registered, Owned, TypeOK
    <3>2. CASE Drain(t)
      BY <2>2, <3>2 DEF Drain, Registered, Owned, TypeOK
    <3>3. CASE Insert(t)
      BY <2>2, <3>3, ConstantsAssumption DEF Insert, InsertIf, Registered, TypeOK
    <3>4. CASE ~Take(t) /\ ~Drain(t) /\ ~Insert(t)
      BY <1>2, <2>2, <3>4, MapWriters DEF Registered
    <3>5. QED
      BY <3>1, <3>2, <3>3, <3>4
  <2>3. CASE Owned(i)
    <3>1. PICK u \in Task : \/ obj[u] = i /\ pc[u] \in {"insert", "lose", "retired"}
                            \/ i \in drained[u]
      BY <2>3 DEF Owned
    <3>2. i \in drained[u] => pc[u] \in {"next_drained", "drained_join"} /\ closed
      BY DEF LocalInv, LocalOK
    <3>3. CASE u # t
      <4>1. Same(u)
        <5>1. Same(u) \/ Spawned(u)
          BY Zenon, <1>2, <3>3, Frame
        <5>2. QED
          BY <3>1, <3>2, <5>1 DEF Spawned
      <4>2. QED
        BY <3>1, <4>1 DEF Same, Owned
    <3>4. CASE u = t
      <4>1. CASE Cancel(t)
        BY <2>1, <3>1, <3>2, <3>4, <4>1 DEF Cancel
      <4>2. CASE obj[t] = i /\ Step(t) /\ pc[t] = "insert"
        <5>1. Insert(t)
          BY <4>2, StepOf
        <5>2. binding[t] \in Binding
          BY <4>2 DEF LocalInv, LocalOK, UpsertLabels
        <5>3. QED
          BY <4>2, <5>1, <5>2 DEF Insert, InsertIf, Registered, Owned, TypeOK
      <4>3. CASE obj[t] = i /\ Step(t) /\ pc[t] \in {"lose", "retired"}
        <5>1. Lose(t) \/ Retired(t)
          BY Zenon, <4>3, StepOf
        <5>2. ~Live(i)'
          BY <1>2, <4>3, <5>1 DEF Lose, Retired, Settle, Aborted, Live, TypeOK
        <5>3. QED
          BY <5>2
      <4>4. CASE i \in drained[t] /\ Step(t)
        <5>1. NextDrained(t) \/ SkipDrained(t) \/ DrainedJoin(t)
          BY <3>2, <3>4, <4>4, StepOf
        <5>2. i \in drained'[t]
          BY <1>2, <4>4, <5>1 DEF NextDrained, SkipDrained, DrainedJoin, Aborted, Live, TypeOK
        <5>3. QED
          BY <5>2 DEF Owned
      <4>5. ~Start(t)
        BY Zenon, <3>1, <3>2, <3>4 DEF Start, CallUpsert, Begin, CallRemove, CallReconcile, CallMaintain,
           CallShutdown, CallStop
      <4>6. QED
        BY <1>2, <3>1, <3>4, <4>1, <4>2, <4>3, <4>4, <4>5
    <3>5. QED
      BY <3>3, <3>4
  <2>4. QED
    BY <1>2, <2>1, <2>2, <2>3 DEF OwnInv
<1>3. CASE \/ HoldSnapshot \/ InterfacesChange \/ UNCHANGED vars
           \/ \E j \in Instance : DropHandle(j) \/ RouteEnds(j) \/ TasksExit(j)
  <2>1. /\ UNCHANGED <<resolvers, closed, pc, call, obj, drained>>
        /\ \A j \in Instance : Live(j)' => Live(j)
    <3>1. CASE HoldSnapshot \/ InterfacesChange \/ UNCHANGED vars
      BY <3>1 DEF HoldSnapshot, InterfacesChange, Live, vars, taskVars
    <3>2. CASE \E j \in Instance : DropHandle(j)
      BY <3>2 DEF DropHandle, Settle, Live, taskVars
    <3>3. CASE \E j \in Instance : RouteEnds(j) \/ TasksExit(j)
      BY <3>3 DEF RouteEnds, TasksExit, Live, taskVars, TypeOK
    <3>4. QED
      BY <1>3, <3>1, <3>2, <3>3
  <2>2. QED
    BY <2>1 DEF OwnInv, Registered, Owned, Live
<1>4. QED
  BY <1>1, <1>2, <1>3 DEF Next

(* No step inserts into a closed map, or reopens it. *)
LEMMA EmptyStep ==
  TypeOK /\ LocalInv /\ ClosedStaysEmpty /\ [Next]_vars => ClosedStaysEmpty'
<1> SUFFICES ASSUME TypeOK, LocalInv, ClosedStaysEmpty, [Next]_vars PROVE ClosedStaysEmpty'
  OBVIOUS
<1> DEFINE Idle == /\ UNCHANGED <<resolvers, closed>>
                   /\ \A u \in Task : pc[u] = "drain" => pc'[u] = "drain"
<1>0. Idle => ClosedStaysEmpty'
  BY DEF ClosedStaysEmpty, Closing, Registered
<1> USE DEF TypeOK, Goto, Finish
<1>1. ASSUME NEW t \in Task, Start(t) PROVE Idle
  BY <1>1 DEF Start, CallUpsert, Begin, CallRemove, CallReconcile, CallMaintain, CallShutdown,
     CallStop
<1>2. ASSUME NEW t \in Task, Step(t) PROVE ClosedStaysEmpty'
  <2>1. CASE UpsertClosed(t) \/ UpsertGet(t) \/ Bind(t) \/ Lose(t) \/ LoseJoin(t)
    <3>1. Idle
      BY Zenon, <2>1 DEF UpsertClosed, UpsertGet, Bind, Lose, LoseJoin, LoseJoinIf
    <3>2. QED
      BY <1>0, <3>1
  <2>2. CASE Retired(t) \/ RetiredJoin(t) \/ NextDrained(t) \/ SkipDrained(t) \/ DrainedJoin(t)
             \/ Stop(t) \/ StopJoin(t)
    <3>1. Idle
      BY Zenon, <2>2 DEF Retired, RetiredJoin, RemoveReturns, NextDrained, SkipDrained, DrainedJoin,
         Stop, StopJoin
    <3>2. QED
      BY <1>0, <3>1
  <2>3. CASE Snapshot(t) \/ Retire(t) \/ SkipDesired(t) \/ Ensure(t) \/ Tick(t)
    <3>1. Idle
      BY <2>3 DEF Snapshot, Retire, RetireFrom, SkipDesired, Ensure, IdleMaintainers, Tick,
         TickFor, Task
    <3>2. QED
      BY <1>0, <3>1
  <2>4. CASE Insert(t)
    <3>1. CASE closed
      <4>1. Idle
        BY <2>4, <3>1 DEF Insert, InsertIf
      <4>2. QED
        BY <1>0, <4>1
    <3>2. CASE ~closed
      BY <2>4, <3>2 DEF Insert, InsertIf, ClosedStaysEmpty
    <3>3. QED
      BY <3>1, <3>2
  <2>5. CASE Take(t)
    <3>1. \A u \in Task : pc[u] = "drain" => pc'[u] = "drain"
      BY <2>5 DEF Take, TakeLeaving, RemoveReturns
    <3>2. Registered' \subseteq Registered /\ closed' = closed
      BY <2>5, ConstantsAssumption DEF Take, TakeLeaving, Registered,
         LocalInv, LocalOK, RemoveLabels
    <3>3. QED
      BY <3>1, <3>2 DEF ClosedStaysEmpty, Closing
  <2>6. CASE Close(t)
    BY <2>6 DEF Close, ClosedStaysEmpty, Closing
  <2>7. CASE Drain(t)
    BY <2>7, ConstantsAssumption DEF Drain, ClosedStaysEmpty, Registered
  <2>8. QED
    BY <1>2, <2>1, <2>2, <2>3, <2>4, <2>5, <2>6, <2>7 DEF Step
<1>3. ASSUME NEW t \in Task, Cancel(t) PROVE Idle
  BY <1>3 DEF Cancel
<1>4. ASSUME NEW i \in Instance, DropHandle(i) \/ RouteEnds(i) \/ TasksExit(i) PROVE Idle
  BY <1>4 DEF DropHandle, RouteEnds, TasksExit, taskVars
<1>5. CASE HoldSnapshot \/ InterfacesChange \/ UNCHANGED vars
  BY <1>5, <1>0 DEF HoldSnapshot, InterfacesChange, vars, taskVars
<1>6. QED
  BY <1>0, <1>1, <1>2, <1>3, <1>4, <1>5 DEF Next

(* Everything above holds initially. *)
LEMMA InitInv ==
  Init => TypeOK /\ LocalInv /\ HeldInv /\ JoinInv /\ OwnInv /\ ClosedStaysEmpty
<1> SUFFICES ASSUME Init
             PROVE TypeOK /\ LocalInv /\ HeldInv /\ JoinInv /\ OwnInv /\ ClosedStaysEmpty
  OBVIOUS
<1> USE ConstantsAssumption DEF Init
<1>1. TypeOK
  BY Zenon DEF TypeOK, Labels, Calls, ProtoStates
<1>2. LocalInv
  BY DEF LocalInv, LocalOK, UpsertLabels, RemoveLabels, WithObj
<1>3. HeldInv
  BY DEF HeldInv, Held
<1>4. JoinInv /\ OwnInv /\ ClosedStaysEmpty
  BY DEF JoinInv, JoinLabels, OwnInv, Live, ClosedStaysEmpty
<1>5. QED
  BY <1>1, <1>2, <1>3, <1>4

(* Together they are an inductive invariant. *)
LEMMA Invariance ==
  Spec => [](TypeOK /\ LocalInv /\ HeldInv /\ JoinInv /\ OwnInv /\ ClosedStaysEmpty)
<1> DEFINE Inv == TypeOK /\ LocalInv /\ HeldInv /\ JoinInv /\ OwnInv /\ ClosedStaysEmpty
<1>1. Inv /\ [Next]_vars => Inv'
  BY TypeStep, LocalStep, HeldStep, JoinStep, OwnStep, EmptyStep
<1>2. Init => Inv
  BY InitInv
<1> HIDE DEF Inv
<1>3. Spec => []Inv
  BY <1>1, <1>2, PTL DEF Spec
<1>4. QED
  BY <1>3 DEF Inv

(* The state stays in the types that TypeOK gives it (mdns.rs:256-260).    *)
THEOREM TypeCorrect == Spec => []TypeOK
  BY Invariance, PTL

(* Once shutdown has drained the map it stays empty, whatever upserts were *)
(* in flight (mdns.rs:296-313, 423-432).                                   *)
THEOREM ClosedMapStaysEmpty == Spec => []ClosedStaysEmpty
  BY Invariance, PTL

(* With cancelled calls, only a shutdown leaves a live instance that       *)
(* neither the map nor a call tracks (mdns.rs:329-341, 423-440).           *)
THEOREM UnownedNeedsClose == Spec => []UnownedOnlyAfterClose
<1>1. OwnInv => UnownedOnlyAfterClose
  BY DEF OwnInv, UnownedOnlyAfterClose
<1>2. QED
  BY <1>1, Invariance, PTL

(* Where no call is cancelled, every live instance is in the map or in the *)
(* hands of a call that will insert or stop it (mdns.rs:274-341, 423-440). *)
THEOREM NoLiveOrphan == "cancel" \notin Ops /\ Spec => []LiveIsOwned
<1>1. ASSUME "cancel" \notin Ops PROVE OwnInv => LiveIsOwned
  BY <1>1 DEF OwnInv, LiveIsOwned
<1>2. ASSUME "cancel" \notin Ops PROVE Spec => []LiveIsOwned
  BY <1>1, <1>2, Invariance, PTL
<1>3. QED
  BY <1>2

(* Where no call is cancelled, after shutdown a set without running calls  *)
(* has no instance that was not stopped (mdns.rs:423-440,                  *)
(* mdns/service.rs:123-140).                                               *)
THEOREM ShutdownQuiesces == "cancel" \notin Ops /\ Spec => []QuiescentAfterShutdown
<1>1. ASSUME "cancel" \notin Ops
      PROVE LocalInv /\ OwnInv /\ ClosedStaysEmpty => QuiescentAfterShutdown
  BY <1>1 DEF LocalInv, LocalOK, OwnInv, ClosedStaysEmpty, Closing, QuiescentAfterShutdown, Owned
<1>2. ASSUME "cancel" \notin Ops PROVE Spec => []QuiescentAfterShutdown
  BY <1>1, <1>2, Invariance, PTL
<1>3. QED
  BY <1>2

-----------------------------------------------------------------------------
(* What the refinement rests on. *)

(* The instance of a binding was bound for it. *)
KeyInv == \A b \in Binding : resolvers[b] # None => bound(resolvers[b]) = b

(* Between bind and insert, a candidate is known to its upsert alone, *)
Candidate(t) == pc[t] \in {"insert", "lose"}
Unknown(i, t) ==
  /\ i \notin handles
  /\ \A b \in Binding : resolvers[b] # i
  /\ \A u \in Task : /\ u # t => obj[u] # i
                     /\ race[u] # i /\ i \notin snap[u] /\ i \notin drained[u]

(* and so nobody else can have stopped it. *)
FreshInv ==
  \A t \in Task : Candidate(t) =>
    /\ bound(obj[t]) = binding[t]
    /\ Live(obj[t])
    /\ Unknown(obj[t], t)

(* What remove and shutdown are about to stop has left the map. *)
GoneInv ==
  \A t \in Task, b \in Binding :
    /\ pc[t] = "retired" => resolvers[b] # obj[t]
    /\ resolvers[b] \notin drained[t]

(* What nobody refers to is not live: it was dropped. *)
DropInv == \A i \in Instance : Live(i) => i \in Held

(* MdnsResolver::shutdown is called by the application alone. *)
StopInv == \A t \in Task : pc[t] = "stop" => "stop" \in Ops

(* Only Insert, Take and Drain write the map. *)
LEMMA KeyStep == TypeOK /\ LocalInv /\ KeyInv /\ FreshInv /\ [Next]_vars => KeyInv'
<1> SUFFICES ASSUME TypeOK, LocalInv, KeyInv, FreshInv, [Next]_vars PROVE KeyInv'
  OBVIOUS
<1>0. resolvers \in [Binding -> Instance \cup {None}]
  BY DEF TypeOK
<1>1. UNCHANGED resolvers => KeyInv'
  BY DEF KeyInv
<1>2. ASSUME NEW t \in Task, Insert(t) PROVE KeyInv'
  <2>1. bound(obj[t]) = binding[t]
    BY <1>2 DEF Insert, InsertIf, FreshInv, Candidate
  <2>2. QED
    BY <1>0, <1>2, <2>1 DEF Insert, InsertIf, KeyInv
<1>3. ASSUME NEW t \in Task, Take(t) PROVE KeyInv'
  BY <1>0, <1>3 DEF Take, TakeLeaving, KeyInv
<1>4. ASSUME NEW t \in Task, Drain(t) PROVE KeyInv'
  BY <1>4 DEF Drain, KeyInv
<1>5. ASSUME NEW i \in Instance, DropHandle(i) \/ RouteEnds(i) \/ TasksExit(i)
      PROVE  UNCHANGED resolvers
  BY <1>5 DEF DropHandle, RouteEnds, TasksExit
<1>6. CASE HoldSnapshot \/ InterfacesChange \/ UNCHANGED vars
  BY <1>1, <1>6 DEF HoldSnapshot, InterfacesChange, vars
<1>7. QED
  BY <1>1, <1>2, <1>3, <1>4, <1>5, <1>6, MapWriters DEF Next

(* Nobody gets hold of a candidate but through the map. *)
LEMMA FreshStep ==
  TypeOK /\ LocalInv /\ HeldInv /\ FreshInv /\ [Next]_vars => FreshInv'
<1> SUFFICES ASSUME TypeOK, LocalInv, HeldInv, FreshInv, [Next]_vars,
                    NEW t \in Task, Candidate(t)'
             PROVE  (bound(obj[t]) = binding[t] /\ Live(obj[t]) /\ Unknown(obj[t], t))'
  BY DEF FreshInv
<1>0. /\ pc \in [Task -> Labels] /\ binding \in [Task -> Binding \cup {None}]
      /\ obj \in [Task -> Instance \cup {None}] /\ proto \in [Instance -> ProtoStates]
  BY DEF TypeOK
<1>. PICK i : i = obj[t]
  OBVIOUS
<1>1. ASSUME Candidate(t), obj'[t] = obj[t], binding'[t] = binding[t], Unknown(i, t)'
      PROVE  (bound(obj[t]) = binding[t] /\ Live(obj[t]) /\ Unknown(obj[t], t))'
  <2>1. i \in Instance /\ bound(i) = binding[t] /\ Live(i) /\ Unknown(i, t)
    BY <1>1 DEF FreshInv, Candidate, LocalInv, LocalOK, WithObj
  <2>2. i \in Held'
    BY <1>1, <2>1 DEF Held
  <2>3. ASSUME NEW u \in Task PROVE ~(i \in drained[u]) /\ (obj[u] = i => u = t)
    BY <2>1 DEF Unknown
  <2>4. ~Lose(t) /\ ~Retired(t) /\ ~Stop(t)
    BY <1>0, <1>1 DEF Lose, Retired, Stop, Goto, Candidate
  <2>5. Live(i)'
    BY <2>1, <2>2, <2>3, <2>4, OnlyHolderStops
  <2>6. QED
    BY <1>1, <2>1, <2>5
<1>2. ASSUME NEW u \in Task, u # t, Start(u) \/ Step(u) \/ Cancel(u)
      PROVE  (bound(obj[t]) = binding[t] /\ Live(obj[t]) /\ Unknown(obj[t], t))'
  <2>1. Same(t)
    <3>1. Same(t) \/ Spawned(t)
      BY Zenon, <1>2, Frame
    <3>2. QED
      BY <3>1 DEF Spawned, Candidate
  <2>2. Candidate(t)
    BY <2>1 DEF Same, Candidate
  <2>3. i \in Instance /\ Live(i) /\ Unknown(i, t)
    BY <2>2 DEF FreshInv, Candidate, LocalInv, LocalOK, WithObj
  <2>4. Unknown(i, t)'
    <3>1. CASE Bind(u)
      <4>1. UNCHANGED <<resolvers, handles, race, snap, drained>>
        BY <3>1 DEF Bind
      <4>2. \A v \in Task : obj'[v] = i => obj[v] = i
        BY Zenon, <1>0, <2>3, <3>1 DEF Bind, Live
      <4>3. QED
        BY <2>3, <4>1, <4>2 DEF Unknown
    <3>2. CASE ~Bind(u)
      <4>1. /\ i \notin handles' /\ \A b \in Binding : resolvers'[b] # i
            /\ obj'[u] # i /\ race'[u] # i /\ i \notin snap'[u] /\ i \notin drained'[u]
        <5>1. Sourced(u, i)
          BY <1>2, <2>3, <3>2, Sources
        <5>2. ~Mapped(i)
          BY <2>3 DEF Unknown, Mapped
        <5>3. QED
          BY <1>2, <2>3, <5>1, <5>2 DEF Unknown, Sourced, Inserted
      <4>2. ASSUME NEW v \in Task, v # u
            PROVE  obj'[v] = obj[v] /\ race'[v] = race[v] /\ snap'[v] = snap[v]
                   /\ drained'[v] = drained[v]
        <5>1. Same(v) \/ Spawned(v)
          BY Zenon, <1>2, <4>2, Frame
        <5>2. QED
          BY Zenon, <5>1 DEF Same, Spawned
      <4>3. QED
        BY <2>3, <4>1, <4>2 DEF Unknown
    <3>3. QED
      BY <3>1, <3>2
  <2>5. QED
    BY <1>1, <2>1, <2>2, <2>4 DEF Same
<1>3. ASSUME Start(t) \/ Step(t) \/ Cancel(t)
      PROVE  (bound(obj[t]) = binding[t] /\ Live(obj[t]) /\ Unknown(obj[t], t))'
  <2>1. Bind(t) \/ Insert(t)
    <3>1. ~Start(t) /\ ~Cancel(t)
      BY Zenon, <1>0 DEF Start, CallUpsert, Begin, CallRemove, CallReconcile, CallMaintain, CallShutdown,
         CallStop, Cancel, Finish, Goto, Candidate
    <3>2. /\ ~UpsertClosed(t) /\ ~UpsertGet(t) /\ ~Lose(t) /\ ~LoseJoin(t) /\ ~Take(t)
          /\ ~Retired(t) /\ ~RetiredJoin(t)
      BY Zenon, <1>0 DEF UpsertClosed, UpsertGet, Lose, LoseJoin, LoseJoinIf, AfterUpsert, Take,
         TakeLeaving, Retired, RetiredJoin, RemoveReturns, AfterRemove, Finish, Goto, Candidate
    <3>3. /\ ~Close(t) /\ ~Drain(t) /\ ~NextDrained(t) /\ ~SkipDrained(t) /\ ~DrainedJoin(t)
          /\ ~Stop(t) /\ ~StopJoin(t)
      BY <1>0 DEF Close, Drain, NextDrained, SkipDrained, DrainedJoin, Stop, StopJoin, Goto,
         Candidate
    <3>4. ~Snapshot(t) /\ ~Retire(t) /\ ~SkipDesired(t) /\ ~Tick(t) /\ ~Ensure(t)
      BY Zenon, <1>0 DEF Snapshot, Retire, RetireFrom, SkipDesired, Tick, TickFor, Ensure,
         IdleMaintainers, Task, Goto, Candidate
    <3>5. QED
      BY <1>3, <3>1, <3>2, <3>3, <3>4 DEF Step
  <2>2. ASSUME NEW v \in Task, v # t
        PROVE  obj'[v] = obj[v] /\ race'[v] = race[v] /\ snap'[v] = snap[v]
               /\ drained'[v] = drained[v]
    <3>1. Same(v) \/ Spawned(v)
      BY Zenon, <1>3, <2>2, Frame
    <3>2. QED
      BY Zenon, <3>1 DEF Same, Spawned
  <2>3. CASE Bind(t)
    <3>1. PICK j \in Instance : /\ bound(j) = binding[t] /\ proto[j] = "free"
                                /\ obj' = [obj EXCEPT ![t] = j]
                                /\ proto' = [proto EXCEPT ![j] = "running"]
                                /\ binding' = binding
      BY Zenon, <1>0, <2>3 DEF Bind, Finish, Goto, AfterUpsert, Candidate
    <3>2. obj'[t] = j /\ bound(obj'[t]) = binding'[t] /\ Live(j)'
      BY <1>0, <3>1 DEF Live
    <3>3. j \notin Held
      BY <3>1 DEF HeldInv
    <3>4. UNCHANGED <<resolvers, handles, race, snap, drained>>
      BY <2>3 DEF Bind
    <3>5. Unknown(j, t)'
      BY <2>2, <3>3, <3>4 DEF Held, Unknown
    <3>6. QED
      BY <3>2, <3>5
  <2>4. CASE Insert(t) /\ ~Bind(t)
    <3>1. pc[t] = "insert" /\ obj' = obj /\ binding' = binding
      BY <1>0, <2>4 DEF Insert, InsertIf, Finish, Goto, AfterUpsert, Candidate
    <3>2. Candidate(t) /\ i \in Instance /\ Unknown(i, t)
      BY <3>1 DEF FreshInv, Candidate, LocalInv, LocalOK, WithObj
    <3>3. /\ i \notin handles' /\ \A b \in Binding : resolvers'[b] # i
          /\ race'[t] # i /\ i \notin snap'[t] /\ i \notin drained'[t]
      <4>1. obj'[t] # None
        BY <3>1, <3>2, ConstantsAssumption
      <4>2. Sourced(t, i)
        BY <1>3, <2>4, <3>2, Sources
      <4>3. ~Mapped(i)
        BY <3>2 DEF Unknown, Mapped
      <4>4. QED
        BY Zenon, <3>2, <4>1, <4>2, <4>3 DEF Unknown, Sourced, Inserted
    <3>4. Unknown(i, t)'
      BY <2>2, <3>1, <3>2, <3>3 DEF Unknown
    <3>5. QED
      BY <1>1, <3>1, <3>2, <3>4
  <2>5. QED
    BY <2>1, <2>3, <2>4
<1>4. CASE \/ HoldSnapshot \/ InterfacesChange \/ UNCHANGED vars
           \/ \E j \in Instance : DropHandle(j) \/ RouteEnds(j) \/ TasksExit(j)
  <2>1. UNCHANGED <<resolvers, taskVars>> /\ handles' \subseteq handles \cup Registered
    BY <1>4 DEF HoldSnapshot, InterfacesChange, DropHandle, RouteEnds, TasksExit, vars
  <2>2. Candidate(t) /\ Unknown(i, t)
    BY Zenon, <2>1 DEF FreshInv, Candidate, taskVars
  <2>3. Unknown(i, t)'
    BY <2>1, <2>2 DEF Unknown, Registered, taskVars
  <2>4. QED
    BY Zenon, <1>1, <2>1, <2>2, <2>3 DEF taskVars
<1>5. QED
  BY <1>2, <1>3, <1>4 DEF Next

(* Nothing that left the map comes back: only candidates are inserted. *)
LEMMA GoneStep ==
  TypeOK /\ LocalInv /\ KeyInv /\ FreshInv /\ GoneInv /\ [Next]_vars => GoneInv'
<1> SUFFICES ASSUME TypeOK, LocalInv, KeyInv, FreshInv, GoneInv, [Next]_vars,
                    NEW t \in Task, NEW b \in Binding
             PROVE  /\ pc'[t] = "retired" => resolvers'[b] # obj'[t]
                    /\ resolvers'[b] \notin drained'[t]
  BY DEF GoneInv
<1>0. /\ pc \in [Task -> Labels] /\ resolvers \in [Binding -> Instance \cup {None}]
      /\ obj \in [Task -> Instance \cup {None}] /\ drained \in [Task -> SUBSET Instance]
  BY DEF TypeOK
<1>1. ASSUME NEW u \in Task, Start(u) \/ Step(u) \/ Cancel(u), NEW i \in Instance,
             resolvers'[b] = i, resolvers[b] # i
      PROVE  Insert(u) /\ obj[u] = i /\ Unknown(i, u)
  <2>1. Insert(u) /\ obj[u] = i
    <3>1. CASE Bind(u)
      BY <1>1, <3>1 DEF Bind
    <3>2. CASE ~Bind(u)
      <4>1. Sourced(u, i)
        BY <1>1, <3>2, Sources
      <4>2. QED
        BY <1>1, <4>1 DEF Sourced, Inserted
    <3>3. QED
      BY <3>1, <3>2
  <2>2. QED
    BY <2>1 DEF FreshInv, Candidate, Insert, InsertIf
<1>2. ASSUME pc[t] = "retired", obj'[t] = obj[t],
             NEW u \in Task, Start(u) \/ Step(u) \/ Cancel(u)
      PROVE  resolvers'[b] # obj'[t]
  <2>1. obj[t] \in Instance /\ resolvers[b] # obj[t]
    BY <1>2 DEF LocalInv, LocalOK, WithObj, GoneInv
  <2>2. Insert(u) => u # t
    BY <1>2 DEF Insert, InsertIf
  <2>3. QED
    BY <1>1, <1>2, <2>1, <2>2 DEF Unknown
<1>3. ASSUME NEW i \in Instance, i \in drained[t],
             NEW u \in Task, Start(u) \/ Step(u) \/ Cancel(u)
      PROVE  resolvers'[b] # i
  <2>1. resolvers[b] # i
    BY <1>3 DEF GoneInv
  <2>2. QED
    BY <1>1, <1>3, <2>1 DEF Unknown
<1>4. ASSUME NEW u \in Task, u # t, Start(u) \/ Step(u) \/ Cancel(u)
      PROVE  /\ pc'[t] = "retired" => resolvers'[b] # obj'[t]
             /\ resolvers'[b] \notin drained'[t]
  <2>1. drained'[t] = drained[t] /\ (pc'[t] = "retired" => pc[t] = "retired" /\ obj'[t] = obj[t])
    <3>1. Same(t) \/ Spawned(t)
      BY Zenon, <1>4, Frame
    <3>2. QED
      BY <3>1 DEF Same, Spawned
  <2>2. QED
    BY <1>0, <1>2, <1>3, <1>4, <2>1
<1>5. ASSUME Start(t) \/ Step(t) \/ Cancel(t), resolvers'[b] \in drained'[t]
      PROVE  FALSE
  <2>1. ~Bind(t)
    BY Zenon, <1>5 DEF Bind, GoneInv
  <2>2. PICK i : i = resolvers'[b]
    OBVIOUS
  <2>3. i \in Instance
    BY <1>5, <2>2, TypeStep DEF TypeOK
  <2>4. CASE i \in drained[t]
    BY <1>3, <1>5, <2>2, <2>3, <2>4
  <2>5. CASE Drain(t)
    BY <2>2, <2>3, <2>5, ConstantsAssumption DEF Drain
  <2>6. Sourced(t, i)
    BY <1>5, <2>1, <2>3, Sources
  <2>7. QED
    BY <1>5, <2>2, <2>4, <2>5, <2>6 DEF Sourced
<1>6. ASSUME Start(t) \/ Step(t) \/ Cancel(t), pc'[t] = "retired"
      PROVE  resolvers'[b] # obj'[t]
  <2>1. Take(t)
    <3>1. ~Start(t) /\ ~Cancel(t)
      BY Zenon, <1>0, <1>6 DEF Start, CallUpsert, Begin, CallRemove, CallReconcile, CallMaintain,
         CallShutdown, CallStop, Cancel, Finish, Goto
    <3>2. /\ ~UpsertClosed(t) /\ ~UpsertGet(t) /\ ~Bind(t) /\ ~Insert(t) /\ ~Lose(t)
          /\ ~LoseJoin(t) /\ ~Retired(t) /\ ~RetiredJoin(t)
      BY Zenon, <1>0, <1>6 DEF UpsertClosed, UpsertGet, Bind, Insert, InsertIf, Lose, LoseJoin,
         LoseJoinIf, AfterUpsert, Retired, RetiredJoin, RemoveReturns, AfterRemove, Finish, Goto
    <3>3. /\ ~Close(t) /\ ~Drain(t) /\ ~NextDrained(t) /\ ~SkipDrained(t) /\ ~DrainedJoin(t)
          /\ ~Stop(t) /\ ~StopJoin(t)
      BY Zenon, <1>0, <1>6 DEF Close, Drain, NextDrained, SkipDrained, DrainedJoin, Stop, StopJoin, Goto
    <3>4. ~Snapshot(t) /\ ~Retire(t) /\ ~SkipDesired(t) /\ ~Tick(t) /\ ~Ensure(t)
      BY Zenon, <1>0, <1>6 DEF Snapshot, Retire, RetireFrom, SkipDesired, Tick, TickFor, Ensure,
         IdleMaintainers, Task, Goto
    <3>5. QED
      BY <1>6, <3>1, <3>2, <3>3, <3>4 DEF Step
  <2>2. binding[t] \in Binding
    BY Zenon, <2>1 DEF Take, TakeLeaving, LocalInv, LocalOK, RemoveLabels
  <2>3. /\ obj'[t] = resolvers[binding[t]] /\ resolvers[binding[t]] # None
        /\ resolvers' = [resolvers EXCEPT ![binding[t]] = None]
    BY <1>0, <1>6, <2>1 DEF Take, TakeLeaving, RemoveReturns, AfterRemove, Finish, Goto
  <2>4. QED
    BY <1>0, <2>2, <2>3 DEF KeyInv
<1>7. CASE \/ HoldSnapshot \/ InterfacesChange \/ UNCHANGED vars
           \/ \E i \in Instance : DropHandle(i) \/ RouteEnds(i) \/ TasksExit(i)
  BY <1>7 DEF HoldSnapshot, InterfacesChange, DropHandle, RouteEnds, TasksExit, vars, taskVars, GoneInv
<1>8. QED
  BY <1>4, <1>5, <1>6, <1>7 DEF Next

(* A step that releases a reference also settles what becomes of it. *)
LEMMA DropStep == TypeOK /\ LocalInv /\ DropInv /\ [Next]_vars => DropInv'
<1> SUFFICES ASSUME TypeOK, LocalInv, DropInv, [Next]_vars, NEW i \in Instance, Live(i)'
             PROVE  i \in Held'
  BY DEF DropInv
<1>0. /\ resolvers \in [Binding -> Instance \cup {None}]
      /\ obj \in [Task -> Instance \cup {None}] /\ race \in [Task -> Instance \cup {None}]
      /\ snap \in [Task -> SUBSET Instance] /\ drained \in [Task -> SUBSET Instance]
      /\ proto \in [Instance -> ProtoStates]
  BY DEF TypeOK
<1>1. ASSUME NEW p, Settle(p) PROVE i \in Held'
  BY <1>1 DEF Settle, Live
<1>2. CASE ~Live(i)
  BY <1>2, OnlyBindStarts DEF Held
<1>3. ASSUME NEW t \in Task, Start(t) \/ Step(t) \/ Cancel(t), Live(i), ~\E p : Settle(p)
      PROVE  i \in Held'
  <2>1. i \in Held
    BY <1>3 DEF DropInv
  <2>2. CASE \E b \in Binding : resolvers[b] = i
    <3>1. PICK b \in Binding : resolvers[b] = i
      BY <2>2
    <3>2. Drain(t) => i \in drained'[t]
      BY <1>0, <3>1 DEF Drain, Registered
    <3>3. Insert(t) => resolvers'[b] = i
      BY <1>0, <3>1, ConstantsAssumption DEF Insert, InsertIf
    <3>4. ~Take(t)
      BY <1>3, Releasers
    <3>5. QED
      BY <1>3, <3>1, <3>2, <3>3, <3>4, MapWriters DEF Held
  <2>3. CASE i \in handles
    BY <1>3, <2>3, Releasers DEF Held
  <2>4. ASSUME NEW u \in Task, u # t,
               obj[u] = i \/ race[u] = i \/ i \in snap[u] \/ i \in drained[u]
        PROVE  i \in Held'
    <3>1. Same(u) \/ Spawned(u)
      BY <1>3, <2>4, Frame
    <3>2. QED
      BY <2>4, <3>1 DEF Same, Spawned, Held
  <2>5. CASE obj[t] = i
    <3>1. pc[t] \in WithObj
      BY <2>5 DEF LocalInv, LocalOK
    <3>2. ~CallStop(t) /\ ~Bind(t) /\ ~NextDrained(t)
      BY Zenon, <3>1 DEF CallStop, Begin, Bind, NextDrained, WithObj
    <3>3. CASE Insert(t)
      <4>1. binding[t] \in Binding
        BY <3>3 DEF Insert, InsertIf, LocalInv, LocalOK, UpsertLabels
      <4>2. obj'[t] = i \/ resolvers'[binding[t]] = i
        BY <1>0, <2>5, <3>3, <4>1 DEF Insert, InsertIf
      <4>3. QED
        BY <4>1, <4>2 DEF Held
    <3>4. CASE ~Insert(t)
      BY <1>3, <2>5, <3>2, <3>4, Releasers DEF Held
    <3>5. QED
      BY <3>3, <3>4
  <2>6. CASE race[t] = i
    <3>1. ~Insert(t)
      BY <2>6 DEF Insert, InsertIf, LocalInv, LocalOK
    <3>2. QED
      BY <1>3, <2>6, <3>1, Releasers DEF Held
  <2>7. CASE i \in snap[t]
    <3>1. ~Snapshot(t)
      BY <2>7 DEF Snapshot, LocalInv, LocalOK
    <3>2. QED
      BY <1>3, <2>7, <3>1, Releasers DEF Held
  <2>8. CASE i \in drained[t]
    <3>1. ~Drain(t)
      BY <2>8 DEF Drain, LocalInv, LocalOK
    <3>2. NextDrained(t) => i \in drained'[t] \/ obj'[t] = i
      BY <1>0, <2>8 DEF NextDrained
    <3>3. QED
      BY Zenon, <1>3, <2>8, <3>1, <3>2, Releasers DEF Held
  <2>9. QED
    BY <2>1, <2>2, <2>3, <2>4, <2>5, <2>6, <2>7, <2>8 DEF Held
<1>4. CASE \E j \in Instance : DropHandle(j)
  BY <1>1, <1>4 DEF DropHandle
<1>5. CASE \/ HoldSnapshot \/ InterfacesChange \/ UNCHANGED vars
           \/ \E j \in Instance : RouteEnds(j) \/ TasksExit(j)
  <2>1. UNCHANGED <<resolvers, taskVars>> /\ handles \subseteq handles'
    BY <1>5 DEF HoldSnapshot, InterfacesChange, RouteEnds, TasksExit, vars
  <2>2. QED
    BY <1>2, <2>1 DEF DropInv, Held, taskVars
<1>6. QED
  BY <1>1, <1>2, <1>3, <1>4, <1>5 DEF Next

(* A call of it needs the operation. *)
LEMMA StopInvStep == TypeOK /\ StopInv /\ [Next]_vars => StopInv'
<1> SUFFICES ASSUME TypeOK, StopInv, [Next]_vars PROVE StopInv'
  OBVIOUS
<1> USE DEF TypeOK, StopInv, Task, Goto, Finish
<1>1. ASSUME NEW t \in Task, Start(t) PROVE StopInv'
  BY <1>1 DEF Start, CallUpsert, Begin, CallRemove, CallReconcile, CallMaintain, CallShutdown,
     CallStop
<1>2. ASSUME NEW t \in Task, Step(t) PROVE StopInv'
  <2>1. CASE \/ UpsertClosed(t) \/ UpsertGet(t) \/ Bind(t) \/ Insert(t) \/ Lose(t)
             \/ LoseJoin(t)
    BY Zenon, <2>1 DEF UpsertClosed, UpsertGet, Bind, Insert, InsertIf, Lose, LoseJoin, LoseJoinIf,
       AfterUpsert
  <2>2. CASE Take(t) \/ Retired(t) \/ RetiredJoin(t)
    BY Zenon, <2>2 DEF Take, TakeLeaving, Retired, RetiredJoin, RemoveReturns, AfterRemove
  <2>3. CASE \/ Close(t) \/ Drain(t) \/ NextDrained(t) \/ SkipDrained(t) \/ DrainedJoin(t)
             \/ Stop(t) \/ StopJoin(t)
    BY Zenon, <2>3 DEF Close, Drain, NextDrained, SkipDrained, DrainedJoin, Stop, StopJoin
  <2>4. CASE Snapshot(t) \/ Retire(t) \/ SkipDesired(t) \/ Ensure(t) \/ Tick(t)
    BY Zenon, <2>4 DEF Snapshot, Retire, RetireFrom, SkipDesired, Ensure, IdleMaintainers, Tick, TickFor
  <2>5. QED
    BY <1>2, <2>1, <2>2, <2>3, <2>4 DEF Step
<1>3. ASSUME NEW t \in Task, Cancel(t) PROVE StopInv'
  BY <1>3 DEF Cancel
<1>4. CASE \/ HoldSnapshot \/ InterfacesChange \/ UNCHANGED vars
           \/ \E i \in Instance : DropHandle(i) \/ RouteEnds(i) \/ TasksExit(i)
  BY <1>4 DEF HoldSnapshot, InterfacesChange, DropHandle, RouteEnds, TasksExit, vars, taskVars
<1>5. QED
  BY <1>1, <1>2, <1>3, <1>4 DEF Next

(* What a refinement step may rely on. *)
RefInv == TypeOK /\ LocalInv /\ HeldInv /\ KeyInv /\ FreshInv /\ GoneInv /\ DropInv /\ StopInv

LEMMA RefInvariance == Spec => []RefInv
<1> DEFINE Extra == KeyInv /\ FreshInv /\ GoneInv /\ DropInv /\ StopInv
           Base == TypeOK /\ LocalInv /\ HeldInv
<1>1. Init => Extra
  BY ConstantsAssumption DEF Init, KeyInv, FreshInv, Candidate, GoneInv, DropInv, Live, StopInv
<1>2. Base /\ Extra /\ [Next]_vars => Extra'
  BY KeyStep, FreshStep, GoneStep, DropStep, StopInvStep
<1>3. Spec => []Base
  BY Invariance, PTL
<1>4. RefInv <=> Base /\ Extra
  BY DEF RefInv
<1> HIDE DEF Base, Extra
<1>5. QED
  BY <1>1, <1>2, <1>3, <1>4, PTL DEF Spec

-----------------------------------------------------------------------------
(* A caller that serializes its calls *)

(* One task makes all the calls, and waits for each to return. *)
Serial == "cancel" \notin Ops /\ \E t : Task = {t}

(* Then the map does not change behind a call: the binding an upsert found *)
(* empty, or a remove has emptied, stays empty;                            *)
EmptyWhile(t) ==
  /\ pc[t] \in ShutdownLabels => call[t] = "shutdown"
  /\ pc[t] \in {"stop", "stop_join"} => call[t] = "stop"
  /\ pc[t] = "tick" => call[t] = "loop"
  /\ race[t] = None
  /\ pc[t] \in {"bind", "insert", "lose", "lose_join", "retired", "retired_join"} =>
       resolvers[binding[t]] = None
(* what is registered while reconcile retires is desired or still to be    *)
(* looked at, and no desired binding has been touched;                     *)
Retiring(t) ==
  Reconciling(t) /\ pc[t] \in {"retire"} \cup RemoveLabels =>
    /\ todo[t] = desired[t] /\ failed[t] \cap desired[t] = {}
    /\ pc[t] \in RemoveLabels => binding[t] \notin desired[t]
    /\ \A b \in Binding : resolvers[b] # None => b \in desired[t] \/ resolvers[b] \in snap[t]
(* and while it creates, what is registered is desired, and what is        *)
(* desired is registered, to be done, being done or failed.                *)
Creating(t) ==
  Reconciling(t) /\ pc[t] \in {"ensure"} \cup UpsertLabels =>
    /\ todo[t] \subseteq desired[t] /\ todo[t] \cap failed[t] = {}
    /\ pc[t] \in UpsertLabels => binding[t] \in desired[t] \ (todo[t] \cup failed[t])
    /\ \A b \in Binding : resolvers[b] # None => b \in desired[t]
    /\ \A b \in desired[t] : \/ resolvers[b] # None \/ b \in todo[t] \cup failed[t]
                             \/ pc[t] \in UpsertLabels /\ b = binding[t]
Failing(t) ==
  Reconciling(t) =>
    /\ pc[t] = "snapshot" => failed[t] = {} /\ todo[t] = desired[t]
    /\ pc[t] # "tick" => \A b \in failed[t] : resolvers[b] = None
Converged(t) ==
  call[t] = "reconcile" /\ pc[t] = "idle" =>
    \A b \in Binding : resolvers[b] # None <=> b \in desired[t] \ failed[t]

SerialOK(t) == EmptyWhile(t) /\ Retiring(t) /\ Creating(t) /\ Failing(t) /\ Converged(t)
SerialInv == \A t \in Task : SerialOK(t)

LEMMA SerialInit == Init => SerialInv
BY ConstantsAssumption DEF Init, SerialInv, SerialOK, EmptyWhile, Retiring, Creating, Failing,
   Converged, Reconciling, ShutdownLabels

(* Of a task that is alone. *)
LEMMA SerialStep ==
  ASSUME NEW t, Task = {t}, "cancel" \notin Ops,
         TypeOK, LocalInv, KeyInv, ClosedStaysEmpty, SerialInv, [Next]_vars
  PROVE  SerialInv'
<1> SUFFICES SerialOK(t)'
  BY DEF SerialInv
<1>0. t \in Task /\ LocalOK(t) /\ SerialOK(t)
  BY DEF LocalInv, SerialInv
<1>t. /\ resolvers \in [Binding -> Instance \cup {None}]
      /\ call \in [Task -> Calls] /\ pc \in [Task -> Labels]
      /\ binding \in [Task -> Binding \cup {None}] /\ obj \in [Task -> Instance \cup {None}]
      /\ race \in [Task -> Instance \cup {None}] /\ snap \in [Task -> SUBSET Instance]
      /\ desired \in [Task -> SUBSET Binding] /\ todo \in [Task -> SUBSET Binding]
      /\ failed \in [Task -> SUBSET Binding]
  BY DEF TypeOK
<1>c. closed /\ pc[t] # "drain" => \A b \in Binding : resolvers[b] = None
  BY <1>t DEF ClosedStaysEmpty, Closing, Registered
<1> DEFINE Quiet == UNCHANGED <<resolvers, call, desired, todo>> /\ race'[t] = None
<1>b. pc[t] \in UpsertLabels \cup RemoveLabels => binding[t] \in Binding
  BY <1>0 DEF LocalOK
<1>k. race[t] = None /\ (pc[t] = "insert" => resolvers[binding[t]] = None)
  BY <1>0 DEF SerialOK, EmptyWhile
(* An upsert fails, succeeds or goes on. *)
<1>f. ASSUME pc[t] \in UpsertLabels, Quiet, pc'[t] = AfterUpsert(t), resolvers[binding[t]] = None,
             failed'[t] = IF call[t] = "upsert" THEN failed[t] ELSE failed[t] \cup {binding[t]}
      PROVE  SerialOK(t)'
  <2>1. EmptyWhile(t)' /\ Retiring(t)'
    BY <1>f DEF AfterUpsert, EmptyWhile, Retiring, RemoveLabels, ShutdownLabels
  <2>2. Creating(t)'
    BY <1>0, <1>f DEF SerialOK, Creating, Reconciling, AfterUpsert, UpsertLabels
  <2>3. Failing(t)'
    BY <1>0, <1>f DEF SerialOK, Failing, Reconciling, AfterUpsert, UpsertLabels
  <2>4. Converged(t)'
    BY <1>f DEF Converged, AfterUpsert, UpsertLabels
  <2>5. QED
    BY <2>1, <2>2, <2>3, <2>4 DEF SerialOK
<1>d. ASSUME pc[t] \in UpsertLabels, UNCHANGED <<call, desired, todo>>, race'[t] = None,
             pc'[t] = AfterUpsert(t), failed'[t] = failed[t],
             resolvers'[binding[t]] # None,
             \A b \in Binding \ {binding[t]} : resolvers'[b] = resolvers[b]
      PROVE  SerialOK(t)'
  <2>1. EmptyWhile(t)' /\ Retiring(t)'
    BY <1>d DEF AfterUpsert, EmptyWhile, Retiring, RemoveLabels, ShutdownLabels
  <2>2. Creating(t)'
    BY <1>0, <1>t, <1>d DEF SerialOK, Creating, Reconciling, AfterUpsert, UpsertLabels
  <2>3. Failing(t)'
    <3>1. Reconciling(t)' => /\ \A b \in failed[t] : resolvers[b] = None
                             /\ binding[t] \notin failed[t] /\ failed[t] \subseteq Binding
      BY <1>0, <1>t, <1>d DEF SerialOK, Creating, Failing, Reconciling, UpsertLabels
    <3>2. pc'[t] # "snapshot"
      BY <1>d DEF AfterUpsert
    <3>3. QED
      BY <1>d, <3>1, <3>2 DEF Failing
  <2>4. Converged(t)'
    BY <1>d DEF Converged, AfterUpsert, UpsertLabels
  <2>5. QED
    BY <2>1, <2>2, <2>3, <2>4 DEF SerialOK
<1>g. ASSUME pc[t] \in UpsertLabels, Quiet, UNCHANGED <<binding, failed>>, pc'[t] \in UpsertLabels,
             resolvers[binding[t]] = None \/ pc'[t] = "upsert_get"
      PROVE  SerialOK(t)'
  <2>1. EmptyWhile(t)' /\ Retiring(t)' /\ Converged(t)'
    BY <1>g DEF EmptyWhile, Retiring, Converged, UpsertLabels, RemoveLabels, ShutdownLabels
  <2>2. Creating(t)' /\ Failing(t)'
    BY Zenon, <1>0, <1>g DEF SerialOK, Creating, Failing, Reconciling, UpsertLabels
  <2>3. QED
    BY <2>1, <2>2 DEF SerialOK
<1>1. CASE Start(t)
  <2>1. ASSUME NEW c \in {"upsert", "remove", "shutdown", "stop"}, NEW l, Begin(t, c, l),
               l \in {"upsert_closed", "take"} \/ (l = "close" /\ c = "shutdown")
                 \/ (l = "stop" /\ c = "stop")
        PROVE  SerialOK(t)'
    <3>1. pc'[t] = l /\ call'[t] = c /\ race'[t] = None /\ ~Reconciling(t)'
      BY <1>t, <1>k, <2>1 DEF Begin, Goto, Reconciling
    <3>2. EmptyWhile(t)'
      BY <2>1, <3>1 DEF EmptyWhile, ShutdownLabels
    <3>3. QED
      BY <2>1, <3>1, <3>2 DEF SerialOK, Retiring, Creating, Failing, Converged
  <2>2. ASSUME NEW c \in {"reconcile", "maintain"}, NEW l, NEW bs, Begin(t, c, l), Want(t, bs),
               l = "snapshot" \/ (l = "idle" /\ c = "maintain")
        PROVE  SerialOK(t)'
    <3>1. /\ pc'[t] = l /\ call'[t] = c /\ race'[t] = None /\ resolvers' = resolvers
          /\ desired'[t] = bs /\ todo'[t] = bs /\ failed'[t] = {}
      BY <1>t, <1>k, <2>2 DEF Begin, Goto, Want
    <3>2. EmptyWhile(t)' /\ Retiring(t)' /\ Creating(t)'
      BY <2>2, <3>1 DEF EmptyWhile, Retiring, Creating, UpsertLabels, RemoveLabels, ShutdownLabels,
                        Reconciling
    <3>3. Failing(t)' /\ Converged(t)'
      BY <2>2, <3>1 DEF Failing, Converged
    <3>4. QED
      BY <3>2, <3>3 DEF SerialOK
  <2>3. CASE CallUpsert(t) \/ CallRemove(t)
    BY <2>1, <2>3 DEF CallUpsert, CallRemove
  <2>4. CASE CallShutdown(t) \/ CallStop(t)
    BY <2>1, <2>4 DEF CallShutdown, CallStop
  <2>5. CASE CallReconcile(t) \/ CallMaintain(t)
    BY <2>2, <2>5 DEF CallReconcile, CallMaintain
  <2>6. QED
    BY <1>1, <2>3, <2>4, <2>5 DEF Start
<1>2. CASE UpsertClosed(t)
  <2>1. pc[t] \in UpsertLabels /\ Quiet
    BY <1>2, <1>k DEF UpsertClosed, UpsertLabels
  <2>2. CASE closed
    <3>1. pc'[t] = AfterUpsert(t) /\ resolvers[binding[t]] = None
          /\ failed'[t] = IF call[t] = "upsert" THEN failed[t] ELSE failed[t] \cup {binding[t]}
      BY Zenon, <1>2, <1>t, <1>b, <1>c, <2>1, <2>2 DEF UpsertClosed, Report, Finish, Goto
    <3>2. QED
      BY <1>f, <2>1, <3>1
  <2>3. CASE ~closed
    <3>1. UNCHANGED <<binding, failed>> /\ pc'[t] = "upsert_get"
      BY Zenon, <1>2, <1>t, <2>3 DEF UpsertClosed, Goto
    <3>2. QED
      BY <1>g, <2>1, <3>1 DEF UpsertLabels
  <2>4. QED
    BY <2>2, <2>3
<1>3. CASE UpsertGet(t)
  <2>1. pc[t] \in UpsertLabels /\ Quiet /\ failed' = failed
    BY Zenon, <1>3, <1>k DEF UpsertGet, UpsertLabels
  <2>2. CASE resolvers[binding[t]] # None
    <3>1. pc'[t] = AfterUpsert(t)
      BY <1>3, <1>t, <2>2 DEF UpsertGet, Finish, Goto
    <3>2. QED
      BY <1>d, <2>1, <2>2, <3>1
  <2>3. CASE resolvers[binding[t]] = None
    <3>1. UNCHANGED binding /\ pc'[t] = "bind"
      BY <1>3, <1>t, <2>3 DEF UpsertGet, Goto
    <3>2. QED
      BY <1>g, <2>1, <2>3, <3>1 DEF UpsertLabels
  <2>4. QED
    BY <2>2, <2>3
<1>4. CASE Bind(t)
  <2>1. pc[t] \in UpsertLabels /\ Quiet /\ resolvers[binding[t]] = None
    BY Zenon, <1>0, <1>4, <1>k DEF Bind, UpsertLabels, SerialOK, EmptyWhile
  <2>2. CASE Report(t, FALSE) /\ Finish(t, AfterUpsert(t))
    <3>1. pc'[t] = AfterUpsert(t)
          /\ failed'[t] = IF call[t] = "upsert" THEN failed[t] ELSE failed[t] \cup {binding[t]}
      BY <1>t, <2>2 DEF Report, Finish, Goto
    <3>2. QED
      BY Zenon, <1>f, <2>1, <3>1
  <2>3. CASE Goto(t, "insert") /\ UNCHANGED <<binding, failed>>
    <3>1. pc'[t] = "insert"
      BY <1>t, <2>3 DEF Goto
    <3>2. QED
      BY <1>g, <2>1, <2>3, <3>1 DEF UpsertLabels
  <2>4. QED
    BY Zenon, <1>4, <2>2, <2>3 DEF Bind
<1>5. CASE Insert(t)
  <2>1. /\ pc[t] \in UpsertLabels /\ UNCHANGED <<call, desired, todo, failed>>
        /\ resolvers[binding[t]] = None /\ binding[t] \in Binding
    BY Zenon, <1>5, <1>b, <1>k DEF Insert, InsertIf, UpsertLabels
  <2>2. CASE closed
    <3>1. UNCHANGED <<resolvers, binding>> /\ race'[t] = None /\ pc'[t] = "lose"
      BY <1>5, <1>t, <2>2 DEF Insert, InsertIf, Goto
    <3>2. QED
      BY <1>g, <2>1, <3>1 DEF UpsertLabels
  <2>3. CASE ~closed
    <3>1. /\ race' = race /\ pc'[t] = AfterUpsert(t)
          /\ resolvers' = [resolvers EXCEPT ![binding[t]] = obj[t]]
      BY <1>5, <1>t, <2>1, <2>3 DEF Insert, InsertIf, Finish, Goto
    <3>2. obj[t] \in Instance
      BY Zenon, <1>0, <1>5 DEF LocalOK, WithObj, Insert, InsertIf
    <3>3. resolvers'[binding[t]] # None /\ \A b \in Binding \ {binding[t]} : resolvers'[b] = resolvers[b]
      BY <1>t, <2>1, <3>1, <3>2, ConstantsAssumption
    <3>4. QED
      BY Zenon, <1>d, <1>k, <2>1, <3>1, <3>3
  <2>4. QED
    BY <2>2, <2>3
<1>6. CASE Lose(t)
  <2>1. /\ pc[t] \in UpsertLabels /\ Quiet /\ UNCHANGED <<binding, failed>> /\ pc'[t] = "lose_join"
        /\ resolvers[binding[t]] = None
    BY <1>0, <1>6, <1>k, <1>t DEF Lose, Goto, UpsertLabels, SerialOK, EmptyWhile
  <2>2. QED
    BY Zenon, <1>g, <2>1 DEF UpsertLabels
<1>7. CASE LoseJoin(t)
  <2>1. /\ pc[t] \in UpsertLabels /\ Quiet /\ resolvers[binding[t]] = None
    BY Zenon, <1>0, <1>7, <1>t DEF LoseJoin, LoseJoinIf, UpsertLabels, SerialOK, EmptyWhile
  <2>2. Report(t, FALSE) /\ Finish(t, AfterUpsert(t))
    BY Zenon, <1>7, <1>k DEF LoseJoin, LoseJoinIf
  <2>3. pc'[t] = AfterUpsert(t)
        /\ failed'[t] = IF call[t] = "upsert" THEN failed[t] ELSE failed[t] \cup {binding[t]}
    BY <1>t, <2>2 DEF Report, Finish, Goto
  <2>4. QED
    BY Zenon, <1>f, <2>1, <2>3
<1> USE <1>0, <1>t DEF Reconciling, UpsertLabels, RemoveLabels, ShutdownLabels
<1>r. ASSUME RemoveReturns(t), UNCHANGED <<resolvers, call, race, desired, todo>>,
             pc[t] \in RemoveLabels, resolvers[binding[t]] = None,
             failed'[t] = failed[t] \/ (call[t] # "remove" /\ failed'[t] = failed[t] \cup {binding[t]})
      PROVE  SerialOK(t)'
  <2>1. /\ snap'[t] = {i \in snap[t] : bound(i) # binding[t]}
        /\ pc'[t] = IF call[t] = "remove" THEN "idle" ELSE "retire"
    BY Zenon, <1>r DEF RemoveReturns, AfterRemove, Finish, Goto
  <2>2. EmptyWhile(t)' /\ Creating(t)' /\ Converged(t)'
    BY Zenon, <1>r, <1>k, <2>1 DEF EmptyWhile, Creating, Converged
  <2>3. Retiring(t)'
    <3> SUFFICES ASSUME call[t] \in {"reconcile", "maintain", "loop"} PROVE Retiring(t)'
      BY Zenon, <1>r DEF Retiring
    <3>1. /\ todo[t] = desired[t] /\ failed[t] \cap desired[t] = {} /\ binding[t] \notin desired[t]
          /\ \A b \in Binding : resolvers[b] # None => b \in desired[t] \/ resolvers[b] \in snap[t]
      BY Zenon, <1>r DEF SerialOK, Retiring
    <3>2. \A b \in Binding : resolvers[b] # None => b \in desired[t] \/ resolvers[b] \in snap'[t]
      <4> SUFFICES ASSUME NEW b \in Binding, resolvers[b] # None, b \notin desired[t]
                   PROVE  resolvers[b] \in snap'[t]
        OBVIOUS
      <4>1. bound(resolvers[b]) = b /\ b # binding[t]
        BY Zenon, <1>r DEF KeyInv
      <4>2. QED
        BY Zenon, <2>1, <3>1, <4>1
    <3>3. failed'[t] \cap desired[t] = {} /\ pc'[t] = "retire"
      BY Zenon, <1>r, <2>1, <3>1
    <3>4. QED
      BY Zenon, <1>r, <3>1, <3>2, <3>3 DEF Retiring
  <2>4. Failing(t)'
    BY Zenon, <1>r, <2>1 DEF SerialOK, Failing
  <2>5. QED
    BY <2>2, <2>3, <2>4 DEF SerialOK
<1>8. CASE Take(t)
  <2>0. pc[t] = "take" /\ UNCHANGED <<call, race, desired, todo, failed>>
    BY <1>8 DEF Take, TakeLeaving
  <2>1. CASE resolvers[binding[t]] = None
    <3>1. RemoveReturns(t) /\ resolvers' = resolvers
      BY <1>8, <1>b, <2>0, <2>1 DEF Take, TakeLeaving
    <3>2. QED
      BY <1>r, <2>0, <2>1, <3>1
  <2>2. CASE resolvers[binding[t]] # None
    <3>1. /\ pc'[t] = "retired" /\ UNCHANGED <<binding, snap>>
          /\ resolvers' = [resolvers EXCEPT ![binding[t]] = None]
      BY <1>8, <2>2 DEF Take, TakeLeaving, Goto
    <3>2. resolvers'[binding[t]] = None /\ \A b \in Binding : resolvers'[b] \in {None, resolvers[b]}
      BY <1>b, <2>0, <3>1
    <3>3. EmptyWhile(t)' /\ Creating(t)' /\ Converged(t)'
      BY <1>k, <2>0, <3>1, <3>2 DEF EmptyWhile, Creating, Converged
    <3>4. Retiring(t)' /\ Failing(t)'
      BY Zenon, <2>0, <3>1, <3>2 DEF SerialOK, Retiring, Failing
    <3>5. QED
      BY <3>3, <3>4 DEF SerialOK
  <2>3. QED
    BY <2>1, <2>2
<1>9. CASE Retired(t)
  <2>0. /\ pc[t] = "retired" /\ resolvers[binding[t]] = None
        /\ UNCHANGED <<resolvers, call, race, desired, todo, failed>>
    BY Zenon, <1>9 DEF Retired, SerialOK, EmptyWhile
  <2>1. CASE Live(obj[t])
    <3>1. pc'[t] = "retired_join" /\ UNCHANGED <<binding, snap>>
      BY Zenon, <1>9, <2>1 DEF Retired, Goto
    <3>2. EmptyWhile(t)' /\ Creating(t)' /\ Converged(t)'
      BY Zenon, <1>k, <2>0, <3>1 DEF EmptyWhile, Creating, Converged
    <3>3. Retiring(t)' /\ Failing(t)'
      BY Zenon, <2>0, <3>1 DEF SerialOK, Retiring, Failing
    <3>4. QED
      BY <3>2, <3>3 DEF SerialOK
  <2>2. CASE ~Live(obj[t])
    <3>1. RemoveReturns(t)
      BY Zenon, <1>9, <2>2 DEF Retired
    <3>2. QED
      BY <1>r, <2>0, <3>1
  <2>3. QED
    BY <2>1, <2>2
<1>10. CASE RetiredJoin(t)
  <2>1. /\ pc[t] = "retired_join" /\ resolvers[binding[t]] = None
        /\ RemoveReturns(t) /\ UNCHANGED <<resolvers, call, race, desired, todo>>
    BY Zenon, <1>10 DEF RetiredJoin, SerialOK, EmptyWhile
  <2>2. failed'[t] = failed[t] \/ (call[t] # "remove" /\ failed'[t] = failed[t] \cup {binding[t]})
    BY Zenon, <1>10 DEF RetiredJoin
  <2>3. QED
    BY Zenon, <1>r, <2>1, <2>2
<1>11. CASE \/ Close(t) \/ Drain(t) \/ NextDrained(t) \/ SkipDrained(t) \/ DrainedJoin(t)
            \/ Stop(t) \/ StopJoin(t)
  <2>1. ASSUME call' = call, race' = race,
               \/ call[t] = "shutdown" /\ pc'[t] \in ShutdownLabels \cup {"idle"}
               \/ call[t] = "stop" /\ pc'[t] \in {"stop", "stop_join", "idle"}
        PROVE  SerialOK(t)'
    BY Zenon, <1>k, <2>1 DEF SerialOK, EmptyWhile, Retiring, Creating, Failing, Converged
  <2>2. CASE Close(t) \/ Drain(t) \/ NextDrained(t)
    BY Zenon, <2>1, <2>2 DEF Close, Drain, NextDrained, Goto, SerialOK, EmptyWhile
  <2>3. CASE SkipDrained(t) \/ DrainedJoin(t)
    BY Zenon, <2>1, <2>3 DEF SkipDrained, DrainedJoin, Goto, SerialOK, EmptyWhile
  <2>4. CASE Stop(t) \/ StopJoin(t)
    BY Zenon, <2>1, <2>4 DEF Stop, StopJoin, Goto, SerialOK, EmptyWhile
  <2>5. QED
    BY <1>11, <2>2, <2>3, <2>4
<1>12. CASE Snapshot(t)
  <2>1. /\ pc[t] = "snapshot" /\ pc'[t] = "retire" /\ snap'[t] = Registered
        /\ UNCHANGED <<resolvers, call, binding, race, desired, todo, failed>>
    BY <1>12 DEF Snapshot, Goto
  <2>2. EmptyWhile(t)' /\ Creating(t)' /\ Converged(t)'
    BY Zenon, <1>k, <2>1 DEF EmptyWhile, Creating, Converged
  <2>3. Retiring(t)' /\ Failing(t)'
    BY Zenon, <2>1 DEF SerialOK, Retiring, Failing, Registered
  <2>4. QED
    BY <2>2, <2>3 DEF SerialOK
<1>13. CASE Retire(t)
  <2>1. /\ pc[t] = "retire" /\ UNCHANGED <<resolvers, call, race, snap, desired, todo, failed>>
        /\ \/ pc'[t] = "take" /\ binding'[t] \notin desired[t]
           \/ pc'[t] = "ensure" /\ snap[t] = {}
    BY Zenon, <1>13 DEF Retire, RetireFrom, Goto
  <2>2. EmptyWhile(t)' /\ Converged(t)'
    BY Zenon, <1>k, <2>1 DEF EmptyWhile, Converged
  <2>3. Retiring(t)' /\ Failing(t)'
    BY Zenon, <2>1 DEF SerialOK, Retiring, Failing
  <2>4. Creating(t)'
    BY Zenon, <2>1 DEF SerialOK, Retiring, Creating
  <2>5. QED
    BY Zenon, <2>2, <2>3, <2>4 DEF SerialOK
<1>14. CASE SkipDesired(t)
  <2>1. PICK i \in snap[t] : bound(i) \in desired[t] /\ snap'[t] = snap[t] \ {i}
    BY Zenon, <1>14 DEF SkipDesired
  <2>2. pc[t] = "retire" /\ UNCHANGED <<resolvers, call, pc, binding, race, desired, todo, failed>>
    BY Zenon, <1>14 DEF SkipDesired
  <2>3. EmptyWhile(t)' /\ Creating(t)' /\ Failing(t)' /\ Converged(t)'
    BY Zenon, <2>2 DEF SerialOK, EmptyWhile, Creating, Failing, Converged
  <2>4. Retiring(t)'
    BY Zenon, <2>1, <2>2 DEF SerialOK, Retiring, KeyInv
  <2>5. QED
    BY <2>3, <2>4 DEF SerialOK
<1>15. CASE Ensure(t)
  <2>0. pc[t] = "ensure" /\ UNCHANGED <<resolvers, race, desired, failed>>
    BY Zenon, <1>15 DEF Ensure
  <2>1. ASSUME NEW b \in todo[t], binding'[t] = b, todo'[t] = todo[t] \ {b},
               pc'[t] = "upsert_closed", call' = call
        PROVE  SerialOK(t)'
    <3>1. EmptyWhile(t)' /\ Retiring(t)' /\ Converged(t)'
      BY Zenon, <1>k, <2>0, <2>1 DEF EmptyWhile, Retiring, Converged
    <3>2. Creating(t)' /\ Failing(t)'
      BY Zenon, <2>0, <2>1 DEF SerialOK, Creating, Failing
    <3>3. QED
      BY <3>1, <3>2 DEF SerialOK
  <2>2. ASSUME todo[t] = {}, UNCHANGED <<todo, binding>>,
               \/ pc'[t] = "idle" /\ call'[t] = call[t] /\ call[t] \in {"reconcile", "maintain"}
               \/ pc'[t] = "tick" /\ call'[t] = "loop"
        PROVE  SerialOK(t)'
    <3>1. EmptyWhile(t)' /\ Retiring(t)' /\ Creating(t)'
      BY Zenon, <1>k, <2>0, <2>2 DEF EmptyWhile, Retiring, Creating
    <3>2. Failing(t)'
      BY Zenon, <2>0, <2>2 DEF Failing
    <3>3. Converged(t)'
      BY Zenon, <2>0, <2>2 DEF SerialOK, Creating, Failing, Converged
    <3>4. QED
      BY <3>1, <3>2, <3>3 DEF SerialOK
  <2>3. \/ \E b \in todo[t] : /\ binding'[t] = b /\ todo'[t] = todo[t] \ {b}
                              /\ pc'[t] = "upsert_closed" /\ call' = call
        \/ /\ todo[t] = {} /\ UNCHANGED <<todo, binding>>
           /\ \/ pc'[t] = "idle" /\ call'[t] = call[t] /\ call[t] \in {"reconcile", "maintain"}
              \/ pc'[t] = "tick" /\ call'[t] = "loop"
    BY Zenon, <1>15 DEF Ensure, IdleMaintainers, Task, Goto
  <2>4. QED
    BY Zenon, <2>1, <2>2, <2>3
<1>16. CASE Tick(t)
  <2>1. /\ pc[t] = "tick" /\ UNCHANGED <<resolvers, call, race>> /\ call[t] = "loop"
        /\ \/ pc'[t] = "idle"
           \/ pc'[t] = "snapshot" /\ failed'[t] = {} /\ todo'[t] = desired'[t]
    BY Zenon, <1>16 DEF Tick, TickFor, Want, Goto, SerialOK, EmptyWhile
  <2>2. EmptyWhile(t)' /\ Retiring(t)' /\ Creating(t)' /\ Converged(t)'
    BY Zenon, <1>k, <2>1 DEF EmptyWhile, Retiring, Creating, Converged
  <2>3. Failing(t)'
    BY Zenon, <2>1 DEF Failing
  <2>4. QED
    BY <2>2, <2>3 DEF SerialOK
<1>17. CASE \/ HoldSnapshot \/ InterfacesChange \/ UNCHANGED vars
            \/ \E i \in Instance : DropHandle(i) \/ RouteEnds(i) \/ TasksExit(i)
  <2>1. UNCHANGED <<resolvers, closed, call, pc, binding, race, snap, desired, todo, failed>>
    BY Zenon, <1>17 DEF HoldSnapshot, InterfacesChange, DropHandle, RouteEnds, TasksExit, vars, taskVars
  <2>2. QED
    BY Zenon, <2>1 DEF SerialOK, EmptyWhile, Retiring, Creating, Failing, Converged
<1> HIDE <1>0, <1>t DEF SerialOK
<1>18. ASSUME Step(t) PROVE SerialOK(t)'
  BY Zenon, <1>2, <1>3, <1>4, <1>5, <1>6, <1>7, <1>8, <1>9, <1>10, <1>11, <1>12, <1>13, <1>14, <1>15,
     <1>16, <1>18 DEF Step
<1>19. QED
  BY Zenon, <1>1, <1>17, <1>18 DEF Next, Cancel

LEMMA SerialInvariance ==
  ASSUME NEW t, Task = {t}, "cancel" \notin Ops
  PROVE  Spec => [](RefInv /\ OwnInv /\ SerialInv)
<1> DEFINE Base == RefInv /\ OwnInv /\ ClosedStaysEmpty
<1>1. Spec => []Base
  BY Invariance, RefInvariance, PTL
<1>2. Base /\ SerialInv /\ [Next]_vars => SerialInv'
  BY SerialStep DEF RefInv
<1>3. QED
  BY <1>1, <1>2, SerialInit, PTL DEF Spec

(* When one task makes all the calls, reconcile has stopped the obsolete   *)
(* instances before it creates the missing ones (mdns.rs:343-369).         *)
THEOREM ReconcileRetiresFirst == Serial /\ Spec => []RetireBeforeCreate
<1>1. ASSUME NEW t, Task = {t}, "cancel" \notin Ops, RefInv, OwnInv, SerialInv
      PROVE  RetireBeforeCreate
  <2> SUFFICES ASSUME Reconciling(t), pc[t] \in UpsertLabels \cup {"ensure"},
                      NEW i \in Instance, Live(i)
               PROVE  bound(i) \in desired[t]
    BY <1>1 DEF RetireBeforeCreate
  <2>0. LocalOK(t) /\ Creating(t)
    BY <1>1 DEF RefInv, LocalInv, SerialInv, SerialOK
  <2>1. CASE i \in Registered
    BY <1>1, <2>0, <2>1, ConstantsAssumption DEF Registered, RefInv, KeyInv, Creating
  <2>2. CASE Owned(i)
    <3>1. obj[t] = i /\ pc[t] \in {"insert", "lose"}
      BY <1>1, <2>0, <2>2 DEF Owned, LocalOK, UpsertLabels
    <3>2. bound(i) = binding[t]
      BY <1>1, <3>1 DEF RefInv, FreshInv, Candidate
    <3>3. QED
      BY <2>0, <3>1, <3>2 DEF Creating, UpsertLabels
  <2>3. QED
    BY <1>1, <2>1, <2>2 DEF OwnInv
<1>2. ASSUME NEW t, Task = {t}, "cancel" \notin Ops PROVE Spec => []RetireBeforeCreate
  BY <1>1, <1>2, SerialInvariance, PTL
<1>3. QED
  BY <1>2 DEF Serial

(* Then reconcile returns with exactly the desired bindings registered,    *)
(* less the ones it reports an error for (mdns.rs:343-369).                *)
THEOREM SerialReconcileConverges == Serial /\ Spec => []ReconcileConverges
<1>1. ASSUME NEW t, Task = {t}, RefInv, SerialInv PROVE ReconcileConverges
  <2> SUFFICES ASSUME call[t] = "reconcile", pc[t] = "idle"
               PROVE  {bound(i) : i \in Registered} = desired[t] \ failed[t]
    BY <1>1 DEF ReconcileConverges
  <2>1. \A b \in Binding : resolvers[b] # None <=> b \in desired[t] \ failed[t]
    BY <1>1 DEF SerialInv, SerialOK, Converged
  <2>2. \A b \in Binding : resolvers[b] # None => resolvers[b] \in Registered /\ bound(resolvers[b]) = b
    BY <1>1 DEF RefInv, TypeOK, Registered, KeyInv
  <2>3. \A i \in Registered : bound(i) \in Binding /\ resolvers[bound(i)] # None
    BY <1>1, ConstantsAssumption DEF RefInv, KeyInv, Registered
  <2>4. desired[t] \subseteq Binding
    BY <1>1 DEF RefInv, TypeOK
  <2>5. QED
    BY <2>1, <2>2, <2>3, <2>4
<1>2. ASSUME NEW t, Task = {t}, "cancel" \notin Ops PROVE Spec => []ReconcileConverges
  BY <1>1, <1>2, SerialInvariance, PTL
<1>3. QED
  BY <1>2 DEF Serial

(* And it never takes an instance of a desired binding out of the map,     *)
(* not even to put another one there (mdns.rs:350-369).                    *)
THEOREM DesiredIsPreserved == Serial /\ Spec => DesiredSurvives
<1> DEFINE Kept(t) == Reconciling(t) /\ desired'[t] = desired[t] =>
             \A b \in desired[t] : resolvers[b] # None => resolvers'[b] = resolvers[b]
<1>1. ASSUME NEW t, Task = {t}, "cancel" \notin Ops, RefInv, SerialInv, [Next]_vars
      PROVE  Kept(t)
  <2> SUFFICES ASSUME Reconciling(t), NEW b \in desired[t], resolvers[b] # None
               PROVE  resolvers'[b] = resolvers[b]
    OBVIOUS
  <2>0. t \in Task /\ b \in Binding /\ LocalOK(t) /\ SerialOK(t)
    BY <1>1 DEF RefInv, TypeOK, LocalInv, SerialInv
  <2>t. resolvers \in [Binding -> Instance \cup {None}]
    BY <1>1 DEF RefInv, TypeOK
  <2>1. CASE Insert(t)
    BY <2>0, <2>1, <2>t DEF Insert, InsertIf
  <2>2. CASE Take(t)
    BY Zenon, <2>0, <2>2, <2>t DEF Take, TakeLeaving, SerialOK, Retiring, RemoveLabels, LocalOK
  <2>3. ~Drain(t)
    BY <2>0 DEF Drain, SerialOK, EmptyWhile, ShutdownLabels, Reconciling
  <2>4. CASE \/ HoldSnapshot \/ InterfacesChange \/ UNCHANGED vars
             \/ \E i \in Instance : DropHandle(i) \/ RouteEnds(i) \/ TasksExit(i)
    BY <2>4 DEF HoldSnapshot, InterfacesChange, DropHandle, RouteEnds, TasksExit, vars
  <2>5. CASE Start(t) \/ Step(t) \/ Cancel(t)
    BY <2>0, <2>1, <2>2, <2>3, <2>5, MapWriters
  <2>6. QED
    BY <1>1, <2>4, <2>5 DEF Next
<1>2. ASSUME NEW c, Task = {c}, "cancel" \notin Ops PROVE Spec => DesiredSurvives
  <2>1. Spec => [](RefInv /\ OwnInv /\ SerialInv)
    BY <1>2, SerialInvariance
  <2>2. RefInv /\ SerialInv /\ [Next]_vars => [\A t \in Task : Kept(t)]_vars
    BY <1>1, <1>2
  <2>3. QED
    BY <2>1, <2>2, PTL DEF Spec, DesiredSurvives
<1>3. QED
  BY Zenon, <1>2 DEF Serial

-----------------------------------------------------------------------------
(* The set implements MdnsRegistry. *)

(* A step that keeps the map and the flag, and starts nothing, is a Stop   *)
(* of the registry, unless what it stops is in the map.                    *)
LEMMA StopStep ==
  ASSUME UNCHANGED <<resolvers, closed>>,
         \A i \in Instance : Live(i)' => Live(i),
         "stop" \in Ops \/ \A b \in Binding : resolvers[b] \in Instance /\ Live(resolvers[b])
                             => Live(resolvers[b])'
  PROVE  Registry!Next
<1> DEFINE is == {i \in Instance : Live(i) /\ ~Live(i)'}
<1>1. Registry!Stop(is)
  BY DEF Registry!Stop, Registry!Instance, Instance
<1>2. is \in SUBSET Registry!Instance
  BY DEF Registry!Instance, Instance
<1>3. QED
  BY Zenon, <1>1, <1>2 DEF Registry!Next

(* Dropping the last reference never hits an instance of the map. *)
LEMMA SettleStops ==
  ASSUME TypeOK, UNCHANGED <<resolvers, closed>>, Settle(proto)
  PROVE  Registry!Next
<1>1. \A i \in Instance : Live(i)' => Live(i)
  BY DEF Settle, Live
<1>2. \A b \in Binding : resolvers[b] \in Instance /\ Live(resolvers[b]) => Live(resolvers[b])'
  BY DEF Settle, Held, Live
<1>3. QED
  BY Zenon, <1>1, <1>2, StopStep

(* Nor does stopping one that is not in it. *)
LEMMA AbortStops ==
  ASSUME TypeOK, UNCHANGED <<resolvers, closed>>, NEW j \in Instance, Settle(Aborted(j)),
         "stop" \in Ops \/ \A b \in Binding : resolvers[b] # j
  PROVE  Registry!Next
<1>1. \A i \in Instance : Live(i)' => Live(i)
  BY DEF Settle, Aborted, Live, TypeOK
<1>2. "stop" \in Ops \/ \A b \in Binding : resolvers[b] \in Instance /\ Live(resolvers[b])
                           => Live(resolvers[b])'
  BY DEF Settle, Aborted, Held, Live, TypeOK
<1>3. QED
  BY Zenon, <1>1, <1>2, StopStep

(* Every step of the set is a step of the registry or leaves it alone. *)
LEMMA RefStep == RefInv /\ [Next]_vars => [Registry!Next]_(Registry!vars)
<1> SUFFICES ASSUME RefInv, [Next]_vars PROVE Registry!Next \/ UNCHANGED Registry!vars
  OBVIOUS
<1> USE DEF RefInv
<1>0. UNCHANGED <<resolvers, closed, proto>> => UNCHANGED Registry!vars
  BY DEF Registry!vars, Live
<1>1. ASSUME NEW t \in Task, Start(t) PROVE UNCHANGED <<resolvers, closed, proto>>
  BY Zenon, <1>1 DEF Start, CallUpsert, Begin, CallRemove, CallReconcile, CallMaintain, CallShutdown,
     CallStop
<1>2. ASSUME NEW t \in Task, Step(t) PROVE Registry!Next \/ UNCHANGED Registry!vars
  <2>1. CASE \/ UpsertClosed(t) \/ UpsertGet(t) \/ Snapshot(t) \/ Retire(t) \/ Ensure(t)
             \/ Tick(t)
    BY Zenon, <1>0, <2>1 DEF UpsertClosed, UpsertGet, Snapshot, Retire, RetireFrom, Ensure, Tick, TickFor
  <2>2. CASE LoseJoin(t) \/ RetiredJoin(t) \/ SkipDrained(t) \/ DrainedJoin(t) \/ StopJoin(t)
             \/ SkipDesired(t)
    <3>1. UNCHANGED <<resolvers, closed>> /\ Settle(proto)
      BY Zenon, <2>2 DEF LoseJoin, LoseJoinIf, RetiredJoin, RemoveReturns, SkipDrained, DrainedJoin,
         StopJoin, SkipDesired
    <3>2. QED
      BY <3>1, SettleStops
  <2>3. CASE Bind(t)
    <3>1. CASE UNCHANGED proto
      BY <1>0, <2>3, <3>1 DEF Bind
    <3>2. CASE ~UNCHANGED proto
      <4>1. PICK i \in Instance : proto[i] = "free" /\ proto' = [proto EXCEPT ![i] = "running"]
        BY Zenon, <2>3, <3>2 DEF Bind
      <4>2. \A b \in Binding : resolvers[b] # i
        BY <4>1 DEF HeldInv, Held
      <4>3. Registry!Start(i)
        BY <2>3, <4>1, <4>2 DEF Bind, Registry!Start, Live, TypeOK
      <4>4. QED
        BY <4>3 DEF Registry!Next, Registry!Instance, Instance
    <3>3. QED
      BY <3>1, <3>2
  <2>4. CASE Insert(t)
    <3>1. obj[t] \in Instance /\ Live(obj[t]) /\ bound(obj[t]) = binding[t]
      BY Zenon, <2>4 DEF Insert, InsertIf, LocalInv, LocalOK, WithObj, FreshInv, Candidate
    <3>2. CASE closed \/ resolvers[binding[t]] # None
      BY Zenon, <1>0, <2>4, <3>2 DEF Insert, InsertIf
    <3>3. CASE ~closed /\ resolvers[binding[t]] = None
      <4>1. Registry!Register(obj[t])
        BY <2>4, <3>1, <3>3 DEF Insert, InsertIf, Registry!Register, Live, bound
      <4>2. QED
        BY <3>1, <4>1 DEF Registry!Next, Registry!Instance, Instance
    <3>4. QED
      BY <3>2, <3>3
  <2>5. CASE Lose(t)
    <3>1. obj[t] \in Instance /\ \A b \in Binding : resolvers[b] # obj[t]
      BY Zenon, <2>5 DEF Lose, LocalInv, LocalOK, WithObj, FreshInv, Candidate, Unknown
    <3>2. \A i \in Instance : Live(i)' <=> Live(i) /\ i # obj[t]
      BY Zenon, <2>5, <3>1 DEF Lose, Aborted, Live, TypeOK
    <3>3. QED
      BY Zenon, <2>5, <3>1, <3>2, StopStep DEF Lose
  <2>6. CASE Take(t)
    <3>1. binding[t] \in Binding
      BY Zenon, <2>6 DEF Take, TakeLeaving, LocalInv, LocalOK, RemoveLabels
    <3>2. CASE resolvers[binding[t]] = None
      <4>1. UNCHANGED <<resolvers, closed>> /\ Settle(proto)
        BY <2>6, <3>1, <3>2 DEF Take, TakeLeaving, TypeOK
      <4>2. QED
        BY <4>1, SettleStops
    <3>3. CASE resolvers[binding[t]] # None
      <4>1. Held \subseteq Held'
        <5>1. obj' = [obj EXCEPT ![t] = resolvers[binding[t]]] /\ obj[t] \notin Instance
          BY <2>6, <3>3 DEF Take, TakeLeaving, LocalInv, LocalOK, WithObj
        <5>2. UNCHANGED <<handles, race, snap, drained>>
          BY <2>6, <3>3 DEF Take, TakeLeaving
        <5>3. \A i \in Instance, b \in Binding :
                resolvers[b] = i => resolvers'[b] = i \/ obj'[t] = i
          BY <2>6, <3>1, <5>1 DEF Take, TakeLeaving, TypeOK
        <5>4. \A i \in Instance, u \in Task : obj[u] = i => obj'[u] = i
          BY <5>1 DEF TypeOK
        <5>5. QED
          BY <5>2, <5>3, <5>4 DEF Held
      <4>2. \A i \in Instance : Live(i)' <=> Live(i)
        BY <2>6, <4>1 DEF Take, TakeLeaving, Settle, Live, DropInv
      <4>3. Registry!Unregister(binding[t])
        BY <2>6, <4>2 DEF Take, TakeLeaving, Registry!Unregister
      <4>4. QED
        BY <3>1, <4>3 DEF Registry!Next
    <3>4. QED
      BY <3>2, <3>3
  <2>7. CASE Retired(t)
    <3>1. obj[t] \in Instance /\ \A b \in Binding : resolvers[b] # obj[t]
      BY Zenon, <2>7 DEF Retired, LocalInv, LocalOK, WithObj, GoneInv
    <3>2. CASE Live(obj[t])
      BY Zenon, <2>7, <3>1, <3>2, AbortStops DEF Retired, Live
    <3>3. CASE ~Live(obj[t])
      BY Zenon, <2>7, <3>3, SettleStops DEF Retired, Live
    <3>4. QED
      BY <3>2, <3>3
  <2>8. CASE Close(t)
    <3>1. Registry!Close
      BY <2>8 DEF Close, Registry!Close, Live
    <3>2. QED
      BY <3>1 DEF Registry!Next
  <2>9. CASE Drain(t)
    <3>1. closed
      BY <2>9 DEF Drain, LocalInv, LocalOK
    <3>2. Registry!Empty
      BY <2>9, <3>1 DEF Drain, Registry!Empty, Live
    <3>3. QED
      BY <3>2 DEF Registry!Next
  <2>10. CASE NextDrained(t)
    <3>1. CASE UNCHANGED proto
      BY <1>0, <2>10, <3>1 DEF NextDrained
    <3>2. CASE ~UNCHANGED proto
      <4>1. PICK i \in drained[t] : proto' = Aborted(i)
        BY <2>10, <3>2 DEF NextDrained
      <4>2. i \in Instance /\ \A b \in Binding : resolvers[b] # i
        BY <4>1 DEF TypeOK, GoneInv
      <4>3. \A j \in Instance : Live(j)' <=> Live(j) /\ j # i
        BY <4>1, <4>2 DEF Aborted, Live, TypeOK
      <4>4. QED
        BY Zenon, <2>10, <4>2, <4>3, StopStep DEF NextDrained
    <3>3. QED
      BY <3>1, <3>2
  <2>11. CASE Stop(t)
    <3>1. obj[t] \in Instance /\ "stop" \in Ops
      BY Zenon, <2>11 DEF Stop, LocalInv, LocalOK, WithObj, StopInv
    <3>2. CASE Live(obj[t])
      BY Zenon, <2>11, <3>1, <3>2, AbortStops DEF Stop, Live
    <3>3. CASE ~Live(obj[t])
      BY Zenon, <2>11, <3>3, SettleStops DEF Stop, Live
    <3>4. QED
      BY <3>2, <3>3
  <2>12. QED
    BY <1>2, <2>1, <2>2, <2>3, <2>4, <2>5, <2>6, <2>7, <2>8, <2>9, <2>10, <2>11 DEF Step
<1>3. ASSUME NEW t \in Task, Cancel(t) PROVE Registry!Next
  BY <1>3, SettleStops DEF Cancel
<1>4. ASSUME NEW i \in Instance, DropHandle(i) PROVE Registry!Next
  BY <1>4, SettleStops DEF DropHandle
<1>5. ASSUME NEW i \in Instance, RouteEnds(i) \/ TasksExit(i) PROVE UNCHANGED Registry!vars
  BY Zenon, <1>5 DEF RouteEnds, TasksExit, Registry!vars, Live, TypeOK
<1>6. CASE HoldSnapshot \/ InterfacesChange \/ UNCHANGED vars
  BY <1>0, <1>6 DEF HoldSnapshot, InterfacesChange, vars
<1>7. QED
  BY Zenon, <1>0, <1>1, <1>2, <1>3, <1>4, <1>5, <1>6 DEF Next

(* The set is a registry: it maps bindings to instances that it has not    *)
(* stopped, adds to the map only while it is open, and stops an instance   *)
(* only when it is out of the map (mdns.rs:274-341, 423-440).              *)
THEOREM SetImplementsRegistry == Spec => ImplementsRegistry
<1>1. Init => Registry!Init
  BY DEF Init, Registry!Init, Live
<1>2. QED
  BY <1>1, RefStep, RefInvariance, PTL DEF Spec, ImplementsRegistry, Registry!Spec

(* Hence the set maps bindings to instances that nobody has stopped,       *)
(* unless the application stops one through its handle (mdns.rs:296-313,   *)
(* 329-341).  Their tasks may have ended on their own (protocol.rs:271).   *)
THEOREM RegisteredStaysUnstopped == Spec => []RegisteredIsUnstopped
<1>1. Init => RegisteredIsUnstopped
  BY ConstantsAssumption DEF Init, RegisteredIsUnstopped, Registered
<1>2. TypeOK /\ RegisteredIsUnstopped /\ [Registry!Next]_(Registry!vars) => RegisteredIsUnstopped'
  <2> SUFFICES ASSUME TypeOK, RegisteredIsUnstopped, "stop" \notin Ops,
                      Registry!Next \/ UNCHANGED Registry!vars,
                      NEW b \in Binding, NEW j \in Instance, resolvers'[b] = j
               PROVE  j \in {i \in Instance : Live(i)'}
    BY DEF RegisteredIsUnstopped, Registered
  <2> DEFINE R == {i \in Instance : Live(i)}
  <2>0. resolvers[b] = j => j \in R
    BY DEF RegisteredIsUnstopped, Registered
  <2>1. ASSUME NEW i \in Instance, Registry!Start(i) \/ Registry!Register(i)
        PROVE  j \in R'
    BY <2>0, <2>1 DEF Registry!Start, Registry!Register, TypeOK
  <2>2. ASSUME NEW c \in Binding, Registry!Unregister(c)
        PROVE  j \in R'
    BY <2>0, <2>2, ConstantsAssumption DEF Registry!Unregister, TypeOK
  <2>3. CASE Registry!Close \/ Registry!Empty \/ UNCHANGED Registry!vars
    BY <2>0, <2>3, ConstantsAssumption DEF Registry!Close, Registry!Empty, Registry!vars
  <2>4. ASSUME NEW is \in SUBSET Instance, Registry!Stop(is)
        PROVE  j \in R'
    BY <2>0, <2>4 DEF Registry!Stop
  <2>5. j \in R'
    BY <2>1, <2>2, <2>3, <2>4 DEF Registry!Next, Registry!Instance, Instance
  <2>6. QED
    BY <2>5
<1>3. Spec => []TypeOK
  BY TypeCorrect
<1>4. QED
  BY <1>1, <1>2, <1>3, RefStep, RefInvariance, PTL DEF Spec

-----------------------------------------------------------------------------
(* Handles *)

(* What upsert hands out is in the map, not a candidate that lost the      *)
(* race, whatever calls, cancellations and stops interleave                *)
(* (mdns.rs:296-327).                                                      *)
THEOREM LiveHandlesAreRegistered == Spec => []LiveHandleIsRegistered
<1>1. TypeOK /\ LocalInv /\ OwnInv /\ FreshInv => LiveHandleIsRegistered
  <2> SUFFICES ASSUME LocalInv, OwnInv, FreshInv, NEW i \in handles, i \in Instance, Live(i),
                      i \notin Registered, ~closed
               PROVE  \E t \in Task : obj[t] = i /\ pc[t] = "retired"
    BY DEF LiveHandleIsRegistered, TypeOK
  <2>1. PICK t \in Task : \/ obj[t] = i /\ pc[t] \in {"insert", "lose", "retired"}
                          \/ i \in drained[t]
    BY DEF OwnInv, Owned
  <2>2. i \notin drained[t]
    BY DEF LocalInv, LocalOK
  <2>3. obj[t] = i => pc[t] \notin {"insert", "lose"}
    BY DEF FreshInv, Candidate, Unknown
  <2>4. QED
    BY <2>1, <2>2, <2>3
<1>2. QED
  BY <1>1, Invariance, RefInvariance, PTL DEF RefInv
=============================================================================
