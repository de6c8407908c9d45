----------------------- MODULE MdnsResolverSetProofs -----------------------
(***************************************************************************)
(* Proofs about MdnsResolverSet, for any number of bindings, callers,      *)
(* maintenance tasks and instances.                                        *)
(***************************************************************************)
EXTENDS MdnsResolverSet, TLAPS

(* Labels at which a task holds an instance of its own. *)
WithObj == {"insert", "lose", "lose_join", "retired", "retired_join",
            "drained_join", "stop", "stop_join"}

(* What the locals of a task mean at each label: TypeOK is not inductive   *)
(* without it, for the map is read at binding[t] and written with obj[t].  *)
LocalOK(t) ==
  /\ pc[t] \in UpsertLabels \cup RemoveLabels => binding[t] \in Binding
  /\ obj[t] \in Instance <=> pc[t] \in WithObj
  /\ race[t] \in Instance => pc[t] \in {"lose", "lose_join"}
  /\ snap[t] # {} => /\ pc[t] \in {"retire", "take", "retired", "retired_join"}
                     /\ call[t] # "remove"
  /\ pc[t] \in {"tick", "snapshot", "retire"} => call[t] # "remove"
  /\ drained[t] # {} => pc[t] \in {"next_drained", "drained_join"}
  /\ pc[t] \in {"drain", "next_drained", "drained_join"} => closed

LocalInv == \A t \in Task : LocalOK(t)

(* What is referred to has not been dropped. *)
HeldInv == \A i \in Instance : i \in Held => proto[i] # "free"

(* A task that joins has aborted first. *)
JoinLabels == {"lose_join", "retired_join", "drained_join", "stop_join"}
JoinInv == \A t \in Task : pc[t] \in JoinLabels => ~Live(obj[t])

(* LiveIsOwned and UnownedOnlyAfterClose in one: an instance may live      *)
(* outside the map and the running calls only where calls are cancelled,   *)
(* and only after shutdown was called.                                     *)
OwnInv ==
  \A i \in Instance : Live(i)
    => i \in Registered \/ Owned(i) \/ ("cancel" \in Ops /\ closed)

(* The locals of a task. *)
Same(u) ==
  /\ call'[u] = call[u] /\ pc'[u] = pc[u] /\ binding'[u] = binding[u] /\ obj'[u] = obj[u]
  /\ race'[u] = race[u] /\ snap'[u] = snap[u] /\ drained'[u] = drained[u]
  /\ desired'[u] = desired[u] /\ todo'[u] = todo[u] /\ failed'[u] = failed[u]

(* What maintain leaves behind: a loop, in a task that did nothing. *)
Spawned(u) ==
  /\ u \in Maintainer /\ pc[u] = "idle" /\ pc'[u] = "tick" /\ call'[u] = "loop"
  /\ binding'[u] = binding[u] /\ obj'[u] = obj[u] /\ race'[u] = race[u]
  /\ snap'[u] = snap[u] /\ drained'[u] = drained[u] /\ desired'[u] = desired[u]
  /\ todo'[u] = todo[u] /\ failed'[u] = failed[u]

(* A task touches its own locals only, except where maintain spawns. *)
LEMMA Frame ==
  ASSUME TypeOK, NEW t \in Task, NEW u \in Task, u # t, Start(t) \/ Step(t) \/ Cancel(t)
  PROVE  Same(u) \/ (Ensure(t) /\ call[t] = "maintain" /\ todo[t] = {} /\ Spawned(u))
<1> USE DEF TypeOK, Same, Goto, Finish
<1>1. CASE Start(t)
  <2>1. CASE CallUpsert(t) \/ CallRemove(t) \/ CallShutdown(t) \/ CallStop(t)
    BY <2>1 DEF CallUpsert, Begin, CallRemove, CallShutdown, CallStop
  <2>2. CASE CallReconcile(t) \/ CallMaintain(t)
    BY <2>2 DEF CallReconcile, Begin, CallMaintain, Want
  <2>3. QED
    BY <1>1, <2>1, <2>2 DEF Start
<1>2. CASE UpsertClosed(t) \/ UpsertGet(t) \/ Bind(t) \/ Insert(t) \/ Lose(t) \/ LoseJoin(t)
  <2>1. CASE UpsertClosed(t) \/ UpsertGet(t) \/ Bind(t)
    BY <2>1 DEF UpsertClosed, UpsertGet, Bind, Report
  <2>2. CASE Insert(t) \/ Lose(t)
    BY <2>2 DEF Insert, InsertIf, Lose
  <2>3. CASE LoseJoin(t)
    BY <2>3 DEF LoseJoin, LoseJoinIf, Report
  <2>4. QED
    BY <1>2, <2>1, <2>2, <2>3
<1>3. CASE Take(t) \/ Retired(t) \/ RetiredJoin(t)
  BY <1>3 DEF Take, TakeLeaving, Retired, RetiredJoin, RemoveReturns
<1>4. CASE \/ Close(t) \/ Drain(t) \/ NextDrained(t) \/ SkipDrained(t) \/ DrainedJoin(t)
           \/ Stop(t) \/ StopJoin(t)
  BY Zenon, <1>4 DEF Close, Drain, NextDrained, SkipDrained, DrainedJoin, Stop, StopJoin
<1>5. CASE Snapshot(t) \/ Retire(t) \/ SkipDesired(t) \/ Tick(t)
  BY <1>5 DEF Snapshot, Retire, RetireFrom, SkipDesired, Tick, TickFor, Want
<1>6. CASE Ensure(t)
  BY Zenon, <1>6 DEF Ensure, IdleMaintainers, Spawned, Task
<1>7. CASE Cancel(t)
  BY <1>7 DEF Cancel
<1>8. QED
  BY Zenon, <1>1, <1>2, <1>3, <1>4, <1>5, <1>6, <1>7 DEF Step

(* The next step of a task is the one of its label. *)
LEMMA StepOf ==
  ASSUME NEW t \in Task, Step(t)
  PROVE  /\ pc[t] = "upsert_closed" => UpsertClosed(t)
         /\ pc[t] = "upsert_get" => UpsertGet(t)
         /\ pc[t] = "bind" => Bind(t)
         /\ pc[t] = "insert" => Insert(t)
         /\ pc[t] = "lose" => Lose(t)
         /\ pc[t] = "lose_join" => LoseJoin(t)
         /\ pc[t] = "take" => Take(t)
         /\ pc[t] = "retired" => Retired(t)
         /\ pc[t] = "retired_join" => RetiredJoin(t)
         /\ pc[t] = "close" => Close(t)
         /\ pc[t] = "drain" => Drain(t)
         /\ pc[t] = "next_drained" => NextDrained(t) \/ SkipDrained(t)
         /\ pc[t] = "drained_join" => DrainedJoin(t)
         /\ pc[t] = "stop" => Stop(t)
         /\ pc[t] = "stop_join" => StopJoin(t)
         /\ pc[t] = "snapshot" => Snapshot(t)
         /\ pc[t] = "retire" => Retire(t) \/ SkipDesired(t)
         /\ pc[t] = "ensure" => Ensure(t)
         /\ pc[t] = "tick" => Tick(t)
         /\ pc[t] # "idle"
  BY Zenon DEF Step, UpsertClosed, UpsertGet, Bind, Insert, InsertIf, Lose, LoseJoin, LoseJoinIf, Take,
     TakeLeaving, Retired, RetiredJoin, Close, Drain, NextDrained, SkipDrained, DrainedJoin, Stop,
     StopJoin, Snapshot, Retire, RetireFrom, SkipDesired, Ensure, Tick, TickFor

(* Only insert, take and drain write the map, only close the flag. *)
LEMMA MapWriters ==
  ASSUME NEW t \in Task, Start(t) \/ Step(t) \/ Cancel(t)
  PROVE  /\ Insert(t) \/ Take(t) \/ Drain(t) \/ UNCHANGED resolvers
         /\ Close(t) \/ UNCHANGED closed
  BY Zenon DEF Start, CallUpsert, Begin, CallRemove, CallReconcile, CallMaintain, CallShutdown, CallStop,
     Cancel, Step, UpsertClosed, UpsertGet, Bind, Insert, InsertIf, Lose, LoseJoin, LoseJoinIf,
     Take, TakeLeaving, Retired, RetiredJoin, Close, Drain, NextDrained, SkipDrained, DrainedJoin,
     Stop, StopJoin, Snapshot, Retire, RetireFrom, SkipDesired, Ensure, Tick, TickFor

(* Only bind makes an instance live. *)
LEMMA OnlyBindStarts ==
  ASSUME TypeOK, [Next]_vars, NEW i \in Instance, Live(i)'
  PROVE  Live(i) \/ \E t \in Task : Bind(t) /\ proto[i] = "free" /\ obj'[t] = i
<1>0. proto \in [Instance -> ProtoStates] /\ obj \in [Task -> Instance \cup {None}]
  BY DEF TypeOK
<1> USE <1>0 DEF Live
<1>1. ASSUME NEW t \in Task, Start(t) PROVE Live(i)
  BY <1>1 DEF Start, CallUpsert, Begin, CallRemove, CallReconcile, CallMaintain, CallShutdown,
     CallStop
<1>2. ASSUME NEW t \in Task,
             \/ LoseJoin(t) \/ Take(t) \/ RetiredJoin(t) \/ SkipDrained(t) \/ DrainedJoin(t)
             \/ StopJoin(t) \/ SkipDesired(t) \/ Cancel(t)
      PROVE  Live(i)
  <2>1. Settle(proto)
    BY Zenon, <1>2 DEF LoseJoin, LoseJoinIf, Take, TakeLeaving, RetiredJoin, SkipDrained, DrainedJoin,
       StopJoin, SkipDesired, Cancel
  <2>2. QED
    BY <2>1 DEF Settle
<1>3. ASSUME NEW t \in Task, Retired(t) \/ Stop(t) PROVE Live(i)
  BY <1>3 DEF Retired, Stop, Settle, Aborted
<1>4. ASSUME NEW t \in Task, Lose(t) \/ NextDrained(t) PROVE Live(i)
  BY <1>4 DEF Lose, NextDrained, Aborted
<1>5. ASSUME NEW t \in Task,
             \/ UpsertClosed(t) \/ UpsertGet(t) \/ Insert(t) \/ Close(t) \/ Drain(t)
             \/ Snapshot(t) \/ Retire(t) \/ Ensure(t) \/ Tick(t)
      PROVE  Live(i)
  BY Zenon, <1>5 DEF UpsertClosed, UpsertGet, Insert, InsertIf, Close, Drain, Snapshot, Retire,
     RetireFrom, Ensure, Tick, TickFor
<1>6. ASSUME NEW t \in Task, Bind(t), ~Live(i) PROVE proto[i] = "free" /\ obj'[t] = i
  BY Zenon, <1>6 DEF Bind
<1>7. CASE \/ HoldSnapshot \/ InterfacesChange \/ UNCHANGED vars
           \/ \E j \in Instance : DropHandle(j) \/ RouteEnds(j) \/ TasksExit(j)
  BY <1>7 DEF HoldSnapshot, InterfacesChange, DropHandle, RouteEnds, TasksExit, Settle, vars
<1> HIDE <1>0 DEF Live
<1>8. ASSUME NEW t \in Task, Step(t), ~Live(i)
      PROVE  Bind(t) /\ proto[i] = "free" /\ obj'[t] = i
  <2>1. Bind(t)
    BY <1>2, <1>3, <1>4, <1>5, <1>8 DEF Step
  <2>2. QED
    BY <1>6, <1>8, <2>1
<1>9. QED
  BY <1>1, <1>2, <1>7, <1>8 DEF Next

(* Every step keeps the types. *)
LEMMA TypeStep == TypeOK /\ LocalInv /\ [Next]_vars => TypeOK'
<1> SUFFICES ASSUME TypeOK, LocalInv, [Next]_vars PROVE TypeOK'
  OBVIOUS
<1> USE ConstantsAssumption DEF TypeOK, WithObj, Task, Labels, UpsertLabels, RemoveLabels,
        ShutdownLabels, Calls, ProtoStates, Goto, Finish
<1>1. ASSUME NEW t \in Task, Start(t) PROVE TypeOK'
  <2>1. CASE CallUpsert(t)
    BY <2>1 DEF CallUpsert, Begin
  <2>2. CASE CallRemove(t)
    BY <2>2 DEF CallRemove, Begin
  <2>3. CASE CallReconcile(t)
    BY <2>3 DEF CallReconcile, Begin, Want
  <2>4. CASE CallMaintain(t)
    BY <2>4 DEF CallMaintain, Begin, Want
  <2>5. CASE CallShutdown(t)
    BY <2>5 DEF CallShutdown, Begin
  <2>6. CASE CallStop(t)
    BY <2>6 DEF CallStop, Begin
  <2>7. QED
    BY Zenon, <1>1, <2>1, <2>2, <2>3, <2>4, <2>5, <2>6 DEF Start
<1>2. ASSUME NEW t \in Task, Step(t) PROVE TypeOK'
  <2>0. LocalOK(t)
    BY DEF LocalInv
  <2> USE <2>0 DEF LocalOK
  <2>1. CASE UpsertClosed(t)
    BY <2>1 DEF UpsertClosed, Report, AfterUpsert
  <2>2. CASE UpsertGet(t)
    BY <2>2 DEF UpsertGet, Return, AfterUpsert
  <2>3. CASE Bind(t)
    BY <2>3 DEF Bind, Report, AfterUpsert
  <2>4. CASE Insert(t)
    BY <2>4 DEF Insert, InsertIf, Return, AfterUpsert
  <2>5. CASE Lose(t)
    BY <2>5 DEF Lose, Aborted
  <2>6. CASE LoseJoin(t)
    BY <2>6 DEF LoseJoin, LoseJoinIf, Return, Report, AfterUpsert, Settle
  <2>7. CASE Take(t)
    BY <2>7 DEF Take, TakeLeaving, RemoveReturns, AfterRemove, Settle
  <2>8. CASE Retired(t)
    BY <2>8 DEF Retired, RemoveReturns, AfterRemove, Settle, Aborted
  <2>9. CASE RetiredJoin(t)
    BY <2>9 DEF RetiredJoin, RemoveReturns, AfterRemove, Settle
  <2>10. CASE Close(t)
    BY <2>10 DEF Close
  <2>11. CASE Drain(t)
    BY <2>11 DEF Drain, Registered
  <2>12. CASE NextDrained(t)
    BY <2>12 DEF NextDrained, Aborted
  <2>13. CASE SkipDrained(t) \/ SkipDesired(t)
    BY <2>13 DEF SkipDrained, SkipDesired, Settle
  <2>14. CASE DrainedJoin(t)
    BY <2>14 DEF DrainedJoin, Settle
  <2>15. CASE Stop(t)
    BY <2>15 DEF Stop, Settle, Aborted
  <2>16. CASE StopJoin(t)
    BY <2>16 DEF StopJoin, Settle
  <2>17. CASE Snapshot(t)
    BY <2>17 DEF Snapshot, Registered
  <2>18. CASE Retire(t)
    BY <2>18 DEF Retire, RetireFrom, bound, Instance
  <2>19. CASE Ensure(t)
    BY <2>19 DEF Ensure, IdleMaintainers
  <2>20. CASE Tick(t)
    BY <2>20 DEF Tick, TickFor, Want
  <2>21. QED
    BY Zenon, <1>2, <2>1, <2>2, <2>3, <2>4, <2>5, <2>6, <2>7, <2>8, <2>9, <2>10, <2>11,
       <2>12, <2>13, <2>14, <2>15, <2>16, <2>17, <2>18, <2>19, <2>20 DEF Step
<1>3. ASSUME NEW t \in Task, Cancel(t) PROVE TypeOK'
  BY Zenon, <1>3 DEF Cancel, Settle
<1>4. ASSUME NEW i \in Instance, DropHandle(i) PROVE TypeOK'
  BY <1>4 DEF DropHandle, Settle, taskVars
<1>5. ASSUME NEW i \in Instance, RouteEnds(i) \/ TasksExit(i) PROVE TypeOK'
  BY <1>5 DEF RouteEnds, TasksExit, taskVars
<1>6. CASE HoldSnapshot \/ InterfacesChange \/ UNCHANGED vars
  BY <1>6 DEF HoldSnapshot, InterfacesChange, Registered, vars, taskVars
<1>7. QED
  BY Zenon, <1>1, <1>2, <1>3, <1>4, <1>5, <1>6 DEF Next

(* Every step keeps the meaning of the locals. *)
LEMMA LocalStep == TypeOK /\ LocalInv /\ [Next]_vars => LocalInv'
<1> SUFFICES ASSUME TypeOK, LocalInv, [Next]_vars PROVE LocalInv'
  OBVIOUS
<1> USE ConstantsAssumption DEF TypeOK, LocalInv, LocalOK, WithObj, Task, UpsertLabels,
        RemoveLabels, Goto, Finish
<1>1. ASSUME NEW t \in Task, Start(t) PROVE LocalInv'
  <2>1. CASE CallUpsert(t)
    BY <2>1 DEF CallUpsert, Begin
  <2>2. CASE CallRemove(t)
    BY <2>2 DEF CallRemove, Begin
  <2>3. CASE CallReconcile(t)
    BY <2>3 DEF CallReconcile, Begin, Want
  <2>4. CASE CallMaintain(t)
    BY <2>4 DEF CallMaintain, Begin, Want
  <2>5. CASE CallShutdown(t)
    BY <2>5 DEF CallShutdown, Begin
  <2>6. CASE CallStop(t)
    BY <2>6 DEF CallStop, Begin
  <2>7. QED
    BY <1>1, <2>1, <2>2, <2>3, <2>4, <2>5, <2>6 DEF Start
<1>2. ASSUME NEW t \in Task, Step(t) PROVE LocalInv'
  <2>1. CASE UpsertClosed(t)
    BY <2>1 DEF UpsertClosed, Report, AfterUpsert
  <2>2. CASE UpsertGet(t)
    BY <2>2 DEF UpsertGet, Return, AfterUpsert
  <2>3. CASE Bind(t)
    BY <2>3 DEF Bind, Report, AfterUpsert
  <2>4. CASE Insert(t)
    BY <2>4 DEF Insert, InsertIf, Return, AfterUpsert
  <2>5. CASE Lose(t)
    BY <2>5 DEF Lose, Aborted
  <2>6. CASE LoseJoin(t)
    BY Zenon, <2>6 DEF LoseJoin, LoseJoinIf, Return, Report, AfterUpsert, Settle
  <2>7. CASE Take(t)
    BY <2>7 DEF Take, TakeLeaving, RemoveReturns, AfterRemove, Settle
  <2>8. CASE Retired(t)
    BY <2>8 DEF Retired, RemoveReturns, AfterRemove, Settle, Aborted
  <2>9. CASE RetiredJoin(t)
    BY Zenon, <2>9 DEF RetiredJoin, RemoveReturns, AfterRemove, Settle
  <2>10. CASE Close(t)
    BY <2>10 DEF Close
  <2>11. CASE Drain(t)
    BY Zenon, <2>11 DEF Drain, Registered
  <2>12. CASE NextDrained(t)
    BY <2>12 DEF NextDrained, Aborted
  <2>13. CASE SkipDrained(t) \/ SkipDesired(t)
    BY Zenon, <2>13 DEF SkipDrained, SkipDesired, Settle
  <2>14. CASE DrainedJoin(t)
    BY Zenon, <2>14 DEF DrainedJoin, Settle
  <2>15. CASE Stop(t)
    BY <2>15 DEF Stop, Settle, Aborted
  <2>16. CASE StopJoin(t)
    BY Zenon, <2>16 DEF StopJoin, Settle
  <2>17. CASE Snapshot(t)
    BY Zenon, <2>17 DEF Snapshot, Registered
  <2>18. CASE Retire(t)
    BY <2>18 DEF Retire, RetireFrom, bound, Instance
  <2>19. CASE Ensure(t)
    BY <2>19 DEF Ensure, IdleMaintainers
  <2>20. CASE Tick(t)
    BY <2>20 DEF Tick, TickFor, Want
  <2>21. QED
    BY Zenon, <1>2, <2>1, <2>2, <2>3, <2>4, <2>5, <2>6, <2>7, <2>8, <2>9, <2>10, <2>11,
       <2>12, <2>13, <2>14, <2>15, <2>16, <2>17, <2>18, <2>19, <2>20 DEF Step
<1>3. ASSUME NEW t \in Task, Cancel(t) PROVE LocalInv'
  BY Zenon, <1>3 DEF Cancel, Settle
<1>4. ASSUME NEW i \in Instance, DropHandle(i) PROVE LocalInv'
  BY Zenon, <1>4 DEF DropHandle, Settle, taskVars
<1>5. ASSUME NEW i \in Instance, RouteEnds(i) \/ TasksExit(i) PROVE LocalInv'
  BY Zenon, <1>5 DEF RouteEnds, TasksExit, taskVars
<1>6. CASE HoldSnapshot \/ InterfacesChange \/ UNCHANGED vars
  BY Zenon, <1>6 DEF HoldSnapshot, InterfacesChange, Registered, vars, taskVars
<1>7. QED
  BY Zenon, <1>1, <1>2, <1>3, <1>4, <1>5, <1>6 DEF Next

(* What is still referred to is not dropped. *)
LEMMA OnlyReleaseDrops ==
  ASSUME TypeOK, [Next]_vars, NEW i \in Instance, i \in Held', proto[i] # "free"
  PROVE  proto'[i] # "free"
<1>0. proto \in [Instance -> ProtoStates]
  BY DEF TypeOK
<1>1. ASSUME NEW t \in Task, Start(t) PROVE proto' = proto
  BY <1>1 DEF Start, CallUpsert, Begin, CallRemove, CallReconcile, CallMaintain, CallShutdown,
     CallStop
<1>2. ASSUME Settle(proto) PROVE proto'[i] # "free"
  BY <1>2 DEF Settle
<1>3. ASSUME NEW j, proto' = Aborted(j) \/ Settle(Aborted(j)) PROVE proto'[i] # "free"
  BY <1>0, <1>3 DEF Settle, Aborted
<1>4. ASSUME NEW t \in Task,
             \/ LoseJoin(t) \/ Take(t) \/ RetiredJoin(t) \/ SkipDrained(t) \/ DrainedJoin(t)
             \/ StopJoin(t) \/ SkipDesired(t) \/ Cancel(t)
      PROVE  Settle(proto)
  BY Zenon, <1>4 DEF LoseJoin, LoseJoinIf, Take, TakeLeaving, RetiredJoin, SkipDrained, DrainedJoin,
     StopJoin, SkipDesired, Cancel
<1>5. ASSUME NEW t \in Task, Retired(t) \/ Stop(t) \/ Lose(t) \/ NextDrained(t)
      PROVE  \/ proto' = proto \/ Settle(proto)
             \/ \E j : proto' = Aborted(j) \/ Settle(Aborted(j))
  BY <1>5 DEF Retired, Stop, Lose, NextDrained
<1>6. ASSUME NEW t \in Task,
             \/ UpsertClosed(t) \/ UpsertGet(t) \/ Insert(t) \/ Close(t) \/ Drain(t)
             \/ Snapshot(t) \/ Retire(t) \/ Ensure(t) \/ Tick(t)
      PROVE  proto' = proto
  BY Zenon, <1>6 DEF UpsertClosed, UpsertGet, Insert, InsertIf, Close, Drain, Snapshot, Retire,
     RetireFrom, Ensure, Tick, TickFor
<1>7. ASSUME NEW t \in Task, Bind(t) PROVE proto'[i] # "free"
  BY Zenon, <1>0, <1>7 DEF Bind
<1>8. CASE HoldSnapshot \/ InterfacesChange \/ UNCHANGED vars
  BY <1>8 DEF HoldSnapshot, InterfacesChange, vars
<1>9. ASSUME NEW j \in Instance, DropHandle(j) \/ RouteEnds(j) \/ TasksExit(j)
      PROVE  proto'[i] # "free"
  BY <1>0, <1>2, <1>9 DEF DropHandle, RouteEnds, TasksExit
<1>10. ASSUME NEW t \in Task, Step(t) PROVE proto'[i] # "free"
  BY <1>2, <1>3, <1>4, <1>5, <1>6, <1>7, <1>10 DEF Step
<1>11. QED
  BY <1>1, <1>2, <1>4, <1>8, <1>9, <1>10 DEF Next

(* Where the references of a call come from. *)
LEMMA Referrers ==
  ASSUME TypeOK, NEW t \in Task, Start(t) \/ Step(t) \/ Cancel(t)
  PROVE  /\ obj'[t] \in {obj[t], None} \/ CallStop(t) \/ Bind(t) \/ Take(t) \/ NextDrained(t)
         /\ race'[t] \in {race[t], None} \/ Insert(t)
         /\ snap'[t] \subseteq snap[t] \/ Snapshot(t)
         /\ drained'[t] \subseteq drained[t] \/ Drain(t)
         /\ handles' \subseteq handles \/ UpsertGet(t) \/ Insert(t) \/ LoseJoin(t)
<1>0. /\ obj \in [Task -> Instance \cup {None}] /\ race \in [Task -> Instance \cup {None}]
      /\ snap \in [Task -> SUBSET Instance] /\ drained \in [Task -> SUBSET Instance]
  BY DEF TypeOK
<1> DEFINE Keeps == /\ obj'[t] \in {obj[t], None} /\ race'[t] \in {race[t], None}
                    /\ snap'[t] \subseteq snap[t] /\ drained'[t] \subseteq drained[t]
                    /\ handles' \subseteq handles
<1>1. CASE Start(t)
  BY Zenon, <1>1 DEF Start, CallUpsert, Begin, CallRemove, CallReconcile, CallMaintain, CallShutdown,
     CallStop
<1>2. CASE Cancel(t)
  BY <1>0, <1>2 DEF Cancel
<1>3. CASE UpsertClosed(t) \/ UpsertGet(t) \/ Bind(t) \/ Insert(t) \/ Lose(t)
  BY Zenon, <1>0, <1>3 DEF UpsertClosed, UpsertGet, Bind, Insert, InsertIf, Lose
<1>4. CASE LoseJoin(t) \/ Take(t)
  <2>1. LoseJoin(t) => obj'[t] = None /\ race'[t] = None /\ UNCHANGED <<snap, drained>>
    BY <1>0 DEF LoseJoin, LoseJoinIf
  <2>2. Take(t) => snap'[t] \subseteq snap[t] /\ UNCHANGED <<race, drained, handles>>
    BY <1>0 DEF Take, TakeLeaving, RemoveReturns
  <2>3. QED
    BY <1>4, <2>1, <2>2
<1>5. CASE Retired(t) \/ RetiredJoin(t) \/ StopJoin(t) \/ DrainedJoin(t) \/ Stop(t)
  <2>1. Keeps
    BY Zenon, <1>0, <1>5 DEF Retired, RetiredJoin, RemoveReturns, StopJoin, DrainedJoin, Stop
  <2>2. QED
    BY <2>1
<1>6. CASE Close(t) \/ Drain(t) \/ NextDrained(t) \/ SkipDrained(t)
  BY <1>0, <1>6 DEF Close, Drain, NextDrained, SkipDrained
<1>7. CASE Snapshot(t) \/ Retire(t) \/ SkipDesired(t) \/ Ensure(t) \/ Tick(t)
  BY Zenon, <1>0, <1>7 DEF Snapshot, Retire, RetireFrom, SkipDesired, Ensure, Tick, TickFor
<1>8. QED
  BY Zenon, <1>1, <1>2, <1>3, <1>4, <1>5, <1>6, <1>7 DEF Step

(* Where the call of t gets a reference to i from: the map, the            *)
(* application, or the candidate it bound.                                 *)
Mapped(i) == \E b \in Binding : resolvers[b] = i
Inserted(t, i) == Insert(t) /\ obj[t] = i /\ obj'[t] = None
Sourced(t, i) ==
  /\ \A b \in Binding : resolvers'[b] = i => resolvers[b] = i \/ Inserted(t, i)
  /\ i \in handles' => i \in handles \/ Mapped(i) \/ race[t] = i \/ Inserted(t, i)
  /\ obj'[t] = i => obj[t] = i \/ i \in handles \/ Mapped(i) \/ i \in drained[t]
  /\ race'[t] = i => race[t] = i \/ Mapped(i)
  /\ i \in snap'[t] => i \in snap[t] \/ Mapped(i)
  /\ i \in drained'[t] => i \in drained[t] \/ (Mapped(i) /\ Drain(t))

LEMMA Sources ==
  ASSUME TypeOK, LocalInv, NEW t \in Task, Start(t) \/ Step(t) \/ Cancel(t), ~Bind(t),
         NEW i \in Instance
  PROVE  Sourced(t, i)
<1>0. /\ resolvers \in [Binding -> Instance \cup {None}]
      /\ obj \in [Task -> Instance \cup {None}] /\ race \in [Task -> Instance \cup {None}]
      /\ snap \in [Task -> SUBSET Instance] /\ drained \in [Task -> SUBSET Instance]
  BY DEF TypeOK
<1>1. i # None
  BY ConstantsAssumption
<1>2. pc[t] \in UpsertLabels \cup RemoveLabels => binding[t] \in Binding
  BY DEF LocalInv, LocalOK
<1>3. \A b \in Binding : resolvers'[b] = i => resolvers[b] = i \/ Inserted(t, i)
  <2>1. Insert(t) => \A b \in Binding : resolvers'[b] = i => resolvers[b] = i \/ Inserted(t, i)
    BY <1>0 DEF Insert, InsertIf, Inserted
  <2>2. Take(t) => \A b \in Binding : resolvers'[b] = i => resolvers[b] = i
    BY <1>0, <1>1 DEF Take, TakeLeaving
  <2>3. Drain(t) => \A b \in Binding : resolvers'[b] # i
    BY <1>1 DEF Drain
  <2>4. QED
    BY <2>1, <2>2, <2>3, MapWriters
<1>4. i \in handles' => i \in handles \/ Mapped(i) \/ race[t] = i \/ Inserted(t, i)
  <2>1. UpsertGet(t) /\ i \in handles' => i \in handles \/ Mapped(i)
    BY <1>2 DEF UpsertGet, Return, UpsertLabels, Mapped
  <2>2. Insert(t) /\ i \in handles' => i \in handles \/ Inserted(t, i)
    BY <1>0 DEF Insert, InsertIf, Return, Inserted
  <2>3. LoseJoin(t) /\ i \in handles' => i \in handles \/ race[t] = i
    BY Zenon DEF LoseJoin, LoseJoinIf, Return
  <2>4. QED
    BY <2>1, <2>2, <2>3, Referrers
<1>5. obj'[t] = i => obj[t] = i \/ i \in handles \/ Mapped(i) \/ i \in drained[t]
  <2>1. CallStop(t) /\ obj'[t] = i => i \in handles
    BY <1>0 DEF CallStop
  <2>2. Take(t) /\ obj'[t] = i => obj[t] = i \/ Mapped(i)
    BY <1>0, <1>2 DEF Take, TakeLeaving, RemoveLabels, Mapped
  <2>3. NextDrained(t) /\ obj'[t] = i => obj[t] = i \/ i \in drained[t]
    BY <1>0 DEF NextDrained
  <2>4. QED
    BY <1>1, <2>1, <2>2, <2>3, Referrers
<1>6. race'[t] = i => race[t] = i \/ Mapped(i)
  <2>1. Insert(t) /\ race'[t] = i => race[t] = i \/ Mapped(i)
    BY <1>0, <1>1, <1>2 DEF Insert, InsertIf, UpsertLabels, Mapped
  <2>2. QED
    BY <1>1, <2>1, Referrers
<1>7. i \in snap'[t] => i \in snap[t] \/ Mapped(i)
  <2>1. Snapshot(t) /\ i \in snap'[t] => Mapped(i)
    BY <1>0 DEF Snapshot, Registered, Mapped
  <2>2. QED
    BY <2>1, Referrers
<1>8. i \in drained'[t] => i \in drained[t] \/ (Mapped(i) /\ Drain(t))
  <2>1. Drain(t) /\ i \in drained'[t] => Mapped(i)
    BY <1>0 DEF Drain, Registered, Mapped
  <2>2. QED
    BY <2>1, Referrers
<1>9. QED
  BY <1>3, <1>4, <1>5, <1>6, <1>7, <1>8 DEF Sourced

(* New references are to instances that were referred to, or just bound. *)
LEMMA OnlyBindRefers ==
  ASSUME TypeOK, LocalInv, [Next]_vars, NEW i \in Instance, i \in Held', i \notin Held
  PROVE  \E t \in Task : Bind(t) /\ proto'[i] = "running"
<1>0. obj \in [Task -> Instance \cup {None}] /\ proto \in [Instance -> ProtoStates]
  BY DEF TypeOK
<1>1. /\ \A b \in Binding : resolvers[b] # i
      /\ i \notin handles
      /\ \A u \in Task : obj[u] # i /\ race[u] # i /\ i \notin snap[u] /\ i \notin drained[u]
  BY DEF Held
<1>2. ASSUME NEW t \in Task, Start(t) \/ Step(t) \/ Cancel(t), ~Bind(t) PROVE FALSE
  <2>1. /\ \A b \in Binding : resolvers'[b] # i
        /\ i \notin handles'
        /\ obj'[t] # i /\ race'[t] # i /\ i \notin snap'[t] /\ i \notin drained'[t]
    <3>1. Sourced(t, i)
      BY <1>2, Sources
    <3>2. ~Mapped(i)
      BY <1>1 DEF Mapped
    <3>3. QED
      BY <1>1, <3>1, <3>2 DEF Sourced, Inserted
  <2>2. ASSUME NEW u \in Task, u # t
        PROVE  obj'[u] # i /\ race'[u] # i /\ i \notin snap'[u] /\ i \notin drained'[u]
    BY <1>1, <1>2, <2>2, Frame DEF Same, Spawned
  <2>3. QED
    BY <2>1, <2>2 DEF Held
<1>3. ASSUME NEW t \in Task, Bind(t) PROVE proto'[i] = "running"
  <2>1. UNCHANGED <<resolvers, handles, race, snap, drained>>
    BY <1>3 DEF Bind
  <2>2. PICK u \in Task : obj'[u] = i
    BY <1>1, <2>1 DEF Held
  <2>3. PICK j \in Instance : /\ obj' = [obj EXCEPT ![t] = j]
                              /\ proto' = [proto EXCEPT ![j] = "running"]
    BY Zenon, <1>1, <1>3, <2>2 DEF Bind
  <2>4. i = j
    BY <1>0, <1>1, <2>2, <2>3
  <2>5. QED
    BY <1>0, <2>3, <2>4
<1>4. ~\E j \in Instance : DropHandle(j) \/ RouteEnds(j) \/ TasksExit(j)
  BY DEF DropHandle, RouteEnds, TasksExit, taskVars, Held
<1>5. ~HoldSnapshot /\ ~InterfacesChange /\ ~UNCHANGED vars
  BY DEF HoldSnapshot, InterfacesChange, vars, taskVars, Held, Registered
<1>6. QED
  BY <1>2, <1>3, <1>4, <1>5 DEF Next

(* So what is referred to has not been dropped. *)
LEMMA HeldStep == TypeOK /\ LocalInv /\ HeldInv /\ [Next]_vars => HeldInv'
<1> SUFFICES ASSUME TypeOK, LocalInv, HeldInv, [Next]_vars, NEW i \in Instance, i \in Held'
             PROVE  proto'[i] # "free"
  BY DEF HeldInv
<1>1. CASE i \in Held
  BY <1>1, OnlyReleaseDrops DEF HeldInv
<1>2. CASE i \notin Held
  BY <1>2, OnlyBindRefers
<1>3. QED
  BY <1>1, <1>2

(* What is still referred to is stopped only by a call that holds it. *)
LEMMA OnlyHolderStops ==
  ASSUME TypeOK, [Next]_vars, NEW i \in Instance, Live(i), ~Live(i)', i \in Held'
  PROVE  \E t \in Task : \/ obj[t] = i /\ (Lose(t) \/ Retired(t) \/ Stop(t))
                         \/ i \in drained[t] /\ NextDrained(t)
<1>0. proto \in [Instance -> ProtoStates] /\ drained \in [Task -> SUBSET Instance]
  BY DEF TypeOK
<1>1. ~Settle(proto) /\ proto' # proto
  BY DEF Settle, Live
<1>2. ASSUME NEW t \in Task PROVE ~Start(t) /\ ~Cancel(t)
  BY <1>1 DEF Start, CallUpsert, Begin, CallRemove, CallReconcile, CallMaintain, CallShutdown,
     CallStop, Cancel
<1>3. ASSUME NEW t \in Task, Step(t)
      PROVE  Bind(t) \/ Lose(t) \/ Retired(t) \/ Stop(t) \/ NextDrained(t)
  <2>1. /\ ~LoseJoin(t) /\ ~Take(t) /\ ~RetiredJoin(t) /\ ~SkipDrained(t) /\ ~DrainedJoin(t)
        /\ ~StopJoin(t) /\ ~SkipDesired(t)
    BY Zenon, <1>1 DEF LoseJoin, LoseJoinIf, Take, TakeLeaving, RetiredJoin, SkipDrained, DrainedJoin,
       StopJoin, SkipDesired
  <2>2. /\ ~UpsertClosed(t) /\ ~UpsertGet(t) /\ ~Insert(t) /\ ~Close(t) /\ ~Drain(t)
        /\ ~Snapshot(t) /\ ~Retire(t) /\ ~Ensure(t) /\ ~Tick(t)
    BY Zenon, <1>1 DEF UpsertClosed, UpsertGet, Insert, InsertIf, Close, Drain, Snapshot, Retire,
       RetireFrom, Ensure, Tick, TickFor
  <2>3. QED
    BY <1>3, <2>1, <2>2 DEF Step
<1>4. ASSUME NEW t \in Task PROVE ~Bind(t)
  BY Zenon, <1>0, <1>1 DEF Bind, Live
<1>5. ASSUME NEW t \in Task, Lose(t) \/ Retired(t) \/ Stop(t) PROVE obj[t] = i
  BY <1>0, <1>1, <1>5 DEF Lose, Retired, Stop, Settle, Aborted, Live
<1>6. ASSUME NEW t \in Task, NextDrained(t) PROVE i \in drained[t]
  BY <1>0, <1>1, <1>6 DEF NextDrained, Aborted, Live
<1>7. ~HoldSnapshot /\ ~InterfacesChange /\ ~UNCHANGED vars
  BY <1>1 DEF HoldSnapshot, InterfacesChange, vars
<1>8. ASSUME NEW j \in Instance PROVE ~DropHandle(j) /\ ~RouteEnds(j) /\ ~TasksExit(j)
  BY <1>0, <1>1 DEF DropHandle, RouteEnds, TasksExit, Live
<1>9. QED
  BY <1>2, <1>3, <1>4, <1>5, <1>6, <1>7, <1>8 DEF Next

(* The steps that let go of a reference without settling what becomes of   *)
(* the instance.                                                           *)
LEMMA Releasers ==
  ASSUME TypeOK, NEW t \in Task, Start(t) \/ Step(t) \/ Cancel(t), ~\E p : Settle(p)
  PROVE  /\ obj'[t] = obj[t] \/ CallStop(t) \/ Bind(t) \/ Insert(t) \/ NextDrained(t)
         /\ race'[t] = race[t] \/ Insert(t)
         /\ snap'[t] = snap[t] \/ Snapshot(t)
         /\ drained'[t] = drained[t] \/ Drain(t) \/ NextDrained(t)
         /\ handles \subseteq handles'
         /\ ~Take(t)
<1>1. CASE Start(t)
  BY Zenon, <1>1 DEF Start, CallUpsert, Begin, CallRemove, CallReconcile, CallMaintain, CallShutdown,
     CallStop, Take, TakeLeaving
<1>2. ~Cancel(t)
  BY DEF Cancel
<1>3. /\ ~LoseJoin(t) /\ ~Take(t) /\ ~RetiredJoin(t) /\ ~SkipDrained(t) /\ ~DrainedJoin(t)
      /\ ~StopJoin(t) /\ ~SkipDesired(t) /\ ~Retired(t) /\ ~Stop(t)
  BY Zenon DEF LoseJoin, LoseJoinIf, Take, TakeLeaving, RetiredJoin, SkipDrained, DrainedJoin,
     StopJoin, SkipDesired, Retired, Stop
<1>4. CASE \/ UpsertClosed(t) \/ UpsertGet(t) \/ Bind(t) \/ Insert(t) \/ Lose(t) \/ Close(t)
           \/ Drain(t) \/ NextDrained(t)
  BY Zenon, <1>3, <1>4 DEF UpsertClosed, UpsertGet, Return, Bind, Insert, InsertIf, Lose, Close, Drain,
     NextDrained
<1>5. CASE Snapshot(t) \/ Retire(t) \/ Ensure(t) \/ Tick(t)
  BY Zenon, <1>3, <1>5 DEF Snapshot, Retire, RetireFrom, Ensure, Tick, TickFor
<1>6. QED
  BY <1>1, <1>2, <1>3, <1>4, <1>5 DEF Step

(* Nothing that is referred to becomes live again, and a task goes to join *)
(* an instance only in the step that aborts it.                            *)
LEMMA JoinStep == TypeOK /\ LocalInv /\ HeldInv /\ JoinInv /\ [Next]_vars => JoinInv'
<1> SUFFICES ASSUME TypeOK, LocalInv, HeldInv, JoinInv, [Next]_vars,
                    NEW u \in Task, pc'[u] \in JoinLabels
             PROVE  ~Live(obj[u])'
  BY DEF JoinInv
<1>0. ASSUME pc'[u] = pc[u], obj'[u] = obj[u] PROVE ~Live(obj[u])'
  <2>1. obj[u] \in Instance /\ ~Live(obj[u])
    BY <1>0 DEF LocalInv, LocalOK, WithObj, JoinInv, JoinLabels, Live
  <2>2. proto[obj[u]] # "free"
    BY <2>1 DEF HeldInv, Held
  <2>3. QED
    BY <1>0, <2>1, <2>2, OnlyBindStarts DEF Live
<1>1. ASSUME NEW t \in Task, t # u, Start(t) \/ Step(t) \/ Cancel(t)
      PROVE  ~Live(obj[u])'
  <2>1. Same(u)
    BY <1>1, Frame DEF Spawned, JoinLabels
  <2>2. QED
    BY <1>0, <2>1 DEF Same
<1> USE DEF Goto, Finish
<1>2. ~Start(u) /\ ~Cancel(u)
  BY Zenon DEF Start, CallUpsert, Begin, CallRemove, CallReconcile, CallMaintain, CallShutdown,
     CallStop, Cancel, JoinLabels, TypeOK
<1>3. ASSUME Step(u) PROVE ~Live(obj[u])'
  <2>1. Lose(u) \/ Retired(u) \/ NextDrained(u) \/ Stop(u)
    <3>1. /\ ~UpsertClosed(u) /\ ~UpsertGet(u) /\ ~Bind(u) /\ ~Insert(u) /\ ~LoseJoin(u)
          /\ ~Take(u) /\ ~RetiredJoin(u)
      BY Zenon DEF UpsertClosed, UpsertGet, Bind, Insert, InsertIf, LoseJoin, LoseJoinIf, AfterUpsert,
         Take, TakeLeaving, RetiredJoin, RemoveReturns, AfterRemove, JoinLabels, TypeOK
    <3>2. /\ ~Close(u) /\ ~Drain(u) /\ ~SkipDrained(u) /\ ~DrainedJoin(u) /\ ~StopJoin(u)
          /\ ~Snapshot(u) /\ ~Retire(u) /\ ~SkipDesired(u) /\ ~Tick(u)
      BY DEF Close, Drain, SkipDrained, DrainedJoin, StopJoin, Snapshot, Retire, RetireFrom,
         SkipDesired, Tick, TickFor, JoinLabels, TypeOK
    <3>3. ~Ensure(u)
      BY DEF Ensure, IdleMaintainers, Task, JoinLabels, TypeOK
    <3>4. QED
      BY <1>3, <3>1, <3>2, <3>3 DEF Step
  <2>2. CASE Lose(u)
    BY <2>2 DEF Lose, Aborted, Live, TypeOK, LocalInv, LocalOK, WithObj
  <2>3. CASE Retired(u)
    BY <2>3 DEF Retired, RemoveReturns, AfterRemove, Settle, Aborted, Live, JoinLabels, TypeOK,
       LocalInv, LocalOK, WithObj
  <2>4. CASE NextDrained(u)
    BY <2>4 DEF NextDrained, Aborted, Live, JoinLabels, TypeOK
  <2>5. CASE Stop(u)
    BY <2>5 DEF Stop, Settle, Aborted, Live, JoinLabels, TypeOK, LocalInv, LocalOK, WithObj
  <2>6. QED
    BY <2>1, <2>2, <2>3, <2>4, <2>5
<1>4. CASE \/ HoldSnapshot \/ InterfacesChange \/ UNCHANGED vars
           \/ \E i \in Instance : DropHandle(i) \/ RouteEnds(i) \/ TasksExit(i)
  BY <1>0, <1>4 DEF HoldSnapshot, InterfacesChange, DropHandle, RouteEnds, TasksExit, vars, taskVars
<1>5. QED
  BY <1>1, <1>2, <1>3, <1>4 DEF Next
=============================================================================
