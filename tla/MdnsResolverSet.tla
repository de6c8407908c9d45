-------------------------- MODULE MdnsResolverSet --------------------------
(***************************************************************************)
(* The set of mDNS resolver instances of src/src/mdns.rs: one instance per *)
(* binding (device, ip), created by upsert, retired by remove, kept equal  *)
(* to the caller's bindings by reconcile and maintain, and emptied for     *)
(* good by shutdown.  Calls run concurrently on a multi-threaded runtime;  *)
(* an action is one step between two accesses to shared state (the closed  *)
(* flag, the RwLock around the map, the Mutex inside an instance) or       *)
(* between two awaits.                                                     *)
(*                                                                         *)
(* An instance is live as long as it has its protocol, and with it its     *)
(* socket: until shutdown_tasks (mdns/service.rs) takes it, or the last    *)
(* Arc that refers to the instance goes away; Settle models the drop as    *)
(* part of the step that releases the reference.  Its background tasks may *)
(* end before that, on an error of the socket or a panic (RouteEnds).      *)
(***************************************************************************)
EXTENDS FiniteSets, Naturals

CONSTANTS
  Binding,     \* the (device, ip) pairs
  Slot,        \* tells apart the instances of one binding
  Caller,      \* application tasks
  Maintainer,  \* tasks that maintain() may spawn
  Ops,         \* what the application does, a subset of AllOps
  None

AllOps == {"upsert", "remove", "reconcile", "maintain", "shutdown",
           "stop",    \* MdnsResolver::shutdown on an instance it was handed
           "hold",    \* keeps the Arc that upsert or snapshot returned
           "cancel"}  \* drops a pending call, aborts a maintenance task

Instance == Binding \X Slot
Task == Caller \cup Maintainer

ASSUME ConstantsAssumption ==
  /\ Caller \cap Maintainer = {}
  /\ None \notin Instance
  /\ None \notin Binding
  /\ Ops \subseteq AllOps

VARIABLES
  resolvers,  \* the map, under the RwLock
  closed,     \* the AtomicBool
  proto,      \* the background tasks of each instance
  handles,    \* instances the application keeps an Arc of
  active,     \* what the application's snapshot function would return
  call,       \* the call a task runs, or ran last
  pc,         \* where it is in it
  binding,    \* the binding it works on
  obj,        \* the instance it binds or stops
  race,       \* Race::Existing's instance; None is Race::Closed
  snap,       \* reconcile's snapshot, less the instances it is done with
  drained,    \* shutdown's instances still to stop
  desired,    \* reconcile's argument
  todo,       \* desired bindings still to upsert
  failed      \* bindings reconcile reports an error for

taskVars == <<call, pc, binding, obj, race, snap, drained, desired, todo, failed>>
vars == <<resolvers, closed, proto, handles, active, taskVars>>

UpsertLabels == {"upsert_closed", "upsert_get", "bind", "insert", "lose", "lose_join"}
RemoveLabels == {"take", "retired", "retired_join"}
ShutdownLabels == {"close", "drain", "next_drained", "drained_join"}
Labels == UpsertLabels \cup RemoveLabels \cup ShutdownLabels \cup
          {"idle", "tick", "snapshot", "retire", "ensure", "stop", "stop_join"}

Calls == {"none", "upsert", "remove", "reconcile", "maintain", "shutdown", "stop", "loop"}

(* "free" is an instance nobody refers to: not created yet, or dropped.    *)
(* "running" has its protocol and tasks, "ended" its protocol but no task  *)
(* that receives; "stopping" had them taken and aborted; then the tasks    *)
(* have exited, cancelled or ("failed") panicked.                          *)
ProtoStates == {"free", "running", "ended", "stopping", "stopped", "failed"}

TypeOK ==
  /\ resolvers \in [Binding -> Instance \cup {None}]
  /\ closed \in BOOLEAN
  /\ proto \in [Instance -> ProtoStates]
  /\ handles \in SUBSET Instance
  /\ active \in SUBSET Binding
  /\ call \in [Task -> Calls]
  /\ pc \in [Task -> Labels]
  /\ binding \in [Task -> Binding \cup {None}]
  /\ obj \in [Task -> Instance \cup {None}]
  /\ race \in [Task -> Instance \cup {None}]
  /\ snap \in [Task -> SUBSET Instance]
  /\ drained \in [Task -> SUBSET Instance]
  /\ desired \in [Task -> SUBSET Binding]
  /\ todo \in [Task -> SUBSET Binding]
  /\ failed \in [Task -> SUBSET Binding]

Init ==
  /\ resolvers = [b \in Binding |-> None]
  /\ closed = FALSE
  /\ proto = [i \in Instance |-> "free"]
  /\ handles = {}
  /\ active = {}
  /\ call = [t \in Task |-> "none"]
  /\ pc = [t \in Task |-> "idle"]
  /\ binding = [t \in Task |-> None]
  /\ obj = [t \in Task |-> None]
  /\ race = [t \in Task |-> None]
  /\ snap = [t \in Task |-> {}]
  /\ drained = [t \in Task |-> {}]
  /\ desired = [t \in Task |-> {}]
  /\ todo = [t \in Task |-> {}]
  /\ failed = [t \in Task |-> {}]

-----------------------------------------------------------------------------
(* Instances and references to them. *)

bound(i) == i[1]

(* MdnsInner.proto is Some: nobody has stopped the instance. *)
Live(i) == proto[i] \in {"running", "ended"}

Registered == {i \in Instance : \E b \in Binding : resolvers[b] = i}

(* Who holds an Arc<MdnsResolver>: the map, the application, the locals of *)
(* a running call.                                                         *)
Held ==
  {i \in Instance :
     \/ \E b \in Binding : resolvers[b] = i
     \/ i \in handles
     \/ \E t \in Task : obj[t] = i \/ race[t] = i \/ i \in snap[t] \/ i \in drained[t]}

(* Drop for MdnsInner: the step that releases the last reference aborts    *)
(* the tasks of the instance, whatever state p they were in.               *)
Settle(p) == proto' = [i \in Instance |-> IF i \in Held' THEN p[i] ELSE "free"]

(* The locked part of shutdown_tasks: the first caller takes the protocol  *)
(* and aborts the tasks.                                                   *)
JoinUnaborted(i) == proto  \* mutant: joins tasks that nobody aborted
Aborted(i) == [proto EXCEPT ![i] = "stopping"]

-----------------------------------------------------------------------------
(* Control flow inside a task. *)

Goto(t, l) == pc' = [pc EXCEPT ![t] = l]

(* What follows when upsert or remove returns. *)
AfterUpsert(t) == IF call[t] = "upsert" THEN "idle" ELSE "ensure"
AfterRemoveOnce(t) == IF call[t] = "remove" THEN "idle" ELSE "ensure"  \* mutant
AfterRemove(t) == IF call[t] = "remove" THEN "idle" ELSE "retire"

(* The Result of the upsert: reconcile collects the errors. *)
ReportNothing(t, ok) == failed' = failed  \* mutant: the error is swallowed
Report(t, ok) ==
  failed' = IF ok \/ call[t] = "upsert" THEN failed
            ELSE [failed EXCEPT ![t] = @ \cup {binding[t]}]

(* Ok(i) goes to the application, which may keep the Arc; reconcile drops it. *)
Return(t, i) ==
  \/ handles' = handles
  \/ /\ call[t] = "upsert" /\ "hold" \in Ops
     /\ handles' = handles \cup {i}

(* A call that fills in only what it uses starts from these. *)
Begin(t, c, l) ==
  /\ t \in Caller /\ pc[t] = "idle" /\ c \in Ops
  /\ call' = [call EXCEPT ![t] = c]
  /\ Goto(t, l)
  /\ failed' = [failed EXCEPT ![t] = {}]
  /\ UNCHANGED <<resolvers, closed, handles, active, race, snap, drained>>

(* Back to the caller of upsert or remove, at label l. *)
Finish(t, l) ==
  /\ Goto(t, l)
  /\ binding' = [binding EXCEPT ![t] = None]

-----------------------------------------------------------------------------
(* upsert *)

CallUpsert(t) ==
  /\ Begin(t, "upsert", "upsert_closed")
  /\ \E b \in Binding : binding' = [binding EXCEPT ![t] = b]
  /\ desired' = [desired EXCEPT ![t] = {}]
  /\ UNCHANGED <<proto, obj, todo>>

UpsertClosed(t) ==
  /\ pc[t] = "upsert_closed"
  /\ \/ /\ closed
        /\ Report(t, FALSE)
        /\ Finish(t, AfterUpsert(t))
     \/ /\ ~closed
        /\ Goto(t, "upsert_get")
        /\ UNCHANGED <<binding, failed>>
  /\ UNCHANGED <<resolvers, closed, proto, handles, active,
                 call, obj, race, snap, drained, desired, todo>>

UpsertGet(t) ==
  LET existing == resolvers[binding[t]] IN
  /\ pc[t] = "upsert_get"
  /\ \/ /\ existing # None
        /\ Return(t, existing)
        /\ Finish(t, AfterUpsert(t))
     \/ /\ existing = None
        /\ Goto(t, "bind")
        /\ UNCHANGED <<handles, binding>>
  /\ UNCHANGED <<resolvers, closed, proto, active,
                 call, obj, race, snap, drained, desired, todo, failed>>

(* MdnsResolver::bind never yields: a socket and two tasks, or an error. *)
Bind(t) ==
  /\ pc[t] = "bind"
  /\ \/ \E i \in Instance :
          /\ bound(i) = binding[t] /\ proto[i] = "free"
          /\ obj' = [obj EXCEPT ![t] = i]
          /\ proto' = [proto EXCEPT ![i] = "running"]
          /\ Goto(t, "insert")
          /\ UNCHANGED <<binding, failed>>
     \/ /\ Report(t, FALSE)
        /\ Finish(t, AfterUpsert(t))
        /\ UNCHANGED <<proto, obj>>
  /\ UNCHANGED <<resolvers, closed, handles, active,
                 call, race, snap, drained, desired, todo>>

(* Under the write lock: the candidate is inserted and returned if it wins. *)
InsertIf(t, wins) ==
  /\ pc[t] = "insert"
  /\ \/ /\ ~wins
        /\ race' = [race EXCEPT ![t] = IF closed THEN None ELSE resolvers[binding[t]]]
        /\ Goto(t, "lose")
        /\ UNCHANGED <<resolvers, handles, obj, binding>>
     \/ /\ wins
        /\ resolvers' = [resolvers EXCEPT ![binding[t]] = obj[t]]
        /\ Return(t, obj[t])
        /\ obj' = [obj EXCEPT ![t] = None]
        /\ Finish(t, AfterUpsert(t))
        /\ UNCHANGED race
  /\ UNCHANGED <<closed, proto, active, call, snap, drained, desired, todo, failed>>

InsertStale(t) == InsertIf(t, resolvers[binding[t]] = None)  \* mutant: closed not re-read
InsertOver(t) == InsertIf(t, ~closed)                        \* mutant: no second lookup

(* It wins only if the set is still open and no other upsert was faster. *)
Insert(t) == InsertIf(t, ~closed /\ resolvers[binding[t]] = None)

(* The losing candidate is shut down; nobody else can have stopped it. *)
Lose(t) ==
  /\ pc[t] = "lose"
  /\ Live(obj[t])
  /\ proto' = Aborted(obj[t])
  /\ Goto(t, "lose_join")
  /\ UNCHANGED <<resolvers, closed, handles, active,
                 call, binding, obj, race, snap, drained, desired, todo, failed>>

LoseJoinIf(t, ok) ==
  /\ pc[t] = "lose_join"
  /\ proto[obj[t]] \in {"stopped", "failed"}
  /\ \/ /\ ok
        /\ Return(t, race[t])
        /\ Report(t, TRUE)
     \/ /\ ~ok
        /\ Report(t, FALSE)
        /\ UNCHANGED handles
  /\ obj' = [obj EXCEPT ![t] = None]
  /\ race' = [race EXCEPT ![t] = None]
  /\ Finish(t, AfterUpsert(t))
  /\ UNCHANGED <<resolvers, closed, active, call, snap, drained, desired, todo>>
  /\ Settle(proto)

LoseJoinOpen(t) == LoseJoinIf(t, proto[obj[t]] = "stopped")  \* mutant: no Race::Closed

(* Ok(existing), unless a task of the candidate panicked or the set is closed. *)
LoseJoin(t) == LoseJoinIf(t, proto[obj[t]] = "stopped" /\ race[t] # None)

-----------------------------------------------------------------------------
(* remove *)

CallRemove(t) ==
  /\ Begin(t, "remove", "take")
  /\ \E b \in Binding : binding' = [binding EXCEPT ![t] = b]
  /\ desired' = [desired EXCEPT ![t] = {}]
  /\ UNCHANGED <<proto, obj, todo>>

(* remove returns: reconcile goes on to its next obsolete instance. *)
RemoveReturns(t) ==
  /\ Finish(t, AfterRemove(t))
  /\ snap' = [snap EXCEPT ![t] = {i \in @ : bound(i) # binding[t]}]

TakeLeaving(t, rest) ==
  LET i == resolvers[binding[t]] IN
  /\ pc[t] = "take"
  /\ \/ /\ i = None
        /\ RemoveReturns(t)
        /\ UNCHANGED obj
     \/ /\ i # None
        /\ obj' = [obj EXCEPT ![t] = i]
        /\ Goto(t, "retired")
        /\ UNCHANGED <<binding, snap>>
  /\ resolvers' = rest
  /\ UNCHANGED <<closed, handles, active, call, race, drained, desired, todo, failed>>
  /\ Settle(proto)

TakeCopy(t) == TakeLeaving(t, resolvers)  \* mutant: get instead of remove

Take(t) == TakeLeaving(t, [resolvers EXCEPT ![binding[t]] = None])

RetiredUnstopped(t) ==  \* mutant: the instance is removed but not shut down
  /\ pc[t] = "retired"
  /\ obj' = [obj EXCEPT ![t] = None]
  /\ RemoveReturns(t)
  /\ UNCHANGED <<resolvers, closed, handles, active,
                 call, race, drained, desired, todo, failed>>
  /\ Settle(proto)

Retired(t) ==
  /\ pc[t] = "retired"
  /\ \/ /\ Live(obj[t])
        /\ Goto(t, "retired_join")
        /\ UNCHANGED <<binding, obj, snap>>
     \/ /\ ~Live(obj[t])
        /\ obj' = [obj EXCEPT ![t] = None]
        /\ RemoveReturns(t)
  /\ UNCHANGED <<resolvers, closed, handles, active,
                 call, race, drained, desired, todo, failed>>
  /\ Settle(IF Live(obj[t]) THEN Aborted(obj[t]) ELSE proto)

RetiredJoin(t) ==
  /\ pc[t] = "retired_join"
  /\ proto[obj[t]] \in {"stopped", "failed"}
  /\ obj' = [obj EXCEPT ![t] = None]
  /\ failed' = IF proto[obj[t]] = "failed" /\ call[t] # "remove"
               THEN [failed EXCEPT ![t] = @ \cup {binding[t]}] ELSE failed
  /\ RemoveReturns(t)
  /\ UNCHANGED <<resolvers, closed, handles, active, call, race, drained, desired, todo>>
  /\ Settle(proto)

-----------------------------------------------------------------------------
(* shutdown of the set *)

CallShutdown(t) ==
  /\ Begin(t, "shutdown", "close")
  /\ desired' = [desired EXCEPT ![t] = {}]
  /\ UNCHANGED <<proto, binding, obj, todo>>

Close(t) ==
  /\ pc[t] = "close"
  /\ closed' = TRUE
  /\ Goto(t, "drain")
  /\ UNCHANGED <<resolvers, proto, handles, active,
                 call, binding, obj, race, snap, drained, desired, todo, failed>>

Drain(t) ==
  /\ pc[t] = "drain"
  /\ drained' = [drained EXCEPT ![t] = Registered]
  /\ resolvers' = [b \in Binding |-> None]
  /\ Goto(t, "next_drained")
  /\ UNCHANGED <<closed, proto, handles, active,
                 call, binding, obj, race, snap, desired, todo, failed>>

(* The loop over the drained instances.  One that was stopped already     *)
(* answers Ok at once (SkipDrained).                                       *)
NextDrained(t) ==
  /\ pc[t] = "next_drained"
  /\ \/ /\ drained[t] = {}
        /\ Goto(t, "idle")
        /\ UNCHANGED <<proto, obj, drained>>
     \/ \E i \in drained[t] :
          /\ Live(i)
          /\ drained' = [drained EXCEPT ![t] = @ \ {i}]
          /\ obj' = [obj EXCEPT ![t] = i]
          /\ proto' = Aborted(i)
          /\ Goto(t, "drained_join")
  /\ UNCHANGED <<resolvers, closed, handles, active,
                 call, binding, race, snap, desired, todo, failed>>

SkipDrained(t) ==
  /\ pc[t] = "next_drained"
  /\ \E i \in drained[t] :
       /\ ~Live(i)
       /\ drained' = [drained EXCEPT ![t] = @ \ {i}]
  /\ UNCHANGED <<resolvers, closed, handles, active,
                 call, pc, binding, obj, race, snap, desired, todo, failed>>
  /\ Settle(proto)

DrainedJoin(t) ==
  /\ pc[t] = "drained_join"
  /\ proto[obj[t]] \in {"stopped", "failed"}
  /\ obj' = [obj EXCEPT ![t] = None]
  /\ Goto(t, "next_drained")
  /\ UNCHANGED <<resolvers, closed, handles, active,
                 call, binding, race, snap, drained, desired, todo, failed>>
  /\ Settle(proto)

-----------------------------------------------------------------------------
(* MdnsResolver::shutdown, called by the application on an instance. *)

CallStop(t) ==
  /\ Begin(t, "stop", "stop")
  /\ \E i \in handles : obj' = [obj EXCEPT ![t] = i]
  /\ desired' = [desired EXCEPT ![t] = {}]
  /\ UNCHANGED <<proto, binding, todo>>

Stop(t) ==
  /\ pc[t] = "stop"
  /\ \/ /\ Live(obj[t])
        /\ Goto(t, "stop_join")
        /\ UNCHANGED obj
     \/ /\ ~Live(obj[t])
        /\ obj' = [obj EXCEPT ![t] = None]
        /\ Goto(t, "idle")
  /\ UNCHANGED <<resolvers, closed, handles, active,
                 call, binding, race, snap, drained, desired, todo, failed>>
  /\ Settle(IF Live(obj[t]) THEN Aborted(obj[t]) ELSE proto)

StopJoin(t) ==
  /\ pc[t] = "stop_join"
  /\ proto[obj[t]] \in {"stopped", "failed"}
  /\ obj' = [obj EXCEPT ![t] = None]
  /\ Goto(t, "idle")
  /\ UNCHANGED <<resolvers, closed, handles, active,
                 call, binding, race, snap, drained, desired, todo, failed>>
  /\ Settle(proto)

-----------------------------------------------------------------------------
(* reconcile and maintain *)

Want(t, bs) ==
  /\ desired' = [desired EXCEPT ![t] = bs]
  /\ todo' = [todo EXCEPT ![t] = bs]

CallReconcile(t) ==
  /\ Begin(t, "reconcile", "snapshot")
  /\ \E bs \in SUBSET Binding : Want(t, bs)
  /\ UNCHANGED <<proto, binding, obj>>

(* maintain reconciles once in the calling task.  A zero period or a       *)
(* failing snapshot returns an error before anything happens.              *)
IdleMaintainers == {m \in Maintainer : pc[m] = "idle"}
Maintaining == {t \in Caller : call[t] = "maintain" /\ pc[t] # "idle"}

CallMaintain(t) ==
  /\ \/ /\ Cardinality(Maintaining) < Cardinality(IdleMaintainers)
        /\ Begin(t, "maintain", "snapshot")
        /\ Want(t, active)
     \/ /\ Begin(t, "maintain", "idle")
        /\ Want(t, {})
  /\ UNCHANGED <<proto, binding, obj>>

Snapshot(t) ==
  /\ pc[t] = "snapshot"
  /\ snap' = [snap EXCEPT ![t] = Registered]
  /\ Goto(t, "retire")
  /\ UNCHANGED <<resolvers, closed, proto, handles, active,
                 call, binding, obj, race, drained, desired, todo, failed>>

RetireFrom(t, obsolete) ==
  /\ pc[t] = "retire"
  /\ \/ \E i \in obsolete :
          /\ binding' = [binding EXCEPT ![t] = bound(i)]
          /\ Goto(t, "take")
     \/ /\ snap[t] = {}
        /\ Goto(t, "ensure")
        /\ UNCHANGED binding
  /\ UNCHANGED <<resolvers, closed, proto, handles, active,
                 call, obj, race, snap, drained, desired, todo, failed>>

RetireAll(t) == RetireFrom(t, snap[t])  \* mutant: desired is not consulted

Retire(t) == RetireFrom(t, {i \in snap[t] : bound(i) \notin desired[t]})

SkipDesired(t) ==
  /\ pc[t] = "retire"
  /\ \E i \in snap[t] :
       /\ bound(i) \in desired[t]
       /\ snap' = [snap EXCEPT ![t] = @ \ {i}]
  /\ UNCHANGED <<resolvers, closed, handles, active,
                 call, pc, binding, obj, race, drained, desired, todo, failed>>
  /\ Settle(proto)

(* The last desired binding done, reconcile returns: to the application,   *)
(* to maintain, which spawns the loop, or to the loop itself.              *)
Ensure(t) ==
  /\ pc[t] = "ensure"
  /\ \/ \E b \in todo[t] :
          /\ binding' = [binding EXCEPT ![t] = b]
          /\ todo' = [todo EXCEPT ![t] = @ \ {b}]
          /\ Goto(t, "upsert_closed")
          /\ UNCHANGED call
     \/ /\ todo[t] = {} /\ call[t] = "reconcile"
        /\ Goto(t, "idle")
        /\ UNCHANGED <<call, binding, todo>>
     \/ /\ todo[t] = {} /\ call[t] = "maintain"
        /\ \E m \in IdleMaintainers :
             /\ pc' = [pc EXCEPT ![t] = "idle", ![m] = "tick"]
             /\ call' = [call EXCEPT ![m] = "loop"]
        /\ UNCHANGED <<binding, todo>>
     \/ /\ todo[t] = {} /\ call[t] = "loop"
        /\ Goto(t, "tick")
        /\ UNCHANGED <<call, binding, todo>>
  /\ UNCHANGED <<resolvers, closed, proto, handles, active,
                 obj, race, snap, drained, desired, failed>>

(* One round of the spawned loop.  A failing snapshot changes nothing and  *)
(* waits for the next tick.                                                *)
TickFor(t, stop, bs) ==
  /\ pc[t] = "tick"
  /\ \/ /\ stop
        /\ Goto(t, "idle")
        /\ UNCHANGED <<desired, todo, failed>>
     \/ /\ ~stop
        /\ Want(t, bs)
        /\ failed' = [failed EXCEPT ![t] = {}]
        /\ Goto(t, "snapshot")
  /\ UNCHANGED <<resolvers, closed, proto, handles, active,
                 call, binding, obj, race, snap, drained>>

TickForever(t) == TickFor(t, FALSE, active)   \* mutant: closed is not read
TickOld(t) == TickFor(t, closed, desired[t])  \* mutant: no fresh snapshot

Tick(t) == TickFor(t, closed, active)

-----------------------------------------------------------------------------
(* The application and the runtime *)

(* Dropping a pending future, or aborting a maintenance task, takes effect *)
(* where the task awaits: all its locals are dropped.                      *)
Cancel(t) ==
  /\ "cancel" \in Ops
  /\ pc[t] \in {"lose_join", "retired_join", "drained_join", "stop_join", "tick"}
  /\ Finish(t, "idle")
  /\ obj' = [obj EXCEPT ![t] = None]
  /\ race' = [race EXCEPT ![t] = None]
  /\ snap' = [snap EXCEPT ![t] = {}]
  /\ drained' = [drained EXCEPT ![t] = {}]
  /\ desired' = [desired EXCEPT ![t] = {}]
  /\ todo' = [todo EXCEPT ![t] = {}]
  /\ failed' = [failed EXCEPT ![t] = {}]
  /\ call' = [call EXCEPT ![t] = "none"]
  /\ UNCHANGED <<resolvers, closed, handles, active>>
  /\ Settle(proto)

HoldSnapshot ==
  /\ "hold" \in Ops
  /\ handles' = handles \cup Registered
  /\ UNCHANGED <<resolvers, closed, proto, active, taskVars>>

DropHandle(i) ==
  /\ i \in handles
  /\ handles' = handles \ {i}
  /\ UNCHANGED <<resolvers, closed, active, taskVars>>
  /\ Settle(proto)

(* The interfaces of the host change. *)
InterfacesChange ==
  /\ "maintain" \in Ops
  /\ active' \in SUBSET Binding
  /\ UNCHANGED <<resolvers, closed, proto, handles, taskVars>>

(* The route task returns when receiving fails, or a task panics.  Nobody  *)
(* is told: the instance keeps its protocol and its place in the map.      *)
RouteEnds(i) ==
  /\ proto[i] = "running"
  /\ proto' = [proto EXCEPT ![i] = "ended"]
  /\ UNCHANGED <<resolvers, closed, handles, active, taskVars>>

(* The runtime finishes the aborted tasks; one may have panicked before. *)
TasksExit(i) ==
  /\ proto[i] = "stopping"
  /\ \E s \in {"stopped", "failed"} : proto' = [proto EXCEPT ![i] = s]
  /\ UNCHANGED <<resolvers, closed, handles, active, taskVars>>

Start(t) ==
  \/ CallUpsert(t) \/ CallRemove(t) \/ CallReconcile(t)
  \/ CallMaintain(t) \/ CallShutdown(t) \/ CallStop(t)

Step(t) ==
  \/ UpsertClosed(t) \/ UpsertGet(t) \/ Bind(t) \/ Insert(t) \/ Lose(t) \/ LoseJoin(t)
  \/ Take(t) \/ Retired(t) \/ RetiredJoin(t)
  \/ Close(t) \/ Drain(t) \/ NextDrained(t) \/ SkipDrained(t) \/ DrainedJoin(t)
  \/ Stop(t) \/ StopJoin(t)
  \/ Snapshot(t) \/ Retire(t) \/ SkipDesired(t) \/ Ensure(t) \/ Tick(t)

Next ==
  \/ \E t \in Task : Start(t) \/ Step(t) \/ Cancel(t)
  \/ \E i \in Instance : DropHandle(i) \/ RouteEnds(i) \/ TasksExit(i)
  \/ HoldSnapshot
  \/ InterfacesChange

Spec == Init /\ [][Next]_vars

(* The runtime polls every task that can run, the timer fires, aborted     *)
(* tasks end.  The application need never call anything, and the socket    *)
(* need never fail.                                                        *)
Fairness ==
  /\ \A t \in Task : WF_vars(Step(t))
  /\ \A i \in Instance : WF_vars(TasksExit(i))

FairSpec == Spec /\ Fairness

(* Moreover the operating system does not refuse a socket for ever. *)
BindSucceeds(t) == Bind(t) /\ pc'[t] = "insert"
RetrySpec == FairSpec /\ \A t \in Task : SF_vars(BindSucceeds(t))

-----------------------------------------------------------------------------
(* Properties *)

(* A running call of the set that is about to stop the instance, or to     *)
(* give it to the map: upsert's candidate, what remove or shutdown took.   *)
Owned(i) ==
  \E t \in Task :
    \/ obj[t] = i /\ pc[t] \in {"insert", "lose", "retired"}
    \/ i \in drained[t]

Closing == \E t \in Task : pc[t] = "drain"

(* shutdown stores the flag before it drains under the write lock, and     *)
(* upsert reads the flag under that lock: once drained the map stays       *)
(* empty, whatever upserts were in flight (mdns.rs:296-313, 423-432).      *)
ClosedStaysEmpty == closed /\ ~Closing => Registered = {}

(* No instance keeps its socket and tasks unobserved: a live one is in the *)
(* map, or a call is about to insert or stop it (calls are not cancelled). *)
LiveIsOwned == \A i \in Instance : Live(i) => i \in Registered \/ Owned(i)

(* When shutdown was called and no call is in progress, no instance is     *)
(* left that was not stopped, even if the application still holds handles. *)
QuiescentAfterShutdown ==
  closed /\ (\A t \in Task : pc[t] \in {"idle", "tick"})
    => \A i \in Instance : ~Live(i)

(* Where calls may be cancelled: a cancelled remove or upsert has already  *)
(* aborted the tasks of its instance, so only a shutdown cancelled between *)
(* two instances leaves one alive outside the map.                         *)
UnownedOnlyAfterClose ==
  \A i \in Instance : Live(i) /\ i \notin Registered /\ ~Owned(i) => closed

(* What upsert hands out is the instance of the map, never a candidate     *)
(* that lost the race: a live handle is registered, or is being retired.   *)
LiveHandleIsRegistered ==
  \A i \in handles : Live(i) =>
    \/ i \in Registered
    \/ \E t \in Task : obj[t] = i /\ pc[t] = "retired"
    \/ closed

(* The set never stops an instance that it maps a binding to, as long as   *)
(* the application does not do so behind its back: upsert and snapshot     *)
(* hand out instances that queries are not refused by (service.rs:99-106). *)
(* It is not that they answer: one whose tasks ended stays registered.     *)
RegisteredIsUnstopped == "stop" \in Ops \/ \A i \in Registered : Live(i)

(* The set implements the registry: an instance is inserted before anybody *)
(* stops it, into an open set, for a binding that has none, and the set    *)
(* stops an instance only after it has taken it out of the map.            *)
Registry ==
  INSTANCE MdnsRegistry WITH
    AppStops <- "stop" \in Ops,
    reg <- resolvers, open <- ~closed, live <- {i \in Instance : Live(i)}
ImplementsRegistry == Registry!Spec

Reconciling(t) == call[t] \in {"reconcile", "maintain", "loop"} /\ pc[t] # "idle"

(* The documented contract of reconcile when its caller serializes updates *)
(* (mdns.rs:343-348), for a single task that makes all the calls: obsolete *)
(* instances are stopped before missing ones are created,                  *)
RetireBeforeCreate ==
  \A t \in Task : Reconciling(t) /\ pc[t] \in UpsertLabels \cup {"ensure"}
    => \A i \in Instance : Live(i) => bound(i) \in desired[t]

(* every binding is attempted, so that on return the set is exactly the    *)
(* desired bindings less the ones an error was returned for,               *)
ReconcileConverges ==
  \A t \in Task : call[t] = "reconcile" /\ pc[t] = "idle"
    => {bound(i) : i \in Registered} = desired[t] \ failed[t]

(* and an instance whose binding is still desired is preserved.            *)
DesiredSurvives ==
  [][\A t \in Task : Reconciling(t) /\ desired'[t] = desired[t] =>
       \A b \in desired[t] : resolvers[b] # None => resolvers'[b] = resolvers[b]]_vars

(* Every call returns, however the calls interleave: a joined task has     *)
(* always been aborted first.                                              *)
CallsReturn == \A t \in Caller : pc[t] # "idle" ~> pc[t] = "idle"

(* Shutting down the set stops maintenance (mdns.rs:371-373).              *)
ShutdownStopsMaintenance == \A m \in Maintainer : closed ~> pc[m] = "idle"

(* Maintenance retries missing bindings: once the interfaces stop changing *)
(* and binding them does not fail for ever, the set becomes and stays the  *)
(* active bindings, unless it is shut down.                                *)
MaintenanceConverges ==
  \A bs \in SUBSET Binding, m \in Maintainer :
    <>[](active = bs /\ call[m] = "loop" /\ pc[m] # "idle")
      => <>(closed \/ [](closed \/ {bound(i) : i \in Registered} = bs))
=============================================================================
