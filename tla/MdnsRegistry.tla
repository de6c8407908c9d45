---------------------------- MODULE MdnsRegistry ----------------------------
(***************************************************************************)
(* What the set of mDNS resolvers promises its users: a map from bindings  *)
(* to instances that nobody has stopped, that only an open set adds to,    *)
(* and that is emptied for good once it is closed.  MdnsResolverSet        *)
(* implements it.                                                          *)
(***************************************************************************)
CONSTANTS
  Binding,
  Slot,
  AppStops,  \* whether the application stops instances behind the set's back
  None

VARIABLES
  reg,      \* the instance of each binding
  open,
  live      \* the instances that were started and not stopped

vars == <<reg, open, live>>

Instance == Binding \X Slot

Init ==
  /\ reg = [b \in Binding |-> None]
  /\ open = TRUE
  /\ live = {}

(* A fresh instance, not visible to anybody yet. *)
Start(i) ==
  /\ i \notin live /\ \A b \in Binding : reg[b] # i
  /\ live' = live \cup {i}
  /\ UNCHANGED <<reg, open>>

(* It becomes the instance of its binding, if there is none. *)
Register(i) ==
  /\ open /\ i \in live /\ reg[i[1]] = None
  /\ reg' = [reg EXCEPT ![i[1]] = i]
  /\ UNCHANGED <<open, live>>

Unregister(b) ==
  /\ reg' = [reg EXCEPT ![b] = None]
  /\ UNCHANGED <<open, live>>

Close ==
  /\ open' = FALSE
  /\ UNCHANGED <<reg, live>>

Empty ==
  /\ ~open
  /\ reg' = [b \in Binding |-> None]
  /\ UNCHANGED <<open, live>>

(* The set stops only instances that it no longer maps anything to. *)
Stop(is) ==
  /\ AppStops \/ \A b \in Binding : reg[b] \notin is
  /\ live' = live \ is
  /\ UNCHANGED <<reg, open>>

Next ==
  \/ \E i \in Instance : Start(i) \/ Register(i)
  \/ \E b \in Binding : Unregister(b)
  \/ Close
  \/ Empty
  \/ \E is \in SUBSET Instance : Stop(is)

Spec == Init /\ [][Next]_vars
=============================================================================
