--------------------------- MODULE InstallResolvers ---------------------------
(* install_resolvers (resolver_config.rs): threads register DNS sources in *)
(* the process-wide resolver.  The process remembers, under one mutex,     *)
(* which schemes it registered and which mDNS set.  A constructor may fail *)
(* and ends the call at once; the sources registered so far stay.          *)
EXTENDS Naturals, Sequences, Functions

CONSTANTS
  Thread,
  Requests,  \* the scheme lists the threads pass
  Fallible,  \* the schemes whose constructor can fail
  Nil

Scheme == {"system", "mdns", "h3", "http"}

ASSUME InstallAssumption ==
  Requests \subseteq Seq(Scheme) /\ Fallible \subseteq Scheme /\ Nil \notin Thread

VARIABLES
  lock,       \* the holder of INSTALLED
  installed,  \* Installed.schemes
  mdns,       \* Installed.mdns
  registry,   \* qresolve::Resolver: <<scheme, set>> in the order of add
  made,       \* the number of MdnsResolverSets created
  pc, schemes, requested,  \* per thread: where it is, its argument, what is left
  ret         \* per thread: what its last call returned

installVars == <<lock, installed, mdns, registry, made, pc, schemes, requested, ret>>

NoResult == [status |-> "none", set |-> Nil]

Goto(t, l) == pc' = [pc EXCEPT ![t] = l]

InstallInit ==
  /\ lock = Nil
  /\ installed = {} /\ mdns = Nil /\ registry = <<>> /\ made = 0
  /\ pc = [t \in Thread |-> "idle"]
  /\ schemes = [t \in Thread |-> <<>>]
  /\ requested = [t \in Thread |-> <<>>]
  /\ ret = [t \in Thread |-> NoResult]

Call(t) ==
  /\ pc[t] = "idle"
  /\ \E s \in Requests : schemes' = [schemes EXCEPT ![t] = s]
  /\ ret' = [ret EXCEPT ![t] = NoResult]
  /\ Goto(t, "lock")
  /\ UNCHANGED <<lock, installed, mdns, registry, made, requested>>

(* H3 and HTTP need ordinary DNS for their own server: System is appended. *)
Expand(s) ==
  IF Range(s) \cap {"h3", "http"} # {} THEN Append(s, "system") ELSE s

LockIf(t, free) ==
  /\ pc[t] = "lock"
  /\ free
  /\ lock' = t
  /\ requested' = [requested EXCEPT ![t] = Expand(schemes[t])]
  /\ Goto(t, "install")
  /\ UNCHANGED <<installed, mdns, registry, made, schemes, ret>>

LockAnyway(t) == LockIf(t, TRUE)  \* mutant: the mutex is not held over the call

Lock(t) == LockIf(t, lock = Nil)

Advance(t) == requested' = [requested EXCEPT ![t] = Tail(@)]

(* A scheme that is installed is skipped, the resolver of another is built. *)
Check(t) ==
  /\ pc[t] = "install" /\ requested[t] # <<>>
  /\ \/ /\ Head(requested[t]) \in installed
        /\ Advance(t)
        /\ UNCHANGED pc
     \/ /\ Head(requested[t]) \notin installed
        /\ Goto(t, "construct")
        /\ UNCHANGED requested
  /\ UNCHANGED <<lock, installed, mdns, registry, made, schemes, ret>>

(* Resolver::add, and the scheme is remembered. *)
Add(t) ==
  /\ pc[t] = "construct"
  /\ LET s == Head(requested[t])
         set == IF s = "mdns" THEN made + 1 ELSE Nil
     IN  /\ registry' = Append(registry, <<s, set>>)
         /\ installed' = installed \cup {s}
         /\ IF s = "mdns" THEN mdns' = set /\ made' = set ELSE UNCHANGED <<mdns, made>>
  /\ Advance(t)
  /\ Goto(t, "install")
  /\ UNCHANGED <<lock, schemes, ret>>

(* The constructor of H3Resolver or HttpResolver fails: `?` returns.       *)
Fail(t) ==
  /\ pc[t] = "construct"
  /\ Head(requested[t]) \in Fallible
  /\ ret' = [ret EXCEPT ![t] = [NoResult EXCEPT !.status = "error"]]
  /\ lock' = Nil
  /\ requested' = [requested EXCEPT ![t] = <<>>]
  /\ Goto(t, "idle")
  /\ UNCHANGED <<installed, mdns, registry, made, schemes>>

ReturnWhen(t, done) ==
  /\ pc[t] = "install" /\ done
  /\ ret' = [ret EXCEPT ![t] =
               [status |-> "ok",
                set |-> IF "mdns" \in Range(schemes[t]) THEN mdns ELSE Nil]]
  /\ lock' = Nil
  /\ requested' = [requested EXCEPT ![t] = <<>>]
  /\ Goto(t, "idle")
  /\ UNCHANGED <<installed, mdns, registry, made, schemes>>

(* mutant: System is taken for registered with the first H3 or HTTP source *)
ReturnEarly(t) ==
  ReturnWhen(t, requested[t] = <<>>
                \/ (requested[t] = <<"system">> /\ installed \cap {"h3", "http"} # {}))

ReturnOk(t) == ReturnWhen(t, requested[t] = <<>>)

Step(t) == Call(t) \/ Lock(t) \/ Check(t) \/ Add(t) \/ Fail(t) \/ ReturnOk(t)

InstallNext == \E t \in Thread : Step(t)

InstallSpec == InstallInit /\ [][InstallNext]_installVars

-----------------------------------------------------------------------------
(* Properties *)

Registered == {registry[i][1] : i \in DOMAIN registry}

InstallTypeOK ==
  /\ lock \in Thread \cup {Nil}
  /\ installed \subseteq Scheme
  /\ registry \in Seq(Scheme \X (Nat \cup {Nil}))
  /\ made \in Nat
  /\ pc \in [Thread -> {"idle", "lock", "install", "construct"}]
  /\ \A t \in Thread : pc[t] \in {"install", "construct"} <=> lock = t
  /\ schemes \in [Thread -> Seq(Scheme)]
  /\ requested \in [Thread -> Seq(Scheme)]

(* Repeated and concurrent registration is idempotent: a scheme is added   *)
(* to the resolver at most once (test                                      *)
(* repeated_installation_does_not_duplicate_sources, resolver_config.rs:94).*)
NoDuplicateSource ==
  \A i, j \in DOMAIN registry : registry[i][1] = registry[j][1] => i = j

Ok(t) == ret[t].status = "ok"

(* A call that returned Ok left every scheme it asked for registered, with *)
(* System for H3 and HTTP, whatever earlier failing calls left behind, and *)
(* the mDNS set it returned is the one that lookups use.                   *)
OkIsComplete ==
  \A t \in Thread : Ok(t) =>
    /\ Range(Expand(schemes[t])) \subseteq Registered
    /\ "mdns" \in Range(schemes[t]) =>
         \E i \in DOMAIN registry : registry[i] = <<"mdns", ret[t].set>>
=============================================================================
