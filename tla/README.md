# A TLA+ verification of ddns

`ddns` (package `dyns`) resolves and publishes the QUIC endpoints of named hosts.
It asks several sources: multicast DNS on every network interface, a DNS server
over HTTP/3 or HTTPS, and the system resolver. This directory holds TLA+ models of
its concurrent parts and of its record and message formats, the TLC configurations
that check them, and TLAPS proofs of the results that should hold for every number of
tasks, instances and records.

Paths below are relative to `src/src/`.

## The system

| Part | Source | State | Operations | What is hard about it | Model |
|---|---|---|---|---|---|
| mDNS resolver set | `mdns.rs` 226-441 | map binding → instance (RwLock), `closed` flag, maintenance tasks | `upsert`, `remove`, `reconcile`, `maintain`, `snapshot`, `shutdown` | calls overlap, binds and joins fail, futures are dropped at awaits | `MdnsResolverSet`, `MdnsRegistry` |
| mDNS instance | `mdns/service.rs` | host records, protocol, two tasks | `insert_host`, `remove_host`, `query`, `shutdown_tasks`, responder loop | stop against use, last reference dropped | `MdnsResolverSet` (life), `MdnsQuery` (queries, answers) |
| packet router, query protocol | `mdns/protocol.rs` | map id → sender, bounded queues | `register_query`, `deliver`, `query`, route task | random 16-bit ids, UDP, full queues, timeouts | `MdnsQuery` |
| mDNS socket | `mdns/protocol.rs`, `mdns/if_nametoindex.rs` | – | socket options | operating system | – |
| H3 lookups, cache | `h3.rs`, `h3/lookup.rs`, `h3/cache.rs` | positive answers with expiry | `lookup_candidates`, `get`/`insert`/`invalidate_name`/`clear` | expiry, retries, crossing invalidation | `H3Lookup` |
| H3 publishing | `h3/publish.rs` | – | `publish_endpoints` | half-done publication, lease | `H3Lookup` |
| HTTP resolver | `http.rs` | the same cache | lookups | as H3, one attempt | `H3Lookup` (instance) |
| lookup API | `api.rs` | – | decoding, freshness | several records, some rejected; order of filters; boundaries | `LookupDecode` |
| endpoint candidates | `resolvers/endpoint_candidates.rs`, `endpoint_group.rs` | – | grouping, selection, limits | duplicates, families, chains | `EndpointCandidates`, which `LookupDecode` extends |
| resolver aggregate | `resolvers.rs`, `mdns.rs` (the set) | pending futures, streams, seen records | `lookup`, `lookup_endpoint_candidates` | order, partial failure, end of the stream | `Aggregate` |
| publishers | `publishers/aggregate.rs`, `publishers/packet.rs` | – | `publish_all`, records of an authority | partial failure | `Aggregate`, `EndpointAddr` |
| installation | `resolver_config.rs` | process-wide registry | `install_resolvers` | threads, error half-way | `InstallResolvers` |
| endpoint record | `core/parser/record/endpoint.rs` | flags and fields | constructors, setters, signing, reader, writer | flags against fields, old and new layouts | `EndpointAddr` |
| packet codec | `core/parser/**` | compression table, slice left to read | encode, parse | pointers, cut-off messages, records that are skipped | `Packet` |
| signatures, wire format | `core/signature.rs`, `core/wire.rs`, `core/parser/sigin.rs` | – | sign, verify, multi-record body | parts that do not belong together | `LookupDecode` (symbolic) |

The set owns the instances; an instance owns a protocol, a route task and a
responder task. The resolver aggregate asks the set and the H3 and HTTP resolvers;
the publisher aggregate gives the same endpoints to the instances and to the H3
resolver. `PROJECT.json` lists every component, the source lines behind every
definition (`map`), and the hazards with the line where each of them bites.

## MdnsResolverSet: the life of the instances

An action is one step between two accesses to shared state (the `closed` flag, the
`RwLock` around the map, the `Mutex` inside an instance) or between two awaits.

* `resolvers` and `closed` are the fields of `MdnsResolverSetInner`. `proto` says of
  each instance whether it exists, runs, has its protocol but no task that receives, is
  being stopped, or has stopped, with or without a panicked task. `Live` means that nobody
  has stopped it, as the code's `proto.is_some()` does; `RouteEnds` is the end of the route
  task on a socket error. `handles` are the `Arc`s the application keeps.
* `call`, `pc`, `binding`, `obj`, `race`, `snap`, `drained`, `desired`, `todo` and
  `failed` are the locals of each task. `pc` names the statement it is at, and
  `obj` is the instance it holds.
* `upsert` is `UpsertClosed`, `UpsertGet`, `Bind`, `Insert`, and for a losing candidate
  `Lose` and `LoseJoin`. `remove` is `Take`, `Retired`, `RetiredJoin`. `shutdown` is
  `Close`, `Drain`, `NextDrained`, `SkipDrained`, `DrainedJoin`. `reconcile` is
  `Snapshot`, `Retire`, `SkipDesired`, `Ensure`, with the steps of `remove` and
  `upsert` in between. `Tick` is the maintenance loop.
* An instance is dropped, and its tasks aborted, by the step that releases the last
  reference (`Settle`). Instances dropped this way can be reused, so `Slot` bounds
  the instances that exist at one time, not those of a behaviour.
* `Cancel` drops a call where it awaits.

`Ops` selects what the application does. That keeps each run to one question
and lets a theorem say under which use of the set it holds.

`MdnsRegistry` is the contract in six actions: an instance starts unseen, is registered
into an open set for a binding that has none, and is stopped by the set only after it has
left the map. `ImplementsRegistry` is the refinement, with `reg <- resolvers`,
`open <- ~closed`, and `live` the instances that nobody has stopped.

| Run | Instance | Checks |
|---|---|---|
| `MdnsResolverSet_race` | 1 binding, 3 instances, 3 callers; upsert, remove, shutdown, handles kept | `TypeOK`; `ClosedStaysEmpty`; `LiveIsOwned`; `QuiescentAfterShutdown`; `LiveHandleIsRegistered`; `RegisteredIsUnstopped` |
| `MdnsResolverSet_serial` | 3 bindings, 1 caller; reconcile, shutdown | the documented contract of `reconcile` (mdns.rs:343-348): `RetireBeforeCreate`, `ReconcileConverges`, `DesiredSurvives` |
| `MdnsResolverSet_maintain` | 2 bindings, 1 caller, 1 maintenance task | `ShutdownStopsMaintenance`, `MaintenanceConverges` |
| `mdns_set_progress` | 1 binding, 2 instances, 2 callers; upsert, remove, shutdown, stop, handles kept, cancelled calls | `CallsReturn`; `UnownedOnlyAfterClose`; `ImplementsRegistry` |

Why the bounds are enough: a race over one binding needs two upserts and a third task
that removes or shuts down, and three instances so that every upsert has a candidate.
`reconcile` treats bindings separately; three of them give one to retire, one to keep and
one to create in the same call. Most of the safety results are also proved, for all bounds.

What the runs show beyond the properties' names:

* A live instance outside the map that no call will stop exists only after a
  `shutdown` was dropped between two instances.
* `RegisteredIsUnstopped` does not hold if the application stops an instance through its
  handle: the dead instance stays registered, and `upsert` and `reconcile` keep it. The
  property, and `Stop` of the registry, exclude that use. The run of `ImplementsRegistry`
  has the operation, so it does not restrict `Stop`; the theorem covers the other uses.
* A registered instance is unstopped but need not work: after `RouteEnds` it stays in the
  map, nothing replaces it, and its queries run into their timeouts.
* `LiveHandleIsRegistered` says nothing of an instance that was stopped: `upsert` may return
  one that another task has removed in the meantime.
* A second concurrent stop of an instance returns before the first has joined its tasks.
  "Quiescent" therefore means that the tasks were aborted and no call is still running.

Fairness: weak fairness of every task step (the runtime polls what can run, the timer
fires) and of the end of aborted tasks. The application need not call anything. For
`MaintenanceConverges` also strong fairness of a successful bind: the retries converge only
if the operating system does not refuse a socket for ever.

## MdnsQuery: queries and answers on a link

`net` holds every packet ever sent; a node may receive any of them, in any order, again,
or never. `Ask` registers a query under a random id, which may be in use; the earlier
registration is replaced and, as `Drop for Responses` removes by id, the end of either
query removes the other's. `NextPacket` and `NoPacket` are one attempt each. `Receive` is
`deliver` with its two policies for a full queue. `Respond` reads the records under the
lock, `SendAnswer` broadcasts them later. `RouteFails` and `Shutdown` end the tasks;
running queries keep the router alive.

Names are model values with a containment relation, since the responder answers when a
hosted name contains the asked one, and then with all its records. `ever` and `stale` are
history variables: what was ever published under a name, and what nobody has published
since a query began.

| Run | Instance | Checks |
|---|---|---|
| `mdns_query` | 1 node, 2 names of which one contains the other, 2 queries, 2 ids, 1 attempt | `OwnAnswer`: no answer for another name, even when ids collide; `RegistrationIsRunning`: no registration is left behind; `RegisteredUnlessShared` and `NoStaleAnswer`: both hold unless two queries drew the same id |
| `MdnsQuery_end` | 1 node, 1 query, ids 0 and 1, 3 attempts, other software on the link | `QueriesEnd` |

The queue bound is 1 or 2 instead of 64, so that full queues occur. One attempt is like
the next, so one is enough for the safety run; a node receives its own multicast, so one node
both asks and answers. The theorems below cover any number of each. Packets of other software
have id 0 (`ForeignAssumption`), as plain mDNS demands. Fairness is that of
one query's own steps: either a response is there or 300 ms pass. Nothing is assumed of
the network or of the responders.

## H3Lookup: cached lookups and publications

Time is a discrete clock; an answer is the version of the records that the server
held when it answered. `Get` and `Evict` are the two halves of `LookupCache::get`, which
drops its guard before it removes an expired entry. `Send`, `Receive` and `Retry` are an
attempt: errors of the request or the body and timeouts are retried, other errors are not.
`Published` checks the lease before anything is invalidated; `InvalidateKey` and
`ClearCache` go key by key, as `DashMap` goes shard by shard. The server (`ServerSets`,
`ServeLookup`, `OtherPublishes`) is external.

| Run | Instance | Checks |
|---|---|---|
| `h3_lookup` | 2 lookups of one key, 1 publication, other publishers, 2 attempts, a server that may never answer, a clock of 2 ticks | `OnlyCrossedIsOld`, `BoundedStaleness`, `LookupsEnd` |

`OnlyCrossedIsOld` is what the code guarantees after a publication returned `Ok`: an
older answer is cached only if a lookup had its response in hand while `invalidate_name`
ran and stored it afterwards. Such an entry lives for its TTL; `BoundedStaleness` bounds how
old any returned answer is by `Timeout + MaxTtl`. A publication whose lease is rejected
fails after the server took the records and leaves the cache alone; the same bound
applies. Publishing itself has no timeout, so no progress is claimed for it.

Timers are punctual: the clock does not move past a request that is due. At the bound
`MaxNow` a pending request counts as timed out; it only shortens a wait. Two versions are
an old and a new answer, and the clock reaches exactly the instant at which an answer becomes
too old. The run is small because it checks liveness too; the two safety properties are
proved for all bounds. `HttpResolver` is the instance with one attempt and no publisher.
Fairness: the clock and the lookups' own steps, nothing of the server. Deadlock is not
checked here, because every call ends and the clock stops at its bound.

## Aggregate: calls that fan out

A behaviour is one call, and `op` and `kind` say which: `lookup` or
`lookup_endpoint_candidates` of `Resolvers` or of the mDNS set, or `publish_all`. The entries
answer in any order. `FirstOk` returns the first stream; from then on the consumer's `Poll`
drives `LaterOk`, `LaterErr`, `Yield` (with `seen`, for `Resolvers`), `YieldAll` (the set, which
keeps duplicates), `Exhausted` and `End`. The candidate calls wait for all and merge groups
of equal chains (`merge_groups`); the four `Return` actions are the four ways the
code decides between success and failure.

| Run | Instance | Checks |
|---|---|---|
| `aggregate` | up to 3 entries, one without candidate support; streams of length 0 to 2, also with a duplicate; lists of up to 2 groups | `YieldedOnce`; `StreamIsComplete`; `MergedExactly`: the result does not depend on the order of the answers; `FailsOnlyIfAllFail`; `CallEnds` |

Three entries give one that is fast, one slow and one failing. Fairness: a resolver answers a
lookup, which each of those in the crate ensures with a deadline (`http.rs:149`,
`h3/lookup.rs:114`, `mdns/protocol.rs:317`), and the consumer polls. Publishers have no
deadline and no fairness is assumed of them: `CallEnds` says that lookups end, and that
`publish_all`, which waits for all, returns once the last publisher has answered. One that
never answers keeps it waiting. The sources of a group are a set in the model, so `MergedExactly`
shows that none is lost but not that none is repeated. The record limit of a lookup is applied
by each source and not again after merging; the code does not promise more. Deadlock is not
checked, because a call ends or waits for a publisher.

## InstallResolvers: process-wide registration

One action per step of `install_resolvers` under its mutex: `Lock`, `Check` of a scheme,
`Add` or `Fail` of its constructor, `ReturnOk`. Threads call again, so that retries after
failures are included.

| Run | Instance | Checks |
|---|---|---|
| `install` | 3 threads, 5 lists of schemes, H3 and HTTP may fail | `NoDuplicateSource`; `OkIsComplete`: with the system resolver beside H3 and HTTP, whatever earlier failures left behind |

A call that failed half-way leaves H3 registered without the system resolver, which is
appended last, until a later call succeeds; the properties speak of calls that returned `Ok`.
A mutex poisoned by a panic is not modelled.

## LookupDecode: from a delivery to candidates

A behaviour decodes one delivery, one record per step: `RejectRecord`, `BadPacket`,
`AcceptRecord`, then `Finish`, or `BadBody` at once. `via` selects the server's path
(`decode_lookup_response`), the candidates of an mDNS instance, or its plain lookup. Grouping,
family filter, selection and limit are operators of `EndpointCandidates`, with the names of the
source's functions. They are written with folds and sets of positions, not with RECURSIVE
operators, so that the proofs can reach them.
Digests, keys and signatures are symbols: a signature names its key, scheme and the text
it covers, and `verify` is the sequence of comparisons in the code. Names are reduced to whether
they equal the asked one, so upper and lower case are not distinguished.

| Run | Instance | Checks |
|---|---|---|
| `decode` | bodies of up to 3 records out of 12 kinds, 6 queries with and without a sequence in the name, 4 sets of headers | `OnlyUsable`, `ExactGroups`, `CachedNoLongerThanFresh`, `EmptyIsExplained`, `StreamIsOneChain` |

The properties compare with a reference that looks at positions in the whole delivery
and shares none of the grouping, filtering and limiting operators. The deliveries include
duplicates, two chains, both families, records of a secondary chain, records of other
names and types, a digest of another packet, another certificate, and a missing signature.
Where the limit on records bites it is 1; the default of 3 needs longer deliveries and is left to
the theorem.
Deadlock is not checked, because decoding ends.

## EndpointAddr and Packet: what is written is read

`EndpointAddr` has the record type with its constructors, setters, signing and verification,
and its bytes. `Packet` builds a message around such records, writes it element by element
with name compression (`Put`), may cut it (`Transmit`), and reads it as `be_packet` does
(`Receive`, `Parse`): a parser returns nom's `Ok`, `Error` with a slice, `Incomplete` or
`Failure`, and `Parse` goes on or stops accordingly. Records of other software bring the
types, classes and old layouts that this library reads but never writes.

| Run | Instance | Checks |
|---|---|---|
| `packet` | a question and two records; 3 addresses, sequences 0, 1 and 64, two calls on a record; cut by 0, 1 or 15 bytes | `ReadsBack`, `NothingInvented`, `GoodPrefixKept`, `LegacyKept`, `VerifyExact`, `FieldsAreFlagged` |
| `endpoint_signed` | the records the library itself makes, a key that can sign and one that cannot | `SignedCarriesSignature` is violated, see below |

The pointer limit is 31 instead of 0x3FFF and the message limit 80 bytes, so that both are
reached by messages of two records. Sequence 64 is the first that needs two bytes. Labels have one
byte; of the header flags only the response bit is modelled, which `Packet::answer` sets with or
without records; a varint of eight bytes is read but never written, and numbers are exact below
2^30. A socket address is its bytes: the flow information and the scope of an IPv6 address are
not written and read as 0, so an address comes back exactly only without them. The time to live
of a record is not compared either. `VerifyExact` speaks of changing a signed field and
changing it back, which takes three calls where the run has two; the theorem covers it.
`FieldsAreFlagged` is about the methods: `primary` and `agent` are public fields, and assigning
them directly is not modelled. Deadlock is not checked, because reading ends.

What the runs show beyond the properties' names:

* After a record of an unknown class the reader skips the length of its data a second time,
  and swallows what follows (`record.rs:255`). `ReadsBack`, `NothingInvented` and
  `GoodPrefixKept` except such messages.
* An error in the data of a record is reported where it is met, and reading goes on there,
  inside the data (`record.rs:244`, `packet.rs:289`): bytes of the data can come out as a
  record that nobody sent. The messages of the run include an endpoint record with a record
  in its surplus bytes, and a name in data with a bad length byte. `NothingInvented` excepts
  exactly the records whose data ends in such an error (`OutOfStep`); it shows that records of
  an unknown type, and data that is too short, too long or out of range, are skipped as a whole
  or end their section.
* `be_endpoint_addr_compat` is documented to read a record of a legacy length as addresses only,
  "misinterpreting the port's high byte as `flags`" being what it avoids (`endpoint.rs:539-543`).
  The code tries the modern layout first (`:556`) and goes by the length only if that fails or
  leaves bytes over. `LegacyKept` says what follows: the bytes are read to their end, and as the
  addresses whenever the port's high byte does not announce a sequence, a load or a signature.
  If it does, they may be taken for a modern record, and one message of the run is.
* `set_clustered(true)` without a sequence gives a record that cannot be read back.

### Finding

`sign_endponit_address` ignores the result of `sign_with_authority` (`endpoint.rs:795`), which sets
the `SIGNED` flag before it can fail (`:222`). The record is then flagged, against the
documentation ("SIGNED — record carries a publisher key signature", `:71`), and has no signature.
The writer adds none, and the reader, which goes by the flag, finds the record incomplete and
loses it together with the rest of its section. The run `endpoint_signed` has the two steps.

## Proofs

The proofs hold for all constants that satisfy the named assumption of the component's module.

| Module | Theorem | Statement |
|---|---|---|
| `MdnsRegistryProofs` | `TypeCorrect` | `Spec => []TypeOK` |
| | `ClosedMapStaysEmpty` | `Spec => []ClosedStaysEmpty` |
| | `UnownedNeedsClose` | `Spec => []UnownedOnlyAfterClose`, with cancelled calls |
| | `NoLiveOrphan` | `LiveIsOwned` always holds when calls are not cancelled |
| | `ShutdownQuiesces` | `QuiescentAfterShutdown` always holds when calls are not cancelled |
| | `SetImplementsRegistry` | `Spec => ImplementsRegistry`, for every `Ops` |
| | `RegisteredStaysUnstopped` | `Spec => []RegisteredIsUnstopped` |
| | `LiveHandlesAreRegistered` | `Spec => []LiveHandleIsRegistered` |
| | `ReconcileRetiresFirst` | `RetireBeforeCreate` always holds when one task makes all calls (`Serial`) |
| | `SerialReconcileConverges` | likewise `ReconcileConverges` |
| | `DesiredIsPreserved` | likewise the action property `DesiredSurvives` |
| `MdnsQueryProofs` | `RegistrationsAreRunning` | `Spec => []RegistrationIsRunning` |
| | `RegistrationsAreKept` | `Spec => []RegisteredUnlessShared` |
| | `AnswersAreOwn` | `Spec => []OwnAnswer` |
| | `AnswersAreCurrent` | `Spec => []NoStaleAnswer` |
| `H3LookupProofs` | `TypeCorrect` | `Spec => []TypeOK` |
| | `StalenessIsBounded` | `Spec => BoundedStaleness` |
| | `OnlyCrossedStaysOld` | `Spec => []OnlyCrossedIsOld` |
| `AggregateProofs` | `RecordsAreUnique` | `Spec => []YieldedOnce` |
| | `StreamsAreComplete` | `Spec => []StreamIsComplete` |
| | `MergeIsExact` | `Spec => []MergedExactly` |
| | `PartialFailureSucceeds` | `Spec => []FailsOnlyIfAllFail` |
| | `SourcesAreUnique` | `InstallSpec => []NoDuplicateSource` |
| | `OkMeansComplete` | `InstallSpec => []OkIsComplete` |
| `LookupDecodeProofs` | `AnswersAreUsable` | `DecodeSpec => []OnlyUsable` |
| | `AnswersAreExact` | `DecodeSpec => []ExactGroups` |
| | `CachedWhileFresh` | `DecodeSpec => []CachedNoLongerThanFresh` |
| | `EmptyAnswersAreExplained` | `DecodeSpec => []EmptyIsExplained` |
| | `StreamsAreOneChain` | `DecodeSpec => []StreamIsOneChain` |
| `EndpointAddrProofs` | `FieldsAreAlwaysFlagged` | `EpSpec => []FieldsAreFlagged` |
| | `SignaturesAreExact` | `EpSpec => []VerifyExact` |
| | `RecordsReadBack` | `EpSpec => []RecordReadsBack`: what is written of a record is read as that record |
| | `ReadingIsStable` | what is read from any bytes is written in no more bytes and read as the same |
| | `LegacyIsRead` | any bytes of a legacy length are read to their end, as addresses unless the first byte announces other fields (`LegacyRead`) |

`MdnsResolverSetProofs` has the lemmas on single steps of the set that `MdnsRegistryProofs` rests on,
`EndpointCandidateProofs` those on grouping, selecting and limiting that `LookupDecodeProofs` and
`AggregateProofs` rest on.

### Resolver set and registry

From `ConstantsAssumption`: callers and maintenance tasks are disjoint, `None` is neither an
instance nor a binding, `Ops` names known operations. None of the properties is inductive as it
stands. The argument, in the order of the lemmas:

1. `LocalInv`: what a task's locals mean at each label, e.g. that `obj` is an instance
   between `Bind` and the end of the call.
2. `HeldInv`: an instance that anyone refers to is not free, so `Bind` never picks one that
   another task knows.
3. `JoinInv`: an instance that is being joined has been aborted. With it no step other
   than `Bind` produces a live instance.
4. `OwnInv`: a live instance is registered or owned by a call, or the set is
   closed and cancellation is possible. The theorems on ownership follow.
5. For the refinement: `KeyInv` (an instance is mapped under its own binding), `FreshInv` (a
   candidate between `Bind` and `Insert` is live and known to its upsert alone, so `Insert`
   registers an instance that nobody has stopped), `GoneInv` (what `remove` and `shutdown` are about to stop
   has left the map), `DropInv` (a live instance is referred to, so dropping stops
   nothing that is mapped) and `StopInv`. Each step of the set is then a step of the registry or
   a stuttering one (`RefStep`).
6. For `reconcile` by a caller that waits for each call (`Serial`): `SerialInv`. The map does not
   change behind a call; while `reconcile` retires, what is registered is desired or still to
   be looked at; while it creates, what is desired is registered, to be done, being done or failed.

### Queries and lookups

* `MdnsQuery` (`QueryAssumption`, `ForeignAssumption`). `TypeInv` adds to the types that a
  waiting query has a node and a non-zero id. `OwnInv`: whatever a node hosts, is about to
  send, has sent under an id other than 0, or has queued for a query was published under its
  name at some time; an answer is taken from a queue for the asked name alone. For
  `NoStaleAnswer`: every packet has the id 0 or that of a query (`KnownInv`), so a query that
  begins with an id of its own finds no packet with it, and each response to it is made of
  records that were read after it began (`HostedInv`, `CurrentInv`).
* `H3Lookup` (`LookupAssumption`). `AgeInv` carries the times: a version that is current was not
  replaced; a response in flight was current when its request was sent or later; an entry expires
  at most `Timeout + MaxTtl` after its version was replaced. `BoundedStaleness` follows because
  an entry is served only before it expires. `CrossInv`: for a key that a running
  invalidation has passed, and for all keys once it returned, what is cached or in hand is
  new or marked as crossed.

### Aggregate and installation

* `Aggregate` (`AggregateAssumption`). `StreamInv`: every record of a stream that was opened is
  in `seen` or still in the stream, and a record was passed on once if it is in `seen` and
  never otherwise. `CountInv` is the same for the set of mDNS resolvers, which keeps duplicates:
  a record was passed on as often as it stands among those that have left their streams.
  `AnswerInv`: every entry of a call that collects is pending, has succeeded or has failed.
  `MergeInv`: the groups merged so far are exactly those of the entries that have succeeded.
  As this says nothing of an order, the result depends on none.
* `InstallResolvers` (`InstallAssumption`). `InstallInv`: the schemes remembered are the schemes
  registered, the holder of the lock has left behind it only registered ones, and a call that
  returned `Ok` has none left.

### Candidates and decoding

The library's induction theorems take the predicate as an operator, which the provers cannot
instantiate. `EndpointCandidateProofs` goes around this: a predicate on numbers is the set of the
numbers that satisfy it, a fold is the function of its intermediate results, and from the least
element of a set of naturals follows induction over both. `Pick(s, I)`, the elements of `s` at
the positions `I` in order, describes what filters, limits and the removal of duplicates leave;
`GroupingStep` and its neighbours say the same of the grouping by chains.

`DecodeInv` (`DecodeAssumption`: the shape of queries, headers and bodies) numbers the candidates
collected so far by the positions of the answers in the delivery that are genuine, of the asked
name and endpoints, in the order of the delivery. At the end these are all such answers, and
`ByNumber`, `ChainsByNumber` and `GroupByNumber` carry the properties, which speak of positions,
over to what the operators compute from the list. `rejected` is 0 exactly if everything so far was
genuine, which explains an empty answer. `Fresh` bounds the TTL by the minimum that the code takes.

### The endpoint record

From `EndpointAssumption`: the lengths of addresses, loads and scheme numbers; sequences and
signature lengths below 2^30, the range in which the writer needs at most four bytes for a varint
(the eight-byte form is read but not written in this model); `None` is none of the values.

* `Flagged` is kept by every setter, and by signing whether it succeeds or fails; one lemma each.
* `SigInv`: the signature of a record is the last one made, and `write_base` of what was signed is
  what it covers. `VerifyExact` follows because the base bytes of two records with the same
  addresses are equal only if their flags, sequences and loads are.
* Reading back: one lemma for each field says that its bytes, found in an input, are read as the
  value they were written from, and where reading goes on. A modern record of a legacy length
  is read as modern, because the modern reader is tried first and takes all its bytes.
* The opposite direction goes through the fields too: what the reader took determines bytes that
  are no longer than the ones it took (a varint may come in a longer form than is written),
  and these are read back by the lemmas before.
* Legacy bytes: without `CLUSTERED`, `LOAD` and `SIGNED` a modern record is one byte longer than
  its addresses (`ModernLength`), which no legacy length is, so the modern reader cannot take all.

### Only model-checked

The liveness properties (`CallsReturn`, `ShutdownStopsMaintenance`, `MaintenanceConverges`,
`QueriesEnd`, `LookupsEnd`, `CallEnds`), which the prover cannot treat. `ReadsBack`,
`NothingInvented`, `GoodPrefixKept` and `LegacyKept` of whole messages: names are read by a RECURSIVE
operator that follows compression pointers, and the prover loses its arithmetic in a module
that reaches one. What they say of an endpoint record by itself is proved in `RecordsReadBack`,
`ReadingIsStable` and `LegacyIsRead`; `LegacyKept` is `LegacyRead` of the records of a message.

## Not modelled

* Socket options, multicast membership and interface indices: operating system calls. The link
  they give access to is the unreliable one of `MdnsQuery`.
* TLS, QUIC and HTTP clients: libraries. A request may be answered, fail or never return.
* The algorithms of digests and signatures and the text of the header fields.
* URLs, the parsing of configured origins, the text form of names and its errors.
* The order of endpoints inside an mDNS answer, except as input of `LookupDecode`.
* Logging, error texts, test support, examples and the build script.
* Promises the code does not make, listed as hazards without a property in `PROJECT.json`:
  an instance stopped through its handle stays registered; a second stop does not wait for the
  tasks; publishing has no timeout; cache keys ignore case and the decoder does not; what follows
  a record of an unknown class is not read.

## Running

```
tlc -config MdnsResolverSet_race.cfg MCMdnsResolverSet
tlapm MdnsRegistryProofs.tla
```

`PROJECT.json` has the module and the configuration of every run. `LookupDecodeProofs` and
`AggregateProofs` take the longest, about a quarter of an hour each.
