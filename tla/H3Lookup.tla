------------------------------ MODULE H3Lookup ------------------------------
(***************************************************************************)
(* Lookups and publishing of one H3Resolver (src/src/h3.rs and src/src/h3) *)
(* against its DNS server: the positive cache with its expiry, requests    *)
(* that are retried when they fail or time out, and publish_endpoints,     *)
(* which invalidates the name it published.  With one attempt and no       *)
(* publisher it is the HttpResolver of src/src/http.rs.                    *)
(*                                                                         *)
(* Time is a discrete clock.  An answer is the version of the records that *)
(* the server held when it answered.                                       *)
(***************************************************************************)
EXTENDS Naturals

CONSTANTS
  Name,
  Self,         \* the name of the resolver's own endpoint
  Kind,         \* the different EndpointLookups of one name
  Lookup,       \* calls of lookup_candidates
  Publisher,    \* calls of publish_endpoints
  Attempts,     \* LOOKUP_REQUEST_ATTEMPTS, 3 in the code
  Timeout,      \* LOOKUP_REQUEST_TIMEOUT, in ticks
  MaxTtl,       \* the longest time an answer stays fresh
  MaxVersion,   \* bound on the changes of the server's records
  MaxNow,       \* bound on the clock
  None

Key == Name \X Kind
name(k) == k[1]
Version == 0 .. MaxVersion
Entry == [version : Version, expires : Nat, crossed : BOOLEAN]

ASSUME LookupAssumption ==
  /\ Self \in Name
  /\ Attempts \in Nat \ {0} /\ Timeout \in Nat \ {0} /\ MaxTtl \in Nat \ {0}
  /\ MaxVersion \in Nat /\ MaxNow \in Nat
  /\ None \notin Entry \cup Key \cup Nat

VARIABLES
  now,
  version,   \* the server's version of each name
  records,   \* the names it has records for
  replaced,  \* when a version of a name was replaced
  cache,     \* the positive answers
  pc, key, attempt, sent,  \* of each lookup
  status,    \* what its request came to
  reply,     \* the version in the response, which it returns
  ppc, empty, posted,  \* of each publish: its state, whether it withdraws
                       \* the endpoints, the version it made
  stale,     \* the keys it has yet to invalidate
  crossed,   \* lookups that held a response when their key was invalidated
  floor      \* the last version of Self whose publication returned Ok

lookupVars == <<pc, key, attempt, sent, status, reply>>
publishVars == <<ppc, empty, posted, stale>>
serverVars == <<version, records, replaced>>
vars == <<now, serverVars, cache, lookupVars, publishVars, crossed, floor>>

TypeOK ==
  /\ now \in 0 .. MaxNow
  /\ version \in [Name -> Version]
  /\ records \in SUBSET Name
  /\ replaced \in [Name -> [Version -> Nat \cup {None}]]
  /\ cache \in [Key -> Entry \cup {None}]
  /\ pc \in [Lookup -> {"idle", "get", "evict", "send", "wait", "ok", "failed"}]
  /\ key \in [Lookup -> Key \cup {None}]
  /\ attempt \in [Lookup -> 0 .. Attempts]
  /\ sent \in [Lookup -> Nat]
  /\ status \in [Lookup -> {"none", "records", "error", "refused"}]
  /\ reply \in [Lookup -> Version]
  /\ ppc \in [Publisher -> {"idle", "post", "posted", "refused", "invalidate", "ok", "failed"}]
  /\ empty \in [Publisher -> BOOLEAN]
  /\ posted \in [Publisher -> Version]
  /\ stale \in [Publisher -> SUBSET Key]
  /\ crossed \in SUBSET Lookup
  /\ floor \in Version

Init ==
  /\ now = 0
  /\ version = [n \in Name |-> 0]
  /\ records = Name
  /\ replaced = [n \in Name |-> [v \in Version |-> None]]
  /\ cache = [k \in Key |-> None]
  /\ pc = [l \in Lookup |-> "idle"]
  /\ key = [l \in Lookup |-> None]
  /\ attempt = [l \in Lookup |-> 0]
  /\ sent = [l \in Lookup |-> 0]
  /\ status = [l \in Lookup |-> "none"]
  /\ reply = [l \in Lookup |-> 0]
  /\ ppc = [p \in Publisher |-> "idle"]
  /\ empty = [p \in Publisher |-> FALSE]
  /\ posted = [p \in Publisher |-> 0]
  /\ stale = [p \in Publisher |-> {}]
  /\ crossed = {}
  /\ floor = 0

-----------------------------------------------------------------------------
(* The server *)

(* It takes over the records of a publication, or drops the name. *)
ServerSets(n, e) ==
  /\ version[n] < MaxVersion
  /\ version' = [version EXCEPT ![n] = @ + 1]
  /\ records' = IF e THEN records \ {n} ELSE records \cup {n}
  /\ replaced' = [replaced EXCEPT ![n][version[n]] = now]

OtherPublishes(n, e) ==
  /\ ServerSets(n, e)
  /\ UNCHANGED <<now, cache, lookupVars, publishVars, crossed, floor>>

(* "error" is a failed request or body, which is retried; "refused" is any *)
(* other error: 404 or another status, too large, or not decodable.        *)
ServeLookup(l) ==
  LET n == name(key[l]) IN
  /\ pc[l] = "wait" /\ status[l] = "none"
  /\ \/ /\ n \in records
        /\ status' = [status EXCEPT ![l] = "records"]
        /\ reply' = [reply EXCEPT ![l] = version[n]]
     \/ /\ \E s \in {"error", "refused"} : status' = [status EXCEPT ![l] = s]
        /\ UNCHANGED reply
  /\ UNCHANGED <<now, serverVars, cache, pc, key, attempt, sent, publishVars, crossed, floor>>

-----------------------------------------------------------------------------
(* lookup_candidates *)

(* An invalid name, and the server's own name, are refused at once. *)
Begin(l, k) ==
  /\ pc[l] = "idle"
  /\ \E s \in {"get", "failed"} : pc' = [pc EXCEPT ![l] = s]
  /\ key' = [key EXCEPT ![l] = k]
  /\ UNCHANGED <<now, serverVars, cache, attempt, sent, status, reply,
                 publishVars, crossed, floor>>

Fresh(e) == e.expires > now

GetIf(l, hit) ==
  LET e == cache[key[l]] IN
  /\ pc[l] = "get"
  /\ \/ /\ e # None /\ hit
        /\ pc' = [pc EXCEPT ![l] = "ok"]
        /\ reply' = [reply EXCEPT ![l] = e.version]
     \/ /\ e # None /\ ~hit
        /\ pc' = [pc EXCEPT ![l] = "evict"]
        /\ UNCHANGED reply
     \/ /\ e = None
        /\ pc' = [pc EXCEPT ![l] = "send"]
        /\ UNCHANGED reply
  /\ UNCHANGED <<now, serverVars, cache, key, attempt, sent, status,
                 publishVars, crossed, floor>>

GetExpired(l) == GetIf(l, cache[key[l]].expires >= now)  \* mutant: >= for >

Get(l) == GetIf(l, Fresh(cache[key[l]]))

(* The guard of get was dropped: another lookup may have stored a fresh    *)
(* answer in between, which this removes.                                  *)
Evict(l) ==
  /\ pc[l] = "evict"
  /\ cache' = [cache EXCEPT ![key[l]] = None]
  /\ pc' = [pc EXCEPT ![l] = "send"]
  /\ UNCHANGED <<now, serverVars, key, attempt, sent, status, reply,
                 publishVars, crossed, floor>>

Send(l) ==
  /\ pc[l] = "send"
  /\ pc' = [pc EXCEPT ![l] = "wait"]
  /\ attempt' = [attempt EXCEPT ![l] = @ + 1]
  /\ sent' = [sent EXCEPT ![l] = now]
  /\ status' = [status EXCEPT ![l] = "none"]
  /\ UNCHANGED <<now, serverVars, cache, key, reply, publishVars, crossed, floor>>

(* A decodable response is stored for as long as it stays fresh (not at    *)
(* all when freshness is 0) and returned.                                  *)
Receive(l) ==
  /\ pc[l] = "wait" /\ status[l] = "records"
  /\ \E ttl \in 0 .. MaxTtl :
       cache' = IF ttl = 0 THEN cache
                ELSE [cache EXCEPT ![key[l]] =
                        [version |-> reply[l], expires |-> now + ttl,
                         crossed |-> l \in crossed]]
  /\ pc' = [pc EXCEPT ![l] = "ok"]
  /\ UNCHANGED <<now, serverVars, key, attempt, sent, status, reply,
                 publishVars, crossed, floor>>

(* Beyond the bound on the clock no request is waited for. *)
TimedOut(l) == now >= sent[l] + Timeout \/ now = MaxNow

RetryIf(l, more, due) ==
  /\ pc[l] = "wait"
  /\ \/ /\ status[l] = "error" \/ (status[l] = "none" /\ due)
        /\ pc' = [pc EXCEPT ![l] = IF more THEN "send" ELSE "failed"]
     \/ /\ status[l] = "refused"
        /\ pc' = [pc EXCEPT ![l] = "failed"]
  /\ UNCHANGED <<now, serverVars, cache, key, attempt, sent, status, reply,
                 publishVars, crossed, floor>>

RetryUntimed(l) == RetryIf(l, attempt[l] < Attempts, FALSE)  \* mutant: no timeout

Retry(l) == RetryIf(l, attempt[l] < Attempts, TimedOut(l))

(* The caller drops the future: nothing is stored. *)
CancelLookup(l) ==
  /\ pc[l] = "wait"
  /\ pc' = [pc EXCEPT ![l] = "failed"]
  /\ UNCHANGED <<now, serverVars, cache, key, attempt, sent, status, reply,
                 publishVars, crossed, floor>>

-----------------------------------------------------------------------------
(* publish_endpoints, of the resolver's own name *)

(* The name, the identity, the packet and its signature are checked first. *)
BeginPublish(p, e) ==
  /\ ppc[p] = "idle"
  /\ \E s \in {"post", "failed"} : ppc' = [ppc EXCEPT ![p] = s]
  /\ empty' = [empty EXCEPT ![p] = e]
  /\ UNCHANGED <<now, serverVars, cache, lookupVars, posted, stale, crossed, floor>>

(* The request has no timeout and is not retried. *)
ServePublish(p) ==
  /\ ppc[p] = "post"
  /\ \/ /\ ServerSets(Self, empty[p])
        /\ posted' = [posted EXCEPT ![p] = version'[Self]]
        /\ ppc' = [ppc EXCEPT ![p] = "posted"]
     \/ /\ ppc' = [ppc EXCEPT ![p] = "refused"]
        /\ UNCHANGED <<serverVars, posted>>
  /\ UNCHANGED <<now, cache, lookupVars, empty, stale, crossed, floor>>

(* The lease header: zero must mean a withdrawal, and only that. *)
LeaseOK(lease, e) == lease = "absent" \/ (lease # "malformed" /\ e = (lease = "zero"))

OwnKeys == {k \in Key : name(k) = Self}

(* The response arrives.  With a lease it rejects the call fails although  *)
(* the server has the new records, and the cache keeps the old answers.    *)
PublishedWith(p, keys) ==
  /\ ppc[p] = "posted"
  /\ \E lease \in {"absent", "zero", "positive", "malformed"} :
       IF LeaseOK(lease, empty[p])
         THEN /\ ppc' = [ppc EXCEPT ![p] = "invalidate"]
              /\ stale' = [stale EXCEPT ![p] = keys]
         ELSE /\ ppc' = [ppc EXCEPT ![p] = "failed"]
              /\ UNCHANGED stale
  /\ UNCHANGED <<now, serverVars, cache, lookupVars, empty, posted, crossed, floor>>

PublishedKept(p) == PublishedWith(p, {})  \* mutant: no lookup is invalidated

Published(p) == PublishedWith(p, OwnKeys)

(* A status other than 200, or the request, upload or response fails. *)
PublishFails(p) ==
  /\ ppc[p] \in {"post", "posted", "refused"}
  /\ ppc' = [ppc EXCEPT ![p] = "failed"]
  /\ UNCHANGED <<now, serverVars, cache, lookupVars, empty, posted, stale, crossed, floor>>

(* invalidate_name goes through the map shard by shard. *)
InvalidateKey(p, k) ==
  /\ k \in stale[p]
  /\ stale' = [stale EXCEPT ![p] = @ \ {k}]
  /\ cache' = [cache EXCEPT ![k] = None]
  /\ crossed' = crossed \cup {l \in Lookup : /\ key[l] = k /\ pc[l] = "wait"
                                             /\ status[l] = "records"}
  /\ UNCHANGED <<now, serverVars, lookupVars, ppc, empty, posted, floor>>

PublishReturns(p) ==
  /\ ppc[p] = "invalidate" /\ stale[p] = {}
  /\ ppc' = [ppc EXCEPT ![p] = "ok"]
  /\ floor' = IF floor < posted[p] THEN posted[p] ELSE floor
  /\ UNCHANGED <<now, serverVars, cache, lookupVars, empty, posted, stale, crossed>>

-----------------------------------------------------------------------------
(* clear_cache, which the application may call at any time, empties the    *)
(* shards one by one.                                                      *)
ClearCache(k) ==
  /\ cache[k] # None
  /\ cache' = [cache EXCEPT ![k] = None]
  /\ UNCHANGED <<now, serverVars, lookupVars, publishVars, crossed, floor>>

(* Timers are punctual: a request that is due ends before the clock moves. *)
Tick ==
  /\ now < MaxNow
  /\ \A l \in Lookup : pc[l] = "wait" => now < sent[l] + Timeout
  /\ now' = now + 1
  /\ UNCHANGED <<serverVars, cache, lookupVars, publishVars, crossed, floor>>

LookupStep(l) == Get(l) \/ Evict(l) \/ Send(l) \/ Receive(l) \/ Retry(l)

PublishStep(p) ==
  \/ ServePublish(p)
  \/ Published(p)
  \/ PublishFails(p)
  \/ \E k \in Key : InvalidateKey(p, k)
  \/ PublishReturns(p)

Next ==
  \/ Tick
  \/ \E n \in Name, e \in BOOLEAN : OtherPublishes(n, e)
  \/ \E k \in Key : ClearCache(k) \/ \E l \in Lookup : Begin(l, k)
  \/ \E l \in Lookup : ServeLookup(l) \/ CancelLookup(l) \/ LookupStep(l)
  \/ \E p \in Publisher : PublishStep(p) \/ \E e \in BOOLEAN : BeginPublish(p, e)

Spec == Init /\ [][Next]_vars

(* Lookups run on the executor and their timers fire; nothing makes the    *)
(* server answer.                                                          *)
FairSpec == Spec /\ WF_vars(Tick) /\ \A l \in Lookup : WF_vars(LookupStep(l))

-----------------------------------------------------------------------------
(* An answer that a lookup returns, cached or not, was replaced at the     *)
(* server, if at all, less than Timeout + MaxTtl ago: an answer is fetched *)
(* within the timeout and leaves the cache when its TTL is over, whatever  *)
(* evictions, retries and publications run beside it.                      *)
Outdated(n, v) == replaced[n][v] # None /\ replaced[n][v] + Timeout + MaxTtl <= now
BoundedStaleness ==
  [][\A l \in Lookup : pc'[l] = "ok" /\ pc[l] # "ok" => ~Outdated(name(key[l]), reply'[l])]_vars

(* Once a publication of the resolver's own name has returned Ok, an older *)
(* answer can only be in the cache if a lookup that already held its       *)
(* response while invalidate_name ran has stored it afterwards.            *)
OnlyCrossedIsOld ==
  \A k \in OwnKeys : cache[k] # None /\ cache[k].version < floor => cache[k].crossed

(* A lookup returns although the server may never answer: every attempt    *)
(* has a timeout and lookup_response_with_retry makes a bounded number.    *)
LookupsEnd == \A l \in Lookup : pc[l] # "idle" ~> pc[l] \in {"ok", "failed"}
=============================================================================
