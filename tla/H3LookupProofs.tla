--------------------------- MODULE H3LookupProofs ---------------------------
(***************************************************************************)
(* Proofs about H3Lookup, for any number of names, lookups, publishers,    *)
(* attempts, any timeout and any TTL: no answer is older than the timeout  *)
(* and the TTL together (BoundedStaleness), and a publication that has     *)
(* returned leaves no older answer in the cache but those of lookups it    *)
(* crossed (OnlyCrossedIsOld).                                             *)
(***************************************************************************)
EXTENDS H3Lookup, TLAPS

-----------------------------------------------------------------------------
(* Types, and how many attempts are left where *)

TypeInv ==
  /\ TypeOK
  /\ \A l \in Lookup :
       /\ pc[l] # "idle" => key[l] \in Key
       /\ pc[l] \in {"idle", "get", "evict"} => attempt[l] = 0
       /\ pc[l] = "send" => attempt[l] < Attempts

LEMMA TypeInit == Init => TypeInv
BY LookupAssumption DEF Init, TypeInv, TypeOK, Version

(* What changes at the server when it takes over records of n. *)
Sets(n) ==
  /\ version' \in [Name -> Version]
  /\ records' \in SUBSET Name
  /\ replaced' \in [Name -> [Version -> Nat \cup {None}]]
  /\ version'[n] = version[n] + 1
  /\ \A m \in Name \ {n} : version'[m] = version[m]
  /\ \A m \in Name, v \in Version :
       replaced'[m][v] = IF m = n /\ v = version[n] THEN now ELSE replaced[m][v]

LEMMA ServerSetsFacts ==
  ASSUME TypeOK, NEW n \in Name, NEW e, ServerSets(n, e) PROVE Sets(n)
<1> USE LookupAssumption DEF TypeOK, ServerSets, Version
<1>1. version' \in [Name -> Version]
  OBVIOUS
<1>2. records' \in SUBSET Name
  OBVIOUS
<1>3. replaced' \in [Name -> [Version -> Nat \cup {None}]]
  OBVIOUS
<1>4. \A m \in Name, v \in Version :
        replaced'[m][v] = IF m = n /\ v = version[n] THEN now ELSE replaced[m][v]
  OBVIOUS
<1>5. QED
  BY <1>1, <1>2, <1>3, <1>4 DEF Sets

LEMMA TypeStep == TypeInv /\ [Next]_vars => TypeInv'
<1> SUFFICES ASSUME TypeInv, [Next]_vars PROVE TypeInv'
  OBVIOUS
<1> USE LookupAssumption DEF TypeInv, TypeOK, lookupVars, publishVars, serverVars
<1>1. CASE Tick
  BY <1>1 DEF Tick
<1>2. ASSUME NEW n \in Name, NEW e \in BOOLEAN, OtherPublishes(n, e) PROVE TypeInv'
  <2>1. Sets(n)
    BY <1>2, ServerSetsFacts DEF OtherPublishes
  <2>2. QED
    BY <1>2, <2>1 DEF OtherPublishes, Sets
<1>3. ASSUME NEW k \in Key, ClearCache(k) PROVE TypeInv'
  BY <1>3 DEF ClearCache
<1>4. ASSUME NEW k \in Key, NEW l \in Lookup, Begin(l, k) PROVE TypeInv'
  BY <1>4 DEF Begin
<1>5. ASSUME NEW l \in Lookup, ServeLookup(l) PROVE TypeInv'
  <2>1. key[l] \in Key /\ name(key[l]) \in Name
    BY <1>5 DEF ServeLookup, Key, name
  <2>2. status' \in [Lookup -> {"none", "records", "error", "refused"}]
    BY <1>5 DEF ServeLookup
  <2>3. reply' \in [Lookup -> Version]
    BY <1>5, <2>1 DEF ServeLookup
  <2>4. QED
    BY <1>5, <2>2, <2>3 DEF ServeLookup
<1>6. ASSUME NEW l \in Lookup, CancelLookup(l) PROVE TypeInv'
  BY <1>6 DEF CancelLookup
<1>7. ASSUME NEW l \in Lookup, Get(l) PROVE TypeInv'
  <2>1. key[l] \in Key /\ cache[key[l]] \in Entry \cup {None}
    BY <1>7 DEF Get, GetIf
  <2>2. reply' \in [Lookup -> Version]
    <3>1. CASE reply' = [reply EXCEPT ![l] = cache[key[l]].version] /\ cache[key[l]] # None
      BY <2>1, <3>1 DEF Entry
    <3>2. CASE reply' = reply
      BY <3>2
    <3>3. QED
      BY <1>7, <3>1, <3>2 DEF Get, GetIf
  <2>3. \E s \in {"ok", "evict", "send"} : pc' = [pc EXCEPT ![l] = s]
    BY <1>7 DEF Get, GetIf
  <2>4. pc[l] = "get" /\ UNCHANGED <<now, serverVars, cache, key, attempt, sent, status,
                                    publishVars, crossed, floor>>
    BY <1>7 DEF Get, GetIf
  <2>5. QED
    BY <2>1, <2>2, <2>3, <2>4
<1>8. ASSUME NEW l \in Lookup, Evict(l) PROVE TypeInv'
  BY <1>8 DEF Evict
<1>9. ASSUME NEW l \in Lookup, Send(l) PROVE TypeInv'
  BY <1>9 DEF Send
<1>10. ASSUME NEW l \in Lookup, Receive(l) PROVE TypeInv'
  BY <1>10 DEF Receive, Entry
<1>11. ASSUME NEW l \in Lookup, Retry(l) PROVE TypeInv'
  BY <1>11 DEF Retry, RetryIf
<1>12. ASSUME NEW p \in Publisher, ServePublish(p) PROVE TypeInv'
  <2>1. CASE ServerSets(Self, empty[p]) /\ posted' = [posted EXCEPT ![p] = version'[Self]]
    <3>1. Sets(Self)
      BY <2>1, ServerSetsFacts
    <3>2. posted' \in [Publisher -> Version]
      BY <2>1, <3>1 DEF Sets
    <3>3. ppc' \in [Publisher -> {"idle", "post", "posted", "refused", "invalidate", "ok", "failed"}]
      BY <1>12 DEF ServePublish
    <3>4. QED
      BY <1>12, <3>1, <3>2, <3>3 DEF ServePublish, Sets
  <2>2. CASE UNCHANGED <<serverVars, posted>>
    BY <1>12, <2>2 DEF ServePublish
  <2>3. QED
    BY Zenon, <1>12, <2>1, <2>2 DEF ServePublish
<1>13. ASSUME NEW p \in Publisher, Published(p) PROVE TypeInv'
  <2>1. ppc' \in [Publisher -> {"idle", "post", "posted", "refused", "invalidate", "ok", "failed"}]
    <3>1. \E x \in {"invalidate", "failed"} : ppc' = [ppc EXCEPT ![p] = x]
      BY <1>13 DEF Published, PublishedWith
    <3>2. QED
      BY <3>1
  <2>2. stale' \in [Publisher -> SUBSET Key]
    BY <1>13 DEF Published, PublishedWith, OwnKeys
  <2>3. QED
    BY <1>13, <2>1, <2>2 DEF Published, PublishedWith
<1>14. ASSUME NEW p \in Publisher, PublishFails(p) PROVE TypeInv'
  <2>1. ppc' \in [Publisher -> {"idle", "post", "posted", "refused", "invalidate", "ok", "failed"}]
    BY <1>14 DEF PublishFails
  <2>2. QED
    BY <1>14, <2>1 DEF PublishFails
<1>15. ASSUME NEW p \in Publisher, NEW k \in Key, InvalidateKey(p, k) PROVE TypeInv'
  BY <1>15 DEF InvalidateKey
<1>16. ASSUME NEW p \in Publisher, PublishReturns(p) PROVE TypeInv'
  BY <1>16 DEF PublishReturns
<1>17. ASSUME NEW p \in Publisher, NEW e \in BOOLEAN, BeginPublish(p, e) PROVE TypeInv'
  BY <1>17 DEF BeginPublish
<1>18. CASE UNCHANGED vars
  BY <1>18 DEF vars
<1> HIDE DEF TypeInv
<1>19. QED
  BY <1>1, <1>2, <1>3, <1>4, <1>5, <1>6, <1>7, <1>8, <1>9, <1>10, <1>11, <1>12, <1>13,
     <1>14, <1>15, <1>16, <1>17, <1>18 DEF Next, LookupStep, PublishStep

-----------------------------------------------------------------------------
(* The age of answers *)

(* A version is replaced after it was current, a response is of a version  *)
(* that was current when the request was out, requests do not outlive the  *)
(* timeout, and an answer expires within the timeout and the TTL of the    *)
(* replacement of its version.                                             *)
AgeInv ==
  /\ \A n \in Name, v \in Version : v >= version[n] => replaced[n][v] = None
  /\ \A l \in Lookup : pc[l] = "wait" =>
       /\ sent[l] <= now /\ now <= sent[l] + Timeout
       /\ status[l] = "records" /\ replaced[name(key[l])][reply[l]] # None =>
            sent[l] <= replaced[name(key[l])][reply[l]]
  /\ \A k \in Key : cache[k] # None =>
       /\ cache[k].expires <= now + MaxTtl
       /\ replaced[name(k)][cache[k].version] # None =>
            cache[k].expires <= replaced[name(k)][cache[k].version] + Timeout + MaxTtl

LEMMA AgeInit == Init => AgeInv
BY LookupAssumption DEF Init, AgeInv, Key, name

LEMMA NameOfKey == \A k \in Key : name(k) \in Name
BY DEF Key, name

(* The server's step: what it replaces now was sent, and cached, before.   *)
LEMMA AgeSets ==
  ASSUME TypeInv, AgeInv, NEW n \in Name, Sets(n), UNCHANGED <<now, cache, lookupVars>>
  PROVE  AgeInv'
<1> USE LookupAssumption, NameOfKey DEF TypeInv, TypeOK, lookupVars, Sets
<1>1. \A m \in Name, v \in Version : v >= version'[m] => replaced'[m][v] = None
  <2> SUFFICES ASSUME NEW m \in Name, NEW v \in Version, v >= version'[m]
               PROVE  replaced'[m][v] = None
    OBVIOUS
  <2>1. version[m] \in Nat /\ v \in Nat /\ version'[m] = IF m = n THEN version[m] + 1 ELSE version[m]
    BY DEF Version
  <2>2. replaced[m][v] = None /\ ~(m = n /\ v = version[n])
    BY <2>1 DEF AgeInv
  <2>3. QED
    BY <2>2
<1>2. ASSUME NEW l \in Lookup, pc'[l] = "wait"
      PROVE  /\ sent'[l] <= now' /\ now' <= sent'[l] + Timeout
             /\ status'[l] = "records" /\ replaced'[name(key'[l])][reply'[l]] # None =>
                  sent'[l] <= replaced'[name(key'[l])][reply'[l]]
  <2>1. key[l] \in Key /\ name(key[l]) \in Name /\ reply[l] \in Version
    BY <1>2
  <2>2. replaced'[name(key[l])][reply[l]] \in {now, replaced[name(key[l])][reply[l]]}
    BY <2>1
  <2>3. QED
    BY <1>2, <2>1, <2>2 DEF AgeInv
<1>3. ASSUME NEW k \in Key, cache'[k] # None
      PROVE  /\ cache'[k].expires <= now' + MaxTtl
             /\ replaced'[name(k)][cache'[k].version] # None =>
                  cache'[k].expires <= replaced'[name(k)][cache'[k].version] + Timeout + MaxTtl
  <2>1. cache[k] \in Entry /\ name(k) \in Name
    BY <1>3
  <2>2. cache[k].version \in Version /\ cache[k].expires \in Nat
    BY <2>1 DEF Entry
  <2>3. replaced'[name(k)][cache[k].version] \in {now, replaced[name(k)][cache[k].version]}
    BY <2>1, <2>2
  <2>4. /\ cache[k].expires <= now + MaxTtl
        /\ replaced[name(k)][cache[k].version] # None =>
             cache[k].expires <= replaced[name(k)][cache[k].version] + Timeout + MaxTtl
    BY Zenon, <1>3 DEF AgeInv
  <2>5. replaced[name(k)][cache[k].version] \in Nat \cup {None}
    BY <2>1, <2>2
  <2>6. QED
    BY <2>2, <2>3, <2>4, <2>5
<1>4. QED
  BY Zenon, <1>1, <1>2, <1>3 DEF AgeInv

(* Steps after which at most fewer answers are cached and fewer requests out. *)
LEMMA AgeFewer ==
  ASSUME AgeInv, UNCHANGED <<now, serverVars, key, sent, status, reply>>,
         \A l \in Lookup : pc'[l] = "wait" => pc[l] = "wait",
         \A k \in Key : cache'[k] \in {cache[k], None}
  PROVE  AgeInv'
BY DEF AgeInv, serverVars

LEMMA AgeStep == TypeInv /\ AgeInv /\ [Next]_vars => AgeInv'
<1> SUFFICES ASSUME TypeInv, AgeInv, [Next]_vars PROVE AgeInv'
  OBVIOUS
<1> USE LookupAssumption DEF TypeInv, TypeOK, lookupVars, publishVars, serverVars
<1>1. CASE Tick
  <2>1. /\ now' = now + 1
        /\ \A l \in Lookup : pc[l] = "wait" => now < sent[l] + Timeout
        /\ UNCHANGED <<serverVars, cache, lookupVars>>
    BY <1>1 DEF Tick
  <2>2. \A k \in Key : cache[k] # None => cache[k].expires \in Nat
    BY DEF Entry
  <2>3. QED
    BY <2>1, <2>2 DEF AgeInv
<1>2. ASSUME NEW n \in Name, NEW e \in BOOLEAN, OtherPublishes(n, e) PROVE AgeInv'
  BY <1>2, ServerSetsFacts, AgeSets DEF OtherPublishes
<1>3. ASSUME NEW k \in Key, ClearCache(k) PROVE AgeInv'
  BY <1>3, AgeFewer DEF ClearCache
<1>4. ASSUME NEW k \in Key, NEW l \in Lookup, Begin(l, k) PROVE AgeInv'
  BY <1>4 DEF Begin, AgeInv
<1>5. ASSUME NEW l \in Lookup, ServeLookup(l) PROVE AgeInv'
  <2>1. key[l] \in Key /\ name(key[l]) \in Name
    BY <1>5, NameOfKey DEF ServeLookup
  <2>2. replaced[name(key[l])][version[name(key[l])]] = None
    BY <2>1 DEF AgeInv, Version
  <2>3. \A x \in Lookup : x # l => status'[x] = status[x] /\ reply'[x] = reply[x]
    BY <1>5 DEF ServeLookup
  <2>4. status'[l] = "records" => reply'[l] = version[name(key[l])]
    BY <1>5 DEF ServeLookup
  <2>5. QED
    BY <1>5, <2>2, <2>3, <2>4 DEF ServeLookup, AgeInv
<1>6. ASSUME NEW l \in Lookup, CancelLookup(l) PROVE AgeInv'
  BY <1>6, AgeFewer DEF CancelLookup
<1>7. ASSUME NEW l \in Lookup, Get(l) PROVE AgeInv'
  <2>1. pc[l] = "get" /\ \E s \in {"ok", "evict", "send"} : pc' = [pc EXCEPT ![l] = s]
    BY <1>7 DEF Get, GetIf
  <2>2. \A x \in Lookup : x # l => reply'[x] = reply[x]
    BY <1>7 DEF Get, GetIf
  <2>3. \A x \in Lookup : pc'[x] = "wait" => x # l /\ pc[x] = "wait"
    BY <2>1
  <2>4. UNCHANGED <<now, serverVars, cache, key, sent, status>>
    BY <1>7 DEF Get, GetIf
  <2> HIDE DEF TypeInv
  <2>5. QED
    BY <2>2, <2>3, <2>4 DEF AgeInv
<1>8. ASSUME NEW l \in Lookup, Evict(l) PROVE AgeInv'
  BY <1>8, AgeFewer DEF Evict
<1>9. ASSUME NEW l \in Lookup, Send(l) PROVE AgeInv'
  <2>1. /\ sent'[l] = now /\ status'[l] = "none"
        /\ \A x \in Lookup \ {l} : pc'[x] = pc[x] /\ sent'[x] = sent[x] /\ status'[x] = status[x]
    BY <1>9 DEF Send
  <2>2. UNCHANGED <<now, serverVars, cache, key, reply>>
    BY <1>9 DEF Send
  <2>3. now \in Nat /\ Timeout \in Nat
    OBVIOUS
  <2> HIDE LookupAssumption DEF TypeInv, TypeOK
  <2>4. QED
    BY <2>1, <2>2, <2>3 DEF AgeInv
<1>10. ASSUME NEW l \in Lookup, Receive(l) PROVE AgeInv'
  <2>1. PICK ttl \in 0 .. MaxTtl :
          cache' = IF ttl = 0 THEN cache
                   ELSE [cache EXCEPT ![key[l]] = [version |-> reply[l], expires |-> now + ttl,
                                                   crossed |-> l \in crossed]]
    BY Zenon, <1>10 DEF Receive
  <2>2. CASE ttl = 0
    BY <1>10, <2>1, <2>2, AgeFewer DEF Receive
  <2>3. CASE ttl # 0
    <3> DEFINE r == replaced[name(key[l])][reply[l]]
    <3>1. key[l] \in Key /\ name(key[l]) \in Name /\ reply[l] \in Version /\ sent[l] \in Nat
      BY <1>10, NameOfKey DEF Receive
    <3>2. r \in Nat \cup {None}
      BY <3>1
    <3>3. now <= sent[l] + Timeout /\ (r # None => sent[l] <= r)
      BY <1>10 DEF Receive, AgeInv
    <3>4. cache'[key[l]].expires = now + ttl /\ cache'[key[l]].version = reply[l]
      BY <2>1, <2>3, <3>1
    <3>5. now + ttl <= now + MaxTtl /\ (r # None => now + ttl <= r + Timeout + MaxTtl)
      BY <3>1, <3>2, <3>3
    <3>6. \A k \in Key : k # key[l] => cache'[k] = cache[k]
      BY <2>1, <2>3
    <3>7. \A x \in Lookup : pc'[x] = "wait" => pc[x] = "wait"
      BY <1>10 DEF Receive
    <3>8. UNCHANGED <<now, serverVars, key, sent, status, reply>>
      BY <1>10 DEF Receive
    <3> HIDE DEF TypeInv
    <3>9. \A k \in Key : cache'[k] # None =>
            /\ cache'[k].expires <= now + MaxTtl
            /\ replaced[name(k)][cache'[k].version] # None =>
                 cache'[k].expires <= replaced[name(k)][cache'[k].version] + Timeout + MaxTtl
      BY <3>4, <3>5, <3>6 DEF AgeInv
    <3>10. QED
      BY Zenon, <3>7, <3>8, <3>9 DEF AgeInv
  <2>4. QED
    BY <2>2, <2>3
<1>11. ASSUME NEW l \in Lookup, Retry(l) PROVE AgeInv'
  BY <1>11, AgeFewer DEF Retry, RetryIf
<1>12. ASSUME NEW p \in Publisher, ServePublish(p) PROVE AgeInv'
  <2>1. CASE ServerSets(Self, empty[p])
    BY <1>12, <2>1, ServerSetsFacts, AgeSets DEF ServePublish
  <2>2. CASE UNCHANGED serverVars
    BY <1>12, <2>2, AgeFewer DEF ServePublish
  <2>3. QED
    BY <1>12, <2>1, <2>2 DEF ServePublish
<1>13. ASSUME NEW p \in Publisher, Published(p) PROVE AgeInv'
  BY <1>13, AgeFewer DEF Published, PublishedWith
<1>14. ASSUME NEW p \in Publisher, PublishFails(p) PROVE AgeInv'
  BY <1>14, AgeFewer DEF PublishFails
<1>15. ASSUME NEW p \in Publisher, NEW k \in Key, InvalidateKey(p, k) PROVE AgeInv'
  BY <1>15, AgeFewer DEF InvalidateKey
<1>16. ASSUME NEW p \in Publisher, PublishReturns(p) PROVE AgeInv'
  BY <1>16, AgeFewer DEF PublishReturns
<1>17. ASSUME NEW p \in Publisher, NEW e \in BOOLEAN, BeginPublish(p, e) PROVE AgeInv'
  BY <1>17, AgeFewer DEF BeginPublish
<1>18. CASE UNCHANGED vars
  BY <1>18, AgeFewer DEF vars
<1>19. QED
  BY <1>1, <1>2, <1>3, <1>4, <1>5, <1>6, <1>7, <1>8, <1>9, <1>10, <1>11, <1>12, <1>13,
     <1>14, <1>15, <1>16, <1>17, <1>18 DEF Next, LookupStep, PublishStep

(* What a step of Next does to a lookup that it completes. *)
NotOutdated == \A l \in Lookup : pc'[l] = "ok" /\ pc[l] # "ok" =>
                                  ~Outdated(name(key[l]), reply'[l])

(* The arithmetic of it, for a cached answer and for one just received. *)
LEMMA TooOld ==
  ASSUME NEW n \in Nat, NEW r \in Nat, NEW t \in Nat, NEW m \in Nat, NEW x \in Nat,
         r + t + m <= n
  PROVE  /\ ~(x > n /\ x <= r + t + m)
         /\ m > 0 => ~(n <= x + t /\ x <= r)
OBVIOUS

LEMMA AnswerIsRecent == TypeInv /\ AgeInv /\ [Next]_vars => [NotOutdated]_vars
<1> SUFFICES ASSUME TypeInv, AgeInv, Next, NEW l \in Lookup, pc'[l] = "ok", pc[l] # "ok",
                    Outdated(name(key[l]), reply'[l])
             PROVE  FALSE
  BY DEF NotOutdated
<1>t. /\ reply[l] \in Version /\ sent[l] \in Nat /\ now \in Nat
      /\ replaced \in [Name -> [Version -> Nat \cup {None}]]
  BY LookupAssumption DEF TypeInv, TypeOK
<1> USE LookupAssumption DEF TypeInv, TypeOK, lookupVars, publishVars, serverVars
<1>1. Get(l) \/ Receive(l)
  <2>1. CASE UNCHANGED pc
    BY <2>1
  <2>2. ASSUME NEW x \in Lookup, LookupStep(x) \/ CancelLookup(x) \/ ServeLookup(x),
               pc' # pc
        PROVE  Get(l) \/ Receive(l)
    BY Zenon, <2>2 DEF LookupStep, CancelLookup, ServeLookup, Get, GetIf, Evict, Send, Receive,
                Retry, RetryIf
  <2>3. ASSUME NEW x \in Lookup, NEW k \in Key, Begin(x, k) PROVE FALSE
    BY <2>3 DEF Begin
  <2>4. ASSUME NEW p \in Publisher, PublishStep(p) \/ \E e \in BOOLEAN : BeginPublish(p, e)
        PROVE  UNCHANGED pc
    BY <2>4 DEF PublishStep, BeginPublish, ServePublish, Published, PublishedWith,
                PublishFails, InvalidateKey, PublishReturns
  <2>5. QED
    BY <2>1, <2>2, <2>3, <2>4 DEF Next, Tick, OtherPublishes, ClearCache
<1>2. key[l] \in Key /\ name(key[l]) \in Name
  BY <1>1, NameOfKey DEF Get, GetIf, Receive
<1>3. CASE Get(l)
  <2>1. /\ cache[key[l]] # None /\ cache[key[l]].expires > now
        /\ reply'[l] = cache[key[l]].version
    BY <1>3, <1>2 DEF Get, GetIf, Fresh
  <2>2. cache[key[l]].version \in Version /\ cache[key[l]].expires \in Nat
    BY <1>2, <2>1 DEF Entry
  <2>3. replaced[name(key[l])][reply'[l]] \in Nat \cup {None}
    BY ONLY <1>2, <1>t, <2>1, <2>2
  <2>4. /\ replaced[name(key[l])][reply'[l]] # None
        /\ replaced[name(key[l])][reply'[l]] + Timeout + MaxTtl <= now
    BY Zenon DEF Outdated
  <2>5. cache[key[l]].expires <= replaced[name(key[l])][reply'[l]] + Timeout + MaxTtl
    BY <1>2, <2>1, <2>4 DEF AgeInv
  <2>6. now \in Nat /\ Timeout \in Nat /\ MaxTtl \in Nat
    OBVIOUS
  <2>7. replaced[name(key[l])][reply'[l]] \in Nat
    BY <2>3, <2>4, Zenon
  <2> HIDE LookupAssumption DEF TypeInv, TypeOK
  <2>8. QED
    BY <2>1, <2>2, <2>4, <2>5, <2>6, <2>7, TooOld
<1>4. CASE Receive(l)
  <2>1. pc[l] = "wait" /\ status[l] = "records" /\ reply'[l] = reply[l]
    BY <1>4 DEF Receive
  <2>2. reply[l] \in Version /\ sent[l] \in Nat /\ now \in Nat
    BY ONLY <1>t
  <2>3. replaced[name(key[l])][reply[l]] \in Nat \cup {None}
    BY ONLY <1>2, <1>t, <2>2
  <2>4. /\ replaced[name(key[l])][reply[l]] # None
        /\ replaced[name(key[l])][reply[l]] + Timeout + MaxTtl <= now
    BY <2>1 DEF Outdated
  <2>5. now <= sent[l] + Timeout /\ sent[l] <= replaced[name(key[l])][reply[l]]
    BY <2>1, <2>4 DEF AgeInv
  <2>6. replaced[name(key[l])][reply[l]] \in Nat /\ Timeout \in Nat /\ MaxTtl \in Nat \ {0}
    BY <2>3, <2>4
  <2> HIDE LookupAssumption DEF TypeInv, TypeOK
  <2>7. QED
    BY <2>2, <2>4, <2>5, <2>6, TooOld
<1>5. QED
  BY <1>1, <1>3, <1>4

(* Every behaviour is well typed; in particular no lookup makes more than  *)
(* LOOKUP_REQUEST_ATTEMPTS requests (lookup.rs:109-137).                   *)
THEOREM TypeCorrect == Spec => []TypeOK
<1>1. TypeInv => TypeOK
  BY DEF TypeInv
<1>2. QED
  BY TypeInit, TypeStep, <1>1, PTL DEF Spec

(* BoundedStaleness holds for every timeout, TTL and number of lookups:    *)
(* no answer, from the server or from the cache, had been replaced for as  *)
(* long as LOOKUP_REQUEST_TIMEOUT and the TTL together when a lookup       *)
(* returned it (cache.rs:34-45, lookup.rs:109-137).                        *)
THEOREM StalenessIsBounded == Spec => BoundedStaleness
<1>1. Init => TypeInv /\ AgeInv
  BY TypeInit, AgeInit
<1>2. TypeInv /\ AgeInv /\ [Next]_vars => (TypeInv /\ AgeInv)'
  BY TypeStep, AgeStep
<1>3. [NotOutdated]_vars => [\A l \in Lookup : pc'[l] = "ok" /\ pc[l] # "ok" =>
                               ~Outdated(name(key[l]), reply'[l])]_vars
  BY DEF NotOutdated
<1>4. QED
  BY <1>1, <1>2, <1>3, AnswerIsRecent, PTL DEF Spec, BoundedStaleness

-----------------------------------------------------------------------------
(* What a publication leaves in the cache *)

(* Beside crossed ones no answer under k, cached or about to be, is older  *)
(* than version v.                                                         *)
After(k, v) ==
  /\ cache[k] # None /\ cache[k].version < v => cache[k].crossed
  /\ \A l \in Lookup :
       key[l] = k /\ pc[l] = "wait" /\ status[l] = "records" /\ reply[l] < v => l \in crossed

CrossInv ==
  /\ floor <= version[Self]
  /\ \A p \in Publisher : posted[p] <= version[Self]
  /\ \A k \in OwnKeys : After(k, floor)
  /\ \A p \in Publisher : ppc[p] = "invalidate" =>
       \A k \in OwnKeys \ stale[p] : After(k, posted[p])

LEMMA CrossInit == Init => CrossInv
BY LookupAssumption DEF Init, CrossInv, After, OwnKeys, Version

(* Once it holds, no step undoes it: answers are of the current version. *)
LEMMA AfterStays ==
  ASSUME TypeInv, [Next]_vars, NEW k \in OwnKeys, NEW v \in Version, v <= version[Self],
         After(k, v)
  PROVE  After(k, v)'
<1> USE LookupAssumption DEF TypeInv, TypeOK, lookupVars, publishVars, serverVars
<1>1. k \in Key /\ name(k) = Self
  BY DEF OwnKeys
<1>2. CASE UNCHANGED <<cache, lookupVars, crossed>>
  BY <1>2 DEF After
<1>3. ASSUME NEW c \in Key, ClearCache(c) PROVE After(k, v)'
  BY <1>1, <1>3 DEF ClearCache, After
<1>4. ASSUME NEW c \in Key, NEW l \in Lookup, Begin(l, c) PROVE After(k, v)'
  <2>1. \A x \in Lookup : pc'[x] = "wait" => x # l /\ pc[x] = "wait" /\ key'[x] = key[x]
    BY <1>4 DEF Begin
  <2>2. UNCHANGED <<cache, status, reply, crossed>>
    BY <1>4 DEF Begin
  <2> HIDE DEF TypeInv
  <2>3. QED
    BY <2>1, <2>2 DEF After
<1>5. ASSUME NEW l \in Lookup, ServeLookup(l) PROVE After(k, v)'
  <2>1. \A x \in Lookup : x # l => status'[x] = status[x] /\ reply'[x] = reply[x]
    BY <1>5 DEF ServeLookup
  <2>2. status'[l] = "records" => reply'[l] = version[name(key[l])]
    BY <1>5 DEF ServeLookup
  <2>3. UNCHANGED <<cache, key, pc, crossed>>
    BY <1>5 DEF ServeLookup
  <2>4. version[Self] \in Nat /\ v \in Nat
    BY DEF Version
  <2>5. QED
    BY <1>1, <2>1, <2>2, <2>3, <2>4 DEF After
<1>6. ASSUME NEW l \in Lookup, CancelLookup(l) \/ Retry(l) PROVE After(k, v)'
  BY <1>6 DEF CancelLookup, Retry, RetryIf, After
<1>7. ASSUME NEW l \in Lookup, Get(l) PROVE After(k, v)'
  <2>1. pc[l] = "get" /\ \E s \in {"ok", "evict", "send"} : pc' = [pc EXCEPT ![l] = s]
    BY <1>7 DEF Get, GetIf
  <2>2. \A x \in Lookup : x # l => reply'[x] = reply[x]
    BY <1>7 DEF Get, GetIf
  <2>3. UNCHANGED <<cache, key, status, crossed>>
    BY <1>7 DEF Get, GetIf
  <2>4. QED
    BY <2>1, <2>2, <2>3 DEF After
<1>8. ASSUME NEW l \in Lookup, Evict(l) PROVE After(k, v)'
  BY <1>1, <1>8 DEF Evict, After
<1>9. ASSUME NEW l \in Lookup, Send(l) PROVE After(k, v)'
  BY <1>9 DEF Send, After
<1>10. ASSUME NEW l \in Lookup, Receive(l) PROVE After(k, v)'
  <2>1. key[l] \in Key /\ pc[l] = "wait" /\ status[l] = "records"
    BY <1>10 DEF Receive
  <2>2. \/ cache'[k] = cache[k]
        \/ /\ key[l] = k
           /\ cache'[k].version = reply[l] /\ cache'[k].crossed = (l \in crossed)
    <3>1. PICK ttl \in 0 .. MaxTtl :
            cache' = IF ttl = 0 THEN cache
                     ELSE [cache EXCEPT ![key[l]] = [version |-> reply[l], expires |-> now + ttl,
                                                     crossed |-> l \in crossed]]
      BY Zenon, <1>10 DEF Receive
    <3>2. QED
      BY <1>1, <2>1, <3>1
  <2>3. cache'[k] # None /\ cache'[k].version < v => cache'[k].crossed
    BY Zenon, <2>1, <2>2 DEF After
  <2>4. \A x \in Lookup : pc'[x] = "wait" => pc[x] = "wait"
    BY <1>10 DEF Receive
  <2>5. QED
    BY <1>10, <2>3, <2>4 DEF Receive, After
<1>11. ASSUME NEW p \in Publisher, NEW c \in Key, InvalidateKey(p, c) PROVE After(k, v)'
  BY <1>1, <1>11 DEF InvalidateKey, After
<1>12. QED
  BY Zenon, <1>2, <1>3, <1>4, <1>5, <1>6, <1>7, <1>8, <1>9, <1>10, <1>11
     DEF Next, LookupStep, PublishStep, vars, Tick, OtherPublishes, ServePublish,
         Published, PublishedWith, PublishFails, PublishReturns, BeginPublish

(* The same after the step, for a version known before it. *)
After2(k, v) ==
  /\ cache'[k] # None /\ cache'[k].version < v => cache'[k].crossed
  /\ \A l \in Lookup :
       key'[l] = k /\ pc'[l] = "wait" /\ status'[l] = "records" /\ reply'[l] < v => l \in crossed'

LEMMA CrossStep == TypeInv /\ CrossInv /\ [Next]_vars => CrossInv'
<1> SUFFICES ASSUME TypeInv, CrossInv, [Next]_vars PROVE CrossInv'
  OBVIOUS
<1> USE LookupAssumption DEF lookupVars, publishVars, serverVars
<1>t. /\ floor \in Version /\ version[Self] \in Version
      /\ ppc \in [Publisher -> {"idle", "post", "posted", "refused", "invalidate", "ok", "failed"}]
      /\ posted \in [Publisher -> Version]
      /\ stale \in [Publisher -> SUBSET Key]
  BY DEF TypeInv, TypeOK
<1>a. ASSUME NEW k \in OwnKeys, NEW v \in Version, v <= version[Self], After(k, v)
      PROVE  After2(k, v)
  BY <1>a, AfterStays DEF After, After2
<1>b. \A k \in OwnKeys : After2(k, floor)
  BY <1>a, <1>t DEF CrossInv
<1>c. \A p \in Publisher : ppc[p] = "invalidate" =>
        \A k \in OwnKeys \ stale[p] : After2(k, posted[p])
  BY <1>a, <1>t DEF CrossInv
<1>d. ASSUME UNCHANGED floor, version'[Self] >= version[Self], version'[Self] \in Version,
             \A p \in Publisher : posted'[p] <= version'[Self],
             \A p \in Publisher : ppc'[p] = "invalidate" =>
               \A k \in OwnKeys \ stale'[p] :
                 /\ posted'[p] = posted[p]
                 /\ After2(k, posted[p])
      PROVE  CrossInv'
  <2>1. floor' <= version'[Self]
    BY <1>d, <1>t DEF CrossInv, Version
  <2>2. \A k \in OwnKeys : After(k, floor)'
    BY <1>b, <1>d DEF After, After2
  <2>3. ASSUME NEW p \in Publisher, ppc'[p] = "invalidate", NEW k \in OwnKeys \ stale'[p]
        PROVE  After(k, posted[p])'
    BY <1>d, <2>3 DEF After, After2
  <2>4. QED
    BY <1>d, <2>1, <2>2, <2>3 DEF CrossInv
<1>1. CASE UNCHANGED <<serverVars, publishVars, floor>>
  BY <1>1, <1>c, <1>d, <1>t DEF CrossInv, Version
<1>2. ASSUME NEW n \in Name, NEW e \in BOOLEAN, OtherPublishes(n, e) PROVE CrossInv'
  <2>1. Sets(n)
    BY <1>2, ServerSetsFacts DEF OtherPublishes, TypeInv
  <2>2. version'[Self] >= version[Self] /\ version'[Self] \in Version
    <3>1. version'[Self] \in {version[Self], version[Self] + 1}
      BY <2>1 DEF Sets
    <3>2. version'[Self] \in Version
      BY <2>1 DEF Sets
    <3>3. QED
      BY <1>t, <3>1, <3>2 DEF Version
  <2>3. \A p \in Publisher : posted'[p] <= version'[Self]
    BY <1>2, <1>t, <2>2 DEF OtherPublishes, CrossInv, Version
  <2>4. QED
    BY <1>2, <1>c, <1>d, <2>2, <2>3 DEF OtherPublishes
<1>3. ASSUME NEW p \in Publisher, ServePublish(p) PROVE CrossInv'
  <2>1. ppc'[p] # "invalidate" /\ \A q \in Publisher \ {p} : ppc'[q] = ppc[q]
    BY <1>3, <1>t DEF ServePublish
  <2>2. CASE ServerSets(Self, empty[p]) /\ posted' = [posted EXCEPT ![p] = version'[Self]]
    <3>1. Sets(Self)
      BY <2>2, ServerSetsFacts DEF TypeInv
    <3>2. version'[Self] >= version[Self] /\ version'[Self] \in Version
      BY <1>t, <3>1 DEF Sets, Version
    <3>3. \A q \in Publisher : posted'[q] <= version'[Self]
      BY <1>t, <2>2, <3>2 DEF CrossInv, Version
    <3>4. \A q \in Publisher \ {p} : posted'[q] = posted[q]
      BY <1>t, <2>2
    <3>5. UNCHANGED <<stale, floor>>
      BY <1>3 DEF ServePublish
    <3>6. QED
      BY <1>c, <1>d, <2>1, <3>2, <3>3, <3>4, <3>5
  <2>3. CASE UNCHANGED <<serverVars, posted>>
    BY <1>3, <1>c, <1>d, <1>t, <2>1, <2>3 DEF ServePublish, CrossInv, Version
  <2>4. QED
    BY <1>3, <2>2, <2>3 DEF ServePublish
<1>4. ASSUME NEW p \in Publisher, Published(p) PROVE CrossInv'
  <2>1. UNCHANGED <<serverVars, posted, floor>>
    BY <1>4 DEF Published, PublishedWith
  <2>2. ppc'[p] = "invalidate" => stale'[p] = OwnKeys
    BY <1>4, <1>t DEF Published, PublishedWith
  <2>3. \A q \in Publisher \ {p} : ppc'[q] = ppc[q] /\ stale'[q] = stale[q]
    BY <1>4, <1>t DEF Published, PublishedWith
  <2>4. \A q \in Publisher : posted'[q] <= version'[Self]
    BY <2>1 DEF CrossInv
  <2>5. \A q \in Publisher : ppc'[q] = "invalidate" =>
          \A k \in OwnKeys \ stale'[q] : After2(k, posted[q])
    BY <1>c, <2>2, <2>3
  <2>6. version'[Self] >= version[Self] /\ version'[Self] \in Version
    BY <1>t, <2>1 DEF Version
  <2>7. QED
    BY <1>d, <2>1, <2>4, <2>5, <2>6
<1>5. ASSUME NEW p \in Publisher, PublishFails(p) \/ \E e \in BOOLEAN : BeginPublish(p, e)
      PROVE  CrossInv'
  <2>1. UNCHANGED <<serverVars, posted, stale, floor>>
    BY <1>5 DEF PublishFails, BeginPublish
  <2>2. ppc'[p] # "invalidate" /\ \A q \in Publisher \ {p} : ppc'[q] = ppc[q]
    BY <1>5, <1>t DEF PublishFails, BeginPublish
  <2>3. QED
    BY <1>c, <1>d, <1>t, <2>1, <2>2 DEF CrossInv, Version
<1>6. ASSUME NEW p \in Publisher, NEW c \in Key, InvalidateKey(p, c) PROVE CrossInv'
  <2>1. UNCHANGED <<serverVars, ppc, posted, floor>>
    BY Zenon, <1>6 DEF InvalidateKey
  <2>2. After2(c, posted[p])
    BY <1>6 DEF InvalidateKey, After2, TypeInv, TypeOK
  <2>3. \A q \in Publisher : stale'[q] = IF q = p THEN stale[q] \ {c} ELSE stale[q]
    BY Zenon, <1>6, <1>t DEF InvalidateKey
  <2>4. \A q \in Publisher : ppc'[q] = "invalidate" =>
          \A k \in OwnKeys \ stale'[q] : After2(k, posted[q])
    BY Zenon, <1>c, <2>1, <2>2, <2>3
  <2>5. QED
    BY <1>d, <1>t, <2>1, <2>4 DEF CrossInv, Version
<1>7. ASSUME NEW p \in Publisher, PublishReturns(p) PROVE CrossInv'
  <2>1. /\ ppc[p] = "invalidate" /\ stale[p] = {}
        /\ floor' \in {floor, posted[p]}
        /\ UNCHANGED <<serverVars, posted, stale>>
    BY <1>7 DEF PublishReturns
  <2>2. \A k \in OwnKeys : After2(k, posted[p])
    BY <1>c, <2>1
  <2>3. \A k \in OwnKeys : After2(k, floor')
    BY <1>b, <2>1, <2>2
  <2>4. \A k \in OwnKeys : After(k, floor)'
    BY <2>3 DEF After, After2
  <2>5. floor' <= version'[Self]
    BY <2>1 DEF CrossInv
  <2>6. \A q \in Publisher : ppc'[q] = "invalidate" => ppc[q] = "invalidate"
    BY <1>7, <1>t DEF PublishReturns
  <2>7. \A q \in Publisher : ppc'[q] = "invalidate" =>
          \A k \in OwnKeys \ stale'[q] : After2(k, posted[q])
    BY Zenon, <1>c, <2>1, <2>6
  <2>8. \A q \in Publisher : ppc'[q] = "invalidate" =>
          \A k \in OwnKeys \ stale'[q] : After(k, posted[q])'
    BY <2>1, <2>7 DEF After, After2
  <2>9. QED
    BY Zenon, <2>1, <2>4, <2>5, <2>8 DEF CrossInv
<1>8. QED
  BY Zenon, <1>1, <1>2, <1>3, <1>4, <1>5, <1>6, <1>7
     DEF Next, LookupStep, PublishStep, vars, Tick, ClearCache, Begin, ServeLookup,
         CancelLookup, Get, GetIf, Evict, Send, Receive, Retry, RetryIf

(* OnlyCrossedIsOld holds for any number of lookups and publications, with *)
(* invalidate_name going through the keys one by one beside them: after    *)
(* the Ok of publish_endpoints only a lookup that already held its         *)
(* response can have left an older answer (publish.rs:105-108,             *)
(* cache.rs:63-67).                                                        *)
THEOREM OnlyCrossedStaysOld == Spec => []OnlyCrossedIsOld
<1>1. Init => TypeInv /\ CrossInv
  BY TypeInit, CrossInit
<1>2. TypeInv /\ CrossInv /\ [Next]_vars => (TypeInv /\ CrossInv)'
  BY TypeStep, CrossStep
<1>3. CrossInv => OnlyCrossedIsOld
  BY DEF CrossInv, After, OnlyCrossedIsOld
<1>4. QED
  BY <1>1, <1>2, <1>3, PTL DEF Spec
=============================================================================
