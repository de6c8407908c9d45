------------------------------ MODULE Aggregate ------------------------------
(* The calls that fan out to several sources and collect what comes back:  *)
(* Resolvers::lookup and lookup_endpoint_candidates (resolvers.rs), the    *)
(* same two calls of MdnsResolverSet (mdns.rs) and Publishers::publish_all *)
(* (publishers/aggregate.rs).  A behaviour is one call on the entries it   *)
(* fans out to.  The entries answer in any order, with the results of the  *)
(* variable result; the caller of lookup polls the stream it was given.    *)
EXTENDS EndpointCandidates

CONSTANTS
  Entry,      \* resolvers of the aggregate, instances of the set, publishers
  Plain,      \* the entries added with push, which support no candidate lookup
  Record,     \* (source, endpoint) pairs
  Streams,    \* the record streams an entry can answer a lookup with
  Chain, Endpoint, Source,  \* what candidate groups are made of
  Candidates, \* the group lists an entry can answer a candidate lookup with
  Err         \* the failed answer

(* EndpointCandidateGroup *)
Group == [chain : Chain, endpoints : Seq(Endpoint), sources : SUBSET Source]

(* Entries answer with finite streams, and with groups that have each      *)
(* endpoint once (unique_endpoints of EndpointCandidates).                 *)
ASSUME AggregateAssumption ==
  /\ Streams \subseteq Seq(Record)
  /\ Candidates \subseteq Seq({g \in Group : IsInjective(g.endpoints)})
  /\ Err \notin Streams \cup Candidates

VARIABLES
  op,       \* "lookup", "candidates" or "publish"
  kind,     \* the aggregate: "resolvers", "mdns" or "publishers"
  entries,  \* the entries the call fans out to
  result,   \* what each of them will answer
  pending,  \* FuturesUnordered: the entries that have not answered
  good,     \* the entries that answered Ok
  bad,      \* the entries an error was recorded for
  phase,    \* where the call or the returned stream stands
  rest,     \* the open streams (SelectAll) and what each still holds
  seen,     \* LookupState.seen
  yields,   \* how often the consumer received each record
  groups    \* the merged candidate groups

callVars == <<op, kind, entries, result>>
vars == <<callVars, pending, good, bad, phase, rest, seen, yields, groups>>

Open == DOMAIN rest
Without(e) == [d \in Open \ {e} |-> rest[d]]

(* The answers of one entry to each of the calls. *)
Answers(o) ==
  CASE o = "lookup" -> Streams \cup {Err}
    [] o = "candidates" -> Candidates \cup {Err}
    [] o = "publish" -> {<<>>, Err}

(* Entries without candidate support are recorded as errors at once. *)
Unsupported(o, k, es) == IF o = "candidates" /\ k = "resolvers" THEN es \cap Plain ELSE {}

Init ==
  /\ op \in {"lookup", "candidates", "publish"}
  /\ kind \in IF op = "publish" THEN {"publishers"} ELSE {"resolvers", "mdns"}
  /\ entries \in SUBSET Entry
  /\ result \in [entries -> Answers(op)]
  /\ bad = Unsupported(op, kind, entries)
  /\ pending = entries \ bad
  /\ good = {}
  /\ phase = "collect"
  /\ rest = <<>>
  /\ seen = {}
  /\ yields = [r \in Record |-> 0]
  /\ groups = <<>>

-----------------------------------------------------------------------------
(* lookup *)

(* The first stream that arrives is returned, with the lookups still       *)
(* pending behind it.                                                      *)
Push(e) ==
  /\ pending' = pending \ {e}
  /\ good' = good \cup {e}
  /\ rest' = [d \in Open \cup {e} |-> IF d = e THEN result[e] ELSE rest[d]]
  /\ UNCHANGED <<callVars, bad, seen, yields, groups>>

FirstOk(e) ==
  /\ phase = "collect" /\ op = "lookup"
  /\ e \in pending /\ result[e] # Err
  /\ Push(e)
  /\ phase' = "returned"

(* The consumer asks for the next record. *)
Poll ==
  /\ phase = "returned"
  /\ phase' = "next"
  /\ UNCHANGED <<callVars, pending, good, bad, rest, seen, yields, groups>>

(* While the consumer waits, later answers join the stream. *)
LaterOk(e) ==
  /\ phase = "next"
  /\ e \in pending /\ result[e] # Err
  /\ Push(e)
  /\ UNCHANGED phase

LaterErr(e) ==
  /\ phase = "next"
  /\ e \in pending /\ result[e] = Err
  /\ pending' = pending \ {e}
  /\ UNCHANGED <<callVars, good, bad, phase, rest, seen, yields, groups>>

(* A record is passed on, unless Resolvers has passed it on before; the    *)
(* set (YieldAll) does not look for duplicates.                            *)
YieldUnless(e, duplicates) ==
  /\ phase = "next"
  /\ e \in Open /\ rest[e] # <<>>
  /\ LET r == Head(rest[e]) IN
       /\ rest' = [rest EXCEPT ![e] = Tail(@)]
       /\ \/ /\ r \in duplicates
             /\ UNCHANGED <<phase, seen, yields>>
          \/ /\ r \notin duplicates
             /\ seen' = seen \cup {r}
             /\ yields' = [yields EXCEPT ![r] = @ + 1]
             /\ phase' = "returned"
  /\ UNCHANGED <<callVars, pending, good, bad, groups>>

YieldAgain(e) == kind = "resolvers" /\ YieldUnless(e, {})  \* mutant: seen is not consulted

Yield(e) == kind = "resolvers" /\ YieldUnless(e, seen)
YieldAll(e) == kind = "mdns" /\ YieldUnless(e, {})

Exhausted(e) ==
  /\ phase = "next"
  /\ e \in Open /\ rest[e] = <<>>
  /\ rest' = Without(e)
  /\ UNCHANGED <<callVars, pending, good, bad, phase, seen, yields, groups>>

(* The stream ends when no lookup is pending and every stream is exhausted. *)
EndWhen(done) ==
  /\ phase = "next"
  /\ done
  /\ phase' = "ended"
  /\ UNCHANGED <<callVars, pending, good, bad, rest, seen, yields, groups>>

EndEarly == EndWhen(Open = {})  \* mutant: None of the streams ends the loop
EndNonEmpty == EndWhen(pending = {} /\ Open = {} /\ seen # {})  \* mutant: waits for a record

End == EndWhen(pending = {} /\ Open = {})

-----------------------------------------------------------------------------
(* lookup_endpoint_candidates *)

All(old, new) == new  \* mutant: nothing is dropped

NotIn(old, new) == Pick(new, {i \in DOMAIN new : new[i] \notin Range(old)})

(* A group joins the first group of its chain, less the endpoints and      *)
(* sources that one has already.                                           *)
Join(existing, g) ==
  [chain |-> existing.chain,
   endpoints |-> existing.endpoints \o NotIn(existing.endpoints, g.endpoints),
   sources |-> existing.sources \cup g.sources]

MergeGroup(target, g) ==
  LET same == {i \in DOMAIN target : target[i].chain = g.chain}
  IN  IF same = {} THEN Append(target, g)
      ELSE [target EXCEPT ![Minimum(same)] = Join(@, g)]

merge_groups(target, gs) ==
  LET upTo[i \in 0..Len(gs)] == IF i = 0 THEN target ELSE MergeGroup(upTo[i - 1], gs[i])
  IN  upTo[Len(gs)]

-----------------------------------------------------------------------------
(* Collecting answers: the failed ones of any call, and the good ones of   *)
(* the calls that wait for every entry.                                    *)

AnswerErr(e) ==
  /\ phase = "collect"
  /\ e \in pending /\ result[e] = Err
  /\ pending' = pending \ {e}
  /\ bad' = bad \cup {e}
  /\ UNCHANGED <<callVars, good, phase, rest, seen, yields, groups>>

AnswerOk(e) ==
  /\ phase = "collect"
  /\ e \in pending /\ result[e] # Err
  /\ pending' = pending \ {e}
  /\ good' = good \cup {e}
  /\ UNCHANGED <<callVars, bad, phase, rest, seen, yields>>

CandidatesOk(e) ==
  /\ op = "candidates"
  /\ AnswerOk(e)
  /\ groups' = merge_groups(groups, result[e])

PublishOk(e) == op = "publish" /\ AnswerOk(e) /\ UNCHANGED groups

(* Everyone has answered.  The set needs a group, the others one success;  *)
(* lookup is here only when every entry failed.                            *)
ReturnIf(ok) ==
  /\ phase = "collect" /\ pending = {}
  /\ phase' = IF ok THEN "ok" ELSE "failed"
  /\ UNCHANGED <<callVars, pending, good, bad, rest, seen, yields, groups>>

ReturnMdns == op = "candidates" /\ kind = "mdns" /\ ReturnIf(groups # <<>>)

ReturnPublish == op = "publish" /\ ReturnIf(good # {})

(* mutant: one failure fails the call *)
ReturnComplete == op # "publish" /\ kind = "resolvers" /\ ReturnIf(bad = {})

Return == op # "publish" /\ kind = "resolvers" /\ ReturnIf(good # {})

ReturnNotFound == op = "lookup" /\ kind = "mdns" /\ ReturnIf(FALSE)

Answer(e) ==
  \/ FirstOk(e) \/ CandidatesOk(e) \/ PublishOk(e) \/ AnswerErr(e)
  \/ LaterOk(e) \/ LaterErr(e) \/ Yield(e) \/ YieldAll(e) \/ Exhausted(e)

Next ==
  \/ \E e \in Entry : Answer(e)
  \/ Poll \/ End \/ Return \/ ReturnMdns \/ ReturnPublish \/ ReturnNotFound

Spec == Init /\ [][Next]_vars

(* The resolvers answer a lookup, because each ends it by its own deadline *)
(* (http.rs:149, h3/lookup.rs:114, mdns/protocol.rs:317), and the consumer *)
(* polls until the stream ends.  A publication has no deadline: a          *)
(* publisher may never answer, and all that is certain is that publish_all *)
(* returns once the last of them did.                                      *)
FairSpec == Spec /\ WF_vars(op # "publish" /\ Next) /\ WF_vars(ReturnPublish)

-----------------------------------------------------------------------------
(* Properties *)

TypeOK ==
  /\ entries \subseteq Entry
  /\ pending \subseteq entries /\ good \subseteq entries /\ bad \subseteq entries
  /\ phase \in {"collect", "returned", "next", "ended", "ok", "failed"}
  /\ Open \subseteq good
  /\ seen \subseteq Record
  /\ yields \in [Record -> Nat]

(* However the answers interleave, Resolvers passes a (source, endpoint)   *)
(* pair on once (resolvers.rs:343).                                        *)
YieldedOnce == kind = "resolvers" => \A r \in Record : yields[r] <= 1

Supplied(r) == {p \in UNION {{e} \X DOMAIN result[e] : e \in good} : result[p[1]][p[2]] = r}

(* The consumer sees the end only after every entry was heard, and then it *)
(* has received every record of every entry that answered: a slow source   *)
(* is not cut off by a fast one, a failing one hides nothing.              *)
StreamIsComplete ==
  op = "lookup" /\ phase = "ended" =>
    /\ good = {e \in entries : result[e] # Err}
    /\ \A r \in Record :
         IF kind = "resolvers" THEN yields[r] = 1 <=> Supplied(r) # {}
                               ELSE yields[r] = Cardinality(Supplied(r))

Answered == {e \in entries : result[e] # Err} \ Unsupported(op, kind, entries)

Offers(e, c) == {g \in Range(result[e]) : g.chain = c}
Chains == UNION {{g.chain : g \in Range(result[e])} : e \in good}

(* The merged candidates do not depend on the order of the answers: one    *)
(* group per chain any entry offered, with each endpoint and source once.  *)
MergedExactly ==
  op = "candidates" /\ phase = "ok" =>
    /\ good = Answered
    /\ {g.chain : g \in Range(groups)} = Chains
    /\ Cardinality(Chains) = Len(groups)
    /\ \A i \in DOMAIN groups :
         LET offered == UNION {Offers(e, groups[i].chain) : e \in good}
             es == UNION {Range(g.endpoints) : g \in offered}
         IN  /\ Range(groups[i].endpoints) = es
             /\ Len(groups[i].endpoints) = Cardinality(es)
             /\ groups[i].sources = UNION {g.sources : g \in offered}

(* A call fails only if nobody succeeded: a partial failure is a success,  *)
(* and the recorded errors are those of exactly the entries that failed    *)
(* (of which the set reports the last).                                    *)
FailsOnlyIfAllFail ==
  /\ phase = "failed" =>
       /\ Answered = {} \/ (kind = "mdns" /\ \A e \in Answered : result[e] = <<>>)
       /\ bad = entries \ Answered
  /\ phase = "ok" => Answered # {} /\ bad = entries \ Answered
  /\ phase \in {"returned", "next", "ended"} => Answered # {}

Over == phase \in {"ended", "ok", "failed"}

(* A lookup returns and its stream ends, whatever the answers are and      *)
(* however they interleave (resolvers.rs:305, mdns.rs:525).  publish_all   *)
(* returns when every publisher has answered (publishers/aggregate.rs:176);*)
(* one that never answers holds the call up.                               *)
CallEnds ==
  /\ op # "publish" => <>Over
  /\ op = "publish" => (pending = {} ~> Over)
=============================================================================
