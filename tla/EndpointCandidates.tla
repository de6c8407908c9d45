-------------------------- MODULE EndpointCandidates --------------------------
(* Grouping endpoint records by certificate chain and selecting from the   *)
(* groups (resolvers/endpoint_candidates.rs, resolvers/endpoint_group.rs). *)
(* H3, HTTP and mDNS lookups share it.                                     *)
EXTENDS Integers, Sequences, FiniteSets, Functions

CONSTANT None

Minimum(S) == CHOOSE n \in S : \A m \in S : n <= m
Take(s, n) == SubSeq(s, 1, IF n < Len(s) THEN n ELSE Len(s))

(* What is left of s when only the positions in I are retained. *)
Pick(s, I) ==
  [n \in 1..Cardinality(I) |-> s[CHOOSE i \in I : Cardinality({j \in I : j <= i}) = n]]

(* Chain keys: is_main selects the primary chain, no sequence counts as 0. *)
certificate_chain_key(r) ==
  [primary |-> r.main, sequence |-> IF r.sequence = None THEN 0 ELSE r.sequence]

effective_chain_key(c) ==
  IF c.record.main \/ c.record.sequence # None \/ c.fallback = None
  THEN certificate_chain_key(c.record) ELSE c.fallback

(* A record of a secondary chain, or one whose addresses are not of one    *)
(* family, is left out.                                                    *)
Groupable(c) == effective_chain_key(c).primary /\ c.record.convertible

Item(c) == [tag |-> c.tag, endpoint |-> c.record.endpoint]

AddToGroups(groups, c) ==
  LET key == effective_chain_key(c)
      same == {i \in DOMAIN groups : groups[i].chain = key}
  IN  IF ~Groupable(c) THEN groups
      ELSE IF same = {} THEN Append(groups, [chain |-> key, items |-> <<Item(c)>>])
      ELSE [i \in DOMAIN groups |->
              IF i \in same THEN [groups[i] EXCEPT !.items = Append(@, Item(c))]
                            ELSE groups[i]]

grouped_endpoint_candidates(cs) ==
  LET upTo[n \in 0..Len(cs)] == IF n = 0 THEN <<>> ELSE AddToGroups(upTo[n - 1], cs[n])
  IN  upTo[Len(cs)]

endpoint_matches_family(e, family) == family = None \/ e.family = family

OfFamily(items, family) ==
  Pick(items, {i \in DOMAIN items : endpoint_matches_family(items[i].endpoint, family)})

filter_endpoint_candidate_groups(groups, family) ==
  LET kept == [i \in DOMAIN groups |->
                 [groups[i] EXCEPT !.items = OfFamily(@, family)]]
  IN  Pick(kept, {i \in DOMAIN kept : kept[i].items # <<>>})

select_group_pairs(groups, query) ==
  CASE query.kind = "default" -> Take(groups, 3)
    [] query.kind = "exact" ->
         Pick(groups, {i \in DOMAIN groups : groups[i].chain.sequence = query.n})
    [] query.kind = "limit" -> Take(groups, query.n)
    [] query.kind = "all" -> groups

(* The positions where an endpoint is met for the first time. *)
Firsts(items) ==
  {i \in DOMAIN items : \A j \in 1..(i - 1) : items[j].endpoint # items[i].endpoint}

(* mutant: the limit is applied before the duplicates are dropped *)
unique_early(items, limit) ==
  LET taken == IF limit = None THEN items ELSE Take(items, limit)
  IN  Pick(taken, Firsts(taken))

(* Each endpoint once, where it is first met, and at most limit of them.   *)
unique_endpoints(items, limit) ==
  LET distinct == Pick(items, Firsts(items))
  IN  IF limit = None THEN distinct ELSE Take(distinct, limit)

(* The mDNS stream has the group of the sequence in the name, or the first. *)
FirstGroup(cs, sequence) ==
  LET groups == grouped_endpoint_candidates(cs)
      of == IF sequence = None THEN DOMAIN groups
            ELSE {i \in DOMAIN groups : groups[i].chain.sequence = sequence}
  IN  IF of = {} THEN <<>> ELSE groups[Minimum(of)].items

selected_first(cs, sequence) == FirstGroup(cs, None)  \* mutant: the sequence is not used

selected_endpoint_addrs_for_sequence(cs, sequence) == FirstGroup(cs, sequence)
=============================================================================
