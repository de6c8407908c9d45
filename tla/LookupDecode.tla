----------------------------- MODULE LookupDecode -----------------------------
(* How the records a source delivers become endpoint candidates.  For H3   *)
(* and HTTP this is decode_lookup_response (api.rs) on a multi-record body *)
(* (core/wire.rs) whose records may be signed (core/signature.rs), for     *)
(* mDNS it is candidate_groups and the single-group lookup (mdns.rs,       *)
(* resolvers/endpoint_group.rs).  All share the grouping and selection of  *)
(* resolvers/endpoint_candidates.rs.  A behaviour decodes one delivery,    *)
(* one response record per step.                                           *)
(*                                                                         *)
(* Hashing and signing are symbolic: a digest is the packet it was taken   *)
(* of, a key id is the certificate, a signature names its key, scheme and  *)
(* signed text.  Names are reduced to whether they equal the asked one.    *)
EXTENDS EndpointCandidates

CONSTANTS
  Bodies,      \* the bodies a server can answer with
  Queries,     \* the EndpointLookups applications ask with
  HeaderSets,  \* the Cache-Control and Age headers of the response
  MaxRecords   \* MAX_RESPONSE_RECORDS

VARIABLES
  via,        \* "server" (H3, HTTP), "mdns" (candidates) or "stream" (mDNS lookup)
  lookup,     \* EndpointLookup: sequences, record_limit, family
  headers,
  body,       \* count, records, trailing
  at,         \* the response record decoded next
  rejected,   \* records whose signature did not verify
  endpoints,  \* the tagged endpoint candidates so far
  outcome     \* None, or the answer or error returned

decodeVars == <<via, lookup, headers, body, at, rejected, endpoints, outcome>>

-----------------------------------------------------------------------------
(* Signatures (core/signature.rs, core/parser/sigin.rs) *)

alg_name_for_scheme(s) == <<"alg", s>>
VerifiableSchemes ==
  {"ed25519", "p256", "p384", "pss256", "pss384", "pss512", "pkcs256", "pkcs384", "pkcs512"}
AlgNames == {alg_name_for_scheme(s) : s \in VerifiableSchemes}
scheme_for_alg_name(alg) == IF alg \in AlgNames THEN alg[2] ELSE None

canonical_scheme_for_spki(key) ==
  CASE key.type \in {"ed25519", "p256", "p384"} -> key.type
    [] key.type = "rsa" -> "pss512"
    [] OTHER -> None

is_empty(f) == f.content_digest = None /\ f.signature_input = None /\ f.signature = None

signature_base(content_digest, input) == <<content_digest, input>>

sign(dns, cert) ==
  LET scheme == canonical_scheme_for_spki(cert.key)
      input == [created |-> TRUE, keyid |-> cert, alg |-> alg_name_for_scheme(scheme)]
  IN  [content_digest |-> dns, signature_input |-> input,
       signature |-> [key |-> cert.key, scheme |-> scheme,
                      data |-> signature_base(dns, input)]]

(* "true" is Ok(true); "false" stands for Ok(false) and for every error.   *)
verifyIf(f, dns, cert, digest) ==
  IF /\ ~is_empty(f)
     /\ f.content_digest # None /\ digest
     /\ f.signature_input # None /\ f.signature_input.created
     /\ f.signature_input.keyid = cert /\ cert # None
     /\ scheme_for_alg_name(f.signature_input.alg) # None
     /\ f.signature # None
     /\ f.signature = [key |-> cert.key,
                       scheme |-> scheme_for_alg_name(f.signature_input.alg),
                       data |-> signature_base(f.content_digest, f.signature_input)]
  THEN "true" ELSE "false"

verifyOldDigest(f, dns, cert) == verifyIf(f, dns, cert, TRUE)  \* mutant: digest of what?

verify(f, dns, cert) == verifyIf(f, dns, cert, f.content_digest = dns)

(* What applications ask with: limits are not zero (NonZeroUsize). *)
EndpointLookup ==
  [sequences : [kind : {"default", "exact", "limit", "all"}, n : Nat],
   record_limit : (Nat \ {0}) \cup {None},
   family : {"v4", "v6", None},
   asked : Nat \cup {None}]

(* Times to live, ages and directives are numbers, None is nothing else.   *)
ASSUME DecodeAssumption ==
  /\ None \notin VerifiableSchemes \cup {"none", "unusable", "decode"}
  /\ Queries \subseteq EndpointLookup
  /\ \A h \in HeaderSets : h.age \in Nat /\ h.cc \in Seq(Seq([name : STRING, n : Nat]))
  /\ \A b \in Bodies :
       /\ b.records \in Seq(Range(b.records))
       /\ \A r \in Range(b.records) :
            /\ r.dns.answers \in Seq(Range(r.dns.answers))
            /\ \A a \in Range(r.dns.answers) : a.ttl \in Nat /\ a.record.main \in BOOLEAN

-----------------------------------------------------------------------------
(* Selection *)

Selected(cs) ==
  LET groups == select_group_pairs(
                  filter_endpoint_candidate_groups(grouped_endpoint_candidates(cs),
                                                   lookup.family),
                  lookup.sequences)
  IN  [i \in DOMAIN groups |->
         [chain |-> groups[i].chain,
          items |-> unique_endpoints(groups[i].items, lookup.record_limit)]]

(* A sequence in the asked name (`host:2`) overrides the sequences asked.  *)
exact_override(query, sequence) ==
  IF sequence = None THEN query
  ELSE [query EXCEPT !.sequences = [kind |-> "exact", n |-> sequence]]

-----------------------------------------------------------------------------
(* Decoding *)

(* For mDNS the body is the answer of a query in the order MdnsResolver::  *)
(* query returns it: it has a wanted record, the responder's own in front. *)
DecodeInit ==
  /\ via \in {"server", "mdns", "stream"}
  /\ \E q \in Queries : \E s \in {None, 1} :
       lookup = [exact_override(q, s) EXCEPT !.asked = s]
  /\ body \in IF via = "server" THEN Bodies
              ELSE {b \in Bodies : /\ b.count = 1 /\ Len(b.records) = 1 /\ ~b.trailing
                                   /\ b.records[1].dns.parses
                                   /\ \E a \in Range(b.records[1].dns.answers) : a.own /\ a.e}
  /\ headers \in IF via = "server" THEN HeaderSets ELSE {[cc |-> <<>>, age |-> 0]}
  /\ at = 1
  /\ rejected = 0
  /\ endpoints = <<>>
  /\ outcome = None

Error(e) == outcome' = [error |-> e, groups |-> <<>>, ttl |-> 0]

(* be_multi_response reads count records; too many, too few or a rest are  *)
(* errors.                                                                 *)
Malformed ==
  \/ body.count > MaxRecords
  \/ Len(body.records) # body.count
  \/ body.trailing

BadBody ==
  /\ outcome = None /\ at = 1
  /\ Malformed
  /\ Error("decode")
  /\ UNCHANGED <<via, lookup, headers, body, at, rejected, endpoints>>

Response == body.records[at]
Decoding == outcome = None /\ ~Malformed /\ at \in DOMAIN body.records

Trusted(r) == is_empty(r.fields) \/ verify(r.fields, r.dns, r.cert) = "true"

RejectRecord ==
  /\ Decoding /\ via = "server"
  /\ ~Trusted(Response)
  /\ rejected' = rejected + 1
  /\ at' = at + 1
  /\ UNCHANGED <<via, lookup, headers, body, endpoints, outcome>>

(* A packet that does not parse to its end fails the whole response.       *)
BadPacket ==
  /\ Decoding /\ via = "server"
  /\ Trusted(Response)
  /\ ~Response.dns.parses
  /\ Error("decode")
  /\ UNCHANGED <<via, lookup, headers, body, at, rejected, endpoints>>

publisher_certificate_chain_key(r) == IF r.cert = None THEN None ELSE r.cert.chain

OwnAnswers(as) == Pick(as, {i \in DOMAIN as : as[i].own /\ as[i].e})

(* mDNS has no certificate and no signature at this level.                 *)
AcceptRecord ==
  /\ Decoding
  /\ via = "server" => Trusted(Response)
  /\ Response.dns.parses
  /\ LET own == OwnAnswers(Response.dns.answers)
         fallback == IF via = "server" THEN publisher_certificate_chain_key(Response)
                     ELSE None
     IN  endpoints' = endpoints \o
           [i \in DOMAIN own |-> [tag |-> own[i].ttl, record |-> own[i].record,
                                  fallback |-> fallback]]
  /\ at' = at + 1
  /\ UNCHANGED <<via, lookup, headers, body, rejected, outcome>>

(* Cache-Control is a sequence of header values, each one of directives.   *)
Monus(a, b) == IF a > b THEN a - b ELSE 0

freshnessOf(dns_ttl, forbids) ==
  LET first == IF headers.cc = <<>> THEN <<>> ELSE headers.cc[1]
      ages == {i \in DOMAIN first : first[i].name = "max-age"}
      max_age == IF ages = {} THEN {} ELSE {first[Minimum(ages)].n}
  IN  IF \E i \in forbids : \E d \in Range(headers.cc[i]) :
           d.name \in {"no-store", "no-cache"}
      THEN 0
      ELSE Monus(Minimum({dns_ttl} \cup max_age), headers.age)

(* mutant: only the first Cache-Control header is read *)
freshnessFirst(dns_ttl) == freshnessOf(dns_ttl, DOMAIN headers.cc \cap {1})

freshness(dns_ttl) == freshnessOf(dns_ttl, DOMAIN headers.cc)

AnswerFor(groups, noRecord) ==
  LET tags == UNION {{x.tag : x \in Range(g.items)} : g \in Range(groups)}
  IN  IF groups = <<>>
      THEN [error |-> IF noRecord THEN "none" ELSE "unusable", groups |-> <<>>, ttl |-> 0]
      ELSE [error |-> None, groups |-> groups, ttl |-> freshness(Minimum(tags))]

Answer_all(groups) == AnswerFor(groups, TRUE)  \* mutant: rejected records are not told

ServerAnswer(groups) == AnswerFor(groups, rejected = 0)

MdnsAnswer ==
  IF via = "mdns" THEN Selected(endpoints)
  ELSE <<[chain |-> None,
          items |-> OfFamily(selected_endpoint_addrs_for_sequence(endpoints, lookup.asked),
                             lookup.family)]>>

Finish ==
  /\ outcome = None /\ ~Malformed /\ at > Len(body.records)
  /\ outcome' = IF via = "server" THEN ServerAnswer(Selected(endpoints))
                ELSE [error |-> None, groups |-> MdnsAnswer, ttl |-> 0]
  /\ UNCHANGED <<via, lookup, headers, body, at, rejected, endpoints>>

DecodeNext == BadBody \/ RejectRecord \/ BadPacket \/ AcceptRecord \/ Finish

DecodeSpec == DecodeInit /\ [][DecodeNext]_decodeVars

-----------------------------------------------------------------------------
(* Properties, against a reference that looks at the delivery as a whole *)

(* The holder of the certificate's key signed this packet, with a scheme   *)
(* that can be verified and in the name of this certificate.               *)
Signed(f, dns, cert) ==
  /\ cert # None /\ f.content_digest # None /\ f.signature_input # None /\ f.signature # None
  /\ f.content_digest = dns
  /\ f.signature_input.created /\ f.signature_input.keyid = cert
  /\ \E s \in VerifiableSchemes :
       /\ f.signature_input.alg = <<"alg", s>>
       /\ f.signature = [key |-> cert.key, scheme |-> s, data |-> <<dns, f.signature_input>>]

Genuine(r) == via # "server" \/ is_empty(r.fields) \/ Signed(r.fields, r.dns, r.cert)

Candidate(p) ==
  LET a == body.records[p[1]].dns.answers[p[2]]
  IN  [tag |-> a.ttl, record |-> a.record,
       fallback |-> IF via = "server"
                    THEN publisher_certificate_chain_key(body.records[p[1]]) ELSE None]

(* The positions of the answers that count, in the order of delivery, and  *)
(* those among them of the asked family.                                   *)
Listed ==
  {p \in UNION {{k} \X DOMAIN body.records[k].dns.answers : k \in DOMAIN body.records} :
     LET a == body.records[p[1]].dns.answers[p[2]] IN
     /\ Genuine(body.records[p[1]])
     /\ a.own /\ a.e
     /\ Groupable(Candidate(p))}

ChainOf(p) == effective_chain_key(Candidate(p))
EndpointOf(p) == Candidate(p).record.endpoint
Usable == {p \in Listed : endpoint_matches_family(EndpointOf(p), lookup.family)}
OfChain(c) == {p \in Usable : ChainOf(p) = c}

Before(p, q) == p[1] < q[1] \/ (p[1] = q[1] /\ p[2] < q[2])
FirstListed(c) ==
  CHOOSE p \in Listed : ChainOf(p) = c /\ \A q \in Listed : Before(q, p) => ChainOf(q) # c

(* The chains with an endpoint of the family delivered before a chain, and *)
(* the different endpoints of its chain delivered before a position.       *)
ChainsBefore(c) ==
  {d \in {ChainOf(p) : p \in Usable} : Before(FirstListed(d), FirstListed(c))}
EndpointsBefore(p) == {EndpointOf(q) : q \in {q \in OfChain(ChainOf(p)) : Before(q, p)}}

Chosen ==
  {c \in {ChainOf(p) : p \in Usable} :
     LET query == lookup.sequences
     IN  CASE query.kind = "exact" -> c.sequence = query.n
           [] query.kind = "all" -> TRUE
           [] OTHER -> Cardinality(ChainsBefore(c)) <
                         IF query.kind = "limit" THEN query.n ELSE 3}

Succeeded == outcome # None /\ outcome.error = None

(* An endpoint is returned only if an answer of the asked name, genuine if *)
(* it is signed at all, put it into the chain it is returned in: no record *)
(* whose signature does not verify contributes (api.rs:169-179).           *)
OnlyUsable ==
  Succeeded => \A g \in Range(outcome.groups) : \A x \in Range(g.items) :
    \E p \in Usable :
      EndpointOf(p) = x.endpoint /\ (g.chain = None \/ ChainOf(p) = g.chain)

(* The i-th group: its chain is chosen, i - 1 chosen ones come before it,  *)
(* and it has the first record_limit different endpoints of its chain.     *)
ExactGroup(g, i) ==
  LET all == {EndpointOf(p) : p \in OfChain(g.chain)}
      limit == lookup.record_limit
  IN  /\ g.chain \in Chosen
      /\ Cardinality(ChainsBefore(g.chain) \cap Chosen) = i - 1
      /\ Len(g.items) = IF limit = None THEN Cardinality(all)
                        ELSE Minimum({limit, Cardinality(all)})
      /\ \A j \in DOMAIN g.items : \E p \in OfChain(g.chain) :
           /\ EndpointOf(p) = g.items[j].endpoint
           /\ EndpointOf(p) \notin EndpointsBefore(p)
           /\ Cardinality(EndpointsBefore(p)) = j - 1

(* The candidates are the chosen chains in the order they were delivered,  *)
(* and in each the first record_limit different endpoints: neither a       *)
(* duplicate nor an endpoint of another chain or family uses up the limit. *)
ExactGroups ==
  Succeeded /\ via # "stream" =>
    /\ Len(outcome.groups) = Cardinality(Chosen)
    /\ \A i \in DOMAIN outcome.groups : ExactGroup(outcome.groups[i], i)

(* An answer is cached no longer than some record of each endpoint in it   *)
(* lives and the first max-age allows, less the age the response arrived   *)
(* with; not at all if any Cache-Control header forbids it (api.rs:206).   *)
CachedNoLongerThanFresh ==
  Succeeded /\ via = "server" /\ outcome.ttl > 0 =>
    /\ \A g \in Range(outcome.groups) : \A x \in Range(g.items) :
         \E p \in OfChain(g.chain) : EndpointOf(p) = x.endpoint
           /\ outcome.ttl + headers.age <= Candidate(p).tag
    /\ \A i \in DOMAIN headers.cc : \A j \in DOMAIN headers.cc[i] :
         LET d == headers.cc[i][j] IN
         /\ d.name \notin {"no-store", "no-cache"}
         /\ d.name = "max-age" /\ i = 1 /\ (\A l \in 1..(j - 1) : headers.cc[1][l].name # "max-age")
              => outcome.ttl + headers.age <= d.n

(* "No record" is reported only when the server sent none that counts;     *)
(* when it sent some that did not verify, they are reported as unusable.   *)
EmptyIsExplained ==
  outcome # None /\ via = "server" /\ outcome.error \in {"none", "unusable"} =>
    /\ Chosen = {}
    /\ outcome.error = "none" <=> \A r \in Range(body.records) : Genuine(r)

(* The stream of an mDNS lookup holds the endpoints of one chain, that of  *)
(* the sequence asked for, or else the first delivered, never a mix.       *)
StreamIsOneChain ==
  Succeeded /\ via = "stream" =>
    LET got == {x.endpoint : x \in Range(outcome.groups[1].items)}
        chains == {c \in {ChainOf(p) : p \in Listed} :
                     IF lookup.asked = None
                     THEN \A p \in Listed : ~Before(p, FirstListed(c))
                     ELSE c.sequence = lookup.asked}
    IN  got = UNION {{EndpointOf(p) : p \in OfChain(c)} : c \in chains}
=============================================================================
