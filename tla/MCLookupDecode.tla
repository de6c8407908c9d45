---------------------------- MODULE MCLookupDecode ----------------------------
(* Instances of LookupDecode for TLC. *)
EXTENDS LookupDecode, TLC

Endpoint(id, f) == [id |-> id, family |-> f]
Record(main, seq, ep) ==
  [main |-> main, sequence |-> seq, endpoint |-> ep, convertible |-> TRUE]
AnswerOf(r, t) == [own |-> TRUE, e |-> TRUE, ttl |-> t, record |-> r]

a4 == Endpoint("a", "v4")
b4 == Endpoint("b", "v4")
c6 == Endpoint("c", "v6")

Packet(as) == [parses |-> TRUE, answers |-> as]
PFirst == Packet(<<AnswerOf(Record(TRUE, 1, a4), 2), AnswerOf(Record(TRUE, 1, a4), 1),
                   AnswerOf(Record(TRUE, 1, b4), 2)>>)
PSecond == Packet(<<AnswerOf(Record(TRUE, 2, c6), 3), AnswerOf(Record(TRUE, 1, c6), 2)>>)
PPlain == Packet(<<AnswerOf(Record(FALSE, None, b4), 2)>>)
PMixed == Packet(<<[AnswerOf(Record(TRUE, 2, a4), 3) EXCEPT !.own = FALSE],
                   [AnswerOf(Record(TRUE, 2, a4), 3) EXCEPT !.e = FALSE],
                   AnswerOf([Record(TRUE, 2, a4) EXCEPT !.convertible = FALSE], 3),
                   AnswerOf(Record(FALSE, 2, a4), 3),
                   AnswerOf(Record(TRUE, None, a4), 3)>>)
PBad == [parses |-> FALSE, answers |-> <<>>]

Cert(k, c) == [key |-> [id |-> k, type |-> "ed25519"], chain |-> c]
CertA == Cert("ka", [primary |-> TRUE, sequence |-> 1])
CertB == Cert("kb", None)
NoFields == [content_digest |-> None, signature_input |-> None, signature |-> None]

Response4(f, d, c) == [fields |-> f, dns |-> d, cert |-> c]
(* Unsigned and signed records, and ones whose parts do not belong together. *)
Pool ==
  {Response4(NoFields, PFirst, None), Response4(NoFields, PPlain, CertA),
   Response4(NoFields, PMixed, None), Response4(NoFields, PSecond, None),
   Response4(sign(PFirst, CertA), PFirst, CertA),
   Response4(sign(PPlain, CertA), PPlain, CertA),
   Response4(sign(PSecond, CertB), PSecond, CertB)}
Broken ==
  {Response4(sign(PFirst, CertA), PSecond, CertA),
   Response4(sign(PFirst, CertA), PFirst, CertB),
   Response4([sign(PFirst, CertA) EXCEPT !.signature = None], PFirst, CertA),
   Response4([sign(PFirst, CertA) EXCEPT !.signature_input.alg = <<"alg", "other">>],
             PFirst, CertA),
   Response4(NoFields, PBad, None)}

BodyOf(rs) == [count |-> Len(rs), records |-> rs, trailing |-> FALSE]
MCBodies ==
  {BodyOf(<<>>)} \cup {BodyOf(<<r>>) : r \in Pool \cup Broken}
  \cup {BodyOf(<<r, q>>) : r, q \in Pool \cup Broken}
  \cup {BodyOf(<<r, q, p>>) : r, q, p \in {Response4(NoFields, x, None) :
                                            x \in {PFirst, PSecond, PMixed}}}
  \cup {[BodyOf(<<Response4(NoFields, PFirst, None)>>) EXCEPT !.count = n] : n \in {0, 2, 9}}
  \cup {[BodyOf(<<>>) EXCEPT !.trailing = TRUE]}

Query(k, n, l, f) ==
  [sequences |-> [kind |-> k, n |-> n], record_limit |-> l, family |-> f, asked |-> None]
MCQueries ==
  {Query("default", 0, None, None), Query("all", 0, 1, None), Query("all", 0, None, "v6"),
   Query("limit", 1, 2, "v4"), Query("limit", 1, None, None), Query("exact", 2, None, None)}

Directive(nm, n) == [name |-> nm, n |-> n]
MCHeaderSets ==
  {[cc |-> <<>>, age |-> 0],
   [cc |-> <<<<Directive("max-age", 2), Directive("max-age", 1)>>>>, age |-> 1],
   [cc |-> <<<<Directive("max-age", 3)>>, <<Directive("no-store", 0)>>>>, age |-> 0],
   [cc |-> <<<<Directive("public", 0)>>, <<Directive("max-age", 1)>>>>, age |-> 1]}
=============================================================================
