----------------------------- MODULE MCAggregate -----------------------------
(* Instances of Aggregate for TLC. *)
EXTENDS Aggregate, TLC
CONSTANTS r1, r2, c1, c2, p1, p2

GroupOf(c, ps, ss) == [chain |-> c, endpoints |-> ps, sources |-> ss]

MCStreams == {<<>>, <<r1>>, <<r2, r1>>, <<r1, r1>>}
MCCandidates ==
  {<<>>, <<GroupOf(c1, <<p1>>, {"a"})>>, <<GroupOf(c1, <<p2, p1>>, {"b"})>>,
   <<GroupOf(c2, <<p1>>, {"a"}), GroupOf(c1, <<p2>>, {"a"})>>}
=============================================================================
