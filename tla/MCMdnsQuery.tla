---------------------------- MODULE MCMdnsQuery ----------------------------
(* Instances of MdnsQuery for TLC: of the two names one contains the other. *)
EXTENDS MdnsQuery, TLC

CONSTANTS host, sub  \* host contains sub

MCContains == {<<host, host>>, <<sub, sub>>, <<host, sub>>} \cap (Name \X Name)

(* Other mDNS software sends requests and responses with id 0. *)
MCForeign ==
  {[kind |-> "request", id |-> 0, name |-> host],
   [kind |-> "response", id |-> 0, records |-> [x \in Name |-> Endpoint]]}

Symmetry == Permutations(Node) \cup Permutations(Query)
NoForeign == {}
=============================================================================
