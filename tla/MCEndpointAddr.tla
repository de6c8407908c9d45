--------------------------- MODULE MCEndpointAddr ---------------------------
(* An instance of EndpointAddr for TLC: one key can sign, the other cannot. *)
EXTENDS EndpointAddr, TLC

CONSTANTS k1, k2

MCV4 == {<<0, 53, 10, 0, 0, 1>>}
MCV6 == {<<0, 53>> \o [i \in 1 .. 16 |-> i]}
MCScheme == (k1 :> <<8, 7>>) @@ (k2 :> None)
=============================================================================
