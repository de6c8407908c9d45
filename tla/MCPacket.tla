------------------------------ MODULE MCPacket ------------------------------
(* An instance of Packet for TLC. *)
EXTENDS Packet, TLC

CONSTANTS k1, k2

MCV4 == {<<0, 53, 10, 0, 0, 1>>, <<40, 3, 10, 0, 0, 2>>}
MCV6 == {<<0, 53>> \o [i \in 1 .. 16 |-> i]}
MCLoad == {<<63, 128, 0, 0>>}
MCScheme == (k1 :> <<8, 7>>) @@ (k2 :> None)

(* Names that share their suffix. *)
host == <<97, 98>>
other == <<99, 98>>
MCName == {host, <<97>> \o other}

Rec(s, name, typ, cls, data) ==
  [section |-> s,
   record |-> [name |-> name, typ |-> typ, cls |-> cls, top |-> cls = 2, data |-> data]]
Answer(typ, cls, data) == Rec("answers", host, typ, cls, data)

nat4 == <<40, 3, 10, 0, 0, 2, 0, 53, 10, 0, 0, 1>>  \* a modern record too
addr == <<0, 0, 1, 0, 1, 0, 0, 0, 0, 0, 4, 10, 0, 0, 9>>  \* an A record of the root
MCPlain ==
  {Answer(A, 1, [bytes |-> <<10, 0, 0, 3>>]),
   Rec("nameservers", <<98>>, Ns, 1, [name |-> other]),
   Rec("additional", other, AAAA, 2, [bytes |-> [i \in 1 .. 16 |-> 0]]),
   Answer(Cname, 1, [name |-> <<97>> \o other]),
   Rec("additional", <<>>, Srv, 1, [srv |-> <<0, 0, 0, 1, 0, 80>>, target |-> host]),
   Answer(10, 1, [bytes |-> <<1, 2, 3>>]),                 \* an unknown type
   Answer(Txt, 254, [bytes |-> <<5>>]),                    \* an unknown class
   Answer(266, 1, [bytes |-> <<0, 53, 10, 0, 0, 1>>]),     \* legacy records
   Answer(268, 1, [bytes |-> nat4]),
   Answer(266, 1, [bytes |-> <<1, 0, 53, 10, 0, 0, 1, 8, 7, 64, 1, 9>>]),  \* and with a long varint
   Answer(269, 1, [bytes |-> <<0, 54, 10, 0, 0, 4>> \o <<0, 53, 10, 0, 0, 1>>]),
   Answer(267, 1, [bytes |-> <<193, 53>> \o [i \in 1 .. 16 |-> i]]),
   Answer(266, 1, [bytes |-> <<32, 128, 0, 64, 1, 0, 53, 10, 0, 0, 1>>]),  \* sequence too large
   Answer(266, 1, [bytes |-> <<1, 0, 53, 10, 0, 0, 1, 8, 7, 2, 9, 9, 0>>]),  \* a byte too many
   Answer(266, 1, [bytes |-> <<0, 0, 53, 10, 0, 0, 1>> \o addr]),  \* a record inside the data
   Answer(Cname, 1, [bytes |-> <<64>>])}                           \* not a name
=============================================================================
