---------------------------- MODULE EndpointAddr ----------------------------
(***************************************************************************)
(* The endpoint record (type E) of core/parser/record/endpoint.rs: how an  *)
(* application builds and signs one, and its wire format, byte by byte.    *)
(* Bytes are numbers; a socket address is its port and address bytes, 6 of *)
(* them for IPv4 and 18 for IPv6: the flow information and the scope of an *)
(* IPv6 socket address are not written, and read as 0.  The writer goes by *)
(* the fields that are present, the reader by the flags.                   *)
(*                                                                         *)
(* A parser takes the input and a position in it, and returns one of nom's *)
(* results: "ok" with the position after the value, "error" with the slice *)
(* it is reported at, "incomplete" or "failure".  Positions count from the *)
(* start of the message, of which the input is the part up to its end.     *)
(***************************************************************************)
EXTENDS Naturals, Sequences

CONSTANTS
  V4, V6,        \* socket addresses
  Sequence,      \* certificate sequences the application sets
  MaxSequence,   \* CertificateSequence::MAX
  Load,          \* f32 load averages, as bytes
  Key,           \* signing keys
  Scheme,        \* the signature scheme of a key, or None if not supported
  SigLen,        \* length of a signature
  MaxCalls,      \* bound on the calls made on a record
  None

FAMILY == 128
MAIN == 64
CLUSTERED == 32
NAT == 16
LOAD == 8
SIGNED == 1
Bits == {1, 2, 4, 8, 16, 32, 64, 128}

Byte == 0 .. 255
IsV6(addr) == Len(addr) = 18

ASSUME EndpointAssumption ==
  /\ \A a \in V4 : a \in Seq(Byte) /\ Len(a) = 6
  /\ \A a \in V6 : a \in Seq(Byte) /\ Len(a) = 18
  /\ \A l \in Load : l \in Seq(Byte) /\ Len(l) = 4
  /\ MaxSequence \in Nat /\ MaxSequence < 2 ^ 30 /\ Sequence \subseteq 0 .. MaxSequence
  /\ SigLen \in Nat \ {0} /\ SigLen < 2 ^ 30 /\ MaxCalls \in Nat
  /\ Scheme \in [Key -> Seq(Byte) \cup {None}]
  /\ \A k \in Key : Scheme[k] # None => Len(Scheme[k]) = 2
  /\ None \notin V4 \cup V6 \cup Load \cup Nat \cup Seq(Nat)
  /\ None \notin [scheme : Seq(Nat), bytes : Seq(Nat)]

VARIABLES
  ep,       \* the record, or None
  calls,
  signed,   \* what was ever signed: the signature is the place in this list
  covered   \* by which key it was signed, and what it said then

epVars == <<ep, calls, signed, covered>>

-----------------------------------------------------------------------------
(* Parsing with nom *)

Huge == 2 ^ 30  \* numbers from here on are all alike: beyond any length or sequence
Full == 2 ^ 22  \* and are reached with one byte more from here on

Ok(at, val) == [res |-> "ok", at |-> at, val |-> val]
Error(in, at) == [res |-> "error", at |-> at, val |-> Len(in)]
Incomplete == [res |-> "incomplete", at |-> 0, val |-> None]
Failure == [res |-> "failure", at |-> 0, val |-> None]

(* The ? operator: go on with a value, return anything else. *)
Then(r, Rest(_, _)) == IF r.res = "ok" THEN Rest(r.at, r.val) ELSE r

take(in, at, n) ==
  IF at + n <= Len(in) THEN Ok(at + n, SubSeq(in, at + 1, at + n)) ELSE Incomplete

(* The value of bytes in network order, exact below Huge. *)
number(bytes) ==
  LET upto[i \in 0 .. Len(bytes)] ==
        IF i = 0 THEN 0
        ELSE IF upto[i - 1] >= Full THEN Huge ELSE upto[i - 1] * 256 + bytes[i]
  IN  upto[Len(bytes)]

be_varint(in, at) ==
  Then(take(in, at, 1), LAMBDA a, first :
    Then(take(in, at, 2 ^ (first[1] \div 64)), LAMBDA b, bytes :
      Ok(b, number([bytes EXCEPT ![1] = @ % 64]))))

(* Of the four lengths the one with eight bytes is never needed here. *)
put_varint(x) ==
  IF x < 2 ^ 6 THEN <<x>>
  ELSE IF x < 2 ^ 14 THEN <<64 + x \div 256, x % 256>>
  ELSE <<128 + x \div 2 ^ 24, (x \div 2 ^ 16) % 256, (x \div 256) % 256, x % 256>>

-----------------------------------------------------------------------------
(* The record *)

flags_byte(fs) ==
  LET bit(b) == IF b \in fs THEN b ELSE 0 IN
  bit(128) + bit(64) + bit(32) + bit(16) + bit(8) + bit(4) + bit(2) + bit(1)

flags_of(byte) == {b \in Bits : (byte \div b) % 2 = 1}

Addressed(family, nat, addr, agent) ==
  [flags |-> family \cup nat, sequence |-> None, load |-> None,
   signature |-> None, primary |-> addr, agent |-> agent]

direct(addr) == Addressed(IF IsV6(addr) THEN {FAMILY} ELSE {}, {}, addr, None)
nat(outer, agent) == Addressed(IF IsV6(outer) THEN {FAMILY} ELSE {}, {NAT}, outer, agent)

set_flag(e, f, on) == [e EXCEPT !.flags = IF on THEN @ \cup {f} ELSE @ \ {f}]
set_main(e, on) == set_flag(e, MAIN, on)
set_signed(e, on) == set_flag(e, SIGNED, on)

set_clustered_only(e, on) == set_flag(e, CLUSTERED, on)  \* mutant: the sequence stays

(* Clearing the flag clears the sequence; setting it does not set one. *)
set_clustered(e, on) ==
  IF on THEN set_flag(e, CLUSTERED, TRUE)
  ELSE [set_flag(e, CLUSTERED, FALSE) EXCEPT !.sequence = None]

set_sequence(e, s) ==
  set_clustered([e EXCEPT !.sequence = IF s > 0 THEN s ELSE None], s > 0)

set_load(e, l) == set_flag([e EXCEPT !.load = l], LOAD, l # None)

Opt(x, bytes) == IF x = None THEN <<>> ELSE bytes

(* By the fields, whatever the flags say. *)
write_base(e) ==
  <<flags_byte(e.flags)>> \o Opt(e.sequence, put_varint(e.sequence))
    \o e.primary \o Opt(e.agent, e.agent) \o Opt(e.load, e.load)

(* All but the signature itself, with SIGNED set. *)
Unsigned(e) == [set_signed(e, TRUE) EXCEPT !.signature = None]

signed_data_base(e) ==  \* mutant: MAIN is not covered
  write_base([Unsigned(e) EXCEPT !.flags = @ \ {MAIN}])

signed_data(e) == write_base(Unsigned(e))

Carried(e) == SIGNED \in e.flags /\ e.signature # None

encpding_size(e) ==
  1 + Len(Opt(e.sequence, put_varint(e.sequence))) + Len(Opt(e.load, e.load))
    + (IF Carried(e)
       THEN 2 + Len(put_varint(Len(e.signature.bytes))) + Len(e.signature.bytes) ELSE 0)
    + (IF FAMILY \in e.flags THEN 18 ELSE 6) * (IF NAT \in e.flags THEN 2 ELSE 1)

put_endpoint_addr(e) ==
  write_base(e) \o
  IF Carried(e)
  THEN e.signature.scheme \o put_varint(Len(e.signature.bytes)) \o e.signature.bytes
  ELSE <<>>

-----------------------------------------------------------------------------
(* Reading it *)

be_sequence(in, at) ==
  Then(be_varint(in, at), LAMBDA a, s : IF s <= MaxSequence THEN Ok(a, s) ELSE Failure)

(* Without SIGNED nothing may follow. *)
be_endpoint_signature(in, at, flags) ==
  IF SIGNED \notin flags
  THEN IF at = Len(in) THEN Ok(at, None) ELSE Error(in, at)
  ELSE Then(take(in, at, 2), LAMBDA a, scheme :
         Then(be_varint(in, a), LAMBDA b, len :
           Then(take(in, b, len), LAMBDA c, bytes :
             Ok(c, [scheme |-> scheme, bytes |-> bytes]))))

be_endpoint_addr(in, at) ==
  Then(take(in, at, 1), LAMBDA a0, byte :
    LET flags == flags_of(byte[1])
        size == IF FAMILY \in flags THEN 18 ELSE 6
        If(f, a, r) == IF f \in flags THEN r ELSE Ok(a, None)
    IN  Then(If(CLUSTERED, a0, be_sequence(in, a0)), LAMBDA a1, sequence :
        Then(take(in, a1, size), LAMBDA a2, primary :
        Then(If(NAT, a2, take(in, a2, size)), LAMBDA a3, agent :
        Then(If(LOAD, a3, take(in, a3, 4)), LAMBDA a4, load :
        Then(be_endpoint_signature(in, a4, flags), LAMBDA a5, signature :
          Ok(a5, [flags |-> flags, sequence |-> sequence, load |-> load,
                  signature |-> signature, primary |-> primary, agent |-> agent])))))))

LegacyOf(in, at, rdlen, Nat4Or6(_, _)) ==
  LET size == IF rdlen \in {6, 12} THEN 6 ELSE 18 IN
  Then(take(in, at, size), LAMBDA a, primary :
    IF rdlen = size THEN Ok(a, direct(primary))
    ELSE Then(take(in, a, size), LAMBDA b, agent : Ok(b, Nat4Or6(primary, agent))))

legacy_swapped(in, at, rdlen) ==  \* mutant: the agent comes first
  LegacyOf(in, at, rdlen, LAMBDA outer, agent : nat(agent, outer))

be_legacy_endpoint_addr_by_length(in, at, rdlen) == LegacyOf(in, at, rdlen, nat)

LegacyLength == {6, 12, 18, 36}

(* A record of a legacy length is read as a modern one if it is one. *)
be_endpoint_addr_compat(in, at, rdlen) ==
  LET m == be_endpoint_addr(in, at) IN
  IF rdlen \notin LegacyLength \/ (m.res = "ok" /\ m.at = Len(in)) THEN m
  ELSE be_legacy_endpoint_addr_by_length(in, at, rdlen)

-----------------------------------------------------------------------------
(* What an application does with a record *)

Sign(e, k) == \* the signature names its place in the list
  LET i == Len(signed) + 1 IN
  [e EXCEPT !.signature = [scheme |-> Scheme[k], bytes |-> [j \in 1 .. SigLen |-> i]]]

verify_signature(e, k) ==
  /\ e.signature # None
  /\ \E i \in 1 .. Len(signed) :
       /\ e.signature.bytes = [j \in 1 .. SigLen |-> i]
       /\ signed[i] = [key |-> k, scheme |-> e.signature.scheme, data |-> signed_data(e)]

EpInit == ep = None /\ calls = 0 /\ signed = <<>> /\ covered = None

Call ==
  /\ ep # None /\ calls < MaxCalls
  /\ calls' = calls + 1

(* An address of two families has no record: nothing is built. *)
New ==
  /\ ep = None
  /\ \/ \E a \in V4 \cup V6 : ep' = direct(a)
     \/ \E a, b \in V4 : ep' = nat(a, b)
     \/ \E a, b \in V6 : ep' = nat(a, b)
  /\ UNCHANGED <<calls, signed, covered>>

Set ==
  /\ Call
  /\ \/ \E on \in BOOLEAN : ep' \in {set_main(ep, on), set_clustered(ep, on), set_signed(ep, on)}
     \/ \E s \in Sequence : ep' = set_sequence(ep, s)
     \/ \E l \in Load \cup {None} : ep' = set_load(ep, l)
  /\ UNCHANGED <<signed, covered>>

(* SIGNED is set first and stays set when the key cannot sign. *)
sign_with_authority(e, k) ==
  \/ /\ Scheme[k] # None
     /\ ep' = Sign(set_signed(e, TRUE), k)
     /\ signed' = Append(signed, [key |-> k, scheme |-> Scheme[k],
                                  data |-> signed_data(set_signed(e, TRUE))])
     /\ covered' = [key |-> k, says |-> Unsigned(e)]
  \/ /\ ep' = set_signed(e, TRUE)
     /\ UNCHANGED <<signed, covered>>

SignWith(k) == Call /\ sign_with_authority(ep, k)

(* The record of a server, of a new one: main for server 0, in sequence    *)
(* for the others, signed if there is an authority; that signing failed is *)
(* ignored.                                                                *)
sign_endponit_address(id) ==
  LET e == set_sequence(set_main(ep, id = 0), id) IN
  /\ calls = 0 /\ Call
  /\ \/ \E k \in Key : sign_with_authority(e, k)
     \/ ep' = e /\ UNCHANGED <<signed, covered>>

(* The record of a publisher, from the sequence of its certificate chain;  *)
(* an authority of a secondary chain or of another name is refused.        *)
dns_endpoints_for_authority(sequence) ==
  /\ calls = 0 /\ Call
  /\ ep' = set_sequence(set_main(ep, TRUE), sequence)
  /\ UNCHANGED <<signed, covered>>

(* What the library itself does. *)
ServerNext ==
  New \/ \E s \in Sequence : sign_endponit_address(s) \/ dns_endpoints_for_authority(s)
ServerSpec == EpInit /\ [][ServerNext]_epVars

EpNext ==
  \/ New
  \/ Set
  \/ \E k \in Key : SignWith(k)
  \/ \E s \in Sequence : sign_endponit_address(s) \/ dns_endpoints_for_authority(s)

EpSpec == EpInit /\ [][EpNext]_epVars

(* A field is present only if its flag is set, and the flags of the        *)
(* addresses agree with them, whatever is called in whatever order, with   *)
(* a signing that fails in between (endpoint.rs:200-239, 303-327,          *)
(* 376-384): the writer never adds bytes that the reader would not expect. *)
FieldsAreFlagged ==
  ep # None =>
    /\ ep.sequence # None => CLUSTERED \in ep.flags
    /\ (ep.load # None) = (LOAD \in ep.flags)
    /\ (ep.agent # None) = (NAT \in ep.flags)
    /\ IsV6(ep.primary) = (FAMILY \in ep.flags)
    /\ ep.agent # None => IsV6(ep.agent) = IsV6(ep.primary)

(* A signature is valid for a key exactly as long as the record says what  *)
(* it said when that key signed it: changing the rank, the sequence or the *)
(* load invalidates it, changing them back makes it valid again, and the   *)
(* SIGNED flag has no part in it (endpoint.rs:241-255, 443-450).           *)
VerifyExact ==
  ep # None => \A k \in Key :
    verify_signature(ep, k) = (ep.signature # None /\ covered = [key |-> k, says |-> Unsigned(ep)])

(* "SIGNED - record carries a publisher key signature" (endpoint.rs:71),   *)
(* of the records that sign_endponit_address makes.                        *)
SignedCarriesSignature == ep # None /\ SIGNED \in ep.flags => ep.signature # None

(* The flags announce no field that is missing. *)
Consistent(e) ==
  /\ CLUSTERED \in e.flags => e.sequence # None
  /\ SIGNED \in e.flags => e.signature # None

(* A signature goes out only with its flag. *)
Sent(e) == IF SIGNED \in e.flags THEN e ELSE [e EXCEPT !.signature = None]

(* A record that can be built takes the space encpding_size says and, at   *)
(* the end of whatever input, reads back as itself, through the test for   *)
(* legacy lengths (endpoint.rs:329-357, 416-441, 458-571).                 *)
RecordReadsBack ==
  ep # None /\ Consistent(ep) =>
    LET w == put_endpoint_addr(ep) IN
    /\ Len(w) = encpding_size(ep)
    /\ \A pre \in Seq(Byte) :
         be_endpoint_addr_compat(pre \o w, Len(pre), Len(w)) = Ok(Len(pre \o w), Sent(ep))

(* What is written of e takes n bytes at most and reads back as e. *)
Rewritten(e, n) ==
  LET w == put_endpoint_addr(e) IN
  Len(w) = encpding_size(e) /\ Len(w) <= n /\ be_endpoint_addr(w, 0) = Ok(Len(w), e)

(* The addresses that a record of an older version consists of. *)
LegacyMeaning(b) ==
  CASE Len(b) \in {6, 18} -> direct(b)
    [] Len(b) \in {12, 36} -> nat(SubSeq(b, 1, Len(b) \div 2), SubSeq(b, Len(b) \div 2 + 1, Len(b)))

(* Its first byte, the high byte of a port, announces none of the fields   *)
(* that would make a record of this version as long as it is.              *)
AddressOnly(b) == Len(b) = 6 \/ flags_of(b[1]) \cap {CLUSTERED, LOAD, SIGNED} = {}

(* It is read to its end, and as its addresses if it is AddressOnly; if    *)
(* not, it may be read as a record of this version (endpoint.rs:544-571).  *)
LegacyRead(b) ==
  LET r == be_endpoint_addr_compat(b, 0, Len(b)) IN
  r.res = "ok" /\ r.at = Len(b) /\ (AddressOnly(b) => r.val = LegacyMeaning(b))
=============================================================================
