------------------------- MODULE EndpointAddrProofs -------------------------
(***************************************************************************)
(* Proofs about the endpoint record, for all addresses, sequences, loads,  *)
(* keys and lengths of a signature and for every sequence of calls:        *)
(* FieldsAreFlagged; VerifyExact, which rests on the signed bytes of a     *)
(* record determining what can change in it; and RecordReadsBack, together *)
(* with what reading makes of any bytes, of this or of an older version.   *)
(***************************************************************************)
EXTENDS EndpointAddr, SequenceTheorems, TLAPS

(* The fields of a record; nothing is said of the signature. *)
Shape(e) ==
  /\ e = [flags |-> e.flags, sequence |-> e.sequence, load |-> e.load,
          signature |-> e.signature, primary |-> e.primary, agent |-> e.agent]
  /\ e.flags \in SUBSET Bits
  /\ e.sequence \in Sequence \cup {None}
  /\ e.load \in Load \cup {None}
  /\ e.primary \in V4 \cup V6
  /\ e.agent \in V4 \cup V6 \cup {None}

Flagged(e) ==
  /\ Shape(e)
  /\ e.sequence # None => CLUSTERED \in e.flags
  /\ e.load # None <=> LOAD \in e.flags
  /\ e.agent # None <=> NAT \in e.flags
  /\ IsV6(e.primary) <=> FAMILY \in e.flags
  /\ e.agent # None => (IsV6(e.agent) <=> IsV6(e.primary))

LEMMA FlagsDiffer ==
  /\ {MAIN, SIGNED, CLUSTERED, LOAD, NAT, FAMILY} \subseteq Bits
  /\ MAIN \notin {CLUSTERED, LOAD, NAT, FAMILY} /\ SIGNED \notin {CLUSTERED, LOAD, NAT, FAMILY}
  /\ CLUSTERED \notin {LOAD, NAT, FAMILY} /\ LOAD \notin {NAT, FAMILY} /\ NAT # FAMILY
BY DEF MAIN, SIGNED, CLUSTERED, LOAD, NAT, FAMILY, Bits

LEMMA Families ==
  /\ \A a \in V4 : ~IsV6(a) /\ a # None
  /\ \A a \in V6 : IsV6(a) /\ a # None
<1>1. (\A a \in V4 : Len(a) = 6) /\ (\A a \in V6 : Len(a) = 18) /\ None \notin V4 \cup V6
  BY EndpointAssumption, Zenon
<1>2. QED
  BY <1>1 DEF IsV6

LEMMA NewIsFlagged ==
  /\ \A a \in V4 \cup V6 : Flagged(direct(a))
  /\ \A a, b \in V4 : Flagged(nat(a, b))
  /\ \A a, b \in V6 : Flagged(nat(a, b))
<1>1. ASSUME NEW a \in V4 \cup V6 PROVE Flagged(direct(a))
  BY <1>1, Families, FlagsDiffer DEF Flagged, Shape, direct, Addressed
<1>2. ASSUME NEW a \in V4, NEW b \in V4 PROVE Flagged(nat(a, b))
  BY <1>2, Families, FlagsDiffer DEF Flagged, Shape, nat, Addressed
<1>3. ASSUME NEW a \in V6, NEW b \in V6 PROVE Flagged(nat(a, b))
  BY <1>3, Families, FlagsDiffer DEF Flagged, Shape, nat, Addressed
<1>4. QED
  BY <1>1, <1>2, <1>3

(* Flags that belong to no field can be set and cleared. *)
LEMMA OtherFlag ==
  ASSUME NEW e, Flagged(e), NEW f \in {MAIN, SIGNED}, NEW on \in BOOLEAN
  PROVE  Flagged(set_flag(e, f, on))
BY FlagsDiffer DEF Flagged, Shape, set_flag

LEMMA Clustered ==
  ASSUME NEW e, Flagged(e), NEW on \in BOOLEAN
  PROVE  Flagged(set_clustered(e, on))
BY Zenon, FlagsDiffer DEF Flagged, Shape, set_flag, set_clustered

LEMMA SequenceIs == Sequence \subseteq Nat /\ \A s \in Sequence : s <= MaxSequence
<1>1. MaxSequence \in Nat /\ Sequence \subseteq 0 .. MaxSequence
  BY Zenon, EndpointAssumption
<1>2. QED
  BY SMT, <1>1

LEMMA Sequenced ==
  ASSUME NEW e, Flagged(e), NEW s \in Sequence
  PROVE  Flagged(set_sequence(e, s))
<1> DEFINE d == [e EXCEPT !.sequence = IF s > 0 THEN s ELSE None]
<1>1. d = [flags |-> e.flags, sequence |-> IF s > 0 THEN s ELSE None, load |-> e.load,
           signature |-> e.signature, primary |-> e.primary, agent |-> e.agent]
  BY DEF Flagged, Shape
<1>2. CASE s > 0
  BY Zenon, <1>1, <1>2, FlagsDiffer DEF Flagged, Shape, set_sequence, set_clustered, set_flag
<1>3. CASE ~(s > 0)
  BY Zenon, <1>1, <1>3, FlagsDiffer DEF Flagged, Shape, set_sequence, set_clustered, set_flag
<1>4. QED
  BY <1>2, <1>3

LEMMA Loaded ==
  ASSUME NEW e, Flagged(e), NEW l \in Load \cup {None}
  PROVE  Flagged(set_load(e, l))
<1> DEFINE d == [e EXCEPT !.load = l]
<1>1. d = [flags |-> e.flags, sequence |-> e.sequence, load |-> l,
           signature |-> e.signature, primary |-> e.primary, agent |-> e.agent]
  BY DEF Flagged, Shape
<1> HIDE DEF d
<1>2. ASSUME NEW fs PROVE
       [d EXCEPT !.flags = fs] =
         [flags |-> fs, sequence |-> e.sequence, load |-> l,
          signature |-> e.signature, primary |-> e.primary, agent |-> e.agent]
  BY <1>1
<1>3. set_load(e, l) =
        [flags |-> IF l # None THEN e.flags \cup {LOAD} ELSE e.flags \ {LOAD},
         sequence |-> e.sequence, load |-> l,
         signature |-> e.signature, primary |-> e.primary, agent |-> e.agent]
  <2>1. d.flags = e.flags
    BY <1>1
  <2>2. QED
    BY <1>2, <2>1, Zenon DEF d, set_load, set_flag
<1>4. CASE l # None
  BY <1>3, <1>4, FlagsDiffer DEF Flagged, Shape
<1>5. CASE l = None
  BY <1>3, <1>5, FlagsDiffer DEF Flagged, Shape
<1>6. QED
  BY <1>4, <1>5

LEMMA SignedIsFlagged ==
  ASSUME NEW e, Flagged(e), NEW x
  PROVE  Flagged([e EXCEPT !.signature = x])
BY DEF Flagged, Shape

IInv == ep # None => Flagged(ep)

LEMMA Authority ==
  ASSUME NEW e, Flagged(e), NEW k \in Key, sign_with_authority(e, k)
  PROVE  Flagged(ep')
<1>1. Flagged(set_signed(e, TRUE))
  BY Zenon, OtherFlag DEF set_signed
<1>2. Flagged(Sign(set_signed(e, TRUE), k))
  BY Zenon, <1>1, SignedIsFlagged DEF Sign
<1>3. QED
  BY Zenon, <1>1, <1>2 DEF sign_with_authority

LEMMA StepInv == IInv /\ [EpNext]_epVars => IInv'
<1> SUFFICES ASSUME IInv, [EpNext]_epVars, ep' # None PROVE Flagged(ep')
  BY DEF IInv
<1>1. CASE New
  BY <1>1, NewIsFlagged DEF New
<1>2. CASE Set
  <2>1. Flagged(ep)
    BY <1>2 DEF Set, Call, IInv
  <2>2. ASSUME NEW s \in Sequence PROVE Flagged(set_sequence(ep, s))
    BY Zenon, <2>1, Sequenced
  <2>3. ASSUME NEW on \in BOOLEAN
        PROVE  Flagged(set_main(ep, on)) /\ Flagged(set_clustered(ep, on)) /\ Flagged(set_signed(ep, on))
    BY <2>1, OtherFlag, Clustered DEF set_main, set_signed
  <2>4. QED
    BY <1>2, <2>1, <2>2, <2>3, Loaded DEF Set
<1>3. ASSUME NEW k \in Key, SignWith(k) PROVE Flagged(ep')
  BY <1>3, Authority DEF SignWith, Call, IInv
<1>4. ASSUME NEW id \in Sequence, sign_endponit_address(id) PROVE Flagged(ep')
  <2>1. Flagged(ep)
    BY Zenon, <1>4 DEF sign_endponit_address, Call, IInv
  <2>2. Flagged(set_sequence(set_main(ep, id = 0), id))
    BY Zenon, <2>1, OtherFlag, Sequenced DEF set_main
  <2>3. QED
    BY <1>4, <2>2, Authority DEF sign_endponit_address
<1>5. ASSUME NEW s \in Sequence, dns_endpoints_for_authority(s) PROVE Flagged(ep')
  <2>1. Flagged(ep)
    BY Zenon, <1>5 DEF dns_endpoints_for_authority, Call, IInv
  <2>2. QED
    BY Zenon, <1>5, <2>1, OtherFlag, Sequenced DEF dns_endpoints_for_authority, set_main
<1>6. CASE UNCHANGED epVars
  BY <1>6 DEF epVars, IInv
<1>7. QED
  BY <1>1, <1>2, <1>3, <1>4, <1>5, <1>6 DEF EpNext

(* Whatever is called on a record in whatever order, the fields it has are *)
(* announced by its flags, so that the reader expects every byte the       *)
(* writer adds (endpoint.rs:200-239, 303-327, 376-384).                    *)
THEOREM FieldsAreAlwaysFlagged == EpSpec => []FieldsAreFlagged
<1>1. EpInit => IInv
  BY DEF EpInit, IInv
<1>2. IInv => FieldsAreFlagged
  BY DEF IInv, Flagged, FieldsAreFlagged, IsV6
<1>3. QED
  BY <1>1, <1>2, StepInv, PTL DEF EpSpec

-----------------------------------------------------------------------------
(* What is signed determines the record. *)

LEMMA FlagsByteInjective ==
  ASSUME NEW f \in SUBSET Bits, NEW g \in SUBSET Bits, flags_byte(f) = flags_byte(g)
  PROVE  f = g
<1>1. ASSUME NEW b \in Bits PROVE b \in f <=> b \in g
  BY DEF Bits, flags_byte
<1>2. QED
  BY <1>1

LEMMA VarintBytes ==
  ASSUME NEW x \in Nat
  PROVE  put_varint(x) \in Seq(Nat) /\ Len(put_varint(x)) \in {1, 2, 4}
BY DEF put_varint

LEMMA VarintInjective ==
  ASSUME NEW x \in Nat, NEW y \in Nat, put_varint(x) = put_varint(y)
  PROVE  x = y
BY DEF put_varint

(* Two ways to cut a sequence at the same place are the same way. *)
LEMMA ConcatSplit ==
  ASSUME NEW S, NEW a \in Seq(S), NEW b \in Seq(S), NEW c \in Seq(S), NEW d \in Seq(S),
         Len(a) = Len(c), a \o b = c \o d
  PROVE  a = c /\ b = d
<1>1. /\ Len(a \o b) = Len(a) + Len(b) /\ Len(c \o d) = Len(c) + Len(d)
      /\ Len(a) \in Nat /\ Len(b) \in Nat /\ Len(c) \in Nat /\ Len(d) \in Nat
  BY ConcatProperties, LenProperties
<1>2. Len(b) = Len(d)
  BY <1>1
<1>3. \A i \in 1 .. Len(a) : a[i] = c[i]
  <2>1. \A i \in 1 .. Len(a) : (a \o b)[i] = a[i] /\ (c \o d)[i] = c[i]
    OBVIOUS
  <2>2. QED
    BY <2>1
<1>4. ASSUME NEW i \in 1 .. Len(b) PROVE b[i] = d[i]
  <2>1. Len(a) + i \in 1 .. Len(a) + Len(b) /\ Len(a) + i > Len(a) /\ Len(a) + i - Len(a) = i
    BY <1>1
  <2>2. (a \o b)[Len(a) + i] = b[i]
    BY <2>1, ConcatProperties
  <2>3. (c \o d)[Len(a) + i] = d[i]
    BY <1>2, <2>1, ConcatProperties
  <2>4. QED
    BY <2>2, <2>3
<1>5. a = c
  BY <1>3, SeqEqual
<1>6. b = d
  BY <1>2, <1>4, SeqEqual
<1>7. QED
  BY <1>5, <1>6

(* Concatenation, kept from the provers where only its laws are needed. *)
Cat(a, b) == a \o b

LEMMA CatLaws ==
  ASSUME NEW a \in Seq(Nat), NEW b \in Seq(Nat)
  PROVE  /\ Cat(a, b) \in Seq(Nat)
         /\ Len(Cat(a, b)) = Len(a) + Len(b) /\ Len(a) \in Nat /\ Len(b) \in Nat
BY DEF Cat

LEMMA CatAssociative ==
  ASSUME NEW a \in Seq(Nat), NEW b \in Seq(Nat), NEW c \in Seq(Nat)
  PROVE  Cat(Cat(a, b), c) = Cat(a, Cat(b, c))
BY DEF Cat

LEMMA CatSplit ==
  ASSUME NEW a \in Seq(Nat), NEW b \in Seq(Nat), NEW c \in Seq(Nat), NEW d \in Seq(Nat),
         Len(a) = Len(c), Cat(a, b) = Cat(c, d)
  PROVE  a = c /\ b = d
BY Zenon, ConcatSplit DEF Cat

SequenceBytes(e) == Opt(e.sequence, put_varint(e.sequence))
AgentBytes(e) == Opt(e.agent, e.agent)
LoadBytes(e) == Opt(e.load, e.load)
Addresses(e) == Cat(e.primary, Cat(AgentBytes(e), LoadBytes(e)))

LEMMA BytesOfFields ==
  ASSUME NEW e, Flagged(e)
  PROVE  /\ <<flags_byte(e.flags)>> \in Seq(Nat)
         /\ SequenceBytes(e) \in Seq(Nat) /\ e.primary \in Seq(Nat)
         /\ AgentBytes(e) \in Seq(Nat) /\ LoadBytes(e) \in Seq(Nat)
         /\ Len(LoadBytes(e)) = IF LOAD \in e.flags THEN 4 ELSE 0
         /\ e.sequence = None => Len(SequenceBytes(e)) = 0
         /\ e.sequence # None => Len(SequenceBytes(e)) # 0
         /\ write_base(e) = Cat(<<flags_byte(e.flags)>>, Cat(SequenceBytes(e), Addresses(e)))
<1>1. <<flags_byte(e.flags)>> \in Seq(Nat)
  BY DEF flags_byte
<1>2. ASSUME NEW s \in Seq(Byte) PROVE s \in Seq(Nat)
  <2>1. Byte \subseteq Nat
    BY DEF Byte
  <2>2. QED
    BY Zenon, <2>1, SeqMonotonic
<1>3. \A a \in V4 \cup V6 \cup Load : a \in Seq(Nat) /\ a # None
  BY <1>2, EndpointAssumption, Zenon
<1>4. \A l \in Load : Len(l) = 4
  BY EndpointAssumption, Zenon
<1>5. /\ SequenceBytes(e) \in Seq(Nat)
      /\ e.sequence = None => Len(SequenceBytes(e)) = 0
      /\ e.sequence # None => Len(SequenceBytes(e)) # 0
  <2>1. CASE e.sequence = None
    BY <2>1 DEF SequenceBytes, Opt
  <2>2. CASE e.sequence # None
    <3>1. e.sequence \in Nat /\ SequenceBytes(e) = put_varint(e.sequence)
      BY Zenon, <2>2, SequenceIs DEF SequenceBytes, Opt, Flagged, Shape
    <3>2. SequenceBytes(e) \in Seq(Nat) /\ Len(SequenceBytes(e)) \in {1, 2, 4}
      BY <3>1, VarintBytes, Zenon
    <3>3. QED
      BY <2>2, <3>2
  <2>3. QED
    BY <2>1, <2>2
<1>6. e.primary \in Seq(Nat) /\ AgentBytes(e) \in Seq(Nat)
  BY <1>3 DEF AgentBytes, Opt, Flagged, Shape
<1>7. LoadBytes(e) \in Seq(Nat) /\ Len(LoadBytes(e)) = IF LOAD \in e.flags THEN 4 ELSE 0
  <2>1. CASE e.load = None
    BY <2>1 DEF LoadBytes, Opt, Flagged
  <2>2. CASE e.load # None
    <3>1. e.load \in Load /\ LoadBytes(e) = e.load /\ LOAD \in e.flags
      BY <2>2 DEF LoadBytes, Opt, Flagged, Shape
    <3>2. QED
      BY <1>3, <1>4, <3>1
  <2>3. QED
    BY <2>1, <2>2
<1>8. ASSUME NEW x \in Seq(Nat), NEW s \in Seq(Nat), NEW p \in Seq(Nat), NEW a \in Seq(Nat),
             NEW l \in Seq(Nat)
      PROVE  Cat(Cat(Cat(Cat(x, s), p), a), l) = Cat(x, Cat(s, Cat(p, Cat(a, l))))
  <2>1. Cat(x, s) \in Seq(Nat) /\ Cat(a, l) \in Seq(Nat)
    BY CatLaws
  <2>2. Cat(Cat(x, s), p) \in Seq(Nat) /\ Cat(p, Cat(a, l)) \in Seq(Nat)
    BY <2>1, CatLaws
  <2>3. Cat(Cat(Cat(Cat(x, s), p), a), l) = Cat(Cat(Cat(x, s), p), Cat(a, l))
    BY <2>2, CatAssociative
  <2>4. Cat(Cat(Cat(x, s), p), Cat(a, l)) = Cat(Cat(x, s), Cat(p, Cat(a, l)))
    BY <2>1, CatAssociative
  <2>5. Cat(Cat(x, s), Cat(p, Cat(a, l))) = Cat(x, Cat(s, Cat(p, Cat(a, l))))
    BY <2>2, CatAssociative
  <2>6. QED
    BY <2>3, <2>4, <2>5
<1>9. write_base(e) = Cat(Cat(Cat(Cat(<<flags_byte(e.flags)>>, SequenceBytes(e)), e.primary),
                              AgentBytes(e)), LoadBytes(e))
  BY DEF write_base, SequenceBytes, AgentBytes, LoadBytes, Cat
<1>10. write_base(e) = Cat(<<flags_byte(e.flags)>>, Cat(SequenceBytes(e), Addresses(e)))
  <2>1. /\ <<flags_byte(e.flags)>> \in Seq(Nat) /\ SequenceBytes(e) \in Seq(Nat)
        /\ e.primary \in Seq(Nat) /\ AgentBytes(e) \in Seq(Nat) /\ LoadBytes(e) \in Seq(Nat)
    BY <1>1, <1>5, <1>6, <1>7
  <2>2. PICK x \in Seq(Nat), s \in Seq(Nat), p \in Seq(Nat), a \in Seq(Nat), l \in Seq(Nat) :
           /\ x = <<flags_byte(e.flags)>> /\ s = SequenceBytes(e) /\ p = e.primary
           /\ a = AgentBytes(e) /\ l = LoadBytes(e)
    BY Zenon, <2>1
  <2>3. Cat(Cat(Cat(Cat(x, s), p), a), l) = Cat(x, Cat(s, Cat(p, Cat(a, l))))
    BY <1>8
  <2>4. QED
    BY <1>9, <2>2, <2>3 DEF Addresses
<1>11. QED
  BY <1>1, <1>5, <1>6, <1>7, <1>10

LEMMA BaseIsBytes ==
  ASSUME NEW e, Flagged(e)
  PROVE  write_base(e) \in Seq(Nat)
<1>1. Addresses(e) \in Seq(Nat)
  <2>1. Cat(AgentBytes(e), LoadBytes(e)) \in Seq(Nat)
    BY Zenon, BytesOfFields, CatLaws
  <2>2. QED
    BY Zenon, <2>1, BytesOfFields, CatLaws DEF Addresses
<1>2. Cat(SequenceBytes(e), Addresses(e)) \in Seq(Nat)
  BY Zenon, <1>1, BytesOfFields, CatLaws
<1>3. QED
  BY Zenon, <1>2, BytesOfFields, CatLaws

(* Two records of the same addresses that are written alike are alike: the *)
(* flags tell whether there is a load, and the length then tells whether   *)
(* there is a sequence.                                                    *)
LEMMA BaseInjective ==
  ASSUME NEW e, NEW f, Flagged(e), Flagged(f), write_base(e) = write_base(f),
         e.primary = f.primary, e.agent = f.agent, e.signature = f.signature
  PROVE  e = f
<1>1. /\ e.primary \in Seq(Nat) /\ AgentBytes(e) \in Seq(Nat)
      /\ SequenceBytes(e) \in Seq(Nat) /\ SequenceBytes(f) \in Seq(Nat)
      /\ LoadBytes(e) \in Seq(Nat) /\ LoadBytes(f) \in Seq(Nat)
      /\ <<flags_byte(e.flags)>> \in Seq(Nat) /\ <<flags_byte(f.flags)>> \in Seq(Nat)
  BY Zenon, BytesOfFields
<1>2. AgentBytes(f) = AgentBytes(e)
  BY DEF AgentBytes
<1>3. /\ Cat(AgentBytes(e), LoadBytes(e)) \in Seq(Nat)
      /\ Cat(AgentBytes(e), LoadBytes(f)) \in Seq(Nat)
  BY <1>1, CatLaws
<1>4. Addresses(e) \in Seq(Nat) /\ Addresses(f) \in Seq(Nat)
  BY Zenon, <1>1, <1>2, <1>3, CatLaws DEF Addresses
<1>5. /\ Cat(SequenceBytes(e), Addresses(e)) \in Seq(Nat)
      /\ Cat(SequenceBytes(f), Addresses(f)) \in Seq(Nat)
  BY <1>1, <1>4, CatLaws
<1>6. /\ <<flags_byte(e.flags)>> = <<flags_byte(f.flags)>>
      /\ Cat(SequenceBytes(e), Addresses(e)) = Cat(SequenceBytes(f), Addresses(f))
  <2>1. Len(<<flags_byte(e.flags)>>) = Len(<<flags_byte(f.flags)>>)
    OBVIOUS
  <2>2. Cat(<<flags_byte(e.flags)>>, Cat(SequenceBytes(e), Addresses(e)))
        = Cat(<<flags_byte(f.flags)>>, Cat(SequenceBytes(f), Addresses(f)))
    BY BytesOfFields
  <2>3. QED
    BY Zenon, <1>1, <1>5, <2>1, <2>2, CatSplit
<1>7. e.flags = f.flags
  <2>1. flags_byte(e.flags) = flags_byte(f.flags)
    BY <1>6
  <2>2. QED
    BY <2>1, FlagsByteInjective DEF Flagged, Shape
<1>8. Len(Addresses(e)) = Len(Addresses(f)) /\ Len(Addresses(e)) \in Nat
  <2>1. Len(LoadBytes(e)) = Len(LoadBytes(f))
    BY Zenon, <1>7, BytesOfFields
  <2>2. Len(Cat(AgentBytes(e), LoadBytes(e))) = Len(Cat(AgentBytes(e), LoadBytes(f)))
    <3>1. /\ Len(Cat(AgentBytes(e), LoadBytes(e))) = Len(AgentBytes(e)) + Len(LoadBytes(e))
          /\ Len(Cat(AgentBytes(e), LoadBytes(f))) = Len(AgentBytes(e)) + Len(LoadBytes(f))
      BY <1>1, CatLaws
    <3>2. QED
      BY <2>1, <3>1
  <2>3. /\ Len(Addresses(e)) = Len(e.primary) + Len(Cat(AgentBytes(e), LoadBytes(e)))
        /\ Len(Addresses(f)) = Len(e.primary) + Len(Cat(AgentBytes(e), LoadBytes(f)))
    <3>1. Addresses(e) = Cat(e.primary, Cat(AgentBytes(e), LoadBytes(e)))
          /\ Addresses(f) = Cat(e.primary, Cat(AgentBytes(e), LoadBytes(f)))
      BY <1>2 DEF Addresses
    <3>2. QED
      BY Zenon, <1>1, <1>3, <3>1, CatLaws
  <2>4. Len(Addresses(e)) \in Nat
    BY <1>4, LenProperties
  <2>5. QED
    BY <2>2, <2>3, <2>4
<1>9. SequenceBytes(e) = SequenceBytes(f) /\ Addresses(e) = Addresses(f)
  <2>1. /\ Len(Cat(SequenceBytes(e), Addresses(e))) = Len(SequenceBytes(e)) + Len(Addresses(e))
        /\ Len(Cat(SequenceBytes(f), Addresses(f))) = Len(SequenceBytes(f)) + Len(Addresses(f))
        /\ Len(SequenceBytes(e)) \in Nat /\ Len(SequenceBytes(f)) \in Nat
    BY <1>1, <1>4, CatLaws
  <2>2. Len(SequenceBytes(e)) = Len(SequenceBytes(f))
    BY <1>6, <1>8, <2>1
  <2>3. QED
    BY <1>1, <1>4, <1>6, <2>2, CatSplit
<1>10. LoadBytes(e) = LoadBytes(f)
  <2>1. Cat(e.primary, Cat(AgentBytes(e), LoadBytes(e)))
        = Cat(e.primary, Cat(AgentBytes(e), LoadBytes(f)))
    BY <1>2, <1>9 DEF Addresses
  <2>2. Cat(AgentBytes(e), LoadBytes(e)) = Cat(AgentBytes(e), LoadBytes(f))
    BY <1>1, <1>3, <2>1, CatSplit
  <2>3. QED
    BY <1>1, <2>2, CatSplit
<1>11. e.sequence = f.sequence
  <2>1. CASE e.sequence = None
    BY Zenon, <1>9, <2>1, BytesOfFields
  <2>2. CASE e.sequence # None
    <3>1. f.sequence # None
      BY Zenon, <1>9, <2>2, BytesOfFields
    <3>2. /\ e.sequence \in Nat /\ f.sequence \in Nat
          /\ put_varint(e.sequence) = put_varint(f.sequence)
      BY Zenon, <1>9, <2>2, <3>1, SequenceIs DEF SequenceBytes, Opt, Flagged, Shape
    <3>3. QED
      BY <3>2, VarintInjective
  <2>3. QED
    BY <2>1, <2>2
<1>12. e.load = f.load
  BY <1>7, <1>10 DEF LoadBytes, Opt, Flagged, Shape
<1>13. QED
  BY <1>7, <1>11, <1>12 DEF Flagged, Shape

-----------------------------------------------------------------------------
(* The signature of a record is the last one made: [k, u] is who made it   *)
(* and of what.                                                            *)

Entry == [key : Key, scheme : Seq(Byte), data : Seq(Nat)]

MadeBy(k, u) ==
  /\ covered = [key |-> k, says |-> u]
  /\ Flagged(u) /\ u.signature = None
  /\ u.primary = ep.primary /\ u.agent = ep.agent
  /\ ep.signature = [scheme |-> Scheme[k], bytes |-> [j \in 1 .. SigLen |-> Len(signed)]]
  /\ signed[Len(signed)] = [key |-> k, scheme |-> Scheme[k], data |-> write_base(u)]

SigInv ==
  /\ IInv
  /\ signed \in Seq(Entry)
  /\ ep # None /\ ep.signature # None =>
       /\ signed # <<>>
       /\ \E k \in Key : \E u : MadeBy(k, u)

Kept(e, f) == f.signature = e.signature /\ f.primary = e.primary /\ f.agent = e.agent

LEMMA SettersKeep ==
  ASSUME NEW e, Flagged(e)
  PROVE  /\ \A on \in BOOLEAN : /\ Kept(e, set_main(e, on)) /\ Kept(e, set_signed(e, on))
                                /\ Kept(e, set_clustered(e, on))
         /\ \A s \in Sequence : Kept(e, set_sequence(e, s))
         /\ \A l \in Load \cup {None} : Kept(e, set_load(e, l))
<1>1. ASSUME NEW d, Shape(d), NEW f, NEW on \in BOOLEAN
      PROVE  Kept(d, set_flag(d, f, on)) /\ set_flag(d, f, on).load = d.load
  BY <1>1 DEF Kept, Shape, set_flag
<1>2. ASSUME NEW d, Shape(d), NEW on \in BOOLEAN PROVE Kept(d, set_clustered(d, on))
  BY <1>2 DEF Kept, Shape, set_flag, set_clustered
<1>3. ASSUME NEW s \in Sequence PROVE Kept(e, set_sequence(e, s))
  <2> DEFINE d == [e EXCEPT !.sequence = IF s > 0 THEN s ELSE None]
  <2>1. Shape(d) /\ Kept(e, d)
    BY DEF Flagged, Shape, Kept
  <2>2. Kept(d, set_clustered(d, s > 0))
    <3> HIDE DEF d
    <3>1. (s > 0) \in BOOLEAN
      OBVIOUS
    <3>2. QED
      BY ONLY <1>2, <2>1, <3>1, Zenon
  <2>3. QED
    BY <2>1, <2>2 DEF Kept, set_sequence
<1>4. ASSUME NEW l \in Load \cup {None} PROVE Kept(e, set_load(e, l))
  <2> DEFINE d == [e EXCEPT !.load = l]
  <2>1. Shape(d) /\ Kept(e, d)
    BY DEF Flagged, Shape, Kept
  <2>2. Kept(d, set_flag(d, LOAD, l # None))
    BY Zenon, <1>1, <2>1
  <2>3. QED
    <3>1. set_load(e, l) = set_flag(d, LOAD, l # None)
      BY Zenon DEF set_load
    <3>2. QED
      BY <2>1, <2>2, <3>1 DEF Kept
<1>5. QED
  BY <1>1, <1>2, <1>3, <1>4 DEF Flagged, set_main, set_signed

(* A step that leaves signature and addresses alone. *)
LEMMA KeptStep ==
  ASSUME SigInv, IInv', ep # None, Kept(ep, ep'), UNCHANGED <<signed, covered>>
  PROVE  SigInv'
BY Zenon DEF SigInv, MadeBy, Kept

(* What is signed is the record without its signature. *)
LEMMA UnsignedIsFlagged ==
  ASSUME NEW e, Flagged(e)
  PROVE  /\ Flagged(Unsigned(e)) /\ Unsigned(e).signature = None
         /\ Unsigned(e).primary = e.primary /\ Unsigned(e).agent = e.agent
         /\ Unsigned(set_signed(e, TRUE)) = Unsigned(e)
<1>1. Flagged(set_signed(e, TRUE)) /\ Kept(e, set_signed(e, TRUE))
  BY Zenon, OtherFlag, SettersKeep DEF set_signed
<1>2. Flagged(Unsigned(e))
  BY Zenon, <1>1, SignedIsFlagged DEF Unsigned
<1>3. Unsigned(e).signature = None /\ Unsigned(e).primary = e.primary /\ Unsigned(e).agent = e.agent
  BY Zenon, <1>1 DEF Unsigned, Kept, Flagged, Shape
<1>4. set_signed(set_signed(e, TRUE), TRUE) = set_signed(e, TRUE)
  BY Zenon DEF set_signed, set_flag, Flagged, Shape
<1>5. QED
  BY Zenon, <1>2, <1>3, <1>4 DEF Unsigned

LEMMA AuthorityStep ==
  ASSUME SigInv, ep # None, NEW e, Flagged(e), Kept(ep, e), NEW k \in Key,
         sign_with_authority(e, k)
  PROVE  SigInv'
<1>1. IInv'
  BY Authority DEF IInv
<1>2. CASE ep' = set_signed(e, TRUE) /\ UNCHANGED <<signed, covered>>
  BY Zenon, <1>1, <1>2, SettersKeep, KeptStep DEF Kept
<1>3. CASE /\ Scheme[k] # None
           /\ ep' = Sign(set_signed(e, TRUE), k)
           /\ signed' = Append(signed, [key |-> k, scheme |-> Scheme[k],
                                        data |-> signed_data(set_signed(e, TRUE))])
           /\ covered' = [key |-> k, says |-> Unsigned(e)]
  <2> DEFINE entry == [key |-> k, scheme |-> Scheme[k], data |-> write_base(Unsigned(e))]
  <2>1. signed' = Append(signed, entry)
    BY Zenon, <1>3, UnsignedIsFlagged DEF signed_data
  <2>2. entry \in Entry
    <3>1. Scheme[k] \in Seq(Byte)
      BY <1>3, EndpointAssumption
    <3>2. write_base(Unsigned(e)) \in Seq(Nat)
      BY Zenon, UnsignedIsFlagged, BaseIsBytes
    <3>3. QED
      BY <3>1, <3>2 DEF Entry
  <2> HIDE DEF entry
  <2>3. /\ signed' \in Seq(Entry) /\ signed' # <<>>
        /\ Len(signed') = Len(signed) + 1 /\ signed'[Len(signed')] = entry
    BY <2>1, <2>2 DEF SigInv
  <2>4. ep'.signature = [scheme |-> Scheme[k], bytes |-> [j \in 1 .. SigLen |-> Len(signed')]]
    <3>1. Shape(set_signed(e, TRUE))
      BY Zenon, OtherFlag DEF set_signed, Flagged
    <3>2. QED
      BY <1>3, <2>3, <3>1 DEF Sign, Shape
  <2>5. Unsigned(e).primary = ep'.primary /\ Unsigned(e).agent = ep'.agent
    <3>1. Shape(set_signed(e, TRUE)) /\ Kept(e, set_signed(e, TRUE))
      BY Zenon, OtherFlag, SettersKeep DEF set_signed, Flagged
    <3>2. QED
      BY Zenon, <1>3, <3>1, UnsignedIsFlagged DEF Sign, Shape, Kept
  <2>6. MadeBy(k, Unsigned(e))'
    BY Zenon, <1>3, <2>3, <2>4, <2>5, UnsignedIsFlagged DEF MadeBy, entry
  <2>7. QED
    BY <1>1, <2>3, <2>6 DEF SigInv
<1>4. QED
  BY Zenon, <1>2, <1>3 DEF sign_with_authority

LEMMA SigStep == SigInv /\ [EpNext]_epVars => SigInv'
<1> SUFFICES ASSUME SigInv, [EpNext]_epVars PROVE SigInv'
  OBVIOUS
<1>1. IInv'
  BY StepInv DEF SigInv
<1>2. ep # None => Flagged(ep)
  BY DEF SigInv, IInv
<1>3. Sequence \subseteq Nat
  BY EndpointAssumption
<1>4. CASE New
  <2>1. ep' # None => ep'.signature = None
    BY <1>4 DEF New, direct, nat, Addressed
  <2>2. QED
    BY <1>1, <1>4, <2>1 DEF New, SigInv
<1>5. CASE Set
  <2>1. ep # None /\ Flagged(ep) /\ UNCHANGED <<signed, covered>>
    BY <1>2, <1>5 DEF Set, Call
  <2>2. Kept(ep, ep')
    BY <1>3, <1>5, <2>1, SettersKeep DEF Set
  <2>3. QED
    BY <1>1, <2>1, <2>2, KeptStep
<1>6. ASSUME NEW k \in Key, SignWith(k) PROVE SigInv'
  <2>1. Kept(ep, ep)
    BY DEF Kept
  <2>2. QED
    BY <1>2, <1>6, <2>1, AuthorityStep DEF SignWith, Call
<1>7. ASSUME NEW id \in Sequence, NEW main \in BOOLEAN, ep # None
      PROVE  LET e == set_sequence(set_main(ep, main), id) IN Flagged(e) /\ Kept(ep, e)
  <2>1. Flagged(set_main(ep, main)) /\ Kept(ep, set_main(ep, main))
    BY <1>2, <1>7, OtherFlag, SettersKeep DEF set_main
  <2>2. QED
    BY <1>3, <2>1, Sequenced, SettersKeep DEF Kept
<1>8. ASSUME NEW id \in Sequence, sign_endponit_address(id) PROVE SigInv'
  <2> DEFINE e == set_sequence(set_main(ep, id = 0), id)
  <2>1. ep # None
    BY <1>8 DEF sign_endponit_address, Call
  <2>2. Flagged(e) /\ Kept(ep, e)
    BY Zenon, <1>7, <2>1
  <2>3. CASE \E k \in Key : sign_with_authority(e, k)
    <3> HIDE DEF e
    <3>1. QED
      BY <2>1, <2>2, <2>3, AuthorityStep
  <2>4. CASE ep' = e /\ UNCHANGED <<signed, covered>>
    <3> HIDE DEF e
    <3>1. QED
      BY <1>1, <2>1, <2>2, <2>4, KeptStep
  <2>5. QED
    BY <1>8, <2>3, <2>4 DEF sign_endponit_address
<1>9. ASSUME NEW s \in Sequence, dns_endpoints_for_authority(s) PROVE SigInv'
  <2>1. ep # None /\ ep' = set_sequence(set_main(ep, TRUE), s) /\ UNCHANGED <<signed, covered>>
    BY <1>9 DEF dns_endpoints_for_authority, Call
  <2>2. QED
    BY Zenon, <1>1, <1>7, <2>1, KeptStep
<1>10. CASE UNCHANGED epVars
  BY Zenon, <1>10 DEF epVars, SigInv, IInv, MadeBy
<1>11. QED
  BY <1>4, <1>5, <1>6, <1>8, <1>9, <1>10 DEF EpNext

LEMMA SigInvExact == SigInv => VerifyExact
<1> SUFFICES ASSUME SigInv, ep # None, NEW k \in Key
             PROVE  verify_signature(ep, k)
                    <=> ep.signature # None /\ covered = [key |-> k, says |-> Unsigned(ep)]
  BY Zenon DEF VerifyExact, verify_signature
<1>1. CASE ep.signature = None
  BY <1>1 DEF verify_signature
<1>2. CASE ep.signature # None
  <2> DEFINE n == Len(signed)
  <2>1. n \in Nat \ {0} /\ SigLen \in Nat \ {0}
    BY <1>2, EndpointAssumption DEF SigInv
  <2>2. PICK m \in Key : \E u : MadeBy(m, u)
    BY <1>2 DEF SigInv
  <2>3. PICK u : MadeBy(m, u)
    BY <2>2
  <2>4. /\ Flagged(Unsigned(ep)) /\ Unsigned(ep).signature = None
        /\ Unsigned(ep).primary = ep.primary /\ Unsigned(ep).agent = ep.agent
    BY Zenon, UnsignedIsFlagged DEF SigInv, IInv
  <2>5. /\ covered = [key |-> m, says |-> u]
        /\ ep.signature = [scheme |-> Scheme[m], bytes |-> [j \in 1 .. SigLen |-> n]]
        /\ signed[n] = [key |-> m, scheme |-> Scheme[m], data |-> write_base(u)]
    BY <2>3 DEF MadeBy
  <2>6. ASSUME verify_signature(ep, k) PROVE covered = [key |-> k, says |-> Unsigned(ep)]
    <3>1. PICK i \in 1 .. n :
            /\ ep.signature.bytes = [j \in 1 .. SigLen |-> i]
            /\ signed[i] = [key |-> k, scheme |-> ep.signature.scheme, data |-> signed_data(ep)]
      BY <2>6 DEF verify_signature
    <3>2. i = n
      <4>1. [j \in 1 .. SigLen |-> i] = [j \in 1 .. SigLen |-> n]
        BY <2>5, <3>1
      <4>2. [j \in 1 .. SigLen |-> i][1] = [j \in 1 .. SigLen |-> n][1] /\ 1 \in 1 .. SigLen
        BY <2>1, <4>1
      <4>3. QED
        BY <4>2
    <3>3. m = k /\ write_base(u) = write_base(Unsigned(ep))
      BY <2>5, <3>1, <3>2 DEF signed_data
    <3>4. u = Unsigned(ep)
      BY <2>3, <2>4, <3>3, BaseInjective DEF MadeBy
    <3>5. QED
      BY <2>5, <3>3, <3>4
  <2>7. ASSUME covered = [key |-> k, says |-> Unsigned(ep)] PROVE verify_signature(ep, k)
    <3>1. m = k /\ u = Unsigned(ep)
      BY <2>5, <2>7
    <3>2. n \in 1 .. Len(signed)
      BY <2>1
    <3>3. ep.signature.bytes = [j \in 1 .. SigLen |-> n] /\ ep.signature.scheme = Scheme[m]
      BY <2>5
    <3>4. signed[n] = [key |-> k, scheme |-> ep.signature.scheme, data |-> signed_data(ep)]
      BY <2>5, <3>1, <3>3 DEF signed_data
    <3>5. QED
      BY <1>2, <3>2, <3>3, <3>4 DEF verify_signature
  <2>8. QED
    BY <1>2, <2>6, <2>7
<1>3. QED
  BY <1>1, <1>2

(* A signature is valid for a key exactly as long as the record says what  *)
(* it said when that key signed it, whatever is called in between and      *)
(* however long the signatures are (endpoint.rs:241-255, 443-450).         *)
THEOREM SignaturesAreExact == EpSpec => []VerifyExact
<1>1. EpInit => SigInv
  BY DEF EpInit, SigInv, IInv
<1>2. QED
  BY <1>1, SigStep, SigInvExact, PTL DEF EpSpec

-----------------------------------------------------------------------------
(* Reading back what was written *)

(* w is what the input holds from a position on. *)
Found(in, at, w) ==
  /\ in \in Seq(Nat) /\ w \in Seq(Nat) /\ at \in Nat
  /\ at + Len(w) <= Len(in)
  /\ \A i \in 1 .. Len(w) : in[at + i] = w[i]

LEMMA FoundCat ==
  ASSUME NEW in, NEW at, NEW v \in Seq(Nat), NEW w \in Seq(Nat), Found(in, at, Cat(v, w))
  PROVE  Found(in, at, v) /\ Found(in, at + Len(v), w)
<1>1. PICK m \in Nat, n \in Nat : m = Len(v) /\ n = Len(w)
  OBVIOUS
<1>2. /\ Len(Cat(v, w)) = m + n
      /\ \A i \in 1 .. m : Cat(v, w)[i] = v[i]
      /\ \A i \in 1 .. n : Cat(v, w)[m + i] = w[i]
  BY <1>1 DEF Cat
<1>3. /\ at \in Nat /\ at + (m + n) <= Len(in) /\ in \in Seq(Nat) /\ Len(in) \in Nat
      /\ \A i \in 1 .. (m + n) : in[at + i] = Cat(v, w)[i]
  <2>1. PICK c : c = Cat(v, w)
    OBVIOUS
  <2>2. Found(in, at, c) /\ Len(c) = m + n
    BY Zenon, <1>2, <2>1
  <2>3. /\ at \in Nat /\ at + (m + n) <= Len(in) /\ in \in Seq(Nat)
        /\ \A i \in 1 .. (m + n) : in[at + i] = c[i]
    BY Zenon, <2>2 DEF Found
  <2>4. Len(in) \in Nat
    BY <2>3
  <2>5. QED
    BY Zenon, <2>1, <2>3, <2>4
<1>4. Found(in, at, v)
  <2>1. at + m <= Len(in)
    BY <1>3
  <2>2. \A i \in 1 .. m : i \in 1 .. (m + n)
    OBVIOUS
  <2>3. QED
    BY <1>1, <1>2, <1>3, <2>1, <2>2 DEF Found
<1>5. Found(in, at + m, w)
  <2>1. (at + m) + n <= Len(in) /\ at + m \in Nat
    BY <1>3
  <2>2. ASSUME NEW i \in 1 .. n PROVE in[(at + m) + i] = w[i]
    <3>1. m + i \in 1 .. (m + n) /\ at + (m + i) = (at + m) + i
      BY <1>3
    <3>2. QED
      BY <1>2, <1>3, <3>1
  <2>3. QED
    BY <1>1, <1>3, <2>1, <2>2 DEF Found
<1>6. QED
  BY <1>1, <1>4, <1>5

LEMMA TakeFound ==
  ASSUME NEW in, NEW at, NEW w, Found(in, at, w)
  PROVE  take(in, at, Len(w)) = Ok(at + Len(w), w)
<1>1. PICK n \in Nat : n = Len(w)
  BY DEF Found
<1>2. PICK u : u = SubSeq(in, at + 1, at + n)
  OBVIOUS
<1>3. /\ at \in Nat /\ at + n <= Len(in) /\ in \in Seq(Nat) /\ w \in Seq(Nat)
      /\ \A i \in 1 .. n : in[at + i] = w[i]
  BY <1>1 DEF Found
<1>4. u \in Seq(Nat) /\ Len(u) = n /\ \A i \in 1 .. n : u[i] = in[at + i]
  <2>1. \A i \in 1 .. n : (at + 1) + (i - 1) = at + i
    BY <1>3
  <2>2. u \in Seq(Nat) /\ Len(u) = (at + n) - (at + 1) + 1
    BY <1>2, <1>3, SMTT(30)
  <2>3. \A i \in 1 .. n : u[i] = in[at + i]
    BY <1>2, <1>3
  <2>4. QED
    BY <1>3, <2>2, <2>3
<1>5. u = w
  BY <1>1, <1>3, <1>4, SeqEqual
<1>6. QED
  BY <1>1, <1>2, <1>3, <1>5 DEF take

-----------------------------------------------------------------------------
(* Numbers of variable length *)

More(v, byte) == IF v >= Full THEN Huge ELSE v * 256 + byte

(* The value of up to eight bytes, byte by byte. *)
LEMMA NumberIs ==
  ASSUME NEW b \in Seq(Nat), NEW n \in 1 .. 8, Len(b) = n
  PROVE  \E g : /\ g[0] = 0 /\ number(b) = g[n]
                /\ \A i \in 1 .. n : g[i] = More(g[i - 1], b[i])
<1> DEFINE F(f) == f = [i \in 0 .. Len(b) |->
                          IF i = 0 THEN 0
                          ELSE IF f[i - 1] >= Full THEN Huge ELSE f[i - 1] * 256 + b[i]]
           g == CHOOSE f : F(f)
<1>1. number(b) = g[n]
  BY Zenon DEF number
<1>2. \E f : F(f)
  <2>1. PICK c1, c2, c3, c4 : /\ c1 = More(0, b[1]) /\ c2 = More(c1, b[2])
                              /\ c3 = More(c2, b[3]) /\ c4 = More(c3, b[4])
    BY Zenon
  <2>2. PICK c5, c6, c7, c8 : /\ c5 = More(c4, b[5]) /\ c6 = More(c5, b[6])
                              /\ c7 = More(c6, b[7]) /\ c8 = More(c7, b[8])
    BY Zenon
  <2>3. PICK c : c = <<c1, c2, c3, c4, c5, c6, c7, c8>>
    BY Zenon
  <2>4. /\ c[1] = More(0, b[1]) /\ c[2] = More(c[1], b[2]) /\ c[3] = More(c[2], b[3])
        /\ c[4] = More(c[3], b[4]) /\ c[5] = More(c[4], b[5]) /\ c[6] = More(c[5], b[6])
        /\ c[7] = More(c[6], b[7]) /\ c[8] = More(c[7], b[8])
    BY <2>1, <2>2, <2>3
  <2>5. PICK h : h = [i \in 0 .. n |-> IF i = 0 THEN 0 ELSE c[i]]
    BY Zenon
  <2>6. h[0] = 0 /\ \A i \in 1 .. n : h[i] = c[i]
    BY <2>5
  <2>7. ASSUME NEW i \in 1 .. n PROVE h[i] = More(h[i - 1], b[i])
    <3>1. i \in {1, 2, 3, 4, 5, 6, 7, 8} /\ (i > 1 => i - 1 \in 1 .. n)
      OBVIOUS
    <3>2. h[i - 1] = IF i = 1 THEN 0 ELSE c[i - 1]
      BY <2>6, <3>1
    <3>3. c[i] = More(IF i = 1 THEN 0 ELSE c[i - 1], b[i])
      <4>1. CASE i = 1
        BY <2>4, <4>1
      <4>2. CASE i = 2
        BY <2>4, <4>2
      <4>3. CASE i = 3
        BY <2>4, <4>3
      <4>4. CASE i = 4
        BY <2>4, <4>4
      <4>5. CASE i = 5
        BY <2>4, <4>5
      <4>6. CASE i = 6
        BY <2>4, <4>6
      <4>7. CASE i = 7
        BY <2>4, <4>7
      <4>8. CASE i = 8
        BY <2>4, <4>8
      <4>9. QED
        BY <3>1, <4>1, <4>2, <4>3, <4>4, <4>5, <4>6, <4>7, <4>8
    <3>4. QED
      BY <2>6, <3>2, <3>3
  <2>8. F(h)
    <3>1. \A i \in 0 .. n : h[i] = IF i = 0 THEN 0
                                 ELSE IF h[i - 1] >= Full THEN Huge ELSE h[i - 1] * 256 + b[i]
      BY <2>6, <2>7 DEF More
    <3>2. h = [i \in 0 .. n |-> h[i]]
      BY <2>5
    <3>3. PICK k : k = [i \in 0 .. n |-> IF i = 0 THEN 0
                                       ELSE IF h[i - 1] >= Full THEN Huge
                                       ELSE h[i - 1] * 256 + b[i]]
      BY Zenon
    <3>4. \A i \in 0 .. n : h[i] = k[i]
      BY Zenon, <3>1, <3>3
    <3>7. k = [i \in 0 .. n |-> k[i]]
      BY <3>3
    <3>8. [i \in 0 .. n |-> h[i]] = [i \in 0 .. n |-> k[i]]
      BY Zenon, <3>4
    <3>5. h = k
      BY Zenon, <3>2, <3>7, <3>8
    <3>6. QED
      BY Zenon, <3>3, <3>5
  <2>9. QED
    BY Zenon, <2>8
<1>3. F(g)
  BY Zenon, <1>2
<1> HIDE DEF g
<1>4. g[0] = 0 /\ \A i \in 1 .. n : g[i] = More(g[i - 1], b[i])
  <2>1. \A i \in 0 .. n : g[i] = IF i = 0 THEN 0 ELSE More(g[i - 1], b[i])
    BY Zenon, <1>3 DEF More
  <2>2. 0 \in 0 .. n /\ \A i \in 1 .. n : i \in 0 .. n /\ i # 0
    BY SMT
  <2>3. QED
    BY Zenon, <2>1, <2>2
<1>5. QED
  BY Zenon, <1>1, <1>4

(* A byte is a number below 256. *)
LEMMA ByteIs ==
  ASSUME NEW x
  PROVE  x \in Byte <=> x \in Nat /\ x < 256
<1>1. PICK m : m = 255
  BY Zenon
<1>2. Byte = 0 .. m
  BY Zenon, <1>1 DEF Byte
<1>3. QED
  BY SMT, <1>1, <1>2

LEMMA BytesAreNumbers ==
  ASSUME NEW b \in Seq(Byte)
  PROVE  b \in Seq(Nat)
BY ByteIs, SeqMonotonic

Shift(v, d) == v * 256 + d
Small(x) == x < 64

LEMMA MoreIs ==
  ASSUME NEW v, NEW d, ~ (v >= Full)
  PROVE  More(v, d) = Shift(v, d)
BY SMT DEF More, Shift

(* Three bytes, the first of them below 64, stay below the cap. *)
LEMMA BelowFull ==
  ASSUME NEW p \in Byte, Small(p)
  PROVE  /\ ~ (0 >= Full) /\ ~ (Shift(0, p) >= Full)
         /\ \A q \in Byte : /\ ~ (Shift(Shift(0, p), q) >= Full)
                            /\ \A r \in Byte : ~ (Shift(Shift(Shift(0, p), q), r) >= Full)
BY SMT, ByteIs DEF Full, Small, Shift

LEMMA NumberOf ==
  ASSUME NEW b \in Seq(Byte), Small(b[1])
  PROVE  /\ Len(b) = 1 => number(b) = Shift(0, b[1])
         /\ Len(b) = 2 => number(b) = Shift(Shift(0, b[1]), b[2])
         /\ Len(b) = 4 => number(b) = Shift(Shift(Shift(Shift(0, b[1]), b[2]), b[3]), b[4])
<1>1. b \in Seq(Nat)
  BY Zenon, BytesAreNumbers
<1>2. \A i \in 1 .. Len(b) : b[i] \in Byte
  OBVIOUS
<1>4. CASE Len(b) = 1
  <2>1. PICK g : g[0] = 0 /\ number(b) = g[1] /\ \A i \in 1 .. 1 : g[i] = More(g[i - 1], b[i])
    BY SMT, <1>1, <1>4, NumberIs
  <2>2. g[1] = More(0, b[1]) /\ b[1] \in Byte
    BY SMT, <1>2, <1>4, <2>1
  <2>3. ~ (0 >= Full)
    BY Zenon, <2>2, BelowFull
  <2>4. g[1] = Shift(0, b[1])
    BY Zenon, <2>2, <2>3, MoreIs
  <2>5. QED
    BY SMT, <1>4, <2>1, <2>4
<1>5. CASE Len(b) = 2
  <2>1. PICK g : g[0] = 0 /\ number(b) = g[2] /\ \A i \in 1 .. 2 : g[i] = More(g[i - 1], b[i])
    BY SMT, <1>1, <1>5, NumberIs
  <2>2. g[1] = More(0, b[1]) /\ g[2] = More(g[1], b[2]) /\ b[1] \in Byte
    BY SMT, <1>2, <1>5, <2>1
  <2>3. ~ (0 >= Full) /\ ~ (Shift(0, b[1]) >= Full)
    BY Zenon, <2>2, BelowFull
  <2>4. g[1] = Shift(0, b[1])
    BY Zenon, <2>2, <2>3, MoreIs
  <2>6. g[2] = Shift(Shift(0, b[1]), b[2])
    BY Zenon, <2>2, <2>3, <2>4, MoreIs
  <2>7. QED
    BY SMT, <1>5, <2>1, <2>6
<1>6. CASE Len(b) = 4
  <2>1. PICK g : g[0] = 0 /\ number(b) = g[4] /\ \A i \in 1 .. 4 : g[i] = More(g[i - 1], b[i])
    BY SMT, <1>1, <1>6, NumberIs
  <2>2. /\ g[1] = More(0, b[1]) /\ g[2] = More(g[1], b[2])
        /\ g[3] = More(g[2], b[3]) /\ g[4] = More(g[3], b[4])
    BY SMT, <2>1
  <2>3. b[1] \in Byte /\ b[2] \in Byte /\ b[3] \in Byte
    BY SMT, <1>2, <1>6
  <2>4. /\ ~ (0 >= Full) /\ ~ (Shift(0, b[1]) >= Full) /\ ~ (Shift(Shift(0, b[1]), b[2]) >= Full)
        /\ ~ (Shift(Shift(Shift(0, b[1]), b[2]), b[3]) >= Full)
    BY Zenon, <2>3, BelowFull
  <2>5. g[1] = Shift(0, b[1])
    BY Zenon, <2>2, <2>4, MoreIs
  <2>7. g[2] = Shift(Shift(0, b[1]), b[2])
    BY Zenon, <2>2, <2>4, <2>5, MoreIs
  <2>8. g[3] = Shift(Shift(Shift(0, b[1]), b[2]), b[3])
    BY Zenon, <2>2, <2>4, <2>7, MoreIs
  <2>9. g[4] = Shift(Shift(Shift(Shift(0, b[1]), b[2]), b[3]), b[4])
    BY Zenon, <2>2, <2>4, <2>8, MoreIs
  <2>10. QED
    BY SMT, <1>6, <2>1, <2>9
<1>7. QED
  BY Zenon, <1>4, <1>5, <1>6

(* The operators' numerals, for the steps that leave the operators closed. *)
Short(x) == x \in Nat /\ x < 64
Middling(x) == x \in Nat /\ x >= 64 /\ x < 16384
Long(x) == x \in Nat /\ x >= 16384 /\ x < 1073741824

LEMMA ShortParts ==
  ASSUME NEW x, Short(x)
  PROVE  /\ put_varint(x) = <<x>> /\ x \in Byte
         /\ x \div 64 = 0 /\ x % 64 = x /\ Small(x) /\ Shift(0, x) = x
<1>1. put_varint(x) = <<x>>
  BY SMT DEF put_varint, Short
<1>2. x \in Byte
  BY SMT, ByteIs DEF Short
<1>3. QED
  BY SMT, <1>1, <1>2 DEF Short, Small, Shift

LEMMA MiddlingParts ==
  ASSUME NEW x, Middling(x)
  PROVE  \E q, r : /\ put_varint(x) = <<64 + q, r>> /\ 64 + q \in Byte /\ r \in Byte
                   /\ q \in Byte /\ Small(q)
                   /\ (64 + q) \div 64 = 1 /\ (64 + q) % 64 = q
                   /\ Shift(Shift(0, q), r) = x
<1>1. PICK q, r : q = x \div 256 /\ r = x % 256
  BY Zenon
<1>2. x \in Nat /\ x = q * 256 + r
  BY SMT, <1>1 DEF Middling
<1>3. q \in Nat /\ q < 64 /\ r \in Nat /\ r < 256
  BY SMT, <1>1 DEF Middling
<1>4. put_varint(x) = <<64 + q, r>>
  BY SMT, <1>1 DEF put_varint, Middling
<1>5. (64 + q) \div 64 = 1 /\ (64 + q) % 64 = q
  BY SMT, <1>3
<1>6. Shift(Shift(0, q), r) = x
  BY SMT, <1>2, <1>3 DEF Shift
<1>7. 64 + q \in Byte /\ r \in Byte /\ q \in Byte /\ Small(q)
  BY SMT, <1>3, ByteIs DEF Small
<1>8. QED
  BY Zenon, <1>4, <1>5, <1>6, <1>7

LEMMA LongParts ==
  ASSUME NEW x, Long(x)
  PROVE  \E q, r, s, t : /\ put_varint(x) = <<128 + q, r, s, t>>
                         /\ 128 + q \in Byte /\ r \in Byte /\ s \in Byte /\ t \in Byte
                         /\ q \in Byte /\ Small(q)
                         /\ (128 + q) \div 64 = 2 /\ (128 + q) % 64 = q
                         /\ Shift(Shift(Shift(Shift(0, q), r), s), t) = x
<1>1. PICK q1, t : q1 = x \div 256 /\ t = x % 256
  BY Zenon
<1>2. PICK q2, s : q2 = q1 \div 256 /\ s = q1 % 256
  BY Zenon
<1>3. PICK q, r : q = q2 \div 256 /\ r = q2 % 256
  BY Zenon
<1>4. x \in Nat /\ q1 \in Nat /\ t \in Nat /\ t < 256 /\ x = q1 * 256 + t
  BY SMT, <1>1 DEF Long
<1>5. q2 \in Nat /\ s \in Nat /\ s < 256 /\ q1 = q2 * 256 + s
  BY SMT, <1>2, <1>4
<1>6. q \in Nat /\ r \in Nat /\ r < 256 /\ q2 = q * 256 + r
  BY SMT, <1>3, <1>5
<1>7. x \div 65536 = q2
  BY SMT, <1>1, <1>2, <1>4, <1>5
<1>8. x \div 16777216 = q
  BY SMT, <1>1, <1>2, <1>3, <1>4, <1>5, <1>6
<1>9. q < 64
  BY SMT, <1>4, <1>8 DEF Long
<1>10. put_varint(x) = <<128 + q, r, s, t>>
  <2>1. ~ (x < 2 ^ 6) /\ ~ (x < 2 ^ 14)
    BY SMT DEF Long
  <2>2. x \div 2 ^ 24 = q /\ (x \div 2 ^ 16) % 256 = r
    BY SMT, <1>3, <1>7, <1>8
  <2>3. QED
    BY SMT, <1>1, <1>2, <2>1, <2>2 DEF put_varint
<1>11. (128 + q) \div 64 = 2 /\ (128 + q) % 64 = q
  BY SMT, <1>6, <1>9
<1>12. Shift(Shift(Shift(Shift(0, q), r), s), t) = x
  BY SMT, <1>4, <1>5, <1>6 DEF Shift
<1>13. 128 + q \in Byte /\ r \in Byte /\ s \in Byte /\ t \in Byte /\ q \in Byte /\ Small(q)
  BY SMT, <1>4, <1>5, <1>6, <1>9, ByteIs DEF Small
<1>14. QED
  BY Zenon, <1>10, <1>11, <1>12, <1>13

Cleared(w) == [w EXCEPT ![1] = @ % 64]
Width(w) == 2 ^ (w[1] \div 64)
VarintBody(in, at, first) ==
  Then(take(in, at, Width(first)), LAMBDA b, bytes : Ok(b, number(Cleared(bytes))))
Fits(x) == x \in Nat /\ x < 2 ^ 30

(* What put_varint writes starts with its length and holds the number. *)
LEMMA VarintParts ==
  ASSUME NEW x, Fits(x), NEW w, w = put_varint(x)
  PROVE  /\ w \in Seq(Byte) /\ Len(w) \in 1 .. 4
         /\ 2 ^ (w[1] \div 64) = Len(w)
         /\ number(Cleared(w)) = x
<1>1. Short(x) \/ Middling(x) \/ Long(x)
  BY SMT DEF Fits, Short, Middling, Long
<1>2. CASE Short(x)
  <2>1. w = <<x>> /\ x \in Byte /\ x \div 64 = 0 /\ x % 64 = x /\ Small(x) /\ Shift(0, x) = x
    BY Zenon, <1>2, ShortParts
  <2>2. PICK b : b = <<x>>
    BY Zenon
  <2>3. Cleared(w) = b
    BY SMT, <2>1, <2>2 DEF Cleared
  <2>4. b \in Seq(Byte) /\ Len(b) = 1 /\ b[1] = x
    BY SMT, <2>1, <2>2
  <2>5. number(b) = Shift(0, x)
    BY Zenon, <2>1, <2>4, NumberOf
  <2>6. w \in Seq(Byte) /\ Len(w) = 1 /\ w[1] \div 64 = 0
    BY SMT, <2>1
  <2>7. 2 ^ 0 = 1 /\ 1 \in 1 .. 4
    BY SMT
  <2>8. QED
    BY Zenon, <2>1, <2>3, <2>5, <2>6, <2>7
<1>3. CASE Middling(x)
  <2>1. PICK q, r : /\ w = <<64 + q, r>> /\ 64 + q \in Byte /\ r \in Byte
                    /\ q \in Byte /\ Small(q)
                    /\ (64 + q) \div 64 = 1 /\ (64 + q) % 64 = q
                    /\ Shift(Shift(0, q), r) = x
    BY SMT, <1>3, MiddlingParts
  <2>2. PICK b : b = <<q, r>>
    BY Zenon
  <2>3. Cleared(w) = b
    BY SMT, <2>1, <2>2 DEF Cleared
  <2>4. b \in Seq(Byte) /\ Len(b) = 2 /\ b[1] = q /\ b[2] = r
    BY SMT, <2>1, <2>2
  <2>5. number(b) = Shift(Shift(0, q), r)
    BY Zenon, <2>1, <2>4, NumberOf
  <2>6. w \in Seq(Byte) /\ Len(w) = 2 /\ w[1] \div 64 = 1
    BY SMT, <2>1
  <2>7. 2 ^ 1 = 2 /\ 2 \in 1 .. 4
    BY SMT
  <2>8. QED
    BY Zenon, <2>1, <2>3, <2>5, <2>6, <2>7
<1>4. CASE Long(x)
  <2>1. PICK q, r, s, t : /\ w = <<128 + q, r, s, t>>
                          /\ 128 + q \in Byte /\ r \in Byte /\ s \in Byte /\ t \in Byte
                          /\ q \in Byte /\ Small(q)
                          /\ (128 + q) \div 64 = 2 /\ (128 + q) % 64 = q
                          /\ Shift(Shift(Shift(Shift(0, q), r), s), t) = x
    BY SMT, <1>4, LongParts
  <2>2. PICK b : b = <<q, r, s, t>>
    BY Zenon
  <2>3. Cleared(w) = b
    BY SMT, <2>1, <2>2 DEF Cleared
  <2>4. b \in Seq(Byte) /\ Len(b) = 4 /\ b[1] = q /\ b[2] = r /\ b[3] = s /\ b[4] = t
    BY SMT, <2>1, <2>2
  <2>5. number(b) = Shift(Shift(Shift(Shift(0, q), r), s), t)
    BY Zenon, <2>1, <2>4, NumberOf
  <2>6. w \in Seq(Byte) /\ Len(w) = 4 /\ w[1] \div 64 = 2
    BY SMT, <2>1
  <2>7. 2 ^ 2 = 4 /\ 4 \in 1 .. 4
    BY SMT
  <2>8. QED
    BY Zenon, <2>1, <2>3, <2>5, <2>6, <2>7
<1>5. QED
  BY Zenon, <1>1, <1>2, <1>3, <1>4

(* be_varint reads back what put_varint wrote. *)
LEMMA VarintFound ==
  ASSUME NEW in, NEW at, NEW x, Fits(x), Found(in, at, put_varint(x))
  PROVE  be_varint(in, at) = Ok(at + Len(put_varint(x)), x)
<1>1. PICK w : w = put_varint(x)
  BY Zenon
<1>2. /\ w \in Seq(Byte) /\ Len(w) \in 1 .. 4
      /\ 2 ^ (w[1] \div 64) = Len(w) /\ number(Cleared(w)) = x
  BY Zenon, <1>1, VarintParts
<1>3. PICK u : u = <<w[1]>>
  BY Zenon
<1>4. u \in Seq(Nat) /\ Len(u) = 1 /\ u[1] = w[1] /\ w[1] \in Nat
  <2>1. w \in Seq(Nat)
    BY Zenon, <1>2, BytesAreNumbers
  <2>2. QED
    BY SMT, <1>2, <1>3, <2>1
<1>5. Found(in, at, u)
  <2>1. at \in Nat /\ in \in Seq(Nat) /\ at + 1 <= Len(in) /\ in[at + 1] = w[1]
    <3>1. 1 \in 1 .. Len(w) /\ Len(w) \in Nat
      BY SMT, <1>2
    <3>2. /\ at \in Nat /\ in \in Seq(Nat) /\ at + Len(w) <= Len(in)
          /\ \A i \in 1 .. Len(w) : in[at + i] = w[i]
      BY Zenon, <1>1 DEF Found
    <3>3. Len(in) \in Nat
      BY SMT, <3>2
    <3>4. in[at + 1] = w[1]
      BY Zenon, <3>1, <3>2
    <3>5. QED
      BY SMT, <3>1, <3>2, <3>3, <3>4
  <2>2. QED
    BY SMT, <1>4, <2>1 DEF Found
<1>6. take(in, at, 1) = Ok(at + 1, u)
  BY Zenon, <1>4, <1>5, TakeFound
<1>7. Width(u) = Len(w)
  BY Zenon, <1>2, <1>4 DEF Width
<1>8. take(in, at, Width(u)) = Ok(at + Len(w), w)
  BY Zenon, <1>1, <1>7, TakeFound
<1>9. be_varint(in, at) = Then(take(in, at, 1), LAMBDA a, first : VarintBody(in, at, first))
  BY DEF be_varint, VarintBody, Cleared, Width
<1>10. be_varint(in, at) = VarintBody(in, at, u)
  <2>1. PICK k : k = take(in, at, 1)
    BY Zenon
  <2>2. k.res = "ok" /\ k.val = u
    BY SMT, <1>6, <2>1 DEF Ok
  <2>3. be_varint(in, at) = IF k.res = "ok" THEN VarintBody(in, at, k.val) ELSE k
    BY Zenon, <1>9, <2>1 DEF Then
  <2>4. QED
    BY Zenon, <2>2, <2>3
<1>11. be_varint(in, at) = Ok(at + Len(w), number(Cleared(w)))
  <2>1. PICK k : k = take(in, at, Width(u))
    BY Zenon
  <2>2. k.res = "ok" /\ k.val = w /\ k.at = at + Len(w)
    BY SMT, <1>8, <2>1 DEF Ok
  <2>3. VarintBody(in, at, u) = IF k.res = "ok" THEN Ok(k.at, number(Cleared(k.val))) ELSE k
    BY Zenon, <2>1 DEF Then, VarintBody
  <2>4. QED
    BY Zenon, <1>10, <2>2, <2>3
<1>12. QED
  BY Zenon, <1>1, <1>2, <1>11

-----------------------------------------------------------------------------
(* Records *)

(* The steps of be_endpoint_addr, each from where the one before it ended. *)
Field(f, flags, a, r) == IF f \in flags THEN r ELSE Ok(a, None)
Size(flags) == IF FAMILY \in flags THEN 18 ELSE 6
Made(flags, sequence, primary, agent, load, signature) ==
  [flags |-> flags, sequence |-> sequence, load |-> load,
   signature |-> signature, primary |-> primary, agent |-> agent]
FromSignature(in, flags, sequence, primary, agent, load, a) ==
  Then(be_endpoint_signature(in, a, flags), LAMBDA b, signature :
    Ok(b, Made(flags, sequence, primary, agent, load, signature)))
FromLoad(in, flags, sequence, primary, agent, a) ==
  Then(Field(LOAD, flags, a, take(in, a, 4)), LAMBDA b, load :
    FromSignature(in, flags, sequence, primary, agent, load, b))
FromAgent(in, flags, sequence, primary, a) ==
  Then(Field(NAT, flags, a, take(in, a, Size(flags))), LAMBDA b, agent :
    FromLoad(in, flags, sequence, primary, agent, b))
FromPrimary(in, flags, sequence, a) ==
  Then(take(in, a, Size(flags)), LAMBDA b, primary : FromAgent(in, flags, sequence, primary, b))
FromSequence(in, flags, a) ==
  Then(Field(CLUSTERED, flags, a, be_sequence(in, a)), LAMBDA b, sequence :
    FromPrimary(in, flags, sequence, b))

LEMMA Staged ==
  ASSUME NEW in, NEW at
  PROVE  be_endpoint_addr(in, at)
         = Then(take(in, at, 1), LAMBDA a, byte : FromSequence(in, flags_of(byte[1]), a))
BY DEF be_endpoint_addr, FromSequence, FromPrimary, FromAgent, FromLoad, FromSignature,
       Made, Field, Size

(* The stages when what they read is there. *)
Read(in, at, fs, s, p, g, l, sig, b1, a0, a1, a2, a3, a4, a5) ==
  /\ take(in, at, 1) = Ok(a0, b1) /\ flags_of(b1[1]) = fs
  /\ Field(CLUSTERED, fs, a0, be_sequence(in, a0)) = Ok(a1, s)
  /\ take(in, a1, Size(fs)) = Ok(a2, p)
  /\ Field(NAT, fs, a2, take(in, a2, Size(fs))) = Ok(a3, g)
  /\ Field(LOAD, fs, a3, take(in, a3, 4)) = Ok(a4, l)
  /\ be_endpoint_signature(in, a4, fs) = Ok(a5, sig)

LEMMA Stages ==
  ASSUME NEW in, NEW at, NEW fs, NEW s, NEW p, NEW g, NEW l, NEW sig,
         NEW b1, NEW a0, NEW a1, NEW a2, NEW a3, NEW a4, NEW a5,
         Read(in, at, fs, s, p, g, l, sig, b1, a0, a1, a2, a3, a4, a5)
  PROVE  be_endpoint_addr(in, at) = Ok(a5, Made(fs, s, p, g, l, sig))
<1>1. FromSignature(in, fs, s, p, g, l, a4) = Ok(a5, Made(fs, s, p, g, l, sig))
  <2>1. PICK k : k = be_endpoint_signature(in, a4, fs) /\ k = Ok(a5, sig)
    BY Zenon DEF Read
  <2>2. k.res = "ok" /\ k.at = a5 /\ k.val = sig
    BY SMT, <2>1 DEF Ok
  <2>3. QED
    BY Zenon, <2>1, <2>2 DEF FromSignature, Then
<1>2. FromLoad(in, fs, s, p, g, a3) = FromSignature(in, fs, s, p, g, l, a4)
  <2>1. PICK k : k = Field(LOAD, fs, a3, take(in, a3, 4)) /\ k = Ok(a4, l)
    BY Zenon DEF Read
  <2>2. k.res = "ok" /\ k.at = a4 /\ k.val = l
    BY SMT, <2>1 DEF Ok
  <2>3. QED
    BY Zenon, <2>1, <2>2 DEF FromLoad, Then
<1>3. FromAgent(in, fs, s, p, a2) = FromLoad(in, fs, s, p, g, a3)
  <2>1. PICK k : k = Field(NAT, fs, a2, take(in, a2, Size(fs))) /\ k = Ok(a3, g)
    BY Zenon DEF Read
  <2>2. k.res = "ok" /\ k.at = a3 /\ k.val = g
    BY SMT, <2>1 DEF Ok
  <2>3. QED
    BY Zenon, <2>1, <2>2 DEF FromAgent, Then
<1>4. FromPrimary(in, fs, s, a1) = FromAgent(in, fs, s, p, a2)
  <2>1. PICK k : k = take(in, a1, Size(fs)) /\ k = Ok(a2, p)
    BY Zenon DEF Read
  <2>2. k.res = "ok" /\ k.at = a2 /\ k.val = p
    BY SMT, <2>1 DEF Ok
  <2>3. QED
    BY Zenon, <2>1, <2>2 DEF FromPrimary, Then
<1>5. FromSequence(in, fs, a0) = FromPrimary(in, fs, s, a1)
  <2>1. PICK k : k = Field(CLUSTERED, fs, a0, be_sequence(in, a0)) /\ k = Ok(a1, s)
    BY Zenon DEF Read
  <2>2. k.res = "ok" /\ k.at = a1 /\ k.val = s
    BY SMT, <2>1 DEF Ok
  <2>3. QED
    BY Zenon, <2>1, <2>2 DEF FromSequence, Then
<1>6. be_endpoint_addr(in, at) = FromSequence(in, fs, a0)
  <2>1. PICK k : k = take(in, at, 1) /\ k = Ok(a0, b1)
    BY Zenon DEF Read
  <2>2. k.res = "ok" /\ k.at = a0 /\ k.val = b1
    BY SMT, <2>1 DEF Ok
  <2>3. be_endpoint_addr(in, at) = IF k.res = "ok" THEN FromSequence(in, flags_of(k.val[1]), k.at) ELSE k
    BY Zenon, <2>1, Staged DEF Then
  <2>4. QED
    BY Zenon, <2>2, <2>3 DEF Read
<1>7. QED
  BY Zenon, <1>1, <1>2, <1>3, <1>4, <1>5, <1>6

(* The flags are the bits of their byte. *)
LEMMA FlagsReadBack ==
  ASSUME NEW fs \in SUBSET Bits
  PROVE  flags_byte(fs) \in Nat /\ flags_of(flags_byte(fs)) = fs
<1>1. PICK a \in {0, 1}, b \in {0, 1}, c \in {0, 1}, d \in {0, 1},
           e \in {0, 1}, f \in {0, 1}, g \in {0, 1}, h \in {0, 1} :
        /\ (128 \in fs <=> a = 1) /\ (64 \in fs <=> b = 1)
        /\ (32 \in fs <=> c = 1) /\ (16 \in fs <=> d = 1)
        /\ (8 \in fs <=> e = 1) /\ (4 \in fs <=> f = 1)
        /\ (2 \in fs <=> g = 1) /\ (1 \in fs <=> h = 1)
  OBVIOUS
<1>2. PICK v : v = 128 * a + 64 * b + 32 * c + 16 * d + 8 * e + 4 * f + 2 * g + h
  BY Zenon
<1>3. flags_byte(fs) = v
  BY SMT, <1>1, <1>2 DEF flags_byte
<1>4. v \in Nat
  BY SMT, <1>2
<1>5. (v \div 128) % 2 = a /\ (v \div 64) % 2 = b
  BY SMT, <1>2
<1>6. (v \div 32) % 2 = c /\ (v \div 16) % 2 = d
  BY SMT, <1>2
<1>7. (v \div 8) % 2 = e /\ (v \div 4) % 2 = f
  BY SMT, <1>2
<1>8. (v \div 2) % 2 = g /\ (v \div 1) % 2 = h
  BY SMT, <1>2
<1>9. \A x \in Bits : (v \div x) % 2 = 1 <=> x \in fs
  BY SMT, <1>1, <1>5, <1>6, <1>7, <1>8 DEF Bits
<1>10. QED
  BY Zenon, <1>3, <1>4, <1>9 DEF flags_of

Signature(x) ==
  /\ x = [scheme |-> x.scheme, bytes |-> x.bytes]
  /\ x.scheme \in Seq(Nat) /\ Len(x.scheme) = 2
  /\ x.bytes \in Seq(Nat) /\ Fits(Len(x.bytes))

(* What a reader can return: every field is there exactly if its flag is. *)
WellFormed(e) ==
  /\ e = Made(e.flags, e.sequence, e.primary, e.agent, e.load, e.signature)
  /\ e.flags \in SUBSET Bits
  /\ IF CLUSTERED \in e.flags THEN e.sequence \in Nat /\ e.sequence <= MaxSequence
     ELSE e.sequence = None
  /\ e.primary \in Seq(Nat) /\ Len(e.primary) = Size(e.flags)
  /\ IF NAT \in e.flags THEN e.agent \in Seq(Nat) /\ Len(e.agent) = Size(e.flags)
     ELSE e.agent = None
  /\ IF LOAD \in e.flags THEN e.load \in Seq(Nat) /\ Len(e.load) = 4 ELSE e.load = None
  /\ IF SIGNED \in e.flags THEN Signature(e.signature) ELSE e.signature = None

SignatureBytes(e) ==
  IF Carried(e)
  THEN Cat(Cat(e.signature.scheme, put_varint(Len(e.signature.bytes))), e.signature.bytes)
  ELSE <<>>

LEMMA NoneIsNone ==
  /\ None \notin Nat /\ None \notin Seq(Nat)
  /\ \A x : Signature(x) => x # None
<1>1. None \notin Nat /\ None \notin Seq(Nat) /\ None \notin [scheme : Seq(Nat), bytes : Seq(Nat)]
  BY Zenon, EndpointAssumption
<1>2. ASSUME NEW x, Signature(x) PROVE x \in [scheme : Seq(Nat), bytes : Seq(Nat)]
  BY SMT, <1>2 DEF Signature
<1>3. QED
  BY Zenon, <1>1, <1>2

LEMMA FitsSequence ==
  ASSUME NEW x \in Nat, x <= MaxSequence
  PROVE  Fits(x)
<1>1. MaxSequence \in Nat /\ MaxSequence < 2 ^ 30
  BY Zenon, EndpointAssumption
<1>2. QED
  BY SMT, <1>1 DEF Fits

LEMMA VarintIsNumbers ==
  ASSUME NEW x, Fits(x)
  PROVE  put_varint(x) \in Seq(Nat)
BY Zenon, VarintParts, BytesAreNumbers

(* The bytes of a record, field by field. *)
LEMMA PartsAreBytes ==
  ASSUME NEW e, WellFormed(e)
  PROVE  /\ <<flags_byte(e.flags)>> \in Seq(Nat)
         /\ SequenceBytes(e) \in Seq(Nat) /\ e.primary \in Seq(Nat)
         /\ AgentBytes(e) \in Seq(Nat) /\ LoadBytes(e) \in Seq(Nat)
         /\ SignatureBytes(e) \in Seq(Nat)
<1>0. <<>> \in Seq(Nat)
  OBVIOUS
<1>1. <<flags_byte(e.flags)>> \in Seq(Nat)
  <2>1. flags_byte(e.flags) \in Nat
    BY Zenon, FlagsReadBack DEF WellFormed
  <2>2. QED
    BY SMT, <2>1
<1>2. SequenceBytes(e) \in Seq(Nat)
  BY Zenon, <1>0, FitsSequence, VarintIsNumbers DEF WellFormed, SequenceBytes, Opt
<1>3. AgentBytes(e) \in Seq(Nat) /\ LoadBytes(e) \in Seq(Nat) /\ e.primary \in Seq(Nat)
  BY Zenon, <1>0 DEF WellFormed, AgentBytes, LoadBytes, Opt
<1>4. SignatureBytes(e) \in Seq(Nat)
  <2>1. CASE ~ Carried(e)
    BY Zenon, <1>0, <2>1 DEF SignatureBytes
  <2>2. CASE Carried(e)
    <3>1. Signature(e.signature)
      BY Zenon, <2>2 DEF Carried, WellFormed
    <3>2. /\ e.signature.scheme \in Seq(Nat) /\ e.signature.bytes \in Seq(Nat)
          /\ put_varint(Len(e.signature.bytes)) \in Seq(Nat)
      BY Zenon, <3>1, VarintIsNumbers DEF Signature
    <3>3. Cat(e.signature.scheme, put_varint(Len(e.signature.bytes))) \in Seq(Nat)
      BY Zenon, <3>2, CatLaws
    <3>4. QED
      BY Zenon, <2>2, <3>2, <3>3, CatLaws DEF SignatureBytes
  <2>3. QED
    BY Zenon, <2>1, <2>2
<1>5. QED
  BY Zenon, <1>1, <1>2, <1>3, <1>4

Parted(in, at, v, w, c) ==
  /\ Found(in, at, v) /\ Found(in, at + Len(v), w)
  /\ at + Len(c) = (at + Len(v)) + Len(w)

LEMMA FoundParts ==
  ASSUME NEW in, NEW at, NEW v, NEW w, NEW c, v \in Seq(Nat), w \in Seq(Nat),
         c = Cat(v, w), Found(in, at, c)
  PROVE  Parted(in, at, v, w, c)
<1>1. at \in Nat
  BY Zenon DEF Found
<1>2. Len(c) = Len(v) + Len(w) /\ Len(v) \in Nat /\ Len(w) \in Nat
  BY Zenon, CatLaws
<1>3. at + Len(c) = (at + Len(v)) + Len(w)
  BY SMT, <1>1, <1>2
<1>4. QED
  BY Zenon, <1>3, FoundCat DEF Parted

(* A record is found in its input as its fields, one after the other. *)
Laid(e, in, at, a0, a1, a2, a3, a4) ==
  /\ a0 = at + 1 /\ Found(in, at, <<flags_byte(e.flags)>>)
  /\ Found(in, a0, SequenceBytes(e)) /\ a1 = a0 + Len(SequenceBytes(e))
  /\ Found(in, a1, e.primary) /\ a2 = a1 + Len(e.primary)
  /\ Found(in, a2, AgentBytes(e)) /\ a3 = a2 + Len(AgentBytes(e))
  /\ Found(in, a3, LoadBytes(e)) /\ a4 = a3 + Len(LoadBytes(e))
  /\ Found(in, a4, SignatureBytes(e))
  /\ at + Len(put_endpoint_addr(e)) = a4 + Len(SignatureBytes(e))

LEMMA FieldsFound ==
  ASSUME NEW e, WellFormed(e), NEW in, NEW at, Found(in, at, put_endpoint_addr(e))
  PROVE  \E a0, a1, a2, a3, a4 : Laid(e, in, at, a0, a1, a2, a3, a4)
<1>1. PICK f, s, p, g, l, z : /\ f = <<flags_byte(e.flags)>> /\ s = SequenceBytes(e) /\ p = e.primary
                              /\ g = AgentBytes(e) /\ l = LoadBytes(e) /\ z = SignatureBytes(e)
  BY Zenon
<1>2. PICK c1, c2, c3, c4, c5 : /\ c1 = Cat(f, s) /\ c2 = Cat(c1, p) /\ c3 = Cat(c2, g)
                                /\ c4 = Cat(c3, l) /\ c5 = Cat(c4, z)
  BY Zenon
<1>3. f \in Seq(Nat) /\ s \in Seq(Nat) /\ p \in Seq(Nat) /\ g \in Seq(Nat) /\ l \in Seq(Nat) /\ z \in Seq(Nat)
  BY Zenon, <1>1, PartsAreBytes
<1>4. put_endpoint_addr(e) = c5
  BY Zenon, <1>1, <1>2 DEF put_endpoint_addr, write_base, Cat, SignatureBytes, SequenceBytes,
                          AgentBytes, LoadBytes
<1>5. c1 \in Seq(Nat)
  BY Zenon, <1>2, <1>3, CatLaws
<1>6. c2 \in Seq(Nat)
  BY Zenon, <1>2, <1>3, <1>5, CatLaws
<1>7. c3 \in Seq(Nat)
  BY Zenon, <1>2, <1>3, <1>6, CatLaws
<1>8. c4 \in Seq(Nat)
  BY Zenon, <1>2, <1>3, <1>7, CatLaws
<1>9. Found(in, at, c4) /\ Found(in, at + Len(c4), z) /\ at + Len(c5) = (at + Len(c4)) + Len(z)
  <2>1. Found(in, at, c5)
    BY Zenon, <1>4
  <2>2. Parted(in, at, c4, z, c5)
    BY Zenon, <1>2, <1>3, <1>8, <2>1, FoundParts
  <2>3. QED
    BY Zenon, <2>2 DEF Parted
<1>10. Found(in, at, c3) /\ Found(in, at + Len(c3), l) /\ at + Len(c4) = (at + Len(c3)) + Len(l)
  <2>1. Found(in, at, c4)
    BY Zenon, <1>9
  <2>2. Parted(in, at, c3, l, c4)
    BY Zenon, <1>2, <1>3, <1>7, <2>1, FoundParts
  <2>3. QED
    BY Zenon, <2>2 DEF Parted
<1>11. Found(in, at, c2) /\ Found(in, at + Len(c2), g) /\ at + Len(c3) = (at + Len(c2)) + Len(g)
  <2>1. Found(in, at, c3)
    BY Zenon, <1>10
  <2>2. Parted(in, at, c2, g, c3)
    BY Zenon, <1>2, <1>3, <1>6, <2>1, FoundParts
  <2>3. QED
    BY Zenon, <2>2 DEF Parted
<1>12. Found(in, at, c1) /\ Found(in, at + Len(c1), p) /\ at + Len(c2) = (at + Len(c1)) + Len(p)
  <2>1. Found(in, at, c2)
    BY Zenon, <1>11
  <2>2. Parted(in, at, c1, p, c2)
    BY Zenon, <1>2, <1>3, <1>5, <2>1, FoundParts
  <2>3. QED
    BY Zenon, <2>2 DEF Parted
<1>13. Found(in, at, f) /\ Found(in, at + Len(f), s) /\ at + Len(c1) = (at + Len(f)) + Len(s)
  <2>1. Found(in, at, c1)
    BY Zenon, <1>12
  <2>2. Parted(in, at, f, s, c1)
    BY Zenon, <1>2, <1>3, <2>1, FoundParts
  <2>3. QED
    BY Zenon, <2>2 DEF Parted
<1>14. Len(f) = 1
  BY SMT, <1>1
<1>15. PICK a0, a1, a2, a3, a4 : /\ a0 = at + Len(f) /\ a1 = at + Len(c1) /\ a2 = at + Len(c2)
                                 /\ a3 = at + Len(c3) /\ a4 = at + Len(c4)
  BY Zenon
<1>16. /\ a0 = at + 1 /\ Found(in, at, f) /\ Found(in, a0, s) /\ a1 = a0 + Len(s)
       /\ Found(in, a1, p) /\ a2 = a1 + Len(p) /\ Found(in, a2, g) /\ a3 = a2 + Len(g)
       /\ Found(in, a3, l) /\ a4 = a3 + Len(l) /\ Found(in, a4, z) /\ at + Len(c5) = a4 + Len(z)
  BY Zenon, <1>9, <1>10, <1>11, <1>12, <1>13, <1>14, <1>15
<1>17. Laid(e, in, at, a0, a1, a2, a3, a4)
  BY Zenon, <1>1, <1>4, <1>16 DEF Laid
<1>18. QED
  BY Zenon, <1>17

(* An absent field takes no bytes. *)
LEMMA NothingRead ==
  ASSUME NEW in, NEW a, Found(in, a, <<>>)
  PROVE  a + Len(<<>>) = a
<1>1. a \in Nat
  BY Zenon DEF Found
<1>2. QED
  BY SMT, <1>1

LEMMA SequenceFound ==
  ASSUME NEW e, WellFormed(e), NEW in, NEW a, Found(in, a, SequenceBytes(e))
  PROVE  Field(CLUSTERED, e.flags, a, be_sequence(in, a)) = Ok(a + Len(SequenceBytes(e)), e.sequence)
<1>1. CASE CLUSTERED \notin e.flags
  <2>1. e.sequence = None /\ SequenceBytes(e) = <<>>
    BY Zenon, <1>1 DEF WellFormed, SequenceBytes, Opt
  <2>2. a + Len(SequenceBytes(e)) = a
    BY Zenon, <2>1, NothingRead
  <2>3. QED
    BY Zenon, <1>1, <2>1, <2>2 DEF Field
<1>2. CASE CLUSTERED \in e.flags
  <2>1. e.sequence \in Nat /\ e.sequence <= MaxSequence
    BY Zenon, <1>2 DEF WellFormed
  <2>2. SequenceBytes(e) = put_varint(e.sequence)
    BY Zenon, <2>1, NoneIsNone DEF SequenceBytes, Opt
  <2>3. PICK k : k = be_varint(in, a) /\ k = Ok(a + Len(SequenceBytes(e)), e.sequence)
    BY Zenon, <2>1, <2>2, FitsSequence, VarintFound
  <2>4. k.res = "ok" /\ k.at = a + Len(SequenceBytes(e)) /\ k.val = e.sequence
    BY SMT, <2>3 DEF Ok
  <2>5. be_sequence(in, a) = Ok(a + Len(SequenceBytes(e)), e.sequence)
    BY Zenon, <2>1, <2>3, <2>4 DEF be_sequence, Then
  <2>6. QED
    BY Zenon, <1>2, <2>5 DEF Field
<1>3. QED
  BY Zenon, <1>1, <1>2

FieldRead(f, fs, x, n, in, a) == Field(f, fs, a, take(in, a, n)) = Ok(a + Len(Opt(x, x)), x)

LEMMA FieldFound ==
  ASSUME NEW f, NEW fs, NEW x, NEW n, NEW in, NEW a, Found(in, a, Opt(x, x)),
         IF f \in fs THEN x \in Seq(Nat) /\ Len(x) = n ELSE x = None
  PROVE  FieldRead(f, fs, x, n, in, a)
<1>1. CASE f \notin fs
  <2>1. x = None /\ Opt(x, x) = <<>>
    BY Zenon, <1>1 DEF Opt
  <2>2. a + Len(Opt(x, x)) = a
    BY Zenon, <2>1, NothingRead
  <2>3. QED
    BY Zenon, <1>1, <2>1, <2>2 DEF Field, FieldRead
<1>2. CASE f \in fs
  <2>1. x \in Seq(Nat) /\ Len(x) = n
    BY Zenon, <1>2
  <2>2. Opt(x, x) = x
    BY Zenon, <2>1, NoneIsNone DEF Opt
  <2>3. take(in, a, n) = Ok(a + Len(x), x)
    BY Zenon, <2>1, <2>2, TakeFound
  <2>4. QED
    BY Zenon, <1>2, <2>2, <2>3 DEF Field, FieldRead
<1>3. QED
  BY Zenon, <1>1, <1>2

SignatureRest(in, scheme, b, len) ==
  Then(take(in, b, len), LAMBDA c, bytes : Ok(c, [scheme |-> scheme, bytes |-> bytes]))
SignatureLength(in, scheme, a) ==
  Then(be_varint(in, a), LAMBDA b, len : SignatureRest(in, scheme, b, len))

LEMMA SignatureStaged ==
  ASSUME NEW in, NEW a, NEW fs, SIGNED \in fs
  PROVE  be_endpoint_signature(in, a, fs)
         = Then(take(in, a, 2), LAMBDA b, scheme : SignatureLength(in, scheme, b))
BY DEF be_endpoint_signature, SignatureLength, SignatureRest

LEMMA SignatureFound ==
  ASSUME NEW e, WellFormed(e), NEW in, NEW a, Found(in, a, SignatureBytes(e)),
         a + Len(SignatureBytes(e)) = Len(in)
  PROVE  be_endpoint_signature(in, a, e.flags) = Ok(Len(in), e.signature)
<1>1. CASE SIGNED \notin e.flags
  <2>1. e.signature = None /\ SignatureBytes(e) = <<>>
    BY Zenon, <1>1 DEF WellFormed, SignatureBytes, Carried
  <2>2. a = Len(in)
    BY Zenon, <2>1, NothingRead
  <2>3. QED
    BY Zenon, <1>1, <2>1, <2>2 DEF be_endpoint_signature
<1>2. CASE SIGNED \in e.flags
  <2>1. PICK x : x = e.signature /\ Signature(x)
    BY Zenon, <1>2 DEF WellFormed
  <2>2. PICK c, v, d : v = put_varint(Len(x.bytes)) /\ c = Cat(x.scheme, v) /\ d = Cat(c, x.bytes)
    BY Zenon
  <2>3. SignatureBytes(e) = d
    BY Zenon, <1>2, <2>1, <2>2, NoneIsNone DEF SignatureBytes, Carried
  <2>4. /\ x.scheme \in Seq(Nat) /\ x.bytes \in Seq(Nat) /\ Fits(Len(x.bytes)) /\ Len(x.scheme) = 2
        /\ x = [scheme |-> x.scheme, bytes |-> x.bytes]
    BY Zenon, <2>1 DEF Signature
  <2>5. v \in Seq(Nat)
    BY Zenon, <2>2, <2>4, VarintIsNumbers
  <2>6. c \in Seq(Nat)
    BY Zenon, <2>2, <2>4, <2>5, CatLaws
  <2>7. Parted(in, a, c, x.bytes, d)
    <3>1. Found(in, a, d)
      BY Zenon, <2>3
    <3>2. QED
      BY Zenon, <2>2, <2>4, <2>6, <3>1, FoundParts
  <2>8. Parted(in, a, x.scheme, v, c)
    <3>1. Found(in, a, c)
      BY Zenon, <2>7 DEF Parted
    <3>2. QED
      BY Zenon, <2>2, <2>4, <2>5, <3>1, FoundParts
  <2>9. PICK b1, b2 : b1 = a + Len(x.scheme) /\ b2 = b1 + Len(v)
    BY Zenon
  <2>10. /\ Found(in, a, x.scheme) /\ Found(in, b1, v) /\ Found(in, b2, x.bytes)
         /\ b2 + Len(x.bytes) = Len(in)
    BY Zenon, <2>3, <2>7, <2>8, <2>9 DEF Parted
  <2>11. take(in, a, 2) = Ok(b1, x.scheme)
    BY Zenon, <2>4, <2>9, <2>10, TakeFound
  <2>12. be_varint(in, b1) = Ok(b2, Len(x.bytes))
    <3>1. Found(in, b1, put_varint(Len(x.bytes))) /\ Fits(Len(x.bytes))
      BY Zenon, <2>2, <2>4, <2>10
    <3>2. be_varint(in, b1) = Ok(b1 + Len(put_varint(Len(x.bytes))), Len(x.bytes))
      BY Zenon, <3>1, VarintFound
    <3>3. QED
      BY Zenon, <2>2, <2>9, <3>2
  <2>13. take(in, b2, Len(x.bytes)) = Ok(Len(in), x.bytes)
    BY Zenon, <2>10, TakeFound
  <2>14. SignatureRest(in, x.scheme, b2, Len(x.bytes)) = Ok(Len(in), x)
    <3>1. PICK k : k = take(in, b2, Len(x.bytes)) /\ k = Ok(Len(in), x.bytes)
      BY Zenon, <2>13
    <3>2. k.res = "ok" /\ k.at = Len(in) /\ k.val = x.bytes
      BY SMT, <3>1 DEF Ok
    <3>3. SignatureRest(in, x.scheme, b2, Len(x.bytes))
          = IF k.res = "ok" THEN Ok(k.at, [scheme |-> x.scheme, bytes |-> k.val]) ELSE k
      BY Zenon, <3>1 DEF SignatureRest, Then
    <3>4. [scheme |-> x.scheme, bytes |-> k.val] = x
      BY SMT, <2>4, <3>2
    <3>5. QED
      BY Zenon, <3>2, <3>3, <3>4
  <2>15. SignatureLength(in, x.scheme, b1) = Ok(Len(in), x)
    <3>1. PICK k : k = be_varint(in, b1) /\ k = Ok(b2, Len(x.bytes))
      BY Zenon, <2>12
    <3>2. k.res = "ok" /\ k.at = b2 /\ k.val = Len(x.bytes)
      BY SMT, <3>1 DEF Ok
    <3>3. QED
      BY Zenon, <2>14, <3>1, <3>2 DEF SignatureLength, Then
  <2>16. QED
    <3>1. PICK k : k = take(in, a, 2) /\ k = Ok(b1, x.scheme)
      BY Zenon, <2>11
    <3>2. k.res = "ok" /\ k.at = b1 /\ k.val = x.scheme
      BY SMT, <3>1 DEF Ok
    <3>3. be_endpoint_signature(in, a, e.flags)
          = IF k.res = "ok" THEN SignatureLength(in, k.val, k.at) ELSE k
      BY Zenon, <1>2, <3>1, SignatureStaged DEF Then
    <3>4. QED
      BY Zenon, <2>1, <2>15, <3>2, <3>3
<1>3. QED
  BY Zenon, <1>1, <1>2

(* A record that is the rest of the input is read as what it is. *)
LEMMA RecordFound ==
  ASSUME NEW e, WellFormed(e), NEW in, NEW at, Found(in, at, put_endpoint_addr(e)),
         at + Len(put_endpoint_addr(e)) = Len(in)
  PROVE  be_endpoint_addr(in, at) = Ok(Len(in), e)
<1>0. PICK a0, a1, a2, a3, a4 : Laid(e, in, at, a0, a1, a2, a3, a4)
  BY Zenon, FieldsFound
<1>1. /\ a0 = at + 1 /\ Found(in, at, <<flags_byte(e.flags)>>)
      /\ Found(in, a0, SequenceBytes(e)) /\ a1 = a0 + Len(SequenceBytes(e))
      /\ Found(in, a1, e.primary) /\ a2 = a1 + Len(e.primary)
      /\ Found(in, a2, AgentBytes(e)) /\ a3 = a2 + Len(AgentBytes(e))
      /\ Found(in, a3, LoadBytes(e)) /\ a4 = a3 + Len(LoadBytes(e))
      /\ Found(in, a4, SignatureBytes(e))
      /\ at + Len(put_endpoint_addr(e)) = a4 + Len(SignatureBytes(e))
  BY Zenon, <1>0 DEF Laid
<1>2. PICK b : b = <<flags_byte(e.flags)>>
  BY Zenon
<1>3. take(in, at, 1) = Ok(a0, b) /\ flags_of(b[1]) = e.flags
  <2>1. Len(b) = 1 /\ b[1] = flags_byte(e.flags)
    BY SMT, <1>2
  <2>2. flags_of(flags_byte(e.flags)) = e.flags
    BY Zenon, FlagsReadBack DEF WellFormed
  <2>3. QED
    BY Zenon, <1>1, <1>2, <2>1, <2>2, TakeFound
<1>4. Field(CLUSTERED, e.flags, a0, be_sequence(in, a0)) = Ok(a1, e.sequence)
  BY Zenon, <1>1, SequenceFound
<1>5. take(in, a1, Size(e.flags)) = Ok(a2, e.primary)
  <2>1. Len(e.primary) = Size(e.flags)
    BY Zenon DEF WellFormed
  <2>2. take(in, a1, Len(e.primary)) = Ok(a1 + Len(e.primary), e.primary)
    <3>1. Found(in, a1, e.primary)
      BY Zenon, <1>1
    <3>2. QED
      BY <3>1, TakeFound
  <2>3. QED
    BY Zenon, <1>1, <2>1, <2>2
<1>6. Field(NAT, e.flags, a2, take(in, a2, Size(e.flags))) = Ok(a3, e.agent)
  <2>1. IF NAT \in e.flags THEN e.agent \in Seq(Nat) /\ Len(e.agent) = Size(e.flags) ELSE e.agent = None
    BY Zenon DEF WellFormed
  <2>2. Found(in, a2, Opt(e.agent, e.agent))
    BY Zenon, <1>1 DEF AgentBytes
  <2>3. FieldRead(NAT, e.flags, e.agent, Size(e.flags), in, a2)
    BY Zenon, <2>1, <2>2, FieldFound
  <2>4. QED
    BY Zenon, <1>1, <2>3 DEF AgentBytes, FieldRead
<1>7. Field(LOAD, e.flags, a3, take(in, a3, 4)) = Ok(a4, e.load)
  <2>1. IF LOAD \in e.flags THEN e.load \in Seq(Nat) /\ Len(e.load) = 4 ELSE e.load = None
    BY Zenon DEF WellFormed
  <2>2. Found(in, a3, Opt(e.load, e.load))
    BY Zenon, <1>1 DEF LoadBytes
  <2>3. FieldRead(LOAD, e.flags, e.load, 4, in, a3)
    BY Zenon, <2>1, <2>2, FieldFound
  <2>4. QED
    BY Zenon, <1>1, <2>3 DEF LoadBytes, FieldRead
<1>8. be_endpoint_signature(in, a4, e.flags) = Ok(Len(in), e.signature)
  BY Zenon, <1>1, SignatureFound
<1>9. be_endpoint_addr(in, at)
      = Ok(Len(in), Made(e.flags, e.sequence, e.primary, e.agent, e.load, e.signature))
  <2>1. Read(in, at, e.flags, e.sequence, e.primary, e.agent, e.load, e.signature, b,
             a0, a1, a2, a3, a4, Len(in))
    BY Zenon, <1>3, <1>4, <1>5, <1>6, <1>7, <1>8 DEF Read
  <2>2. QED
    BY <2>1, Stages
<1>10. QED
  BY Zenon, <1>9 DEF WellFormed

(* The length of a record, field by field. *)
SignatureLen(e) ==
  IF Carried(e) THEN 2 + Len(put_varint(Len(e.signature.bytes))) + Len(e.signature.bytes) ELSE 0

LEMMA RecordLength ==
  ASSUME NEW e, WellFormed(e)
  PROVE  /\ Len(put_endpoint_addr(e)) = 1 + Len(SequenceBytes(e)) + Len(e.primary)
                                          + Len(AgentBytes(e)) + Len(LoadBytes(e)) + SignatureLen(e)
         /\ Len(SequenceBytes(e)) \in Nat /\ Len(e.primary) \in Nat /\ Len(AgentBytes(e)) \in Nat
         /\ Len(LoadBytes(e)) \in Nat /\ SignatureLen(e) \in Nat
<1>1. PICK f, s, p, g, l, z : /\ f = <<flags_byte(e.flags)>> /\ s = SequenceBytes(e) /\ p = e.primary
                              /\ g = AgentBytes(e) /\ l = LoadBytes(e) /\ z = SignatureBytes(e)
  BY Zenon
<1>2. f \in Seq(Nat) /\ s \in Seq(Nat) /\ p \in Seq(Nat) /\ g \in Seq(Nat) /\ l \in Seq(Nat) /\ z \in Seq(Nat)
  BY Zenon, <1>1, PartsAreBytes
<1>3. put_endpoint_addr(e) = Cat(Cat(Cat(Cat(Cat(f, s), p), g), l), z)
  BY Zenon, <1>1 DEF put_endpoint_addr, write_base, Cat, SignatureBytes, SequenceBytes,
                     AgentBytes, LoadBytes
<1>4. Len(put_endpoint_addr(e)) = Len(f) + Len(s) + Len(p) + Len(g) + Len(l) + Len(z)
  BY SMT, <1>2, <1>3 DEF Cat
<1>5. Len(f) = 1
  BY SMT, <1>1
<1>6. Len(z) = SignatureLen(e)
  <2>1. CASE ~ Carried(e)
    <3>1. z = <<>>
      BY Zenon, <1>1, <2>1 DEF SignatureBytes
    <3>2. Len(z) = 0
      BY SMT, <3>1
    <3>3. QED
      BY Zenon, <2>1, <3>2 DEF SignatureLen
  <2>2. CASE Carried(e)
    <3>1. Signature(e.signature)
      BY Zenon, <2>2 DEF Carried, WellFormed
    <3>2. PICK x, v, y : x = e.signature.scheme /\ v = put_varint(Len(e.signature.bytes)) /\ y = e.signature.bytes
      BY Zenon
    <3>3. x \in Seq(Nat) /\ v \in Seq(Nat) /\ y \in Seq(Nat) /\ Len(x) = 2
      BY Zenon, <3>1, <3>2, VarintIsNumbers DEF Signature
    <3>4. z = Cat(Cat(x, v), y)
      BY Zenon, <1>1, <2>2, <3>2 DEF SignatureBytes
    <3>5. Len(z) = 2 + Len(v) + Len(y)
      <4>1. Cat(x, v) \in Seq(Nat) /\ Len(Cat(x, v)) = Len(x) + Len(v)
        BY Zenon, <3>3, CatLaws
      <4>2. Len(z) = Len(Cat(x, v)) + Len(y)
        BY Zenon, <3>3, <3>4, <4>1, CatLaws
      <4>3. QED
        BY Zenon, <3>3, <4>1, <4>2
    <3>6. QED
      BY Zenon, <2>2, <3>2, <3>5 DEF SignatureLen
  <2>3. QED
    BY Zenon, <2>1, <2>2
<1>7. /\ Len(s) \in Nat /\ Len(p) \in Nat /\ Len(g) \in Nat
      /\ Len(l) \in Nat /\ Len(z) \in Nat
  BY SMT, <1>2
<1>8. QED
  BY Zenon, <1>1, <1>4, <1>5, <1>6, <1>7

(* A record takes the space encpding_size says. *)
LEMMA SpaceTaken ==
  ASSUME NEW e, WellFormed(e)
  PROVE  Len(put_endpoint_addr(e)) = encpding_size(e)
<1>1. PICK s, p, g, l, z : /\ s = Len(SequenceBytes(e)) /\ p = Len(e.primary) /\ g = Len(AgentBytes(e))
                           /\ l = Len(LoadBytes(e)) /\ z = SignatureLen(e)
  BY Zenon
<1>2. /\ Len(put_endpoint_addr(e)) = 1 + s + p + g + l + z
      /\ s \in Nat /\ p \in Nat /\ g \in Nat /\ l \in Nat /\ z \in Nat
  BY Zenon, <1>1, RecordLength
<1>3. PICK d : d = Size(e.flags) * (IF NAT \in e.flags THEN 2 ELSE 1)
  BY Zenon
<1>4. p + g = d
  <2>1. Size(e.flags) \in Nat /\ p = Size(e.flags)
    BY SMT, <1>1 DEF WellFormed, Size
  <2>2. CASE NAT \in e.flags
    <3>1. g = Len(e.agent) /\ Len(e.agent) = Size(e.flags)
      BY Zenon, <1>1, <2>2, NoneIsNone DEF WellFormed, AgentBytes, Opt
    <3>2. QED
      BY SMT, <1>3, <2>1, <2>2, <3>1
  <2>3. CASE NAT \notin e.flags
    <3>1. g = Len(<<>>)
      BY Zenon, <1>1, <2>3 DEF WellFormed, AgentBytes, Opt
    <3>2. QED
      BY SMT, <1>3, <2>1, <2>3, <3>1
  <2>4. QED
    BY Zenon, <2>2, <2>3
<1>5. encpding_size(e) = 1 + s + l + z + d
  BY Zenon, <1>1, <1>3 DEF encpding_size, SequenceBytes, LoadBytes, Size, SignatureLen
<1>6. 1 + s + p + g + l + z = 1 + s + l + z + d
  BY SMT, <1>2, <1>4
<1>7. QED
  BY Zenon, <1>2, <1>5, <1>6

(* A record that can be built is one that can be read. *)
LEMMA SentIsWellFormed ==
  ASSUME NEW e, Flagged(e), Consistent(e), e.signature # None => Signature(e.signature)
  PROVE  /\ WellFormed(Sent(e)) /\ put_endpoint_addr(Sent(e)) = put_endpoint_addr(e)
         /\ encpding_size(Sent(e)) = encpding_size(e)
<1>1. PICK d : d = Sent(e)
  BY Zenon
<1>2. /\ d.flags = e.flags /\ d.sequence = e.sequence /\ d.load = e.load
      /\ d.primary = e.primary /\ d.agent = e.agent
      /\ d.signature = IF SIGNED \in e.flags THEN e.signature ELSE None
      /\ d = Made(d.flags, d.sequence, d.primary, d.agent, d.load, d.signature)
  <2>1. e = [flags |-> e.flags, sequence |-> e.sequence, load |-> e.load,
             signature |-> e.signature, primary |-> e.primary, agent |-> e.agent]
    BY Zenon DEF Flagged, Shape
  <2>2. QED
    BY SMT, <1>1, <2>1 DEF Sent, Made
<1>3. Carried(d) = Carried(e)
  BY Zenon, <1>2 DEF Carried
<1>4. Carried(e) => d.signature = e.signature
  BY Zenon, <1>2 DEF Carried
<1>5. put_endpoint_addr(d) = put_endpoint_addr(e)
  BY Zenon, <1>2, <1>3, <1>4 DEF put_endpoint_addr, write_base
<1>6. encpding_size(d) = encpding_size(e)
  BY Zenon, <1>2, <1>3, <1>4 DEF encpding_size
<1>7. WellFormed(d)
  <2>1. d.flags \in SUBSET Bits
    BY Zenon, <1>2 DEF Flagged, Shape
  <2>2. IF CLUSTERED \in d.flags THEN d.sequence \in Nat /\ d.sequence <= MaxSequence
        ELSE d.sequence = None
    BY Zenon, <1>2, SequenceIs DEF Flagged, Shape, Consistent
  <2>3. ASSUME NEW a \in V4 \cup V6 PROVE a \in Seq(Nat) /\ Len(a) = IF IsV6(a) THEN 18 ELSE 6
    <3>1. a \in Seq(Byte) /\ (Len(a) = 6 \/ Len(a) = 18)
      BY Zenon, EndpointAssumption
    <3>2. QED
      BY SMT, <3>1, BytesAreNumbers DEF IsV6
  <2>4. d.primary \in Seq(Nat) /\ Len(d.primary) = Size(d.flags)
    BY Zenon, <1>2, <2>3 DEF Flagged, Shape, Size
  <2>5. IF NAT \in d.flags THEN d.agent \in Seq(Nat) /\ Len(d.agent) = Size(d.flags)
        ELSE d.agent = None
    BY Zenon, <1>2, <2>3 DEF Flagged, Shape, Size
  <2>6. IF LOAD \in d.flags THEN d.load \in Seq(Nat) /\ Len(d.load) = 4 ELSE d.load = None
    <3>1. \A l \in Load : l \in Seq(Byte) /\ Len(l) = 4
      BY Zenon, EndpointAssumption
    <3>2. QED
      BY Zenon, <1>2, <3>1, BytesAreNumbers DEF Flagged, Shape
  <2>7. IF SIGNED \in d.flags THEN Signature(d.signature) ELSE d.signature = None
    BY Zenon, <1>2 DEF Consistent
  <2>8. QED
    BY Zenon, <1>2, <2>1, <2>2, <2>4, <2>5, <2>6, <2>7 DEF WellFormed
<1>8. QED
  BY Zenon, <1>1, <1>5, <1>6, <1>7

LEMMA RecordIsBytes ==
  ASSUME NEW e, WellFormed(e)
  PROVE  put_endpoint_addr(e) \in Seq(Nat)
<1>1. PICK f, s, p, g, l, z : /\ f = <<flags_byte(e.flags)>> /\ s = SequenceBytes(e) /\ p = e.primary
                              /\ g = AgentBytes(e) /\ l = LoadBytes(e) /\ z = SignatureBytes(e)
  BY Zenon
<1>2. f \in Seq(Nat) /\ s \in Seq(Nat) /\ p \in Seq(Nat) /\ g \in Seq(Nat) /\ l \in Seq(Nat) /\ z \in Seq(Nat)
  BY Zenon, <1>1, PartsAreBytes
<1>3. put_endpoint_addr(e) = Cat(Cat(Cat(Cat(Cat(f, s), p), g), l), z)
  BY Zenon, <1>1 DEF put_endpoint_addr, write_base, Cat, SignatureBytes, SequenceBytes,
                     AgentBytes, LoadBytes
<1>4. QED
  BY SMT, <1>2, <1>3 DEF Cat

LEMMA ReadsBackAtEnd ==
  ASSUME NEW e, WellFormed(e), NEW pre \in Seq(Byte), NEW w, w = put_endpoint_addr(e)
  PROVE  be_endpoint_addr_compat(pre \o w, Len(pre), Len(w)) = Ok(Len(pre \o w), e)
<1>1. pre \in Seq(Nat) /\ w \in Seq(Nat)
  BY Zenon, BytesAreNumbers, RecordIsBytes
<1>2. PICK in, at : in = pre \o w /\ at = Len(pre)
  BY Zenon
<1>3. /\ in \in Seq(Nat) /\ at \in Nat /\ Len(w) \in Nat /\ Len(in) = at + Len(w)
      /\ \A i \in 1 .. Len(w) : in[at + i] = w[i]
  BY SMT, <1>1, <1>2
<1>4. Found(in, at, w)
  BY SMT, <1>1, <1>3 DEF Found
<1>5. be_endpoint_addr(in, at) = Ok(Len(in), e)
  BY Zenon, <1>3, <1>4, RecordFound
<1>6. PICK m : m = be_endpoint_addr(in, at) /\ m = Ok(Len(in), e)
  BY Zenon, <1>5
<1>7. m.res = "ok" /\ m.at = Len(in)
  BY SMT, <1>6 DEF Ok
<1>8. be_endpoint_addr_compat(in, at, Len(w)) = m
  BY Zenon, <1>6, <1>7 DEF be_endpoint_addr_compat
<1>9. QED
  BY Zenon, <1>2, <1>6, <1>8

(* The signatures made are of the shape the reader expects. *)
LEMMA SignatureMade ==
  ASSUME SigInv, ep # None, ep.signature # None
  PROVE  Signature(ep.signature)
<1>0. PICK k \in Key : \E u : MadeBy(k, u)
  BY Zenon DEF SigInv
<1>1. PICK u : MadeBy(k, u)
  BY Zenon, <1>0
<1>2. signed \in Seq(Entry) /\ signed # <<>>
  BY Zenon DEF SigInv
<1>3. Len(signed) \in Nat /\ signed[Len(signed)] \in Entry
  BY SMT, <1>2
<1>4. Scheme[k] \in Seq(Byte)
  <2>1. signed[Len(signed)] = [key |-> k, scheme |-> Scheme[k], data |-> write_base(u)]
    BY Zenon, <1>1 DEF MadeBy
  <2>2. QED
    BY SMT, <1>3, <2>1 DEF Entry
<1>5. Scheme[k] \in Seq(Nat) /\ Len(Scheme[k]) = 2
  <2>1. Scheme[k] \in Seq(Nat)
    BY Zenon, <1>4, BytesAreNumbers
  <2>2. QED
    BY Zenon, <2>1, NoneIsNone, EndpointAssumption
<1>6. PICK x, b : x = ep.signature /\ b = [j \in 1 .. SigLen |-> Len(signed)]
  BY Zenon
<1>7. SigLen \in Nat /\ SigLen < 2 ^ 30
  BY Zenon, EndpointAssumption
<1>8. b \in Seq(Nat) /\ Len(b) = SigLen
  BY SMT, <1>3, <1>6, <1>7
<1>9. x = [scheme |-> Scheme[k], bytes |-> b]
  BY Zenon, <1>1, <1>6 DEF MadeBy
<1>10. x.scheme = Scheme[k] /\ x.bytes = b
  BY SMT, <1>9
<1>11. QED
  BY Zenon, <1>5, <1>6, <1>7, <1>8, <1>9, <1>10 DEF Signature, Fits

(* Whatever is called on a record in whatever order, what is written of it *)
(* takes the space reserved for it and reads back as that record           *)
(* (endpoint.rs:329-357, 416-441, 458-571).                                *)
THEOREM RecordsReadBack == EpSpec => []RecordReadsBack
<1>1. EpInit => SigInv
  BY DEF EpInit, SigInv, IInv
<1>2. SigInv => RecordReadsBack
  <2> SUFFICES ASSUME SigInv, ep # None, Consistent(ep) PROVE RecordReadsBack
    BY Zenon DEF RecordReadsBack
  <2>0. PICK w : w = put_endpoint_addr(ep)
    BY Zenon
  <2>1. Flagged(ep)
    BY Zenon DEF SigInv, IInv
  <2>2. /\ WellFormed(Sent(ep)) /\ put_endpoint_addr(Sent(ep)) = w
        /\ encpding_size(Sent(ep)) = encpding_size(ep)
    BY Zenon, <2>0, <2>1, SignatureMade, SentIsWellFormed
  <2>3. Len(w) = encpding_size(ep)
    BY Zenon, <2>2, SpaceTaken
  <2>4. ASSUME NEW pre \in Seq(Byte)
        PROVE  be_endpoint_addr_compat(pre \o w, Len(pre), Len(w)) = Ok(Len(pre \o w), Sent(ep))
    BY Zenon, <2>2, ReadsBackAtEnd
  <2>5. QED
    BY Zenon, <2>0, <2>3, <2>4 DEF RecordReadsBack
<1>3. QED
  BY <1>1, <1>2, SigStep, PTL DEF EpSpec

-----------------------------------------------------------------------------
(* What is read *)

(* k is a successful read from a to k.at within the input. *)
Got(in, a, k) == k.res = "ok" /\ k.at \in Nat /\ a <= k.at /\ k.at <= Len(in)

Taken(in, a, n, k) == Got(in, a, k) /\ k.at = a + n /\ k.val \in Seq(Byte) /\ Len(k.val) = n

LEMMA TakeRead ==
  ASSUME NEW in \in Seq(Byte), NEW a \in Nat, NEW n \in Nat, NEW k, k = take(in, a, n), k.res = "ok"
  PROVE  Taken(in, a, n, k)
<1>1. ASSUME ~ (a + n <= Len(in)) PROVE FALSE
  <2>1. k = Incomplete
    BY Zenon, <1>1 DEF take
  <2>2. k.res = "incomplete"
    BY SMT, <2>1 DEF Incomplete
  <2>3. QED
    BY SMT, <2>2
<1>2. a + n <= Len(in)
  BY Zenon, <1>1
<1>3. k = Ok(a + n, SubSeq(in, a + 1, a + n))
  BY Zenon, <1>2 DEF take
<1>4. k.at = a + n /\ k.val = SubSeq(in, a + 1, a + n)
  BY SMT, <1>3 DEF Ok
<1>5. SubSeq(in, a + 1, a + n) \in Seq(Byte) /\ Len(SubSeq(in, a + 1, a + n)) = n
  <2>1. PICK S : S = Byte
    BY Zenon
  <2>2. in \in Seq(S) /\ Len(in) \in Nat
    BY SMT, <2>1
  <2>3. SubSeq(in, a + 1, a + n) \in Seq(S) /\ Len(SubSeq(in, a + 1, a + n)) = n
    BY SMT, <1>2, <2>2
  <2>4. QED
    BY Zenon, <2>1, <2>3
<1>6. QED
  <2>1. Len(in) \in Nat
    OBVIOUS
  <2>2. Got(in, a, k)
    BY SMT, <1>2, <1>4, <2>1 DEF Got
  <2>3. QED
    BY Zenon, <1>4, <1>5, <2>2 DEF Taken

LEMMA NumberIsNat ==
  ASSUME NEW b \in Seq(Nat), NEW n \in 1 .. 8, Len(b) = n
  PROVE  number(b) \in Nat
<1>1. PICK g : g[0] = 0 /\ number(b) = g[n] /\ \A i \in 1 .. n : g[i] = More(g[i - 1], b[i])
  BY Zenon, NumberIs
<1>2. \A i \in 1 .. n : b[i] \in Nat
  OBVIOUS
<1>3. \A v \in Nat, d \in Nat : More(v, d) \in Nat
  BY SMT DEF More, Huge
<1>4. ASSUME NEW i \in 1 .. n, g[i - 1] \in Nat PROVE g[i] \in Nat
  BY Zenon, <1>1, <1>2, <1>3, <1>4
<1>5. g[0] \in Nat /\ g[1] \in Nat
  BY SMT, <1>1, <1>4
<1>6. 2 <= n => g[2] \in Nat
  BY SMT, <1>4, <1>5
<1>7. 3 <= n => g[3] \in Nat
  BY SMT, <1>4, <1>6
<1>8. 4 <= n => g[4] \in Nat
  BY SMT, <1>4, <1>7
<1>9. 5 <= n => g[5] \in Nat
  BY SMT, <1>4, <1>8
<1>10. 6 <= n => g[6] \in Nat
  BY SMT, <1>4, <1>9
<1>11. 7 <= n => g[7] \in Nat
  BY SMT, <1>4, <1>10
<1>12. 8 <= n => g[8] \in Nat
  BY SMT, <1>4, <1>11
<1>13. g[n] \in Nat
  <2>1. n \in {1, 2, 3, 4, 5, 6, 7, 8}
    BY SMT
  <2>2. CASE n \in {1, 2, 3, 4}
    BY SMT, <1>5, <1>6, <1>7, <1>8, <2>2
  <2>3. CASE n \in {5, 6, 7, 8}
    BY SMT, <1>9, <1>10, <1>11, <1>12, <2>3
  <2>4. QED
    BY SMT, <2>1, <2>2, <2>3
<1>14. QED
  BY Zenon, <1>1, <1>13

LEMMA WidthIs ==
  ASSUME NEW w \in Seq(Byte), Len(w) \in Nat \ {0}
  PROVE  Width(w) \in {1, 2, 4, 8}
<1>1. w[1] \in Nat /\ w[1] < 256
  <2>1. w[1] \in Byte
    <3>1. PICK S : S = Byte
      BY Zenon
    <3>2. w[1] \in S
      BY SMT, <3>1
    <3>3. QED
      BY Zenon, <3>1, <3>2
  <2>2. QED
    BY SMT, <2>1, ByteIs
<1>2. PICK q : q = w[1] \div 64 /\ q \in {0, 1, 2, 3}
  BY SMT, <1>1
<1>3. 2 ^ 0 = 1 /\ 2 ^ 1 = 2 /\ 2 ^ 2 = 4 /\ 2 ^ 3 = 8
  BY SMT
<1>4. Width(w) = 2 ^ q
  BY Zenon, <1>2 DEF Width
<1>5. q = 0 \/ q = 1 \/ q = 2 \/ q = 3
  BY SMT, <1>2
<1>6. QED
  BY Zenon, <1>3, <1>4, <1>5

LEMMA ClearedIs ==
  ASSUME NEW w \in Seq(Byte), Len(w) \in Nat \ {0}
  PROVE  LET b == Cleared(w) IN b \in Seq(Byte) /\ Len(b) = Len(w) /\ Small(b[1])
<1>1. PICK S, b : S = Byte /\ b = Cleared(w)
  BY Zenon
<1>2. w \in Seq(S) /\ w[1] \in S
  BY SMT, <1>1
<1>3. w[1] \in Nat
  BY Zenon, <1>1, <1>2, ByteIs
<1>4. PICK x : x = w[1] % 64
  BY Zenon
<1>5. x \in Nat /\ x < 64 /\ x < 256
  BY SMT, <1>3, <1>4
<1>6. x \in S
  BY SMT, <1>1, <1>5, ByteIs
<1>7. b = [w EXCEPT ![1] = x]
  BY SMT, <1>1, <1>4 DEF Cleared
<1>8. b \in Seq(S) /\ Len(b) = Len(w) /\ b[1] = x
  BY SMT, <1>2, <1>6, <1>7
<1>9. QED
  BY SMT, <1>1, <1>5, <1>8 DEF Small

(* The bytes of a number are no fewer than those it is written in. *)
LEMMA NumberSize ==
  ASSUME NEW w \in Seq(Byte), Len(w) \in {1, 2, 4, 8}, NEW x, x = number(Cleared(w))
  PROVE  x \in Nat /\ (Fits(x) => Len(put_varint(x)) <= Len(w))
<1>0. Len(w) \in Nat \ {0} /\ Len(w) \in 1 .. 8
  BY SMT
<1>1. PICK b : b = Cleared(w) /\ b \in Seq(Byte) /\ Len(b) = Len(w) /\ Small(b[1])
  BY Zenon, <1>0, ClearedIs
<1>2. x \in Nat
  <2>1. b \in Seq(Nat)
    BY Zenon, <1>1, BytesAreNumbers
  <2>2. QED
    BY Zenon, <1>0, <1>1, <2>1, NumberIsNat
<1>3. CASE Len(w) = 1
  <2>1. x = Shift(0, b[1])
    BY Zenon, <1>1, <1>3, NumberOf
  <2>2. Short(x)
    <3>1. PICK y, S : y = b[1] /\ S = Byte
      BY Zenon
    <3>2. y \in S
      BY SMT, <1>1, <1>3, <3>1
    <3>3. y \in Nat /\ y < 64
      BY SMT, <1>1, <3>1, <3>2, ByteIs DEF Small
    <3>4. QED
      BY SMT, <1>2, <2>1, <3>1, <3>3 DEF Shift, Short
  <2>3. put_varint(x) = <<x>>
    BY Zenon, <2>2, ShortParts
  <2>4. QED
    BY SMT, <1>2, <1>3, <2>3
<1>4. CASE Len(w) = 2
  <2>1. x = Shift(Shift(0, b[1]), b[2])
    BY Zenon, <1>1, <1>4, NumberOf
  <2>2. b[1] \in Byte /\ b[2] \in Byte
    <3>1. PICK S : S = Byte
      BY Zenon
    <3>2. b[1] \in S /\ b[2] \in S
      BY SMT, <1>1, <1>4, <3>1
    <3>3. QED
      BY Zenon, <3>1, <3>2
  <2>3. b[1] \in Nat /\ b[2] \in Nat /\ b[2] < 256 /\ b[1] < 64
    BY SMT, <1>1, <2>2, ByteIs DEF Small
  <2>4. Short(x) \/ Middling(x)
    BY SMT, <1>2, <2>1, <2>3 DEF Shift, Short, Middling
  <2>5. CASE Short(x)
    <3>1. put_varint(x) = <<x>>
      BY Zenon, <2>5, ShortParts
    <3>2. QED
      BY SMT, <1>2, <1>4, <3>1
  <2>6. CASE Middling(x)
    <3>1. PICK q, r : put_varint(x) = <<64 + q, r>>
      BY SMT, <2>6, MiddlingParts
    <3>2. QED
      BY SMT, <1>2, <1>4, <3>1
  <2>7. QED
    BY Zenon, <2>4, <2>5, <2>6
<1>5. CASE Len(w) \in {4, 8}
  <2>1. SUFFICES ASSUME Fits(x) PROVE Len(put_varint(x)) <= Len(w)
    BY Zenon, <1>2
  <2>2. Len(put_varint(x)) \in 1 .. 4
    BY Zenon, <2>1, VarintParts
  <2>3. \A m, n : m \in 1 .. 4 /\ n \in {4, 8} => m <= n
    BY SMT
  <2>4. QED
    BY Zenon, <1>5, <2>2, <2>3
<1>6. QED
  BY SMT, <1>3, <1>4, <1>5

LEMMA VarintRead ==
  ASSUME NEW in \in Seq(Byte), NEW a \in Nat, NEW k, k = be_varint(in, a), k.res = "ok"
  PROVE  /\ Got(in, a, k) /\ k.val \in Nat
         /\ Fits(k.val) => a + Len(put_varint(k.val)) <= k.at
<1>1. PICK j : j = take(in, a, 1)
  BY Zenon
<1>2. be_varint(in, a) = Then(take(in, a, 1), LAMBDA b, first : VarintBody(in, a, first))
  BY DEF be_varint, VarintBody, Cleared, Width
<1>3. j.res = "ok" /\ k = VarintBody(in, a, j.val)
  <2>1. k = IF j.res = "ok" THEN VarintBody(in, a, j.val) ELSE j
    BY Zenon, <1>1, <1>2 DEF Then
  <2>2. QED
    BY Zenon, <2>1
<1>4. j.val \in Seq(Byte) /\ Len(j.val) = 1
  <2>1. Taken(in, a, 1, j)
    BY Zenon, <1>1, <1>3, 1 \in Nat, TakeRead
  <2>2. QED
    BY Zenon, <2>1 DEF Taken
<1>5. PICK n : n = Width(j.val) /\ n \in {1, 2, 4, 8}
  <2>1. Len(j.val) \in Nat \ {0}
    BY SMT, <1>4
  <2>2. QED
    BY Zenon, <1>4, <2>1, WidthIs
<1>6. PICK i : i = take(in, a, n)
  BY Zenon
<1>7. i.res = "ok" /\ k = Ok(i.at, number(Cleared(i.val)))
  <2>1. VarintBody(in, a, j.val) = IF i.res = "ok" THEN Ok(i.at, number(Cleared(i.val))) ELSE i
    BY Zenon, <1>5, <1>6 DEF VarintBody, Then
  <2>2. QED
    BY Zenon, <1>3, <2>1
<1>8. n \in Nat
  BY SMT, <1>5
<1>9. Got(in, a, i) /\ i.at = a + n /\ i.val \in Seq(Byte) /\ Len(i.val) = n
  <2>1. Taken(in, a, n, i)
    BY Zenon, <1>6, <1>7, <1>8, TakeRead
  <2>2. QED
    BY Zenon, <2>1 DEF Taken
<1>10. k.at = i.at /\ k.val = number(Cleared(i.val))
  BY SMT, <1>7 DEF Ok
<1>11. Got(in, a, k)
  BY Zenon, <1>9, <1>10 DEF Got
<1>12. k.val \in Nat /\ (Fits(k.val) => Len(put_varint(k.val)) <= n)
  BY Zenon, <1>5, <1>9, <1>10, NumberSize
<1>13. ASSUME Fits(k.val) PROVE a + Len(put_varint(k.val)) <= k.at
  <2>1. Len(put_varint(k.val)) \in Nat
    BY SMT, <1>13, VarintIsNumbers
  <2>2. QED
    BY SMT, <1>8, <1>9, <1>10, <1>12, <1>13, <2>1
<1>14. QED
  BY Zenon, <1>11, <1>12, <1>13

FieldTaken(f, fs, n, in, a, k) ==
  /\ Got(in, a, k) /\ k.at = a + Len(Opt(k.val, k.val))
  /\ IF f \in fs THEN k.val \in Seq(Nat) /\ Len(k.val) = n ELSE k.val = None

LEMMA FieldGot ==
  ASSUME NEW in \in Seq(Byte), NEW a \in Nat, a <= Len(in), NEW f, NEW fs, NEW n \in Nat,
         NEW k, k = Field(f, fs, a, take(in, a, n)), k.res = "ok"
  PROVE  FieldTaken(f, fs, n, in, a, k)
<1>1. CASE f \in fs
  <2>1. k = take(in, a, n)
    BY Zenon, <1>1 DEF Field
  <2>2. Taken(in, a, n, k)
    BY Zenon, <2>1, TakeRead
  <2>3. Got(in, a, k) /\ k.at = a + n /\ k.val \in Seq(Nat) /\ Len(k.val) = n
    BY Zenon, <2>2, BytesAreNumbers DEF Taken
  <2>4. Opt(k.val, k.val) = k.val
    BY Zenon, <2>3, NoneIsNone DEF Opt
  <2>5. QED
    BY Zenon, <1>1, <2>3, <2>4 DEF FieldTaken
<1>2. CASE f \notin fs
  <2>1. k = Ok(a, None)
    BY Zenon, <1>2 DEF Field
  <2>2. k.at = a /\ k.val = None
    BY SMT, <2>1 DEF Ok
  <2>3. Opt(k.val, k.val) = <<>>
    BY Zenon, <2>2 DEF Opt
  <2>4. a = a + Len(<<>>) /\ a <= a
    BY SMT
  <2>5. QED
    BY Zenon, <1>2, <2>2, <2>3, <2>4 DEF FieldTaken, Got
<1>3. QED
  BY Zenon, <1>1, <1>2

SequenceTaken(fs, in, a, k) ==
  /\ Got(in, a, k) /\ a + Len(Opt(k.val, put_varint(k.val))) <= k.at
  /\ IF CLUSTERED \in fs THEN k.val \in Nat /\ k.val <= MaxSequence ELSE k.val = None /\ k.at = a

LEMMA SequenceGot ==
  ASSUME NEW in \in Seq(Byte), NEW a \in Nat, a <= Len(in), NEW fs,
         NEW k, k = Field(CLUSTERED, fs, a, be_sequence(in, a)), k.res = "ok"
  PROVE  SequenceTaken(fs, in, a, k)
<1>1. CASE CLUSTERED \in fs
  <2>1. k = be_sequence(in, a)
    BY Zenon, <1>1 DEF Field
  <2>2. PICK j : j = be_varint(in, a)
    BY Zenon
  <2>3. k = IF j.res = "ok" THEN IF j.val <= MaxSequence THEN Ok(j.at, j.val) ELSE Failure ELSE j
    BY Zenon, <2>1, <2>2 DEF be_sequence, Then
  <2>4. j.res = "ok"
    BY Zenon, <2>3
  <2>5. j.val <= MaxSequence
    <3>1. Failure.res = "failure"
      BY SMT DEF Failure
    <3>2. "failure" # "ok"
      BY SMT
    <3>3. QED
      BY Zenon, <2>3, <2>4, <3>1, <3>2
  <2>6. k.at = j.at /\ k.val = j.val
    <3>1. k = Ok(j.at, j.val)
      BY Zenon, <2>3, <2>4, <2>5
    <3>2. QED
      BY SMT, <3>1 DEF Ok
  <2>7. Got(in, a, j) /\ j.val \in Nat /\ (Fits(j.val) => a + Len(put_varint(j.val)) <= j.at)
    BY Zenon, <2>2, <2>4, VarintRead
  <2>8. Fits(j.val)
    BY Zenon, <2>5, <2>7, FitsSequence
  <2>9. Opt(k.val, put_varint(k.val)) = put_varint(j.val)
    BY Zenon, <2>6, <2>7, NoneIsNone DEF Opt
  <2>10. QED
    BY Zenon, <1>1, <2>5, <2>6, <2>7, <2>8, <2>9 DEF SequenceTaken, Got
<1>2. CASE CLUSTERED \notin fs
  <2>1. k = Ok(a, None)
    BY Zenon, <1>2 DEF Field
  <2>2. k.at = a /\ k.val = None
    BY SMT, <2>1 DEF Ok
  <2>3. Opt(k.val, put_varint(k.val)) = <<>>
    BY Zenon, <2>2 DEF Opt
  <2>4. a + Len(<<>>) <= a /\ a <= a
    BY SMT
  <2>5. QED
    BY Zenon, <1>2, <2>2, <2>3, <2>4 DEF SequenceTaken, Got
<1>3. QED
  BY Zenon, <1>1, <1>2

SignatureTaken(fs, in, a, k) ==
  /\ Got(in, a, k)
  /\ IF SIGNED \in fs
     THEN /\ Signature(k.val)
          /\ a + (2 + Len(put_varint(Len(k.val.bytes))) + Len(k.val.bytes)) <= k.at
     ELSE k.val = None /\ k.at = a

LEMMA SignatureGot ==
  ASSUME NEW in \in Seq(Byte), Fits(Len(in)), NEW a \in Nat, a <= Len(in), NEW fs,
         NEW k, k = be_endpoint_signature(in, a, fs), k.res = "ok"
  PROVE  SignatureTaken(fs, in, a, k)
<1>1. CASE SIGNED \notin fs
  <2>1. k = IF a = Len(in) THEN Ok(a, None) ELSE Error(in, a)
    BY Zenon, <1>1 DEF be_endpoint_signature
  <2>2. Error(in, a).res = "error" /\ "error" # "ok"
    BY SMT DEF Error
  <2>3. k = Ok(a, None)
    BY Zenon, <2>1, <2>2
  <2>4. k.at = a /\ k.val = None /\ a <= a
    BY SMT, <2>3 DEF Ok
  <2>5. QED
    BY Zenon, <1>1, <2>4 DEF SignatureTaken, Got
<1>2. CASE SIGNED \in fs
  <2>1. PICK h : h = take(in, a, 2)
    BY Zenon
  <2>2. k = IF h.res = "ok" THEN SignatureLength(in, h.val, h.at) ELSE h
    BY Zenon, <1>2, <2>1, SignatureStaged DEF Then
  <2>3. h.res = "ok" /\ k = SignatureLength(in, h.val, h.at)
    BY Zenon, <2>2
  <2>4. Taken(in, a, 2, h)
    BY Zenon, <2>1, <2>3, 2 \in Nat, TakeRead
  <2>5. h.at = a + 2 /\ h.at \in Nat /\ h.val \in Seq(Nat) /\ Len(h.val) = 2
    BY Zenon, <2>4, BytesAreNumbers DEF Taken, Got
  <2>6. PICK i : i = be_varint(in, h.at)
    BY Zenon
  <2>7. k = IF i.res = "ok" THEN SignatureRest(in, h.val, i.at, i.val) ELSE i
    BY Zenon, <2>3, <2>6 DEF SignatureLength, Then
  <2>8. i.res = "ok" /\ k = SignatureRest(in, h.val, i.at, i.val)
    BY Zenon, <2>7
  <2>9. Got(in, h.at, i) /\ i.val \in Nat /\ (Fits(i.val) => h.at + Len(put_varint(i.val)) <= i.at)
    BY Zenon, <2>5, <2>6, <2>8, VarintRead
  <2>10. PICK j : j = take(in, i.at, i.val)
    BY Zenon
  <2>11. k = IF j.res = "ok" THEN Ok(j.at, [scheme |-> h.val, bytes |-> j.val]) ELSE j
    BY Zenon, <2>8, <2>10 DEF SignatureRest, Then
  <2>12. j.res = "ok" /\ k = Ok(j.at, [scheme |-> h.val, bytes |-> j.val])
    BY Zenon, <2>11
  <2>13. i.at \in Nat
    BY Zenon, <2>9 DEF Got
  <2>14. Taken(in, i.at, i.val, j)
    BY Zenon, <2>9, <2>10, <2>12, <2>13, TakeRead
  <2>15. j.at = i.at + i.val /\ j.at \in Nat /\ j.at <= Len(in) /\ j.val \in Seq(Nat) /\ Len(j.val) = i.val
    BY Zenon, <2>14, BytesAreNumbers DEF Taken, Got
  <2>16. Fits(i.val)
    BY SMT, <2>9, <2>13, <2>15 DEF Fits
  <2>17. PICK x : x = k.val /\ x = [scheme |-> h.val, bytes |-> j.val] /\ k.at = j.at
    BY SMT, <2>12 DEF Ok
  <2>18. x.scheme = h.val /\ x.bytes = j.val
    BY SMT, <2>17
  <2>19. Signature(x)
    BY Zenon, <2>5, <2>15, <2>16, <2>17, <2>18 DEF Signature
  <2>20. Len(put_varint(i.val)) \in Nat
    BY SMT, <2>16, VarintIsNumbers
  <2>21. h.at + Len(put_varint(i.val)) <= i.at
    BY Zenon, <2>9, <2>16
  <2>22. a + (2 + Len(put_varint(i.val)) + i.val) <= j.at /\ a <= j.at
    BY SMT, <2>5, <2>9, <2>13, <2>15, <2>20, <2>21
  <2>23. Got(in, a, k)
    BY Zenon, <2>15, <2>17, <2>22 DEF Got
  <2>24. QED
    BY Zenon, <1>2, <2>15, <2>17, <2>18, <2>19, <2>22, <2>23 DEF SignatureTaken
<1>3. QED
  BY Zenon, <1>1, <1>2

LEMMA FirstByte ==
  ASSUME NEW in \in Seq(Byte), NEW at \in Nat, NEW k, k = take(in, at, 1), k.res = "ok"
  PROVE  k.val[1] = in[at + 1]
<1>1. PICK S : S = Byte
  BY Zenon
<1>2. in \in Seq(S)
  BY Zenon, <1>1
<1>3. at + 1 <= Len(in) /\ k.val = SubSeq(in, at + 1, at + 1)
  BY SMT, <1>2 DEF take, Ok, Incomplete
<1>4. SubSeq(in, at + 1, at + 1)[1] = in[at + 1]
  BY SMT, <1>2, <1>3
<1>5. QED
  BY Zenon, <1>3, <1>4

(* No field of the record may have been written in more bytes than needed. *)
Tight(e) == CLUSTERED \notin e.flags /\ SIGNED \notin e.flags

(* Once read, a record is what a writer could have written, in no more     *)
(* bytes than were read.                                                   *)
LEMMA RecordRead ==
  ASSUME NEW in \in Seq(Byte), Fits(Len(in)), NEW at \in Nat,
         NEW k, k = be_endpoint_addr(in, at), k.res = "ok"
  PROVE  /\ WellFormed(k.val) /\ k.at \in Nat /\ at + Len(put_endpoint_addr(k.val)) <= k.at
         /\ k.val.flags = flags_of(in[at + 1])
         /\ Tight(k.val) => k.at = at + Len(put_endpoint_addr(k.val))
<1>1. PICK k0 : k0 = take(in, at, 1)
  BY Zenon
<1>2. k = IF k0.res = "ok" THEN FromSequence(in, flags_of(k0.val[1]), k0.at) ELSE k0
  BY Zenon, <1>1, Staged DEF Then
<1>3. PICK fs : fs = flags_of(k0.val[1])
  BY Zenon
<1>4. k0.res = "ok" /\ k = FromSequence(in, fs, k0.at)
  BY Zenon, <1>2, <1>3
<1>5. PICK k1 : k1 = Field(CLUSTERED, fs, k0.at, be_sequence(in, k0.at))
  BY Zenon
<1>6. k = IF k1.res = "ok" THEN FromPrimary(in, fs, k1.val, k1.at) ELSE k1
  BY Zenon, <1>4, <1>5 DEF FromSequence, Then
<1>7. k1.res = "ok" /\ k = FromPrimary(in, fs, k1.val, k1.at)
  BY Zenon, <1>6
<1>8. PICK k2 : k2 = take(in, k1.at, Size(fs))
  BY Zenon
<1>9. k = IF k2.res = "ok" THEN FromAgent(in, fs, k1.val, k2.val, k2.at) ELSE k2
  BY Zenon, <1>7, <1>8 DEF FromPrimary, Then
<1>10. k2.res = "ok" /\ k = FromAgent(in, fs, k1.val, k2.val, k2.at)
  BY Zenon, <1>9
<1>11. PICK k3 : k3 = Field(NAT, fs, k2.at, take(in, k2.at, Size(fs)))
  BY Zenon
<1>12. k = IF k3.res = "ok" THEN FromLoad(in, fs, k1.val, k2.val, k3.val, k3.at) ELSE k3
  BY Zenon, <1>10, <1>11 DEF FromAgent, Then
<1>13. k3.res = "ok" /\ k = FromLoad(in, fs, k1.val, k2.val, k3.val, k3.at)
  BY Zenon, <1>12
<1>14. PICK k4 : k4 = Field(LOAD, fs, k3.at, take(in, k3.at, 4))
  BY Zenon
<1>15. k = IF k4.res = "ok" THEN FromSignature(in, fs, k1.val, k2.val, k3.val, k4.val, k4.at) ELSE k4
  BY Zenon, <1>13, <1>14 DEF FromLoad, Then
<1>16. k4.res = "ok" /\ k = FromSignature(in, fs, k1.val, k2.val, k3.val, k4.val, k4.at)
  BY Zenon, <1>15
<1>17. PICK k5 : k5 = be_endpoint_signature(in, k4.at, fs)
  BY Zenon
<1>18. k = IF k5.res = "ok" THEN Ok(k5.at, Made(fs, k1.val, k2.val, k3.val, k4.val, k5.val)) ELSE k5
  BY Zenon, <1>16, <1>17 DEF FromSignature, Then
<1>19. k5.res = "ok" /\ k = Ok(k5.at, Made(fs, k1.val, k2.val, k3.val, k4.val, k5.val))
  BY Zenon, <1>18
<1>20. fs \in SUBSET Bits
  BY Zenon, <1>3 DEF flags_of
<1>21. Size(fs) \in Nat
  BY SMT DEF Size
<1>22. Taken(in, at, 1, k0)
  BY Zenon, <1>1, <1>4, 1 \in Nat, TakeRead
<1>23. SequenceTaken(fs, in, k0.at, k1)
  <2>1. k0.at \in Nat /\ k0.at <= Len(in)
    BY Zenon, <1>22 DEF Taken, Got
  <2>2. QED
    BY Zenon, <1>5, <1>7, <2>1, SequenceGot
<1>24. Taken(in, k1.at, Size(fs), k2)
  <2>1. k1.at \in Nat
    BY Zenon, <1>23 DEF SequenceTaken, Got
  <2>2. QED
    BY Zenon, <1>8, <1>10, <1>21, <2>1, TakeRead
<1>25. FieldTaken(NAT, fs, Size(fs), in, k2.at, k3)
  <2>1. k2.at \in Nat /\ k2.at <= Len(in)
    BY Zenon, <1>24 DEF Taken, Got
  <2>2. QED
    BY Zenon, <1>11, <1>13, <1>21, <2>1, FieldGot
<1>26. FieldTaken(LOAD, fs, 4, in, k3.at, k4)
  <2>1. k3.at \in Nat /\ k3.at <= Len(in)
    BY Zenon, <1>25 DEF FieldTaken, Got
  <2>2. QED
    BY Zenon, <1>14, <1>16, 4 \in Nat, <2>1, FieldGot
<1>27. SignatureTaken(fs, in, k4.at, k5)
  <2>1. k4.at \in Nat /\ k4.at <= Len(in)
    BY Zenon, <1>26 DEF FieldTaken, Got
  <2>2. QED
    BY Zenon, <1>17, <1>19, <2>1, SignatureGot
<1>28. PICK e : e = k.val
  BY Zenon
<1>29. /\ k.at = k5.at /\ e.flags = fs /\ e.sequence = k1.val /\ e.primary = k2.val
       /\ e.agent = k3.val /\ e.load = k4.val /\ e.signature = k5.val
       /\ e = Made(e.flags, e.sequence, e.primary, e.agent, e.load, e.signature)
  BY SMT, <1>19, <1>28 DEF Ok, Made
<1>30. WellFormed(e)
  <2>1. e.primary \in Seq(Nat) /\ Len(e.primary) = Size(e.flags)
    BY Zenon, <1>24, <1>29, BytesAreNumbers DEF Taken
  <2>2. IF CLUSTERED \in e.flags THEN e.sequence \in Nat /\ e.sequence <= MaxSequence
        ELSE e.sequence = None
    BY Zenon, <1>23, <1>29 DEF SequenceTaken
  <2>3. IF NAT \in e.flags THEN e.agent \in Seq(Nat) /\ Len(e.agent) = Size(e.flags) ELSE e.agent = None
    BY Zenon, <1>25, <1>29 DEF FieldTaken
  <2>4. IF LOAD \in e.flags THEN e.load \in Seq(Nat) /\ Len(e.load) = 4 ELSE e.load = None
    BY Zenon, <1>26, <1>29 DEF FieldTaken
  <2>5. IF SIGNED \in e.flags THEN Signature(e.signature) ELSE e.signature = None
    BY Zenon, <1>27, <1>29 DEF SignatureTaken
  <2>6. QED
    BY Zenon, <1>20, <1>29, <2>1, <2>2, <2>3, <2>4, <2>5 DEF WellFormed
<1>31. /\ k0.at = at + 1 /\ k0.at \in Nat /\ k1.at \in Nat
       /\ k0.at + Len(SequenceBytes(e)) <= k1.at
       /\ k2.at = k1.at + Len(e.primary) /\ k3.at = k2.at + Len(AgentBytes(e))
       /\ k4.at = k3.at + Len(LoadBytes(e)) /\ k4.at \in Nat /\ k5.at \in Nat
  <2>1. k2.at = k1.at + Len(e.primary)
    BY Zenon, <1>24, <1>29 DEF Taken
  <2>2. k3.at = k2.at + Len(AgentBytes(e))
    BY Zenon, <1>25, <1>29 DEF FieldTaken, AgentBytes
  <2>3. k4.at = k3.at + Len(LoadBytes(e))
    BY Zenon, <1>26, <1>29 DEF FieldTaken, LoadBytes
  <2>4. k0.at + Len(SequenceBytes(e)) <= k1.at
    BY Zenon, <1>23, <1>29 DEF SequenceTaken, SequenceBytes
  <2>5. QED
    BY Zenon, <1>22, <1>23, <1>26, <1>27, <2>1, <2>2, <2>3, <2>4
    DEF Taken, SequenceTaken, FieldTaken, SignatureTaken, Got
<1>32. k4.at + SignatureLen(e) <= k5.at
  <2>1. CASE SIGNED \in fs
    <3>1. Carried(e)
      BY Zenon, <1>27, <1>29, <2>1, NoneIsNone DEF SignatureTaken, Carried
    <3>2. QED
      BY Zenon, <1>27, <1>29, <2>1, <3>1 DEF SignatureTaken, SignatureLen
  <2>2. CASE SIGNED \notin fs
    <3>1. SignatureLen(e) = 0
      BY Zenon, <1>29, <2>2 DEF SignatureLen, Carried
    <3>2. k4.at <= k5.at
      BY Zenon, <1>27 DEF SignatureTaken, Got
    <3>3. QED
      BY SMT, <1>31, <3>1, <3>2
  <2>3. QED
    BY Zenon, <2>1, <2>2
<1>33. at + Len(put_endpoint_addr(e)) <= k5.at
  <2>1. PICK s, p, g, l, z, n :
          /\ s = Len(SequenceBytes(e)) /\ p = Len(e.primary) /\ g = Len(AgentBytes(e))
          /\ l = Len(LoadBytes(e)) /\ z = SignatureLen(e) /\ n = Len(put_endpoint_addr(e))
    BY Zenon
  <2>2. n = 1 + s + p + g + l + z /\ s \in Nat /\ p \in Nat /\ g \in Nat /\ l \in Nat /\ z \in Nat
    BY Zenon, <1>30, <2>1, RecordLength
  <2>3. /\ k0.at = at + 1 /\ k0.at + s <= k1.at /\ k2.at = k1.at + p /\ k3.at = k2.at + g
        /\ k4.at = k3.at + l /\ k4.at + z <= k5.at
        /\ k0.at \in Nat /\ k1.at \in Nat /\ k4.at \in Nat /\ k5.at \in Nat
    BY Zenon, <1>31, <1>32, <2>1
  <2>4. at + n <= k5.at
    <3>1. PICK x1 \in Nat, x5 \in Nat : x1 = k1.at /\ x5 = k5.at
      BY Zenon, <2>3
    <3>2. (at + 1) + s <= x1 /\ ((x1 + p) + g) + l + z <= x5
      BY Zenon, <2>3, <3>1
    <3>3. at + n <= x5
      BY SMT, <2>2, <3>2
    <3>4. QED
      BY Zenon, <3>1, <3>3
  <2>5. QED
    BY Zenon, <2>1, <2>4
<1>34. ASSUME Tight(e) PROVE k5.at = at + Len(put_endpoint_addr(e))
  <2>1. CLUSTERED \notin fs /\ SIGNED \notin fs
    BY Zenon, <1>29, <1>34 DEF Tight
  <2>2. k1.at = k0.at /\ k5.at = k4.at
    BY Zenon, <1>23, <1>27, <2>1 DEF SequenceTaken, SignatureTaken
  <2>3. Len(SequenceBytes(e)) = 0 /\ SignatureLen(e) = 0
    <3>1. SequenceBytes(e) = <<>>
      BY Zenon, <1>23, <1>29, <2>1 DEF SequenceTaken, SequenceBytes, Opt
    <3>2. Len(<<>>) = 0
      BY SMT
    <3>3. SignatureLen(e) = 0
      BY Zenon, <1>29, <2>1 DEF SignatureLen, Carried
    <3>4. QED
      BY Zenon, <3>1, <3>2, <3>3
  <2>4. PICK p, g, l, n : /\ p = Len(e.primary) /\ g = Len(AgentBytes(e))
                          /\ l = Len(LoadBytes(e)) /\ n = Len(put_endpoint_addr(e))
    BY Zenon
  <2>5. n = 1 + 0 + p + g + l + 0 /\ p \in Nat /\ g \in Nat /\ l \in Nat
    BY Zenon, <1>30, <2>3, <2>4, RecordLength
  <2>6. k5.at = (((at + 1) + p) + g) + l
    BY Zenon, <1>31, <2>2, <2>4
  <2>7. (((at + 1) + p) + g) + l = at + n
    BY SMT, <2>5
  <2>8. QED
    BY Zenon, <2>4, <2>6, <2>7
<1>35. e.flags = flags_of(in[at + 1])
  BY Zenon, <1>1, <1>3, <1>4, <1>29, FirstByte
<1>36. QED
  BY Zenon, <1>28, <1>29, <1>30, <1>31, <1>33, <1>34, <1>35

LEMMA ReadIsRewritten ==
  ASSUME NEW in \in Seq(Byte), Fits(Len(in)), NEW at \in Nat,
         NEW k, k = be_endpoint_addr(in, at), k.res = "ok"
  PROVE  Rewritten(k.val, k.at - at)
<1>1. PICK e, w : e = k.val /\ w = put_endpoint_addr(e)
  BY Zenon
<1>2. WellFormed(e) /\ k.at \in Nat /\ at + Len(w) <= k.at
  BY Zenon, <1>1, RecordRead
<1>3. w \in Seq(Nat) /\ Len(w) = encpding_size(e)
  BY Zenon, <1>1, <1>2, RecordIsBytes, SpaceTaken
<1>4. Len(w) \in Nat /\ Len(w) <= k.at - at /\ 0 + Len(w) = Len(w)
  BY SMT, <1>2, <1>3
<1>5. Found(w, 0, w)
  BY SMT, <1>3, <1>4 DEF Found
<1>6. be_endpoint_addr(w, 0) = Ok(Len(w), e)
  BY Zenon, <1>1, <1>2, <1>4, <1>5, RecordFound
<1>7. QED
  BY Zenon, <1>1, <1>3, <1>4, <1>6 DEF Rewritten

(* Whatever bytes a record is read from, it is one that is written in no   *)
(* more bytes than those and then read as the same record: reading gives   *)
(* no record that writing would change (endpoint.rs:416-542, 647-668).     *)
THEOREM ReadingIsStable ==
  \A in \in Seq(Byte), at \in Nat :
    Len(in) < 2 ^ 30 /\ be_endpoint_addr(in, at).res = "ok"
      => Rewritten(be_endpoint_addr(in, at).val, be_endpoint_addr(in, at).at - at)
<1> SUFFICES ASSUME NEW in \in Seq(Byte), NEW at \in Nat, Len(in) < 2 ^ 30,
                    NEW k, k = be_endpoint_addr(in, at), k.res = "ok"
             PROVE  Rewritten(k.val, k.at - at)
  BY Zenon
<1>1. Len(in) \in Nat
  OBVIOUS
<1>2. Fits(Len(in))
  BY Zenon, <1>1 DEF Fits
<1>3. QED
  BY Zenon, <1>2, ReadIsRewritten

LegacySize(n) == IF n \in {6, 12} THEN 6 ELSE 18
LegacyRest(in, n, a, primary) ==
  IF n = LegacySize(n) THEN Ok(a, direct(primary))
  ELSE Then(take(in, a, LegacySize(n)), LAMBDA b, agent : Ok(b, nat(primary, agent)))

LEMMA LegacyStaged ==
  ASSUME NEW in, NEW at, NEW n
  PROVE  be_legacy_endpoint_addr_by_length(in, at, n)
         = Then(take(in, at, LegacySize(n)), LAMBDA a, primary : LegacyRest(in, n, a, primary))
BY DEF be_legacy_endpoint_addr_by_length, LegacyOf, LegacyRest, LegacySize

ReadAs(r, n, e) == r.res = "ok" /\ r.at = n /\ r.val = e

LEMMA OkReadAs ==
  ASSUME NEW r, NEW n, NEW e, r = Ok(n, e)
  PROVE  ReadAs(r, n, e)
BY SMT DEF Ok, ReadAs

LEMMA TakeThere ==
  ASSUME NEW in, NEW a, NEW n, NEW c, c = a + n, c <= Len(in), NEW d, d = a + 1
  PROVE  ReadAs(take(in, a, n), c, SubSeq(in, d, c))
<1>1. take(in, a, n) = Ok(c, SubSeq(in, d, c))
  BY Zenon DEF take
<1>2. QED
  BY Zenon, <1>1, OkReadAs

Sizes(n, size) ==
  /\ size <= n /\ size = 0 + size /\ 1 = 0 + 1 /\ n <= n
  /\ Fits(n) /\ n - 0 = n
  /\ \/ n \in {6, 18} /\ n = size
     \/ n \in {12, 36} /\ n \notin {6, 18} /\ n = size + size /\ n # size /\ n \div 2 = size

LEMMA LegacySizes ==
  ASSUME NEW n \in {6, 12, 18, 36}
  PROVE  Sizes(n, LegacySize(n))
<1>1. CASE n = 6
  BY SMT, <1>1 DEF LegacySize, Sizes, Fits
<1>2. CASE n = 12
  BY SMT, <1>2 DEF LegacySize, Sizes, Fits
<1>3. CASE n = 18
  BY SMT, <1>3 DEF LegacySize, Sizes, Fits
<1>4. CASE n = 36
  BY SMT, <1>4 DEF LegacySize, Sizes, Fits
<1>5. QED
  BY Zenon, <1>1, <1>2, <1>3, <1>4

(* The addresses of a legacy record. *)
LEMMA LegacyAddresses ==
  ASSUME NEW b \in Seq(Byte), NEW n, n = Len(b), n \in {6, 12, 18, 36},
         NEW r, r = be_legacy_endpoint_addr_by_length(b, 0, n)
  PROVE  ReadAs(r, n, LegacyMeaning(b))
<1>1. PICK size, k : size = LegacySize(n) /\ k = take(b, 0, size)
  BY Zenon
<1>2. Sizes(n, size)
  BY Zenon, <1>1, LegacySizes
<1>3. k.res = "ok" /\ k.at = size /\ k.val = SubSeq(b, 1, size)
  <2>1. size <= Len(b) /\ size = 0 + size /\ 1 = 0 + 1
    BY Zenon, <1>2 DEF Sizes
  <2>2. ReadAs(take(b, 0, size), size, SubSeq(b, 1, size))
    BY Zenon, <2>1, TakeThere
  <2>3. QED
    BY Zenon, <1>1, <2>2 DEF ReadAs
<1>4. r = IF k.res = "ok" THEN LegacyRest(b, n, k.at, k.val) ELSE k
  BY Zenon, <1>1, LegacyStaged DEF Then
<1>5. r = LegacyRest(b, n, size, SubSeq(b, 1, size))
  BY Zenon, <1>3, <1>4
<1>6. CASE n \in {6, 18} /\ n = size
  <2>1. SubSeq(b, 1, size) = b
    <3>1. PICK S : S = Byte
      BY Zenon
    <3>2. b \in Seq(S)
      BY Zenon, <3>1
    <3>3. SubSeq(b, 1, Len(b)) = b
      BY SMT, <3>2
    <3>4. QED
      BY Zenon, <1>6, <3>3
  <2>2. r = Ok(size, direct(b))
    BY Zenon, <1>1, <1>5, <1>6, <2>1 DEF LegacyRest
  <2>3. r.res = "ok" /\ r.at = size /\ r.val = direct(b)
    BY SMT, <2>2 DEF Ok
  <2>4. LegacyMeaning(b) = direct(b)
    BY SMT, <1>6 DEF LegacyMeaning
  <2>5. QED
    BY Zenon, <1>6, <2>3, <2>4 DEF ReadAs
<1>7. CASE n \in {12, 36} /\ n \notin {6, 18} /\ n = size + size /\ n # size /\ n \div 2 = size
  <2>1. PICK j : j = take(b, size, size)
    BY Zenon
  <2>3. j.res = "ok" /\ j.at = n /\ j.val = SubSeq(b, size + 1, n)
    <3>1. n = size + size /\ n <= Len(b) /\ size + 1 = size + 1
      BY Zenon, <1>2, <1>7 DEF Sizes
    <3>2. ReadAs(take(b, size, size), n, SubSeq(b, size + 1, n))
      BY Zenon, <3>1, TakeThere
    <3>3. QED
      BY Zenon, <2>1, <3>2 DEF ReadAs
  <2>4. r = IF j.res = "ok" THEN Ok(j.at, nat(SubSeq(b, 1, size), j.val)) ELSE j
    BY Zenon, <1>1, <1>5, <1>7, <2>1 DEF LegacyRest, Then
  <2>5. r = Ok(n, nat(SubSeq(b, 1, size), SubSeq(b, size + 1, n)))
    BY Zenon, <2>3, <2>4
  <2>6. r.res = "ok" /\ r.at = n /\ r.val = nat(SubSeq(b, 1, size), SubSeq(b, size + 1, n))
    BY SMT, <2>5 DEF Ok
  <2>7. LegacyMeaning(b) = nat(SubSeq(b, 1, size), SubSeq(b, size + 1, n))
    BY Zenon, <1>7 DEF LegacyMeaning
  <2>8. QED
    BY Zenon, <2>6, <2>7 DEF ReadAs
<1>8. QED
  BY Zenon, <1>2, <1>6, <1>7 DEF Sizes

(* A record of this version with neither sequence, load nor signature has  *)
(* no legacy length, and none is as short as six bytes.                    *)
LEMMA ModernLength ==
  ASSUME NEW b \in Seq(Byte), NEW n, n = Len(b), n \in {6, 12, 18, 36}, AddressOnly(b),
         NEW m, m = be_endpoint_addr(b, 0)
  PROVE  ~ (m.res = "ok" /\ m.at = n)
<1> SUFFICES ASSUME m.res = "ok", m.at = n PROVE FALSE
  OBVIOUS
<1>1. PICK e, w : e = m.val /\ w = Len(put_endpoint_addr(e))
  BY Zenon
<1>2. Fits(Len(b)) /\ 0 \in Nat
  BY Zenon, LegacySizes, 0 \in Nat DEF Sizes
<1>3. WellFormed(e) /\ 0 + w <= n /\ e.flags = flags_of(b[0 + 1]) /\ (Tight(e) => n = 0 + w)
  BY Zenon, <1>1, <1>2, RecordRead
<1>4. 0 + 1 = 1
  BY SMT
<1>5. e.flags = flags_of(b[1])
  BY Zenon, <1>3, <1>4
<1>6. PICK s, p, g, l, z :
        /\ s = Len(SequenceBytes(e)) /\ p = Len(e.primary) /\ g = Len(AgentBytes(e))
        /\ l = Len(LoadBytes(e)) /\ z = SignatureLen(e)
  BY Zenon
<1>7. w = 1 + s + p + g + l + z /\ s \in Nat /\ p \in Nat /\ g \in Nat /\ l \in Nat /\ z \in Nat
  BY Zenon, <1>1, <1>3, <1>6, RecordLength
<1>8. p = Size(e.flags)
  BY Zenon, <1>3, <1>6 DEF WellFormed
<1>9. p = 18 \/ p = 6
  BY Zenon, <1>8 DEF Size
<1>10. CASE n = 6
  BY SMT, <1>3, <1>7, <1>9, <1>10
<1>11. CASE flags_of(b[1]) \cap {CLUSTERED, LOAD, SIGNED} = {}
  <2>1. CLUSTERED \notin e.flags /\ LOAD \notin e.flags /\ SIGNED \notin e.flags
    BY Zenon, <1>5, <1>11
  <2>2. Tight(e)
    BY Zenon, <2>1 DEF Tight
  <2>3. Len(<<>>) = 0
    BY SMT
  <2>4. s = 0 /\ l = 0 /\ z = 0
    <3>1. e.sequence = None /\ e.load = None
      BY Zenon, <1>3, <2>1 DEF WellFormed
    <3>2. QED
      BY Zenon, <1>6, <2>1, <2>3, <3>1 DEF SequenceBytes, LoadBytes, Opt, SignatureLen, Carried
  <2>5. g = p \/ g = 0
    <3>1. CASE NAT \in e.flags
      <4>1. e.agent \in Seq(Nat) /\ Len(e.agent) = Size(e.flags)
        BY Zenon, <1>3, <3>1 DEF WellFormed
      <4>2. AgentBytes(e) = e.agent
        BY Zenon, <4>1, NoneIsNone DEF AgentBytes, Opt
      <4>3. QED
        BY Zenon, <1>6, <1>8, <4>1, <4>2
    <3>2. CASE NAT \notin e.flags
      BY Zenon, <1>3, <1>6, <2>3, <3>2 DEF WellFormed, AgentBytes, Opt
    <3>3. QED
      BY Zenon, <3>1, <3>2
  <2>6. n = 0 + w
    BY Zenon, <1>3, <2>2
  <2>7. QED
    BY SMT, <1>7, <1>9, <2>4, <2>5, <2>6
<1>12. QED
  BY Zenon, <1>10, <1>11 DEF AddressOnly

(* Every record of a legacy length is read, to its end, and as the         *)
(* addresses it consists of whenever the high byte of its port has none of *)
(* the flags CLUSTERED, LOAD and SIGNED, or it is a lone IPv4 address      *)
(* (endpoint.rs:544-645).                                                  *)
THEOREM LegacyIsRead ==
  \A b \in Seq(Byte) : Len(b) \in LegacyLength => LegacyRead(b)
<1> SUFFICES ASSUME NEW b \in Seq(Byte), Len(b) \in LegacyLength PROVE LegacyRead(b)
  BY Zenon
<1>1. PICK n : n = Len(b) /\ n \in {6, 12, 18, 36}
  BY Zenon DEF LegacyLength
<1>2. PICK m : m = be_endpoint_addr(b, 0)
  BY Zenon
<1>3. PICK r : r = be_endpoint_addr_compat(b, 0, n)
  BY Zenon
<1>4. r = IF m.res = "ok" /\ m.at = n THEN m ELSE be_legacy_endpoint_addr_by_length(b, 0, n)
  BY Zenon, <1>1, <1>2, <1>3 DEF be_endpoint_addr_compat
<1>5. r.res = "ok" /\ r.at = n /\ (AddressOnly(b) => r.val = LegacyMeaning(b))
  <2>1. CASE m.res = "ok" /\ m.at = n
    <3>1. ~AddressOnly(b)
      BY Zenon, <1>1, <1>2, <2>1, ModernLength
    <3>2. QED
      BY Zenon, <1>4, <2>1, <3>1
  <2>2. CASE ~ (m.res = "ok" /\ m.at = n)
    <3>1. r = be_legacy_endpoint_addr_by_length(b, 0, n)
      BY Zenon, <1>4, <2>2
    <3>2. ReadAs(r, n, LegacyMeaning(b))
      BY Zenon, <1>1, <3>1, LegacyAddresses
    <3>3. QED
      BY Zenon, <3>2 DEF ReadAs
  <2>3. QED
    BY Zenon, <2>1, <2>2
<1>6. QED
  BY <1>1, <1>3, <1>5 DEF LegacyRead
=============================================================================
