------------------------------- MODULE Packet -------------------------------
(***************************************************************************)
(* DNS messages of src/src/core/parser: a packet is built (with the        *)
(* endpoint record of EndpointAddr among its answers), written byte by     *)
(* byte with compressed names, perhaps cut short on its way, and read      *)
(* again.  Packets of other software have sections, types and classes that *)
(* this library never writes.  A name is a sequence of labels, a label a   *)
(* single byte.                                                            *)
(***************************************************************************)
EXTENDS EndpointAddr

CONSTANTS
  Name,
  Plain,       \* records of other software: [section, record]
  Lost,        \* how many bytes a message may lose
  MaxRecords,  \* bound on the records of a packet
  MaxOffset,   \* the largest offset a pointer holds, 0x3FFF in the code
  MaxMessage,  \* MAX_MDNS_DNS_MESSAGE_LEN
  Id           \* the packet's id

Sections == <<"questions", "answers", "nameservers", "additional">>
Section == {Sections[i] : i \in 1 .. 4}

VARIABLES
  sent,     \* what each section of the packet holds
  response, \* whether its header says that it is a response
  buf,      \* the message
  offsets,  \* NameCompression: where in it a suffix was written
  ends,     \* where in it the elements of each section end
  phase,    \* "build", "put" or "parse" and the section, "done" or "failed"
  section,
  turn,     \* how many of the section were put or tried
  pos, end, \* the slice left to read
  header,   \* the header it read
  got       \* what it read

packetVars == <<sent, response, buf, offsets, ends, phase, section, turn, pos, end, header, got>>
vars == <<epVars, packetVars>>

Empty == [s \in Section |-> <<>>]

Init ==
  /\ EpInit
  /\ sent = Empty /\ response = FALSE /\ buf = <<>> /\ offsets = <<>> /\ ends = Empty
  /\ phase = "build" /\ section = 1 /\ turn = 0
  /\ pos = 0 /\ end = 0 /\ header = None /\ got = Empty

-----------------------------------------------------------------------------
(* Numbers of the types and classes *)

A == 1
Ns == 2
Cname == 5
Ptr == 12
Txt == 16
AAAA == 28
Srv == 33
E == 266

Type == {A, Ns, Cname, Ptr, Txt, AAAA, Srv, E}
OldE == 267 .. 269
QueryType == (Type \ {Ns}) \cup OldE
Class == 1 .. 4
QueryClass == Class \cup {255}

type_of(n) == IF n \in OldE THEN E ELSE n
u16(n) == <<n \div 256, n % 256>>
TTL == <<0, 0, 1, 44>>  \* 300 seconds

(* The top bit of a class: prefer_unicast of a question, multicast_unique  *)
(* of a record.                                                            *)
class_bytes(c, top) == u16(c + IF top THEN 32768 ELSE 0)

-----------------------------------------------------------------------------
(* Building *)

Total == Len(sent["answers"]) + Len(sent["nameservers"]) + Len(sent["additional"])

Record(s) == {sent[s][i] : i \in 1 .. Len(sent[s])}

add(s, x) == sent' = [sent EXCEPT ![s] = Append(@, x)]

(* query asks a question; other software may add records to it. *)
add_question(name, top) ==
  /\ phase = "build" /\ ep = None /\ sent["questions"] = <<>>
  /\ add("questions", [name |-> name, typ |-> A, cls |-> 1, top |-> top])
  /\ UNCHANGED <<epVars, response, buf, offsets, ends, phase, section, turn, pos, end, header, got>>

(* answer adds the endpoint records of all names, in any order: the one    *)
(* that was built, and one more.                                           *)
add_answer(name, e) ==
  /\ phase = "build" /\ ep # None /\ Total < MaxRecords
  /\ \A r \in Record("answers") : r.data.E # e
  /\ add("answers", [name |-> name, typ |-> E, cls |-> 1, top |-> FALSE, data |-> [E |-> e]])
  /\ UNCHANGED <<epVars, response, buf, offsets, ends, phase, section, turn, pos, end, header, got>>

(* Other software. *)
AddPlain(r) ==
  /\ phase = "build" /\ ep = None /\ Total < MaxRecords
  /\ add(r.section, r.record)
  /\ UNCHANGED <<epVars, response, buf, offsets, ends, phase, section, turn, pos, end, header, got>>

(* The packet is complete: to_bytes begins.  answer makes a response, with *)
(* or without records, query makes none; other software makes either.      *)
put_header ==
  /\ phase = "build"
  /\ phase' = "put"
  /\ response' \in {TRUE, ep # None}
  /\ buf' = u16(Id) \o u16(IF response' THEN 32768 ELSE 0)
              \o u16(Len(sent["questions"])) \o u16(Len(sent["answers"]))
              \o u16(Len(sent["nameservers"])) \o u16(Len(sent["additional"]))
  /\ UNCHANGED <<epVars, sent, offsets, ends, section, turn, pos, end, header, got>>

(* The labels up to the first suffix that was written before, whose        *)
(* pointer ends the name; the suffixes written in full are remembered if a *)
(* pointer can hold their offset.                                          *)
put_name_upto(b, o, name, limit) ==
  LET n == Len(name)
      suffix(i) == SubSeq(name, i, n)
      i0 == CHOOSE i \in 1 .. n + 1 :
              /\ i = n + 1 \/ suffix(i) \in DOMAIN o
              /\ \A j \in 1 .. i - 1 : suffix(j) \notin DOMAIN o
      start(i) == Len(b) + 2 * (i - 1)
      new == {i \in 1 .. i0 - 1 : start(i) <= limit}
      labels == [k \in 1 .. 2 * (i0 - 1) |-> IF k % 2 = 1 THEN 1 ELSE name[k \div 2]]
  IN  [buf |-> b \o labels \o
                 IF i0 = n + 1 THEN <<0>>
                 ELSE u16(49152 + (o[suffix(i0)] % (MaxOffset + 1))),
       offsets |-> [x \in DOMAIN o \cup {suffix(i) : i \in new} |->
                      IF x \in DOMAIN o THEN o[x]
                      ELSE start(CHOOSE i \in new : x = suffix(i))]]

put_name_far(b, o, name) ==  \* mutant: an offset may not fit a pointer
  put_name_upto(b, o, name, Huge)

put_name(b, o, name) == put_name_upto(b, o, name, MaxOffset)

put_question(q) ==
  LET n == put_name(buf, offsets, q.name) IN
  [n EXCEPT !.buf = @ \o u16(q.typ) \o class_bytes(q.cls, q.top)]

(* Names in the data are compressed too. *)
put_data(b, o, data) ==
  LET plain(bytes) == [buf |-> b \o bytes, offsets |-> o] IN
  CASE DOMAIN data = {"E"} -> plain(put_endpoint_addr(data.E))
    [] DOMAIN data = {"bytes"} -> plain(data.bytes)
    [] DOMAIN data = {"name"} -> put_name(b, o, data.name)
    [] DOMAIN data = {"srv", "target"} -> put_name(b \o data.srv, o, data.target)

(* rdlen is written back when the data is there. *)
put_record(r) ==
  LET n == put_name(buf, offsets, r.name)
      fixed == n.buf \o u16(r.typ) \o class_bytes(r.cls, r.top) \o TTL
      d == put_data(fixed \o <<0, 0>>, n.offsets, r.data)
      start == Len(fixed) + 2
  IN  [d EXCEPT !.buf = fixed \o u16(Len(d.buf) - start) \o SubSeq(@, start + 1, Len(@))]

Put ==
  LET s == Sections[section]
      w == IF s = "questions" THEN put_question(sent[s][turn + 1])
                              ELSE put_record(sent[s][turn + 1]) IN
  /\ phase = "put" /\ turn < Len(sent[s])
  /\ buf' = w.buf /\ offsets' = w.offsets
  /\ ends' = [ends EXCEPT ![s] = Append(@, Len(w.buf))]
  /\ turn' = turn + 1
  /\ UNCHANGED <<epVars, sent, response, phase, section, pos, end, header, got>>

NextSection ==
  /\ phase = "put" /\ turn = Len(sent[Sections[section]]) /\ section < 4
  /\ section' = section + 1 /\ turn' = 0
  /\ UNCHANGED <<epVars, sent, response, buf, offsets, ends, phase, pos, end, header, got>>

(* On its way, in a datagram or a body, the message may lose its end. *)
Transmit(lost) ==
  /\ phase = "put" /\ section = 4 /\ turn = Len(sent["additional"])
  /\ buf' = SubSeq(buf, 1, Len(buf) - lost)
  /\ phase' = "receive" /\ section' = 1 /\ turn' = 0
  /\ UNCHANGED <<epVars, sent, response, offsets, ends, pos, end, header, got>>

-----------------------------------------------------------------------------
(* Reading *)

(* A pointer is followed unless it was followed before on the way here;    *)
(* what it points to is read from the whole message, and the name ends     *)
(* after the pointer.                                                      *)
RECURSIVE be_name_labels(_, _, _, _)
be_name_labels(in, p, origin, visited) ==
  Then(take(in, p, 1), LAMBDA a, len :
    IF len[1] = 0 THEN Ok(a, <<>>)
    ELSE IF len[1] >= 192
    THEN Then(take(in, a, 1), LAMBDA b, low :
           LET offset == (len[1] - 192) * 256 + low[1] IN
           IF offset >= Len(origin) \/ offset \in visited THEN Error(in, p)
           ELSE Then(be_name_labels(origin, offset, origin, visited \cup {offset}),
                     LAMBDA c, suffix : Ok(b, suffix)))
    ELSE IF len[1] > 63 THEN Error(in, p)
    ELSE Then(take(in, a, len[1]), LAMBDA b, label :
           Then(be_name_labels(in, b, origin, visited), LAMBDA c, rest :
             Ok(c, <<label[1]>> \o rest))))

be_name(in, p, origin) == be_name_labels(in, p, origin, {})

be_rdata(in, p, origin, typ) ==
  LET rdlen == Len(in) - p
      named(a, name) == Ok(a, [name |-> name])
      raw(a, bytes) == Ok(a, [bytes |-> bytes]) IN
  CASE typ = A -> Then(take(in, p, 4), raw)
    [] typ = AAAA -> Then(take(in, p, 16), raw)
    [] typ = Txt -> Then(take(in, p, rdlen), raw)
    [] typ \in {Cname, Ns, Ptr} -> Then(be_name(in, p, origin), named)
    [] typ = Srv -> Then(take(in, p, 6), LAMBDA a, srv :
                      Then(be_name(in, a, origin), LAMBDA b, target :
                        Ok(b, [srv |-> srv, target |-> target])))
    [] typ = E -> Then(be_endpoint_addr_compat(in, p, rdlen), LAMBDA a, e : Ok(a, [E |-> e]))

(* An unknown type is skipped with its data.  Errors in the data are       *)
(* reported where they are met, data left over at the end of the record.   *)
(* For an unknown class the length of the data is skipped a second time.   *)
ReadRecord(in, p, origin, exact) ==
  Then(be_name(in, p, origin), LAMBDA a, name :
  Then(take(in, a, 10), LAMBDA b, f :
    LET typ == type_of(number(SubSeq(f, 1, 2)))
        cls == number(SubSeq(f, 3, 4))
        rdlen == number(SubSeq(f, 9, 10))
        stop == b + rdlen
    IN  IF stop > Len(in) THEN Incomplete
        ELSE IF typ \notin Type THEN Error(in, stop)
        ELSE Then(be_rdata(SubSeq(in, 1, stop), b, origin, typ), LAMBDA c, data :
               IF exact /\ c # stop THEN Error(in, stop)
               ELSE IF cls % 32768 \notin Class
               THEN IF stop + rdlen > Len(in) THEN Incomplete ELSE Error(in, stop + rdlen)
               ELSE Ok(stop, [name |-> name, typ |-> typ, cls |-> cls % 32768,
                             top |-> cls >= 32768, data |-> data]))))

be_record_loose(in, p, origin) ==  \* mutant: data left over is not noticed
  ReadRecord(in, p, origin, FALSE)

be_record(in, p, origin) == ReadRecord(in, p, origin, TRUE)

be_question(in, p, origin) ==
  Then(be_name(in, p, origin), LAMBDA a, name :
  Then(take(in, a, 4), LAMBDA b, f :
    LET typ == number(SubSeq(f, 1, 2))
        cls == number(SubSeq(f, 3, 4))
    IN  IF typ \notin QueryType \/ cls % 32768 \notin QueryClass THEN Error(in, b)
        ELSE Ok(b, [name |-> name, typ |-> typ, cls |-> cls % 32768, top |-> cls >= 32768])))

be_header(in) ==
  Then(take(in, 0, 12), LAMBDA a, f :
    LET word(i) == number(SubSeq(f, 2 * i + 1, 2 * i + 2)) IN
    Ok(a, [id |-> word(0), response |-> word(1) >= 32768,
           count |-> [s \in Section |-> word(1 + CHOOSE i \in 1 .. 4 : Sections[i] = s)]]))

(* The message can hold what its header announces. *)
validate_section_counts(h, left) ==
  5 * h.count["questions"]
    + 11 * (h.count["answers"] + h.count["nameservers"] + h.count["additional"]) <= left

(* An oversized message is dropped unread. *)
Receive ==
  LET h == be_header(buf)
      accepted == /\ Len(buf) <= MaxMessage
                  /\ h.res = "ok"
                  /\ validate_section_counts(h.val, Len(buf) - h.at) IN
  /\ phase = "receive"
  /\ \/ /\ accepted
        /\ phase' = "parse" /\ header' = h.val /\ pos' = h.at /\ end' = Len(buf)
     \/ /\ ~accepted
        /\ phase' = "failed"
        /\ UNCHANGED <<header, pos, end>>
  /\ UNCHANGED <<epVars, sent, response, buf, offsets, ends, section, turn, got>>

(* One round of parse: an error costs the record, and reading goes on with *)
(* the slice it was reported at, which an error in the data of a record    *)
(* confines to that data; anything else ends the section where it is.      *)
ParseFrom(resume(_)) ==
  LET s == Sections[section]
      in == SubSeq(buf, 1, end)
      r == IF s = "questions" THEN be_question(in, pos, buf) ELSE be_record(in, pos, buf) IN
  /\ phase = "parse" /\ turn < header.count[s]
  /\ \/ /\ r.res = "ok"
        /\ got' = [got EXCEPT ![s] = Append(@, r.val)]
        /\ pos' = r.at /\ turn' = turn + 1
        /\ UNCHANGED end
     \/ /\ r.res = "error"
        /\ pos' = resume(r) /\ end' = r.val /\ turn' = turn + 1
        /\ UNCHANGED got
     \/ /\ r.res \in {"incomplete", "failure"}
        /\ turn' = header.count[s]
        /\ UNCHANGED <<got, pos, end>>
  /\ UNCHANGED <<epVars, sent, response, buf, offsets, ends, phase, section, header>>

ParseStuck == ParseFrom(LAMBDA r : pos)  \* mutant: the unreadable record is not left

Parse == ParseFrom(LAMBDA r : r.at)

ParseNext ==
  /\ phase = "parse" /\ turn = header.count[Sections[section]]
  /\ \/ section < 4 /\ section' = section + 1 /\ turn' = 0 /\ UNCHANGED phase
     \/ section = 4 /\ phase' = "done" /\ UNCHANGED <<section, turn>>
  /\ UNCHANGED <<epVars, sent, response, buf, offsets, ends, pos, end, header, got>>

Next ==
  \/ sent = Empty /\ phase = "build" /\ EpNext /\ UNCHANGED packetVars
  \/ \E n \in Name : \/ \E top \in BOOLEAN : add_question(n, top)
                   \/ \E e \in {ep, direct(CHOOSE a \in V4 : TRUE)} : add_answer(n, e)
  \/ \E r \in Plain : AddPlain(r)
  \/ put_header \/ Put \/ NextSection
  \/ \E lost \in Lost : Transmit(lost)
  \/ Receive \/ Parse \/ ParseNext

Spec == Init /\ [][Next]_vars

-----------------------------------------------------------------------------
(* Properties *)

Raw(r) == DOMAIN r.data = {"bytes"}
Endpoint(r) == type_of(r.typ) = E

(* What the data of an endpoint record is read as, taken by itself. *)
Data(r) == IF Raw(r) THEN r.data.bytes ELSE put_endpoint_addr(r.data.E)
Alone(r) == be_endpoint_addr_compat(Data(r), 0, Len(Data(r)))

(* The data of the record fits its type. *)
Sound(r) ==
  CASE Endpoint(r) -> \/ ~Raw(r) /\ Consistent(r.data.E)
                      \/ Alone(r).res = "ok" /\ Alone(r).at = Len(Data(r))
    [] r.typ = A -> Len(r.data.bytes) = 4
    [] r.typ = AAAA -> Len(r.data.bytes) = 16
    [] r.typ \in {Cname, Ns, Ptr, Srv} -> ~Raw(r)
    [] OTHER -> TRUE

Known(r) == type_of(r.typ) \in Type
Readable(r) == Known(r) /\ Sound(r) /\ r.cls \in Class

(* What the reader makes of it.  A signature goes out only with its flag;  *)
(* of legacy data, and of an endpoint flagged CLUSTERED or SIGNED without  *)
(* the field, it makes what the bytes say.                                 *)
Meaning(r) ==
  IF ~Endpoint(r) THEN r
  ELSE [r EXCEPT !.typ = E,
                 !.data = [E |-> IF ~Raw(r) /\ Consistent(r.data.E) THEN Sent(r.data.E)
                                 ELSE Alone(r).val]]

RECURSIVE Meanings(_, _)
Meanings(s, n) ==
  IF n = 0 THEN <<>>
  ELSE LET r == sent[s][n] IN
       Meanings(s, n - 1) \o IF s = "questions" THEN <<r>>
                             ELSE IF Readable(r) THEN <<Meaning(r)>> ELSE <<>>

Whole ==
  /\ Len(buf) >= 12
  /\ \A s \in Section : \A i \in 1 .. Len(ends[s]) : ends[s][i] <= Len(buf)
Records == Record("answers") \cup Record("nameservers") \cup Record("additional")

(* What to_bytes writes is read back exactly, with no byte left over (but  *)
(* for what is not modelled: time to live, and the scope of an address):   *)
(* names through any chain of pointers, counts, questions and records of   *)
(* every section; records of an unknown type are passed over and cost none *)
(* of the others, and an endpoint takes the space encpding_size says       *)
(* (packet.rs:112-139, 217-298, record.rs:225-236, endpoint.rs:329-357).   *)
ReadsBack ==
  Whole /\ Len(buf) <= MaxMessage /\ (\A r \in Records : Sound(r) /\ r.cls \in Class) =>
    /\ phase # "failed"
    /\ \A r \in Records : "E" \in DOMAIN r.data =>
         Len(put_endpoint_addr(r.data.E)) = encpding_size(r.data.E)
    /\ phase = "done" =>
         /\ header.id = Id /\ pos = Len(buf) /\ end = Len(buf)
         /\ header.response = response
         /\ \A s \in Section : got[s] = Meanings(s, Len(sent[s]))

(* An error in the data is reported where it is met, so that reading goes  *)
(* on inside the data (record.rs:244-253, packet.rs:288-292); after an     *)
(* unknown class the length of the data is skipped twice (record.rs:255):  *)
(* the reader is out of step, and may take other bytes for a record.       *)
OutOfStep(r) ==
  \/ r.cls \notin Class
  \/ r.typ \in {Cname, Ns, Ptr, Srv} /\ Raw(r)
  \/ Endpoint(r) /\ Alone(r).res = "error"

(* Otherwise a message that lost its end, or that has records of an        *)
(* unknown type or whose data is too short, too long or out of range,      *)
(* never yields a record that was not sent in that section: such a record  *)
(* is skipped as a whole, or reading stops there for good.                 *)
NothingInvented ==
  phase \in {"parse", "done"} /\ (\A r \in Records : ~OutOfStep(r)) =>
    \A s \in Section :
      /\ Len(got[s]) <= Len(Meanings(s, Len(sent[s])))
      /\ got[s] = SubSeq(Meanings(s, Len(sent[s])), 1, Len(got[s]))

(* Whatever follows in the message, the answers before the first one that  *)
(* cannot be read or was cut off are all kept.                             *)
GoodPrefixKept ==
  phase = "done" =>
    \A n \in 0 .. Len(sent["answers"]) :
      (\A i \in 1 .. n : /\ ends["answers"][i] <= Len(buf)
                         /\ Sound(sent["answers"][i])
                         /\ sent["answers"][i].cls \in Class) =>
        LET m == Meanings("answers", n) IN
        Len(got["answers"]) >= Len(m) /\ SubSeq(got["answers"], 1, Len(m)) = m

(* An address-only record of an older version is read to its end, and as   *)
(* its addresses where the high byte of the port does not announce a       *)
(* sequence, a load or a signature (endpoint.rs:544-571).  Where it does,  *)
(* the length does not tell the versions apart, as endpoint.rs:539-543 has *)
(* it do: the bytes may be taken for a record of this version.             *)
LegacyKept ==
  \A r \in Records : Endpoint(r) /\ Raw(r) /\ Len(r.data.bytes) \in LegacyLength
    => LegacyRead(r.data.bytes)
=============================================================================
