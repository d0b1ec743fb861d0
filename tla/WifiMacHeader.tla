---------------------------- MODULE WifiMacHeader ----------------------------
(***************************************************************************)
(* The 802.11 MAC header of the simulator (wifi/model/wifi-mac-header.cc),   *)
(* which has one more kind of frame, MBR_DATA, of subtype 16, and for it one *)
(* more bit of the frame control field for the subtype.                      *)
(*                                                                           *)
(* A header as it is sent is the sequence of its fields, numbers of 16 bits  *)
(* and addresses.                                                            *)
(***************************************************************************)
EXTENDS Integers, Sequences

TYPE_MGT  == 0
TYPE_CTL  == 1
TYPE_DATA == 2

\* SetType: m_ctrlType and m_ctrlSubtype of every kind of frame.
TypeBits == [
  CTL_CTLWRAPPER           |-> <<TYPE_CTL, 7>>,
  CTL_BACKREQ              |-> <<TYPE_CTL, 8>>,
  CTL_BACKRESP             |-> <<TYPE_CTL, 9>>,
  CTL_RTS                  |-> <<TYPE_CTL, 11>>,
  CTL_CTS                  |-> <<TYPE_CTL, 12>>,
  CTL_ACK                  |-> <<TYPE_CTL, 13>>,
  MGT_ASSOCIATION_REQUEST  |-> <<TYPE_MGT, 0>>,
  MGT_ASSOCIATION_RESPONSE |-> <<TYPE_MGT, 1>>,
  MGT_REASSOCIATION_REQUEST  |-> <<TYPE_MGT, 2>>,
  MGT_REASSOCIATION_RESPONSE |-> <<TYPE_MGT, 3>>,
  MGT_PROBE_REQUEST        |-> <<TYPE_MGT, 4>>,
  MGT_PROBE_RESPONSE       |-> <<TYPE_MGT, 5>>,
  MGT_BEACON               |-> <<TYPE_MGT, 8>>,
  MGT_DISASSOCIATION       |-> <<TYPE_MGT, 10>>,
  MGT_AUTHENTICATION       |-> <<TYPE_MGT, 11>>,
  MGT_DEAUTHENTICATION     |-> <<TYPE_MGT, 12>>,
  MGT_ACTION               |-> <<TYPE_MGT, 13>>,
  MGT_ACTION_NO_ACK        |-> <<TYPE_MGT, 14>>,
  MGT_MULTIHOP_ACTION      |-> <<TYPE_MGT, 15>>,
  DATA                     |-> <<TYPE_DATA, 0>>,
  DATA_CFACK               |-> <<TYPE_DATA, 1>>,
  DATA_CFPOLL              |-> <<TYPE_DATA, 2>>,
  DATA_CFACK_CFPOLL        |-> <<TYPE_DATA, 3>>,
  DATA_NULL                |-> <<TYPE_DATA, 4>>,
  DATA_NULL_CFACK          |-> <<TYPE_DATA, 5>>,
  DATA_NULL_CFPOLL         |-> <<TYPE_DATA, 6>>,
  DATA_NULL_CFACK_CFPOLL   |-> <<TYPE_DATA, 7>>,
  QOSDATA                  |-> <<TYPE_DATA, 8>>,
  QOSDATA_CFACK            |-> <<TYPE_DATA, 9>>,
  QOSDATA_CFPOLL           |-> <<TYPE_DATA, 10>>,
  QOSDATA_CFACK_CFPOLL     |-> <<TYPE_DATA, 11>>,
  QOSDATA_NULL             |-> <<TYPE_DATA, 12>>,
  QOSDATA_NULL_CFPOLL      |-> <<TYPE_DATA, 14>>,
  QOSDATA_NULL_CFACK_CFPOLL |-> <<TYPE_DATA, 15>>,
  MBR_DATA                 |-> <<TYPE_DATA, 16>>]

Bit == {0, 1}
Uint16 == 0 .. 65535

\* The fields that share a number of 16 bits: frame control, sequence control, QoS control.
FrameControl == [
  type : 0 .. 2, subtype : 0 .. 31, toDs : Bit, fromDs : Bit, moreFrag : Bit, retry : Bit,
  moreData : Bit, wep : Bit, order : Bit]
SequenceNumber == 0 .. 4095
SequenceControl == [frag : 0 .. 15, seq : SequenceNumber]
QosControl == [tid : 0 .. 15, eosp : Bit, ackPolicy : 0 .. 3, amsdu : Bit, stuff : 0 .. 255]

\* The headers the setters can make; Serialize writes no other.
Header(Address) == [
  ctrl : FrameControl, duration : Uint16,
  addr1 : Address, addr2 : Address, addr3 : Address, addr4 : Address,
  sequence : SequenceControl, qos : QosControl]

----------------------------------------------------------------------------
(* Setters *)

Kind == DOMAIN TypeBits

\* SetAssocReq and the others that leave the two bits of the distribution system.
SetSubtype(h, kind) ==
  [h EXCEPT !.ctrl = [@ EXCEPT !.type = TypeBits[kind][1], !.subtype = TypeBits[kind][2]]]

SetType(h, kind) ==
  [h EXCEPT !.ctrl = [@ EXCEPT !.type = TypeBits[kind][1], !.subtype = TypeBits[kind][2],
                               !.toDs = 0, !.fromDs = 0]]

\* The setters of one bit, by the name of the bit.
DsBits      == {"toDs", "fromDs"}
ControlBits == {"moreFrag", "order", "retry"}
SetBit(h, bit, b) == [h EXCEPT !.ctrl = [@ EXCEPT ![bit] = b]]

SetAddresses(h, a1, a2, a3, a4) ==
  [h EXCEPT !.addr1 = a1, !.addr2 = a2, !.addr3 = a3, !.addr4 = a4]

\* Nanoseconds are rounded up to microseconds, of which 15 bits are asserted.
MaxDuration == 32767
Nanoseconds == 0 .. MaxDuration * 1000
SetDuration(h, ns) == [h EXCEPT !.duration = (ns + 999) \div 1000]

\* SetRawDuration, and SetId, which writes the same field.
SetRawDuration(h, d) == [h EXCEPT !.duration = d]

\* The sequence numbers of the MAC are modulo 4096.
SetSequence(h, seq, frag) == [h EXCEPT !.sequence = [seq |-> seq, frag |-> frag]]

AckPolicy == [NORMAL_ACK |-> 0, NO_ACK |-> 1, NO_EXPLICIT_ACK |-> 2, BLOCK_ACK |-> 3]
SetQosAckPolicy(h, policy) == [h EXCEPT !.qos = [@ EXCEPT !.ackPolicy = AckPolicy[policy]]]

SetQosTid(h, tid)        == [h EXCEPT !.qos = [@ EXCEPT !.tid = tid]]
SetQosEosp(h, b)         == [h EXCEPT !.qos = [@ EXCEPT !.eosp = b]]
SetQosAmsdu(h, b)        == [h EXCEPT !.qos = [@ EXCEPT !.amsdu = b]]
SetQosTxopLimit(h, txop) == [h EXCEPT !.qos = [@ EXCEPT !.stuff = txop]]
\* The lowest bit of the same field.
SetQosMeshControl(h, b) ==
  [h EXCEPT !.qos = [@ EXCEPT !.stuff = (h.qos.stuff \div 2) * 2 + b]]

\* One call of a setter makes g of h.
Set(h, g, Address) ==
  \/ \E k \in Kind : g = SetSubtype(h, k) \/ g = SetType(h, k)
  \/ \E bit \in DsBits \cup ControlBits, b \in Bit : g = SetBit(h, bit, b)
  \/ \E a1, a2, a3, a4 \in Address : g = SetAddresses(h, a1, a2, a3, a4)
  \/ \E ns \in Nanoseconds : g = SetDuration(h, ns)
  \/ \E d \in Uint16 : g = SetRawDuration(h, d)
  \/ \E seq \in SequenceNumber, frag \in 0 .. 15 : g = SetSequence(h, seq, frag)
  \/ \E policy \in DOMAIN AckPolicy : g = SetQosAckPolicy(h, policy)
  \/ \E tid \in 0 .. 15 : g = SetQosTid(h, tid)
  \/ \E b \in Bit : g \in {SetQosEosp(h, b), SetQosAmsdu(h, b), SetQosMeshControl(h, b)}
  \/ \E txop \in 0 .. 255 : g = SetQosTxopLimit(h, txop)

----------------------------------------------------------------------------
(* What a header says *)

\* GetType: the cases for each type fall through to those of the types after it, and there
\* is none for CTLWRAPPER.
GetType(h) ==
  LET types == {t \in h.ctrl.type .. TYPE_DATA :
                  \E k \in Kind \ {"CTL_CTLWRAPPER"} : TypeBits[k] = <<t, h.ctrl.subtype>>}
      least == CHOOSE t \in types : \A u \in types : t <= u
  IN  CHOOSE k \in Kind \ {"CTL_CTLWRAPPER"} : TypeBits[k] = <<least, h.ctrl.subtype>>

\* IsRts, IsBeacon, ...
Is(h, kind) == GetType(h) = kind

IsCfpoll(h) ==
  GetType(h) \in {"DATA_CFPOLL", "DATA_CFACK_CFPOLL", "DATA_NULL_CFPOLL", "DATA_NULL_CFACK_CFPOLL",
                  "QOSDATA_CFPOLL", "QOSDATA_CFACK_CFPOLL", "QOSDATA_NULL_CFPOLL",
                  "QOSDATA_NULL_CFACK_CFPOLL"}

IsData(h) == h.ctrl.type = TYPE_DATA

IsCtl(h) == h.ctrl.type = TYPE_CTL

IsMBRData(h) == IsData(h) /\ h.ctrl.subtype = 16

IsQosData(h) == IsData(h) /\ (h.ctrl.subtype \div 8) % 2 = 1

IsMgt(h) == h.ctrl.type = TYPE_MGT

\* IsFromDs and IsToDs, by the name of the bit.
IsDs(h, bit) == h.ctrl[bit] = 1

IsRetry(h) == h.ctrl.retry = 1

IsMoreFragments(h) == h.ctrl.moreFrag = 1

\* GetAddr1, ..., GetAddr4
GetAddr(h, k) == <<h.addr1, h.addr2, h.addr3, h.addr4>>[k]

\* In nanoseconds.
GetDuration(h) == h.duration * 1000

GetSequenceNumber(h) == h.sequence.seq
GetFragmentNumber(h) == h.sequence.frag

\* Asserted of QoS data only.
GetQosTxopLimit(h) == h.qos.stuff

\* A frame that is relayed has the address the relay sends it to.
HasAddr4(h) ==
  IsData(h) /\ ((h.ctrl.toDs = 1 /\ h.ctrl.fromDs = 1) \/ h.ctrl.subtype = 16)

\* Of the frames that control the medium some name their sender.
HasAddr2(h) == IsCtl(h) => h.ctrl.subtype \in {8, 9, 11}

\* GetQosAckPolicy; IsQosBlockAck, IsQosNoAck and IsQosAck compare it.
GetQosAckPolicy(h) == CHOOSE policy \in DOMAIN AckPolicy : AckPolicy[policy] = h.qos.ackPolicy

\* How many bytes a MAC reserves for the header: an address takes 6 and a number 2.
CtlSize == [subtype \in {7, 8, 9, 11, 12, 13} |->
              CASE subtype \in {8, 9, 11} -> 2 + 2 + 6 + 6
                [] subtype \in {12, 13}   -> 2 + 2 + 6
                [] subtype = 7            -> 2 + 2 + 6 + 2 + 4]
GetSize(h) ==
  IF IsCtl(h) THEN CtlSize[h.ctrl.subtype]
  ELSE 2 + 2 + 6 + 6 + 6 + 2 + (IF HasAddr4(h) THEN 6 ELSE 0) + (IF IsQosData(h) THEN 2 ELSE 0)

----------------------------------------------------------------------------
(* Serialize *)

\* Mutant of GetFrameControl: the subtype has four bits, as in the standard.
GetFrameControlOf4Bits(c) ==
  c.type * 2 + (c.subtype % 16) * 8 + c.toDs * 256 + c.fromDs * 512 + c.moreFrag * 1024
    + c.retry * 2048 + c.moreData * 8192 + c.wep * 16384 + c.order * 32768

\* The protocol version's second bit is the type's first, the type's second is the
\* subtype's first.
GetFrameControl(c) ==
  c.type * 2 + c.subtype * 8 + c.toDs * 256 + c.fromDs * 512 + c.moreFrag * 1024
    + c.retry * 2048 + c.moreData * 8192 + c.wep * 16384 + c.order * 32768

GetSequenceControl(s) == s.seq * 16 + s.frag

GetQosControl(q) == q.tid + q.eosp * 16 + q.ackPolicy * 32 + q.amsdu * 128 + q.stuff * 256

Optional(cond, s) == IF cond THEN s ELSE <<>>

Serialize(h) ==
  <<GetFrameControl(h.ctrl), h.duration, h.addr1>>
    \o Optional(HasAddr2(h), <<h.addr2>>)
    \o Optional(~IsCtl(h), <<h.addr3, GetSequenceControl(h.sequence)>>)
    \o Optional(HasAddr4(h), <<h.addr4>>)
    \o Optional(IsQosData(h), <<GetQosControl(h.qos)>>)

----------------------------------------------------------------------------
(* Deserialize *)

SetFrameControl(x) == [
  type |-> (x \div 2) % 4, subtype |-> (x \div 8) % 32,
  toDs |-> (x \div 256) % 2, fromDs |-> (x \div 512) % 2,
  moreFrag |-> (x \div 1024) % 2, retry |-> (x \div 2048) % 2,
  moreData |-> (x \div 8192) % 2, wep |-> (x \div 16384) % 2, order |-> (x \div 32768) % 2]

SetSequenceControl(x) == [frag |-> x % 16, seq |-> (x \div 16) % 4096]

SetQosControl(x) == [
  tid |-> x % 16, eosp |-> (x \div 16) % 2, ackPolicy |-> (x \div 32) % 4,
  amsdu |-> (x \div 128) % 2, stuff |-> (x \div 256) % 256]

\* The header h after it was read from s: what s does not name stays.
Deserialize(h, s) ==
  LET c == [h EXCEPT !.ctrl = SetFrameControl(s[1])]
  IN  [ctrl     |-> c.ctrl,
       duration |-> s[2],
       addr1    |-> s[3],
       addr2    |-> IF HasAddr2(c) THEN s[4] ELSE h.addr2,
       addr3    |-> IF IsCtl(c) THEN h.addr3 ELSE s[5],
       sequence |-> IF IsCtl(c) THEN h.sequence ELSE SetSequenceControl(s[6]),
       addr4    |-> IF HasAddr4(c) THEN s[7] ELSE h.addr4,
       qos      |-> IF IsQosData(c) THEN SetQosControl(s[Len(s)]) ELSE h.qos]
=============================================================================
