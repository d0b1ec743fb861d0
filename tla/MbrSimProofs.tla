---------------------------- MODULE MbrSimProofs ----------------------------
(***************************************************************************)
(* Proofs about MbrSim, for every map, all vehicles and packets and any      *)
(* movement.  First the tables: what Purge, Update and time make of one.     *)
(* Then the frames, whose headers arrive as they were sent, and the choice   *)
(* of a relay.  The invariant puts them together; from it follow the safety  *)
(* properties of the runs and, step by step, that relays are invisible to IP. *)
(***************************************************************************)
EXTENDS MbrSim, FilterProofs, FiniteSetTheorems, SequenceTheorems

-----------------------------------------------------------------------------
(* MAC headers: what a MAC sends is what another one reads, for every header *)
(* and every kind of address.                                                *)

\* The shifts and masks of SetFrameControl undo the shifts of GetFrameControl.
LEMMA FrameControlRead ==
  ASSUME NEW h \in FrameControl
  PROVE  SetFrameControl(GetFrameControl(h)) = h
<1> DEFINE t == h.type  s == h.subtype  a == h.toDs  b == h.fromDs  c == h.moreFrag
           d == h.retry  e == h.moreData  f == h.wep  g == h.order
           x == t * 2 + s * 8 + a * 256 + b * 512 + c * 1024 + d * 2048 + e * 8192
                  + f * 16384 + g * 32768
           y == SetFrameControl(x)
<1>1. t \in 0 .. 2 /\ s \in 0 .. 31 /\ a \in Bit /\ b \in Bit /\ c \in Bit /\ d \in Bit
      /\ e \in Bit /\ f \in Bit /\ g \in Bit
  BY DEF FrameControl
<1>2. GetFrameControl(h) = x
  BY DEF GetFrameControl
<1> HIDE DEF t, s, a, b, c, d, e, f, g
<1>3. (x \div 2) % 4 = t /\ (x \div 8) % 32 = s
  BY <1>1, SMTT(20) DEF Bit
<1>4. (x \div 256) % 2 = a /\ (x \div 512) % 2 = b
  <2>1. x \div 256 = a + b * 2 + c * 4 + d * 8 + e * 32 + f * 64 + g * 128
    BY <1>1, SMTT(20) DEF Bit
  <2>2. x \div 512 = b + c * 2 + d * 4 + e * 16 + f * 32 + g * 64
    BY <1>1, SMTT(20) DEF Bit
  <2> HIDE DEF x
  <2>3. QED
    BY <1>1, <2>1, <2>2 DEF Bit
<1>5. (x \div 1024) % 2 = c /\ (x \div 2048) % 2 = d
  BY <1>1, SMTT(20) DEF Bit
<1>6. (x \div 8192) % 2 = e /\ (x \div 16384) % 2 = f /\ (x \div 32768) % 2 = g
  BY <1>1, SMTT(20) DEF Bit
<1> HIDE DEF x
<1>7. /\ y.type = t /\ y.subtype = s /\ y.toDs = a /\ y.fromDs = b /\ y.moreFrag = c
      /\ y.retry = d /\ y.moreData = e /\ y.wep = f /\ y.order = g
  BY <1>3, <1>4, <1>5, <1>6 DEF SetFrameControl
<1>8. y \in FrameControl
  BY <1>1, <1>3, <1>4, <1>5, <1>6 DEF FrameControl, SetFrameControl
<1> HIDE DEF y
<1>9. y = h
  BY <1>7, <1>8 DEF FrameControl, t, s, a, b, c, d, e, f, g
<1>10. QED
  BY <1>2, <1>9 DEF y

\* So do those of SetSequenceControl.
LEMMA SequenceControlRead ==
  ASSUME NEW h \in SequenceControl
  PROVE  SetSequenceControl(GetSequenceControl(h)) = h
<1> DEFINE f == h.frag
           n == h.seq
<1>1. f \in 0 .. 15 /\ n \in 0 .. 4095
  BY DEF SequenceControl, SequenceNumber
<1>2. h = [frag |-> f, seq |-> n]
  BY DEF SequenceControl
<1>3. GetSequenceControl(h) = n * 16 + f
  BY DEF GetSequenceControl
<1> HIDE DEF f, n
<1>4. (n * 16 + f) % 16 = f /\ ((n * 16 + f) \div 16) % 4096 = n
  BY <1>1
<1>5. SetSequenceControl(n * 16 + f) = [frag |-> f, seq |-> n]
  BY <1>4 DEF SetSequenceControl
<1>6. QED
  BY <1>2, <1>3, <1>5

\* And those of SetQosControl.
LEMMA QosControlRead ==
  ASSUME NEW h \in QosControl
  PROVE  SetQosControl(GetQosControl(h)) = h
<1> DEFINE t == h.tid  e == h.eosp  a == h.ackPolicy  m == h.amsdu  f == h.stuff
           x == t + e * 16 + a * 32 + m * 128 + f * 256
<1>1. t \in 0 .. 15 /\ e \in Bit /\ a \in 0 .. 3 /\ m \in Bit /\ f \in 0 .. 255
  BY DEF QosControl
<1>2. GetQosControl(h) = x
  BY DEF GetQosControl
<1>3. h = [tid |-> t, eosp |-> e, ackPolicy |-> a, amsdu |-> m, stuff |-> f]
  BY DEF QosControl
<1> HIDE DEF t, e, a, m, f
<1>4. x % 16 = t /\ x \div 16 = e + a * 2 + m * 8 + f * 16
  BY <1>1 DEF Bit
<1>5. x \div 32 = a + m * 4 + f * 8
  BY <1>1 DEF Bit
<1>6. x \div 128 = m + f * 2 /\ x \div 256 = f
  BY <1>1 DEF Bit
<1>7. (x \div 16) % 2 = e
  BY <1>1, <1>4 DEF Bit
<1>8. (x \div 32) % 4 = a
  BY <1>1, <1>5 DEF Bit
<1>9. (x \div 128) % 2 = m /\ (x \div 256) % 256 = f
  BY <1>1, <1>6 DEF Bit
<1> HIDE DEF x
<1>10. SetQosControl(x) = [tid |-> t, eosp |-> e, ackPolicy |-> a, amsdu |-> m, stuff |-> f]
  BY <1>4, <1>7, <1>8, <1>9 DEF SetQosControl
<1>11. QED
  BY <1>2, <1>3, <1>10

-----------------------------------------------------------------------------

\* What is in g after a frame with header h was read into it: what its kind of frame
\* carries from h, and the rest as it was.
Carried(g, h) == [
  ctrl     |-> h.ctrl,
  duration |-> h.duration,
  addr1    |-> h.addr1,
  addr2    |-> IF HasAddr2(h) THEN h.addr2 ELSE g.addr2,
  addr3    |-> IF IsCtl(h) THEN g.addr3 ELSE h.addr3,
  sequence |-> IF IsCtl(h) THEN g.sequence ELSE h.sequence,
  addr4    |-> IF HasAddr4(h) THEN h.addr4 ELSE g.addr4,
  qos      |-> IF IsQosData(h) THEN h.qos ELSE g.qos]

\* Where the fields are in a frame.
LEMMA SerializeLayout ==
  ASSUME NEW h, NEW s, s = Serialize(h)
  PROVE  /\ s[1] = GetFrameControl(h.ctrl) /\ s[2] = h.duration /\ s[3] = h.addr1
         /\ HasAddr2(h) => s[4] = h.addr2
         /\ ~IsCtl(h) => s[5] = h.addr3 /\ s[6] = GetSequenceControl(h.sequence)
         /\ HasAddr4(h) => s[7] = h.addr4
         /\ IsQosData(h) => s[Len(s)] = GetQosControl(h.qos)
<1> DEFINE first == <<GetFrameControl(h.ctrl), h.duration, h.addr1>>
           qos   == GetQosControl(h.qos)
<1>1. CASE IsCtl(h)
  <2>1. ~HasAddr4(h) /\ ~IsQosData(h)
    BY <1>1 DEF IsCtl, IsData, HasAddr4, IsQosData, TYPE_CTL, TYPE_DATA
  <2>2. CASE HasAddr2(h)
    <3>1. s = first \o <<h.addr2>> \o <<>> \o <<>> \o <<>>
      BY <1>1, <2>1, <2>2 DEF Serialize, Optional
    <3>2. QED
      BY <3>1, <1>1, <2>1
  <2>3. CASE ~HasAddr2(h)
    <3>1. s = first
      BY <1>1, <2>1, <2>3 DEF Serialize, Optional
    <3>2. QED
      BY <3>1, <1>1, <2>1, <2>3
  <2>4. QED
    BY <2>2, <2>3
<1>2. CASE ~IsCtl(h)
  <2>1. HasAddr2(h)
    BY <1>2 DEF HasAddr2
  <2>2. s = first \o <<h.addr2>> \o <<h.addr3, GetSequenceControl(h.sequence)>>
              \o Optional(HasAddr4(h), <<h.addr4>>) \o Optional(IsQosData(h), <<qos>>)
    BY <1>2, <2>1 DEF Serialize, Optional
  <2>3. CASE HasAddr4(h) /\ IsQosData(h)
    <3>1. s = first \o <<h.addr2>> \o <<h.addr3, GetSequenceControl(h.sequence)>> \o <<h.addr4>> \o <<qos>>
      BY <2>2, <2>3 DEF Optional
    <3>2. QED
      BY <3>1, <1>2
  <2>4. CASE HasAddr4(h) /\ ~IsQosData(h)
    <3>1. s = first \o <<h.addr2>> \o <<h.addr3, GetSequenceControl(h.sequence)>> \o <<h.addr4>> \o <<>>
      BY <2>2, <2>4 DEF Optional
    <3>2. QED
      BY <3>1, <1>2, <2>4
  <2>5. CASE ~HasAddr4(h) /\ IsQosData(h)
    <3>1. s = first \o <<h.addr2>> \o <<h.addr3, GetSequenceControl(h.sequence)>> \o <<>> \o <<qos>>
      BY <2>2, <2>5 DEF Optional
    <3>2. QED
      BY <3>1, <1>2, <2>5
  <2>6. CASE ~HasAddr4(h) /\ ~IsQosData(h)
    <3>1. s = first \o <<h.addr2>> \o <<h.addr3, GetSequenceControl(h.sequence)>> \o <<>> \o <<>>
      BY <2>2, <2>6 DEF Optional
    <3>2. QED
      BY <3>1, <1>2, <2>6
  <2>7. QED
    BY <2>3, <2>4, <2>5, <2>6
<1>3. QED
  BY <1>1, <1>2

\* A header that has been sent and is read into any other: the kind of frame, both ends and
\* whatever else the kind carries arrive as they were, and no field takes another one's place.
THEOREM RoundTrip ==
  ASSUME NEW A, NEW g \in Header(A), NEW h \in Header(A)
  PROVE  /\ Deserialize(g, Serialize(h)) = Carried(g, h)
         /\ Carried(g, h) \in Header(A)
<1> DEFINE s == Serialize(h)
           c == [g EXCEPT !.ctrl = SetFrameControl(s[1])]
<1>1. h.ctrl \in FrameControl /\ h.sequence \in SequenceControl /\ h.qos \in QosControl
  BY DEF Header
<1>2. /\ s[1] = GetFrameControl(h.ctrl) /\ s[2] = h.duration /\ s[3] = h.addr1
      /\ HasAddr2(h) => s[4] = h.addr2
      /\ ~IsCtl(h) => s[5] = h.addr3 /\ s[6] = GetSequenceControl(h.sequence)
      /\ HasAddr4(h) => s[7] = h.addr4
      /\ IsQosData(h) => s[Len(s)] = GetQosControl(h.qos)
  BY SerializeLayout
<1> HIDE DEF s
<1>3. c.ctrl = h.ctrl
  <2>1. SetFrameControl(s[1]) = h.ctrl
    BY <1>1, <1>2, FrameControlRead
  <2>2. QED
    BY <2>1 DEF Header
<1> HIDE DEF c
<1>4. /\ HasAddr2(c) <=> HasAddr2(h)
      /\ HasAddr4(c) <=> HasAddr4(h)
      /\ IsQosData(c) <=> IsQosData(h)
      /\ IsCtl(c) <=> IsCtl(h)
  BY <1>3, Zenon DEF HasAddr2, HasAddr4, IsQosData, IsCtl, IsData
<1>5. ~IsCtl(h) => SetSequenceControl(s[6]) = h.sequence
  BY <1>1, <1>2, SequenceControlRead
<1>6. IsQosData(h) => SetQosControl(s[Len(s)]) = h.qos
  BY <1>1, <1>2, QosControlRead
<1>7. Deserialize(g, s) = [
        ctrl     |-> c.ctrl,
        duration |-> s[2],
        addr1    |-> s[3],
        addr2    |-> IF HasAddr2(c) THEN s[4] ELSE g.addr2,
        addr3    |-> IF IsCtl(c) THEN g.addr3 ELSE s[5],
        sequence |-> IF IsCtl(c) THEN g.sequence ELSE SetSequenceControl(s[6]),
        addr4    |-> IF HasAddr4(c) THEN s[7] ELSE g.addr4,
        qos      |-> IF IsQosData(c) THEN SetQosControl(s[Len(s)]) ELSE g.qos]
  BY Zenon DEF Deserialize, c
<1>8. Deserialize(g, s) = Carried(g, h)
  BY <1>2, <1>3, <1>4, <1>5, <1>6, <1>7 DEF Carried
<1>9. Carried(g, h) \in Header(A)
  BY DEF Carried, Header
<1>10. QED
  BY <1>8, <1>9 DEF s

-----------------------------------------------------------------------------

\* A field of one bit that is set stays one of the frame control's.
LEMMA BitSet ==
  ASSUME NEW c \in FrameControl, NEW bit \in DsBits \cup ControlBits, NEW b \in Bit
  PROVE  [c EXCEPT ![bit] = b] \in FrameControl
<1>1. CASE bit = "toDs"
  BY <1>1 DEF FrameControl
<1>2. CASE bit = "fromDs"
  BY <1>2 DEF FrameControl
<1>3. CASE bit = "moreFrag"
  BY <1>3 DEF FrameControl
<1>4. CASE bit = "order"
  BY <1>4 DEF FrameControl
<1>5. CASE bit = "retry"
  BY <1>5 DEF FrameControl
<1>6. QED
  BY <1>1, <1>2, <1>3, <1>4, <1>5 DEF DsBits, ControlBits

\* The numbers of SetType fit into the fields for them.
LEMMA Numbers ==
  ASSUME NEW k \in Kind
  PROVE  TypeBits[k][1] \in 0 .. 2 /\ TypeBits[k][2] \in 0 .. 31
BY DEF Kind, TypeBits, TYPE_MGT, TYPE_CTL, TYPE_DATA

LEMMA Uint16Nat == Uint16 \subseteq Nat
BY DEF Uint16

LEMMA MaxDurationFits == MaxDuration \in Nat /\ 0 .. MaxDuration \subseteq Uint16
<1>1. MaxDuration \in Nat
  BY DEF MaxDuration
<1>2. ASSUME NEW q \in 0 .. MaxDuration PROVE q \in Uint16
  BY SMTT(60) DEF MaxDuration, Uint16
<1>3. QED
  BY <1>1, <1>2

\* Rounding up to microseconds.
LEMMA Microseconds ==
  ASSUME NEW max \in Nat, NEW ns \in 0 .. max * 1000
  PROVE  (ns + 999) \div 1000 \in 0 .. max
BY SMTT(30)

\* What a header is made of.
LEMMA HeaderFields ==
  ASSUME NEW A, NEW h \in Header(A)
  PROVE  /\ h.ctrl \in FrameControl /\ h.sequence \in SequenceControl /\ h.qos \in QosControl
         /\ h.duration \in Uint16
         /\ h.addr1 \in A /\ h.addr2 \in A /\ h.addr3 \in A /\ h.addr4 \in A
BY DEF Header

LEMMA ControlsNat ==
  /\ \A c \in FrameControl : GetFrameControl(c) \in Nat
  /\ \A c \in SequenceControl : GetSequenceControl(c) \in Nat
  /\ \A c \in QosControl : GetQosControl(c) \in Nat
<1>1. ASSUME NEW c \in FrameControl PROVE GetFrameControl(c) \in Nat
  <2>1. /\ c.type \in Nat /\ c.subtype \in Nat /\ c.toDs \in Nat /\ c.fromDs \in Nat /\ c.moreFrag \in Nat
        /\ c.retry \in Nat /\ c.moreData \in Nat /\ c.wep \in Nat /\ c.order \in Nat
    BY DEF FrameControl, Bit
  <2> DEFINE x == c.type * 2 + c.subtype * 8 + c.toDs * 256 + c.fromDs * 512
             y == c.moreFrag * 1024 + c.retry * 2048
             z == c.moreData * 8192 + c.wep * 16384 + c.order * 32768
  <2>2. x \in Nat
    BY <2>1
  <2>3. y \in Nat
    BY <2>1
  <2>4. z \in Nat
    BY <2>1
  <2>5. GetFrameControl(c) = x + y + z
    BY <2>1 DEF GetFrameControl
  <2> HIDE DEF x, y, z
  <2>6. QED
    BY <2>2, <2>3, <2>4, <2>5
<1>2. ASSUME NEW c \in SequenceControl PROVE GetSequenceControl(c) \in Nat
  <2>1. c.frag \in Nat /\ c.seq \in Nat
    <3>1. c.frag \in 0 .. 15 /\ c.seq \in SequenceNumber
      BY DEF SequenceControl
    <3>2. SequenceNumber \subseteq Nat
      BY DEF SequenceNumber
    <3>3. c.frag \in Nat
      BY <3>1
    <3>4. c.seq \in Nat
      BY <3>1, <3>2
    <3>5. QED
      BY <3>3, <3>4
  <2>2. QED
    BY <2>1 DEF GetSequenceControl
<1>3. ASSUME NEW c \in QosControl PROVE GetQosControl(c) \in Nat
  <2>1. /\ c.tid \in Nat /\ c.eosp \in Nat /\ c.ackPolicy \in Nat /\ c.amsdu \in Nat /\ c.stuff \in Nat
    BY DEF QosControl, Bit
  <2>2. QED
    BY <2>1 DEF GetQosControl
<1>4. QED
  BY <1>1, <1>2, <1>3

\* Whatever setters are called, and in which order: the header is one that RoundTrip
\* speaks of, every field within the width it has on the air.
THEOREM SettersFit ==
  ASSUME NEW A, NEW h \in Header(A), NEW g, Set(h, g, A)
  PROVE  g \in Header(A)
<1>1. ASSUME NEW c \in FrameControl PROVE [h EXCEPT !.ctrl = c] \in Header(A)
  BY <1>1 DEF Header
<1>2. ASSUME NEW q \in QosControl PROVE [h EXCEPT !.qos = q] \in Header(A)
  BY <1>2 DEF Header
<1>3. h.ctrl \in FrameControl /\ h.qos \in QosControl /\ h.sequence \in SequenceControl
  BY DEF Header
<1>4. ASSUME NEW k \in Kind, g = SetSubtype(h, k) PROVE g \in Header(A)
  <2>1. [h.ctrl EXCEPT !.type = TypeBits[k][1], !.subtype = TypeBits[k][2]] \in FrameControl
    BY <1>3, Numbers DEF FrameControl
  <2>2. QED
    BY <1>1, <1>4, <2>1 DEF SetSubtype
<1>5. ASSUME NEW k \in Kind, g = SetType(h, k) PROVE g \in Header(A)
  <2>1. [h.ctrl EXCEPT !.type = TypeBits[k][1], !.subtype = TypeBits[k][2], !.toDs = 0, !.fromDs = 0]
          \in FrameControl
    BY <1>3, Numbers DEF FrameControl, Bit
  <2>2. QED
    BY <1>1, <1>5, <2>1 DEF SetType
<1>6. ASSUME NEW bit \in DsBits \cup ControlBits, NEW b \in Bit, g = SetBit(h, bit, b)
      PROVE  g \in Header(A)
  BY <1>1, <1>3, <1>6, BitSet DEF SetBit
<1>7. ASSUME NEW a1 \in A, NEW a2 \in A, NEW a3 \in A, NEW a4 \in A, g = SetAddresses(h, a1, a2, a3, a4)
      PROVE  g \in Header(A)
  BY <1>7 DEF SetAddresses, Header
<1>8. ASSUME NEW ns \in Nanoseconds, g = SetDuration(h, ns) PROVE g \in Header(A)
  <2>1. (ns + 999) \div 1000 \in Uint16
    BY MaxDurationFits, Microseconds DEF Nanoseconds
  <2>2. QED
    BY <1>8, <2>1 DEF SetDuration, Header
<1>9. ASSUME NEW seq \in SequenceNumber, NEW frag \in 0 .. 15, g = SetSequence(h, seq, frag)
      PROVE  g \in Header(A)
  <2>1. [seq |-> seq, frag |-> frag] \in SequenceControl
    BY DEF SequenceControl
  <2>2. QED
    BY <1>9, <2>1 DEF SetSequence, Header
<1>10. ASSUME NEW policy \in DOMAIN AckPolicy, g = SetQosAckPolicy(h, policy) PROVE g \in Header(A)
  <2>1. AckPolicy[policy] \in 0 .. 3
    BY DEF AckPolicy
  <2>2. [h.qos EXCEPT !.ackPolicy = AckPolicy[policy]] \in QosControl
    BY <1>3, <2>1 DEF QosControl
  <2>3. QED
    BY <1>2, <1>10, <2>2 DEF SetQosAckPolicy
<1>11. ASSUME NEW tid \in 0 .. 15, g = SetQosTid(h, tid) PROVE g \in Header(A)
  <2>1. [h.qos EXCEPT !.tid = tid] \in QosControl
    BY <1>3 DEF QosControl
  <2>2. QED
    BY <1>2, <1>11, <2>1 DEF SetQosTid
<1>12. ASSUME NEW b \in Bit
       PROVE  SetQosEosp(h, b) \in Header(A) /\ SetQosAmsdu(h, b) \in Header(A)
                /\ SetQosMeshControl(h, b) \in Header(A)
  <2>1. [h.qos EXCEPT !.eosp = b] \in QosControl /\ [h.qos EXCEPT !.amsdu = b] \in QosControl
    BY <1>3 DEF QosControl
  <2>2. (h.qos.stuff \div 2) * 2 + b \in 0 .. 255
    BY <1>3 DEF QosControl, Bit
  <2>3. [h.qos EXCEPT !.stuff = (h.qos.stuff \div 2) * 2 + b] \in QosControl
    BY <1>3, <2>2 DEF QosControl
  <2>4. QED
    BY <1>2, <2>1, <2>3 DEF SetQosEosp, SetQosAmsdu, SetQosMeshControl
<1>13. ASSUME NEW txop \in 0 .. 255, g = SetQosTxopLimit(h, txop) PROVE g \in Header(A)
  <2>1. [h.qos EXCEPT !.stuff = txop] \in QosControl
    BY <1>3 DEF QosControl
  <2>2. QED
    BY <1>2, <1>13, <2>1 DEF SetQosTxopLimit
<1>14. ASSUME NEW d \in Uint16, g = SetRawDuration(h, d) PROVE g \in Header(A)
  BY <1>14 DEF SetRawDuration, Header
<1>15. QED
  BY <1>4, <1>5, <1>6, <1>7, <1>8, <1>9, <1>10, <1>11, <1>12, <1>13, <1>14, Zenon DEF Set

\* A medium is never reserved for less than what was asked, and for less than a
\* microsecond more (SetDuration, GetDuration).
THEOREM DurationCovers ==
  ASSUME NEW A, NEW h \in Header(A), NEW g \in Header(A), NEW ns \in Nanoseconds
  PROVE  LET read == GetDuration(Deserialize(g, Serialize(SetDuration(h, ns))))
         IN  ns <= read /\ read < ns + 1000
<1> DEFINE s == SetDuration(h, ns)
<1>1. ns \in Nat
  BY MaxDurationFits DEF Nanoseconds
<1>2. s \in Header(A)
  <2>1. Set(h, s, A)
    BY Zenon DEF Set
  <2>2. QED
    BY <2>1, SettersFit
<1>3. s.duration = (ns + 999) \div 1000
  BY DEF SetDuration, Header
<1> HIDE DEF s
<1>4. Deserialize(g, Serialize(s)).duration = s.duration
  <2>1. Deserialize(g, Serialize(s)) = Carried(g, s)
    BY <1>2, RoundTrip
  <2>2. Carried(g, s).duration = s.duration
    BY DEF Carried
  <2>3. QED
    BY <2>1, <2>2
<1>5. ns <= ((ns + 999) \div 1000) * 1000 /\ ((ns + 999) \div 1000) * 1000 < ns + 1000
  BY <1>1, SMTT(30)
<1>6. QED
  BY <1>3, <1>4, <1>5 DEF GetDuration, s

\* What the getters say of a frame that was received is what they say of the header sent:
\* of every frame its type, bits, duration and receiver, of all but control frames the
\* other addresses and the numbers, of a relayed one the relay's target, of QoS data the
\* rest of its field.
THEOREM GettersAgree ==
  ASSUME NEW A, NEW g \in Header(A), NEW h \in Header(A), NEW r, r = Deserialize(g, Serialize(h))
  PROVE  /\ IsData(r) <=> IsData(h)
         /\ IsCtl(r) <=> IsCtl(h)
         /\ IsMgt(r) <=> IsMgt(h)
         /\ \A bit \in DsBits : IsDs(r, bit) <=> IsDs(h, bit)
         /\ IsRetry(r) <=> IsRetry(h)
         /\ IsMoreFragments(r) <=> IsMoreFragments(h)
         /\ GetDuration(r) = GetDuration(h)
         /\ GetAddr(r, 1) = GetAddr(h, 1)
         /\ ~IsCtl(h) => /\ GetAddr(r, 2) = GetAddr(h, 2) /\ GetAddr(r, 3) = GetAddr(h, 3)
                         /\ GetSequenceNumber(r) = GetSequenceNumber(h)
                         /\ GetFragmentNumber(r) = GetFragmentNumber(h)
         /\ IsMBRData(h) => GetAddr(r, 4) = GetAddr(h, 4)
         /\ IsQosData(h) => GetQosTxopLimit(r) = GetQosTxopLimit(h)
<1>1. r = Carried(g, h)
  BY RoundTrip
<1>2. r.ctrl = h.ctrl /\ r.duration = h.duration /\ r.addr1 = h.addr1
  BY <1>1 DEF Carried
<1>3. ~IsCtl(h) => r.addr2 = h.addr2 /\ r.addr3 = h.addr3 /\ r.sequence = h.sequence
  BY <1>1 DEF Carried, HasAddr2
<1>4. IsMBRData(h) => r.addr4 = h.addr4
  BY <1>1 DEF Carried, HasAddr4, IsMBRData
<1>5. IsQosData(h) => r.qos = h.qos
  BY <1>1 DEF Carried
<1>6. QED
  BY <1>2, <1>3, <1>4, <1>5 DEF IsData, IsCtl, IsMgt, IsDs, IsRetry, IsMoreFragments, GetDuration,
     GetAddr, GetSequenceNumber, GetFragmentNumber, GetQosTxopLimit

-----------------------------------------------------------------------------

Named == Kind \ {"CTL_CTLWRAPPER"}

\* No two kinds have the same numbers.
LEMMA NumbersDiffer ==
  ASSUME NEW k \in Kind, NEW l \in Kind, TypeBits[k] = TypeBits[l]
  PROVE  k = l
BY SMTT(60) DEF Kind, TypeBits, TYPE_MGT, TYPE_CTL, TYPE_DATA

\* What GetType says of numbers that belong to a kind with a case of its own.
LEMMA NamedRead ==
  ASSUME NEW h, NEW k \in Named, h.ctrl.type = TypeBits[k][1], h.ctrl.subtype = TypeBits[k][2]
  PROVE  GetType(h) = k
<1> DEFINE types == {t \in h.ctrl.type .. TYPE_DATA :
                       \E l \in Named : TypeBits[l] = <<t, h.ctrl.subtype>>}
           least == CHOOSE t \in types : \A u \in types : t <= u
<1>1. TypeBits[k] = <<h.ctrl.type, h.ctrl.subtype>> /\ h.ctrl.type \in 0 .. 2
  <2>1. TypeBits[k] = <<TypeBits[k][1], TypeBits[k][2]>>
    BY SMTT(30) DEF Named, Kind, TypeBits
  <2>2. QED
    BY <2>1, Numbers DEF Named
<1>2. h.ctrl.type \in types /\ \A u \in types : h.ctrl.type <= u /\ u \in Int
  <2>1. \E l \in Named : TypeBits[l] = <<h.ctrl.type, h.ctrl.subtype>>
    BY <1>1
  <2>2. h.ctrl.type \in h.ctrl.type .. TYPE_DATA
    BY <1>1 DEF TYPE_DATA
  <2>3. \A u \in h.ctrl.type .. TYPE_DATA : h.ctrl.type <= u /\ u \in Int
    BY <1>1 DEF TYPE_DATA
  <2>4. QED
    BY <2>1, <2>2, <2>3
<1>3. least = h.ctrl.type
  <2> HIDE DEF types
  <2>1. least \in types /\ \A u \in types : least <= u
    BY <1>2
  <2>2. QED
    BY <1>1, <1>2, <2>1
<1>4. GetType(h) = CHOOSE l \in Named : TypeBits[l] = <<least, h.ctrl.subtype>>
  BY DEF GetType, Named
<1> HIDE DEF least
<1>5. \A l \in Named : TypeBits[l] = <<least, h.ctrl.subtype>> => l = k
  BY <1>1, <1>3, NumbersDiffer DEF Named
<1>6. QED
  BY <1>1, <1>3, <1>4, <1>5

\* Every kind of frame that has a case in GetType, the repository's MBR_DATA among them, is
\* read as the kind it was sent as.
THEOREM KindSurvives ==
  ASSUME NEW A, NEW g \in Header(A), NEW h \in Header(A), NEW k \in Named
  PROVE  Is(Deserialize(g, Serialize(SetType(h, k))), k)
<1> DEFINE s == SetType(h, k)
<1>1. Set(h, s, A)
  <2>1. k \in Kind
    BY DEF Named
  <2>2. QED
    BY <2>1, Zenon DEF Set
<1>2. s \in Header(A)
  BY <1>1, SettersFit
<1>3. s.ctrl.type = TypeBits[k][1] /\ s.ctrl.subtype = TypeBits[k][2]
  BY DEF SetType, Header, FrameControl
<1> HIDE DEF s
<1>4. Deserialize(g, Serialize(s)) = Carried(g, s)
  BY <1>2, RoundTrip
<1>5. Carried(g, s).ctrl = s.ctrl
  BY DEF Carried
<1>6. QED
  BY <1>3, <1>4, <1>5, NamedRead DEF Is, s

\* A CTLWRAPPER, whose case GetType lacks, is taken for a data frame.
THEOREM WrapperMisread ==
  ASSUME NEW A, NEW h \in Header(A)
  PROVE  Is(SetType(h, "CTL_CTLWRAPPER"), "DATA_NULL_CFACK_CFPOLL")
<1> DEFINE s == SetType(h, "CTL_CTLWRAPPER")
           types == {t \in s.ctrl.type .. TYPE_DATA :
                       \E l \in Named : TypeBits[l] = <<t, s.ctrl.subtype>>}
           least == CHOOSE t \in types : \A u \in types : t <= u
           Taken == "DATA_NULL_CFACK_CFPOLL"
<1>1. s.ctrl.type = 1 /\ s.ctrl.subtype = 7
  BY DEF SetType, Header, FrameControl, TypeBits, TYPE_CTL
<1>2. Taken \in Named /\ TypeBits[Taken] = <<2, 7>>
  BY DEF Named, Kind, TypeBits, TYPE_DATA
<1>3. \A l \in Named : TypeBits[l] # <<1, 7>>
  BY SMTT(30) DEF Named, Kind, TypeBits, TYPE_MGT, TYPE_CTL, TYPE_DATA
<1>4. types = {2}
  <2>1. s.ctrl.type .. TYPE_DATA = {1, 2}
    BY <1>1 DEF TYPE_DATA
  <2>2. QED
    BY <1>1, <1>2, <1>3, <2>1
<1>5. least = 2
  BY <1>4
<1>6. GetType(s) = CHOOSE l \in Named : TypeBits[l] = <<least, s.ctrl.subtype>>
  BY DEF GetType, Named
<1> HIDE DEF s, least
<1>7. \A l \in Named : TypeBits[l] = <<2, 7>> => l = Taken
  BY <1>2, NumbersDiffer DEF Named
<1>8. QED
  BY <1>1, <1>2, <1>5, <1>6, <1>7 DEF Is, s

-----------------------------------------------------------------------------

\* The bytes of a header whose fields are s.
Bytes(s, Address) ==
  2 * Cardinality({k \in DOMAIN s : s[k] \notin Address}) + 6 * Cardinality({k \in DOMAIN s : s[k] \in Address})

\* The positions of numbers and of addresses in a header.
LEMMA Positions ==
  /\ Cardinality({1, 2}) = 2 /\ Cardinality({1, 2, 6}) = 3
  /\ Cardinality({1, 2, 6, 7}) = 4 /\ Cardinality({1, 2, 6, 8}) = 4
  /\ Cardinality({3}) = 1 /\ Cardinality({3, 4}) = 2
  /\ Cardinality({3, 4, 5}) = 3 /\ Cardinality({3, 4, 5, 7}) = 4
<1>1. ASSUME NEW S, IsFiniteSet(S), NEW x, x \notin S
      PROVE  IsFiniteSet(S \cup {x}) /\ Cardinality(S \cup {x}) = Cardinality(S) + 1
  BY <1>1, FS_AddElement
<1>2. /\ IsFiniteSet({1}) /\ Cardinality({1}) = 1
      /\ IsFiniteSet({3}) /\ Cardinality({3}) = 1
  BY FS_Singleton
<1>3. /\ {1, 2} = {1} \cup {2} /\ {1, 2, 6} = {1, 2} \cup {6}
      /\ {1, 2, 6, 7} = {1, 2, 6} \cup {7} /\ {1, 2, 6, 8} = {1, 2, 6} \cup {8}
      /\ {3, 4} = {3} \cup {4} /\ {3, 4, 5} = {3, 4} \cup {5} /\ {3, 4, 5, 7} = {3, 4, 5} \cup {7}
  OBVIOUS
<1>4. 2 \notin {1} /\ 6 \notin {1, 2} /\ 7 \notin {1, 2, 6} /\ 8 \notin {1, 2, 6}
  OBVIOUS
<1>5. 4 \notin {3} /\ 5 \notin {3, 4} /\ 7 \notin {3, 4, 5}
  OBVIOUS
<1>6. IsFiniteSet({1, 2}) /\ Cardinality({1, 2}) = 2
  BY <1>1, <1>2, <1>3, <1>4
<1>7. IsFiniteSet({1, 2, 6}) /\ Cardinality({1, 2, 6}) = 3
  BY <1>1, <1>3, <1>4, <1>6
<1>8. Cardinality({1, 2, 6, 7}) = 4 /\ Cardinality({1, 2, 6, 8}) = 4
  BY <1>1, <1>3, <1>4, <1>7
<1>9. IsFiniteSet({3, 4}) /\ Cardinality({3, 4}) = 2
  BY <1>1, <1>2, <1>3, <1>5
<1>10. IsFiniteSet({3, 4, 5}) /\ Cardinality({3, 4, 5}) = 3
  BY <1>1, <1>3, <1>5, <1>9
<1>11. Cardinality({3, 4, 5, 7}) = 4
  BY <1>1, <1>3, <1>5, <1>10
<1>12. QED
  BY <1>2, <1>6, <1>7, <1>8, <1>9, <1>10, <1>11

\* The buffer that a MAC reserves for a header is exactly what Serialize fills, whichever
\* addresses the kind of frame has; the fourth one of a frame to be relayed is counted.
THEOREM SizeFits ==
  ASSUME NEW A, \A a \in A : a \notin Nat, NEW h \in Header(A),
         IsCtl(h) => h.ctrl.subtype \in {8, 9, 11, 12, 13}
  PROVE  Bytes(Serialize(h), A) = GetSize(h)
<1> DEFINE s  == Serialize(h)
           fc == GetFrameControl(h.ctrl)
           sc == GetSequenceControl(h.sequence)
           qc == GetQosControl(h.qos)
           N  == {k \in DOMAIN s : s[k] \notin A}
           M  == {k \in DOMAIN s : s[k] \in A}
<1> HIDE DEF s, fc, sc, qc, N, M
<1>1. /\ h.duration \in Nat /\ h.addr1 \in A /\ h.addr2 \in A /\ h.addr3 \in A /\ h.addr4 \in A
  BY HeaderFields, Uint16Nat
<1>2. fc \in Nat /\ sc \in Nat /\ qc \in Nat
  BY HeaderFields, ControlsNat DEF fc, sc, qc
<1> DEFINE Fields ==
             /\ s[1] = fc /\ s[2] = h.duration /\ s[3] = h.addr1
             /\ HasAddr2(h) => s[4] = h.addr2
             /\ ~IsCtl(h) => s[5] = h.addr3 /\ s[6] = sc
             /\ HasAddr4(h) => s[7] = h.addr4
             /\ IsQosData(h) => s[Len(s)] = qc
<1>3. Fields
  BY SerializeLayout DEF s, fc, sc, qc
<1>4. CASE IsCtl(h)
  <2>1. ~HasAddr4(h) /\ ~IsQosData(h)
    BY <1>4 DEF IsCtl, IsData, HasAddr4, IsQosData, TYPE_CTL, TYPE_DATA
  <2>2. CASE HasAddr2(h)
    <3>1. Len(s) = 4 /\ DOMAIN s = 1 .. 4
      BY <1>4, <2>1, <2>2 DEF Serialize, Optional, s, fc
    <3>2. N = {1, 2} /\ M = {3, 4}
      BY <1>1, <1>2, <1>3, <1>4, <2>1, <2>2, <3>1 DEF N, M
    <3>3. Cardinality(N) = 2 /\ Cardinality(M) = 2
      BY <3>2, Positions
    <3>4. GetSize(h) = 16
      BY <1>4, <2>2 DEF GetSize, HasAddr2, CtlSize
    <3>5. QED
      BY <3>3, <3>4 DEF Bytes, s, N, M
  <2>3. CASE ~HasAddr2(h)
    <3>1. Len(s) = 3 /\ DOMAIN s = 1 .. 3
      BY <1>4, <2>1, <2>3 DEF Serialize, Optional, s, fc
    <3>2. N = {1, 2} /\ M = {3}
      BY <1>1, <1>2, <1>3, <1>4, <2>1, <2>3, <3>1 DEF N, M
    <3>3. Cardinality(N) = 2 /\ Cardinality(M) = 1
      BY <3>2, Positions
    <3>4. GetSize(h) = 10
      BY <1>4, <2>3 DEF GetSize, HasAddr2, CtlSize
    <3>5. QED
      BY <3>3, <3>4 DEF Bytes, s, N, M
  <2>4. QED
    BY <2>2, <2>3
<1>5. CASE ~IsCtl(h)
  <2>1. HasAddr2(h)
    BY <1>5 DEF HasAddr2
  <2>2. s = <<fc, h.duration, h.addr1>> \o <<h.addr2>> \o <<h.addr3, sc>>
              \o Optional(HasAddr4(h), <<h.addr4>>) \o Optional(IsQosData(h), <<qc>>)
    BY <1>5, <2>1 DEF Serialize, Optional, s, fc, sc, qc
  <2>3. GetSize(h) = 24 + (IF HasAddr4(h) THEN 6 ELSE 0) + (IF IsQosData(h) THEN 2 ELSE 0)
    BY <1>5 DEF GetSize
  <2>4. CASE HasAddr4(h) /\ IsQosData(h)
    <3>1. Len(s) = 8 /\ DOMAIN s = 1 .. 8
      BY <2>2, <2>4 DEF Optional
    <3>2. N = {1, 2, 6, 8} /\ M = {3, 4, 5, 7}
      BY <1>1, <1>2, <1>3, <1>5, <2>1, <2>4, <3>1 DEF N, M
    <3>3. Cardinality(N) = 4 /\ Cardinality(M) = 4
      BY <3>2, Positions
    <3>4. QED
      BY <2>3, <2>4, <3>3 DEF Bytes, s, N, M
  <2>5. CASE HasAddr4(h) /\ ~IsQosData(h)
    <3>1. Len(s) = 7 /\ DOMAIN s = 1 .. 7
      BY <2>2, <2>5 DEF Optional
    <3>2. N = {1, 2, 6} /\ M = {3, 4, 5, 7}
      BY <1>1, <1>2, <1>3, <1>5, <2>1, <2>5, <3>1 DEF N, M
    <3>3. Cardinality(N) = 3 /\ Cardinality(M) = 4
      BY <3>2, Positions
    <3>4. QED
      BY <2>3, <2>5, <3>3 DEF Bytes, s, N, M
  <2>6. CASE ~HasAddr4(h) /\ IsQosData(h)
    <3>1. Len(s) = 7 /\ DOMAIN s = 1 .. 7
      BY <2>2, <2>6 DEF Optional
    <3>2. N = {1, 2, 6, 7} /\ M = {3, 4, 5}
      BY <1>1, <1>2, <1>3, <1>5, <2>1, <2>6, <3>1 DEF N, M
    <3>3. Cardinality(N) = 4 /\ Cardinality(M) = 3
      BY <3>2, Positions
    <3>4. QED
      BY <2>3, <2>6, <3>3 DEF Bytes, s, N, M
  <2>7. CASE ~HasAddr4(h) /\ ~IsQosData(h)
    <3>1. Len(s) = 6 /\ DOMAIN s = 1 .. 6
      BY <2>2, <2>7 DEF Optional
    <3>2. N = {1, 2, 6} /\ M = {3, 4, 5}
      BY <1>1, <1>2, <1>3, <1>5, <2>1, <2>7, <3>1 DEF N, M
    <3>3. Cardinality(N) = 3 /\ Cardinality(M) = 3
      BY <3>2, Positions
    <3>4. QED
      BY <2>3, <2>7, <3>3 DEF Bytes, s, N, M
  <2>8. QED
    BY <2>4, <2>5, <2>6, <2>7
<1>6. QED
  BY <1>4, <1>5
-----------------------------------------------------------------------------

(* The neighbour table *)

Blocks == {Geohash(p) : p \in Point}

\* What can be in the table of n.
Neighbour(n) == [ip : App \ {n}, geohash : Blocks, at : Point, expire : Int]
Book(n) == [table : Seq(Neighbour(n)), timer : Off .. Delay]

Distinct(table) ==
  \A j, k \in 1 .. Len(table) : table[j].ip = table[k].ip => j = k

\* While the table has entries its timer runs, and no entry is older than the timer lets it be.
Fresh(b) ==
  \A k \in 1 .. Len(b.table) : b.timer # Off /\ b.table[k].expire >= b.timer - Delay

TableOK(n, b) == b \in Book(n) /\ Distinct(b.table) /\ Fresh(b)

LEMMA Times == Interval \in Nat \ {0} /\ Expire \in Nat \ {0} /\ Delay \in Nat \ {0}
BY SimAssumption DEF SimAssumption

LEMMA EntryOK ==
  ASSUME NEW n, NEW e \in Neighbour(n)
  PROVE  e.ip \in App \ {n} /\ e.geohash \in Blocks /\ e.at \in Point /\ e.expire \in Int
BY DEF Neighbour

LEMMA EmptyOK == \A n : TableOK(n, [table |-> <<>>, timer |-> Off])
<1>1. \A n : [table |-> <<>>, timer |-> Off] \in Book(n)
  BY Times DEF Book, Off
<1>2. QED
  BY <1>1 DEF TableOK, Distinct, Fresh

\* After Purge there are only entries that have not expired, and the timer runs for them.
LEMMA PurgeOK ==
  ASSUME NEW n, NEW b \in Book(n), Distinct(b.table)
  PROVE  /\ TableOK(n, Purge(b))
         /\ Purge(b).table # <<>> => Purge(b).timer = Delay
<1>1. CASE b.table = <<>>
  BY <1>1 DEF Purge, TableOK, Fresh
<1>2. CASE b.table # <<>>
  <2> DEFINE s == b.table
             T == Alive(s)
             r == Filter(s, T)
  <2>1. s \in Seq(Neighbour(n)) /\ b.timer \in Off .. Delay
    BY DEF Book
  <2>2. Purge(b) = [table |-> r, timer |-> Delay]
    BY <1>2 DEF Purge
  <2>3. \A e \in T : e.expire >= 0
    BY DEF Alive
  <2> HIDE DEF s, T
  <2>4. r \in Seq(Neighbour(n)) /\ \E g : Picks(s, T, Len(s), g, r)
    BY <2>1, FilterPicks
  <2>5. PICK g : Picks(s, T, Len(s), g, r)
    BY <2>4
  <2> HIDE DEF r
  <2>6. Len(r) \in Nat /\ Len(s) \in Nat
    BY <2>1, <2>4
  <2>7. Distinct(r)
    <3> SUFFICES ASSUME NEW j \in 1 .. Len(r), NEW k \in 1 .. Len(r), r[j].ip = r[k].ip
                 PROVE  j = k
      BY DEF Distinct
    <3>1. /\ r[j] = s[g[j]] /\ r[k] = s[g[k]]
          /\ g[j] \in 1 .. Len(s) /\ g[k] \in 1 .. Len(s)
      BY <2>5 DEF Picks
    <3>2. g[j] = g[k]
      BY <3>1 DEF Distinct, s
    <3>3. (j < k => g[j] < g[k]) /\ (k < j => g[k] < g[j])
      BY <2>5 DEF Picks
    <3>4. QED
      BY <2>6, <3>1, <3>2, <3>3
  <2>8. \A k \in 1 .. Len(r) : r[k].expire >= 0
    BY <2>3, <2>5 DEF Picks
  <2>9. \A k \in 1 .. Len(r) : r[k].expire \in Int
    <3>1. \A k \in 1 .. Len(r) : r[k] \in Neighbour(n)
      BY <2>4
    <3>2. QED
      BY <3>1, EntryOK
  <2>10. Purge(b) \in Book(n)
    BY <2>2, <2>4, Times DEF Book, Off
  <2>11. Fresh(Purge(b))
    BY <2>2, <2>8, <2>9, Times DEF Fresh, Off
  <2>12. QED
    BY <2>2, <2>7, <2>10, <2>11 DEF TableOK
<1>3. QED
  BY <1>1, <1>2

\* The position of the first element that passes a test, if there is one.
LEMMA MinIs ==
  ASSUME NEW S \in SUBSET Nat, S # {}
  PROVE  Min(S) \in S /\ \A k \in S : Min(S) <= k
BY Least DEF Min

LEMMA FoundByIp ==
  ASSUME NEW S, NEW table \in Seq(S), NEW ip
  PROVE  LET k == SelectInSeq(table, LAMBDA e : e.ip = ip)
         IN  /\ k \in 0 .. Len(table)
             /\ k # 0 => table[k].ip = ip
             /\ k = 0 => \A j \in 1 .. Len(table) : table[j].ip # ip
<1> DEFINE I == {j \in 1 .. Len(table) : table[j].ip = ip}
<1>1. SelectInSeq(table, LAMBDA e : e.ip = ip) = IF I # {} THEN Min(I) ELSE 0
  BY DEF SelectInSeq
<1>2. I # {} => Min(I) \in I
  BY MinIs
<1>3. QED
  BY <1>1, <1>2

\* A hello arrives as it was sent.
LEMMA HelloArrives ==
  ASSUME NEW n, NEW p
  PROVE  DeserializeHello(SerializeHello(Hello(n, p))) = Hello(n, p)
BY DEF DeserializeHello, SerializeHello, Hello

\* A hello h from another vehicle, which is at p, keeps the table of n in order.
LEMMA UpdateOK ==
  ASSUME NEW n, NEW b, TableOK(n, b), NEW h, h.origin \in App \ {n},
         NEW p \in Point, h.at = p, h.geohash = Geohash(p)
  PROVE  TableOK(n, Update(b, h))
<1> DEFINE m == h.origin
           k == SelectInSeq(b.table, LAMBDA e : e.ip = m)
           new == [ip |-> m, geohash |-> Geohash(p), at |-> p, expire |-> Expire]
<1>1. b \in Book(n) /\ b.table \in Seq(Neighbour(n)) /\ b.timer \in Off .. Delay
  BY DEF TableOK, Book
<1>2. /\ k \in 0 .. Len(b.table)
      /\ k # 0 => b.table[k].ip = m
      /\ k = 0 => \A j \in 1 .. Len(b.table) : b.table[j].ip # m
  BY <1>1, FoundByIp
<1> DEFINE known == [b EXCEPT !.table[k].expire = IF @ > Expire THEN @ ELSE Expire,
                              !.table[k].at = p]
           added == [b EXCEPT !.table = Append(@, new)]
<1>3. Update(b, h) = IF k # 0 THEN known ELSE Purge(added)
  <2>1. Neighbor(h) = new
    BY DEF Neighbor
  <2>2. QED
    BY <2>1 DEF Update
<1> HIDE DEF k
<1>4. CASE k # 0
  <2> DEFINE old == b.table[k]
             e == [old EXCEPT !.expire = IF @ > Expire THEN @ ELSE Expire, !.at = p]
  <2>1. k \in 1 .. Len(b.table) /\ old \in Neighbour(n)
    BY <1>1, <1>2, <1>4
  <2>2. /\ e \in Neighbour(n) /\ e.ip = old.ip
        /\ e.expire >= Expire /\ e.expire \in Int
    <3> DEFINE x == IF old.expire > Expire THEN old.expire ELSE Expire
    <3>1. x \in Int /\ x >= Expire
      <4>1. old.expire \in Int
        BY <2>1, EntryOK
      <4> HIDE DEF old
      <4>2. QED
        BY <4>1, Times
    <3>2. e = [old EXCEPT !.expire = x, !.at = p]
      OBVIOUS
    <3> HIDE DEF x, old, e
    <3>3. e \in Neighbour(n) /\ e.ip = old.ip /\ e.expire = x
      BY <2>1, <3>1, <3>2 DEF Neighbour
    <3>4. QED
      BY <3>1, <3>3
  <2>3. known = [b EXCEPT !.table = [b.table EXCEPT ![k] = e]]
    BY <1>1, <2>1 DEF Book, Neighbour
  <2> HIDE DEF e, known
  <2>4. /\ known.table = [b.table EXCEPT ![k] = e] /\ known.timer = b.timer /\ known \in Book(n)
    <3>1. known.table = [b.table EXCEPT ![k] = e] /\ known.timer = b.timer
      BY <1>1, <2>3 DEF Book
    <3>2. [b.table EXCEPT ![k] = e] \in Seq(Neighbour(n))
      BY <1>1, <2>1, <2>2
    <3>3. QED
      BY <1>1, <2>3, <3>1, <3>2 DEF Book
  <2>5. \A j \in 1 .. Len(known.table) :
          /\ known.table[j] = IF j = k THEN e ELSE b.table[j]
          /\ known.table[j].ip = b.table[j].ip
    BY <1>1, <2>1, <2>2, <2>4
  <2>6. Len(known.table) = Len(b.table)
    BY <1>1, <2>1, <2>4
  <2>7. Distinct(known.table)
    BY <2>5, <2>6 DEF TableOK, Distinct
  <2>8. Fresh(known)
    <3> SUFFICES ASSUME NEW j \in 1 .. Len(b.table)
                 PROVE  known.timer # Off /\ known.table[j].expire >= known.timer - Delay
      BY <2>6 DEF Fresh
    <3>1. b.timer # Off /\ b.table[j].expire >= b.timer - Delay
      BY DEF TableOK, Fresh
    <3>2. e.expire >= b.timer - Delay
      BY <1>1, <2>2, Times DEF Off
    <3>3. QED
      BY <2>4, <2>5, <2>6, <3>1, <3>2
  <2>9. QED
    BY <1>3, <1>4, <2>4, <2>7, <2>8 DEF TableOK
<1>5. CASE k = 0
  <2>1. new \in Neighbour(n) /\ new.ip = m
    BY Times DEF Neighbour, Blocks
  <2> HIDE DEF new
  <2>2. added.table = Append(b.table, new) /\ added \in Book(n)
    BY <1>1, <2>1 DEF Book
  <2> HIDE DEF added
  <2>3. Distinct(added.table)
    BY <1>1, <1>2, <1>5, <2>1, <2>2 DEF TableOK, Distinct
  <2>4. QED
    BY <1>3, <1>5, <2>2, <2>3, PurgeOK
<1>6. QED
  BY <1>4, <1>5

\* So does time, as long as the timer is not due.
LEMMA TickOK ==
  ASSUME NEW n, NEW b, TableOK(n, b), b.timer # 0
  PROVE  TableOK(n, [table |-> [k \in DOMAIN b.table |-> [b.table[k] EXCEPT !.expire = @ - 1]],
                     timer |-> Left(b.timer)])
<1> DEFINE t == [k \in DOMAIN b.table |-> [b.table[k] EXCEPT !.expire = @ - 1]]
<1>1. b.table \in Seq(Neighbour(n)) /\ b.timer \in Off .. Delay
  BY DEF TableOK, Book
<1>2. /\ DOMAIN b.table = 1 .. Len(b.table) /\ Len(b.table) \in Nat
      /\ \A k \in 1 .. Len(b.table) : b.table[k] \in Neighbour(n)
  BY <1>1
<1>3. \A k \in 1 .. Len(b.table) :
        t[k] \in Neighbour(n) /\ t[k].ip = b.table[k].ip /\ t[k].expire = b.table[k].expire - 1
  <2> TAKE k \in 1 .. Len(b.table)
  <2> DEFINE e == b.table[k]
             x == e.expire - 1
  <2>1. t[k] = [e EXCEPT !.expire = x]
    BY <1>2
  <2>2. e \in Neighbour(n)
    BY <1>2
  <2> HIDE DEF t, e
  <2>3. x \in Int
    BY <2>2, EntryOK
  <2>4. x = b.table[k].expire - 1 /\ e = b.table[k]
    BY DEF e
  <2> HIDE DEF x
  <2>5. t[k] \in Neighbour(n) /\ t[k].ip = e.ip /\ t[k].expire = x
    BY <2>1, <2>2, <2>3 DEF Neighbour
  <2>6. QED
    BY <2>4, <2>5
<1>4. t \in Seq(Neighbour(n)) /\ Len(t) = Len(b.table)
  <2>1. t = [k \in 1 .. Len(b.table) |-> t[k]]
    BY <1>2
  <2> HIDE DEF t
  <2>2. t \in [1 .. Len(b.table) -> Neighbour(n)]
    BY <1>3, <2>1
  <2>3. QED
    BY <1>2, <2>2, IsASeq
<1>5. Left(b.timer) \in Off .. Delay /\ (b.timer # Off => Left(b.timer) = b.timer - 1 /\ Left(b.timer) # Off)
  BY <1>1, Times DEF Left, Off
<1> HIDE DEF t
<1>6. Distinct(t)
  BY <1>3, <1>4 DEF TableOK, Distinct
<1>7. \A k \in 1 .. Len(t) : Left(b.timer) # Off /\ t[k].expire >= Left(b.timer) - Delay
  <2> TAKE k \in 1 .. Len(t)
  <2>1. b.timer # Off /\ b.table[k].expire >= b.timer - Delay
    BY <1>4 DEF TableOK, Fresh
  <2>2. b.table[k].expire \in Int
    BY <1>2, <1>4, EntryOK
  <2>3. QED
    BY <1>1, <1>3, <1>4, <1>5, <2>1, <2>2, Times DEF Off
<1>8. QED
  BY <1>4, <1>5, <1>6, <1>7 DEF TableOK, Book, Fresh, t

-----------------------------------------------------------------------------
(* The invariant *)

Flies(p) == \E f \in air : f.packet = p
Held(p)  == \E n \in Node : p \in out[n]

\* Where an IP layer means a frame to go, relayed or not.
Target(f) == IF IsMBRData(f.hdr) THEN f.hdr.addr4 ELSE f.hdr.addr1

Address == Node \cup {Null}

FrameOK(f) == f \in Frame /\ Target(f) \in Node

PacketsOK ==
  /\ unsent \subseteq Packet /\ arrived \subseteq Packet /\ lost \subseteq Packet
  /\ out \in [Node -> SUBSET Packet]
  /\ tag \in [Packet -> Tag \cup {Null}]
  /\ \A f \in air : FrameOK(f)

\* A packet is in at most one place.
Nowhere ==
  \A p \in Packet :
    /\ p \in unsent => ~Flies(p) /\ ~Held(p) /\ p \notin arrived /\ p \notin lost
    /\ Flies(p) => ~Held(p) /\ p \notin arrived /\ p \notin lost
    /\ Held(p) => p \notin arrived /\ p \notin lost
    /\ ~(p \in arrived /\ p \in lost)
OneFrame  == \A f, g \in air : f.packet = g.packet => f = g
OneHolder == \A p \in Packet : \A m, n \in Node : p \in out[m] /\ p \in out[n] => m = n
Somewhere ==
  \A p \in Packet : p \in unsent \/ Flies(p) \/ Held(p) \/ p \in arrived \/ p \in lost

OnePlace == Nowhere /\ OneFrame /\ OneHolder /\ Somewhere

\* Where the vehicles are and what their applications and tables are.
VehiclesOK ==
  /\ net \in DOMAIN Nets
  /\ pos \in [Node -> Point] /\ moves \in 0 .. MaxMoves
  /\ hello \in [Node -> Off .. Interval] /\ stop \in [Node -> BOOLEAN]
  /\ \A n \in Node \ App : hello[n] = Off
  /\ nb = [n \in Node |-> nb[n]]
  /\ \A n \in Node : TableOK(n, nb[n])

IInv == VehiclesOK /\ PacketsOK /\ OnePlace /\ RelayChosenBySender /\ RelayIsThirdParty

-----------------------------------------------------------------------------
(* Headers *)

LEMMA Routes ==
  /\ \A p \in Packet : Src[p] \in Node /\ Dst[p] \in Node
  /\ \A m, n \in Node : NextHop[m][n] \in Node
BY SimAssumption DEF SimAssumption

LEMMA Vehicles == App \subseteq Node /\ Mobile \subseteq Node /\ IsFiniteSet(App) /\ Null \notin Node
BY SimAssumption DEF SimAssumption

LEMMA MapsOK ==
  /\ \A n \in DOMAIN Nets : \A p, q \in Point : VertexOf[<<n, Geohash(q), p>>] \in DOMAIN Maps[n]
  /\ \A n \in DOMAIN Nets : \A h, k \in DOMAIN Maps[n] :
       /\ Crossings[<<n, h, k>>] \in Seq(DOMAIN Maps[n])
       /\ Geohash(Maps[n][h].at) \in Nat
BY SimAssumption DEF SimAssumption

LEMMA NewHeaderOK ==
  ASSUME NEW A, Null \in A
  PROVE  NewHeader \in Header(A)
<1>1. NewHeader.ctrl \in FrameControl
  BY DEF NewHeader, FrameControl, Bit
<1>2. NewHeader.sequence \in SequenceControl /\ NewHeader.qos \in QosControl
  <2>1. 0 \in SequenceNumber
    BY DEF SequenceNumber
  <2>2. NewHeader.sequence \in SequenceControl
    BY <2>1 DEF NewHeader, SequenceControl
  <2>3. NewHeader.qos \in QosControl
    BY DEF NewHeader, QosControl, Bit
  <2>4. QED
    BY <2>2, <2>3
<1>3. NewHeader.duration \in Uint16
  BY DEF NewHeader, Uint16
<1>4. QED
  BY <1>1, <1>2, <1>3 DEF NewHeader, Header

\* SetType makes a header of the kind it is asked for.
LEMMA SetTypeOK ==
  ASSUME NEW A, NEW h \in Header(A), NEW kind \in {"DATA", "MBR_DATA"}
  PROVE  /\ SetType(h, kind) \in Header(A)
         /\ IsMBRData(SetType(h, kind)) <=> kind = "MBR_DATA"
         /\ SetType(h, kind).ctrl \in FrameControl
<1> DEFINE t == TypeBits[kind][1]
           u == TypeBits[kind][2]
           c == [h.ctrl EXCEPT !.type = t, !.subtype = u, !.toDs = 0, !.fromDs = 0]
<1>1. t = 2 /\ u = IF kind = "MBR_DATA" THEN 16 ELSE 0
  BY DEF TypeBits, TYPE_DATA
<1>2. SetType(h, kind) = [h EXCEPT !.ctrl = c]
  BY Zenon DEF SetType
<1>3. c \in FrameControl /\ c.type = t /\ c.subtype = u
  <2>1. h.ctrl \in FrameControl
    BY DEF Header
  <2>2. t \in 0 .. 2 /\ u \in 0 .. 31 /\ 0 \in Bit
    BY <1>1 DEF Bit
  <2> HIDE DEF t, u
  <2>3. QED
    BY <2>1, <2>2 DEF FrameControl
<1> HIDE DEF c
<1>4. SetType(h, kind) \in Header(A) /\ SetType(h, kind).ctrl = c
  BY <1>2, <1>3 DEF Header
<1>5. QED
  BY <1>1, <1>3, <1>4 DEF IsMBRData, IsData, TYPE_DATA

\* What other MACs hear of a data frame is what its sender meant.
LEMMA OnAirOK ==
  ASSUME NEW A, Null \in A, NEW h \in Header(A), NEW p, ~IsCtl(h)
  PROVE  /\ OnAir(p, h).packet = p
         /\ OnAir(p, h).hdr \in Header(A)
         /\ IsMBRData(OnAir(p, h).hdr) <=> IsMBRData(h)
         /\ OnAir(p, h).hdr.addr1 = h.addr1 /\ OnAir(p, h).hdr.addr2 = h.addr2
         /\ IsMBRData(h) => OnAir(p, h).hdr.addr4 = h.addr4
<1>1. /\ Deserialize(NewHeader, Serialize(h)) = Carried(NewHeader, h)
      /\ Carried(NewHeader, h) \in Header(A)
  BY NewHeaderOK, RoundTrip
<1>2. OnAir(p, h).packet = p /\ OnAir(p, h).hdr = Carried(NewHeader, h)
  BY <1>1 DEF OnAir
<1>3. /\ Carried(NewHeader, h).ctrl = h.ctrl
      /\ Carried(NewHeader, h).addr1 = h.addr1 /\ Carried(NewHeader, h).addr2 = h.addr2
      /\ IsMBRData(h) => Carried(NewHeader, h).addr4 = h.addr4
  BY DEF Carried, HasAddr2, HasAddr4, IsMBRData
<1>4. QED
  BY <1>1, <1>2, <1>3 DEF IsMBRData, IsData

-----------------------------------------------------------------------------
(* Tags and frames *)

\* GetnbFromsetBest finds an entry in the zone, if any.
LEMMA BestIsInZone ==
  ASSUME NEW S, NEW table \in Seq(S), NEW c, BestInZone(table, c) # 0
  PROVE  /\ BestInZone(table, c) \in 1 .. Len(table)
         /\ Row[c][table[BestInZone(table, c)].geohash] > 0
<1> DEFINE best == {k \in DOMAIN table : Row[c][table[k].geohash] > 0 /\
                      \A l \in DOMAIN table : Row[c][table[l].geohash] <= Row[c][table[k].geohash]}
<1>1. BestInZone(table, c) = IF best = {} THEN 0 ELSE Min(best)
  BY DEF BestInZone
<1>2. best \in SUBSET Nat
  OBVIOUS
<1>3. best # {} /\ Min(best) \in best
  BY <1>1, <1>2, MinIs
<1>4. BestInZone(table, c) \in best
  BY <1>1, <1>3
<1>5. QED
  BY <1>4

\* What the tag of vehicle n says: it is n that chose, and a third vehicle that n has heard
\* of; n is not in its own table, and if the next hop were in the zone there would be no tag.
LEMMA MbrForwardOK ==
  ASSUME net \in DOMAIN Nets, NEW n \in Node, NEW b, TableOK(n, b), NEW p \in Point,
         NEW hop \in Node, NEW t, t = MbrForward(b.table, n, p, hop), t # Null
  PROVE  t \in Tag /\ t.by = n /\ t.relay \notin {n, hop}
<1> DEFINE table == b.table
           k == SelectInSeq(table, LAMBDA e : e.ip = hop)
           dst == table[k]
           crossings == Crossings[<<net, VertexOf[<<net, dst.geohash, dst.at>>], VertexOf[<<net, Geohash(p), p>>]>>]
           best(c) == BestInZone(table, Maps[net][c].geoHash)
           i == SelectInSeq(crossings, LAMBDA c : DstInZone(c, dst) \/ best(c) # 0)
           at == Maps[net][crossings[i]].at
           relay == table[best(crossings[i])]
<1>1. /\ k # 0 /\ i # 0 /\ ~DstInZone(crossings[i], dst) /\ best(crossings[i]) # 0
      /\ t = [relay |-> relay.ip, by |-> n, crossing |-> Geohash(at), at |-> relay.at]
  BY DEF MbrForward, GetGeohashFromIpInNb
<1>2. table \in Seq(Neighbour(n)) /\ Distinct(table)
  BY DEF TableOK, Book
<1>3. k \in 1 .. Len(table) /\ dst.ip = hop
  <2>1. /\ k \in 0 .. Len(b.table)
        /\ k # 0 => b.table[k].ip = hop
        /\ k = 0 => \A j \in 1 .. Len(b.table) : b.table[j].ip # hop
    <3>1. b.table \in Seq(Neighbour(n))
      BY DEF TableOK, Book
    <3>2. QED
      BY <3>1, FoundByIp
  <2>2. k # 0
    BY <1>1
  <2> HIDE DEF k
  <2>3. QED
    BY <2>1, <2>2
<1> HIDE DEF table, k
<1>4. dst \in Neighbour(n)
  BY <1>2, <1>3
<1>5. crossings \in Seq(DOMAIN Maps[net])
  <2>1. dst.at \in Point /\ \E q \in Point : dst.geohash = Geohash(q)
    BY <1>4, EntryOK DEF Blocks
  <2>2. /\ VertexOf[<<net, dst.geohash, dst.at>>] \in DOMAIN Maps[net]
        /\ VertexOf[<<net, Geohash(p), p>>] \in DOMAIN Maps[net]
    BY <2>1, MapsOK
  <2>3. QED
    BY <2>2, MapsOK
<1> HIDE DEF dst, crossings
<1>6. i \in 1 .. Len(crossings)
  <2> DEFINE I == {j \in 1 .. Len(crossings) : DstInZone(crossings[j], dst) \/ best(crossings[j]) # 0}
  <2>1. i = IF I # {} THEN Min(I) ELSE 0
    BY DEF SelectInSeq
  <2>2. I \in SUBSET Nat /\ (I # {} => I \subseteq 1 .. Len(crossings))
    OBVIOUS
  <2>3. I # {}
    BY <1>1, <2>1
  <2> HIDE DEF I
  <2>4. Min(I) \in I
    BY <2>2, <2>3, MinIs
  <2>5. QED
    BY <2>1, <2>2, <2>3, <2>4
<1> HIDE DEF i
<1>7. Geohash(at) \in Nat
  <2>1. crossings[i] \in DOMAIN Maps[net]
    BY <1>5, <1>6
  <2>2. QED
    BY <2>1, MapsOK
<1>8. /\ best(crossings[i]) \in 1 .. Len(table)
      /\ Row[Maps[net][crossings[i]].geoHash][relay.geohash] > 0
  BY <1>1, <1>2, BestIsInZone
<1>9. relay \in Neighbour(n)
  BY <1>2, <1>8
<1>10. relay.ip \in App \ {n} /\ relay.at \in Point /\ relay.ip \in Node
  BY <1>9, EntryOK, Vehicles
<1>11. relay.ip # hop
  <2> SUFFICES ASSUME relay.ip = hop PROVE FALSE
    OBVIOUS
  <2>1. best(crossings[i]) = k
    BY <1>2, <1>3, <1>8 DEF Distinct, dst
  <2>2. Row[Maps[net][crossings[i]].geoHash][dst.geohash] = 0
    BY <1>1 DEF DstInZone
  <2>3. QED
    BY <1>8, <2>1, <2>2 DEF dst
<1> HIDE DEF relay, at
<1>12. QED
  BY <1>1, <1>7, <1>10, <1>11 DEF Tag

\* How OcbWifiMac::Enqueue addresses a frame, and what of it the receiver reads.
LEMMA EnqueueOK ==
  ASSUME NEW p \in Packet, NEW n \in Node, NEW to \in Node, NEW t, t # Null => t.relay \in Node
  PROVE  LET f == OnAir(p, Enqueue(n, to, t))
         IN  /\ FrameOK(f) /\ f.packet = p /\ Target(f) = to
             /\ IsMBRData(f.hdr) <=> t # Null
             /\ t # Null => f.hdr.addr1 = t.relay /\ f.hdr.addr2 = n /\ f.hdr.addr4 = to
<1> DEFINE A == Address
           kind == IF t # Null THEN "MBR_DATA" ELSE "DATA"
           h == SetType(NewHeader, kind)
           e == Enqueue(n, to, t)
<1>1. /\ h \in Header(A) /\ h.ctrl \in FrameControl
      /\ IsMBRData(h) <=> t # Null
  <2>1. Null \in A /\ kind \in {"DATA", "MBR_DATA"}
    BY DEF Address
  <2>2. NewHeader \in Header(A)
    BY <2>1, NewHeaderOK
  <2> HIDE DEF A
  <2>3. QED
    BY <2>1, <2>2, SetTypeOK
<1>2. h.ctrl.type = TYPE_DATA
  BY DEF SetType, NewHeader, TypeBits
<1>3. /\ e = IF t # Null THEN [h EXCEPT !.addr1 = t.relay, !.addr2 = n, !.addr4 = to]
                         ELSE [h EXCEPT !.addr1 = to, !.addr2 = n]
  BY DEF Enqueue
<1> HIDE DEF h, e
<1>4. /\ e \in Header(A) /\ e.ctrl = h.ctrl /\ e.addr2 = n
      /\ t # Null => e.addr1 = t.relay /\ e.addr4 = to
      /\ t = Null => e.addr1 = to
  <2>1. n \in Address /\ to \in Address /\ (t # Null => t.relay \in Address)
    BY DEF Address
  <2>2. QED
    BY <1>1, <1>3, <2>1 DEF Header
<1>5. ~IsCtl(e) /\ (IsMBRData(e) <=> t # Null)
  BY <1>1, <1>2, <1>4 DEF IsCtl, IsMBRData, IsData, TYPE_DATA, TYPE_CTL
<1>6. Null \in A
  BY DEF Address
<1> HIDE DEF A
<1>7. /\ OnAir(p, e).packet = p
      /\ OnAir(p, e).hdr \in Header(A)
      /\ IsMBRData(OnAir(p, e).hdr) <=> IsMBRData(e)
      /\ OnAir(p, e).hdr.addr1 = e.addr1 /\ OnAir(p, e).hdr.addr2 = e.addr2
      /\ IsMBRData(e) => OnAir(p, e).hdr.addr4 = e.addr4
  BY <1>4, <1>5, <1>6, OnAirOK
<1>8. QED
  BY <1>1, <1>4, <1>5, <1>7 DEF FrameOK, Frame, Address, Target, A, e, OnAir

\* What a relay makes of a frame: a plain one to the fourth address.
LEMMA RelayedOK ==
  ASSUME NEW f, FrameOK(f), IsMBRData(f.hdr)
  PROVE  LET g == OnAir(f.packet, [SetType(f.hdr, "DATA") EXCEPT !.addr1 = f.hdr.addr4,
                                                                 !.addr2 = f.hdr.addr1])
         IN  FrameOK(g) /\ g.packet = f.packet /\ Target(g) = Target(f) /\ ~IsMBRData(g.hdr)
<1> DEFINE h == SetType(f.hdr, "DATA")
           e == [h EXCEPT !.addr1 = f.hdr.addr4, !.addr2 = f.hdr.addr1]
<1> DEFINE A == Address
<1>1. Null \in A /\ f.hdr \in Header(A) /\ f.packet \in Packet
  BY DEF FrameOK, Frame, Address
<1> HIDE DEF A
<1>2. h \in Header(A) /\ ~IsMBRData(h) /\ h.ctrl \in FrameControl
  BY <1>1, SetTypeOK
<1>3. h.ctrl.type = TYPE_DATA
  BY <1>1 DEF SetType, TypeBits, Header, FrameControl
<1>4. f.hdr.addr1 \in A /\ f.hdr.addr4 \in A
  BY <1>1 DEF Header
<1> HIDE DEF h
<1>5. e \in Header(A) /\ e.ctrl = h.ctrl /\ e.addr1 = f.hdr.addr4
  BY <1>2, <1>4 DEF Header
<1> HIDE DEF e
<1>6. ~IsCtl(e) /\ ~IsMBRData(e)
  BY <1>2, <1>3, <1>5 DEF IsCtl, IsMBRData, IsData, TYPE_DATA, TYPE_CTL
<1>7. /\ OnAir(f.packet, e).packet = f.packet
      /\ OnAir(f.packet, e).hdr \in Header(A)
      /\ ~IsMBRData(OnAir(f.packet, e).hdr)
      /\ OnAir(f.packet, e).hdr.addr1 = f.hdr.addr4
  BY <1>1, <1>5, <1>6, OnAirOK
<1>8. QED
  BY <1>1, <1>7 DEF FrameOK, Frame, Target, A, Address, e, h, OnAir

-----------------------------------------------------------------------------
(* The invariant *)

LEMMA InitInv == Init => IInv
<1> SUFFICES ASSUME Init PROVE IInv
  OBVIOUS
<1>1. PacketsOK
  BY DEF Init, PacketsOK
<1>2. OnePlace
  BY DEF Init, OnePlace, Nowhere, OneFrame, OneHolder, Somewhere, Flies, Held
<1>3. RelayChosenBySender /\ RelayIsThirdParty
  BY DEF Init, RelayChosenBySender, RelayIsThirdParty
<1>4. VehiclesOK
  <2>1. StartAt \in [Node -> Point] /\ MaxMoves \in Nat
    BY SimAssumption DEF SimAssumption
  <2>2. hello \in [Node -> Off .. Interval]
    BY Times DEF Init, InstallApplications, Off
  <2>3. nb = [n \in Node |-> nb[n]] /\ \A n \in Node : TableOK(n, nb[n])
    BY EmptyOK DEF Init
  <2>4. QED
    BY <2>1, <2>2, <2>3 DEF Init, InstallApplications, VehiclesOK
<1>5. QED
  BY <1>1, <1>2, <1>3, <1>4 DEF IInv

\* The application, the vehicles' tables and their movement leave packets alone.
LEMMA PacketsLeftAlone ==
  ASSUME IInv, UNCHANGED packets
  PROVE  /\ PacketsOK' /\ OnePlace' /\ RelayChosenBySender' /\ RelayIsThirdParty'
         /\ UNCHANGED hopState
<1>1. PacketsOK' /\ OnePlace' /\ RelayChosenBySender' /\ RelayIsThirdParty'
  BY DEF IInv, packets, PacketsOK, OnePlace, Nowhere, OneFrame, OneHolder, Somewhere,
         Flies, Held, RelayChosenBySender, RelayIsThirdParty, FrameOK, Target
<1>2. UNCHANGED hopState
  BY DEF hopState, HopState, packets
<1>3. QED
  BY <1>1, <1>2

LEMMA HelloInv ==
  ASSUME IInv, NEW n \in Node, NEW receivers \in SUBSET Reader, GenerateWaveTraffic(n, receivers)
  PROVE  IInv'
<1>1. /\ hello[n] = 0 /\ receivers \subseteq Node \ {n}
      /\ nb' = [m \in Node |-> IF m \in receivers THEN Update(nb[m], Hello(n, pos[n])) ELSE nb[m]]
      /\ hello' = [hello EXCEPT ![n] = IF stop[n] THEN Off ELSE Interval]
      /\ UNCHANGED <<net, pos, moves, stop, packets>>
  BY SimAssumption, HelloArrives DEF GenerateWaveTraffic, ReceiveWavePacket, SimAssumption
<1>2. VehiclesOK
  BY DEF IInv
<1>3. n \in App /\ pos[n] \in Point
  BY <1>1, <1>2 DEF VehiclesOK, Off
<1>4. \A m \in Node : TableOK(m, nb'[m])
  <2> TAKE m \in Node
  <2>1. CASE m \in receivers
    <3>1. n \in App \ {m} /\ TableOK(m, nb[m])
      BY <1>1, <1>2, <1>3, <2>1 DEF VehiclesOK
    <3>2. TableOK(m, Update(nb[m], Hello(n, pos[n])))
      BY <1>3, <3>1, UpdateOK DEF Hello
    <3>3. QED
      BY <1>1, <2>1, <3>2
  <2>2. CASE m \notin receivers
    BY <1>1, <1>2, <2>2 DEF VehiclesOK
  <2>3. QED
    BY <2>1, <2>2
<1>5. nb' = [m \in Node |-> nb'[m]]
  BY <1>1
<1>6. hello' \in [Node -> Off .. Interval] /\ \A m \in Node \ App : hello'[m] = Off
  BY <1>1, <1>2, <1>3, Times DEF VehiclesOK, Off
<1>7. VehiclesOK'
  BY <1>1, <1>2, <1>4, <1>5, <1>6 DEF VehiclesOK
<1>8. QED
  BY <1>1, <1>7, PacketsLeftAlone DEF IInv

LEMMA StopInv ==
  ASSUME IInv, NEW n \in Node, StopApplication(n)
  PROVE  IInv'
<1>1. stop' = [stop EXCEPT ![n] = TRUE] /\ UNCHANGED <<net, pos, moves, hello, nb, packets>>
  BY DEF StopApplication
<1>2. VehiclesOK'
  BY <1>1 DEF IInv, VehiclesOK
<1>3. QED
  BY <1>1, <1>2, PacketsLeftAlone DEF IInv

\* The table of n is purged, and nothing else changes about the vehicles.
LEMMA PurgedOK ==
  ASSUME IInv, NEW n \in Node, NEW b \in Book(n), b.table = nb[n].table,
         nb' = [nb EXCEPT ![n] = Purge(b)], UNCHANGED <<net, pos, moves, hello, stop>>
  PROVE  VehiclesOK'
<1>1. VehiclesOK
  BY DEF IInv
<1>2. TableOK(n, Purge(b))
  BY <1>1, PurgeOK DEF VehiclesOK, TableOK
<1>3. nb' = [m \in Node |-> nb'[m]] /\ \A m \in Node : TableOK(m, nb'[m])
  BY <1>1, <1>2 DEF VehiclesOK
<1>4. QED
  BY <1>1, <1>3 DEF VehiclesOK

LEMMA PurgeTimerInv ==
  ASSUME IInv, NEW n \in Node, PurgeTimer(n)
  PROVE  IInv'
<1> DEFINE b == [nb[n] EXCEPT !.timer = Off]
<1>1. nb' = [nb EXCEPT ![n] = Purge(b)] /\ UNCHANGED <<net, pos, moves, hello, stop, packets>>
  BY DEF PurgeTimer
<1>2. nb[n] \in Book(n)
  BY DEF IInv, VehiclesOK, TableOK
<1>3. b \in Book(n) /\ b.table = nb[n].table
  BY <1>2, Times DEF Book, Off
<1> HIDE DEF b
<1>4. VehiclesOK'
  BY <1>1, <1>3, PurgedOK
<1>5. QED
  BY <1>1, <1>4, PacketsLeftAlone DEF IInv

LEMMA TickInv ==
  ASSUME IInv, Tick
  PROVE  IInv'
<1> DEFINE after(n) ==
      [table |-> [k \in DOMAIN nb[n].table |-> [nb[n].table[k] EXCEPT !.expire = @ - 1]],
       timer |-> Left(nb[n].timer)]
<1>1. /\ \A n \in Node : hello[n] # 0 /\ nb[n].timer # 0
      /\ hello' = [n \in Node |-> Left(hello[n])]
      /\ nb' = [n \in Node |-> after(n)]
      /\ UNCHANGED <<net, pos, moves, stop, packets>>
  BY DEF Tick
<1>2. VehiclesOK
  BY DEF IInv
<1>3. \A n \in Node : TableOK(n, after(n))
  BY <1>1, <1>2, TickOK DEF VehiclesOK
<1> HIDE DEF after
<1>4. nb' = [n \in Node |-> nb'[n]] /\ \A n \in Node : TableOK(n, nb'[n])
  BY <1>1, <1>3
<1>5. hello' \in [Node -> Off .. Interval] /\ \A n \in Node \ App : hello'[n] = Off
  BY <1>1, <1>2, Times DEF VehiclesOK, Left, Off
<1>6. VehiclesOK'
  BY <1>1, <1>2, <1>4, <1>5 DEF VehiclesOK
<1>7. QED
  BY <1>1, <1>6, PacketsLeftAlone DEF IInv

LEMMA MoveInv ==
  ASSUME IInv, NEW n \in Node, NEW p \in Point, Move(n, p)
  PROVE  IInv'
<1>1. /\ moves < MaxMoves /\ pos' = [pos EXCEPT ![n] = p] /\ moves' = moves + 1
      /\ UNCHANGED <<net, hello, stop, nb, packets>>
  BY DEF Move, apps
<1>2. MaxMoves \in Nat
  BY SimAssumption DEF SimAssumption
<1>3. VehiclesOK'
  BY <1>1, <1>2 DEF IInv, VehiclesOK
<1>4. QED
  BY <1>1, <1>3, PacketsLeftAlone DEF IInv

\* What is not about packets stays as it is.
LEMMA VehiclesLeftAlone ==
  ASSUME IInv, UNCHANGED <<net, pos, moves, apps>>
  PROVE  VehiclesOK'
BY DEF IInv, VehiclesOK, apps

LEMMA GenerateInv ==
  ASSUME IInv, NEW p \in Packet, Generate(p)
  PROVE  IInv'
<1>1. Src[p] \in Node
  BY Routes
<1>2. /\ p \in unsent /\ unsent' = unsent \ {p}
      /\ out' = [out EXCEPT ![Src[p]] = @ \cup {p}]
      /\ UNCHANGED <<tag, air, arrived, lost>>
  BY DEF Generate
<1>3. /\ unsent \subseteq Packet /\ out \in [Node -> SUBSET Packet]
      /\ \A f \in air : FrameOK(f)
  BY DEF IInv, PacketsOK
<1>4. PacketsOK'
  BY <1>1, <1>2, <1>3 DEF PacketsOK, IInv
<1>5. \A m \in Node : out'[m] = IF m = Src[p] THEN out[m] \cup {p} ELSE out[m]
  BY <1>1, <1>2, <1>3
<1>6. \A q \in Packet : (Flies(q)' <=> Flies(q)) /\ (Held(q)' <=> Held(q) \/ q = p)
  BY <1>1, <1>2, <1>5 DEF Flies, Held
<1>7. Nowhere /\ OneFrame /\ OneHolder /\ Somewhere
  BY DEF IInv, OnePlace
<1>8. Nowhere' /\ Somewhere'
  BY <1>2, <1>6, <1>7 DEF Nowhere, Somewhere
<1>9. OneFrame' /\ OneHolder'
  BY <1>2, <1>5, <1>7 DEF OneFrame, OneHolder, Nowhere, Held
<1>10. RelayChosenBySender' /\ RelayIsThirdParty'
  BY <1>2 DEF IInv, RelayChosenBySender, RelayIsThirdParty
<1>11. VehiclesOK'
  BY VehiclesLeftAlone DEF Generate
<1>12. QED
  BY <1>4, <1>8, <1>9, <1>10, <1>11 DEF IInv, OnePlace

\* The tag that vehicle n puts on a packet for its next hop.
LEMMA ChosenOK ==
  ASSUME IInv, NEW n \in Node, NEW hop \in Node, NEW t,
         t = MbrForward(Purge(nb[n]).table, n, pos[n], hop), t # Null
  PROVE  t \in Tag /\ t.by = n /\ t.relay \notin {n, hop} /\ t.relay \in Node
<1>1. net \in DOMAIN Nets /\ pos[n] \in Point /\ TableOK(n, Purge(nb[n]))
  BY PurgeOK DEF IInv, VehiclesOK, TableOK
<1>2. t \in Tag /\ t.by = n /\ t.relay \notin {n, hop}
  BY <1>1, MbrForwardOK
<1>3. QED
  BY <1>2 DEF Tag

LEMMA SendInv ==
  ASSUME IInv, NEW n \in Node, NEW p \in Packet, Send(n, p)
  PROVE  IInv'
<1> DEFINE hop == NextHop[n][Dst[p]]
           b == Purge(nb[n])
           t == MbrForward(b.table, n, pos[n], hop)
           g == OnAir(p, Enqueue(n, hop, t))
<1>1. hop \in Node
  BY Routes
<1>2. t # Null => t \in Tag /\ t.by = n /\ t.relay \notin {n, hop} /\ t.relay \in Node
  BY <1>1, ChosenOK
<1>3. /\ FrameOK(g) /\ g.packet = p
      /\ IsMBRData(g.hdr) => t # Null /\ g.hdr.addr1 = t.relay /\ g.hdr.addr2 = n
                                    /\ g.hdr.addr4 = hop
  <2> HIDE DEF t
  <2>1. QED
    BY <1>1, <1>2, EnqueueOK
<1>4. /\ p \in out[n] /\ out' = [out EXCEPT ![n] = @ \ {p}]
      /\ tag' = [tag EXCEPT ![p] = t]
      /\ air' = air \cup {g}
      /\ nb' = [nb EXCEPT ![n] = b]
      /\ UNCHANGED <<net, pos, moves, hello, stop, unsent, arrived, lost>>
  BY DEF Send, NewTag
<1>5. VehiclesOK'
  <2>1. nb[n] \in Book(n)
    BY DEF IInv, VehiclesOK, TableOK
  <2>2. QED
    BY <1>4, <2>1, PurgedOK
<1> HIDE DEF t, g, b, hop
<1>6. /\ unsent \subseteq Packet /\ out \in [Node -> SUBSET Packet]
      /\ tag \in [Packet -> Tag \cup {Null}] /\ \A f \in air : FrameOK(f)
  BY DEF IInv, PacketsOK
<1>7. PacketsOK'
  BY <1>2, <1>3, <1>4, <1>6 DEF PacketsOK, IInv
<1>8. \A m \in Node : out'[m] = IF m = n THEN out[m] \ {p} ELSE out[m]
  BY <1>4, <1>6
<1>9. Nowhere /\ OneFrame /\ OneHolder /\ Somewhere
  BY DEF IInv, OnePlace
<1>10. \A f \in air : f.packet # p
  BY <1>4, <1>9 DEF Nowhere, Flies, Held
<1>11. \A q \in Packet : (Flies(q)' <=> Flies(q) \/ q = p) /\ (Held(q)' <=> Held(q) /\ q # p)
  BY <1>3, <1>4, <1>8, <1>9 DEF Flies, Held, OneHolder
<1>12. Nowhere' /\ Somewhere'
  BY <1>4, <1>9, <1>11 DEF Nowhere, Somewhere, Held
<1>13. OneFrame' /\ OneHolder'
  BY <1>3, <1>4, <1>8, <1>9, <1>10 DEF OneFrame, OneHolder
<1>14. ASSUME NEW f \in air', IsMBRData(f.hdr)
       PROVE  /\ tag'[f.packet] # Null /\ tag'[f.packet].by = f.hdr.addr2
              /\ tag'[f.packet].relay = f.hdr.addr1
              /\ f.hdr.addr1 \notin {f.hdr.addr2, f.hdr.addr4}
  <2>1. CASE f \in air
    BY <2>1, <1>4, <1>6, <1>10, <1>14
       DEF IInv, RelayChosenBySender, RelayIsThirdParty, FrameOK, Frame
  <2>2. CASE f = g
    BY <2>2, <1>2, <1>3, <1>4, <1>6, <1>14
  <2>3. QED
    BY <2>1, <2>2, <1>4
<1>15. RelayChosenBySender' /\ RelayIsThirdParty'
  BY <1>14 DEF RelayChosenBySender, RelayIsThirdParty
<1>16. QED
  BY <1>5, <1>7, <1>12, <1>13, <1>15 DEF IInv, OnePlace

LEMMA RelayInv ==
  ASSUME IInv, NEW f \in air, Relay(f)
  PROVE  IInv'
<1> DEFINE g == OnAir(f.packet, [SetType(f.hdr, "DATA") EXCEPT !.addr1 = f.hdr.addr4,
                                                               !.addr2 = f.hdr.addr1])
<1>1. FrameOK(f)
  BY DEF IInv, PacketsOK
<1>2. FrameOK(g) /\ g.packet = f.packet /\ ~IsMBRData(g.hdr)
  BY <1>1, RelayedOK DEF Relay
<1>3. air' = (air \ {f}) \cup {g} /\ UNCHANGED <<unsent, out, tag, arrived, lost>>
  BY DEF Relay
<1> HIDE DEF g
<1>4. PacketsOK'
  BY <1>2, <1>3 DEF IInv, PacketsOK
<1>5. \A q \in Packet : (Flies(q)' <=> Flies(q)) /\ (Held(q)' <=> Held(q))
  BY <1>2, <1>3 DEF Flies, Held
<1>6. Nowhere' /\ Somewhere'
  BY <1>3, <1>5 DEF IInv, OnePlace, Nowhere, Somewhere
<1>7. OneFrame' /\ OneHolder'
  BY <1>2, <1>3 DEF IInv, OnePlace, OneFrame, OneHolder
<1>8. RelayChosenBySender' /\ RelayIsThirdParty'
  BY <1>2, <1>3 DEF IInv, RelayChosenBySender, RelayIsThirdParty
<1>9. VehiclesOK'
  BY VehiclesLeftAlone DEF Relay
<1>10. QED
  BY <1>4, <1>6, <1>7, <1>8, <1>9 DEF IInv, OnePlace

LEMMA ForwardUpInv ==
  ASSUME IInv, NEW f \in air, ForwardUp(f)
  PROVE  IInv'
<1> DEFINE p == f.packet
           n == f.hdr.addr1
<1>1. p \in Packet /\ n \in Node /\ Dst[p] \in Node
  BY Routes DEF IInv, PacketsOK, FrameOK, Frame, Target, ForwardUp
<1>2. /\ air' = air \ {f} /\ UNCHANGED <<unsent, tag, lost>>
      /\ \/ arrived' = arrived \cup {p} /\ out' = out
         \/ arrived' = arrived /\ out' = [out EXCEPT ![n] = @ \cup {p}]
  BY DEF ForwardUp
<1>3. /\ unsent \subseteq Packet /\ out \in [Node -> SUBSET Packet]
      /\ arrived \subseteq Packet /\ lost \subseteq Packet
      /\ tag \in [Packet -> Tag \cup {Null}] /\ \A g \in air : FrameOK(g)
  BY DEF IInv, PacketsOK
<1>4. Nowhere /\ OneFrame /\ OneHolder /\ Somewhere
  BY DEF IInv, OnePlace
<1>5. Flies(p)
  BY DEF Flies
<1> HIDE DEF p, n
<1>6. \A q \in Packet : Flies(q)' <=> Flies(q) /\ q # p
  BY <1>2, <1>4 DEF Flies, OneFrame, p
<1>7. RelayChosenBySender' /\ RelayIsThirdParty' /\ OneFrame' /\ VehiclesOK'
  BY <1>2, <1>4, VehiclesLeftAlone
     DEF IInv, RelayChosenBySender, RelayIsThirdParty, OneFrame, ForwardUp
<1>8. CASE arrived' = arrived \cup {p} /\ out' = out
  <2>1. PacketsOK' /\ OneHolder'
    BY <1>1, <1>2, <1>3, <1>4, <1>8 DEF PacketsOK, OneHolder
  <2>2. \A q \in Packet : Held(q)' <=> Held(q)
    BY <1>8 DEF Held
  <2>3. Nowhere' /\ Somewhere'
    BY <1>1, <1>2, <1>4, <1>5, <1>6, <1>8, <2>2 DEF Nowhere, Somewhere
  <2>4. QED
    BY <1>7, <2>1, <2>3 DEF IInv, OnePlace
<1>9. CASE arrived' = arrived /\ out' = [out EXCEPT ![n] = @ \cup {p}]
  <2>1. \A m \in Node : out'[m] = IF m = n THEN out[m] \cup {p} ELSE out[m]
    BY <1>1, <1>3, <1>9
  <2>2. PacketsOK'
    BY <1>1, <1>2, <1>3, <1>9 DEF PacketsOK
  <2>3. \A q \in Packet : Held(q)' <=> Held(q) \/ q = p
    BY <1>1, <2>1 DEF Held
  <2>4. OneHolder'
    <3>1. \A m \in Node : p \notin out[m]
      BY <1>1, <1>4, <1>5 DEF Nowhere, Held
    <3>2. QED
      BY <1>4, <2>1, <3>1 DEF OneHolder
  <2>5. Nowhere' /\ Somewhere'
    BY <1>1, <1>2, <1>4, <1>5, <1>6, <1>9, <2>3 DEF Nowhere, Somewhere
  <2>6. QED
    BY <1>7, <2>2, <2>4, <2>5 DEF IInv, OnePlace
<1>10. QED
  BY <1>2, <1>8, <1>9

LEMMA LoseInv ==
  ASSUME IInv, NEW f \in air, Lose(f)
  PROVE  IInv'
<1> DEFINE p == f.packet
<1>1. p \in Packet
  BY DEF IInv, PacketsOK, FrameOK, Frame
<1>2. air' = air \ {f} /\ lost' = lost \cup {p} /\ UNCHANGED <<unsent, out, tag, arrived>>
  BY DEF Lose
<1>3. Flies(p)
  BY DEF Flies
<1>4. \A q \in Packet : (Flies(q)' <=> Flies(q) /\ q # p) /\ (Held(q)' <=> Held(q))
  BY <1>2 DEF IInv, OnePlace, OneFrame, Flies, Held
<1> HIDE DEF p
<1>5. /\ PacketsOK' /\ OneFrame' /\ OneHolder'
      /\ RelayChosenBySender' /\ RelayIsThirdParty' /\ VehiclesOK'
  BY <1>1, <1>2, VehiclesLeftAlone
     DEF IInv, PacketsOK, OnePlace, OneFrame, OneHolder, RelayChosenBySender,
         RelayIsThirdParty, Lose
<1>6. Nowhere' /\ Somewhere'
  BY <1>1, <1>2, <1>3, <1>4 DEF IInv, OnePlace, Nowhere, Somewhere
<1>7. QED
  BY <1>5, <1>6 DEF IInv, OnePlace

LEMMA NextInv == IInv /\ [Next]_vars => IInv'
<1> SUFFICES ASSUME IInv, [Next]_vars PROVE IInv'
  OBVIOUS
<1>1. ASSUME NEW n \in Node, NEW receivers \in SUBSET Reader, GenerateWaveTraffic(n, receivers)
      PROVE  IInv'
  BY <1>1, HelloInv
<1>2. ASSUME NEW n \in Node, StopApplication(n) \/ PurgeTimer(n) PROVE IInv'
  BY <1>2, StopInv, PurgeTimerInv
<1>3. CASE Tick
  BY <1>3, TickInv
<1>4. ASSUME NEW n \in Node, NEW p \in Point, Move(n, p) PROVE IInv'
  BY <1>4, MoveInv
<1>5. ASSUME NEW p \in Packet, Generate(p) PROVE IInv'
  BY <1>5, GenerateInv
<1>6. ASSUME NEW n \in Node, NEW p \in Packet, Send(n, p) PROVE IInv'
  BY <1>6, SendInv
<1>7. ASSUME NEW f \in air, ForwardUp(f) \/ Relay(f) \/ Lose(f) PROVE IInv'
  BY <1>7, ForwardUpInv, RelayInv, LoseInv
<1>8. CASE UNCHANGED vars
  BY <1>8, PacketsLeftAlone, VehiclesLeftAlone DEF vars, packets, apps, IInv
<1>9. QED
  BY <1>1, <1>2, <1>3, <1>4, <1>5, <1>6, <1>7, <1>8 DEF Next

LEMMA Invariant == Spec => []IInv
BY InitInv, NextInv, PTL DEF Spec

\* How many entries a table has is bounded by the other vehicles with the application.
LEMMA TableBounded ==
  ASSUME NEW n, NEW b, TableOK(n, b)
  PROVE  Len(b.table) <= Cardinality(App \ {n})
<1> DEFINE S == 1 .. Len(b.table)
           T == App \ {n}
           f == [k \in S |-> b.table[k].ip]
<1>1. b.table \in Seq(Neighbour(n)) /\ Len(b.table) \in Nat
  BY DEF TableOK, Book
<1>2. \A k \in S : b.table[k] \in Neighbour(n)
  BY <1>1
<1>3. f \in [S -> T]
  BY <1>2, EntryOK
<1>4. \A j, k \in S : f[j] = f[k] => j = k
  BY DEF TableOK, Distinct
<1>5. IsFiniteSet(S) /\ Cardinality(S) = Len(b.table)
  BY <1>1, FS_Interval
<1>6. IsFiniteSet(T) /\ Cardinality(T) \in Nat
  BY Vehicles, FS_RemoveElement, FS_CardinalityType
<1> HIDE DEF f, S, T
<1>7. ~(Cardinality(T) < Cardinality(S))
  BY <1>3, <1>4, <1>5, <1>6, FS_PigeonHole
<1>8. QED
  BY <1>1, <1>5, <1>6, <1>7 DEF T

\* Every variable keeps its type, and a table has no more entries than there are others to hear.
THEOREM TypeCorrect == Spec => []TypeOK
<1>1. IInv => TypeOK
  <2> SUFFICES ASSUME IInv PROVE TypeOK
    OBVIOUS
  <2>1. ASSUME NEW n \in Node
        PROVE  /\ nb[n].timer \in Off .. Delay /\ ToSet(nb[n].table) \subseteq Entry
               /\ Len(nb[n].table) <= Cardinality(App \ {n})
    <3>1. TableOK(n, nb[n])
      BY DEF IInv, VehiclesOK
    <3>2. nb[n].timer \in Off .. Delay /\ nb[n].table \in Seq(Neighbour(n))
      BY <3>1 DEF TableOK, Book
    <3>3. Neighbour(n) \subseteq Entry
      <4>1. Blocks \subseteq Nat
        BY SimAssumption DEF SimAssumption, Blocks
      <4>2. QED
        BY <4>1, Vehicles DEF Neighbour, Entry
    <3>4. ToSet(nb[n].table) \subseteq Neighbour(n)
      BY <3>2 DEF ToSet
    <3>5. QED
      BY <3>1, <3>2, <3>3, <3>4, TableBounded
  <2>2. air \subseteq Frame
    BY DEF IInv, PacketsOK, FrameOK
  <2>3. QED
    BY <2>1, <2>2 DEF TypeOK, IInv, VehiclesOK, PacketsOK
<1>2. QED
  BY <1>1, Invariant, PTL

\* A relay is a third vehicle, neither the sender nor the next hop: the zone test, with a
\* table in which no vehicle is twice and its owner is not, sees to that (mbr_forward).
THEOREM ThirdParty == Spec => []RelayIsThirdParty
<1>1. IInv => RelayIsThirdParty
  BY DEF IInv
<1>2. QED
  BY <1>1, Invariant, PTL

\* No entry outlives its time by more than one period of the timer: while there are entries
\* the timer runs, and it is never further ahead than the oldest entry allows (Purge).
THEOREM EntriesExpire == Spec => []NoEntryOutlivesExpiry
<1>1. IInv => NoEntryOutlivesExpiry
  <2> SUFFICES ASSUME IInv, NEW n \in Node, NEW k \in DOMAIN nb[n].table
               PROVE  nb[n].table[k].expire + Delay >= 0
    BY DEF NoEntryOutlivesExpiry
  <2>1. nb[n] \in Book(n) /\ Fresh(nb[n])
    BY DEF IInv, VehiclesOK, TableOK
  <2>2. nb[n].timer \in Off .. Delay /\ k \in 1 .. Len(nb[n].table) /\ nb[n].table[k] \in Neighbour(n)
    BY <2>1 DEF Book
  <2>3. nb[n].timer # Off /\ nb[n].table[k].expire >= nb[n].timer - Delay
    BY <2>1, <2>2 DEF Fresh
  <2>4. nb[n].table[k].expire \in Int
    BY <2>2, EntryOK
  <2>5. QED
    BY <2>2, <2>3, <2>4, Times DEF Off
<1>2. QED
  BY <1>1, Invariant, PTL

\* A frame is relayed only by a vehicle that its sender chose (OcbWifiMac).
THEOREM RelayChosen == Spec => []RelayChosenBySender
<1>1. IInv => RelayChosenBySender
  BY DEF IInv
<1>2. QED
  BY <1>1, Invariant, PTL

-----------------------------------------------------------------------------
(* The refinement *)

At(phase, node) == [phase |-> phase, node |-> node]

\* What the layer above should see of a packet.
SeenAt(p) ==
  /\ p \in unsent => HopState(p) = At("unsent", Src[p])
  /\ \A n \in Node : p \in out[n] => HopState(p) = At("held", n)
  /\ \A f \in air : f.packet = p => HopState(p) = At("flying", Target(f))
  /\ p \in arrived => HopState(p) = At("arrived", Dst[p])
  /\ p \in lost => HopState(p) = At("lost", Dst[p])

AllSeen == \A p \in Packet : SeenAt(p)

\* In a state of the invariant it does.
LEMMA HopStateIs == IInv => AllSeen
<1> SUFFICES ASSUME IInv, NEW p \in Packet
             PROVE  SeenAt(p)
  BY DEF AllSeen
<1>1. Nowhere /\ OneFrame /\ OneHolder
  BY DEF IInv, OnePlace
<1>2. p \in unsent => HopState(p) = At("unsent", Src[p])
  BY DEF HopState, At
<1>3. ASSUME NEW n \in Node, p \in out[n] PROVE HopState(p) = At("held", n)
  <2>1. p \notin unsent /\ \E m \in Node : p \in out[m]
    BY <1>1, <1>3 DEF Nowhere, Held
  <2>2. (CHOOSE m \in Node : p \in out[m]) = n
    BY <1>1, <1>3 DEF OneHolder
  <2>3. QED
    BY <2>1, <2>2 DEF HopState, At
<1>4. ASSUME NEW f \in air, f.packet = p PROVE HopState(p) = At("flying", Target(f))
  <2>1. p \notin unsent /\ ~(\E m \in Node : p \in out[m]) /\ \E g \in air : g.packet = p
    BY <1>1, <1>4 DEF Nowhere, Held, Flies
  <2>2. (CHOOSE g \in air : g.packet = p) = f
    BY <1>1, <1>4 DEF OneFrame
  <2>3. QED
    BY <2>1, <2>2 DEF HopState, At, Target
<1>5. ASSUME p \in arrived \/ p \in lost
      PROVE  HopState(p) = At(IF p \in arrived THEN "arrived" ELSE "lost", Dst[p])
  <2>1. p \notin unsent /\ ~(\E m \in Node : p \in out[m]) /\ ~(\E g \in air : g.packet = p)
    BY <1>1, <1>5 DEF Nowhere, Held, Flies
  <2>2. QED
    BY <2>1 DEF HopState, At
<1>6. ~(p \in arrived /\ p \in lost)
  BY <1>1 DEF Nowhere
<1>7. QED
  BY <1>2, <1>3, <1>4, <1>5, <1>6 DEF SeenAt

\* A packet that a step does not touch looks the same after it.
Untouched(q) ==
  /\ q \in unsent' <=> q \in unsent
  /\ \A n \in Node : q \in out'[n] <=> q \in out[n]
  /\ \A f : f.packet = q => (f \in air' <=> f \in air)
  /\ q \in arrived' <=> q \in arrived
  /\ q \in lost' <=> q \in lost

LEMMA UntouchedSame ==
  ASSUME IInv, IInv', NEW q \in Packet, Untouched(q)
  PROVE  HopState(q)' = HopState(q)
<1>1. AllSeen'
  BY HopStateIs, PTL
<1>2. q \in unsent \/ Flies(q) \/ Held(q) \/ q \in arrived \/ q \in lost
  BY DEF IInv, OnePlace, Somewhere
<1>3. CASE q \in unsent
  BY <1>1, <1>3, HopStateIs DEF Untouched, AllSeen, SeenAt
<1>4. ASSUME NEW f \in air, f.packet = q PROVE HopState(q)' = HopState(q)
  BY <1>1, <1>4, HopStateIs DEF Untouched, AllSeen, SeenAt
<1>5. ASSUME NEW n \in Node, q \in out[n] PROVE HopState(q)' = HopState(q)
  BY <1>1, <1>5, HopStateIs DEF Untouched, AllSeen, SeenAt
<1>6. CASE q \in arrived
  BY <1>1, <1>6, HopStateIs DEF Untouched, AllSeen, SeenAt
<1>7. CASE q \in lost
  BY <1>1, <1>7, HopStateIs DEF Untouched, AllSeen, SeenAt
<1>8. QED
  BY <1>2, <1>3, <1>4, <1>5, <1>6, <1>7 DEF Flies, Held

LEMMA PhaseSet ==
  ASSUME NEW phase, NEW node, NEW to
  PROVE  /\ [At(phase, node) EXCEPT !.phase = to] = At(to, node)
         /\ At(phase, node).phase = phase /\ At(phase, node).node = node
BY DEF At

\* HopStateIs before and after a step that touches p alone.
LEMMA OneTouched ==
  ASSUME IInv, IInv', NEW p \in Packet, \A q \in Packet \ {p} : Untouched(q)
  PROVE  /\ hopState' = [hopState EXCEPT ![p] = HopState(p)']
         /\ hopState[p] = HopState(p)
         /\ p \in unsent' => HopState(p)' = At("unsent", Src[p])
         /\ \A n \in Node : p \in out'[n] => HopState(p)' = At("held", n)
         /\ \A f \in air' : f.packet = p => HopState(p)' = At("flying", Target(f))
         /\ p \in arrived' => HopState(p)' = At("arrived", Dst[p])
         /\ p \in lost' => HopState(p)' = At("lost", Dst[p])
<1>1. \A q \in Packet \ {p} : HopState(q)' = HopState(q)
  BY UntouchedSame
<1>2. hopState' = [hopState EXCEPT ![p] = HopState(p)'] /\ hopState[p] = HopState(p)
  BY <1>1 DEF hopState
<1>3. AllSeen'
  BY HopStateIs, PTL
<1>4. QED
  BY <1>2, <1>3 DEF AllSeen, SeenAt

LEMMA GenerateMaps ==
  ASSUME IInv, IInv', NEW p \in Packet, Generate(p)
  PROVE  Hops!Send(p)
<1>1. /\ p \in unsent /\ unsent' = unsent \ {p} /\ UNCHANGED <<air, arrived, lost>>
      /\ Src[p] \in Node /\ out \in [Node -> SUBSET Packet]
      /\ out' = [out EXCEPT ![Src[p]] = @ \cup {p}]
  BY Routes DEF Generate, IInv, PacketsOK
<1>2. /\ \A q \in Packet \ {p} : Untouched(q)
      /\ p \in out'[Src[p]]
  BY <1>1 DEF Untouched
<1>3. hopState[p] = At("unsent", Src[p])
  BY <1>1, HopStateIs DEF hopState, AllSeen, SeenAt
<1>4. hopState' = [hopState EXCEPT ![p] = At("held", Src[p])]
  BY <1>1, <1>2, OneTouched
<1>5. [hopState EXCEPT ![p].phase = "held"] = [hopState EXCEPT ![p] = At("held", Src[p])]
  <2>1. [hopState[p] EXCEPT !.phase = "held"] = At("held", Src[p])
    BY <1>3, PhaseSet
  <2>2. QED
    BY <2>1, Zenon
<1>6. QED
  BY <1>3, <1>4, <1>5 DEF Hops!Send, At

LEMMA SendMaps ==
  ASSUME IInv, IInv', NEW n \in Node, NEW p \in Packet, Send(n, p)
  PROVE  Hops!Hop(p)
<1> DEFINE hop == NextHop[n][Dst[p]]
           t == MbrForward(Purge(nb[n]).table, n, pos[n], hop)
           g == OnAir(p, Enqueue(n, hop, t))
<1>1. g.packet = p /\ Target(g) = hop
  <2>1. hop \in Node
    BY Routes
  <2>2. t # Null => t.relay \in Node
    BY <2>1, ChosenOK
  <2> HIDE DEF t, hop
  <2>3. QED
    BY <2>1, <2>2, EnqueueOK
<1>2. /\ p \in out[n] /\ out' = [out EXCEPT ![n] = @ \ {p}] /\ out \in [Node -> SUBSET Packet]
      /\ air' = air \cup {g} /\ UNCHANGED <<unsent, arrived, lost>>
  BY DEF Send, NewTag, IInv, PacketsOK
<1> HIDE DEF g
<1>3. \A q \in Packet \ {p} : Untouched(q)
  BY <1>1, <1>2 DEF Untouched
<1>4. hopState[p] = At("held", n)
  BY <1>2, HopStateIs DEF hopState, AllSeen, SeenAt
<1>5. hopState' = [hopState EXCEPT ![p] = At("flying", hop)]
  BY <1>1, <1>2, <1>3, OneTouched
<1>6. QED
  BY <1>4, <1>5 DEF Hops!Hop, At

LEMMA ForwardUpMaps ==
  ASSUME IInv, IInv', NEW f \in air, ForwardUp(f)
  PROVE  f.packet \in Packet /\ Hops!Arrive(f.packet)
<1> DEFINE p == f.packet
           n == Target(f)
<1>1. /\ p \in Packet /\ n \in Node /\ out \in [Node -> SUBSET Packet]
      /\ air' = air \ {f} /\ UNCHANGED <<unsent, lost>>
      /\ IF Dst[p] = n THEN arrived' = arrived \cup {p} /\ UNCHANGED out
                       ELSE out' = [out EXCEPT ![n] = @ \cup {p}] /\ UNCHANGED arrived
  BY DEF ForwardUp, Target, IInv, PacketsOK, FrameOK
<1>2. \A q \in Packet \ {p} : Untouched(q)
  BY <1>1 DEF Untouched
<1>3. hopState[p] = At("flying", n)
  BY <1>1, HopStateIs DEF hopState, AllSeen, SeenAt
<1> HIDE DEF p, n
<1>4. CASE Dst[p] = n
  <2>1. hopState' = [hopState EXCEPT ![p] = At("arrived", n)]
    BY <1>1, <1>2, <1>4, OneTouched
  <2>2. [hopState[p] EXCEPT !.phase = "arrived"] = At("arrived", n)
    BY <1>3, PhaseSet
  <2>3. hopState' = [hopState EXCEPT ![p].phase = "arrived"]
    BY <2>1, <2>2, Zenon
  <2>4. (IF hopState[p].node = Dst[p] THEN "arrived" ELSE "held") = "arrived"
    BY <1>3, <1>4, PhaseSet
  <2>5. hopState[p].phase = "flying" /\ p \in Packet
    BY <1>1, <1>3, PhaseSet
  <2>6. QED
    BY <2>3, <2>4, <2>5, Zenon DEF Hops!Arrive, p
<1>5. CASE Dst[p] # n
  <2>1. hopState' = [hopState EXCEPT ![p] = At("held", n)]
    BY <1>1, <1>2, <1>5, OneTouched
  <2>2. [hopState[p] EXCEPT !.phase = "held"] = At("held", n)
    BY <1>3, PhaseSet
  <2>3. hopState' = [hopState EXCEPT ![p].phase = "held"]
    BY <2>1, <2>2, Zenon
  <2>4. (IF hopState[p].node = Dst[p] THEN "arrived" ELSE "held") = "held"
    BY <1>3, <1>5, PhaseSet
  <2>5. hopState[p].phase = "flying" /\ p \in Packet
    BY <1>1, <1>3, PhaseSet
  <2>6. QED
    BY <2>3, <2>4, <2>5, Zenon DEF Hops!Arrive, p
<1>6. QED
  BY <1>4, <1>5

LEMMA RelayMaps ==
  ASSUME IInv, IInv', NEW f \in air, Relay(f)
  PROVE  UNCHANGED hopState
<1> DEFINE p == f.packet
           g == OnAir(p, [SetType(f.hdr, "DATA") EXCEPT !.addr1 = f.hdr.addr4,
                                                        !.addr2 = f.hdr.addr1])
<1>1. FrameOK(f)
  BY DEF IInv, PacketsOK
<1>2. g.packet = p /\ Target(g) = Target(f) /\ p \in Packet
  BY <1>1, RelayedOK DEF Relay, FrameOK, Frame
<1>3. air' = (air \ {f}) \cup {g} /\ UNCHANGED <<unsent, out, arrived, lost>>
  BY DEF Relay
<1> HIDE DEF g
<1>4. \A q \in Packet \ {p} : Untouched(q)
  BY <1>2, <1>3 DEF Untouched
<1>5. hopState[p] = At("flying", Target(f))
  BY <1>2, HopStateIs DEF hopState, AllSeen, SeenAt
<1>6. hopState' = [hopState EXCEPT ![p] = At("flying", Target(f))]
  BY <1>2, <1>3, <1>4, OneTouched
<1>7. QED
  BY <1>5, <1>6 DEF hopState

LEMMA LoseMaps ==
  ASSUME IInv, IInv', NEW f \in air, Lose(f)
  PROVE  f.packet \in Packet /\ Hops!Lose(f.packet)
<1> DEFINE p == f.packet
<1>1. /\ p \in Packet /\ air' = air \ {f} /\ lost' = lost \cup {p}
      /\ UNCHANGED <<unsent, out, arrived>>
  BY DEF Lose, IInv, PacketsOK, FrameOK
<1>2. \A q \in Packet \ {p} : Untouched(q)
  BY <1>1 DEF Untouched
<1>3. hopState[p] = At("flying", Target(f))
  BY <1>1, HopStateIs DEF hopState, AllSeen, SeenAt
<1> HIDE DEF p
<1>4. hopState' = [hopState EXCEPT ![p] = At("lost", Dst[p])]
  BY <1>1, <1>2, OneTouched
<1>5. QED
  BY <1>1, <1>3, <1>4 DEF Hops!Lose, At, p

\* Relaying is invisible to IP: neighbour tables, tags, headers and relays together are a
\* link layer that brings a packet to its next hop or loses it.  What is left to the runs is
\* that one of the two happens in the end.
THEOREM RelaysHidden == Spec => Hops!Safety
<1>1. Init => Hops!Init
  <2> SUFFICES ASSUME Init PROVE Hops!Init
    OBVIOUS
  <2>1. \A p \in Packet : HopState(p) = [phase |-> "unsent", node |-> Src[p]]
    BY DEF Init, HopState
  <2>2. QED
    BY <2>1 DEF Hops!Init, hopState
<1>2. IInv /\ IInv' /\ [Next]_vars => [Hops!Next]_hopState
  <2> SUFFICES ASSUME IInv, IInv', [Next]_vars PROVE [Hops!Next]_hopState
    OBVIOUS
  <2>1. CASE UNCHANGED packets
    BY <2>1, PacketsLeftAlone
  <2>2. ASSUME NEW p \in Packet, Generate(p) PROVE Hops!Next
    BY <2>2, GenerateMaps DEF Hops!Next
  <2>3. ASSUME NEW n \in Node, NEW p \in Packet, Send(n, p) PROVE Hops!Next
    BY <2>3, SendMaps DEF Hops!Next
  <2>4. ASSUME NEW f \in air, ForwardUp(f) PROVE Hops!Next
    BY <2>4, ForwardUpMaps DEF Hops!Next
  <2>5. ASSUME NEW f \in air, Relay(f) PROVE UNCHANGED hopState
    BY <2>5, RelayMaps
  <2>6. ASSUME NEW f \in air, Lose(f) PROVE Hops!Next
    BY <2>6, LoseMaps DEF Hops!Next
  <2>7. QED
    BY <2>1, <2>2, <2>3, <2>4, <2>5, <2>6 DEF Next, vars, packets, GenerateWaveTraffic,
       StopApplication, PurgeTimer, Tick, Move
<1>3. QED
  BY <1>1, <1>2, Invariant, PTL DEF Spec, Hops!Safety
=============================================================================
