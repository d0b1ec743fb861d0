----------------------------- MODULE GpsrPacket ------------------------------
(***************************************************************************)
(* The headers of NS3/gpsr: the type, a hello and a position.  On the wire  *)
(* a header is the sequence of the numbers written.  A coordinate is copied *)
(* bit by bit and stays as it is.                                           *)
(***************************************************************************)
EXTENDS Naturals, Sequences

\* TypeHeader: an unknown type is not valid.
MessageTypes == [hello |-> 1, pos |-> 2]

SerializeType(kind) == <<MessageTypes[kind]>>
ValidType(wire)     == \E kind \in DOMAIN MessageTypes : Head(wire) = MessageTypes[kind]
IsType(wire, kind)  == Head(wire) = MessageTypes[kind]

SerializeHello(position) == SerializeType("hello") \o position

\* The position, after the type has been taken off.
DeserializeHello(wire) == <<wire[1], wire[2]>>

\* PositionHeader: positions of the source, the destination, where recovery began and the
\* last hop; updated: when the destination's was looked up, in seconds.
PositionHeader(src, dst, updated, rec, inRec, last) ==
  [src |-> src, dst |-> dst, updated |-> updated, rec |-> rec, inRec |-> inRec, last |-> last]

SerializePosition(h) ==
  SerializeType("pos") \o h.src \o h.dst \o <<h.updated>> \o h.rec
    \o <<IF h.inRec THEN 1 ELSE 0>> \o h.last

DeserializePosition(wire) ==
  PositionHeader(<<wire[1], wire[2]>>, <<wire[3], wire[4]>>, wire[5], <<wire[6], wire[7]>>,
                 wire[8] # 0, <<wire[9], wire[10]>>)
=============================================================================
