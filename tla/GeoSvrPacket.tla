---------------------------- MODULE GeoSvrPacket -----------------------------
(***************************************************************************)
(* What NS3/geoSVR puts before a packet: the type, a hello, a data header    *)
(* with the path, and the tag that carries the path from the choice of a     *)
(* route to the header.  On the wire a header is the sequence of the numbers *)
(* written.  A coordinate is copied bit by bit and stays as it is; a path is *)
(* kept in bytes.                                                            *)
(***************************************************************************)
EXTENDS Integers, Sequences, SequencesExt

AsByte(n) == n % 256

----------------------------------------------------------------------------
(* TypeHeader and HelloHeader *)

MessageTypes == [hello |-> 0, data |-> 1]

SerializeType(kind) == <<MessageTypes[kind]>>
ValidType(wire)     == \E kind \in DOMAIN MessageTypes : Head(wire) = MessageTypes[kind]
IsType(wire, kind)  == Head(wire) = MessageTypes[kind]

\* Speed and heading are zero in every hello.
SerializeHello(position, address) == SerializeType("hello") \o position \o <<0, 0, address>>

\* After the type has been taken off.
DeserializeHello(wire) == [pos |-> <<wire[1], wire[2]>>, dst |-> wire[5]]

----------------------------------------------------------------------------
(* A path in bytes begins with its length. *)

NoPath == <<>>   \* a null pointer

EncodePath(path) == <<AsByte(Len(path))>> \o [k \in DOMAIN path |-> AsByte(path[k])]

DecodePath(bytes) == IF bytes = NoPath THEN <<>> ELSE SubSeq(bytes, 2, bytes[1] + 1)

\* geoSVRTag.
SerializeTag(bytes) == IF bytes = NoPath THEN <<0>> ELSE SubSeq(bytes, 1, bytes[1] + 1)

\* GetPath of the tag as it is read again.
PathOfTag(tag) == [k \in 1 .. tag[1] + 1 |-> AsByte(tag[k])]

----------------------------------------------------------------------------
(* DatapacketHeader *)

DataHeader(src, dst, bytes) ==
  [length |-> IF bytes = NoPath THEN 0 ELSE bytes[1], src |-> src, dst |-> dst, path |-> bytes]

\* m, t and c are never looked at.
SerializeData(h) ==
  SerializeType("data") \o <<h.length, 1, 2, 1>> \o h.src \o h.dst \o SubSeq(h.path, 2, h.length + 1)

\* After the type has been taken off; without a path the pointer stays null.
DeserializeData(wire) ==
  DataHeader(<<wire[5], wire[6]>>, <<wire[7], wire[8]>>,
             IF wire[1] = 0 THEN NoPath
             ELSE <<AsByte(wire[1])>> \o [k \in 1 .. wire[1] |-> wire[8 + k]])

\* What RouteInput hands up: a data header is taken off, of another packet the type only.
Payload(wire) ==
  IF IsType(wire, "data") THEN SubSeq(Tail(wire), 9 + wire[2], Len(wire) - 1) ELSE Tail(wire)
=============================================================================
