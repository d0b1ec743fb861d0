----------------------------- MODULE Applications -----------------------------
(***************************************************************************)
(* The traffic applications (NS3/applications): OnOffApplication, which      *)
(* sends at a constant rate while it is on, and UdpEchoClient, which sends    *)
(* a packet in every interval.                                               *)
(*                                                                          *)
(* A tick is the time the rate gives one bit.  Timers hold the ticks that   *)
(* are left.                                                                *)
(***************************************************************************)
EXTENDS Integers, Sequences

CONSTANTS
  PacketBits,   \* of a packet, m_pktSize * 8
  OnTime, OffTime,
  MaxPackets,   \* m_maxBytes, in packets; 0: no limit
  EchoInterval,
  EchoCount     \* m_count

ASSUME ApplicationsAssumption ==
  /\ {PacketBits, OnTime, EchoInterval, EchoCount} \subseteq Nat \ {0}
  /\ {OffTime, MaxPackets} \subseteq Nat

Idle == -1   \* a timer that does not run

----------------------------------------------------------------------------
(* OnOffApplication.  since: the ticks since m_lastStartTime, while a packet is due;      *)
(* next: what m_startStopEvent will do; sent: m_totBytes, in packets; on is history: the   *)
(* ticks it has been on.                                                                   *)

OnOff == [state |-> "new", send |-> Idle, startStop |-> Idle, next |-> "start",
          since |-> 0, residual |-> 0, sent |-> 0, on |-> 0]

\* Mutant of CancelEvents: what is left of a packet is forgotten.
CancelEventsOnly(a) == [a EXCEPT !.send = Idle, !.startStop = Idle, !.since = 0]

\* The bits due since the last packet are kept for the next one.
CancelEvents(a) ==
  [a EXCEPT !.residual = IF a.send # Idle THEN @ + a.since ELSE @,
            !.send = Idle, !.startStop = Idle, !.since = 0]

ScheduleStartEvent(a) == [a EXCEPT !.startStop = OffTime, !.next = "start"]
ScheduleStopEvent(a)  == [a EXCEPT !.startStop = OnTime, !.next = "stop"]

StartOnOff(a) == ScheduleStartEvent(CancelEvents([a EXCEPT !.state = "open"]))

StopOnOff(a) == [CancelEvents(a) EXCEPT !.state = "closed"]

ScheduleNextTx(a) ==
  IF MaxPackets = 0 \/ a.sent < MaxPackets
    THEN [a EXCEPT !.send = PacketBits - a.residual]
    ELSE StopOnOff(a)

StartSending(a) == ScheduleStopEvent(ScheduleNextTx([a EXCEPT !.since = 0]))

StopSending(a) == ScheduleStartEvent(CancelEvents(a))

SendPacket(a) ==
  ScheduleNextTx([a EXCEPT !.send = Idle, !.sent = @ + 1, !.since = 0, !.residual = 0])

\* A packet is due; the application changes between on and off; a timer runs.
PacketDue(a) == a.send = 0
ChangeDue(a) == a.startStop = 0
Running(a)   == a.send # Idle \/ a.startStop # Idle

Change(a) ==
  LET b == [a EXCEPT !.startStop = Idle]
  IN  IF a.next = "start" THEN StartSending(b) ELSE StopSending(b)

TickOnOff(a) ==
  [a EXCEPT !.send = IF @ = Idle THEN Idle ELSE @ - 1,
            !.startStop = IF @ = Idle THEN Idle ELSE @ - 1,
            !.since = IF a.send = Idle THEN 0 ELSE @ + 1,
            !.on = IF a.startStop # Idle /\ a.next = "stop" THEN @ + 1 ELSE @]

\* Over all its times on and off, the bits of the packets it has sent, those it keeps for
\* the next and those due since the last packet are as many as the rate gives.
KeepsRate(a) ==
  /\ a.on = a.sent * PacketBits + a.residual + a.since
  /\ a.residual + a.since <= PacketBits

----------------------------------------------------------------------------
(* UdpEchoClient *)

Echo == [state |-> "new", send |-> Idle, sent |-> 0]

StartEcho(a) == [a EXCEPT !.state = "open", !.send = 0]

StopEcho(a) == [a EXCEPT !.state = "closed", !.send = Idle]

EchoDue(a) == a.send = 0

\* A client that has sent everything is as good as stopped.
SendEcho(a) ==
  LET b == [a EXCEPT !.sent = @ + 1]
  IN  IF b.sent < EchoCount THEN [b EXCEPT !.send = EchoInterval] ELSE StopEcho(b)

TickEcho(a) == [a EXCEPT !.send = IF @ = Idle THEN Idle ELSE @ - 1]

----------------------------------------------------------------------------
(* What UdpEchoClient sends: size is m_size, dataSize m_dataSize and data m_data, empty if  *)
(* there is no buffer.                                                                      *)

Byte == 0 .. 255

\* Whoever sets the size does not care for the contents.
SetDataSize(d, n) == [d EXCEPT !.size = n, !.dataSize = 0, !.data = <<>>]

GetDataSize(d) == d.size

\* A buffer of another size is replaced by a new one; all of it is written, and the size
\* is overwritten too.
Overwritten(d, bytes) == [d EXCEPT !.size = Len(bytes), !.dataSize = Len(bytes), !.data = bytes]

\* The three SetFill: a text with its final zero, one byte again and again, and a pattern
\* again and again, the last time perhaps not to its end.  An empty pattern never fills
\* anything and its loop does not end.
SetFillText(d, text)       == Overwritten(d, Append(text, 0))
SetFillByte(d, b, n)       == Overwritten(d, [k \in 1 .. n |-> b])
SetFillPattern(d, fill, n) == Overwritten(d, [k \in 1 .. n |-> fill[((k - 1) % Len(fill)) + 1]])

\* One call makes e of d.
SetContents(d, e) ==
  \/ \E n \in Nat : e = SetDataSize(d, n)
  \/ \E text \in Seq(Byte) : e = SetFillText(d, text)
  \/ \E b \in Byte, n \in Nat : e = SetFillByte(d, b, n)
  \/ \E fill \in Seq(Byte) \ {<<>>}, n \in Nat : e = SetFillPattern(d, fill, n)

\* The packet that Send makes: a copy of the buffer, or as many zeros as are asked for.
Contents(d) == IF d.dataSize # 0 THEN d.data ELSE [k \in 1 .. d.size |-> 0]

\* What Send asserts: m_size and m_dataSize are consistent, and there is a buffer.
ContentsConsistent(d) == d.dataSize # 0 => d.dataSize = d.size /\ Len(d.data) = d.dataSize
=============================================================================
