--------------------------- MODULE RelayPathProofs ---------------------------
(***************************************************************************)
(* Proofs about RelayPath, for every map, every set of nodes and packets,   *)
(* all routes and any number of moves: a packet exists once, only the nodes  *)
(* on its route receive it, and the relay table has one entry per block.    *)
(* At the end, the types of everything the hook and the switches write,     *)
(* which need that the search answers with a junction of the map.           *)
(***************************************************************************)
EXTENDS RelayPath, FilterProofs, FiniteSetTheorems, SequenceTheorems

Flies(p)   == \E f \in air : f.packet = p
Held(p)    == \E n \in Node : p \in out[n]
Arrived(p) == <<p, Dst[p]>> \in received

\* Where an IP layer means a frame to go, relay or not.
Target(f) == IF f.type = "IP" THEN f.ra ELSE f.real

FrameOK(f) ==
  /\ f.packet \in Packet /\ f.ta \in Node /\ f.ra \in Node
  /\ f.type \in {"IP", "MAPRELAY"}
  /\ Target(f) \in Node

RadioOK ==
  /\ unsent \subseteq Packet /\ lost \subseteq Packet
  /\ out \in [Node -> SUBSET Packet]
  /\ \A f \in air : FrameOK(f)
  /\ received \subseteq Packet \X Node

\* Every packet is somewhere, and nowhere else.
Somewhere ==
  \A p \in Packet : p \in unsent \/ p \in lost \/ Arrived(p) \/ Flies(p) \/ Held(p)
Nowhere ==
  \A p \in Packet :
    /\ p \in unsent => ~Flies(p) /\ ~Held(p) /\ p \notin lost /\ ~Arrived(p)
    /\ p \in lost => ~Flies(p) /\ ~Held(p) /\ ~Arrived(p)
    /\ Arrived(p) => ~Flies(p) /\ ~Held(p)
    /\ Flies(p) => ~Held(p)
OneFrame  == \A f, g \in air : f.packet = g.packet => f = g
OneHolder == \A p \in Packet : \A m, n \in Node : p \in out[m] /\ p \in out[n] => m = n
OnePlace  == Somewhere /\ Nowhere /\ OneFrame /\ OneHolder

\* n's IP layer has had the packet.
Had(p, n) == n = Src[p] \/ <<p, n>> \in received

\* Whoever holds a packet has had it, and what flies is on the way to the next hop
\* of a node that has had it.
Routed ==
  /\ \A p \in Packet, n \in Node : p \in out[n] => Had(p, n)
  /\ \A f \in air : \E m \in Node :
       Had(f.packet, m) /\ Target(f) = NextHop[m][Dst[f.packet]]
  /\ \A r \in received : \E m \in Node :
       Had(r[1], m) /\ r[2] = NextHop[m][Dst[r[1]]]

IInv == RadioOK /\ OnePlace /\ Routed

-----------------------------------------------------------------------------

LEMMA Routes ==
  /\ \A p \in Packet : Src[p] \in Node /\ Dst[p] \in Node
  /\ \A m, n \in Node : NextHop[m][n] \in Node
BY PathAssumption DEF PathAssumption

LEMMA InitInv == Init => IInv
<1> SUFFICES ASSUME Init PROVE IInv
  OBVIOUS
<1>1. RadioOK
  BY DEF Init, RadioOK
<1>2. OnePlace
  BY DEF Init, OnePlace, Somewhere, Nowhere, OneFrame, OneHolder, Flies, Held, Arrived
<1>3. Routed
  BY DEF Init, Routed
<1>4. QED
  BY <1>1, <1>2, <1>3 DEF IInv

LEMMA Unchanged == IInv /\ UNCHANGED radio => IInv'
<1> SUFFICES ASSUME IInv, UNCHANGED radio PROVE IInv'
  OBVIOUS
<1>1. RadioOK'
  BY DEF IInv, radio, RadioOK
<1>2. OnePlace'
  BY DEF IInv, radio, OnePlace, Somewhere, Nowhere, OneFrame, OneHolder, Flies, Held, Arrived
<1>3. Routed'
  BY DEF IInv, radio, Routed, Had
<1>4. QED
  BY <1>1, <1>2, <1>3 DEF IInv

LEMMA SendInv ==
  ASSUME IInv, NEW p \in Packet, Send(p)
  PROVE  IInv'
<1>1. /\ p \in unsent /\ unsent' = unsent \ {p}
      /\ \A n \in Node : out'[n] = IF n = Src[p] THEN out[n] \cup {p} ELSE out[n]
      /\ out' \in [Node -> SUBSET Packet]
      /\ UNCHANGED <<air, received, lost>>
  BY Routes DEF Send, IInv, RadioOK
<1>2. RadioOK'
  BY <1>1 DEF IInv, RadioOK
<1>3. Src[p] \in Node /\ ~Held(p)
  BY <1>1, Routes DEF IInv, OnePlace, Nowhere
<1>4. \A q \in Packet : (Flies(q)' <=> Flies(q)) /\ (Held(q)' <=> Held(q) \/ q = p)
                        /\ (Arrived(q)' <=> Arrived(q))
  BY <1>1, <1>3 DEF Flies, Held, Arrived
<1>5. Somewhere' /\ Nowhere'
  BY <1>1, <1>4 DEF IInv, OnePlace, Somewhere, Nowhere
<1>6. OneFrame' /\ OneHolder'
  <2>1. OneFrame'
    BY <1>1 DEF IInv, OnePlace, OneFrame
  <2>2. \A n \in Node : p \notin out[n]
    BY <1>3 DEF Held
  <2>3. ASSUME NEW q \in Packet, NEW m \in Node, NEW n \in Node, q \in out'[m], q \in out'[n]
        PROVE  m = n
    <3>1. CASE q = p
      BY <1>1, <2>2, <2>3, <3>1
    <3>2. CASE q # p
      BY <1>1, <2>3, <3>2 DEF IInv, OnePlace, OneHolder
    <3>3. QED
      BY <3>1, <3>2
  <2>4. QED
    BY <2>1, <2>3 DEF OneHolder
<1>7. Routed'
  <2>1. \A q \in Packet, n \in Node : q \in out'[n] => Had(q, n)'
    BY <1>1 DEF IInv, Routed, Had
  <2>2. QED
    BY <1>1, <2>1 DEF IInv, Routed, Had, Target
<1>8. QED
  BY <1>2, <1>5, <1>6, <1>7 DEF IInv, OnePlace

\* The frame that Steal builds field by field.
LEMMA FrameToRelay ==
  ASSUME NEW n, NEW p, NEW relay, NEW hop, NEW b
  PROVE  PushRealDstMac(EthHeaderDirty(n, p, relay, b), hop)
         = [packet |-> p, type |-> "MAPRELAY", ta |-> n, ra |-> relay, real |-> hop, fresh |-> b]
  BY DEF EthHeaderDirty, PushRealDstMac

\* Whether the hook accepts or steals, one frame leaves for the next hop.
LEMMA OutputEffect ==
  ASSUME RadioOK, NEW n \in Node, NEW p \in Packet, OutputHandler(n, p)
  PROVE  \E g : /\ FrameOK(g) /\ g.packet = p /\ Target(g) = NextHop[n][Dst[p]]
                /\ air' = air \cup {g}
<1> DEFINE hop == NextHop[n][Dst[p]]
<1>1. hop \in Node
  BY Routes
<1>2. ASSUME Accept(n, p, hop)
      PROVE  \E g : FrameOK(g) /\ g.packet = p /\ Target(g) = hop /\ air' = air \cup {g}
  <2> DEFINE g == [packet |-> p, type |-> "IP", ta |-> n, ra |-> hop, real |-> Null, fresh |-> FALSE]
  <2>1. air' = air \cup {g}
    BY <1>2 DEF Accept
  <2>2. FrameOK(g) /\ g.packet = p /\ Target(g) = hop
    BY <1>1 DEF FrameOK, Target
  <2>3. QED
    BY <2>1, <2>2
<1>3. ASSUME NEW relay \in Node, Steal(n, p, hop, relay)
      PROVE  \E g : FrameOK(g) /\ g.packet = p /\ Target(g) = hop /\ air' = air \cup {g}
  <2> DEFINE g == [packet |-> p, type |-> "MAPRELAY", ta |-> n, ra |-> relay, real |-> hop,
                   fresh |-> Fresh(n, hop, relay)]
  <2>1. g = PushRealDstMac(EthHeaderDirty(n, p, relay, Fresh(n, hop, relay)), hop)
    BY FrameToRelay
  <2>2. air' = air \cup {g}
    BY <1>3, <2>1 DEF Steal
  <2>3. FrameOK(g) /\ g.packet = p /\ Target(g) = hop
    BY <1>1 DEF FrameOK, Target
  <2>4. QED
    BY <2>2, <2>3
<1>4. \/ Accept(n, p, hop)
      \/ \E relay \in Node : Steal(n, p, hop, relay)
  <2>1. \A block : Relays(n, block) \subseteq Node
    BY DEF Relays
  <2>2. QED
    BY <2>1 DEF OutputHandler
<1>5. QED
  BY <1>2, <1>3, <1>4

LEMMA OutputInv ==
  ASSUME IInv, NEW n \in Node, NEW p \in Packet, OutputHandler(n, p)
  PROVE  IInv'
<1>1. PICK g : /\ FrameOK(g) /\ g.packet = p /\ Target(g) = NextHop[n][Dst[p]]
               /\ air' = air \cup {g}
  BY OutputEffect DEF IInv
<1>2. /\ p \in out[n]
      /\ \A m \in Node : out'[m] = IF m = n THEN out[m] \ {p} ELSE out[m]
      /\ out' \in [Node -> SUBSET Packet]
      /\ UNCHANGED <<unsent, received, lost>>
  BY DEF OutputHandler, IInv, RadioOK
<1>3. RadioOK'
  BY <1>1, <1>2 DEF IInv, RadioOK
<1>4. ~Flies(p) /\ \A m \in Node : p \in out[m] => m = n
  BY <1>2 DEF IInv, OnePlace, Nowhere, OneHolder, Held
<1>5. \A q \in Packet : (Flies(q)' <=> Flies(q) \/ q = p) /\ (Held(q)' <=> Held(q) /\ q # p)
                        /\ (Arrived(q)' <=> Arrived(q))
  BY <1>1, <1>2, <1>4 DEF Flies, Held, Arrived
<1>6. Somewhere' /\ Nowhere'
  <2>1. Held(p)
    BY <1>2 DEF Held
  <2>2. QED
    BY <1>2, <1>5, <2>1 DEF IInv, OnePlace, Somewhere, Nowhere
<1>7. OneFrame' /\ OneHolder'
  BY <1>1, <1>2, <1>4 DEF IInv, OnePlace, OneFrame, OneHolder, Flies
<1>8. Routed'
  BY <1>1, <1>2 DEF IInv, Routed, Had
<1>9. QED
  BY <1>3, <1>6, <1>7, <1>8 DEF IInv, OnePlace

LEMMA ReceiveIpInv ==
  ASSUME IInv, NEW f \in air, ReceiveIp(f)
  PROVE  IInv'
<1> DEFINE p == f.packet
           n == f.ra
<1>1. /\ p \in Packet /\ n \in Node /\ Target(f) = n /\ Dst[p] \in Node
  BY Routes DEF IInv, RadioOK, FrameOK, ReceiveIp, Target
<1>2. /\ air' = air \ {f} /\ received' = received \cup {<<p, n>>}
      /\ \A m \in Node : out'[m] = IF Dst[p] # n /\ m = n THEN out[m] \cup {p} ELSE out[m]
      /\ out' \in [Node -> SUBSET Packet]
      /\ UNCHANGED <<unsent, lost>>
  BY <1>1 DEF ReceiveIp, IInv, RadioOK
<1>3. \A g \in air : g.packet = p => g = f
  BY DEF IInv, OnePlace, OneFrame
<1>4. Flies(p) /\ ~Held(p) /\ p \notin unsent /\ p \notin lost /\ ~Arrived(p)
  BY <1>1 DEF IInv, OnePlace, Nowhere, Flies
<1> HIDE DEF p, n
<1>5. RadioOK'
  BY <1>1, <1>2 DEF IInv, RadioOK
<1>6. \A q \in Packet : Arrived(q)' <=> Arrived(q) \/ (q = p /\ Dst[p] = n)
  BY <1>1, <1>2 DEF Arrived
<1>7. \A q \in Packet : Flies(q)' <=> Flies(q) /\ q # p
  BY <1>2, <1>3 DEF Flies, p
<1>8. \A q \in Packet : Held(q)' <=> Held(q) \/ (q = p /\ Dst[p] # n)
  BY <1>1, <1>2 DEF Held
<1>9. Somewhere'
  BY <1>2, <1>6, <1>7, <1>8 DEF IInv, OnePlace, Somewhere
<1>10. Nowhere'
  BY <1>2, <1>4, <1>6, <1>7, <1>8 DEF IInv, OnePlace, Nowhere
<1>11. OneFrame' /\ OneHolder'
  <2>1. OneFrame'
    BY <1>2 DEF IInv, OnePlace, OneFrame
  <2>2. \A m \in Node : p \notin out[m]
    BY <1>4 DEF Held
  <2>3. ASSUME NEW q \in Packet, NEW k \in Node, NEW m \in Node, q \in out'[k], q \in out'[m]
        PROVE  k = m
    <3>1. CASE q = p
      BY <1>2, <2>2, <2>3, <3>1
    <3>2. CASE q # p
      BY <1>2, <2>3, <3>2 DEF IInv, OnePlace, OneHolder
    <3>3. QED
      BY <3>1, <3>2
  <2>4. QED
    BY <2>1, <2>3 DEF OneHolder
<1>12. Routed'
  <2>1. \A q \in Packet, m \in Node : Had(q, m) => Had(q, m)'
    BY <1>2 DEF Had
  <2>2. Had(p, n)'
    BY <1>2 DEF Had
  <2>3. \E m \in Node : Had(p, m) /\ n = NextHop[m][Dst[p]]
    BY <1>1 DEF IInv, Routed, p
  <2>4. \A r \in received' : r = <<p, n>> \/ r \in received
    BY <1>2
  <2>5. \A q \in Packet, m \in Node : q \in out'[m] => Had(q, m)'
    BY <1>2, <2>1, <2>2 DEF IInv, Routed
  <2>6. \A g \in air' : \E m \in Node : Had(g.packet, m)' /\ Target(g) = NextHop[m][Dst[g.packet]]
    BY <1>2, <2>1 DEF IInv, Routed, RadioOK, FrameOK
  <2>7. \A r \in received' : \E m \in Node : Had(r[1], m)' /\ r[2] = NextHop[m][Dst[r[1]]]
    <3>1. ASSUME NEW r \in received
          PROVE  \E m \in Node : Had(r[1], m)' /\ r[2] = NextHop[m][Dst[r[1]]]
      <4>1. r[1] \in Packet
        BY DEF IInv, RadioOK
      <4>2. QED
        BY <2>1, <4>1 DEF IInv, Routed
    <3>2. QED
      BY <1>1, <2>1, <2>3, <2>4, <3>1
  <2>8. QED
    BY <2>5, <2>6, <2>7 DEF Routed, Target
<1>13. QED
  BY <1>5, <1>9, <1>10, <1>11, <1>12 DEF IInv, OnePlace

LEMMA ReceiveMaprelayInv ==
  ASSUME IInv, NEW f \in air, ReceiveMaprelay(f)
  PROVE  IInv'
<1> DEFINE p == f.packet
           g == [packet |-> f.packet, type |-> "IP", ta |-> f.ra, ra |-> f.real,
                 real |-> Null, fresh |-> FALSE]
<1>1. p \in Packet /\ FrameOK(g) /\ g.packet = p /\ Target(g) = Target(f)
  BY DEF IInv, RadioOK, FrameOK, ReceiveMaprelay, Target
<1>2. /\ air' = (air \ {f}) \cup {g}
      /\ UNCHANGED <<unsent, out, received, lost>>
  BY DEF ReceiveMaprelay
<1>3. \A h \in air : h.packet = p => h = f
  BY DEF IInv, OnePlace, OneFrame
<1> HIDE DEF g
<1>4. RadioOK'
  BY <1>1, <1>2 DEF IInv, RadioOK
<1>5. \A q \in Packet : (Flies(q)' <=> Flies(q)) /\ (Held(q)' <=> Held(q)) /\ (Arrived(q)' <=> Arrived(q))
  BY <1>1, <1>2, <1>3 DEF Flies, Held, Arrived
<1>6. Somewhere' /\ Nowhere'
  BY <1>2, <1>5 DEF IInv, OnePlace, Somewhere, Nowhere
<1>7. OneFrame' /\ OneHolder'
  BY <1>1, <1>2, <1>3 DEF IInv, OnePlace, OneFrame, OneHolder
<1>8. Routed'
  <2>1. \A q, n : Had(q, n)' <=> Had(q, n)
    BY <1>2 DEF Had
  <2>2. \E m \in Node : Had(p, m) /\ Target(g) = NextHop[m][Dst[p]]
    BY <1>1 DEF IInv, Routed
  <2>3. \A h \in air' : h = g \/ h \in air
    BY <1>2
  <2>4. \A h \in air' : \E m \in Node : Had(h.packet, m) /\ Target(h) = NextHop[m][Dst[h.packet]]
    BY <1>1, <2>2, <2>3 DEF IInv, Routed
  <2>5. QED
    BY <1>2, <2>1, <2>4 DEF IInv, Routed, Target
<1>9. QED
  BY <1>4, <1>6, <1>7, <1>8 DEF IInv, OnePlace

LEMMA LoseInv ==
  ASSUME IInv, NEW f \in air, Lose(f)
  PROVE  IInv'
<1> DEFINE p == f.packet
<1>1. p \in Packet
  BY DEF IInv, RadioOK, FrameOK
<1>2. air' = air \ {f} /\ lost' = lost \cup {p} /\ UNCHANGED <<unsent, out, received>>
  BY DEF Lose
<1>3. \A g \in air : g.packet = p => g = f
  BY DEF IInv, OnePlace, OneFrame
<1>4. ~Held(p) /\ p \notin unsent /\ ~Arrived(p)
  BY <1>1 DEF IInv, OnePlace, Nowhere, Flies
<1>5. RadioOK'
  BY <1>1, <1>2 DEF IInv, RadioOK
<1>6. \A q \in Packet : (Flies(q)' <=> Flies(q) /\ q # p) /\ (Held(q)' <=> Held(q))
                        /\ (Arrived(q)' <=> Arrived(q))
  BY <1>2, <1>3 DEF Flies, Held, Arrived
<1>7. Somewhere' /\ Nowhere'
  BY <1>2, <1>4, <1>6 DEF IInv, OnePlace, Somewhere, Nowhere
<1>8. OneFrame' /\ OneHolder'
  BY <1>2 DEF IInv, OnePlace, OneFrame, OneHolder
<1>9. Routed'
  BY <1>2 DEF IInv, Routed, Had
<1>10. QED
  BY <1>5, <1>7, <1>8, <1>9 DEF IInv, OnePlace

\* Every step keeps the invariant.
LEMMA NextInv == IInv /\ [Next]_vars => IInv'
<1> SUFFICES ASSUME IInv, [Next]_vars PROVE IInv'
  OBVIOUS
<1>1. ASSUME NEW n \in Node, NEW b \in Block, Move(n, b) PROVE IInv'
  BY <1>1, Unchanged DEF Move
<1>2. ASSUME NEW n \in Node, NEW m \in Node, Beacon(n, m) PROVE IInv'
  BY <1>2, Unchanged DEF Beacon
<1>3. ASSUME NEW n \in Listener, StatusGeohashWrite(n) PROVE IInv'
  BY <1>3, Unchanged DEF StatusGeohashWrite
<1>4. ASSUME NEW n \in Listener, NEW field, NEW v, StatusWrite(n, field, v) PROVE IInv'
  BY <1>4, Unchanged DEF StatusWrite
<1>5. ASSUME NEW f \in air, ReceiveIp(f) \/ ReceiveMaprelay(f) \/ Lose(f) PROVE IInv'
  BY <1>5, ReceiveIpInv, ReceiveMaprelayInv, LoseInv
<1>6. ASSUME UNCHANGED vars PROVE IInv'
  BY <1>6, Unchanged DEF vars, radio
<1>7. QED
  BY <1>1, <1>2, <1>3, <1>4, <1>5, <1>6, SendInv, OutputInv DEF Next

LEMMA InvOneCopy == IInv => OneCopy
<1> SUFFICES ASSUME IInv, NEW p \in Packet
             PROVE  Copies(p) + (IF p \in unsent THEN 1 ELSE 0) + (IF p \in lost THEN 1 ELSE 0)
                              + (IF <<p, Dst[p]>> \in received THEN 1 ELSE 0) = 1
  BY DEF OneCopy
<1> DEFINE F == {f \in air : f.packet = p}
           H == {n \in Node : p \in out[n]}
<1>1. Cardinality(F) = IF Flies(p) THEN 1 ELSE 0
  <2>1. CASE Flies(p)
    <3>1. PICK f \in air : f.packet = p
      BY <2>1 DEF Flies
    <3>2. F = {f}
      BY <3>1 DEF IInv, OnePlace, OneFrame
    <3>3. QED
      BY <3>2, <2>1, FS_Singleton
  <2>2. CASE ~Flies(p)
    <3>1. F = {}
      BY <2>2 DEF Flies
    <3>2. QED
      BY <3>1, <2>2, FS_EmptySet
  <2>3. QED
    BY <2>1, <2>2
<1>2. Cardinality(H) = IF Held(p) THEN 1 ELSE 0
  <2>1. CASE Held(p)
    <3>1. PICK n \in Node : p \in out[n]
      BY <2>1 DEF Held
    <3>2. H = {n}
      BY <3>1 DEF IInv, OnePlace, OneHolder
    <3>3. QED
      BY <3>2, <2>1, FS_Singleton
  <2>2. CASE ~Held(p)
    <3>1. H = {}
      BY <2>2 DEF Held
    <3>2. QED
      BY <3>1, <2>2, FS_EmptySet
  <2>3. QED
    BY <2>1, <2>2
<1>3. Copies(p) = (IF Flies(p) THEN 1 ELSE 0) + (IF Held(p) THEN 1 ELSE 0)
  BY <1>1, <1>2 DEF Copies
<1>4. Arrived(p) <=> <<p, Dst[p]>> \in received
  BY DEF Arrived
<1>5. QED
  BY <1>3, <1>4 DEF IInv, OnePlace, Somewhere, Nowhere

LEMMA InvReceived == IInv => ReceivedAlongRoute
BY DEF IInv, Routed, Had, ReceivedAlongRoute

\* A packet exists once, on every map and along every route: the hook either leaves it to
\* the stack or takes it (output_handler), and a relay sends it on instead of handing it up.
THEOREM OnceOnly == Spec => []OneCopy
<1>1. Init => IInv
  BY InitInv
<1>2. IInv /\ [Next]_vars => IInv'
  BY NextInv
<1>3. IInv => OneCopy
  BY InvOneCopy
<1>4. QED
  BY <1>1, <1>2, <1>3, PTL DEF Spec

\* However relays are chosen, on true beliefs or on wrong ones, only nodes on a packet's
\* route receive it, in the order of the route (ieee80211_data_to_8023, deliver_skb).
THEOREM AlongRoute == Spec => []ReceivedAlongRoute
<1>1. Init => IInv
  BY InitInv
<1>2. IInv /\ [Next]_vars => IInv'
  BY NextInv
<1>3. IInv => ReceivedAlongRoute
  BY InvReceived
<1>4. QED
  BY <1>1, <1>2, <1>3, PTL DEF Spec

-----------------------------------------------------------------------------
\* The least element of a set of numbers.
LEMMA MinOfNats ==
  ASSUME NEW T, T \subseteq Nat, T # {}
  PROVE  Min(T) \in T
<1> DEFINE R == OpToRel(<, Nat)
<1>1. IsWellFoundedOn(R, Nat)
  BY NatLessThanWellFounded
<1> HIDE DEF R
<1>2. PICK x \in T : \A y \in T : ~(<<y, x>> \in R)
  BY <1>1, WFMin
<1>3. \A y \in T : ~(y < x)
  BY <1>2 DEF R, OpToRel
<1>4. x \in T /\ \A y \in T : x <= y
  BY <1>3
<1>5. QED
  BY <1>4 DEF Min

\* The entries of a relay table whose fields are in S.
EntryOver(S) == [geoHash_this : S, geoHash_dst : S, geoHash_nexthop : S, isvalid : S]
Unique(t) == \A k, l \in DOMAIN t : t[k].geoHash_dst = t[l].geoHash_dst => k = l

\* update_mbrtable finds the entry of a block, if there is one, and else makes one.
LEMMA UpdateKeepsUnique ==
  ASSUME NEW S, BOOLEAN \subseteq S, NEW t \in Seq(EntryOver(S)), Unique(t),
         NEW this \in S, NEW dst \in S, NEW nexthop \in S
  PROVE  /\ UpdateMbrtable(t, this, dst, nexthop) \in Seq(EntryOver(S))
         /\ Unique(UpdateMbrtable(t, this, dst, nexthop))
<1> DEFINE I == {i \in 1 .. Len(t) : t[i].geoHash_dst = dst}
           k == SelectInSeq(t, LAMBDA e : e.geoHash_dst = dst)
           u == UpdateMbrtable(t, this, dst, nexthop)
<1>1. k = IF I # {} THEN Min(I) ELSE 0
  BY DEF SelectInSeq
<1>2. CASE I # {}
  <2>1. k \in 1 .. Len(t)
    BY <1>1, <1>2, MinOfNats
  <2>2. u = [t EXCEPT ![k].geoHash_nexthop = nexthop, ![k].isvalid = TRUE]
    BY <2>1 DEF UpdateMbrtable
  <2> HIDE DEF k, u
  <2> DEFINE e == [t[k] EXCEPT !.geoHash_nexthop = nexthop, !.isvalid = TRUE]
  <2>3. t[k] \in EntryOver(S)
    BY <2>1, ElementOfSeq
  <2>4. e \in EntryOver(S) /\ e.geoHash_dst = t[k].geoHash_dst
    BY <2>3 DEF EntryOver
  <2>5. u = [t EXCEPT ![k] = e]
    BY <2>1, <2>2
  <2> HIDE DEF e
  <2>6. /\ u \in Seq(EntryOver(S)) /\ Len(u) = Len(t)
        /\ \A j \in 1 .. Len(t) : u[j] = IF j = k THEN e ELSE t[j]
    BY <2>1, <2>4, <2>5, ExceptSeq
  <2>7. Unique(u)
    BY <2>4, <2>6 DEF Unique
  <2>8. QED
    BY <2>6, <2>7 DEF u
<1>3. CASE I = {}
  <2> DEFINE e == [geoHash_this |-> this, geoHash_dst |-> dst,
                   geoHash_nexthop |-> nexthop, isvalid |-> TRUE]
  <2>1. u = <<e>> \o t
    BY <1>1, <1>3 DEF UpdateMbrtable
  <2>2. e \in EntryOver(S) /\ e.geoHash_dst = dst
    BY DEF EntryOver
  <2> HIDE DEF e, u
  <2>3. <<e>> \in Seq(EntryOver(S)) /\ Len(<<e>>) = 1 /\ <<e>>[1] = e
    BY <2>2
  <2>4. /\ u \in Seq(EntryOver(S)) /\ Len(u) = 1 + Len(t)
        /\ \A j \in 1 .. 1 + Len(t) : u[j] = IF j <= 1 THEN e ELSE t[j - 1]
    <3>1. /\ <<e>> \o t \in Seq(EntryOver(S)) /\ Len(<<e>> \o t) = Len(<<e>>) + Len(t)
          /\ \A j \in 1 .. Len(<<e>>) + Len(t) :
               (<<e>> \o t)[j] = IF j <= Len(<<e>>) THEN <<e>>[j] ELSE t[j - Len(<<e>>)]
      BY <2>3, ConcatProperties
    <3>2. QED
      BY <2>1, <2>3, <3>1
  <2>5. \A j \in 1 .. Len(t) : t[j].geoHash_dst # dst
    BY <1>3
  <2>6. Unique(u)
    <3>1. DOMAIN u = 1 .. 1 + Len(t) /\ DOMAIN t = 1 .. Len(t) /\ Len(t) \in Nat
      BY <2>4
    <3>2. SUFFICES ASSUME NEW i \in 1 .. 1 + Len(t), NEW j \in 1 .. 1 + Len(t), i # j
                   PROVE  u[i].geoHash_dst # u[j].geoHash_dst
      BY <3>1 DEF Unique
    <3>3. CASE i = 1
      BY <2>2, <2>4, <2>5, <3>1, <3>2, <3>3
    <3>4. CASE j = 1
      BY <2>2, <2>4, <2>5, <3>1, <3>2, <3>4
    <3>5. CASE i # 1 /\ j # 1
      <4>1. i - 1 \in 1 .. Len(t) /\ j - 1 \in 1 .. Len(t) /\ i - 1 # j - 1
        BY <3>1, <3>2, <3>5
      <4>2. t[i - 1].geoHash_dst # t[j - 1].geoHash_dst
        BY <3>1, <4>1 DEF Unique
      <4>3. QED
        BY <2>4, <3>1, <3>5, <4>2
    <3>6. QED
      BY <3>3, <3>4, <3>5
  <2>7. QED
    BY <2>4, <2>6 DEF u
<1>4. QED
  BY <1>2, <1>3

\* update_mbrtable_outrange leaves the blocks of the entries alone.
LEMMA OutrangeKeepsUnique ==
  ASSUME NEW S, BOOLEAN \subseteq S, NEW t \in Seq(EntryOver(S)), Unique(t), NEW updated
  PROVE  /\ UpdateMbrtableOutrange(t, updated) \in Seq(EntryOver(S))
         /\ Unique(UpdateMbrtableOutrange(t, updated))
<1> DEFINE u == UpdateMbrtableOutrange(t, updated)
<1>1. DOMAIN t = 1 .. Len(t) /\ Len(t) \in Nat
  OBVIOUS
<1>2. \A k \in 1 .. Len(t) : t[k] \in EntryOver(S)
  BY ElementOfSeq
<1>3. \A k \in 1 .. Len(t) :
        /\ [t[k] EXCEPT !.isvalid = FALSE] \in EntryOver(S)
        /\ [t[k] EXCEPT !.isvalid = FALSE].geoHash_dst = t[k].geoHash_dst
  BY <1>2 DEF EntryOver
<1>4. /\ u = [k \in 1 .. Len(t) |-> u[k]]
      /\ \A k \in 1 .. Len(t) : u[k] \in EntryOver(S) /\ u[k].geoHash_dst = t[k].geoHash_dst
  BY <1>1, <1>2, <1>3 DEF UpdateMbrtableOutrange
<1> HIDE DEF u
<1>5. u \in Seq(EntryOver(S)) /\ DOMAIN u = 1 .. Len(t)
  BY <1>1, <1>4, SeqDef
<1>6. Unique(u)
  BY <1>1, <1>4, <1>5 DEF Unique
<1>7. QED
  BY <1>5, <1>6 DEF u

\* There are values that the fields of every entry are among, and no block has two.
TableInv ==
  \E S : /\ BOOLEAN \subseteq S
         /\ mbrtable \in [Node -> Seq(EntryOver(S))]
         /\ \A n \in Node : Unique(mbrtable[n])

LEMMA SeqOfMore ==
  ASSUME NEW S, NEW T, S \subseteq T
  PROVE  Seq(EntryOver(S)) \subseteq Seq(EntryOver(T))
<1>1. EntryOver(S) \subseteq EntryOver(T)
  BY DEF EntryOver
<1>2. QED
  BY <1>1, SeqMonotonic

LEMMA TableStep == TableInv /\ [Next]_vars => TableInv'
<1> SUFFICES ASSUME TableInv, [Next]_vars PROVE TableInv'
  OBVIOUS
<1>1. PICK S : /\ BOOLEAN \subseteq S
               /\ mbrtable \in [Node -> Seq(EntryOver(S))]
               /\ \A n \in Node : Unique(mbrtable[n])
  BY DEF TableInv
<1>2. ASSUME UNCHANGED mbrtable PROVE TableInv'
  BY <1>1, <1>2 DEF TableInv
<1>3. ASSUME NEW n \in Listener, StatusGeohashWrite(n) PROVE TableInv'
  <2>1. CASE n \in Node
    <3> DEFINE t == UpdateMbrtableOutrange(mbrtable[n], pos[n])
    <3>1. t \in Seq(EntryOver(S)) /\ Unique(t)
      BY <1>1, <2>1, OutrangeKeepsUnique
    <3>2. mbrtable' = [mbrtable EXCEPT ![n] = t]
      BY <1>3 DEF StatusGeohashWrite
    <3> HIDE DEF t
    <3>3. QED
      BY <1>1, <3>1, <3>2 DEF TableInv
  <2>2. CASE n \notin Node
    <3>1. mbrtable' = mbrtable
      BY <1>1, <1>3, <2>2 DEF StatusGeohashWrite
    <3>2. QED
      BY <1>2, <3>1
  <2>3. QED
    BY <2>1, <2>2
<1>4. ASSUME NEW n \in Node, NEW p \in Packet, OutputHandler(n, p) PROVE TableInv'
  <2> DEFINE dst == neigh[n][NextHop[n][Dst[p]]]
             this == status[n].geohash_this
             x == Crossing(this, dst)
  <2>1. PICK t : /\ mbrtable' = [mbrtable EXCEPT ![n] = t]
                 /\ t = mbrtable[n] \/ t = UpdateMbrtable(mbrtable[n], this, dst, x)
    BY <1>1, <1>4 DEF OutputHandler, TableAfter, GetGeohashThis
  <2> HIDE DEF this, dst, x
  <2> DEFINE T == S \cup {this, dst, x}
  <2>2. mbrtable \in [Node -> Seq(EntryOver(T))] /\ BOOLEAN \subseteq T
    <3>1. \A m \in Node : mbrtable[m] \in Seq(EntryOver(T))
      BY <1>1, SeqOfMore
    <3>2. QED
      BY <1>1, <3>1
  <2>3. t \in Seq(EntryOver(T)) /\ Unique(t)
    <3>1. /\ UpdateMbrtable(mbrtable[n], this, dst, x) \in Seq(EntryOver(T))
          /\ Unique(UpdateMbrtable(mbrtable[n], this, dst, x))
      BY <1>1, <2>2, UpdateKeepsUnique
    <3>2. QED
      BY <1>1, <2>1, <2>2, <3>1
  <2> HIDE DEF T
  <2>4. QED
    BY <1>1, <2>1, <2>2, <2>3 DEF TableInv
<1>5. ASSUME NEW n, NEW b, NEW m, NEW p, NEW f, NEW field, NEW v,
             Move(n, b) \/ Beacon(n, m) \/ StatusWrite(n, field, v) \/ Send(p) \/ ReceiveIp(f)
               \/ ReceiveMaprelay(f) \/ Lose(f) \/ UNCHANGED vars
      PROVE  TableInv'
  BY <1>2, <1>5 DEF Move, Beacon, StatusWrite, Send, ReceiveIp, ReceiveMaprelay, Lose, vars
<1>6. QED
  BY <1>3, <1>4, <1>5 DEF Next

\* The relay table never has two entries for one block, whatever was invalidated and
\* made valid again before (update_mbrtable, update_mbrtable_outrange).
THEOREM TableUnique == Spec => []OneEntryPerBlock
<1>1. Init => TableInv
  <2>1. SUFFICES ASSUME Init PROVE TableInv
    OBVIOUS
  <2>2. mbrtable \in [Node -> Seq(EntryOver(BOOLEAN))] /\ \A n \in Node : mbrtable[n] = <<>>
    BY <2>1, EmptySeq DEF Init
  <2>3. QED
    BY <2>2 DEF TableInv, Unique
<1>2. TableInv /\ [Next]_vars => TableInv'
  BY TableStep
<1>3. TableInv => OneEntryPerBlock
  BY DEF TableInv, OneEntryPerBlock, Unique
<1>4. QED
  BY <1>1, <1>2, <1>3, PTL DEF Spec

(***************************************************************************)
(* The crossing that the search answers with                                *)
(***************************************************************************)

\* The records of the search, and its queues: each record but the first comes from an
\* earlier one.
Arrival ==
  [v : DOMAIN Mem, ancest : Nat,
   road_id : {Null} \cup UNION {{e.road_id : e \in ToSet(Mem[h].edges)} : h \in DOMAIN Mem}]
Queues ==
  {q \in Seq(Arrival) : Len(q) >= 1 /\ \A i \in 2 .. Len(q) : q[i].ancest \in 1 .. i - 1}

LEMMA Roads ==
  ASSUME NEW h \in DOMAIN Mem
  PROVE  /\ Len(Mem[h].edges) \in Nat
         /\ \A j \in 1 .. Len(Mem[h].edges) : \A k \in Nat :
              [v |-> Mem[h].edges[j].vertex, ancest |-> k, road_id |-> Mem[h].edges[j].road_id] \in Arrival
<1> DEFINE es == Mem[h].edges
<1>1. es \in Seq(ToSet(es)) /\ \A e \in ToSet(es) : e.vertex \in DOMAIN Mem
  BY MapAssumption DEF MapAssumption
<1>2. Len(es) \in Nat /\ \A j \in 1 .. Len(es) : es[j] \in ToSet(es)
  <2> DEFINE S == ToSet(es)
  <2> HIDE DEF S, es
  <2>1. es \in Seq(S)
    BY <1>1 DEF S
  <2>2. QED
    BY <2>1 DEF S
<1>3. \A e \in ToSet(es) : \A k \in Nat : [v |-> e.vertex, ancest |-> k, road_id |-> e.road_id] \in Arrival
  BY <1>1 DEF Arrival
<1> HIDE DEF es
<1>4. QED
  BY <1>2, <1>3 DEF es

LEMMA QueueIs ==
  ASSUME NEW q \in Queues
  PROVE  /\ Len(q) \in Nat /\ Len(q) >= 1
         /\ \A i \in 1 .. Len(q) : q[i] \in Arrival /\ q[i].v \in DOMAIN Mem
         /\ \A i \in 2 .. Len(q) : q[i].ancest \in 1 .. i - 1 /\ q[i].ancest \in 1 .. Len(q)
<1>1. q \in Seq(Arrival) /\ Len(q) \in Nat /\ Len(q) >= 1
  BY DEF Queues
<1>2. \A i \in 1 .. Len(q) : q[i] \in Arrival
  BY <1>1
<1>3. \A i \in 2 .. Len(q) : q[i].ancest \in 1 .. i - 1
  BY DEF Queues
<1>4. \A r \in Arrival : r.v \in DOMAIN Mem
  BY DEF Arrival
<1>5. QED
  BY <1>1, <1>2, <1>3, <1>4

\* One road of the vertex at place k.
LEMMA VisitQueues ==
  ASSUME NEW q \in Queues, NEW k \in Nat, k >= 1, k <= Len(q), NEW b, NEW h \in DOMAIN Mem,
         NEW j \in 1 .. Len(Mem[h].edges)
  PROVE  /\ Visit(Mem, b, k, q, Mem[h].edges[j]) \in Queues
         /\ k <= Len(Visit(Mem, b, k, q, Mem[h].edges[j]))
<1> DEFINE e == Mem[h].edges[j]
           x == [v |-> e.vertex, ancest |-> k, road_id |-> e.road_id]
           r == Append(q, x)
           N == Len(q)
<1>1. x \in Arrival /\ x.ancest = k
  BY Roads
<1>2. N \in Nat /\ N >= 1 /\ q \in Seq(Arrival) /\ \A i \in 2 .. N : q[i].ancest \in 1 .. i - 1
  BY DEF Queues
<1>3. Visit(Mem, b, k, q, e) \in {q, r}
  BY DEF Visit
<1> HIDE DEF x
<1>4. r \in Seq(Arrival) /\ Len(r) = N + 1 /\ r[N + 1] = x /\ \A i \in 1 .. N : r[i] = q[i]
  BY <1>1, <1>2, AppendProperties
<1> HIDE DEF r, e
<1>5. \A i \in 2 .. N + 1 : r[i].ancest \in 1 .. i - 1
  <2>1. \A i \in 2 .. N + 1 : i = N + 1 \/ (i \in 1 .. N /\ i \in 2 .. N)
    BY <1>2
  <2>2. k \in 1 .. (N + 1) - 1
    BY <1>2
  <2>3. QED
    BY <1>1, <1>2, <1>4, <2>1, <2>2
<1>6. r \in Queues /\ k <= Len(r)
  BY <1>2, <1>4, <1>5 DEF Queues
<1>7. QED
  BY <1>3, <1>6 DEF e

\* All roads of the vertex at place k.
LEMMA VisitAllQueues ==
  ASSUME NEW q \in Queues, NEW k \in Nat, k >= 1, k <= Len(q), NEW b
  PROVE  VisitAll(Mem, b, k, q) \in Queues
<1> DEFINE h  == q[k].v
           es == Mem[h].edges
           N  == Len(es)
           S  == {r \in Queues : k <= Len(r)}
           Step(j, r) == Visit(Mem, b, k, r, es[j])
           Goes(f) == f = [j \in 0 .. N |-> IF j = 0 THEN q ELSE Visit(Mem, b, k, f[j - 1], es[j])]
           g == [j \in 1 .. N |-> [r \in S |-> Step(j, r)]]
           after == CHOOSE f : Goes(f)
<1>1. h \in DOMAIN Mem
  BY QueueIs
<1>2. q \in S
  OBVIOUS
<1>3. VisitAll(Mem, b, k, q) = after[N]
  BY DEF VisitAll
<1> HIDE DEF h
<1>4. N \in Nat
  BY <1>1, Roads
<1>5. \A j \in 1 .. N : \A r \in S : Step(j, r) \in S
  BY <1>1, VisitQueues
<1>6. \E f : Goes(f)
  <2> HIDE DEF N, S, Step
  <2>1. g \in [1 .. N -> [S -> S]]
    BY <1>5
  <2>2. \A j \in 1 .. N : \A r \in S : g[j][r] = Step(j, r)
    OBVIOUS
  <2> HIDE DEF g
  <2>3. PICK f : Unfolds(f, N, S, q, g)
    BY <1>2, <1>4, <2>1, Recursion
  <2>4. \A j \in 0 .. N : j # 0 => j \in 1 .. N /\ j - 1 \in 0 .. N
    BY <1>4
  <2>5. f \in [0 .. N -> S] /\ f[0] = q /\ \A j \in 1 .. N : f[j] = g[j][f[j - 1]]
    BY <2>3 DEF Unfolds
  <2>6. \A j \in 0 .. N : f[j] = IF j = 0 THEN q ELSE Step(j, f[j - 1])
    BY <2>2, <2>4, <2>5
  <2>7. Goes(f)
    BY <2>5, <2>6 DEF Step
  <2>8. QED
    BY <2>7
<1>7. Goes(after)
  <2> HIDE DEF Goes
  <2>1. QED
    BY <1>6
<1> HIDE DEF after
<1>8. \A j \in 0 .. N : after[j] = IF j = 0 THEN q ELSE Step(j, after[j - 1])
  <2> HIDE DEF N, es
  <2>1. QED
    BY <1>7
<1> HIDE DEF Goes
<1> DEFINE OK == {j \in 0 .. N : after[j] \in S}
<1>9. N \in OK
  <2> HIDE DEF N, S, Step
  <2>1. 0 \in OK
    BY <1>2, <1>4, <1>8
  <2>2. \A j \in 0 .. N - 1 : j + 1 \in 1 .. N /\ j + 1 \in 0 .. N /\ (j + 1) - 1 = j /\ j + 1 # 0
    BY <1>4
  <2>3. \A j \in 0 .. N - 1 : j \in OK => j + 1 \in OK
    BY <1>5, <1>8, <2>2
  <2> HIDE DEF OK
  <2>4. 0 .. N \subseteq OK
    BY <1>4, <2>1, <2>3, UpTo
  <2>5. QED
    BY <1>4, <2>4
<1>10. QED
  BY <1>3, <1>9

\* The search goes over the places of its queue.
LEMMA SearchQueues ==
  ASSUME NEW a \in DOMAIN Mem, NEW b
  PROVE  Search(Mem, a, b) \in Queues
<1> DEFINE root == <<[v |-> a, ancest |-> 0, road_id |-> Null]>>
           C == Cardinality(DOMAIN Mem)
           Step(k, r) == IF k > Len(r) \/ Reached(Mem, r, b) THEN r ELSE VisitAll(Mem, b, k, r)
           Goes(f) == f = [k \in 0 .. C |-> IF k = 0 THEN root
                             ELSE IF k > Len(f[k - 1]) \/ Reached(Mem, f[k - 1], b) THEN f[k - 1]
                             ELSE VisitAll(Mem, b, k, f[k - 1])]
           g == [k \in 1 .. C |-> [r \in Queues |-> Step(k, r)]]
           q == CHOOSE f : Goes(f)
<1>1. C \in Nat
  BY MapAssumption, FS_CardinalityType DEF MapAssumption
<1>2. Search(Mem, a, b) = q[C]
  BY DEF Search
<1>3. root \in Queues
  <2> DEFINE x == [v |-> a, ancest |-> 0, road_id |-> Null]
  <2>1. x \in Arrival
    BY DEF Arrival
  <2> HIDE DEF x
  <2>2. <<x>> \in Seq(Arrival) /\ Len(<<x>>) = 1
    BY <2>1
  <2>3. QED
    BY <2>2 DEF Queues, x
<1>4. \A k \in 1 .. C : \A r \in Queues : Step(k, r) \in Queues
  <2> SUFFICES ASSUME NEW k \in 1 .. C, NEW r \in Queues, ~(k > Len(r)) PROVE VisitAll(Mem, b, k, r) \in Queues
    OBVIOUS
  <2>1. Len(r) \in Nat
    BY QueueIs
  <2>2. k \in Nat /\ k >= 1 /\ k <= Len(r)
    BY <1>1, <2>1
  <2>3. QED
    BY <2>2, VisitAllQueues
<1> HIDE DEF Step, C, root
<1>5. \A k \in 0 .. C : k # 0 => k \in 1 .. C /\ k - 1 \in 0 .. C
  BY <1>1
<1>6. \E f : Goes(f)
  <2>1. g \in [1 .. C -> [Queues -> Queues]]
    BY <1>4
  <2>2. \A k \in 1 .. C : \A r \in Queues : g[k][r] = Step(k, r)
    OBVIOUS
  <2> HIDE DEF g
  <2>3. PICK f : Unfolds(f, C, Queues, root, g)
    BY <1>1, <1>3, <2>1, Recursion
  <2>4. f \in [0 .. C -> Queues] /\ f[0] = root /\ \A k \in 1 .. C : f[k] = g[k][f[k - 1]]
    BY <2>3 DEF Unfolds
  <2>5. \A k \in 0 .. C : f[k] = IF k = 0 THEN root ELSE Step(k, f[k - 1])
    BY <1>5, <2>2, <2>4
  <2>6. Goes(f)
    BY <2>4, <2>5 DEF Step
  <2>7. QED
    BY <2>6
<1>7. Goes(q)
  <2> HIDE DEF Goes
  <2>1. QED
    BY <1>6
<1> HIDE DEF q
<1>8. \A k \in 0 .. C : q[k] = IF k = 0 THEN root ELSE Step(k, q[k - 1])
  BY <1>7 DEF Step
<1> HIDE DEF Goes
<1> DEFINE OK == {k \in 0 .. C : q[k] \in Queues}
<1>9. C \in OK
  <2>1. 0 \in OK
    BY <1>1, <1>3, <1>8
  <2>2. \A k \in 0 .. C - 1 : k + 1 \in 1 .. C /\ k + 1 \in 0 .. C /\ (k + 1) - 1 = k /\ k + 1 # 0
    BY <1>1
  <2>3. \A k \in 0 .. C - 1 : k \in OK => k + 1 \in OK
    BY <1>4, <1>8, <2>2
  <2> HIDE DEF OK
  <2>4. 0 .. C \subseteq OK
    BY <1>1, <2>1, <2>3, UpTo
  <2>5. QED
    BY <1>1, <2>4
<1>10. QED
  BY <1>2, <1>9

\* The walk back ends at a junction or at none.
LEMMA PrintCrossnodeType ==
  ASSUME NEW q \in Queues, Len(q) > 1
  PROVE  PrintCrossnode(q) \in DOMAIN Mem \cup {Null}
<1> DEFINE S == DOMAIN Mem \cup {Null}
           N == Len(q)
           Step(i, x) == IF q[i].ancest = 1 THEN Null
                         ELSE IF q[i].road_id # q[q[i].ancest].road_id THEN q[q[i].ancest].v
                         ELSE x
           Goes(w) == w = [p \in 2 .. Len(q) |->
                             LET c == q[p].ancest
                             IN  IF c = 1 THEN Null
                                 ELSE IF q[p].road_id # q[c].road_id THEN q[c].v
                                 ELSE w[c]]
           g == [i \in 2 .. N |-> [x \in S |-> Step(i, x)]]
           walk == CHOOSE w : Goes(w)
<1>1. /\ N \in Nat /\ N >= 1
      /\ \A i \in 2 .. N : /\ q[i].ancest \in 1 .. i - 1 /\ q[i].ancest \in 1 .. N
                           /\ q[q[i].ancest].v \in DOMAIN Mem
  BY QueueIs
<1>2. \A i \in 2 .. N : q[i].ancest # 1 => q[i].ancest \in 2 .. N /\ i \in 1 .. N
  BY <1>1
<1>3. PrintCrossnode(q) = walk[N]
  BY DEF PrintCrossnode
<1>4. \A i \in 2 .. N : \A x \in S : Step(i, x) \in S
  BY <1>1
<1> HIDE DEF S
<1>5. \E w : Goes(w)
  <2>1. g \in [2 .. N -> [S -> S]]
    BY <1>4
  <2>2. \A i \in 2 .. N : \A x \in S : g[i][x] = Step(i, x)
    OBVIOUS
  <2>3. Null \in S
    BY DEF S
  <2> HIDE DEF g, N
  <2>4. PICK f : Climbs(f, N, q, S, Null, g)
    BY <1>1, <2>1, <2>3, Ancestry
  <2>5. f \in [1 .. N -> S] /\ \A i \in 2 .. N : f[i] = g[i][f[q[i].ancest]]
    BY <2>4 DEF Climbs
  <2>6. \A i \in 2 .. N : f[i] = Step(i, f[q[i].ancest])
    <3> HIDE DEF Step
    <3>1. \A i \in 2 .. N : f[q[i].ancest] \in S
      BY <1>1, <2>5
    <3>2. QED
      BY <2>2, <2>5, <3>1
  <2> DEFINE w == [i \in 2 .. N |-> f[i]]
  <2>7. \A i \in 2 .. N : w[i] = Step(i, w[q[i].ancest])
    <3> SUFFICES ASSUME NEW i \in 2 .. N PROVE w[i] = Step(i, w[q[i].ancest])
      OBVIOUS
    <3>1. w[i] = f[i] /\ (q[i].ancest # 1 => w[q[i].ancest] = f[q[i].ancest])
      BY <1>2
    <3> HIDE DEF w
    <3>2. QED
      BY <2>6, <3>1
  <2>8. w = [i \in 2 .. N |-> w[i]]
    OBVIOUS
  <2> HIDE DEF w, Step
  <2>9. w = [i \in 2 .. N |-> Step(i, w[q[i].ancest])]
    BY <2>7, <2>8
  <2>10. Goes(w)
    BY <2>9 DEF Step, N
  <2>11. QED
    BY <2>10
<1>6. Goes(walk)
  <2> HIDE DEF Goes
  <2>1. QED
    BY <1>5
<1> HIDE DEF walk
<1>7. \A i \in 2 .. N : walk[i] = Step(i, walk[q[i].ancest])
  BY <1>6
<1> HIDE DEF Goes
<1> DEFINE OK == {i \in 1 .. N : i # 1 => walk[i] \in S}
<1>8. \A i \in 2 .. N : 1 .. i - 1 \subseteq OK => i \in OK
  <2> HIDE DEF N
  <2>1. ASSUME NEW i \in 2 .. N, 1 .. i - 1 \subseteq OK PROVE i \in OK
    <3>1. q[i].ancest \in OK
      BY <1>1, <2>1
    <3>2. walk[i] \in S
      <4>1. CASE q[i].ancest = 1
        BY <1>7, <4>1 DEF S
      <4>2. CASE q[i].ancest # 1
        <5>1. walk[q[i].ancest] \in S
          BY <3>1, <4>2
        <5>2. QED
          BY <1>4, <1>7, <5>1
      <4>3. QED
        BY <4>1, <4>2
    <3>3. i \in 1 .. N
      BY <1>1
    <3>4. QED
      BY <3>2, <3>3
  <2>2. QED
    BY <2>1
<1>9. N \in OK
  <2>1. 1 \in OK /\ N \in 1 .. N
    BY <1>1
  <2> HIDE DEF OK, N
  <2>2. 1 .. N \subseteq OK
    BY <1>1, <1>8, <2>1, EveryPlace
  <2>3. QED
    BY <2>1, <2>2
<1>10. walk[N] \in S
  <2>1. N # 1
    OBVIOUS
  <2>2. QED
    BY <1>9, <2>1
<1>11. QED
  BY <1>3, <1>10 DEF S

\* find_Vertex_by_VehiclePosition answers with a junction.
LEMMA NearestIs ==
  ASSUME NEW position \in Nat
  PROVE  FindVertexByPosition(Vertices, Mem, position) \in DOMAIN Mem
<1> DEFINE distance(k) == GeohashCompare(Mem[Vertices[k]].geoHash, position)
           nearest == {k \in DOMAIN Vertices : \A l \in DOMAIN Vertices : distance(k) <= distance(l)}
           D == {distance(k) : k \in DOMAIN Vertices}
<1>1. /\ Vertices \in Seq(DOMAIN Mem) /\ Vertices # <<>> /\ DOMAIN Vertices = 1 .. Len(Vertices)
      /\ Len(Vertices) \in Nat /\ Len(Vertices) >= 1
  BY PathAssumption, MapAssumption, EmptySeq DEF PathAssumption, MapAssumption
<1>2. \A k \in DOMAIN Vertices : Vertices[k] \in DOMAIN Mem /\ Mem[Vertices[k]].geoHash \in Nat
  BY <1>1, MapAssumption DEF MapAssumption
<1>3. \A k \in DOMAIN Vertices : distance(k) \in Nat
  BY <1>2 DEF GeohashCompare
<1>4. FindVertexByPosition(Vertices, Mem, position) = Vertices[Min(nearest)]
  BY <1>1 DEF FindVertexByPosition
<1> HIDE DEF distance
<1>5. D \in SUBSET Nat /\ D # {}
  <2>1. 1 \in DOMAIN Vertices
    BY <1>1
  <2>2. QED
    BY <1>3, <2>1
<1> HIDE DEF D
<1>6. PICK d \in D : \A e \in D : d <= e
  BY <1>5, Least
<1>7. nearest \subseteq Nat /\ nearest # {}
  <2>1. PICK k \in DOMAIN Vertices : d = distance(k)
    BY DEF D
  <2>2. \A l \in DOMAIN Vertices : distance(k) <= distance(l)
    BY <1>6, <2>1 DEF D
  <2>3. DOMAIN Vertices \subseteq Nat
    BY <1>1
  <2>4. QED
    BY <2>2, <2>3
<1>8. Min(nearest) \in nearest
  <2> HIDE DEF nearest
  <2>1. QED
    BY <1>7, MinOfNats
<1>9. QED
  BY <1>2, <1>4, <1>8

\* mbr_forward's crossing, whatever the map: a junction of it, or none.
LEMMA CrossingType ==
  ASSUME NEW this \in Block \cup {0}, NEW dst \in Block
  PROVE  Crossing(this, dst) \in Nat \cup {Null}
<1> DEFINE a == FindVertexByPosition(Vertices, Mem, this)
           b == FindVertexByPosition(Vertices, Mem, dst)
           x == CrossVertex(Mem, a, b)
<1>1. this \in Nat /\ dst \in Nat
  BY PathAssumption DEF PathAssumption
<1>2. a \in DOMAIN Mem /\ b \in DOMAIN Mem
  BY <1>1, NearestIs
<1> HIDE DEF a, b
<1>3. x \in DOMAIN Mem \cup {Null}
  <2> DEFINE q == Search(Mem, a, b)
  <2>1. q \in Queues
    BY <1>2, SearchQueues
  <2>2. x = IF Reached(Mem, q, b) THEN PrintCrossnode(q) ELSE Null
    BY DEF CrossVertex
  <2> HIDE DEF q
  <2>3. QED
    BY <2>1, <2>2, PrintCrossnodeType DEF Reached
<1> HIDE DEF x
<1>4. x # Null => Mem[x].geoHash \in Nat
  BY <1>3, MapAssumption DEF MapAssumption
<1>5. Crossing(this, dst) = IF x = Null THEN Null ELSE Mem[x].geoHash
  BY DEF Crossing, x, a, b
<1>6. QED
  BY <1>4, <1>5

(***************************************************************************)
(* The types                                                                *)
(***************************************************************************)

\* What TypeOK adds to RadioOK.
Types ==
  /\ pos \in [Node -> Block]
  /\ status \in [Node -> Status]
  /\ statis \in [Node -> Nat]
  /\ neigh \in [Node -> [Node -> Block \cup {Null}]]
  /\ mbrtable \in [Node -> Seq(TableEntry)]
  /\ air \subseteq Frame
  /\ moves \in 0 .. MaxMoves /\ writes \in 0 .. MaxWrites

\* What a node's status and an entry of its relay table are made of.
LEMMA StatusIs ==
  ASSUME NEW s \in Status
  PROVE  /\ s.geohash_this \in Block \cup {0} /\ s.relay_work \in Nat
         /\ s.mbr_start \in {0, 1} /\ s.stat_on \in {0, 1} /\ s.stat_write \in {0, 1}
         /\ \A b \in Block : [s EXCEPT !.geohash_this = b] \in Status
         /\ \A v \in {0, 1} : /\ [s EXCEPT !.mbr_start = v] \in Status
                              /\ [s EXCEPT !.stat_on = v] \in Status
                              /\ [s EXCEPT !.stat_write = v] \in Status
         /\ \A k \in Nat : [s EXCEPT !.relay_work = k] \in Status
<1>1. /\ s.geohash_this \in Block \cup {0} /\ s.relay_work \in Nat
      /\ s.mbr_start \in {0, 1} /\ s.stat_on \in {0, 1} /\ s.stat_write \in {0, 1}
  BY DEF Status
<1>2. ASSUME NEW b \in Block PROVE [s EXCEPT !.geohash_this = b] \in Status
  BY DEF Status
<1>3. ASSUME NEW v \in {0, 1}
      PROVE  /\ [s EXCEPT !.mbr_start = v] \in Status
             /\ [s EXCEPT !.stat_on = v] \in Status
             /\ [s EXCEPT !.stat_write = v] \in Status
  BY DEF Status
<1>4. ASSUME NEW k \in Nat PROVE [s EXCEPT !.relay_work = k] \in Status
  BY DEF Status
<1>5. QED
  BY <1>1, <1>2, <1>3, <1>4

LEMMA EntryTypes ==
  /\ \A e \in TableEntry, b \in Nat :
       /\ [e EXCEPT !.geoHash_nexthop = b, !.isvalid = TRUE] \in TableEntry
       /\ [e EXCEPT !.isvalid = FALSE] \in TableEntry
  /\ \A this \in Block \cup {0}, dst \in Block, b \in Nat :
       [geoHash_this |-> this, geoHash_dst |-> dst, geoHash_nexthop |-> b, isvalid |-> TRUE] \in TableEntry
<1>1. ASSUME NEW e \in TableEntry, NEW b \in Nat
      PROVE  /\ [e EXCEPT !.geoHash_nexthop = b, !.isvalid = TRUE] \in TableEntry
             /\ [e EXCEPT !.isvalid = FALSE] \in TableEntry
  BY DEF TableEntry
<1>2. ASSUME NEW this \in Block \cup {0}, NEW dst \in Block, NEW b \in Nat
      PROVE  [geoHash_this |-> this, geoHash_dst |-> dst, geoHash_nexthop |-> b, isvalid |-> TRUE] \in TableEntry
  BY DEF TableEntry
<1>3. QED
  BY <1>1, <1>2

\* update_mbrtable and update_mbrtable_outrange make entries of entries.
LEMMA UpdateTypes ==
  ASSUME NEW t \in Seq(TableEntry), NEW this \in Block \cup {0}, NEW dst \in Block, NEW nexthop \in Nat
  PROVE  UpdateMbrtable(t, this, dst, nexthop) \in Seq(TableEntry)
<1> DEFINE I == {i \in 1 .. Len(t) : t[i].geoHash_dst = dst}
           k == SelectInSeq(t, LAMBDA e : e.geoHash_dst = dst)
           x == [geoHash_this |-> this, geoHash_dst |-> dst, geoHash_nexthop |-> nexthop, isvalid |-> TRUE]
<1>1. k = IF I # {} THEN Min(I) ELSE 0
  BY DEF SelectInSeq
<1>2. k # 0 => k \in 1 .. Len(t)
  <2>1. I # {} => Min(I) \in I
    BY MinOfNats
  <2>2. QED
    BY <1>1, <2>1
<1>3. UpdateMbrtable(t, this, dst, nexthop) =
        IF k # 0 THEN [t EXCEPT ![k].geoHash_nexthop = nexthop, ![k].isvalid = TRUE] ELSE <<x>> \o t
  BY DEF UpdateMbrtable
<1>4. x \in TableEntry
  BY EntryTypes
<1> HIDE DEF k, x
<1>5. CASE k # 0
  <2> DEFINE e == [t[k] EXCEPT !.geoHash_nexthop = nexthop, !.isvalid = TRUE]
  <2>1. k \in 1 .. Len(t) /\ t[k] \in TableEntry
    BY <1>2, <1>5
  <2>2. e \in TableEntry
    BY <2>1, EntryTypes
  <2>3. [t EXCEPT ![k].geoHash_nexthop = nexthop, ![k].isvalid = TRUE] = [t EXCEPT ![k] = e]
    BY <2>1
  <2> HIDE DEF e
  <2>4. [t EXCEPT ![k] = e] \in Seq(TableEntry)
    BY <2>1, <2>2
  <2>5. QED
    BY <1>3, <1>5, <2>3, <2>4
<1>6. CASE k = 0
  <2>1. <<x>> \o t \in Seq(TableEntry)
    BY <1>4
  <2>2. QED
    BY <1>3, <1>6, <2>1
<1>7. QED
  BY <1>5, <1>6

LEMMA OutrangeTypes ==
  ASSUME NEW t \in Seq(TableEntry), NEW updated
  PROVE  UpdateMbrtableOutrange(t, updated) \in Seq(TableEntry)
<1> DEFINE u == UpdateMbrtableOutrange(t, updated)
<1>1. DOMAIN t = 1 .. Len(t) /\ Len(t) \in Nat /\ \A k \in 1 .. Len(t) : t[k] \in TableEntry
  OBVIOUS
<1>2. u = [k \in 1 .. Len(t) |-> IF t[k].geoHash_this = updated THEN [t[k] EXCEPT !.isvalid = FALSE] ELSE t[k]]
  BY <1>1 DEF UpdateMbrtableOutrange
<1>3. \A k \in 1 .. Len(t) :
        (IF t[k].geoHash_this = updated THEN [t[k] EXCEPT !.isvalid = FALSE] ELSE t[k]) \in TableEntry
  <2>1. 0 \in Nat
    OBVIOUS
  <2>2. QED
    BY <1>1, <2>1, EntryTypes
<1> HIDE DEF u
<1>4. \A k \in 1 .. Len(t) : u[k] \in TableEntry
  BY <1>2, <1>3
<1>5. u = [k \in 1 .. Len(t) |-> u[k]]
  BY <1>2
<1>6. QED
  BY <1>1, <1>4, <1>5 DEF u

\* What the hook does to the sender's status, its statistics and its relay table.
LEMMA StealTypes ==
  ASSUME Types, NEW n \in Node, NEW p \in Packet, NEW hop \in Node, NEW relay \in Node, Steal(n, p, hop, relay)
  PROVE  status' \in [Node -> Status] /\ statis' \in [Node -> Nat] /\ air' \subseteq Frame
<1> DEFINE g == [packet |-> p, type |-> "MAPRELAY", ta |-> n, ra |-> relay, real |-> hop,
                 fresh |-> Fresh(n, hop, relay)]
           w == IF status[n].stat_write = 1 THEN 0 ELSE status[n].stat_write
           k == status[n].relay_work + 1
           s == [status[n] EXCEPT !.stat_write = w]
           r == [s EXCEPT !.relay_work = k]
<1>1. status[n] \in Status /\ status \in [Node -> Status] /\ statis \in [Node -> Nat] /\ air \subseteq Frame
  BY DEF Types
<1>2. w \in {0, 1} /\ k \in Nat /\ status[n].stat_on \in Nat
  <2>1. /\ status[n].stat_write \in {0, 1} /\ status[n].stat_on \in {0, 1}
        /\ status[n].relay_work \in Nat
    BY <1>1 DEF Status
  <2>2. w \in {0, 1}
    BY <2>1
  <2>3. k \in Nat
    BY <2>1
  <2>4. status[n].stat_on \in Nat
    BY <2>1
  <2>5. QED
    BY <2>2, <2>3, <2>4
<1>3. status' = [status EXCEPT ![n].stat_write = IF @ = 1 THEN 0 ELSE @, ![n].relay_work = @ + 1]
  BY DEF Steal
<1>4. status' = [status EXCEPT ![n] = r]
  <2>1. s.relay_work = status[n].relay_work
    BY <1>1 DEF Status
  <2>2. QED
    BY <1>1, <1>3, <2>1
<1> HIDE DEF w, k
<1>5. s \in Status
  BY <1>1, <1>2, StatusIs
<1>6. r \in Status
  <2> HIDE DEF s
  <2>1. QED
    BY <1>2, <1>5, StatusIs
<1> HIDE DEF r
<1>7. status' \in [Node -> Status]
  BY <1>1, <1>4, <1>6
<1>8. statis' \in [Node -> Nat]
  <2>1. Flushed(n) \in Nat
    BY <1>1 DEF Flushed
  <2>2. Flushed(n) + status[n].stat_on \in Nat
    BY <1>2, <2>1
  <2>3. statis' = [statis EXCEPT ![n] = Flushed(n) + status[n].stat_on]
    BY DEF Steal
  <2>4. QED
    BY <1>1, <2>2, <2>3
<1>9. air' = air \cup {g}
  BY FrameToRelay DEF Steal
<1>10. g \in Frame
  <2>1. Fresh(n, hop, relay) \in BOOLEAN
    BY DEF Fresh
  <2>2. QED
    BY <2>1 DEF Frame
<1> HIDE DEF g
<1>11. QED
  BY <1>1, <1>7, <1>8, <1>9, <1>10

LEMMA AcceptTypes ==
  ASSUME Types, NEW n \in Node, NEW p \in Packet, NEW hop \in Node, Accept(n, p, hop)
  PROVE  status' \in [Node -> Status] /\ statis' \in [Node -> Nat] /\ air' \subseteq Frame
<1> DEFINE g == [packet |-> p, type |-> "IP", ta |-> n, ra |-> hop, real |-> Null, fresh |-> FALSE]
           w == IF status[n].stat_write = 1 THEN 0 ELSE status[n].stat_write
           s == [status[n] EXCEPT !.stat_write = w]
<1>1. status[n] \in Status /\ status \in [Node -> Status] /\ statis \in [Node -> Nat] /\ air \subseteq Frame
  BY DEF Types
<1>2. w \in {0, 1}
  BY <1>1, StatusIs
<1>3. status' = [status EXCEPT ![n] = s]
  BY <1>1 DEF Accept
<1> HIDE DEF w
<1>4. s \in Status
  BY <1>1, <1>2, StatusIs
<1> HIDE DEF s
<1>5. status' \in [Node -> Status]
  BY <1>1, <1>3, <1>4
<1>6. statis' \in [Node -> Nat]
  <2>1. Flushed(n) \in Nat
    BY <1>1 DEF Flushed
  <2>2. QED
    BY <1>1, <2>1 DEF Accept
<1>7. g \in Frame /\ air' = air \cup {g}
  BY DEF Frame, Accept
<1> HIDE DEF g
<1>8. QED
  BY <1>1, <1>5, <1>6, <1>7

LEMMA OutputTypes ==
  ASSUME Types, NEW n \in Node, NEW p \in Packet, OutputHandler(n, p)
  PROVE  Types'
<1> DEFINE hop   == NextHop[n][Dst[p]]
           dst   == neigh[n][hop]
           this  == GetGeohashThis(n)
           x     == Crossing(this, dst)
           known == status[n].mbr_start # 0 /\ dst # Null
           t     == IF known THEN TableAfter(n, dst) ELSE mbrtable[n]
<1>1. hop \in Node
  BY Routes
<1>2. status' \in [Node -> Status] /\ statis' \in [Node -> Nat] /\ air' \subseteq Frame
  <2>1. \A block : Relays(n, block) \subseteq Node
    BY DEF Relays
  <2>2. Accept(n, p, hop) \/ \E relay \in Node : Steal(n, p, hop, relay)
    BY <2>1 DEF OutputHandler
  <2> HIDE DEF hop
  <2>3. QED
    BY <1>1, <2>2, AcceptTypes, StealTypes
<1>3. mbrtable' = [mbrtable EXCEPT ![n] = t]
  BY DEF OutputHandler
<1>4. UNCHANGED <<pos, neigh, moves, writes>>
  BY DEF OutputHandler
<1>5. mbrtable \in [Node -> Seq(TableEntry)] /\ mbrtable[n] \in Seq(TableEntry)
  BY DEF Types
<1>6. known => TableAfter(n, dst) \in Seq(TableEntry)
  <2> SUFFICES ASSUME known PROVE TableAfter(n, dst) \in Seq(TableEntry)
    OBVIOUS
  <2>1. this \in Block \cup {0}
    BY StatusIs DEF Types, GetGeohashThis
  <2>2. dst \in Block
    BY <1>1 DEF Types
  <2> HIDE DEF this, dst
  <2>3. x \in Nat \cup {Null}
    BY <2>1, <2>2, CrossingType
  <2>4. \/ TableAfter(n, dst) = mbrtable[n]
        \/ x # Null /\ TableAfter(n, dst) = UpdateMbrtable(mbrtable[n], this, dst, x)
    BY DEF TableAfter, this
  <2> HIDE DEF x
  <2>5. QED
    BY <1>5, <2>1, <2>2, <2>3, <2>4, UpdateTypes
<1>7. t \in Seq(TableEntry)
  <2> HIDE DEF known, dst
  <2>1. QED
    BY <1>5, <1>6
<1> HIDE DEF t
<1>8. mbrtable' \in [Node -> Seq(TableEntry)]
  BY <1>3, <1>5, <1>7
<1>9. QED
  BY <1>2, <1>4, <1>8 DEF Types

LEMMA StatusWriteTypes ==
  ASSUME Types, NEW n, NEW field \in {"mbr_start", "relay_work", "stat_on", "stat_write"}, NEW v \in {0, 1},
         StatusWrite(n, field, v)
  PROVE  Types'
<1>1. status \in [Node -> Status] /\ status' = [status EXCEPT ![n][field] = v]
  BY DEF Types, StatusWrite
<1>2. status' \in [Node -> Status]
  <2>1. CASE n \notin Node
    BY <1>1, <2>1
  <2>2. CASE n \in Node
    <3> DEFINE s == [status[n] EXCEPT ![field] = v]
    <3>1. status[n] \in Status /\ v \in Nat
      BY <1>1, <2>2
    <3>2. s \in Status
      <4>1. CASE field = "mbr_start"
        BY <3>1, <4>1, StatusIs
      <4>2. CASE field = "relay_work"
        BY <3>1, <4>2, StatusIs
      <4>3. CASE field = "stat_on"
        BY <3>1, <4>3, StatusIs
      <4>4. CASE field = "stat_write"
        BY <3>1, <4>4, StatusIs
      <4>5. QED
        BY <4>1, <4>2, <4>3, <4>4
    <3>3. status' = [status EXCEPT ![n] = s]
      BY <1>1
    <3> HIDE DEF s
    <3>4. QED
      BY <1>1, <3>2, <3>3
  <2>3. QED
    BY <2>1, <2>2
<1>3. writes' \in 0 .. MaxWrites
  BY PathAssumption DEF PathAssumption, Types, StatusWrite
<1>4. QED
  BY <1>2, <1>3 DEF Types, StatusWrite, radio

LEMMA TypesNext == IInv /\ Types /\ [Next]_vars => Types'
<1> SUFFICES ASSUME IInv, Types, [Next]_vars PROVE Types'
  OBVIOUS
<1>1. ASSUME NEW n \in Node, NEW b \in Block, Move(n, b) PROVE Types'
  <2>1. pos' \in [Node -> Block]
    BY <1>1 DEF Types, Move
  <2>2. moves' \in 0 .. MaxMoves
    BY <1>1, PathAssumption DEF PathAssumption, Types, Move
  <2>3. QED
    BY <1>1, <2>1, <2>2 DEF Types, Move, radio
<1>2. ASSUME NEW n \in Node, NEW m \in Node, Beacon(n, m) PROVE Types'
  <2>1. pos[n] \in Block /\ neigh[m] \in [Node -> Block \cup {Null}]
    BY DEF Types
  <2>2. neigh' \in [Node -> [Node -> Block \cup {Null}]]
    BY <1>2, <2>1 DEF Types, Beacon
  <2>3. QED
    BY <1>2, <2>2 DEF Types, Beacon, radio
<1>3. ASSUME NEW n \in Listener, StatusGeohashWrite(n) PROVE Types'
  <2>1. CASE n \notin Node
    BY <1>3, <2>1 DEF Types, StatusGeohashWrite, radio
  <2>2. CASE n \in Node
    <3> DEFINE s == [status[n] EXCEPT !.geohash_this = pos[n]]
               t == UpdateMbrtableOutrange(mbrtable[n], pos[n])
    <3>1. s \in Status /\ t \in Seq(TableEntry)
      BY <2>2, StatusIs, OutrangeTypes DEF Types
    <3>2. status' = [status EXCEPT ![n] = s] /\ mbrtable' = [mbrtable EXCEPT ![n] = t]
      BY <1>3 DEF StatusGeohashWrite
    <3> HIDE DEF s, t
    <3>3. status' \in [Node -> Status] /\ mbrtable' \in [Node -> Seq(TableEntry)]
      BY <3>1, <3>2 DEF Types
    <3>4. QED
      BY <1>3, <3>3 DEF Types, StatusGeohashWrite, radio
  <2>3. QED
    BY <2>1, <2>2
<1>4. ASSUME NEW n \in Listener, NEW v \in {0, 1},
             NEW field \in {"mbr_start", "relay_work", "stat_on", "stat_write"}, StatusWrite(n, field, v)
      PROVE  Types'
  BY <1>4, StatusWriteTypes
<1>5. ASSUME NEW p \in Packet, Send(p) PROVE Types'
  BY <1>5 DEF Types, Send
<1>6. ASSUME NEW n \in Node, NEW p \in Packet, OutputHandler(n, p) PROVE Types'
  BY <1>6, OutputTypes
<1>7. ASSUME NEW f \in air, ReceiveIp(f) \/ Lose(f) PROVE Types'
  BY <1>7 DEF Types, ReceiveIp, Lose
<1>8. ASSUME NEW f \in air, ReceiveMaprelay(f) PROVE Types'
  <2> DEFINE g == [packet |-> f.packet, type |-> "IP", ta |-> f.ra, ra |-> f.real,
                   real |-> Null, fresh |-> FALSE]
  <2>1. f.packet \in Packet /\ f.ra \in Node /\ f.real \in Node
    BY <1>8 DEF IInv, RadioOK, FrameOK, Target, ReceiveMaprelay
  <2>2. g \in Frame
    BY <2>1 DEF Frame
  <2>3. air' = (air \ {f}) \cup {g}
    BY <1>8 DEF ReceiveMaprelay
  <2> HIDE DEF g
  <2>4. air' \subseteq Frame
    BY <2>2, <2>3 DEF Types
  <2>5. QED
    BY <1>8, <2>4 DEF Types, ReceiveMaprelay
<1>9. CASE UNCHANGED vars
  BY <1>9 DEF Types, vars
<1>10. QED
  BY <1>1, <1>2, <1>3, <1>4, <1>5, <1>6, <1>7, <1>8, <1>9 DEF Next

\* Nodes, frames, relay tables and debugfs switches keep their types on every map whose
\* roads lead to junctions of it, along all routes.
THEOREM TypeCorrect == Spec => []TypeOK
<1>1. Init => IInv
  BY InitInv
<1>2. IInv /\ [Next]_vars => IInv'
  BY NextInv
<1>3. Init => Types
  <2> SUFFICES ASSUME Init PROVE Types
    OBVIOUS
  <2>1. [geohash_this |-> 0, mbr_start |-> 0, relay_work |-> 0, stat_on |-> 0, stat_write |-> 0] \in Status
    BY DEF Status
  <2>2. pos \in [Node -> Block] /\ moves \in 0 .. MaxMoves /\ writes \in 0 .. MaxWrites
    BY PathAssumption DEF PathAssumption, Init
  <2>3. QED
    BY <2>1, <2>2 DEF Init, Types
<1>4. IInv /\ Types => TypeOK
  BY DEF IInv, RadioOK, Types, TypeOK
<1>5. QED
  BY <1>1, <1>2, <1>3, <1>4, TypesNext, PTL DEF Spec
=============================================================================
