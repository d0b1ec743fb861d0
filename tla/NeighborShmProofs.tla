------------------------- MODULE NeighborShmProofs -------------------------
(***************************************************************************)
(* Proofs about NeighborShm, for every set of vehicles, every size of the  *)
(* page and every length of a MAC address.                                 *)
(***************************************************************************)
EXTENDS NeighborShm, TLAPS

\* Every field of entry k has been stored at least once.
Written(k) ==
  /\ neigh_data[k].ip \in Ip
  /\ neigh_data[k].geoHash \in Geo
  /\ \A b \in Byte : neigh_data[k].mac[b] \in Ip

\* Where add_neighbor is, and what it has stored so far.
WriterInv ==
  /\ pcW \notin {"recv", "dead"} => msg \in Announcement
  /\ pcW \in {"updMac", "updGeo"} => w \in 1 .. neigh_count /\ neigh_data[w].ip = msg.ip
  /\ pcW \in {"addIp", "addMac", "addGeo", "count"} =>
       w = neigh_count + 1 /\ Matches(msg.ip) = {}
  /\ pcW \in {"addMac", "addGeo", "count"} => neigh_data[w].ip = msg.ip
  /\ pcW = "addIp" => jW = 1
  /\ pcW = "addMac" => \A b \in Byte : b < jW => neigh_data[w].mac[b] = msg.ip
  /\ pcW \in {"addGeo", "count"} => \A b \in Byte : neigh_data[w].mac[b] = msg.ip
  /\ pcW = "count" => neigh_data[w].geoHash \in Geo

\* The entries a reader may look at are complete, each holds one vehicle's MAC
\* and no two hold the same vehicle.
EntriesInv ==
  /\ \A k \in 1 .. neigh_count :
       /\ Written(k)
       /\ \A b \in Byte : neigh_data[k].mac[b] = neigh_data[k].ip
  /\ OneEntryPerVehicle

\* What the handler points at has been written, restart or not.
HandlerInv ==
  /\ pcR # "idle" => nexthop \in Ip
  /\ pcR \notin {"mac", "relay"} => jR = 1
  /\ pcR \notin {"pick", "rate", "relay", "xmit"} => best.dtime = 0
  /\ pcR \in {"compare", "rate"} => i \in Slot /\ Written(i)
  /\ pcR \in {"geo", "mac", "relay"} => Written(entry)
  /\ pcR \in {"pick", "rate"} /\ best.dtime > 0 => Written(best.slot)
  /\ pcR \in {"mac", "cross"} => dst_geohash \in Geo
  /\ pcR = "mac" => \A b \in Byte : b < jR => dst_mac[b] \in Ip
  /\ pcR \in {"cross", "pick", "rate", "relay", "xmit"} => \A b \in Byte : dst_mac[b] \in Ip
  /\ pcR = "relay" => \A b \in Byte : b < jR => relay_mac[b] \in Ip
  /\ pcR = "xmit" => \A b \in Byte : relay_mac[b] \in Ip

\* Without a restart it points at entries that keep their vehicle.
OwnerInv ==
  ~rebooted =>
    /\ pcR \in {"compare", "rate"} => i <= neigh_count
    /\ pcR \in {"geo", "mac"} => entry <= neigh_count /\ neigh_data[entry].ip = nexthop
    /\ pcR = "mac" => \A b \in Byte : b < jR => dst_mac[b] = nexthop
    /\ pcR \in {"cross", "pick", "rate", "relay", "xmit"} => \A b \in Byte : dst_mac[b] = nexthop
    /\ pcR \in {"pick", "rate"} /\ best.dtime > 0 => best.slot <= neigh_count
    /\ pcR = "relay" =>
         /\ entry <= neigh_count
         /\ \A b \in Byte : b < jR => relay_mac[b] = neigh_data[entry].ip
    /\ pcR = "xmit" => \E ip \in Ip : \A b \in Byte : relay_mac[b] = ip

IInv == TypeOK /\ WriterInv /\ EntriesInv /\ HandlerInv /\ OwnerInv

\* What the stores of add_neighbor never do to an entry a handler holds.
EntriesStable ==
  /\ \A k \in Slot : Written(k) => Written(k)'
  /\ pcR # "idle" /\ ~rebooted' =>
       /\ ~rebooted
       /\ neigh_count <= neigh_count'
       /\ \A k \in 1 .. neigh_count : neigh_data'[k].ip = neigh_data[k].ip

-----------------------------------------------------------------------------

\* In the initial state nothing is announced and no handler runs.
LEMMA InitInv == Init => IInv
<1> SUFFICES ASSUME Init PROVE IInv
  OBVIOUS
<1> USE ShmAssumption DEF Init, Slot, Byte
<1>1. TypeOK
  <2>1. neigh_data \in [Slot -> Entry]
    BY DEF Entry, Blank
  <2>2. 1 \in Slot /\ 1 \in Byte /\ 0 \in 0 .. Capacity /\ 0 \in 0 .. MaxRestarts
    OBVIOUS
  <2>3. best \in [slot : Slot, dtime : 0 .. MaxDwell]
    BY <2>2
  <2>4. dst_mac \in [Byte -> Ip \cup {None}] /\ relay_mac \in [Byte -> Ip \cup {None}]
    BY DEF Blank
  <2>5. msg \in Announcement \cup {NoAnnouncement} /\ rebooted \in BOOLEAN
    OBVIOUS
  <2>6. /\ neigh_status \in {0, 1} /\ pcW \in WriterPc /\ pcR \in HandlerPc
        /\ nexthop \in Ip \cup {None} /\ dst_geohash \in Geo \cup {None}
        /\ i \in 1 .. Capacity + 1
    BY DEF WriterPc, HandlerPc
  <2>7. QED
    BY <2>1, <2>2, <2>3, <2>4, <2>5, <2>6, Zenon DEF TypeOK
<1>2. WriterInv /\ EntriesInv /\ HandlerInv /\ OwnerInv
  BY DEF WriterInv, EntriesInv, HandlerInv, OwnerInv, OneEntryPerVehicle
<1>3. QED
  BY <1>1, <1>2 DEF IInv

\* A store to the entry under w changes no other entry.
LEMMA Store ==
  ASSUME TypeOK, NEW e \in Entry, neigh_data' = [neigh_data EXCEPT ![w] = e]
  PROVE  /\ neigh_data' \in [Slot -> Entry]
         /\ neigh_data'[w] = e
         /\ \A k \in Slot : k # w => neigh_data'[k] = neigh_data[k]
BY DEF TypeOK

\* What the store of a vehicle's address leaves behind.
LEMMA WriteIpEffect ==
  ASSUME TypeOK, WriterInv, WriteIp
  PROVE  /\ msg.ip \in Ip /\ w = neigh_count + 1 /\ w \in Slot
         /\ neigh_data' \in [Slot -> Entry]
         /\ \A k \in Slot : k # w => neigh_data'[k] = neigh_data[k]
         /\ neigh_data'[w].ip = msg.ip
         /\ neigh_data'[w].geoHash = neigh_data[w].geoHash
         /\ neigh_data'[w].mac = neigh_data[w].mac
<1>1. msg.ip \in Ip /\ w = neigh_count + 1 /\ w \in Slot /\ neigh_data[w] \in Entry
  BY DEF WriteIp, TypeOK, WriterInv, Announcement
<1> DEFINE e == [neigh_data[w] EXCEPT !.ip = msg.ip]
<1>2. e \in Entry /\ e.ip = msg.ip /\ e.geoHash = neigh_data[w].geoHash /\ e.mac = neigh_data[w].mac
  BY <1>1 DEF Entry
<1>3. neigh_data' = [neigh_data EXCEPT ![w] = e]
  BY DEF WriteIp
<1> HIDE DEF e
<1>4. QED
  BY <1>1, <1>2, <1>3, Store

\* What the store of one byte of a MAC address leaves behind.
LEMMA WriteMacByteEffect ==
  ASSUME TypeOK, WriterInv, WriteMacByte
  PROVE  /\ msg.ip \in Ip /\ w \in Slot /\ jW \in Byte
         /\ neigh_data' \in [Slot -> Entry]
         /\ \A k \in Slot : k # w => neigh_data'[k] = neigh_data[k]
         /\ neigh_data'[w].ip = neigh_data[w].ip
         /\ neigh_data'[w].geoHash = neigh_data[w].geoHash
         /\ \A b \in Byte : neigh_data'[w].mac[b] = IF b = jW THEN msg.ip ELSE neigh_data[w].mac[b]
<1>1. msg.ip \in Ip /\ w \in Slot /\ jW \in Byte /\ neigh_data[w] \in Entry
  BY DEF WriteMacByte, TypeOK, WriterInv, Announcement
<1> DEFINE m == [neigh_data[w].mac EXCEPT ![jW] = msg.ip]
           e == [neigh_data[w] EXCEPT !.mac = m]
<1>2. /\ m \in [Byte -> Ip \cup {None}]
      /\ \A b \in Byte : m[b] = IF b = jW THEN msg.ip ELSE neigh_data[w].mac[b]
  BY <1>1 DEF Entry
<1>3. e \in Entry /\ e.ip = neigh_data[w].ip /\ e.geoHash = neigh_data[w].geoHash /\ e.mac = m
  <2> HIDE DEF m
  <2> QED BY <1>1, <1>2 DEF Entry
<1>4. neigh_data' = [neigh_data EXCEPT ![w] = e]
  BY DEF WriteMacByte
<1> HIDE DEF e, m
<1>5. QED
  BY <1>1, <1>2, <1>3, <1>4, Store

\* What the store of a block leaves behind.
LEMMA WriteGeoEffect ==
  ASSUME TypeOK, WriterInv, WriteGeo
  PROVE  /\ msg \in Announcement /\ w \in Slot
         /\ neigh_data' \in [Slot -> Entry]
         /\ \A k \in Slot : k # w => neigh_data'[k] = neigh_data[k]
         /\ neigh_data'[w].ip = neigh_data[w].ip
         /\ neigh_data'[w].mac = neigh_data[w].mac
         /\ neigh_data'[w].geoHash \in Geo
<1>1. msg \in Announcement /\ w \in Slot /\ neigh_data[w] \in Entry
  BY DEF WriteGeo, TypeOK, WriterInv
<1> DEFINE e == [neigh_data[w] EXCEPT !.geoHash = msg.geoHash]
<1>2. e \in Entry /\ e.ip = neigh_data[w].ip /\ e.mac = neigh_data[w].mac /\ e.geoHash \in Geo
  BY <1>1 DEF Entry, Announcement
<1>3. neigh_data' = [neigh_data EXCEPT ![w] = e]
  BY DEF WriteGeo
<1> HIDE DEF e
<1>4. QED
  BY <1>1, <1>2, <1>3, Store

\* The entries stay good when the stores leave vehicles and MACs as they are.
LEMMA EntriesKept ==
  ASSUME EntriesInv,
         neigh_count' = neigh_count,
         \A k \in 1 .. neigh_count :
           /\ neigh_data'[k].ip = neigh_data[k].ip
           /\ neigh_data'[k].geoHash \in Geo
           /\ \A b \in Byte : neigh_data'[k].mac[b] = neigh_data[k].mac[b]
  PROVE  EntriesInv'
<1>1. ASSUME NEW k \in 1 .. neigh_count
      PROVE  Written(k)' /\ \A b \in Byte : neigh_data'[k].mac[b] = neigh_data'[k].ip
  BY DEF EntriesInv, Written
<1>2. OneEntryPerVehicle'
  BY DEF EntriesInv, OneEntryPerVehicle
<1>3. QED
  BY <1>1, <1>2 DEF EntriesInv

\* A step of rcv keeps the types, its own invariant and the entries whole.
LEMMA WriterStep == IInv /\ Writer => TypeOK' /\ WriterInv' /\ EntriesInv'
<1> SUFFICES ASSUME IInv, Writer PROVE TypeOK' /\ WriterInv' /\ EntriesInv'
  OBVIOUS
<1> USE ShmAssumption DEF Slot, Byte, WriterPc, Announcement, NoAnnouncement
<1>0. TypeOK /\ WriterInv /\ EntriesInv
  BY DEF IInv
<1>1. ASSUME NEW m \in Announcement, Receive(m) PROVE TypeOK' /\ WriterInv' /\ EntriesInv'
  BY <1>0, <1>1 DEF Receive, handler, TypeOK, WriterInv, EntriesInv, Written, OneEntryPerVehicle
<1>2. CASE ScanHit
  BY <1>0, <1>2 DEF ScanHit, Matches, handler, TypeOK, WriterInv, EntriesInv, Written, OneEntryPerVehicle
<1>3. CASE ScanMiss
  BY <1>0, <1>3 DEF ScanMiss, Matches, handler, TypeOK, WriterInv, EntriesInv, Written, OneEntryPerVehicle
<1>4. CASE WriteIp
  <2>1. neigh_count' = neigh_count /\ neigh_count \in 0 .. Capacity
    BY <1>0, <1>4 DEF WriteIp, TypeOK
  <2>2. TypeOK'
    BY <1>0, <1>4, WriteIpEffect DEF WriteIp, handler, TypeOK
  <2>3. \A k \in 1 .. neigh_count : neigh_data'[k] = neigh_data[k]
    BY <1>0, <1>4, <2>1, WriteIpEffect
  <2>4. WriterInv'
    <3>1. /\ pcW = "addIp" /\ pcW' = "addMac"
          /\ msg' = msg /\ w' = w /\ jW' = jW /\ jW = 1
          /\ msg \in Announcement /\ Matches(msg.ip) = {}
      BY <1>0, <1>4 DEF WriteIp, WriterInv
    <3>2. Matches(msg.ip)' = {}
      BY <2>1, <2>3, <3>1 DEF Matches
    <3>3. w' = neigh_count' + 1 /\ neigh_data'[w'].ip = msg'.ip
      BY <1>0, <1>4, <2>1, <3>1, WriteIpEffect
    <3>4. QED
      BY <3>1, <3>2, <3>3 DEF WriterInv
  <2>5. EntriesInv'
    BY <1>0, <2>1, <2>3, EntriesKept DEF EntriesInv, Written
  <2>6. QED
    BY <2>2, <2>4, <2>5
<1>5. CASE WriteMacByte
  <2>1. /\ msg.ip \in Ip /\ w \in Slot /\ jW \in Byte /\ neigh_count \in 0 .. Capacity
        /\ neigh_count' = neigh_count /\ msg' = msg /\ w' = w
    BY <1>0, <1>5, WriteMacByteEffect DEF WriteMacByte, TypeOK
  <2>2. TypeOK'
    BY <1>0, <1>5, WriteMacByteEffect DEF WriteMacByte, handler, TypeOK
  <2>3. \A k \in 1 .. neigh_count : neigh_data'[k].ip = neigh_data[k].ip
    BY <1>0, <1>5, <2>1, WriteMacByteEffect
  <2>4. WriterInv'
    <3>1. CASE pcW = "updMac"
      BY <1>0, <1>5, <2>1, <2>3, <3>1 DEF WriteMacByte, WriterInv
    <3>2. CASE pcW = "addMac"
      <4>1. /\ w = neigh_count + 1 /\ Matches(msg.ip) = {} /\ neigh_data[w].ip = msg.ip
            /\ msg \in Announcement
            /\ \A b \in Byte : b < jW => neigh_data[w].mac[b] = msg.ip
        BY <1>0, <3>2 DEF WriterInv
      <4>2. /\ \A b \in Byte : b < jW \/ b = jW => neigh_data'[w].mac[b] = msg.ip
            /\ neigh_data'[w].ip = msg.ip
        BY <1>0, <1>5, <2>1, <4>1, WriteMacByteEffect
      <4>3. Matches(msg.ip)' = {}
        BY <2>1, <2>3, <4>1 DEF Matches
      <4>4. CASE jW < MacLen
        <5>1. pcW' = "addMac" /\ jW' = jW + 1
          BY <1>5, <3>2, <4>4 DEF WriteMacByte
        <5>2. QED
          BY <2>1, <4>1, <4>2, <4>3, <5>1 DEF WriterInv
      <4>5. CASE ~(jW < MacLen)
        <5>1. pcW' = "addGeo" /\ jW = MacLen
          BY <1>5, <2>1, <3>2, <4>5 DEF WriteMacByte
        <5>2. QED
          BY <2>1, <4>1, <4>2, <4>3, <5>1 DEF WriterInv
      <4>6. QED
        BY <4>4, <4>5
    <3>3. QED
      BY <1>5, <3>1, <3>2 DEF WriteMacByte
  <2>5. EntriesInv'
    <3>1. ASSUME NEW k \in 1 .. neigh_count, NEW b \in Byte
          PROVE  neigh_data'[k].mac[b] = neigh_data[k].mac[b]
      <4>1. CASE k = w /\ b = jW
        <5>1. neigh_data[w].ip = msg.ip
          BY <1>0, <1>5, <2>1, <4>1 DEF WriteMacByte, WriterInv
        <5>2. neigh_data[w].mac[jW] = msg.ip
          BY <1>0, <2>1, <4>1, <5>1 DEF EntriesInv
        <5>3. QED
          BY <1>0, <1>5, <4>1, <5>2, WriteMacByteEffect
      <4>2. CASE ~(k = w /\ b = jW)
        BY <1>0, <1>5, <2>1, <4>2, WriteMacByteEffect
      <4>3. QED
        BY <4>1, <4>2
    <3>2. \A k \in 1 .. neigh_count : neigh_data'[k].geoHash \in Geo
      BY <1>0, <1>5, <2>1, WriteMacByteEffect DEF EntriesInv, Written
    <3>3. QED
      BY <1>0, <2>1, <2>3, <3>1, <3>2, EntriesKept
  <2>6. QED
    BY <2>2, <2>4, <2>5
<1>6. CASE WriteGeo
  <2>1. neigh_count' = neigh_count /\ neigh_count \in 0 .. Capacity
    BY <1>0, <1>6 DEF WriteGeo, TypeOK
  <2>2. TypeOK'
    BY <1>0, <1>6, WriteGeoEffect DEF WriteGeo, handler, TypeOK
  <2>3. \A k \in 1 .. neigh_count : /\ neigh_data'[k].ip = neigh_data[k].ip
                                    /\ neigh_data'[k].mac = neigh_data[k].mac
    BY <1>0, <1>6, <2>1, WriteGeoEffect
  <2>4. WriterInv'
    BY <1>0, <1>6, <2>1, <2>3, WriteGeoEffect DEF WriteGeo, WriterInv, Matches
  <2>5. EntriesInv'
    <3>1. \A k \in 1 .. neigh_count : neigh_data'[k].geoHash \in Geo
      BY <1>0, <1>6, <2>1, WriteGeoEffect DEF EntriesInv, Written
    <3>2. QED
      BY <1>0, <2>1, <2>3, <3>1, EntriesKept
  <2>6. QED
    BY <2>2, <2>4, <2>5
<1>7. CASE IncrementCount
  <2>1. neigh_count' = neigh_count + 1 /\ w = neigh_count + 1 /\ w \in Slot /\ msg.ip \in Ip
    BY <1>0, <1>7 DEF IncrementCount, TypeOK, WriterInv
  <2>2. TypeOK'
    BY <1>0, <1>7, <2>1 DEF IncrementCount, handler, TypeOK
  <2>3. WriterInv'
    BY <1>0, <1>7, <2>1 DEF IncrementCount, TypeOK, WriterInv
  <2>4. EntriesInv'
    <3>1. \A k \in 1 .. neigh_count : neigh_data[k].ip # msg.ip
      BY <1>0, <1>7 DEF IncrementCount, WriterInv, Matches
    <3>2. Written(w) /\ \A b \in Byte : neigh_data[w].mac[b] = neigh_data[w].ip
      BY <1>0, <1>7, <2>1 DEF IncrementCount, WriterInv, Written
    <3>3. neigh_data' = neigh_data /\ neigh_data[w].ip = msg.ip
      BY <1>0, <1>7 DEF IncrementCount, WriterInv
    <3>4. \A k \in 1 .. neigh_count' : k = w \/ k \in 1 .. neigh_count
      BY <1>0, <2>1 DEF TypeOK
    <3>5. QED
      BY <1>0, <2>1, <3>1, <3>2, <3>3, <3>4 DEF EntriesInv, Written, OneEntryPerVehicle
  <2>5. QED
    BY <2>2, <2>3, <2>4
<1>8. CASE Release
  BY <1>0, <1>8 DEF Release, handler, TypeOK, WriterInv, EntriesInv, Written, OneEntryPerVehicle
<1>9. CASE Die
  BY <1>0, <1>9 DEF Die, handler, TypeOK, WriterInv, EntriesInv, Written, OneEntryPerVehicle
<1>10. CASE Restart
  BY <1>0, <1>10 DEF Restart, handler, TypeOK, WriterInv, EntriesInv, Written, OneEntryPerVehicle
<1>11. QED
  BY <1>1, <1>2, <1>3, <1>4, <1>5, <1>6, <1>7, <1>8, <1>9, <1>10 DEF Writer

\* A step of rcv never takes an entry a handler holds away from it.
LEMMA WriterStable == IInv /\ Writer => EntriesStable /\ UNCHANGED handler
<1> SUFFICES ASSUME IInv, Writer PROVE EntriesStable /\ UNCHANGED handler
  OBVIOUS
<1> USE ShmAssumption DEF Slot, Byte
<1>0. TypeOK /\ WriterInv /\ neigh_count \in 0 .. Capacity
  BY DEF IInv, TypeOK
<1>1. CASE (\E m \in Announcement : Receive(m)) \/ ScanHit \/ ScanMiss \/ Release \/ Die
  <2>1. /\ neigh_data' = neigh_data /\ neigh_count' = neigh_count /\ rebooted' = rebooted
        /\ UNCHANGED handler
    BY <1>1 DEF Receive, ScanHit, ScanMiss, Release, Die
  <2>2. QED
    BY <1>0, <2>1 DEF EntriesStable, Written
<1>2. CASE IncrementCount
  BY <1>0, <1>2 DEF IncrementCount, EntriesStable, Written
<1>3. CASE Restart
  BY <1>0, <1>3 DEF Restart, EntriesStable, Written
<1>4. CASE WriteIp
  <2>1. neigh_count' = neigh_count /\ rebooted' = rebooted /\ UNCHANGED handler
    BY <1>4 DEF WriteIp
  <2>2. QED
    BY <1>0, <1>4, <2>1, WriteIpEffect DEF EntriesStable, Written
<1>5. CASE WriteMacByte
  <2>1. neigh_count' = neigh_count /\ rebooted' = rebooted /\ UNCHANGED handler
    BY <1>5 DEF WriteMacByte
  <2>2. QED
    BY <1>0, <1>5, <2>1, WriteMacByteEffect DEF EntriesStable, Written
<1>6. CASE WriteGeo
  <2>1. neigh_count' = neigh_count /\ rebooted' = rebooted /\ UNCHANGED handler
    BY <1>6 DEF WriteGeo
  <2>2. QED
    BY <1>0, <1>6, <2>1, WriteGeoEffect DEF EntriesStable, Written
<1>7. QED
  BY <1>1, <1>2, <1>3, <1>4, <1>5, <1>6 DEF Writer

\* What the handler holds survives every step of rcv.
LEMMA HandlerSurvives == IInv /\ Writer => HandlerInv' /\ OwnerInv'
<1> SUFFICES ASSUME IInv, Writer PROVE HandlerInv' /\ OwnerInv'
  OBVIOUS
<1> USE ShmAssumption DEF Slot, Byte
<1>1. TypeOK /\ HandlerInv /\ OwnerInv /\ EntriesStable /\ UNCHANGED handler
  BY WriterStable DEF IInv
<1>2. HandlerInv'
  <2>1. i' = i /\ entry' = entry /\ best' = best
    BY <1>1 DEF handler
  <2>2. \A k \in Slot : Written(k) => Written(k)'
    BY <1>1 DEF EntriesStable
  <2>3. entry \in Slot /\ best.slot \in Slot
    BY <1>1 DEF TypeOK
  <2>4. /\ i \in Slot /\ Written(i) => Written(i)'
        /\ Written(entry) => Written(entry)'
        /\ Written(best.slot) => Written(best.slot)'
    BY <2>1, <2>2, <2>3 DEF Written
  <2>5. QED
    BY <1>1, <2>1, <2>4 DEF HandlerInv, handler
<1>3. OwnerInv'
  <2> SUFFICES ASSUME ~rebooted', pcR # "idle" PROVE OwnerInv'
    BY <1>1 DEF OwnerInv, handler
  <2>1. /\ ~rebooted /\ neigh_count <= neigh_count'
        /\ \A k \in 1 .. neigh_count : neigh_data'[k].ip = neigh_data[k].ip
        /\ neigh_count \in Nat /\ neigh_count' \in Nat /\ entry \in Slot
        /\ best.slot \in Slot /\ i \in Nat
    BY <1>1, WriterStep DEF EntriesStable, TypeOK
  <2>2. QED
    BY <1>1, <2>1 DEF OwnerInv, handler
<1>4. QED
  BY <1>2, <1>3

\* A load leaves the table as it is, and what was invariant about it.
LEMMA WriterUntouched ==
  ASSUME TypeOK, WriterInv, EntriesInv, UNCHANGED writer
  PROVE  WriterInv' /\ EntriesInv' /\ \A k \in Slot : Written(k) => Written(k)'
BY DEF writer, WriterInv, EntriesInv, Written, Matches, OneEntryPerVehicle

\* mbr_forward returns: nothing is left for the invariant to say.
LEMMA ReturnStep ==
  ASSUME TypeOK, Return, UNCHANGED <<writer, rebooted>>
  PROVE  TypeOK' /\ HandlerInv' /\ OwnerInv'
<1> USE ShmAssumption DEF Slot, Byte
<1>1. Blank \in [Byte -> Ip \cup {None}]
  BY DEF Blank
<1>2. /\ pcR' = "idle" /\ nexthop' = None /\ i' = 1 /\ entry' = 1 /\ jR' = 1
      /\ dst_geohash' = None /\ dst_mac' = Blank /\ relay_mac' = Blank
      /\ best' = [slot |-> 1, dtime |-> 0]
  BY DEF Return
<1>3. best' \in [slot : Slot, dtime : 0 .. MaxDwell]
  BY <1>2
<1>4. TypeOK'
  BY <1>1, <1>2, <1>3 DEF TypeOK, HandlerPc, writer
<1>5. HandlerInv' /\ OwnerInv'
  BY <1>2 DEF HandlerInv, OwnerInv
<1>6. QED
  BY <1>4, <1>5

\* A step of the handler keeps its types and what it knows of its entries.
LEMMA ReaderStep ==
  ASSUME IInv, HandlerStep \/ \E ip \in Ip : Enter(ip)
  PROVE  TypeOK' /\ HandlerInv' /\ OwnerInv'
<1> USE ShmAssumption DEF Slot, Byte
<1>0. TypeOK /\ EntriesInv /\ HandlerInv /\ OwnerInv
  BY DEF IInv
<1>1. ASSUME NEW ip \in Ip, Enter(ip) PROVE TypeOK' /\ HandlerInv' /\ OwnerInv'
  BY <1>0, <1>1 DEF Enter, TypeOK, HandlerPc, HandlerInv, OwnerInv, writer
<1>2. CASE Find
  <2>1. CASE i <= neigh_count
    BY <1>0, <1>2, <2>1 DEF Find, TypeOK, HandlerPc, HandlerInv, OwnerInv, EntriesInv, Written, writer
  <2>2. CASE ~(i <= neigh_count)
    BY <1>0, <1>2, <2>2, ReturnStep DEF Find
  <2>3. QED
    BY <2>1, <2>2
<1>3. CASE Compare
  BY <1>0, <1>3 DEF Compare, TypeOK, HandlerPc, HandlerInv, OwnerInv, Written, writer
<1>4. CASE ReadDstGeo
  BY <1>0, <1>4 DEF ReadDstGeo, TypeOK, HandlerPc, HandlerInv, OwnerInv, Written, writer
<1>5. CASE CopyDstMac
  <2> DEFINE v == neigh_data[entry].mac[jR]
  <2>1. /\ v \in Ip /\ jR \in Byte /\ dst_geohash \in Geo /\ nexthop \in Ip /\ best.dtime = 0
        /\ \A b \in Byte : b < jR => dst_mac[b] \in Ip
    BY <1>0, <1>5 DEF CopyDstMac, TypeOK, HandlerInv, Written
  <2>2. ~rebooted => /\ entry <= neigh_count /\ neigh_data[entry].ip = nexthop /\ v = nexthop
                     /\ \A b \in Byte : b < jR => dst_mac[b] = nexthop
    <3> SUFFICES ASSUME ~rebooted
                 PROVE  /\ entry <= neigh_count /\ neigh_data[entry].ip = nexthop /\ v = nexthop
                        /\ \A b \in Byte : b < jR => dst_mac[b] = nexthop
      OBVIOUS
    <3>1. /\ entry <= neigh_count /\ neigh_data[entry].ip = nexthop
          /\ \A b \in Byte : b < jR => dst_mac[b] = nexthop
      BY <1>0, <1>5 DEF CopyDstMac, OwnerInv
    <3>2. entry \in 1 .. neigh_count
      BY <1>0, <3>1 DEF TypeOK
    <3>3. v = nexthop
      BY <1>0, <2>1, <3>1, <3>2 DEF EntriesInv
    <3>4. QED
      BY <3>1, <3>3
  <2>3. /\ dst_mac' \in [Byte -> Ip \cup {None}]
        /\ \A b \in Byte : dst_mac'[b] = IF b = jR THEN v ELSE dst_mac[b]
    BY <1>0, <1>5, <2>1 DEF CopyDstMac, TypeOK
  <2>4. /\ UNCHANGED <<nexthop, i, entry, best, dst_geohash, relay_mac, writer, rebooted>>
        /\ \/ jR < MacLen /\ jR' = jR + 1 /\ pcR' = "mac"
           \/ jR = MacLen /\ jR' = 1 /\ pcR' = "cross"
    BY <1>5, <2>1 DEF CopyDstMac
  <2> HIDE DEF v
  <2>5. TypeOK'
    BY <1>0, <2>1, <2>3, <2>4 DEF TypeOK, HandlerPc, writer
  <2>6. HandlerInv'
    <3>1. Written(entry) /\ Written(entry)'
      BY <1>0, <1>5, <2>4 DEF CopyDstMac, HandlerInv, Written, writer
    <3>2. QED
      BY <2>1, <2>3, <2>4, <3>1 DEF HandlerInv
  <2>7. OwnerInv'
    BY <2>1, <2>2, <2>3, <2>4 DEF OwnerInv, writer
  <2>8. QED
    BY <2>5, <2>6, <2>7
<1>6. CASE Cross
  <2>1. CASE Return
    BY <1>0, <1>6, <2>1, ReturnStep DEF Cross
  <2>2. CASE ~Return
    BY <1>0, <1>6, <2>2 DEF Cross, TypeOK, HandlerPc, HandlerInv, OwnerInv, Written, writer
  <2>3. QED
    BY <2>1, <2>2
<1>7. CASE Pick
  <2>1. CASE i <= neigh_count \/ best.dtime > 0
    <3>1. CASE i <= neigh_count
      BY <1>0, <1>7, <3>1 DEF Pick, TypeOK, HandlerPc, HandlerInv, OwnerInv, EntriesInv, Written, writer
    <3>2. CASE ~(i <= neigh_count)
      <4>1. /\ entry' = best.slot /\ pcR' = "relay"
            /\ UNCHANGED <<nexthop, i, best, jR, dst_geohash, dst_mac, relay_mac, writer, rebooted>>
        BY <1>7, <2>1, <3>2 DEF Pick
      <4>2. /\ Written(best.slot) /\ best.slot \in Slot /\ jR = 1 /\ nexthop \in Ip
            /\ \A b \in Byte : dst_mac[b] \in Ip
            /\ ~rebooted => /\ \A b \in Byte : dst_mac[b] = nexthop
                            /\ best.slot <= neigh_count
        BY <1>0, <1>7, <2>1, <3>2 DEF Pick, TypeOK, HandlerInv, OwnerInv
      <4>3. TypeOK'
        BY <1>0, <4>1, <4>2 DEF TypeOK, HandlerPc, writer
      <4>4. HandlerInv' /\ OwnerInv'
        BY <4>1, <4>2 DEF HandlerInv, OwnerInv, Written, writer
      <4>5. QED
        BY <4>3, <4>4
    <3>3. QED
      BY <3>1, <3>2
  <2>2. CASE ~(i <= neigh_count \/ best.dtime > 0)
    BY <1>0, <1>7, <2>2, ReturnStep DEF Pick
  <2>3. QED
    BY <2>1, <2>2
<1>8. CASE Rate
  <2>1. /\ pcR = "rate" /\ i \in Slot /\ Written(i) /\ jR = 1 /\ nexthop \in Ip
        /\ best \in [slot : Slot, dtime : 0 .. MaxDwell]
        /\ best.dtime > 0 => Written(best.slot)
        /\ \A b \in Byte : dst_mac[b] \in Ip
        /\ ~rebooted => /\ i <= neigh_count
                        /\ \A b \in Byte : dst_mac[b] = nexthop
                        /\ best.dtime > 0 => best.slot <= neigh_count
    BY <1>0, <1>8 DEF Rate, TypeOK, HandlerInv, OwnerInv
  <2>2. PICK dtime \in Dtimes(neigh_data[i].geoHash) :
           \/ entry' = i /\ pcR' = "relay" /\ i' = i /\ best' = best
           \/ /\ best' = IF dtime > best.dtime THEN [slot |-> i, dtime |-> dtime] ELSE best
              /\ pcR' = "pick" /\ i' = i + 1 /\ entry' = entry
    BY <1>8 DEF Rate
  <2>3. dtime \in -1 .. MaxDwell
    BY ShmAssumption DEF Dtimes
  <2>4. /\ UNCHANGED <<nexthop, jR, dst_geohash, dst_mac, relay_mac, writer, rebooted>>
        /\ \/ entry' = i /\ pcR' = "relay" /\ i' = i /\ best' = best
           \/ /\ best' = IF dtime > best.dtime THEN [slot |-> i, dtime |-> dtime] ELSE best
              /\ pcR' = "pick" /\ i' = i + 1 /\ entry' = entry
    BY <1>8, <2>2 DEF Rate
  <2>5. /\ best' \in [slot : Slot, dtime : 0 .. MaxDwell]
        /\ best' = best \/ best'.slot = i
    BY <2>1, <2>3, <2>4
  <2>6. TypeOK'
    BY <1>0, <2>1, <2>4, <2>5 DEF TypeOK, HandlerPc, writer
  <2>7. HandlerInv' /\ OwnerInv'
    BY <2>1, <2>4, <2>5 DEF HandlerInv, OwnerInv, Written, writer
  <2>8. QED
    BY <2>6, <2>7
<1>9. CASE CopyRelayMac
  <2> DEFINE v == neigh_data[entry].mac[jR]
  <2>1. /\ v \in Ip /\ jR \in Byte /\ nexthop \in Ip /\ neigh_data[entry].ip \in Ip
        /\ \A b \in Byte : b < jR => relay_mac[b] \in Ip
        /\ \A b \in Byte : dst_mac[b] \in Ip
    BY <1>0, <1>9 DEF CopyRelayMac, TypeOK, HandlerInv, Written
  <2>2. ~rebooted => /\ entry <= neigh_count /\ v = neigh_data[entry].ip
                     /\ \A b \in Byte : b < jR => relay_mac[b] = neigh_data[entry].ip
                     /\ \A b \in Byte : dst_mac[b] = nexthop
    <3> SUFFICES ASSUME ~rebooted
                 PROVE  /\ entry <= neigh_count /\ v = neigh_data[entry].ip
                        /\ \A b \in Byte : b < jR => relay_mac[b] = neigh_data[entry].ip
                        /\ \A b \in Byte : dst_mac[b] = nexthop
      OBVIOUS
    <3>1. /\ entry <= neigh_count
          /\ \A b \in Byte : b < jR => relay_mac[b] = neigh_data[entry].ip
          /\ \A b \in Byte : dst_mac[b] = nexthop
      BY <1>0, <1>9 DEF CopyRelayMac, OwnerInv
    <3>2. entry \in 1 .. neigh_count
      BY <1>0, <3>1 DEF TypeOK
    <3>3. v = neigh_data[entry].ip
      BY <1>0, <2>1, <3>2 DEF EntriesInv
    <3>4. QED
      BY <3>1, <3>3
  <2>3. /\ relay_mac' \in [Byte -> Ip \cup {None}]
        /\ \A b \in Byte : relay_mac'[b] = IF b = jR THEN v ELSE relay_mac[b]
    BY <1>0, <1>9, <2>1 DEF CopyRelayMac, TypeOK
  <2>4. /\ UNCHANGED <<nexthop, i, entry, best, dst_geohash, dst_mac, writer, rebooted>>
        /\ \/ jR < MacLen /\ jR' = jR + 1 /\ pcR' = "relay"
           \/ jR = MacLen /\ jR' = 1 /\ pcR' = "xmit"
    BY <1>9, <2>1 DEF CopyRelayMac
  <2> HIDE DEF v
  <2>5. TypeOK'
    BY <1>0, <2>1, <2>3, <2>4 DEF TypeOK, HandlerPc, writer
  <2>6. HandlerInv'
    <3>1. Written(entry) /\ Written(entry)'
      BY <1>0, <1>9, <2>4 DEF CopyRelayMac, HandlerInv, Written, writer
    <3>2. QED
      BY <2>1, <2>3, <2>4, <3>1 DEF HandlerInv
  <2>7. OwnerInv'
    BY <2>1, <2>2, <2>3, <2>4 DEF OwnerInv, writer
  <2>8. QED
    BY <2>5, <2>6, <2>7
<1>10. CASE Transmit
  BY <1>0, <1>10, ReturnStep DEF Transmit
<1>11. QED
  BY <1>1, <1>2, <1>3, <1>4, <1>5, <1>6, <1>7, <1>8, <1>9, <1>10 DEF HandlerStep

\* The inductive step.
LEMMA Inductive == IInv /\ [Next]_vars => IInv'
<1> SUFFICES ASSUME IInv, [Next]_vars PROVE IInv'
  OBVIOUS
<1>1. CASE Writer
  BY <1>1, WriterStep, HandlerSurvives DEF IInv
<1>2. CASE HandlerStep \/ \E ip \in Ip : Enter(ip)
  <2>1. UNCHANGED writer
    BY <1>2 DEF HandlerStep, Enter, Find, Compare, ReadDstGeo, CopyDstMac, Cross,
                Pick, Rate, CopyRelayMac, Transmit
  <2>2. WriterInv' /\ EntriesInv'
    BY <2>1, WriterUntouched DEF IInv
  <2>3. QED
    BY <1>2, <2>2, ReaderStep DEF IInv
<1>3. CASE UNCHANGED vars
  BY <1>3 DEF vars, writer, handler, IInv, TypeOK, WriterInv, EntriesInv, HandlerInv, OwnerInv,
              Written, Matches, OneEntryPerVehicle
<1>4. QED
  BY <1>1, <1>2, <1>3 DEF Next

LEMMA Invariance == Spec => []IInv
<1>1. Init => IInv
  BY InitInv
<1>2. IInv /\ [Next]_vars => IInv'
  BY Inductive
<1>3. QED
  BY <1>1, <1>2, PTL DEF Spec

\* Every variable keeps its type: in particular the count never exceeds the
\* page and no index of add_neighbor or mbr_forward leaves it.
THEOREM TypeCorrect == Spec => []TypeOK
<1>1. IInv => TypeOK
  BY DEF IInv
<1>2. QED
  BY <1>1, Invariance, PTL

\* However many entries the page holds, add_neighbor never stores a vehicle twice.
THEOREM OneEntry == Spec => []OneEntryPerVehicle
<1>1. IInv => OneEntryPerVehicle
  BY DEF IInv, EntriesInv
<1>2. QED
  BY <1>1, Invariance, PTL

\* No handler of mbr_forward uses a field that was never stored, whatever the
\* interleaving and however often rcv is restarted.
THEOREM ReadsWritten == Spec => []NoUninitialisedRead
<1>1. IInv => NoUninitialisedRead
  BY ShmAssumption DEF IInv, HandlerInv, NoUninitialisedRead
<1>2. QED
  BY <1>1, Invariance, PTL

\* Unless rcv is restarted under it, a handler sends the next hop's MAC and one
\* vehicle's MAC, never a mixture of two.
THEOREM GenuineAddresses == Spec => []FrameAddressesGenuine
<1>1. ASSUME IInv PROVE FrameAddressesGenuine
  <2> SUFFICES ASSUME ~rebooted PROVE FrameAddressesGenuine
    BY DEF FrameAddressesGenuine
  <2>1. dst_mac \in [Byte -> Ip \cup {None}] /\ relay_mac \in [Byte -> Ip \cup {None}] /\ OwnerInv
    BY <1>1 DEF IInv, TypeOK
  <2>2. pcR \in {"cross", "pick", "rate", "relay", "xmit"} => dst_mac = MacOf(nexthop)
    BY <2>1 DEF OwnerInv, MacOf
  <2>3. pcR = "xmit" => \E ip \in Ip : relay_mac = MacOf(ip)
    <3> SUFFICES ASSUME pcR = "xmit" PROVE \E ip \in Ip : relay_mac = MacOf(ip)
      OBVIOUS
    <3>1. PICK ip \in Ip : \A b \in Byte : relay_mac[b] = ip
      BY <2>1 DEF OwnerInv
    <3>2. relay_mac = MacOf(ip)
      BY <2>1, <3>1 DEF MacOf
    <3>3. QED
      BY <3>2
  <2>4. QED
    BY <2>2, <2>3 DEF FrameAddressesGenuine
<1>2. QED
  BY <1>1, Invariance, PTL
=============================================================================
