---------------------------- MODULE NeighborShm ----------------------------
(***************************************************************************)
(* The shared-memory neighbour table of the Linux relay.                   *)
(*                                                                         *)
(* rcv.c maps the page the kernel module reserved and writes the table one *)
(* field after the other; the netfilter hook (mbr_forward) reads it from   *)
(* another CPU.  The only synchronisation is program order: the status     *)
(* byte is written by rcv.c and tested by nobody, because the body of      *)
(* wait_neigh_available is commented out.                                  *)
(*                                                                         *)
(* A MAC address is a function from byte positions to bytes, and the bytes *)
(* a vehicle announces are modelled by the vehicle's own address: byte b   *)
(* of the MAC that ip announces is ip.  A MAC assembled from two vehicles  *)
(* is then a function that is not constant.  Handlers never write the      *)
(* table, so one handler stands for any number of them.                    *)
(***************************************************************************)
EXTENDS Integers

CONSTANTS
  Ip,           \* the vehicles, named by their addresses
  Geo,          \* the geohash blocks they announce
  Zone,         \* the blocks of the relay zone
  MaxDwell,     \* dtime_max: the side of the zone in blocks
  Capacity,     \* how many entries the mapped pages hold
  MacLen,       \* bytes of a MAC address
  MaxRestarts,  \* bound on how often rcv is killed and started again
  None          \* the content of memory nobody has written

ASSUME ShmAssumption ==
  /\ Capacity \in Nat \ {0}
  /\ MacLen \in Nat \ {0}
  /\ MaxRestarts \in Nat
  /\ MaxDwell \in Nat \ {0}
  /\ Zone \subseteq Geo
  /\ None \notin Ip \cup Geo

VARIABLES
  neigh_status,  \* 1 while add_neighbor runs
  neigh_count,   \* number of entries a reader may look at
  neigh_data,    \* the entries: [ip, mac, geoHash]
  pcW,           \* where rcv is
  msg,           \* the announcement add_neighbor is storing
  w,             \* the entry add_neighbor writes
  jW,            \* the MAC byte it writes next
  restarts,      \* how often rcv has been restarted
  pcR,           \* where the handler is in mbr_forward
  nexthop,       \* the route's next hop, the handler's argument
  i,             \* its loop index
  entry,         \* the entry its neighbor_entry pointer points to
  best,          \* best and dtime_best of neighbor_getnode_fromset_best
  jR,            \* the MAC byte memcpy reads next
  dst_geohash,   \* the block the next hop announced
  dst_mac,       \* the real destination's address, as far as copied
  relay_mac,     \* the relay's address, as far as copied
  rebooted       \* history: rcv was restarted since the handler started

writer  == <<neigh_status, neigh_count, neigh_data, pcW, msg, w, jW, restarts>>
handler == <<pcR, nexthop, i, entry, best, jR, dst_geohash, dst_mac, relay_mac>>
vars    == <<writer, handler, rebooted>>

Slot  == 1 .. Capacity
Byte  == 1 .. MacLen
Blank == [b \in Byte |-> None]

Announcement == [ip : Ip, geoHash : Geo]
NoAnnouncement == [ip |-> None, geoHash |-> None]
Entry == [ip : Ip \cup {None}, mac : [Byte -> Ip \cup {None}], geoHash : Geo \cup {None}]

\* The MAC address a vehicle announces.
MacOf(ip) == [b \in Byte |-> ip]

WriterPc == {"recv", "scan", "updMac", "updGeo", "addIp", "addMac", "addGeo",
             "count", "release", "dead"}
HandlerPc == {"idle", "find", "compare", "geo", "mac", "cross", "pick", "rate",
              "relay", "xmit"}

\* rcv has started, set the count to zero and announced nothing yet.
Init ==
  /\ neigh_status = 0
  /\ neigh_count = 0
  /\ neigh_data = [k \in Slot |-> [ip |-> None, mac |-> Blank, geoHash |-> None]]
  /\ pcW = "recv"
  /\ msg = NoAnnouncement
  /\ w = 1
  /\ jW = 1
  /\ restarts = 0
  /\ pcR = "idle"
  /\ nexthop = None
  /\ i = 1
  /\ entry = 1
  /\ best = [slot |-> 1, dtime |-> 0]
  /\ jR = 1
  /\ dst_geohash = None
  /\ dst_mac = Blank
  /\ relay_mac = Blank
  /\ rebooted = FALSE

-----------------------------------------------------------------------------
(* rcv.c: add_neighbor, one store at a time *)

\* recvfrom returns an announcement and add_neighbor raises the status byte.
Receive(m) ==
  /\ pcW = "recv"
  /\ msg' = m
  /\ neigh_status' = 1
  /\ pcW' = "scan"
  /\ UNCHANGED <<neigh_count, neigh_data, w, jW, restarts, handler, rebooted>>

\* Mutants of Matches: the loop takes any entry; it stops one entry early.
MatchesAny(ip) == 1 .. neigh_count
MatchesShort(ip) == {k \in 1 .. neigh_count - 1 : neigh_data[k].ip = ip}

\* The entries of the vehicle that add_neighbor's loop can find.
Matches(ip) == {k \in 1 .. neigh_count : neigh_data[k].ip = ip}

\* The loop finds the vehicle's entry (only rcv writes, so one step).
ScanHit ==
  /\ pcW = "scan"
  /\ \E k \in Matches(msg.ip) :
       /\ \A l \in Matches(msg.ip) : k <= l
       /\ w' = k
  /\ jW' = 1
  /\ pcW' = "updMac"
  /\ UNCHANGED <<neigh_status, neigh_count, neigh_data, msg, restarts, handler, rebooted>>

\* Mutant of ScanMiss: stores behind the last entry of the page.
ScanMissOverrun ==
  /\ pcW = "scan"
  /\ Matches(msg.ip) = {}
  /\ jW' = 1
  /\ pcW' = "addIp"
  /\ w' = neigh_count + 1
  /\ UNCHANGED <<neigh_status, neigh_count, neigh_data, msg, restarts, handler, rebooted>>

\* The loop ends without a match: the entry behind the last one is filled.
\* Nothing compares the count with the size of the mapping: behind the last
\* entry the store faults and rcv dies.
ScanMiss ==
  /\ pcW = "scan"
  /\ Matches(msg.ip) = {}
  /\ jW' = 1
  /\ IF neigh_count < Capacity
       THEN pcW' = "addIp" /\ w' = neigh_count + 1 /\ msg' = msg
       ELSE pcW' = "dead" /\ w' = 1 /\ msg' = NoAnnouncement
  /\ UNCHANGED <<neigh_status, neigh_count, neigh_data, restarts, handler, rebooted>>

\* Mutant of WriteIp: the entry is published before its fields are written.
WriteIpPublish ==
  /\ pcW = "addIp"
  /\ neigh_data' = [neigh_data EXCEPT ![w].ip = msg.ip]
  /\ pcW' = "count"
  /\ UNCHANGED <<neigh_status, neigh_count, msg, w, jW, restarts, handler, rebooted>>

\* entry->ip = temp->ip, the first store into a fresh entry.
WriteIp ==
  /\ pcW = "addIp"
  /\ neigh_data' = [neigh_data EXCEPT ![w].ip = msg.ip]
  /\ pcW' = "addMac"
  /\ UNCHANGED <<neigh_status, neigh_count, msg, w, jW, restarts, handler, rebooted>>

\* One iteration of either copy loop.
WriteMacByte ==
  /\ pcW \in {"updMac", "addMac"}
  /\ neigh_data' = [neigh_data EXCEPT ![w].mac[jW] = msg.ip]
  /\ IF jW < MacLen
       THEN jW' = jW + 1 /\ pcW' = pcW
       ELSE jW' = 1 /\ pcW' = (IF pcW = "updMac" THEN "updGeo" ELSE "addGeo")
  /\ UNCHANGED <<neigh_status, neigh_count, msg, w, restarts, handler, rebooted>>

WriteGeo ==
  /\ pcW \in {"updGeo", "addGeo"}
  /\ neigh_data' = [neigh_data EXCEPT ![w].geoHash = msg.geoHash]
  /\ pcW' = IF pcW = "updGeo" THEN "release" ELSE "count"
  /\ UNCHANGED <<neigh_status, neigh_count, msg, w, jW, restarts, handler, rebooted>>

IncrementCount ==
  /\ pcW = "count"
  /\ neigh_count' = neigh_count + 1
  /\ pcW' = "release"
  /\ UNCHANGED <<neigh_status, neigh_data, msg, w, jW, restarts, handler, rebooted>>

Release ==
  /\ pcW = "release"
  /\ neigh_status' = 0
  /\ msg' = NoAnnouncement
  /\ w' = 1
  /\ pcW' = "recv"
  /\ UNCHANGED <<neigh_count, neigh_data, jW, restarts, handler, rebooted>>

\* rcv is killed between any two stores.
Die ==
  /\ pcW # "dead"
  /\ restarts < MaxRestarts
  /\ pcW' = "dead"
  /\ msg' = NoAnnouncement
  /\ w' = 1
  /\ jW' = 1
  /\ UNCHANGED <<neigh_status, neigh_count, neigh_data, restarts, handler, rebooted>>

\* main clears the count and nothing else: entries and status byte stay.
Restart ==
  /\ pcW = "dead"
  /\ restarts < MaxRestarts
  /\ neigh_count' = 0
  /\ pcW' = "recv"
  /\ restarts' = restarts + 1
  /\ rebooted' = (pcR # "idle")
  /\ UNCHANGED <<neigh_status, neigh_data, msg, w, jW, handler>>

Writer ==
  \/ \E m \in Announcement : Receive(m)
  \/ ScanHit \/ ScanMiss
  \/ WriteIp \/ WriteMacByte \/ WriteGeo \/ IncrementCount \/ Release
  \/ Die \/ Restart

-----------------------------------------------------------------------------
(* mbr_forward: one load of shared memory at a time *)

\* mbr_forward returns: what it kept on its stack is gone.
Return ==
  /\ pcR' = "idle"
  /\ nexthop' = None
  /\ i' = 1
  /\ entry' = 1
  /\ best' = [slot |-> 1, dtime |-> 0]
  /\ jR' = 1
  /\ dst_geohash' = None
  /\ dst_mac' = Blank
  /\ relay_mac' = Blank

\* Mutant of WaitNeighAvailable: the busy-wait as it is commented out.
WaitForStatus == neigh_status = 0

\* wait_neigh_available: the busy-wait on the status byte is commented out.
WaitNeighAvailable == TRUE

\* output_handler calls mbr_forward, which calls neighbor_getnode_fromip.
Enter(ip) ==
  /\ pcR = "idle"
  /\ nexthop' = ip
  /\ pcR' = "find"
  /\ rebooted' = FALSE
  /\ UNCHANGED <<i, entry, best, jR, dst_geohash, dst_mac, relay_mac, writer>>

\* The loop condition: a next hop that is not in the table is not relayed.
Find ==
  /\ pcR = "find"
  /\ WaitNeighAvailable
  /\ IF i <= neigh_count
       THEN pcR' = "compare" /\ UNCHANGED <<nexthop, i, entry, best, jR, dst_geohash, dst_mac, relay_mac>>
       ELSE Return
  /\ UNCHANGED <<writer, rebooted>>

Compare ==
  /\ pcR = "compare"
  /\ IF neigh_data[i].ip = nexthop
       THEN entry' = i /\ pcR' = "geo" /\ i' = i
       ELSE entry' = entry /\ pcR' = "find" /\ i' = i + 1
  /\ UNCHANGED <<nexthop, best, jR, dst_geohash, dst_mac, relay_mac, writer, rebooted>>

\* dst_geohash = neighbor_entry->geoHash.  What mbr_forward computes from it
\* (the crossing and its zone) is in RelayPath; here the zone is a constant.
ReadDstGeo ==
  /\ pcR = "geo"
  /\ dst_geohash' = neigh_data[entry].geoHash
  /\ pcR' = "mac"
  /\ UNCHANGED <<nexthop, i, entry, best, jR, dst_mac, relay_mac, writer, rebooted>>

\* memcpy(dst_mac, neighbor_entry->mac, 6)
CopyDstMac ==
  /\ pcR = "mac"
  /\ dst_mac' = [dst_mac EXCEPT ![jR] = neigh_data[entry].mac[jR]]
  /\ IF jR < MacLen
       THEN jR' = jR + 1 /\ pcR' = "mac"
       ELSE jR' = 1 /\ pcR' = "cross"
  /\ UNCHANGED <<nexthop, i, entry, best, dst_geohash, relay_mac, writer, rebooted>>

\* cross_vertex finds no crossing and mbr_forward gives up, or it finds one
\* and neighbor_getnode_fromset_best starts its loop.
Cross ==
  /\ pcR = "cross"
  /\ \/ Return
     \/ /\ pcR' = "pick"
        /\ i' = 1
        /\ dst_geohash' = None
        /\ UNCHANGED <<nexthop, entry, best, jR, dst_mac, relay_mac>>
  /\ UNCHANGED <<writer, rebooted>>

\* The loop condition of neighbor_getnode_fromset_best and what follows it.
Pick ==
  /\ pcR = "pick"
  /\ WaitNeighAvailable
  /\ IF i <= neigh_count
       THEN pcR' = "rate" /\ UNCHANGED <<nexthop, i, entry, best, jR, dst_geohash, dst_mac, relay_mac>>
       ELSE IF best.dtime > 0
              THEN /\ entry' = best.slot
                   /\ pcR' = "relay"
                   /\ UNCHANGED <<nexthop, i, best, jR, dst_geohash, dst_mac, relay_mac>>
              ELSE Return
  /\ UNCHANGED <<writer, rebooted>>

\* get_dtime of an entry with this block, -1 outside the zone.  Inside it depends
\* on the entry's direction, which rcv.c never writes: it can be any.
Dtimes(geoHash) == IF geoHash \in Zone THEN 1 .. MaxDwell ELSE {-1}

Rate ==
  /\ pcR = "rate"
  /\ \E dtime \in Dtimes(neigh_data[i].geoHash) :
     IF dtime = MaxDwell
       THEN entry' = i /\ pcR' = "relay" /\ UNCHANGED <<i, best>>
       ELSE /\ best' = IF dtime > best.dtime THEN [slot |-> i, dtime |-> dtime] ELSE best
            /\ pcR' = "pick" /\ i' = i + 1 /\ entry' = entry
  /\ UNCHANGED <<nexthop, jR, dst_geohash, dst_mac, relay_mac, writer, rebooted>>

\* memcpy(relay_mac, neighbor_entry->mac, 6)
CopyRelayMac ==
  /\ pcR = "relay"
  /\ relay_mac' = [relay_mac EXCEPT ![jR] = neigh_data[entry].mac[jR]]
  /\ IF jR < MacLen
       THEN jR' = jR + 1 /\ pcR' = "relay"
       ELSE jR' = 1 /\ pcR' = "xmit"
  /\ UNCHANGED <<nexthop, i, entry, best, dst_geohash, dst_mac, writer, rebooted>>

\* The frame leaves with relay_mac as receiver and dst_mac behind it.
Transmit ==
  /\ pcR = "xmit"
  /\ Return
  /\ UNCHANGED <<writer, rebooted>>

\* The rest of a handler that has been entered.
HandlerStep ==
  \/ Find \/ Compare \/ ReadDstGeo \/ CopyDstMac \/ Cross
  \/ Pick \/ Rate \/ CopyRelayMac \/ Transmit

Next ==
  \/ Writer
  \/ \E ip \in Ip : Enter(ip)
  \/ HandlerStep

\* A hook runs to its end: the kernel does not abandon it half way.
Spec == Init /\ [][Next]_vars /\ WF_vars(HandlerStep)

-----------------------------------------------------------------------------
(* Properties *)

\* The type invariant.
TypeOK ==
  /\ neigh_status \in {0, 1}
  /\ neigh_count \in 0 .. Capacity
  /\ neigh_data \in [Slot -> Entry]
  /\ pcW \in WriterPc
  /\ msg \in Announcement \cup {NoAnnouncement}
  /\ w \in Slot
  /\ jW \in Byte
  /\ restarts \in 0 .. MaxRestarts
  /\ pcR \in HandlerPc
  /\ nexthop \in Ip \cup {None}
  /\ i \in 1 .. Capacity + 1
  /\ entry \in Slot
  /\ best \in [slot : Slot, dtime : 0 .. MaxDwell]
  /\ jR \in Byte
  /\ dst_geohash \in Geo \cup {None}
  /\ dst_mac \in [Byte -> Ip \cup {None}]
  /\ relay_mac \in [Byte -> Ip \cup {None}]
  /\ rebooted \in BOOLEAN

\* However add_neighbor's stores interleave with a handler's loads, the frame
\* a handler builds carries the next hop's own MAC as real destination and
\* one vehicle's MAC, not a mixture, as relay, provided rcv was not restarted
\* while the handler ran (a restart hands the entry the handler points at to
\* another vehicle).
FrameAddressesGenuine ==
  ~rebooted =>
    /\ pcR \in {"cross", "pick", "rate", "relay", "xmit"} => dst_mac = MacOf(nexthop)
    /\ pcR = "xmit" => \E ip \in Ip : relay_mac = MacOf(ip)

\* Even across restarts of rcv a handler never uses an entry that was not
\* completely written: add_neighbor publishes the count last.
NoUninitialisedRead ==
  /\ pcR \in {"mac", "cross"} => dst_geohash # None
  /\ pcR \in {"cross", "pick", "rate", "relay", "xmit"} => \A b \in Byte : dst_mac[b] # None
  /\ pcR = "xmit" => \A b \in Byte : relay_mac[b] # None

\* add_neighbor's search keeps one entry per vehicle, so that the entry the
\* lookup stops at is the one announcements update.
OneEntryPerVehicle ==
  \A k, l \in 1 .. neigh_count : neigh_data[k].ip = neigh_data[l].ip => k = l

\* mbr_forward always returns, whatever rcv does, also when it dies with the
\* status byte raised.
HandlerReturns == (pcR # "idle") ~> (pcR = "idle")

\* What neighbors.h says of the status byte: it determines whether the list is
\* accessible.  A step that loads from the list is taken while the byte is 0.
LoadsFromList == Compare \/ ReadDstGeo \/ CopyDstMac \/ Rate \/ CopyRelayMac
AccessOnlyWhenUnlocked == [][LoadsFromList => neigh_status = 0]_vars
=============================================================================
