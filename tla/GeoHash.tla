------------------------------- MODULE GeoHash -------------------------------
(***************************************************************************)
(* Geohash blocks (geohash.c) and the relay zone of blocks around a        *)
(* crossing, with the rating of the vehicles in it (neighbors.c).          *)
(*                                                                         *)
(* A geohash holds Step bits of the longitude x in its odd bits and Step   *)
(* bits of the latitude y in its even bits, in a word of Width bits.       *)
(* Places are x and y on a grid that covers the range in which the code    *)
(* encodes, fine enough that no two places of a block need to be told      *)
(* apart by fractions.                                                     *)
(***************************************************************************)
EXTENDS Integers, SequencesExt, Bitwise

CONSTANTS
  Step, Width,
  World    \* from LAT_RANGE_MIN to LAT_RANGE_MAX, and from LON_RANGE_MIN to LON_RANGE_MAX

ASSUME GeoHashAssumption ==
  /\ Step \in Nat \ {0} /\ Width \in {2 ^ k : k \in 2 .. 6} /\ 2 * Step <= Width
  /\ World \in Nat \ {0} /\ World % 2 ^ Step = 0

----------------------------------------------------------------------------
(* Places and blocks *)

\* The constants B: s ones and s zeros in turn.
Mask(s) == (2 ^ Width - 1) \div (2 ^ s + 1)

\* The shifts S that pull the bits of half a word apart.
Shifts == SetToSortSeq({2 ^ k : k \in 0 .. Width} \cap 1 .. Width \div 4, >)

\* The bits of half a word, moved to the even places of a word.
Spread(v) == FoldLeft(LAMBDA w, s : (w | ((w * 2 ^ s) % 2 ^ Width)) & Mask(s), v, Shifts)

\* interleave64
Interleave64(x, y) == Spread(x) | (2 * Spread(y))

\* The bits at the even places of a word, moved together.
Gather(w) == FoldRight(LAMBDA s, v : (v | (v \div 2 ^ s)) & Mask(2 * s), Shifts, w & Mask(1))

\* Mutant of FastEncode: fixed point with one bit more than a block has.
FastEncodeFiner ==
  [p \in (0 .. World) \X (0 .. World) |->
     Interleave64((p[2] * 2 ^ (Step + 1)) \div World, (p[1] * 2 ^ (Step + 1)) \div World)]

\* geohash_fast_encode, as its callers use it: who is outside the range is in block 0.
FastEncode ==
  [p \in (0 .. World) \X (0 .. World) |->
     Interleave64((p[2] * 2 ^ Step) \div World, (p[1] * 2 ^ Step) \div World)]
SumoCartesian2Geohash(p) == IF p \in DOMAIN FastEncode THEN FastEncode[p] ELSE 0

\* geohash_fast_decode: the part of the range that a block stands for.  The low half
\* of what deinterleave64 returns is the latitude, the high half the longitude.
FastDecode ==
  LET side == World \div 2 ^ Step
      from(offset) == [min |-> offset * side, max |-> (offset + 1) * side]
  IN  [hash \in 0 .. 2 ^ (2 * Step) - 1 |->
         [latitude |-> from(Gather(hash)), longitude |-> from(Gather(hash \div 2))]]

----------------------------------------------------------------------------
(* Halving the range, the slow way to the same blocks *)

\* geohash_next_leftbottom and its siblings: the quarters of a block, which has one bit
\* more of each coordinate.
Quarter == [leftbottom |-> 0, lefttop |-> 1, rightbottom |-> 2, righttop |-> 3]

NextBlock(hash, right, top) ==
  LET side == (IF right THEN "right" ELSE "left") \o (IF top THEN "top" ELSE "bottom")
  IN  (hash * 4 + Quarter[side]) % 2 ^ Width

Half(range, upper) ==
  LET middle == (range.max + range.min) \div 2
  IN  IF upper THEN [range EXCEPT !.min = middle] ELSE [range EXCEPT !.max = middle]

Whole == [min |-> 0, max |-> World]

\* geohash_encode, which refuses places outside the range: one in the middle belongs to the
\* lower half.
Encode ==
  [p \in (0 .. World) \X (0 .. World) |->
     LET upper(range, v) == range.max - v < v - range.min
         after[i \in 0 .. Step] ==
           IF i = 0 THEN [bits |-> 0, lon |-> Whole, lat |-> Whole]
           ELSE LET b == after[i - 1] IN
                [bits |-> NextBlock(b.bits, upper(b.lon, p[1]), upper(b.lat, p[2])),
                 lon  |-> Half(b.lon, upper(b.lon, p[1])),
                 lat  |-> Half(b.lat, upper(b.lat, p[2]))]
     IN  after[Step].bits]

GetBit(bits, k) == (bits \div 2 ^ k) % 2

\* geohash_decode
Decode ==
  [hash \in 0 .. 2 ^ (2 * Step) - 1 |->
     LET after[i \in 0 .. Step] ==
           IF i = 0 THEN [latitude |-> Whole, longitude |-> Whole]
           ELSE LET k == 2 * (Step - i) IN
                [latitude  |-> Half(after[i - 1].latitude, GetBit(hash, k) = 1),
                 longitude |-> Half(after[i - 1].longitude, GetBit(hash, k + 1) = 1)]
     IN  after[Step]]

----------------------------------------------------------------------------
(* Moving by one block *)

\* The constants 0x5555... and 0xaaaa..., and what >> (64 - step * 2) leaves of them.
EvenBits == Mask(1)
OddBits  == 2 * EvenBits
Low(mask) == mask % 2 ^ (2 * Step)

\* Mutant of MoveX: the even bits are not filled, so no carry gets past them.
MoveXCarry(hash, d) ==
  LET x == hash & OddBits
      y == hash & EvenBits
      moved == IF d > 0 THEN (x + 2) % 2 ^ Width ELSE (x + 2 ^ Width - 2) % 2 ^ Width
  IN  IF d = 0 THEN hash ELSE (moved & Low(OddBits)) | y

\* geohash_move_x
MoveX(hash, d) ==
  LET x  == hash & OddBits
      y  == hash & EvenBits
      zz == Low(EvenBits)
      moved == IF d > 0 THEN (x + zz + 1) % 2 ^ Width
                        ELSE ((x | zz) + 2 ^ Width - (zz + 1)) % 2 ^ Width
  IN  IF d = 0 THEN hash ELSE (moved & Low(OddBits)) | y

\* geohash_move_y
MoveY(hash, d) ==
  LET x  == hash & OddBits
      y  == hash & EvenBits
      zz == Low(OddBits)
      moved == IF d > 0 THEN (y + zz + 1) % 2 ^ Width
                        ELSE ((y | zz) + 2 ^ Width - (zz + 1)) % 2 ^ Width
  IN  IF d = 0 THEN hash ELSE x | (moved & Low(EvenBits))

\* The eight values of GeoDirection, as the d of the move in x and in y.
GeoDirection ==
  [north      |-> <<0, 1>>,   east       |-> <<1, 0>>,
   west       |-> <<-1, 0>>,  south      |-> <<0, -1>>,
   south_west |-> <<-1, -1>>, south_east |-> <<1, -1>>,
   north_west |-> <<-1, 1>>,  north_east |-> <<1, 1>>]

\* geohash_get_neighbor, of every block with Step bits each.
Neighbor ==
  [hash \in 0 .. 2 ^ (2 * Step) - 1, direction \in DOMAIN GeoDirection |->
     MoveY(MoveX(hash, GeoDirection[direction][1]), GeoDirection[direction][2])]

\* geohash_get_neighbors
GetNeighbors(hash) == [direction \in DOMAIN GeoDirection |-> Neighbor[hash, direction]]

----------------------------------------------------------------------------
(* The relay zone *)

\* Mutant of GetNeighborsInSet: the rows are filled from south to north.
GetNeighborsInSetFlipped(center) ==
  LET at == GetNeighbors(center)
  IN  << <<at.south_west, at.south, at.south_east>>,
         <<at.west,       center,   at.east>>,
         <<at.north_west, at.north, at.north_east>> >>

\* geohash_get_neighbors_in_set: the three rows of the zone.
GetNeighborsInSet(center) ==
  LET at == GetNeighbors(center)
  IN  << <<at.north_west, at.north, at.north_east>>,
         <<at.west,       center,   at.east>>,
         <<at.south_west, at.south, at.south_east>> >>

\* Mutant of GetDtime: east and west are mixed up.
GetDtimeMirrored(node, set) ==
  LET cells == {c \in (1 .. 3) \X (1 .. 3) : set[c[1]][c[2]] = node.geoHash}
      d == node.direction
  IN  IF cells = {} THEN -1
      ELSE LET c == CHOOSE c \in cells : TRUE
           IN  CASE 45 <= d /\ d < 135  -> c[2]
                 [] 225 <= d /\ d < 315 -> 4 - c[2]
                 [] 135 <= d /\ d < 225 -> 4 - c[1]
                 [] OTHER               -> c[1]

\* get_dtime: the blocks of the zone still ahead of the node, its own included, or
\* -1 outside.  Rows and columns count from 1 here and from 0 in the code; a block
\* is in the zone once, so the first match is the only one.
GetDtime(node, set) ==
  LET cells == {c \in (1 .. 3) \X (1 .. 3) : set[c[1]][c[2]] = node.geoHash}
      d == node.direction
  IN  IF cells = {} THEN -1
      ELSE LET c == CHOOSE c \in cells : TRUE
           IN  CASE 45 <= d /\ d < 135  -> 4 - c[2]
                 [] 225 <= d /\ d < 315 -> c[2]
                 [] 135 <= d /\ d < 225 -> 4 - c[1]
                 [] OTHER               -> c[1]

\* neighbor_getnode_fromset_best: the place in the table of the first entry with the
\* longest dwelling time, or 0.  Stopping at an entry that has the longest time
\* possible gives the same one.
FromsetBest(table, set) ==
  LET dtime(k) == GetDtime(table[k], set)
      better(best, k) ==
        IF dtime(k) > (IF best = 0 THEN 0 ELSE dtime(best)) THEN k ELSE best
  IN  FoldLeft(better, 0, [k \in DOMAIN table |-> k])

\* neighbor_getnode_fromset_random, which is not random: the place in the table of the
\* first entry in the zone, or 0.
FromsetRandom(table, set) ==
  SelectInSeq(table, LAMBDA entry :
    \E c \in (1 .. 3) \X (1 .. 3) : set[c[1]][c[2]] = entry.geoHash)
=============================================================================
