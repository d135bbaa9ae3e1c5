----------------------------- MODULE BootProofs ------------------------------
(***************************************************************************)
(* Proofs about the boot, for every drive INT 13h can describe and every   *)
(* well-formed volume on it: both stages ask the drive for the sectors     *)
(* they mean, and each jumps only to the whole of what it has loaded.      *)
(* What they rest on about registers, chains and the reader is in          *)
(* FatProofs.                                                              *)
(***************************************************************************)
EXTENDS Boot, FatProofs

------------------------------------------------------------------------------
(* The boot sector. *)

\* boot.asm reads an entry of the table as the format says (boot.asm:186-202).
LEMMA TableRead ==
  ASSUME NEW c \in Nat, InTable(c)
  PROVE  TableValues(c) = {FatEntry(c)}
<1> DEFINE i == (c * 3) \div 2
           x == FatBytes[i]
           y == FatBytes[i + 1]
<1>1. i \in DOMAIN FatBytes /\ i + 1 \in DOMAIN FatBytes
  BY DEF InTable
<1>2. x \in 0 .. 255 /\ y \in 0 .. 255
  BY <1>1, VolumeAssumption
<1>3. (c * 3) % 2 = 0 <=> c % 2 = 0
  OBVIOUS
<1>4. FatEntry(c) = IF c % 2 = 0 THEN x + 256 * (y % 16) ELSE (x \div 16) + 16 * y
  BY DEF FatEntry
<1> HIDE DEF x, y
<1>5. (x + 256 * y) % 4096 = x + 256 * (y % 16) /\ (x + 256 * y) \div 16 = (x \div 16) + 16 * y
  BY <1>2, TwelveBits
<1>6. TableEntry(c) = FatEntry(c)
  BY <1>3, <1>4, <1>5 DEF TableEntry, x, y
<1> QED  BY <1>6 DEF TableValues

\* The clusters of stage 2.
Chain1 == Chain[Stage2Entry.first]

\* The name finds stage 2 and nothing else.
LEMMA FindsStage2 ==
  ASSUME NEW e \in Entries \cup {NoEntry}, e.name = Stage2Name
  PROVE  /\ e = Stage2Entry /\ e.first \in DOMAIN Chain
         /\ Len(Chain[e.first]) * SectorSize <= SegBytes
<1>1. e \in Entries /\ e # NoEntry
  BY Stage1Assumption
<1>2. ~e.dir /\ Len(Chain[e.first]) * SectorSize <= SegBytes
  BY <1>1, Stage1Assumption
<1>3. e \in FileEntries
  BY <1>1, <1>2 DEF FileEntries
<1>4. Stage2Entry \in FileEntries /\ Stage2Entry.name = Stage2Name
  BY <1>3 DEF Stage2Entry
<1>5. e = Stage2Entry
  BY <1>1, <1>4, Stage1Assumption DEF FileEntries
<1> QED  BY <1>2, <1>3, <1>5, FilesAssumption

\* The sector of a cluster, as the boot sector counts.
LEMMA SectorOfCluster ==
  ASSUME NEW c \in DOMAIN Chain, NEW k \in 1 .. Len(Chain[c])
  PROVE  /\ Chain[c][k] + DataOffset \in Nat /\ Chain[c][k] + DataOffset < Sectors
         /\ SectorOf(c, (k - 1) * SectorSize) = Chain[c][k] + DataOffset
<1>1. SectorsPerCluster = 1 /\ DataOffset = DataLba - 2 /\ SectorSize \in Nat \ {0}
      /\ W32 \in Nat \ {0} /\ Sectors \in Nat /\ Sectors <= W32 /\ RootLba \in Nat
  BY VolumeAssumption, Stage1Assumption
<1>2. DataLba + (Chain[c][k] - 1) * 1 <= Sectors /\ Len(Chain[c]) \in Nat
  BY <1>1, ChainLinks
<1>3. DataLba \in Nat
  BY <1>1, RootFits
<1>4. Chain[c][k] \in Nat /\ 2 <= Chain[c][k]
  BY ChainLinks
<1>5. Chain[c][k] + DataOffset \in Nat /\ Chain[c][k] + DataOffset < Sectors
  <2> DEFINE x == Chain[c][k]
  <2>1. x \in Nat /\ 2 <= x /\ DataLba + (x - 1) * 1 <= Sectors
    BY <1>2, <1>4
  <2> HIDE DEF x
  <2>2. x + DataOffset \in Nat /\ x + DataOffset < Sectors
    BY <1>1, <1>3, <2>1
  <2> QED  BY <2>2 DEF x
<1>6. ((k - 1) * SectorSize) \div SectorSize = k - 1
  <2>1. (SectorSize * (k - 1) + 0) \div SectorSize = k - 1
    BY <1>1, <1>2, DivUnique
  <2>2. SectorSize * (k - 1) + 0 = (k - 1) * SectorSize
    BY <1>1, <1>2
  <2> QED  BY <2>1, <2>2
<1>7. (k - 1) \div 1 = k - 1 /\ (k - 1) % 1 = 0
  BY <1>2
<1>8. SectorOf(c, (k - 1) * SectorSize) = (DataLba + (Chain[c][k] - 2) * 1 + 0) % W32
  BY <1>1, <1>2, <1>6, <1>7 DEF SectorOf
<1>9. DataLba + (Chain[c][k] - 2) * 1 + 0 = Chain[c][k] + DataOffset
  BY <1>1, <1>3, <1>4
<1>10. (Chain[c][k] + DataOffset) % W32 = Chain[c][k] + DataOffset
  <2>1. Chain[c][k] + DataOffset \in 0 .. W32 - 1
    BY <1>1, <1>5
  <2> QED  BY <1>1, <2>1, SmallMod
<1> QED  BY <1>5, <1>8, <1>9, <1>10

RootRead   == [lba |-> RootLba, n |-> RootSectors, for |-> "root"]
FatRead    == [lba |-> 1, n |-> FatSectors, for |-> "fat"]
ClusterRead == [lba |-> cluster + DataOffset, n |-> 1, for |-> "stage2"]

\* The first n sectors of stage 2 are in their places.
Placed(n) == \A j \in 1 .. n : loaded[j - 1] = SectorOf(Stage2Entry.first, (j - 1) * SectorSize)

\* The boot sector is at cluster k of stage 2 and has loaded those before it.
AtCluster(k) == cluster = Chain1[k] /\ bx = (k - 1) * SectorSize /\ Placed(k - 1)

Stage2Fits == Stage2Entry.first \in DOMAIN Chain /\ Len(Chain1) * SectorSize <= SegBytes

\* What the boot sector knows at each of its places.
GeoKnown == at \in {"disk", "search", "load", "next", "jump"} => geo = Geo
Asks     == at = "disk" =>
              \/ want = RootRead /\ entry = 0 /\ bx = 0
              \/ want \in {FatRead, ClusterRead} /\ Stage2Fits /\ \E k \in 1 .. Len(Chain1) : AtCluster(k)
Searches == at = "search" =>
              /\ entry \in 0 .. RootEntries - 1 /\ bx = 0
              /\ buffer = [i \in 1 .. RootSectors |-> RootLba + i - 1]
Loads    == at = "load" => Stage2Fits /\ \E k \in 1 .. Len(Chain1) : AtCluster(k)
Goes     == at = "next" =>
              Stage2Fits /\ \E k \in 1 .. Len(Chain1) : AtCluster(k) /\ Placed(k)
Jumps    == at = "jump" => Placed(Len(Chain1))

Inv1 ==
  /\ at \in {"params", "disk", "search", "load", "next", "jump", "readError", "notFound"}
  /\ DOMAIN loaded = Slots
  /\ at = "params" => entry = 0 /\ bx = 0
  /\ GeoKnown /\ Asks /\ Searches /\ Loads /\ Goes /\ Jumps

\* The sector it asks for is one of the volume, and the one it means.
LEMMA AsksRight ==
  ASSUME Inv1, at = "disk"
  PROVE  want.lba \in Nat /\ want.lba < Sectors /\ FirstSector = want.lba
<1>1. want.lba \in Nat /\ want.lba < Sectors
  <2>1. RootLba \in Nat /\ RootLba > 1 /\ Sectors \in Nat /\ DataLba < Sectors
        /\ DataLba = RootLba + RootSectors /\ RootSectors \in Nat
    BY VolumeAssumption, RootFits
  <2>2. CASE want = RootRead
    BY <2>1, <2>2 DEF RootRead
  <2>3. CASE want = FatRead
    BY <2>1, <2>3 DEF FatRead
  <2>4. CASE want = ClusterRead /\ Stage2Fits /\ \E k \in 1 .. Len(Chain1) : AtCluster(k)
    <3>1. PICK k \in 1 .. Len(Chain1) : cluster = Chain1[k]
      BY <2>4 DEF AtCluster
    <3>2. cluster + DataOffset \in Nat /\ cluster + DataOffset < Sectors
      BY <2>4, <3>1, SectorOfCluster DEF Stage2Fits, Chain1
    <3> QED  BY <2>4, <3>2 DEF ClusterRead
  <2> QED  BY <2>2, <2>3, <2>4 DEF Inv1, Asks
<1>2. geo = Geo
  BY DEF Inv1, GeoKnown
<1>3. want.lba < DriveSectors
  <2>1. Sectors \in Nat /\ Sectors <= DriveSectors /\ DriveSectors \in Nat
    BY VolumeAssumption, Stage1Assumption, DriveAssumption DEF DriveSectors
  <2> QED  BY <1>1, <2>1
<1>4. BiosSector(BootRegs(Geo, want.lba)) = want.lba
  BY <1>1, <1>3, Stage1Means
<1> QED  BY <1>1, <1>2, <1>4 DEF FirstSector

LEMMA Init1Inv == Init1 => Inv1
BY DEF Init1, Inv1, GeoKnown, Asks, Searches, Loads, Goes, Jumps, Slots

\* The place of a sector of stage 2 below 64 KB.
LEMMA PlaceOf ==
  ASSUME Stage2Fits, NEW k \in 1 .. Len(Chain1)
  PROVE  /\ ((k - 1) * SectorSize) \div SectorSize = k - 1 /\ k - 1 \in Slots
         /\ k < Len(Chain1) => ((k - 1) * SectorSize + SectorSize) % SegBytes = k * SectorSize
<1>1. /\ SectorSize \in Nat \ {0} /\ SegBytes \in Nat \ {0} /\ Len(Chain1) \in Nat
      /\ Len(Chain1) * SectorSize <= SegBytes /\ SegBytes % SectorSize = 0
  BY VolumeAssumption, Stage1Assumption, ChainLinks DEF Stage2Fits, Chain1
<1>2. (SectorSize * (k - 1) + 0) \div SectorSize = k - 1
  BY <1>1, DivUnique
<1>3. SectorSize * (k - 1) + 0 = (k - 1) * SectorSize
  BY <1>1
<1>4. k - 1 \in Slots
  <2>1. SegBytes = SectorSize * (SegBytes \div SectorSize) + 0 /\ SegBytes \div SectorSize \in Nat
    BY <1>1, DivMod
  <2> DEFINE m == SegBytes \div SectorSize
             n == Len(Chain1)
  <2>2. m \in Nat /\ n \in Nat /\ n * SectorSize <= SectorSize * m
    BY <1>1, <2>1
  <2> HIDE DEF m, n
  <2>3. n <= m
    <3> SUFFICES ASSUME n >= m + 1 PROVE FALSE
      BY <2>2
    <3>1. n * SectorSize >= (m + 1) * SectorSize
      BY <1>1, <2>2
    <3>2. (m + 1) * SectorSize = SectorSize * m + SectorSize /\ SectorSize * m \in Nat
      BY <1>1, <2>2
    <3> QED  BY <1>1, <2>2, <3>1, <3>2
  <2>4. k \in 1 .. n
    BY DEF n
  <2>5. k - 1 \in 0 .. m - 1
    BY <2>2, <2>3, <2>4
  <2> QED  BY <2>5 DEF Slots, m
<1>5. ASSUME k < Len(Chain1)
      PROVE  ((k - 1) * SectorSize + SectorSize) % SegBytes = k * SectorSize
  <2>1. (k - 1) * SectorSize + SectorSize = k * SectorSize /\ k * SectorSize \in Nat
    BY <1>1
  <2>2. k * SectorSize < Len(Chain1) * SectorSize
    BY <1>1, <1>5
  <2>3. k * SectorSize \in 0 .. SegBytes - 1
    <3>1. Len(Chain1) * SectorSize \in Nat
      BY <1>1
    <3> QED  BY <1>1, <2>1, <2>2, <3>1
  <2> QED  BY <1>1, <2>1, <2>3, SmallMod
<1> QED  BY <1>2, <1>3, <1>4, <1>5

\* Where the boot sector is does not matter to what it has loaded.
LEMMA SameCluster ==
  ASSUME NEW k, AtCluster(k), UNCHANGED <<cluster, bx, loaded>>
  PROVE  AtCluster(k)' /\ (Placed(k) => Placed(k)')
BY DEF AtCluster, Placed

LEMMA Read1Inv == ASSUME Inv1, Read1 PROVE Inv1'
<1>1. FirstSector = want.lba /\ geo = Geo /\ geo' = geo /\ at = "disk"
      /\ UNCHANGED <<entry, cluster, bx, want>> /\ DOMAIN loaded = Slots
  BY AsksRight DEF Read1, Inv1, GeoKnown, reading
<1>2. CASE want = RootRead /\ entry = 0 /\ bx = 0
  <2>1. at' = "search" /\ buffer' = Asked /\ loaded' = loaded
    BY <1>2 DEF Read1, RootRead
  <2>2. buffer' = [i \in 1 .. RootSectors |-> RootLba + i - 1]
    BY <1>1, <1>2, <2>1 DEF Asked, RootRead
  <2>3. 0 \in 0 .. RootEntries - 1
    BY VolumeAssumption
  <2> QED  BY <1>1, <1>2, <2>1, <2>2, <2>3
           DEF Inv1, GeoKnown, Asks, Searches, Loads, Goes, Jumps
<1>3. CASE want = FatRead /\ Stage2Fits /\ \E k \in 1 .. Len(Chain1) : AtCluster(k)
  <2>1. at' = "load" /\ loaded' = loaded
    BY <1>3 DEF Read1, FatRead
  <2>2. \E k \in 1 .. Len(Chain1) : AtCluster(k)'
    BY <1>1, <1>3, <2>1, SameCluster
  <2> QED  BY <1>1, <1>3, <2>1, <2>2
           DEF Inv1, GeoKnown, Asks, Searches, Loads, Goes, Jumps
<1>4. CASE want = ClusterRead /\ Stage2Fits /\ \E k \in 1 .. Len(Chain1) : AtCluster(k)
  <2>1. at' = "next" /\ loaded' = [loaded EXCEPT ![bx \div SectorSize] = FirstSector]
    BY <1>4 DEF Read1, ClusterRead
  <2>2. PICK k \in 1 .. Len(Chain1) : AtCluster(k)
    BY <1>4
  <2>3. bx \div SectorSize = k - 1 /\ k - 1 \in Slots
    BY <1>4, <2>2, PlaceOf DEF AtCluster
  <2>4. FirstSector = SectorOf(Stage2Entry.first, (k - 1) * SectorSize)
    <3>1. FirstSector = cluster + DataOffset
      BY <1>1, <1>4 DEF ClusterRead
    <3>2. SectorOf(Stage2Entry.first, (k - 1) * SectorSize) = Chain1[k] + DataOffset
      BY <1>4, SectorOfCluster DEF Stage2Fits, Chain1
    <3> QED  BY <2>2, <3>1, <3>2 DEF AtCluster
  <2>5. loaded'[k - 1] = FirstSector /\ \A j \in 1 .. k - 1 : loaded'[j - 1] = loaded[j - 1]
    <3>1. loaded' = [loaded EXCEPT ![k - 1] = FirstSector]
      BY <2>1, <2>3
    <3>2. Len(Chain1) \in Nat /\ \A j \in 1 .. k - 1 : j - 1 # k - 1
      BY <1>4, ChainLinks DEF Stage2Fits, Chain1
    <3>3. \A j \in 1 .. k - 1 : j - 1 \in Slots
      <4>1. SegBytes \div SectorSize \in Nat
        BY VolumeAssumption, Stage1Assumption, DivMod
      <4> QED  BY <2>3, <3>2, <4>1 DEF Slots
    <3> QED  BY <1>1, <2>3, <3>1, <3>2, <3>3
  <2>6. Placed(k)' /\ Placed(k - 1)'
    <3>1. \A j \in 1 .. k : j = k \/ j \in 1 .. k - 1
      BY <1>4, ChainLinks DEF Stage2Fits, Chain1
    <3>2. \A j \in 1 .. k - 1 : loaded'[j - 1] = SectorOf(Stage2Entry.first, (j - 1) * SectorSize)
      BY <2>2, <2>5 DEF AtCluster, Placed
    <3>3. \A j \in 1 .. k : loaded'[j - 1] = SectorOf(Stage2Entry.first, (j - 1) * SectorSize)
      BY <2>4, <2>5, <3>1, <3>2
    <3> QED  BY <3>2, <3>3 DEF Placed
  <2>7. AtCluster(k)'
    BY <1>1, <2>2, <2>6 DEF AtCluster
  <2>8. DOMAIN loaded' = Slots
    BY <1>1, <2>1
  <2> QED  BY <1>1, <1>4, <2>1, <2>6, <2>7, <2>8
           DEF Inv1, GeoKnown, Asks, Searches, Loads, Goes, Jumps
<1> QED  BY <1>1, <1>2, <1>3, <1>4 DEF Inv1, Asks

LEMMA Retry1Inv == ASSUME Inv1, Retry1 \/ Fail1 PROVE Inv1'
<1>1. CASE Retry1
  <2>1. at = "disk" /\ UNCHANGED <<at, geo, want, buffer, entry, cluster, bx, loaded>>
    BY <1>1 DEF Retry1
  <2>2. (\E k \in 1 .. Len(Chain1) : AtCluster(k)) => \E k \in 1 .. Len(Chain1) : AtCluster(k)'
    BY <2>1, SameCluster
  <2>3. Asks'
    BY <2>1, <2>2 DEF Inv1, Asks, ClusterRead
  <2> QED  BY <2>1, <2>3 DEF Inv1, GeoKnown, Searches, Loads, Goes, Jumps
<1>2. CASE Fail1
  <2>1. at' = "readError" /\ UNCHANGED <<geo, reading, buffer, entry, cluster, bx, loaded>>
    BY <1>2 DEF Fail1
  <2> QED  BY <2>1 DEF Inv1, GeoKnown, Asks, Searches, Loads, Goes, Jumps
<1> QED  BY <1>1, <1>2

LEMMA DriveParamsInv == ASSUME Inv1, DriveParams PROVE Inv1'
<1>1. at = "params" /\ UNCHANGED <<buffer, entry, cluster, bx, loaded>>
      /\ ((geo' = Geo /\ at' = "disk" /\ want' = RootRead) \/ at' = "readError")
  BY DEF DriveParams, StartRead1, RootRead
<1> QED  BY <1>1 DEF Inv1, GeoKnown, Asks, Searches, Loads, Goes, Jumps

LEMMA SearchEntryInv == ASSUME Inv1, SearchEntry PROVE Inv1'
<1>1. /\ at = "search" /\ entry \in 0 .. RootEntries - 1 /\ bx = 0 /\ geo = Geo
      /\ buffer = [i \in 1 .. RootSectors |-> RootLba + i - 1]
      /\ UNCHANGED <<geo, buffer, bx, loaded>>
  BY DEF Inv1, SearchEntry, Searches, GeoKnown
<1>2. CASE EntryInBuffer(entry).name = Stage2Name
  <2>1. cluster' = EntryInBuffer(entry).first /\ at' = "disk" /\ want' = FatRead
    BY <1>2 DEF SearchEntry, StartRead1, FatRead
  <2>2. EntryInBuffer(entry) \in Entries \cup {NoEntry}
    <3>1. (entry * EntrySize) % SectorSize \in 0 .. SectorSize - 1
      <4>1. entry * EntrySize \in Nat /\ SectorSize \in Nat \ {0}
        BY <1>1, VolumeAssumption
      <4> QED  BY <4>1, DivMod
    <3> QED  BY <3>1, EntryIsThere DEF EntryInBuffer
  <2>3. EntryInBuffer(entry) = Stage2Entry /\ Stage2Fits
    BY <1>2, <2>2, FindsStage2 DEF Stage2Fits, Chain1
  <2>4. 1 \in 1 .. Len(Chain1) /\ Chain1[1] = Stage2Entry.first
    <3>1. Chain1 \in Seq(2 .. EOC - 1) /\ Chain1 # <<>> /\ Chain1[1] = Stage2Entry.first
      BY <2>3, ChainAssumption DEF Stage2Fits, Chain1
    <3> QED  BY <3>1
  <2>5. AtCluster(1)'
    <3>1. SectorSize \in Nat
      BY VolumeAssumption
    <3> QED  BY <1>1, <2>1, <2>3, <2>4, <3>1 DEF AtCluster, Placed
  <2>6. \E k \in 1 .. Len(Chain1) : AtCluster(k)'
    BY <2>4, <2>5
  <2> QED  BY <1>1, <2>1, <2>3, <2>6
           DEF Inv1, GeoKnown, Asks, Searches, Loads, Goes, Jumps, FatRead
<1>3. CASE EntryInBuffer(entry).name # Stage2Name
  <2>1. /\ entry' = entry + 1
        /\ at' = IF entry + 1 < RootEntries THEN "search" ELSE "notFound"
    BY <1>3 DEF SearchEntry
  <2>2. at' = "search" => entry' \in 0 .. RootEntries - 1
    BY <1>1, <2>1, VolumeAssumption
  <2> QED  BY <1>1, <2>1, <2>2 DEF Inv1, GeoKnown, Asks, Searches, Loads, Goes, Jumps
<1> QED  BY <1>2, <1>3

LEMMA LoadClusterInv == ASSUME Inv1, LoadCluster PROVE Inv1'
<1>1. at = "load" /\ at' = "disk" /\ want' = ClusterRead
      /\ UNCHANGED <<geo, buffer, entry, cluster, bx, loaded>>
  BY DEF LoadCluster, StartRead1, ClusterRead
<1>2. \E k \in 1 .. Len(Chain1) : AtCluster(k)'
  BY <1>1, SameCluster DEF Inv1, Loads
<1>3. want' = ClusterRead'
  BY <1>1 DEF ClusterRead
<1> QED  BY <1>1, <1>2, <1>3
         DEF Inv1, GeoKnown, Asks, Searches, Loads, Goes, Jumps

LEMMA NextCluster1Inv == ASSUME Inv1, NextCluster1 PROVE Inv1'
<1>1. at = "next" /\ Stage2Fits /\ UNCHANGED <<geo, reading, buffer, entry, loaded>>
  BY DEF Inv1, Goes, NextCluster1
<1>2. PICK k \in 1 .. Len(Chain1) : AtCluster(k) /\ Placed(k)
  BY <1>1 DEF Inv1, Goes
<1>3. /\ Len(Chain1) \in Nat \ {0} /\ Chain1[k] \in Nat
      /\ TableValues(Chain1[k]) = {FatEntry(Chain1[k])}
      /\ k < Len(Chain1) => FatEntry(Chain1[k]) = Chain1[k + 1]
      /\ k = Len(Chain1) => FatEntry(Chain1[k]) >= EOC
  <2>1. Chain1[k] \in Nat /\ InTable(Chain1[k]) /\ Len(Chain1) \in Nat \ {0}
    BY <1>1, ChainLinks DEF Stage2Fits, Chain1
  <2> QED  BY <1>1, <2>1, TableRead, ChainLinks DEF Stage2Fits, Chain1
<1>4. bx' = (bx + SectorSize) % SegBytes /\ cluster = Chain1[k] /\ bx = (k - 1) * SectorSize
  BY <1>2 DEF NextCluster1, AtCluster
<1>5. IF FatEntry(Chain1[k]) >= EOC THEN at' = "jump" /\ UNCHANGED cluster
                                    ELSE at' = "load" /\ cluster' = FatEntry(Chain1[k])
  BY <1>3, <1>4 DEF NextCluster1
<1>6. CASE k = Len(Chain1)
  <2>1. at' = "jump" /\ Placed(Len(Chain1))'
    BY <1>1, <1>2, <1>3, <1>5, <1>6 DEF Placed
  <2> QED  BY <1>1, <2>1 DEF Inv1, GeoKnown, Asks, Searches, Loads, Goes, Jumps
<1>7. CASE k < Len(Chain1)
  <2>1. k + 1 \in 1 .. Len(Chain1) /\ (k + 1) - 1 = k
    BY <1>3, <1>7
  <2>2. Chain1[k + 1] \in Nat /\ Chain1[k + 1] < EOC
    BY <1>1, <2>1, ChainLinks DEF Stage2Fits, Chain1
  <2>3. ~(FatEntry(Chain1[k]) >= EOC)
    BY <1>3, <1>7, <2>2 DEF EOC
  <2>4. at' = "load" /\ cluster' = Chain1[k + 1]
    BY <1>3, <1>5, <1>7, <2>3
  <2>5. bx' = ((k + 1) - 1) * SectorSize
    BY <1>1, <1>4, <1>7, <2>1, PlaceOf
  <2>6. Placed((k + 1) - 1)'
    BY <1>1, <1>2, <2>1 DEF Placed
  <2>7. AtCluster(k + 1)'
    BY <2>4, <2>5, <2>6 DEF AtCluster
  <2>8. \E i \in 1 .. Len(Chain1) : AtCluster(i)'
    BY <2>1, <2>7
  <2> QED  BY <1>1, <2>4, <2>8 DEF Inv1, GeoKnown, Asks, Searches, Loads, Goes, Jumps
<1> QED  BY <1>3, <1>6, <1>7

LEMMA Step1Inv == ASSUME Inv1, Step1 \/ Reboot \/ UNCHANGED bootVars PROVE Inv1'
<1>1. CASE UNCHANGED bootVars
  <2>1. Inv1' <=> Inv1
    BY <1>1 DEF bootVars, Inv1, GeoKnown, Asks, Searches, Loads, Goes, Jumps, ClusterRead,
                AtCluster, Placed
  <2> QED  BY <2>1
<1>2. CASE Reboot
  BY <1>2 DEF Reboot, Inv1, GeoKnown, Asks, Searches, Loads, Goes, Jumps, Slots
<1> QED  BY <1>1, <1>2, Read1Inv, Retry1Inv, DriveParamsInv, SearchEntryInv, LoadClusterInv,
            NextCluster1Inv DEF Step1, DiskRead1

\* Stage 1 jumps only when all of stage 2 is in its place.
LEMMA Loaded1 == Inv1 => Stage2Loaded
BY DEF Inv1, Jumps, Placed, Stage2Loaded, Chain1

------------------------------------------------------------------------------
(* cstart: the search of the root directory. *)

\* Where the kernel's entry is: the search never gets past it.
KernelIndex == CHOOSE i \in 0 .. RootEntries - 1 : RootEntry(i).name = Kernel[1]

\* The sector of the root, and the byte in it, where entry j starts.
RootSector(j) == RootLba + (j * EntrySize) \div SectorSize
RootByte(j)   == (j * EntrySize) % SectorSize

LEMMA KernelFound ==
  /\ KernelIndex \in 0 .. RootEntries - 1 /\ RootEntry(KernelIndex).name = Kernel[1]
  /\ KernelEntry \in FileEntries /\ KernelEntry.first \in DOMAIN Chain
  /\ KernelEntry.size \in Nat /\ KernelEntry.size < W32 - W16
  /\ KernelEntry.size <= SectorsIn(KernelEntry.first) * SectorSize
  /\ \A e \in Entries \cup {NoEntry} : e.name = Kernel[1] => e = KernelEntry /\ e.dir = FALSE
  /\ Content[KernelEntry.first] =
       [i \in 1 .. KernelEntry.size |-> <<SectorOf(KernelEntry.first, i - 1), (i - 1) % SectorSize>>]
<1>1. KernelIndex \in 0 .. RootEntries - 1 /\ RootEntry(KernelIndex).name = Kernel[1]
  <2>1. \E i \in 0 .. RootEntries - 1 : RootEntry(i).name = Kernel[1]
    BY KernelAssumption
  <2> QED  BY <2>1 DEF KernelIndex
<1>2. \A e \in Entries \cup {NoEntry} : e.name = Kernel[1] => e \in FileEntries /\ e.dir = FALSE
  <2> SUFFICES ASSUME NEW e \in Entries \cup {NoEntry}, e.name = Kernel[1]
               PROVE  e \in FileEntries /\ e.dir = FALSE
    OBVIOUS
  <2>1. e \in Entries /\ e # NoEntry
    BY KernelAssumption
  <2>2. ~e.dir
    BY <2>1, KernelAssumption
  <2>3. e.dir \in BOOLEAN
    BY <2>1, VolumeAssumption
  <2> QED  BY <2>1, <2>2, <2>3 DEF FileEntries
<1>3. RootEntry(KernelIndex) \in Entries \cup {NoEntry}
  <2>1. KernelIndex * EntrySize \in Nat /\ SectorSize \in Nat \ {0}
    BY <1>1, VolumeAssumption
  <2>2. (KernelIndex * EntrySize) % SectorSize \in 0 .. SectorSize - 1
    BY <2>1, DivMod
  <2> QED  BY <2>2, EntryIsThere DEF RootEntry
<1>4. KernelEntry \in FileEntries /\ KernelEntry.name = Kernel[1]
  <2>1. \E e \in FileEntries : e.name = Kernel[1]
    BY <1>1, <1>2, <1>3
  <2> QED  BY <2>1, KernelAssumption DEF KernelEntry
<1>5. KernelEntry \in Entries
  BY <1>4 DEF FileEntries
<1>6. \A e \in Entries \cup {NoEntry} : e.name = Kernel[1] => e = KernelEntry
  <2> SUFFICES ASSUME NEW e \in Entries \cup {NoEntry}, e.name = Kernel[1] PROVE e = KernelEntry
    OBVIOUS
  <2>1. e \in Entries
    BY KernelAssumption
  <2> QED  BY <1>4, <1>5, <2>1, KernelAssumption
<1>7. KernelEntry.size \in Nat /\ KernelEntry.size < W32 - W16
  <2>1. KernelEntry.size \in Nat
    BY <1>5, VolumeAssumption
  <2> QED  BY <1>4, <1>5, <2>1, KernelAssumption
<1>8. KernelEntry.first \in DOMAIN Chain
      /\ KernelEntry.size <= SectorsIn(KernelEntry.first) * SectorSize
  BY <1>4, FilesAssumption DEF SectorsIn
<1>9. Content[KernelEntry.first] =
        [i \in 1 .. KernelEntry.size |-> <<SectorOf(KernelEntry.first, i - 1), (i - 1) % SectorSize>>]
  <2> DEFINE c == KernelEntry.first
             f == CHOOSE e \in FileEntries : e.first = c
  <2>1. f = KernelEntry
    <3>1. f \in FileEntries /\ f.first = c
      BY <1>4
    <3> QED  BY <1>4, <3>1, FilesAssumption
  <2>2. c \in {e.first : e \in FileEntries}
    BY <1>4
  <2>3. Content[c] = [i \in 1 .. f.size |-> <<SectorOf(c, i - 1), (i - 1) % SectorSize>>]
    BY <2>2 DEF Content
  <2> QED  BY <2>1, <2>3
<1> QED  BY <1>1, <1>2, <1>4, <1>6, <1>7, <1>8, <1>9

\* One entry further on in the root.
LEMMA NextEntry ==
  ASSUME NEW j \in 0 .. RootEntries - 1
  PROVE  /\ j * EntrySize \in Nat /\ (j + 1) * EntrySize = j * EntrySize + EntrySize
         /\ (j + 1) * EntrySize <= RootSize
         /\ RootByte(j) \in 0 .. SectorSize - EntrySize
         /\ RootSector(j) \in RootLba .. DataLba - 1
         /\ j + 1 < RootEntries =>
              (j + 1) * EntrySize < RootSize /\ RootSector(j + 1) \in RootLba .. DataLba - 1
         /\ RootByte(j) + EntrySize < SectorSize => RootSector(j + 1) = RootSector(j)
         /\ RootByte(j) + EntrySize = SectorSize => RootSector(j + 1) = RootSector(j) + 1
<1>1. SectorSize \in Nat \ {0} /\ EntrySize \in Nat \ {0} /\ RootEntries \in Nat \ {0}
      /\ RootLba \in Nat /\ RootSectors \in Nat /\ DataLba = RootLba + RootSectors
  BY VolumeAssumption, RootFits
<1>2. j * EntrySize \in Nat /\ (j + 1) * EntrySize = j * EntrySize + EntrySize
  BY <1>1
<1>3. j + 1 <= RootEntries /\ j + 1 \in Nat
  BY <1>1
<1>4. (j + 1) * EntrySize <= RootSize /\ (j + 1 < RootEntries => (j + 1) * EntrySize < RootSize)
  <2>1. (j + 1) * EntrySize <= RootEntries * EntrySize
    BY <1>1, <1>3
  <2>2. j + 1 < RootEntries => (j + 1) * EntrySize < RootEntries * EntrySize
    BY <1>1, <1>3
  <2> QED  BY <2>1, <2>2 DEF RootSize
<1>5. RootSector(j) \in RootLba .. DataLba - 1
  <2>1. (j * EntrySize) \div SectorSize \in 0 .. RootSectors - 1
    BY RootPlace
  <2> QED  BY <1>1, <2>1 DEF RootSector
<1>6. j + 1 < RootEntries => RootSector(j + 1) \in RootLba .. DataLba - 1
  <2> SUFFICES ASSUME j + 1 < RootEntries PROVE RootSector(j + 1) \in RootLba .. DataLba - 1
    OBVIOUS
  <2>1. j + 1 \in 0 .. RootEntries - 1
    BY <1>1
  <2>2. ((j + 1) * EntrySize) \div SectorSize \in 0 .. RootSectors - 1
    BY <2>1, RootPlace
  <2> QED  BY <1>1, <2>2 DEF RootSector
<1>7. /\ RootByte(j) \in Nat /\ RootByte(j) + EntrySize <= SectorSize
      /\ (j * EntrySize) \div SectorSize \in Nat
  BY EntriesTile, <1>1 DEF RootByte
<1>8. RootByte(j) + EntrySize < SectorSize => RootSector(j + 1) = RootSector(j)
  <2> SUFFICES ASSUME RootByte(j) + EntrySize < SectorSize PROVE RootSector(j + 1) = RootSector(j)
    OBVIOUS
  <2>1. (j * EntrySize + EntrySize) \div SectorSize = (j * EntrySize) \div SectorSize
    BY <1>1, <1>2, WithinSector DEF RootByte
  <2> QED  BY <1>2, <2>1 DEF RootSector
<1>9. RootByte(j) + EntrySize = SectorSize => RootSector(j + 1) = RootSector(j) + 1
  <2> SUFFICES ASSUME RootByte(j) + EntrySize = SectorSize PROVE RootSector(j + 1) = RootSector(j) + 1
    OBVIOUS
  <2> DEFINE q == (j * EntrySize) \div SectorSize
  <2>1. j * EntrySize + (SectorSize - RootByte(j)) = SectorSize * (q + 1) /\ q \in Nat
    BY <1>2, ToBoundary DEF RootByte
  <2>2. (j + 1) * EntrySize = SectorSize * (q + 1)
    BY <1>1, <1>2, <1>7, <2>1
  <2>3. (SectorSize * (q + 1)) \div SectorSize = q + 1
    <3>1. q + 1 \in Nat
      BY <2>1
    <3> QED  BY <3>1, AtStart
  <2>4. RootSector(j + 1) = RootLba + (q + 1)
    BY <2>2, <2>3 DEF RootSector
  <2> QED  BY <1>1, <2>1, <2>4 DEF RootSector
<1> QED  BY <1>1, <1>2, <1>4, <1>5, <1>6, <1>7, <1>8, <1>9

------------------------------------------------------------------------------
(* Stage 2: what is known at each place. *)

NoneOpen == \A h \in Handles : ~fd[h].opened

Reads(what, where) == pc = "disk" /\ io = what /\ lba = where

\* The root directory is at byte p, its reader in sector s.
RootIs(p, s) ==
  fd[Root].isDir = TRUE /\ fd[Root].pos = p /\ fd[Root].size = RootSize /\ fd[Root].cluster = s

\* The next entry it gives is entry j.
RootReady(j) == RootIs(j * EntrySize, RootSector(j)) /\ fd[Root].buf = RootSector(j)

Fresh == st \in {"off", "disk", "fat"} /\ pc = "idle" /\ NoneOpen

Initialising ==
  /\ st = "fatWait" /\ NoneOpen
  /\ \/ Reads("boot", 0) \/ pc = "checkBoot" \/ Reads("fat", 1) \/ pc = "openRoot"
     \/ Reads("root", RootLba) /\ cur = Root /\ RootIs(0, RootLba)
     \/ pc = "rootRead" /\ RootReady(0)
     \/ pc = "idle" /\ (answer.ok => RootReady(0))

Ready == st \in {"map", "open"} /\ pc = "idle" /\ NoneOpen /\ RootReady(0)

\* Entry j was copied; the reader goes on to the next one.
EntryGot(j) ==
  /\ left = 0 /\ Len(got) = EntrySize /\ got[1] = <<RootSector(j), RootByte(j)>>
  /\ \/ /\ pc = "boundary" /\ RootByte(j) + EntrySize = SectorSize
        /\ RootIs((j + 1) * EntrySize, RootSector(j))
     \/ /\ Reads("read", RootSector(j + 1)) /\ RootSector(j + 1) \in RootLba + 1 .. DataLba - 1
        /\ RootIs((j + 1) * EntrySize, RootSector(j + 1))
     \/ pc \in {"loop", "done"} /\ (j < KernelIndex => RootReady(j + 1))

Searching ==
  /\ st = "openWait" /\ op = "open" /\ NoneOpen /\ cur = Root /\ path = Kernel
  /\ \E j \in 0 .. KernelIndex :
       \/ pc = "find" /\ RootReady(j)
       \/ pc = "loop" /\ left = EntrySize /\ got = <<>> /\ RootReady(j)
       \/ EntryGot(j)

\* The clusters of the kernel, a handle that stands for it, and one at its start.
KernelFirst   == KernelEntry.first
KernelSectors == 0 .. SectorsIn(KernelFirst) - 1
KernelFile(h) ==
  h \in Handles /\ fd[h].isDir = FALSE /\ fd[h].first = KernelFirst /\ fd[h].size = KernelEntry.size
KernelStart(h) ==
  KernelFile(h) /\ fd[h].pos = 0 /\ fd[h].cluster = KernelFirst /\ fd[h].sec = 0

Opening ==
  /\ st = "openWait" /\ path = <<>>
  /\ \/ Reads("open", SectorNo(KernelFirst, 0)) /\ KernelStart(cur)
     \/ pc = "opened" /\ KernelStart(cur) /\ fd[cur].buf = SectorNo(KernelFirst, 0)
     \/ pc = "openNull"
     \/ /\ pc = "idle"
        /\ answer.file # Null =>
             KernelStart(answer.file) /\ fd[answer.file].buf = SectorNo(KernelFirst, 0)

\* The first n bytes of the kernel.
KernelBytes(n) == [i \in 1 .. n |-> <<SectorOf(KernelFirst, i - 1), (i - 1) % SectorSize>>]

\* A length of which an int takes the low half: it is copied byte by byte.
Copying ==
  /\ count \in Nat /\ left \in Nat /\ left < W16 \div 2 /\ count + left <= KernelEntry.size
  /\ fd[cur].pos = count /\ got = KernelBytes(count)
  /\ \/ /\ pc = "loop"
        /\ left > 0 => /\ AtSector(fd[cur], count \div SectorSize)
                       /\ fd[cur].buf = SectorNo(KernelFirst, count \div SectorSize)
     \/ /\ pc = "boundary"
        /\ \E q \in KernelSectors : count = SectorSize * (q + 1) /\ AtSector(fd[cur], q)
     \/ \E q \in KernelSectors :
          Reads("read", SectorNo(KernelFirst, q)) /\ count = SectorSize * q /\ AtSector(fd[cur], q)

\* A length an int takes for a negative one: what is copied is not the kernel,
\* and it has another length.
Wrapped ==
  /\ pc = "loop"
  /\ \/ /\ count = 0 /\ left \in W32 - W16 .. W32 - 1 /\ left % W16 >= W16 \div 2
        /\ fd[cur].pos = 0
     \/ left = 0 /\ count \in W32 - W16 .. W32 - 1

Reading ==
  /\ st = "readWait" /\ kernel = cur /\ asked = KernelEntry.size /\ KernelFile(cur)
  /\ \/ op = "read" /\ (Copying \/ Wrapped)
     \/ op = "read" /\ pc = "done" /\ (count = KernelEntry.size => got = KernelBytes(count))
     \/ /\ pc = "idle"
        /\ answer.count = KernelEntry.size => answer.data = KernelBytes(answer.count)

Left2 == st \in {"jump", "fail"} /\ pc = "idle" /\ KernelComplete

Inv2 ==
  FdOK /\ (Fresh \/ Initialising \/ Ready \/ Searching \/ Opening \/ Reading \/ Left2)

\* Which part of the program runs at each place.
LEMMA Step2Places ==
  ASSUME Step2
  PROVE  \/ /\ UNCHANGED <<st, cstartVars>>
            /\ \/ pc = "disk" /\ Disk
               \/ pc = "checkBoot" /\ (RefuseVolume \/ ReadFat)
               \/ pc = "openRoot" /\ OpenRoot
               \/ pc = "rootRead" /\ ResetHandles
               \/ pc = "loop" /\ (CopyChunk \/ LoopEnds)
               \/ pc = "boundary" /\ (NextRootSector \/ NextSector)
               \/ pc = "done" /\ (ReadReturns \/ CompareEntry)
               \/ pc = "find" /\ ReadEntry
               \/ pc = "opened" /\ Opened
               \/ pc = "openNull" /\ OpenFailed
         \/ st = "disk" /\ DiskInitialize
         \/ st = "fat" /\ pc = "idle" /\ StartFat
         \/ st = "fatWait" /\ pc = "idle" /\ FatReady
         \/ st = "map" /\ PrepareMemory
         \/ st = "open" /\ pc = "idle" /\ OpenKernel
         \/ st = "openWait" /\ pc = "idle" /\ ReadKernel
         \/ st = "readWait" /\ pc = "idle" /\ Leave
<1>1. CASE Step /\ UNCHANGED <<st, cstartVars>>
  <2>1. CASE Disk
    BY <1>1, <2>1 DEF Disk, DiskRead, DiskRetries, DiskFails
  <2>2. CASE Initialize
    BY <1>1, <2>2 DEF Initialize, RefuseVolume, ReadFat, OpenRoot, ResetHandles
  <2>3. CASE Loop
    BY <1>1, <2>3 DEF Loop, CopyChunk, NextRootSector, NextSector, LoopEnds
  <2>4. CASE ReadReturns
    BY <1>1, <2>4 DEF ReadReturns
  <2>5. CASE Search
    BY <1>1, <2>5 DEF Search, ReadEntry, CompareEntry, Opened, OpenFailed
  <2> QED  BY <1>1, <2>1, <2>2, <2>3, <2>4, <2>5 DEF Step
<1>2. CASE Cstart
  BY <1>2 DEF Cstart, DiskInitialize, StartFat, CallInitialize, FatReady, PrepareMemory,
              OpenKernel, CallOpen, ReadKernel, Leave
<1> QED  BY <1>1, <1>2 DEF Step2

\* A step of disk.c: the sector, another attempt, or the end of them.
LEMMA DiskStep ==
  ASSUME FdOK, pc = "disk", lba \in 0 .. Sectors - 1, Disk,
         Buffered => cur \in Handles \cup {Root}
  PROVE  /\ FdOK' /\ \A h \in Handles \cup {Root} : SameFile(fd[h], fd'[h])
         /\ UNCHANGED <<path, copied, io, lba>>
         /\ \/ /\ UNCHANGED <<op, cur, answer>>
               /\ Buffered => fd'[cur].buf = lba
               /\ io = "boot" => pc' = "checkBoot"
               /\ io = "fat"  => pc' = "openRoot"
               /\ io = "root" => pc' = "rootRead"
               /\ io = "open" => pc' = "opened"
               /\ io = "read" => pc' = "loop"
            \/ pc' = "disk" /\ UNCHANGED <<op, cur, answer>>
            \/ /\ lba \in Fatal
               /\ io \in {"boot", "fat", "root"} => pc' = "idle" /\ answer'.ok = FALSE
               /\ io = "open" => pc' = "openNull"
               /\ io = "read" => pc' = "done" /\ UNCHANGED <<op, cur, answer>>
<1>1. lba \in Nat
  BY VolumeAssumption
<1>2. /\ FdOK' /\ \A h \in Handles \cup {Root} : SameFile(fd[h], fd'[h])
      /\ UNCHANGED <<path, copied, io, lba>>
      /\ \/ /\ UNCHANGED <<op, cur, answer>>
            /\ Buffered => fd'[cur].buf = lba
            /\ io = "boot" => pc' = "checkBoot"
            /\ io = "fat"  => pc' = "openRoot"
            /\ io = "root" => pc' = "rootRead"
            /\ io = "open" => pc' = "opened"
            /\ io = "read" => pc' = "loop"
         \/ pc' = "disk" /\ UNCHANGED <<op, cur, answer>>
         \/ /\ lba \in Fatal
            /\ io \in {"boot", "fat", "root"} => Return([op |-> "initialized", ok |-> FALSE])
            /\ io = "open" => pc' = "openNull"
            /\ io = "read" => pc' = "done" /\ UNCHANGED <<op, cur, answer>>
  BY <1>1, DiskDoes
<1>3. Return([op |-> "initialized", ok |-> FALSE]) => pc' = "idle" /\ answer'.ok = FALSE
  <2>1. [op |-> "initialized", ok |-> FALSE].ok = FALSE
    BY Zenon
  <2> QED  BY <2>1 DEF Return
<1> QED  BY <1>2, <1>3

LEMMA RootAtZero ==
  /\ 0 * EntrySize = 0 /\ RootSector(0) = RootLba /\ RootSize \in Nat /\ RootLba \in Nat /\ RootLba > 1
  /\ \A x \in {0, 1, RootLba} : x \in 0 .. Sectors - 1
<1>1. SectorSize \in Nat \ {0} /\ EntrySize \in Nat \ {0} /\ RootLba \in Nat /\ RootLba > 1
      /\ Sectors \in Nat /\ DataLba < Sectors /\ RootSectors \in Nat \ {0}
      /\ DataLba = RootLba + RootSectors /\ RootSize \in Nat
  BY VolumeAssumption, RootFits
<1>2. 0 * EntrySize = 0 /\ 0 \div SectorSize = 0
  BY <1>1
<1> QED  BY <1>1, <1>2 DEF RootSector

LEMMA FreshInv == ASSUME FdOK, Fresh, Step2 \/ Entry PROVE Inv2'
<1>1. st \in {"off", "disk", "fat"} /\ pc = "idle" /\ NoneOpen
  BY DEF Fresh
<1>2. CASE Entry
  <2>1. st' = "disk" /\ UNCHANGED fatVars
    BY <1>2 DEF Entry
  <2> QED  BY <1>1, <2>1 DEF Inv2, FdOK, Fresh, NoneOpen, fatVars
<1>3. CASE DiskInitialize
  <2>1. st' \in {"fat", "fail"} /\ UNCHANGED fatVars
    BY <1>3 DEF DiskInitialize
  <2> QED  BY <1>1, <2>1 DEF Inv2, FdOK, Fresh, Left2, KernelComplete, NoneOpen, fatVars
<1>4. CASE StartFat
  <2>1. st' = "fatWait" /\ pc' = "disk" /\ io' = "boot" /\ lba' = 0 /\ fd' = fd
    BY <1>4 DEF StartFat, CallInitialize, StartDisk
  <2> QED  BY <1>1, <2>1 DEF Inv2, FdOK, Initialising, Reads, NoneOpen
<1> QED  BY <1>1, <1>2, <1>3, <1>4, Step2Places

LEMMA InitialisingInv == ASSUME FdOK, Initialising, Step2 PROVE Inv2'
<1>1. st = "fatWait" /\ NoneOpen
  BY DEF Initialising
<1>2. CASE pc = "disk"
  <2>1. io \in {"boot", "fat", "root"} /\ lba \in 0 .. Sectors - 1
        /\ (io = "root" => lba = RootLba /\ cur = Root /\ RootIs(0, RootLba))
        /\ (io = "boot" => lba = 0) /\ (io = "fat" => lba = 1)
    BY <1>2, RootAtZero DEF Initialising, Reads
  <2>2. Disk /\ st' = st
    BY <1>1, <1>2, Step2Places
  <2>3. Buffered => cur \in Handles \cup {Root}
    BY <2>1 DEF Buffered
  <2>4. FdOK' /\ NoneOpen'
    BY <1>1, <1>2, <2>1, <2>2, <2>3, DiskStep DEF NoneOpen, SameFile
  <2>5. io = "root" => RootIs(0, RootLba)'
    BY <1>2, <2>1, <2>2, <2>3, DiskStep DEF RootIs, SameFile
  <2>6. io = "root" /\ pc' = "rootRead" => RootReady(0)'
    <3>1. io = "root" /\ pc' = "rootRead" => fd'[Root].buf = RootLba
      BY <1>2, <2>1, <2>2, <2>3, DiskStep DEF Buffered
    <3> QED  BY <2>5, <3>1, RootAtZero DEF RootReady
  <2>7. UNCHANGED <<io, lba>> /\ (io = "root" /\ pc' = "disk" => cur' = cur)
        /\ \/ pc' = "disk"
           \/ pc' = "idle" /\ answer'.ok = FALSE
           \/ io = "boot" /\ pc' = "checkBoot"
           \/ io = "fat" /\ pc' = "openRoot"
           \/ io = "root" /\ pc' = "rootRead"
    BY <1>2, <2>1, <2>2, <2>3, DiskStep
  <2> QED  BY <1>1, <2>1, <2>2, <2>4, <2>5, <2>6, <2>7 DEF Inv2, Initialising, Reads
<1>3. CASE pc = "checkBoot"
  <2>1. st' = st /\ fd' = fd /\ (\/ pc' = "disk" /\ io' = "fat" /\ lba' = 1
                                 \/ pc' = "idle" /\ answer' = [op |-> "initialized", ok |-> FALSE])
    BY <1>1, <1>3, Step2Places DEF RefuseVolume, ReadFat, StartDisk, Return
  <2>2. [op |-> "initialized", ok |-> FALSE].ok = FALSE
    BY Zenon
  <2> QED  BY <1>1, <2>1, <2>2 DEF Inv2, FdOK, Initialising, Reads, NoneOpen
<1>4. CASE pc = "openRoot"
  <2>1. OpenRoot /\ st' = st
    BY <1>1, <1>4, Step2Places
  <2> DEFINE f == fd[Root]
             g == [f EXCEPT !.opened = TRUE, !.isDir = TRUE, !.pos = 0,
                     !.size = RootSize, !.first = RootLba, !.cluster = RootLba, !.sec = 0]
  <2>2. f \in FileState
    BY DEF FdOK
  <2>3. /\ g \in FileState /\ g.isDir = TRUE /\ g.pos = 0 /\ g.size = RootSize /\ g.cluster = RootLba
    BY <2>2, RootAtZero DEF FileState
  <2>4. fd' = [fd EXCEPT ![Root] = g]
    BY <2>1 DEF OpenRoot, FdOK
  <2> HIDE DEF g
  <2>5. FdOK' /\ NoneOpen' /\ RootIs(0, RootLba)'
    BY <1>1, <2>3, <2>4 DEF FdOK, NoneOpen, RootIs, Handles, Root
  <2>6. Reads("root", RootLba)' /\ cur' = Root
    BY <2>1 DEF OpenRoot, StartDisk, Reads
  <2> QED  BY <1>1, <2>1, <2>5, <2>6 DEF Inv2, Initialising
<1>5. CASE pc = "rootRead"
  <2>1. ResetHandles /\ st' = st /\ RootReady(0)
    BY <1>1, <1>5, Step2Places DEF Initialising, Reads
  <2>2. fd' = [h \in Handles \cup {Root} |-> IF h = Root THEN fd[h] ELSE [fd[h] EXCEPT !.opened = FALSE]]
    BY <2>1 DEF ResetHandles, FdOK
  <2>3. \A h \in Handles : fd'[h] = [fd[h] EXCEPT !.opened = FALSE]
    BY <2>2 DEF Handles, Root
  <2>4. fd'[Root] = fd[Root]
    BY <2>2
  <2>5. \A h \in Handles : fd'[h] \in FileState /\ ~fd'[h].opened
    <3> SUFFICES ASSUME NEW h \in Handles PROVE fd'[h] \in FileState /\ ~fd'[h].opened
      OBVIOUS
    <3>1. fd[h] \in FileState
      BY DEF FdOK
    <3> QED  BY <2>3, <3>1 DEF FileState
  <2>6. FdOK'
    BY <2>2, <2>4, <2>5 DEF FdOK
  <2>7. pc' = "idle" /\ RootReady(0)'
    BY <2>1, <2>4 DEF ResetHandles, Return, RootReady, RootIs
  <2> QED  BY <1>1, <2>1, <2>5, <2>6, <2>7 DEF Inv2, Initialising, NoneOpen
<1>6. CASE pc = "idle"
  <2>1. FatReady /\ (answer.ok => RootReady(0))
    BY <1>1, <1>6, Step2Places DEF Initialising, Reads
  <2>2. UNCHANGED fatVars /\ st' = IF answer.ok THEN "map" ELSE "fail"
    BY <2>1 DEF FatReady
  <2>3. CASE answer.ok
    BY <1>1, <1>6, <2>1, <2>2, <2>3
       DEF Inv2, FdOK, Ready, NoneOpen, RootReady, RootIs, fatVars
  <2>4. CASE ~answer.ok
    BY <1>6, <2>2, <2>4 DEF Inv2, FdOK, Left2, KernelComplete, fatVars
  <2> QED  BY <2>3, <2>4
<1> QED  BY <1>2, <1>3, <1>4, <1>5, <1>6 DEF Initialising, Reads

LEMMA ReadyInv == ASSUME FdOK, Ready, Step2 PROVE Inv2'
<1>1. st \in {"map", "open"} /\ pc = "idle" /\ NoneOpen /\ RootReady(0)
  BY DEF Ready
<1>2. CASE PrepareMemory
  <2>1. UNCHANGED fatVars /\ st' \in {"open", "fail"}
    BY <1>2 DEF PrepareMemory
  <2> QED  BY <1>1, <2>1
           DEF Inv2, FdOK, Ready, Left2, KernelComplete, NoneOpen, RootReady, RootIs, fatVars
<1>3. CASE OpenKernel
  <2>1. st' = "openWait" /\ op' = "open" /\ pc' = "find" /\ cur' = Root /\ path' = Kernel /\ fd' = fd
    BY <1>3 DEF OpenKernel, CallOpen
  <2>2. 0 \in 0 .. KernelIndex
    BY KernelFound, VolumeAssumption
  <2>3. FdOK' /\ NoneOpen' /\ RootReady(0)'
    BY <1>1, <2>1 DEF FdOK, NoneOpen, RootReady, RootIs
  <2> QED  BY <2>1, <2>2, <2>3 DEF Inv2, Searching
<1> QED  BY <1>1, <1>2, <1>3, Step2Places

\* The sizes the reader's integers hold.
LEMMA Widths ==
  /\ W16 \in Nat \ {0} /\ W32 \in Nat \ {0} /\ W16 <= W32 /\ W32 % W16 = 0
  /\ SectorSize \in Nat \ {0} /\ SectorSize < W16 \div 2 /\ W16 \div 2 \in Nat /\ W16 \div 2 <= W16
  /\ EntrySize \in Nat \ {0} /\ EntrySize <= SectorSize /\ RootSize < W32 /\ DataLba < W32
  /\ RootEntries \in Nat \ {0}
<1>1. W16 \in Nat \ {0} /\ W32 \in Nat \ {0} /\ W32 % W16 = 0
  BY DriveAssumption, VolumeAssumption, KernelAssumption
<1>2. W16 <= W32
  <2>1. W32 = W16 * (W32 \div W16) + 0 /\ W32 \div W16 \in Nat
    BY <1>1, DivMod
  <2>2. W32 \div W16 # 0
    BY <1>1, <2>1
  <2>3. W16 * (W32 \div W16) >= W16 * 1
    BY <1>1, <2>1, <2>2
  <2> QED  BY <1>1, <2>1, <2>3
<1>3. EntrySize <= SectorSize
  <2>1. RootByte(0) \in 0 .. SectorSize - EntrySize
    BY NextEntry, VolumeAssumption
  <2> QED  BY <2>1, VolumeAssumption
<1>4. SectorSize \in Nat \ {0} /\ SectorSize < W16 \div 2 /\ RootSize < W32 /\ DataLba < W32
      /\ EntrySize \in Nat \ {0} /\ RootEntries \in Nat \ {0}
  BY VolumeAssumption, DiskAssumption, RootFits
<1>5. W16 \div 2 \in Nat /\ W16 \div 2 <= W16
  BY <1>1
<1> QED  BY <1>1, <1>2, <1>3, <1>4, <1>5

\* The search, and what it is looking at.
SearchKept == st = "openWait" /\ op = "open" /\ NoneOpen /\ cur = Root /\ path = Kernel

\* An entry is copied from within a sector.
LEMMA CopyEntry ==
  ASSUME FdOK, SearchKept, NEW j \in 0 .. KernelIndex,
         pc = "loop", left = EntrySize, got = <<>>, RootReady(j), CopyChunk
  PROVE  FdOK' /\ NoneOpen' /\ EntryGot(j)'
<1>1. j \in 0 .. RootEntries - 1
  BY KernelFound, Widths
<1>2. /\ fd[Root].pos = j * EntrySize /\ fd[Root].size = RootSize /\ fd[Root].isDir = TRUE
      /\ fd[Root].cluster = RootSector(j) /\ fd[Root].buf = RootSector(j) /\ cur = Root
  BY DEF RootReady, RootIs, SearchKept
<1> DEFINE byte == RootByte(j)
           room == SectorSize - byte
           take == MinInt(EntrySize, room)
<1>3. byte \in Nat /\ byte + EntrySize <= SectorSize /\ room \in Nat
      /\ EntrySize <= room /\ room <= SectorSize /\ (EntrySize = room <=> byte + EntrySize = SectorSize)
  <2>1. RootByte(j) \in 0 .. SectorSize - EntrySize
    BY <1>1, NextEntry
  <2> HIDE DEF byte
  <2>2. byte \in 0 .. SectorSize - EntrySize
    BY <2>1 DEF byte
  <2> QED  BY <2>2, Widths
<1>4. (fd[Root].pos % SectorSize) = byte
  BY <1>2 DEF RootByte
<1> HIDE DEF byte
<1>5. take = EntrySize
  <2>1. EntrySize < W16 \div 2 /\ room < W16 \div 2
    BY <1>3, Widths
  <2>2. take = IF EntrySize < room THEN EntrySize ELSE room
    BY <1>3, <2>1, MinSmall, Widths
  <2> QED  BY <1>3, <2>2, Widths
<1> HIDE DEF take
<1>6. take % W16 = EntrySize /\ (left - take) % W32 = 0
  <2>1. EntrySize \in 0 .. W16 - 1 /\ left - take = 0 /\ 0 \in 0 .. W32 - 1
    BY <1>5, Widths
  <2> QED  BY <1>5, <2>1, SmallMod, Widths
<1>7. (j * EntrySize + take) % W32 = (j + 1) * EntrySize /\ (j + 1) * EntrySize \in Nat
  <2>1. /\ (j + 1) * EntrySize = j * EntrySize + EntrySize /\ (j + 1) * EntrySize <= RootSize
        /\ j * EntrySize \in Nat
    BY <1>1, NextEntry
  <2>2. (j + 1) * EntrySize \in 0 .. W32 - 1
    BY <2>1, RootFits, Widths
  <2> QED  BY <1>5, <2>1, <2>2, SmallMod, Widths
<1>8. /\ got' = got \o [i \in 1 .. take % W16 |-> <<fd[cur].buf, byte + i - 1>>]
      /\ fd' = [fd EXCEPT ![cur].pos = (@ + take) % W32]
      /\ left' = (left - take) % W32
      /\ pc' = IF take = room THEN "boundary" ELSE "loop"
  BY <1>2, <1>4 DEF CopyChunk, take
<1>9. left' = 0 /\ Len(got') = EntrySize /\ got'[1] = <<RootSector(j), byte>>
  <2> DEFINE chunk == BytesFrom(RootSector(j), byte, EntrySize)
             T     == {<<RootSector(j), byte + i - 1>> : i \in 1 .. EntrySize}
  <2>1. got' = <<>> \o chunk
    BY <1>2, <1>6, <1>8 DEF BytesFrom
  <2>2. 1 \in 1 .. EntrySize /\ byte + 1 - 1 = byte
    BY <1>3, Widths
  <2>3. chunk \in Seq(T) /\ Len(chunk) = EntrySize
    <3>1. \A i \in 1 .. EntrySize : <<RootSector(j), byte + i - 1>> \in T
      OBVIOUS
    <3>2. EntrySize \in Nat
      BY Widths
    <3> HIDE DEF T
    <3> QED  BY <3>1, <3>2, BytesSeq
  <2>4. chunk[1] = <<RootSector(j), byte>>
    BY <2>2 DEF BytesFrom
  <2> HIDE DEF chunk, T
  <2>5. got' = chunk
    BY <2>1, <2>3, ConcatEmptySeq
  <2> QED  BY <1>6, <1>8, <2>3, <2>4, <2>5
<1> DEFINE f == fd[Root]
           g == [f EXCEPT !.pos = (j + 1) * EntrySize]
<1>10. fd' = [fd EXCEPT ![Root] = g]
  BY <1>2, <1>7, <1>8 DEF FdOK
<1>11. f \in FileState
  BY DEF FdOK
<1>12. g \in FileState /\ g.isDir = f.isDir /\ g.pos = (j + 1) * EntrySize /\ g.size = f.size
       /\ g.cluster = f.cluster /\ g.buf = f.buf
  BY <1>7, <1>11 DEF FileState
<1> HIDE DEF f, g
<1>13. FdOK' /\ NoneOpen' /\ fd'[Root] = g
  BY <1>10, <1>12 DEF FdOK, NoneOpen, SearchKept, Handles, Root
<1>14. RootIs((j + 1) * EntrySize, RootSector(j))' /\ fd'[Root].buf = RootSector(j)
  BY <1>2, <1>12, <1>13 DEF RootIs, f
<1>15. CASE take = room
  BY <1>3, <1>5, <1>8, <1>9, <1>13, <1>14, <1>15 DEF EntryGot, byte
<1>16. CASE take # room
  <2>1. RootSector(j + 1) = RootSector(j)
    <3>1. RootByte(j) + EntrySize < SectorSize
      BY <1>3, <1>5, <1>16, Widths DEF byte
    <3> QED  BY <1>1, <3>1, NextEntry
  <2>2. pc' = "loop" /\ RootReady(j + 1)'
    BY <1>8, <1>14, <1>16, <2>1 DEF RootReady
  <2> QED  BY <1>9, <1>13, <2>2 DEF EntryGot, byte
<1> QED  BY <1>15, <1>16

\* The reader goes on to the next sector of the root (fat.c:217-228).
LEMMA NextRootEntry ==
  ASSUME FdOK, SearchKept, NEW j \in 0 .. KernelIndex, EntryGot(j), pc = "boundary", NextRootSector
  PROVE  FdOK' /\ NoneOpen' /\ EntryGot(j)'
<1>1. j \in 0 .. RootEntries - 1 /\ (j < KernelIndex => j + 1 < RootEntries)
  BY KernelFound, Widths
<1>2. /\ RootByte(j) + EntrySize = SectorSize
      /\ fd[Root].pos = (j + 1) * EntrySize /\ fd[Root].size = RootSize /\ fd[Root].isDir = TRUE
      /\ fd[Root].cluster = RootSector(j)
      /\ left = 0 /\ Len(got) = EntrySize /\ got[1] = <<RootSector(j), RootByte(j)>>
      /\ UNCHANGED <<left, got>>
  BY DEF EntryGot, Reads, RootIs, NextRootSector, copied
<1>3. CASE fd[Root].pos >= fd[Root].size
  <2>1. pc' = "done" /\ fd' = fd
    BY <1>3 DEF NextRootSector
  <2>2. ~(j < KernelIndex)
    <3> SUFFICES ASSUME j + 1 < RootEntries PROVE FALSE
      BY <1>1
    <3>1. (j + 1) * EntrySize < RootSize
      BY <1>1, NextEntry
    <3>2. (j + 1) * EntrySize \in Nat
      BY <1>1, Widths
    <3> QED  BY <1>2, <1>3, <3>1, <3>2, RootFits
  <2> QED  BY <1>2, <2>1, <2>2 DEF EntryGot, FdOK, NoneOpen, SearchKept
<1>4. CASE ~(fd[Root].pos >= fd[Root].size)
  <2> DEFINE next == (RootSector(j) + 1) % W32
             f == fd[Root]
             g == [f EXCEPT !.cluster = next]
  <2>1. fd' = [fd EXCEPT ![Root].cluster = (@ + 1) % W32]
        /\ pc' = "disk" /\ io' = "read" /\ lba' = fd'[Root].cluster
    BY <1>4 DEF NextRootSector, StartDisk
  <2>2. RootSector(j + 1) = RootSector(j) + 1
    BY <1>1, <1>2, NextEntry
  <2>3. j + 1 < RootEntries
    <3> SUFFICES ASSUME j + 1 = RootEntries PROVE FALSE
      BY <1>1, Widths
    <3>1. (j + 1) * EntrySize = RootSize
      BY DEF RootSize
    <3> QED  BY <1>2, <1>4, <3>1, RootFits
  <2>4. RootSector(j + 1) \in RootLba + 1 .. DataLba - 1 /\ next = RootSector(j + 1)
    <3>1. RootSector(j) \in RootLba .. DataLba - 1 /\ RootSector(j + 1) \in RootLba .. DataLba - 1
      BY <1>1, <2>3, NextEntry
    <3> DEFINE a == RootSector(j)
               b == RootSector(j + 1)
    <3>2. a \in RootLba .. DataLba - 1 /\ b \in RootLba .. DataLba - 1 /\ b = a + 1
      BY <2>2, <3>1
    <3> HIDE DEF a, b
    <3>3. b \in RootLba + 1 .. DataLba - 1 /\ b \in 0 .. W32 - 1 /\ a + 1 = b
      BY <3>2, RootAtZero, RootFits, Widths
    <3>4. (a + 1) % W32 = b
      BY <3>3, SmallMod, Widths
    <3> QED  BY <3>3, <3>4 DEF a, b
  <2>5. fd' = [fd EXCEPT ![Root] = g]
    BY <1>2, <2>1 DEF FdOK
  <2>6. f \in FileState
    BY DEF FdOK
  <2>7. next \in Nat
    BY <2>4, RootAtZero
  <2> HIDE DEF next
  <2>8. g \in FileState /\ g.isDir = f.isDir /\ g.pos = f.pos /\ g.size = f.size /\ g.cluster = next
    BY <2>6, <2>7 DEF FileState
  <2> HIDE DEF f, g
  <2>9. FdOK' /\ NoneOpen' /\ fd'[Root] = g
    BY <2>5, <2>8 DEF FdOK, NoneOpen, SearchKept, Handles, Root
  <2>10. RootIs((j + 1) * EntrySize, RootSector(j + 1))' /\ Reads("read", RootSector(j + 1))'
    <3>1. g.isDir = TRUE /\ g.pos = (j + 1) * EntrySize /\ g.size = RootSize
      BY <1>2, <2>8 DEF f
    <3> QED  BY <2>1, <2>4, <2>8, <2>9, <3>1 DEF RootIs, Reads
  <2> QED  BY <1>2, <2>4, <2>9, <2>10 DEF EntryGot
<1> QED  BY <1>3, <1>4

\* No sector of the root past the first one fails three times.
LEMMA RootSectorRead ==
  ASSUME FdOK, SearchKept, NEW j \in 0 .. KernelIndex, EntryGot(j), pc = "disk", Disk
  PROVE  FdOK' /\ NoneOpen' /\ UNCHANGED <<op, cur, path>> /\ EntryGot(j)'
<1>1. /\ io = "read" /\ lba = RootSector(j + 1) /\ RootSector(j + 1) \in RootLba + 1 .. DataLba - 1
      /\ RootIs((j + 1) * EntrySize, RootSector(j + 1))
      /\ left = 0 /\ Len(got) = EntrySize /\ got[1] = <<RootSector(j), RootByte(j)>>
  BY DEF EntryGot, Reads
<1>2. lba \in 0 .. Sectors - 1 /\ lba \notin Fatal
  <2>1. DataLba < Sectors /\ Sectors \in Nat /\ DataLba \in Nat
    BY VolumeAssumption, RootFits
  <2> QED  BY <1>1, <2>1, KernelAssumption, RootAtZero
<1>3. cur = Root /\ (Buffered => cur \in Handles \cup {Root}) /\ Buffered
  BY <1>1 DEF SearchKept, Buffered
<1>4. /\ FdOK' /\ UNCHANGED <<path, copied, io, lba, op, cur>>
      /\ \A h \in Handles \cup {Root} : SameFile(fd[h], fd'[h])
      /\ (pc' = "loop" /\ fd'[Root].buf = lba) \/ pc' = "disk"
  BY <1>1, <1>2, <1>3, DiskStep
<1>5. NoneOpen' /\ RootIs((j + 1) * EntrySize, RootSector(j + 1))'
  BY <1>1, <1>4 DEF NoneOpen, SearchKept, RootIs, SameFile
<1>6. CASE pc' = "loop" /\ fd'[Root].buf = lba
  BY <1>1, <1>4, <1>5, <1>6 DEF EntryGot, RootReady, copied
<1>7. CASE pc' = "disk"
  BY <1>1, <1>4, <1>5, <1>7 DEF EntryGot, Reads, copied
<1> QED  BY <1>4, <1>5, <1>6, <1>7

\* The kernel's chain has a first sector.
LEMMA KernelSectorsFrom0 ==
  /\ KernelFirst \in DOMAIN Chain /\ SectorsIn(KernelFirst) \in Nat /\ 0 \in KernelSectors
  /\ SectorsPerCluster \in Nat \ {0} /\ 0 \div SectorsPerCluster = 0 /\ 0 % SectorsPerCluster = 0
  /\ KernelFirst = Chain[KernelFirst][1]
  /\ KernelFirst \in Nat
<1>1. KernelFirst \in DOMAIN Chain /\ SectorsPerCluster \in Nat \ {0}
  BY KernelFound, VolumeAssumption DEF KernelFirst
<1>2. Chain[KernelFirst] \in Seq(2 .. EOC - 1) /\ Chain[KernelFirst] # <<>>
      /\ Chain[KernelFirst][1] = KernelFirst
  BY <1>1, ChainAssumption
<1>3. Len(Chain[KernelFirst]) \in Nat \ {0}
  BY <1>2, EmptySeq
<1>4. SectorsIn(KernelFirst) \in Nat \ {0}
  BY <1>1, <1>3 DEF SectorsIn
<1>5. KernelFirst \in Nat
  <2>1. Chain[KernelFirst][1] \in Nat
    BY <1>1, <1>3, ChainLinks
  <2> QED  BY <1>2, <2>1
<1> QED  BY <1>1, <1>2, <1>4, <1>5 DEF KernelSectors

\* The entry is compared: the kernel's is opened, any other is passed over.
LEMMA KernelCompared ==
  ASSUME FdOK, SearchKept, NEW j \in 0 .. KernelIndex, EntryGot(j), pc = "done", CompareEntry, st' = st
  PROVE  Inv2'
<1>1. Len(got) = EntrySize /\ got[1] = <<RootSector(j), RootByte(j)>>
      /\ (j < KernelIndex => RootReady(j + 1)) /\ cur = Root /\ path = Kernel /\ NoneOpen
      /\ j \in 0 .. RootEntries - 1
  BY KernelFound, Widths DEF EntryGot, Reads, SearchKept
<1> DEFINE e == EntryAt(got[1])
<1>2. e \in Entries \cup {NoEntry} /\ e = RootEntry(j)
  <2>1. RootByte(j) \in 0 .. SectorSize - EntrySize
    BY <1>1, NextEntry
  <2>2. RootByte(j) \in 0 .. SectorSize - 1
    BY <2>1, Widths
  <2> QED  BY <1>1, <2>2, EntryIsThere DEF RootEntry, RootSector, RootByte
<1>3. Head(path) = Kernel[1] /\ Len(path) = 1 /\ Tail(path) = <<>>
  <2>1. Head(<<Kernel[1]>>) = Kernel[1] /\ Len(<<Kernel[1]>>) = 1 /\ Tail(<<Kernel[1]>>) = <<>>
    OBVIOUS
  <2> QED  BY <1>1, <2>1, KernelAssumption
<1> HIDE DEF e
<1>4. CASE e.name # Kernel[1]
  <2>1. pc' = "find" /\ UNCHANGED <<fd, op, cur, path>>
    BY <1>1, <1>3, <1>4 DEF CompareEntry, e
  <2>2. j # KernelIndex
    BY <1>2, <1>4, KernelFound
  <2>3. j + 1 \in 0 .. KernelIndex /\ RootReady(j + 1)
    BY <1>1, <2>2, KernelFound, Widths
  <2>4. FdOK' /\ NoneOpen' /\ RootReady(j + 1)'
    BY <1>1, <2>1, <2>3 DEF FdOK, NoneOpen, RootReady, RootIs
  <2> QED  BY <2>1, <2>3, <2>4 DEF Inv2, Searching, SearchKept
<1>5. CASE e.name = Kernel[1]
  <2>1. e = KernelEntry /\ e.dir = FALSE
    BY <1>2, <1>5, KernelFound
  <2>2. OpenEntry(e, Close(cur)) /\ path' = Tail(path)
    BY <1>1, <1>3, <1>5 DEF CompareEntry, e
  <2>3. path' = <<>>
    BY <1>3, <2>2
  <2> DEFINE files == Close(cur)
             rewound == Rewound(fd[Root])
  <2>4. fd[Root] \in FileState
    BY DEF FdOK
  <2>5. rewound \in FileState
    BY <2>4 DEF FileState, Rewound
  <2>6. files = [fd EXCEPT ![Root] = rewound]
    BY <1>1 DEF Close, FdOK
  <2> HIDE DEF rewound
  <2>7. files \in [Handles \cup {Root} -> FileState] /\ \A h \in Handles : ~files[h].opened
    BY <1>1, <2>5, <2>6 DEF FdOK, NoneOpen, Handles, Root
  <2> HIDE DEF files
  <2> DEFINE h == CHOOSE i \in Free(files) : \A k \in Free(files) : i <= k
  <2>8. Free(files) = Handles
    BY <2>7 DEF Free
  <2>9. h \in Handles
    <3>1. 0 \in Handles /\ \A k \in Handles : 0 <= k
      BY DiskAssumption DEF Handles
    <3>2. \E i \in Free(files) : \A k \in Free(files) : i <= k
      BY <2>8, <3>1
    <3> QED  BY <2>8, <3>2
  <2>10. Free(files) # {}
    BY <2>8, <2>9
  <2> HIDE DEF h
  <2> DEFINE f == files[h]
             g == [f EXCEPT !.isDir = e.dir, !.pos = 0, !.size = e.size, !.first = e.first,
                            !.cluster = e.first, !.sec = 0]
  <2>11. /\ fd' = [files EXCEPT ![h] = [@ EXCEPT !.isDir = e.dir, !.pos = 0, !.size = e.size,
                     !.first = e.first, !.cluster = e.first, !.sec = 0]]
         /\ cur' = h /\ pc' = "disk" /\ io' = "open" /\ lba' = ClusterToLba(e.first)
    BY <2>2, <2>10 DEF OpenEntry, StartDisk, files, h
  <2>12. fd' = [files EXCEPT ![h] = g]
    BY <2>7, <2>9, <2>11
  <2>13. f \in FileState
    BY <2>7, <2>9
  <2>14. e.first \in Nat /\ e.size \in Nat
    <3>1. e \in Entries
      BY <2>1, KernelFound DEF FileEntries
    <3> QED  BY <3>1, VolumeAssumption
  <2>15. g \in FileState /\ g.isDir = FALSE /\ g.pos = 0 /\ g.size = e.size /\ g.first = e.first
         /\ g.cluster = e.first /\ g.sec = 0
    BY <2>1, <2>13, <2>14 DEF FileState
  <2> HIDE DEF f, g
  <2>16. FdOK' /\ fd'[h] = g
    BY <2>7, <2>9, <2>12, <2>15 DEF FdOK
  <2>17. KernelStart(cur)'
    BY <2>1, <2>9, <2>11, <2>15, <2>16 DEF KernelStart, KernelFile, KernelFirst
  <2>18. ClusterToLba(KernelFirst) = SectorNo(KernelFirst, 0)
    BY KernelSectorsFrom0, SectorLba DEF KernelSectors
  <2>19. Reads("open", SectorNo(KernelFirst, 0))'
    BY <2>1, <2>11, <2>18 DEF Reads, KernelFirst
  <2> QED  BY <2>3, <2>16, <2>17, <2>19 DEF Inv2, Opening, SearchKept
<1> QED  BY <1>4, <1>5

LEMMA SearchingInv == ASSUME FdOK, Searching, Step2 PROVE Inv2'
<1>1. SearchKept
  BY DEF SearchKept, Searching
<1>2. PICK j \in 0 .. KernelIndex :
        \/ pc = "find" /\ RootReady(j)
        \/ pc = "loop" /\ left = EntrySize /\ got = <<>> /\ RootReady(j)
        \/ EntryGot(j)
  BY DEF Searching
<1>3. CASE pc = "find"
  <2>1. ReadEntry /\ st' = st /\ RootReady(j)
    BY <1>1, <1>2, <1>3, Step2Places DEF SearchKept, EntryGot, Reads
  <2>2. pc' = "loop" /\ got' = <<>> /\ left' = EntrySize /\ UNCHANGED <<fd, op, cur, path>>
    BY <1>1, <2>1 DEF ReadEntry, StartRead, RootReady, RootIs, SearchKept
  <2>3. FdOK' /\ NoneOpen' /\ RootReady(j)'
    BY <1>1, <2>1, <2>2 DEF FdOK, NoneOpen, RootReady, RootIs, SearchKept
  <2> QED  BY <1>1, <2>1, <2>2, <2>3 DEF Inv2, Searching, SearchKept
<1>4. CASE pc = "loop" /\ left # 0
  <2>1. left = EntrySize /\ got = <<>> /\ RootReady(j)
    BY <1>2, <1>4 DEF EntryGot, Reads
  <2>2. CopyChunk /\ st' = st
    BY <1>1, <1>4, Step2Places DEF SearchKept, LoopEnds
  <2>3. FdOK' /\ NoneOpen' /\ EntryGot(j)'
    BY <1>1, <1>4, <2>1, <2>2, CopyEntry
  <2>4. UNCHANGED <<op, cur, path>>
    BY <2>2 DEF CopyChunk
  <2> QED  BY <1>1, <2>2, <2>3, <2>4 DEF Inv2, Searching, SearchKept
<1>5. CASE EntryGot(j) /\ pc = "loop" /\ left = 0
  <2>1. LoopEnds /\ st' = st
    <3>1. ~CopyChunk
      BY <1>5 DEF CopyChunk
    <3> QED  BY <1>1, <1>5, <3>1, Step2Places DEF SearchKept
  <2>2. pc' = "done" /\ UNCHANGED <<fd, op, cur, path, copied>>
    BY <2>1 DEF LoopEnds
  <2>3. FdOK' /\ NoneOpen' /\ EntryGot(j)'
    BY <1>1, <1>5, <2>2
       DEF FdOK, NoneOpen, EntryGot, Reads, RootReady, RootIs, SearchKept, copied
  <2> QED  BY <1>1, <2>1, <2>2, <2>3 DEF Inv2, Searching, SearchKept
<1>6. CASE EntryGot(j) /\ pc = "boundary"
  <2>1. NextRootSector /\ st' = st
    <3>1. ~NextSector
      BY <1>1 DEF NextSector, SearchKept
    <3> QED  BY <1>1, <1>6, <3>1, Step2Places DEF SearchKept
  <2>2. FdOK' /\ NoneOpen' /\ EntryGot(j)'
    BY <1>1, <1>6, <2>1, NextRootEntry
  <2>3. UNCHANGED <<op, cur, path>>
    BY <2>1 DEF NextRootSector
  <2> QED  BY <1>1, <2>1, <2>2, <2>3 DEF Inv2, Searching, SearchKept
<1>7. CASE EntryGot(j) /\ pc = "disk"
  <2>1. Disk /\ st' = st
    BY <1>1, <1>7, Step2Places DEF SearchKept
  <2>2. FdOK' /\ NoneOpen' /\ UNCHANGED <<op, cur, path>> /\ EntryGot(j)'
    BY <1>1, <1>7, <2>1, RootSectorRead
  <2> QED  BY <1>1, <2>1, <2>2 DEF Inv2, Searching, SearchKept
<1>8. CASE EntryGot(j) /\ pc = "done"
  <2>1. CompareEntry /\ st' = st
    <3>1. ~ReadReturns
      BY <1>1 DEF ReadReturns, SearchKept
    <3> QED  BY <1>1, <1>8, <3>1, Step2Places DEF SearchKept
  <2> QED  BY <1>1, <1>8, <2>1, KernelCompared
<1>9. left # 0 \/ ~(pc = "loop" /\ left = EntrySize)
  BY Widths
<1> QED  BY <1>2, <1>3, <1>4, <1>5, <1>6, <1>7, <1>8, <1>9 DEF EntryGot, Reads

------------------------------------------------------------------------------
(* cstart: the kernel is opened and read in one go. *)

\* A negative int, as a uint32_t.
LEMMA NegMod ==
  ASSUME NEW b \in Nat \ {0}, NEW a \in 0 .. b - 1
  PROVE  (a - b) % b = a
<1>1. a - b \in Int /\ a - b = b * (-1) + a
  OBVIOUS
<1> QED  BY <1>1

\* A length whose low half is no int comes back near the top of a uint32_t.
LEMMA TopOfWord ==
  ASSUME NEW x \in W16 \div 2 .. W16 - 1
  PROVE  LET top == W32 - W16 + x
         IN  /\ top \in W32 - W16 .. W32 - 1 /\ top \in Nat /\ top % W16 = x
             /\ (x - W16) % W32 = top /\ top > SectorSize
<1> DEFINE top == W32 - W16 + x
<1>1. top \in W32 - W16 .. W32 - 1 /\ top \in 0 .. W32 - 1 /\ x \in 0 .. W16 - 1 /\ top > SectorSize
  BY Widths
<1>2. top % W16 = x
  <2>1. W32 = W16 * (W32 \div W16) + 0 /\ W32 \div W16 \in Nat
    BY DivMod, Widths
  <2> DEFINE k == W32 \div W16
  <2>2. W32 = W16 * k /\ k \in Nat
    BY <2>1, Widths
  <2> HIDE DEF k
  <2>3. k # 0
    BY <2>2, Widths
  <2>4. top = W16 * (k - 1) + x
    BY <1>1, <2>2, Widths
  <2>5. (W16 * (k - 1) + x) % W16 = x
    <3>1. k - 1 \in Nat
      BY <2>2, <2>3
    <3> QED  BY <1>1, <3>1, DivUnique, Widths
  <2> QED  BY <2>4, <2>5
<1>3. (x - W16) % W32 = top
  <2>1. (top - W32) % W32 = top
    BY <1>1, NegMod, Widths
  <2>2. top - W32 = x - W16
    BY <1>1, Widths
  <2> QED  BY <2>1, <2>2
<1> QED  BY <1>1, <1>2, <1>3

\* What the caller's byteCount becomes (fat.c:204): itself, or what a 16-bit int
\* makes of it.
LEMMA LengthAsked ==
  ASSUME NEW n \in Nat, n < W32 - W16
  PROVE  \/ MinInt(n, (n - 0) % W32) \in 0 .. n /\ MinInt(n, (n - 0) % W32) < W16 \div 2
         \/ /\ MinInt(n, (n - 0) % W32) \in W32 - W16 .. W32 - 1
            /\ MinInt(n, (n - 0) % W32) % W16 >= W16 \div 2
<1> DEFINE x == n % W16
<1>1. n \in 0 .. W32 - 1 /\ (n - 0) % W32 = n
  <2>1. n \in 0 .. W32 - 1 /\ n - 0 = n
    BY Widths
  <2> QED  BY <2>1, SmallMod, Widths
<1>2. n = W16 * (n \div W16) + x /\ n \div W16 \in Nat /\ x \in 0 .. W16 - 1
  BY DivMod, Widths
<1>3. x <= n
  <2>1. W16 * (n \div W16) \in Nat
    BY <1>2, Widths
  <2> QED  BY <1>2, <2>1, Widths
<1>4. MinInt(n, (n - 0) % W32) = (IF x < W16 \div 2 THEN x ELSE x - W16) % W32
  BY <1>1 DEF MinInt, ToInt
<1> HIDE DEF x
<1>5. CASE x < W16 \div 2
  <2>1. x \in 0 .. W32 - 1
    BY <1>2, Widths
  <2>2. x % W32 = x
    BY <2>1, SmallMod, Widths
  <2> QED  BY <1>2, <1>3, <1>4, <1>5, <2>2
<1>6. CASE ~(x < W16 \div 2)
  <2>1. x \in W16 \div 2 .. W16 - 1
    BY <1>2, <1>6, Widths
  <2>2. LET top == W32 - W16 + x
        IN  top \in W32 - W16 .. W32 - 1 /\ top % W16 = x /\ (x - W16) % W32 = top
    BY <2>1, TopOfWord
  <2> QED  BY <1>4, <1>6, <2>1, <2>2
<1> QED  BY <1>5, <1>6

LEMMA OpeningInv == ASSUME FdOK, Opening, Step2 PROVE Inv2'
<1>1. st = "openWait" /\ path = <<>>
  BY DEF Opening
<1>2. CASE pc = "disk"
  <2>1. io = "open" /\ lba = SectorNo(KernelFirst, 0) /\ KernelStart(cur) /\ cur \in Handles
    BY <1>2 DEF Opening, Reads, KernelStart, KernelFile
  <2>2. Disk /\ st' = st
    BY <1>1, <1>2, Step2Places
  <2>3. lba \in 0 .. Sectors - 1
    <3>1. SectorNo(KernelFirst, 0) \in DataLba .. Sectors - 1
      BY KernelSectorsFrom0, SectorLba DEF KernelSectors
    <3> QED  BY <2>1, <3>1, RootFits, RootAtZero
  <2>4. Buffered
    BY <2>1 DEF Buffered
  <2>5. /\ FdOK' /\ UNCHANGED <<path, io, lba>>
        /\ \A h \in Handles \cup {Root} : SameFile(fd[h], fd'[h])
        /\ \/ UNCHANGED cur /\ pc' = "opened" /\ fd'[cur].buf = lba
           \/ UNCHANGED cur /\ pc' = "disk"
           \/ pc' = "openNull"
    BY <1>2, <2>1, <2>2, <2>3, <2>4, DiskStep
  <2>6. cur' = cur => KernelStart(cur)'
    BY <2>1, <2>5 DEF KernelStart, KernelFile, SameFile
  <2> QED  BY <1>1, <2>1, <2>2, <2>5, <2>6 DEF Inv2, Opening, Reads
<1>3. CASE pc = "opened"
  <2>1. Opened /\ st' = st /\ KernelStart(cur) /\ fd[cur].buf = SectorNo(KernelFirst, 0) /\ cur \in Handles
    BY <1>1, <1>3, Step2Places DEF Opening, Reads, KernelStart, KernelFile
  <2> DEFINE f == fd[cur]
             g == [f EXCEPT !.opened = TRUE]
  <2>2. fd' = [fd EXCEPT ![cur] = g]
    BY <2>1 DEF Opened, FdOK
  <2>3. f \in FileState
    BY <2>1 DEF FdOK
  <2>4. g \in FileState /\ SameFile([f EXCEPT !.opened = g.opened], g) /\ g.buf = f.buf
        /\ g.isDir = f.isDir /\ g.pos = f.pos /\ g.size = f.size /\ g.first = f.first
        /\ g.cluster = f.cluster /\ g.sec = f.sec
    BY <2>3 DEF FileState, SameFile
  <2> HIDE DEF f, g
  <2>5. FdOK' /\ fd'[cur] = g
    BY <2>1, <2>2, <2>4 DEF FdOK
  <2>6. pc' = "idle" /\ answer'.file = cur /\ path' = path
    BY <1>1, <2>1 DEF Opened, Return
  <2>7. (KernelStart(cur) /\ fd[cur].buf = SectorNo(KernelFirst, 0)) => 
          g.isDir = FALSE /\ g.first = KernelFirst /\ g.size = KernelEntry.size /\ g.pos = 0
          /\ g.cluster = KernelFirst /\ g.sec = 0 /\ g.buf = SectorNo(KernelFirst, 0)
    BY <2>4 DEF KernelStart, KernelFile, f
  <2>8. KernelStart(answer.file)' /\ fd'[answer'.file].buf = SectorNo(KernelFirst, 0)
    BY <2>1, <2>5, <2>6, <2>7 DEF KernelStart, KernelFile
  <2> QED  BY <1>1, <2>1, <2>5, <2>6, <2>8 DEF Inv2, Opening
<1>4. CASE pc = "openNull"
  <2>1. OpenFailed /\ st' = st
    BY <1>1, <1>4, Step2Places
  <2>2. pc' = "idle" /\ answer'.file = Null /\ path' = path /\ fd' = fd
    BY <1>1, <2>1 DEF OpenFailed, Return
  <2> QED  BY <1>1, <2>1, <2>2 DEF Inv2, FdOK, Opening
<1>5. CASE pc = "idle"
  <2>1. ReadKernel
    BY <1>1, <1>5, Step2Places
  <2>2. CASE answer.file = Null
    <3>1. st' = "fail" /\ UNCHANGED fatVars
      BY <2>1, <2>2 DEF ReadKernel
    <3> QED  BY <1>5, <3>1 DEF Inv2, FdOK, Left2, KernelComplete, fatVars
  <2>3. CASE answer.file # Null
    <3> DEFINE h == answer.file
               size == KernelEntry.size
    <3>1. KernelStart(h) /\ h \in Handles /\ fd[h].buf = SectorNo(KernelFirst, 0)
          /\ fd[h].size = size /\ fd[h].pos = 0 /\ fd[h].isDir = FALSE
      BY <1>5, <2>3 DEF Opening, Reads, KernelStart, KernelFile
    <3>2. /\ kernel' = h /\ asked' = size /\ st' = "readWait" /\ op' = "read" /\ cur' = h
          /\ pc' = "loop" /\ got' = <<>> /\ count' = 0 /\ fd' = fd
          /\ left' = MinInt(size, (size - 0) % W32)
      BY <2>1, <2>3, <3>1 DEF ReadKernel, CallRead, StartRead
    <3>3. size \in Nat /\ size < W32 - W16
      BY KernelFound
    <3>4. KernelFile(cur)' /\ FdOK'
      BY <3>1, <3>2 DEF KernelStart, KernelFile, FdOK
    <3> HIDE DEF size
    <3>5. \/ left' \in 0 .. size /\ left' < W16 \div 2
          \/ left' \in W32 - W16 .. W32 - 1 /\ left' % W16 >= W16 \div 2
      BY <3>2, <3>3, LengthAsked
    <3>6. CASE left' \in 0 .. size /\ left' < W16 \div 2
      <4>1. 0 \div SectorSize = 0
        BY Widths
      <4>2. AtSector(fd[h], 0 \div SectorSize)
        BY <3>1, <4>1, KernelSectorsFrom0 DEF AtSector, KernelStart, KernelFile, KernelSectors
      <4>3. KernelBytes(0) = <<>>
        BY DEF KernelBytes
      <4>4. /\ count' \in Nat /\ left' \in Nat /\ left' < W16 \div 2 /\ count' + left' <= size
            /\ fd'[cur'].pos = count' /\ got' = KernelBytes(count')
            /\ AtSector(fd'[cur'], count' \div SectorSize)
            /\ fd'[cur'].buf = SectorNo(KernelFirst, count' \div SectorSize)
        BY <3>1, <3>2, <3>3, <3>6, <4>1, <4>2, <4>3
      <4>5. Copying'
        BY <3>2, <4>4 DEF Copying, size
      <4> QED  BY <3>2, <3>4, <4>5 DEF Inv2, Reading, size
    <3>7. CASE left' \in W32 - W16 .. W32 - 1 /\ left' % W16 >= W16 \div 2
      <4>1. Wrapped'
        BY <3>1, <3>2, <3>7 DEF Wrapped
      <4> QED  BY <3>2, <3>4, <4>1 DEF Inv2, Reading, size
    <3> QED  BY <3>5, <3>6, <3>7
  <2> QED  BY <2>2, <2>3
<1> QED  BY <1>2, <1>3, <1>4, <1>5 DEF Opening, Reads

\* The bytes of a sector go on where the kernel's bytes so far end.
LEMMA BytesAppend ==
  ASSUME NEW p \in Nat, NEW t \in Nat, (p % SectorSize) + t <= SectorSize
  PROVE  KernelBytes(p) \o BytesFrom(SectorNo(KernelFirst, p \div SectorSize), p % SectorSize, t)
           = KernelBytes(p + t)
<1>1. \A n \in Nat : KernelBytes(n) = FileBytes(KernelFirst, 0, n)
  <2> SUFFICES ASSUME NEW n \in Nat PROVE KernelBytes(n) = FileBytes(KernelFirst, 0, n)
    OBVIOUS
  <2>1. \A i \in 1 .. n : 0 + i - 1 = i - 1
    OBVIOUS
  <2> QED  BY <2>1 DEF KernelBytes, FileBytes
<1>2. 0 + p = p /\ p + t \in Nat /\ 0 \in Nat
  OBVIOUS
<1>3. FileBytes(KernelFirst, 0, p)
        \o BytesFrom(SectorNo(KernelFirst, (0 + p) \div SectorSize), (0 + p) % SectorSize, t)
        = FileBytes(KernelFirst, 0, p + t)
  BY <1>2, FileBytesAppend
<1> QED  BY <1>1, <1>2, <1>3

\* The read, and what it is reading.
ReadKept == st = "readWait" /\ kernel = cur /\ asked = KernelEntry.size /\ KernelFile(cur) /\ op = "read"

LEMMA CopyKernel ==
  ASSUME FdOK, ReadKept, Copying, pc = "loop", left > 0, CopyChunk
  PROVE  FdOK' /\ KernelFile(cur)' /\ Copying'
<1> DEFINE p == count
           size == KernelEntry.size
           f == fd[cur]
           q == p \div SectorSize
           r == p % SectorSize
           room == SectorSize - r
           take == MinInt(left, room)
<1>1. /\ p \in Nat /\ left \in Nat /\ left > 0 /\ left < W16 \div 2 /\ p + left <= size
      /\ f.pos = p /\ got = KernelBytes(p) /\ AtSector(f, q) /\ f.buf = SectorNo(KernelFirst, q)
  BY DEF Copying, Reads
<1>2. size \in Nat /\ size < W32 - W16
  BY KernelFound
<1>3. /\ p + room = SectorSize * (q + 1) /\ room \in 1 .. SectorSize /\ q \in Nat
      /\ r \in 0 .. SectorSize - 1
  BY <1>1, ToBoundary, DivMod, Widths
<1>4. cur \in Handles /\ cur # Root /\ f \in FileState /\ f.isDir = FALSE /\ f.first = KernelFirst
      /\ f.size = size
  BY DEF ReadKept, KernelFile, FdOK, Handles, Root
<1>5. /\ got' = got \o [i \in 1 .. take % W16 |-> <<f.buf, r + i - 1>>]
      /\ count' = (p + take) % W32
      /\ fd' = [fd EXCEPT ![cur].pos = (@ + take) % W32]
      /\ left' = (left - take) % W32
      /\ pc' = IF take = room THEN "boundary" ELSE "loop"
      /\ UNCHANGED <<op, cur>>
  BY <1>1 DEF CopyChunk
<1> HIDE DEF q, r, size, p
<1>6. /\ take = IF left < room THEN left ELSE room
      /\ take \in 1 .. left /\ take <= room
  <2>1. room \in Nat /\ room < W16 \div 2
    BY <1>3, Widths
  <2> HIDE DEF room
  <2>2. take = IF left < room THEN left ELSE room
    BY <1>1, <2>1, MinSmall, Widths
  <2> HIDE DEF take
  <2> QED  BY <1>1, <1>3, <2>1, <2>2 DEF room
<1> HIDE DEF take
<1>7. take % W16 = take /\ (p + take) % W32 = p + take /\ (left - take) % W32 = left - take
  <2>1. take \in 0 .. W16 - 1 /\ p + take \in 0 .. W32 - 1 /\ left - take \in 0 .. W32 - 1
    BY <1>1, <1>2, <1>6, Widths
  <2> QED  BY <2>1, SmallMod, Widths
<1>8. count' = p + take /\ left' = left - take /\ count' \in Nat /\ left' \in Nat
      /\ left' < W16 \div 2 /\ count' + left' <= size
  <2>1. count' = p + take /\ left' = left - take
    BY <1>5, <1>7
  <2>2. /\ p \in Nat /\ left \in Nat /\ left < W16 \div 2 /\ p + left <= size /\ take \in 1 .. left
        /\ size \in Nat /\ W16 \div 2 \in Nat
    BY <1>1, <1>2, <1>6, Widths
  <2>3. p + take \in Nat /\ left - take \in Nat /\ left - take < W16 \div 2
        /\ (p + take) + (left - take) <= size
    BY <2>2
  <2> QED  BY <2>1, <2>3
<1>9. got' = KernelBytes(count')
  <2>1. got' = KernelBytes(p) \o BytesFrom(SectorNo(KernelFirst, q), r, take)
    BY <1>1, <1>5, <1>7 DEF BytesFrom
  <2>2. take \in Nat /\ r + take <= SectorSize
    BY <1>3, <1>6, Widths
  <2>3. KernelBytes(p) \o BytesFrom(SectorNo(KernelFirst, q), r, take) = KernelBytes(p + take)
    BY <1>1, <2>2, BytesAppend DEF q, r
  <2> QED  BY <1>8, <2>1, <2>3
<1> DEFINE g == [f EXCEPT !.pos = p + take]
<1>10. fd' = [fd EXCEPT ![cur] = g]
  BY <1>1, <1>4, <1>5, <1>7 DEF FdOK
<1>11. p + take \in Nat
  BY <1>8
<1>12. g \in FileState /\ g.isDir = f.isDir /\ g.first = f.first /\ g.size = f.size
       /\ g.pos = p + take /\ g.cluster = f.cluster /\ g.sec = f.sec
  BY <1>4, <1>11 DEF FileState
<1> HIDE DEF f, g
<1>13. FdOK' /\ fd'[cur'] = g
  BY <1>4, <1>5, <1>10, <1>12 DEF FdOK
<1>14. KernelFile(cur)'
  BY <1>4, <1>5, <1>12, <1>13 DEF KernelFile, size
<1>15. AtSector(g, q) /\ q \in KernelSectors
  BY <1>1, <1>4, <1>12 DEF AtSector, KernelSectors
<1>16. CASE take = room
  <2>1. pc' = "boundary" /\ count' = SectorSize * (q + 1)
    BY <1>3, <1>5, <1>8, <1>16
  <2>2. pc' = "boundary" /\ \E k \in KernelSectors : count' = SectorSize * (k + 1) /\ AtSector(fd'[cur'], k)
    BY <1>13, <1>15, <2>1
  <2>3. fd'[cur'].pos = count'
    BY <1>8, <1>12, <1>13
  <2>4. Copying'
    BY <1>8, <1>9, <2>2, <2>3 DEF Copying, size
  <2> QED  BY <1>13, <1>14, <2>4
<1>17. CASE take # room
  <2>1. pc' = "loop" /\ left' = 0
    BY <1>1, <1>5, <1>6, <1>8, <1>17
  <2>2. fd'[cur'].pos = count'
    BY <1>8, <1>12, <1>13
  <2>3. Copying'
    BY <1>8, <1>9, <2>1, <2>2 DEF Copying, size
  <2> QED  BY <1>13, <1>14, <2>3
<1> QED  BY <1>16, <1>17

\* At the end of a sector the reader goes on to the next one of the chain; it
\* comes to the end of the chain only where the kernel ends (fat.c:230-250).
LEMMA NextKernelSector ==
  ASSUME FdOK, ReadKept, Copying, pc = "boundary", NextSector
  PROVE  /\ FdOK' /\ KernelFile(cur)'
         /\ Copying' \/ (pc' = "done" /\ got' = KernelBytes(count'))
<1> DEFINE p == count
           size == KernelEntry.size
           f == fd[cur]
<1>1. /\ p \in Nat /\ left \in Nat /\ left < W16 \div 2 /\ p + left <= size
      /\ f.pos = p /\ got = KernelBytes(p)
  BY DEF Copying
<1>2. PICK q \in KernelSectors : p = SectorSize * (q + 1) /\ AtSector(f, q)
  BY DEF Copying, Reads
<1>3. cur \in Handles /\ f \in FileState /\ f.isDir = FALSE /\ f.first = KernelFirst /\ f.size = size
  BY DEF ReadKept, KernelFile, FdOK
<1>4. size \in Nat /\ size <= SectorsIn(KernelFirst) * SectorSize
      /\ KernelFirst \in DOMAIN Chain /\ SectorsIn(KernelFirst) \in Nat /\ q \in Nat
      /\ q < SectorsIn(KernelFirst)
  BY KernelFound, KernelSectorsFrom0 DEF KernelFirst, KernelSectors
<1>5. PICK g \in StepOn(f) :
        IF g.cluster >= EOC
        THEN /\ fd' = [fd EXCEPT ![cur] = [g EXCEPT !.size = g.pos]]
             /\ pc' = "done"
        ELSE /\ fd' = [fd EXCEPT ![cur] = g]
             /\ pc' = "disk" /\ io' = "read" /\ lba' = (ClusterToLba(g.cluster) + g.sec) % W32
  BY DEF NextSector, StartDisk
<1>6. UNCHANGED <<cur, left, got, count>>
  BY DEF NextSector, copied
<1> HIDE DEF f, p, size
<1>7. /\ g \in FileState /\ g.isDir = FALSE /\ g.first = KernelFirst /\ g.size = size /\ g.pos = p
  BY <1>1, <1>3, StepOnState
<1>8. /\ q + 1 < SectorsIn(KernelFirst) => AtSector(g, q + 1) /\ g.cluster < EOC
      /\ q + 1 >= SectorsIn(KernelFirst) => g.cluster >= EOC
  BY <1>2, <1>3, <1>4, StepAlong
<1>9. CASE q + 1 < SectorsIn(KernelFirst)
  <2>1. ~(g.cluster >= EOC)
    BY <1>7, <1>8, <1>9 DEF FileState, EOC
  <2>2. fd' = [fd EXCEPT ![cur] = g] /\ pc' = "disk" /\ io' = "read"
        /\ lba' = (ClusterToLba(g.cluster) + g.sec) % W32
    BY <1>5, <2>1
  <2>3. FdOK' /\ fd'[cur'] = g
    BY <1>3, <1>6, <1>7, <2>2 DEF FdOK
  <2>4. q + 1 \in KernelSectors
    BY <1>4, <1>9 DEF KernelSectors
  <2>5. lba' = SectorNo(KernelFirst, q + 1)
    <3>1. /\ g.cluster = Chain[KernelFirst][(q + 1) \div SectorsPerCluster + 1]
          /\ g.sec = (q + 1) % SectorsPerCluster
      BY <1>7, <1>8, <1>9 DEF AtSector
    <3>2. (ClusterToLba(Chain[KernelFirst][(q + 1) \div SectorsPerCluster + 1])
             + ((q + 1) % SectorsPerCluster)) % W32 = SectorNo(KernelFirst, q + 1)
      BY <1>4, <2>4, SectorLba DEF KernelSectors
    <3> QED  BY <2>2, <3>1, <3>2
  <2>6. KernelFile(cur)'
    BY <1>3, <1>6, <1>7, <2>3 DEF KernelFile, size
  <2>7. /\ pc' = "disk" /\ io' = "read" /\ lba' = SectorNo(KernelFirst, q + 1)
        /\ count' = SectorSize * (q + 1) /\ AtSector(fd'[cur'], q + 1) /\ fd'[cur'].pos = count'
    BY <1>2, <1>6, <1>7, <1>8, <1>9, <2>2, <2>3, <2>5 DEF p
  <2>8. \E k \in KernelSectors :
          Reads("read", SectorNo(KernelFirst, k))' /\ count' = SectorSize * k /\ AtSector(fd'[cur'], k)
    BY <2>4, <2>7 DEF Reads
  <2>9. Copying'
    BY <1>1, <1>6, <2>7, <2>8 DEF Copying, p, size
  <2> QED  BY <2>3, <2>6, <2>9
<1>10. CASE q + 1 >= SectorsIn(KernelFirst)
  <2>1. q + 1 = SectorsIn(KernelFirst)
    BY <1>4, <1>10
  <2>2. p = size
    <3>1. SectorsIn(KernelFirst) * SectorSize = p
      BY <1>2, <1>4, <2>1, Widths
    <3> QED  BY <1>1, <1>4, <3>1
  <2> DEFINE k == [g EXCEPT !.size = g.pos]
  <2>3. fd' = [fd EXCEPT ![cur] = k] /\ pc' = "done"
    BY <1>5, <1>8, <1>10
  <2>4. k \in FileState /\ k.isDir = FALSE /\ k.first = KernelFirst /\ k.size = size
    BY <1>7, <2>2 DEF FileState
  <2> HIDE DEF k
  <2>5. FdOK' /\ fd'[cur'] = k
    BY <1>3, <1>6, <2>3, <2>4 DEF FdOK
  <2>6. KernelFile(cur)'
    BY <1>3, <1>6, <2>4, <2>5 DEF KernelFile, size
  <2> QED  BY <1>1, <1>6, <2>3, <2>5, <2>6 DEF p
<1> QED  BY <1>4, <1>9, <1>10

\* A sector of the kernel comes, or the read ends.
LEMMA KernelSectorRead ==
  ASSUME FdOK, ReadKept, Copying, pc = "disk", Disk
  PROVE  /\ FdOK' /\ KernelFile(cur)' /\ UNCHANGED <<op, cur>>
         /\ Copying' \/ (pc' = "done" /\ got' = KernelBytes(count'))
<1>1. PICK q \in KernelSectors :
        /\ io = "read" /\ lba = SectorNo(KernelFirst, q) /\ count = SectorSize * q
        /\ AtSector(fd[cur], q)
  BY DEF Copying, Reads
<1>2. /\ count \in Nat /\ left \in Nat /\ left < W16 \div 2 /\ count + left <= KernelEntry.size
      /\ fd[cur].pos = count /\ got = KernelBytes(count)
  BY DEF Copying
<1>3. lba \in 0 .. Sectors - 1
  <2>1. SectorNo(KernelFirst, q) \in DataLba .. Sectors - 1
    BY KernelSectorsFrom0, SectorLba DEF KernelSectors
  <2>2. DataLba \in Nat
    BY RootAtZero, RootFits
  <2> QED  BY <1>1, <2>1, <2>2
<1>4. Buffered /\ cur \in Handles
  BY <1>1 DEF Buffered, ReadKept, KernelFile
<1>5. /\ FdOK' /\ UNCHANGED <<copied, io, lba, op, cur>>
      /\ \A h \in Handles \cup {Root} : SameFile(fd[h], fd'[h])
      /\ (pc' = "loop" /\ fd'[cur].buf = lba) \/ pc' = "disk" \/ pc' = "done"
  BY <1>1, <1>3, <1>4, DiskStep
<1>6. SameFile(fd[cur], fd'[cur'])
  BY <1>4, <1>5
<1>7. KernelFile(cur)' /\ AtSector(fd'[cur'], q) /\ fd'[cur'].pos = count'
  BY <1>1, <1>2, <1>5, <1>6 DEF ReadKept, KernelFile, SameFile, AtSector, copied
<1>8. CASE pc' = "loop" /\ fd'[cur].buf = lba
  <2>1. count \div SectorSize = q
    BY <1>1, AtStart, KernelSectorsFrom0 DEF KernelSectors
  <2>2. Copying'
    BY <1>1, <1>2, <1>5, <1>7, <1>8, <2>1 DEF Copying, copied
  <2> QED  BY <1>5, <1>7, <2>2
<1>9. CASE pc' = "disk"
  <2>1. \E k \in KernelSectors :
          Reads("read", SectorNo(KernelFirst, k))' /\ count' = SectorSize * k /\ AtSector(fd'[cur'], k)
    BY <1>1, <1>5, <1>7, <1>9 DEF Reads, copied
  <2>2. Copying'
    BY <1>2, <1>5, <1>7, <2>1 DEF Copying, copied
  <2> QED  BY <1>5, <1>7, <2>2
<1>10. CASE pc' = "done"
  BY <1>2, <1>5, <1>7, <1>10 DEF copied
<1> QED  BY <1>5, <1>8, <1>9, <1>10

\* A negative chunk is taken whole: the position, the count and nothing left.
LEMMA WrappedCopy ==
  ASSUME FdOK, ReadKept, Wrapped, left # 0, CopyChunk
  PROVE  FdOK' /\ KernelFile(cur)' /\ Wrapped'
<1> DEFINE f == fd[cur]
           room == SectorSize - (f.pos % SectorSize)
           take == MinInt(left, room)
           x == left % W16
<1>1. /\ count = 0 /\ left \in W32 - W16 .. W32 - 1 /\ x >= W16 \div 2 /\ f.pos = 0
  BY DEF Wrapped
<1>2. left \in Nat /\ left \in 0 .. W32 - 1
  BY <1>1, Widths
<1>3. x \in W16 \div 2 .. W16 - 1 /\ left = W32 - W16 + x
  <2>1. x \in 0 .. W16 - 1
    BY <1>2, DivMod, Widths
  <2> DEFINE y == left - (W32 - W16)
  <2>2. y \in 0 .. W16 - 1 /\ left = (W32 - W16) + y
    BY <1>1, Widths
  <2>3. left % W16 = y
    <3>1. W32 = W16 * (W32 \div W16) + 0 /\ W32 \div W16 \in Nat
      BY DivMod, Widths
    <3> DEFINE k == W32 \div W16
    <3>2. W32 = W16 * k /\ k \in Nat
      BY <3>1, Widths
    <3> HIDE DEF k, y
    <3>3. k - 1 \in Nat
      BY <3>2, Widths
    <3>4. left = W16 * (k - 1) + y
      BY <2>2, <3>2, Widths
    <3>5. (W16 * (k - 1) + y) % W16 = y
      BY <2>2, <3>3, DivUnique, Widths
    <3> QED  BY <3>4, <3>5
  <2> HIDE DEF y
  <2> QED  BY <1>1, <2>1, <2>2, <2>3
<1> HIDE DEF x
<1>4. (x - W16) % W32 = left /\ left > SectorSize
  BY <1>3, TopOfWord
<1>5. room = SectorSize
  <2>1. 0 % SectorSize = 0
    BY Widths
  <2> QED  BY <1>1, <2>1, Widths
<1> HIDE DEF room
<1>6. take = left
  <2>1. ToInt(left) = x - W16
    BY <1>3, Widths DEF ToInt, x
  <2>2. SectorSize % W16 = SectorSize
    <3>1. SectorSize \in 0 .. W16 - 1
      BY Widths
    <3> QED  BY <3>1, SmallMod, Widths
  <2>3. ToInt(room) = SectorSize
    BY <1>5, <2>2, Widths DEF ToInt
  <2>4. ToInt(left) < ToInt(room)
    BY <1>3, <2>1, <2>3, Widths
  <2> QED  BY <1>4, <2>1, <2>4 DEF MinInt
<1>7. /\ count' = (count + take) % W32
      /\ fd' = [fd EXCEPT ![cur].pos = (@ + take) % W32]
      /\ left' = (left - take) % W32
      /\ pc' = IF take = room THEN "boundary" ELSE "loop"
      /\ UNCHANGED cur
  BY DEF CopyChunk, room
<1> HIDE DEF take
<1>8. (0 + left) % W32 = left /\ (left - left) % W32 = 0
  <2>1. left - left = 0 /\ 0 + left = left /\ 0 \in 0 .. W32 - 1
    BY <1>2, Widths
  <2> QED  BY <1>2, <2>1, SmallMod, Widths
<1>9. count' = left /\ left' = 0 /\ pc' = "loop"
  BY <1>1, <1>4, <1>5, <1>6, <1>7, <1>8, Widths
<1>10. Wrapped'
  BY <1>1, <1>9 DEF Wrapped
<1> DEFINE g == [f EXCEPT !.pos = left]
<1>11. cur \in Handles /\ f \in FileState /\ f.isDir = FALSE /\ f.first = KernelFirst
       /\ f.size = KernelEntry.size
  BY DEF ReadKept, KernelFile, FdOK
<1>12. fd' = [fd EXCEPT ![cur] = g]
  BY <1>1, <1>6, <1>7, <1>8, <1>11 DEF FdOK
<1>13. g \in FileState /\ g.isDir = f.isDir /\ g.first = f.first /\ g.size = f.size
  BY <1>2, <1>11 DEF FileState
<1> HIDE DEF f, g
<1>14. FdOK' /\ fd'[cur'] = g
  BY <1>7, <1>11, <1>12, <1>13 DEF FdOK
<1>15. KernelFile(cur)'
  BY <1>7, <1>11, <1>13, <1>14 DEF KernelFile
<1> QED  BY <1>10, <1>14, <1>15

LEMMA ReadingInv == ASSUME FdOK, Reading, Step2 PROVE Inv2'
<1>1. st = "readWait" /\ kernel = cur /\ asked = KernelEntry.size /\ KernelFile(cur) /\ cur # Root
  BY DEF Reading, KernelFile, Handles, Root
<1>2. CASE op = "read" /\ (Copying \/ Wrapped \/ pc = "done") /\ pc # "idle"
  <2>1. ReadKept
    BY <1>1, <1>2 DEF ReadKept
  <2>2. Step /\ UNCHANGED <<st, cstartVars>>
    BY <1>1, <1>2 DEF Step2, Cstart, DiskInitialize, StartFat, FatReady, PrepareMemory,
                      OpenKernel, ReadKernel, Leave
  <2>3. ASSUME FdOK', KernelFile(cur)', UNCHANGED <<op, cur>>,
               Copying' \/ Wrapped' \/ (pc' = "done" /\ (count' = KernelEntry.size => got' = KernelBytes(count')))
        PROVE  Inv2'
    BY <1>1, <1>2, <2>2, <2>3 DEF Inv2, Reading, cstartVars
  <2>4. CASE Copying /\ pc = "loop" /\ CopyChunk
    <3>1. left > 0 /\ UNCHANGED <<op, cur>>
      BY <2>4 DEF CopyChunk
    <3> QED  BY <2>1, <2>3, <2>4, <3>1, CopyKernel
  <2>5. CASE Copying /\ pc = "boundary"
    <3>1. NextSector
      <4>1. ~NextRootSector
        BY <1>1 DEF NextRootSector
      <4> QED  BY <1>1, <2>5, <4>1, Step2Places
    <3>2. UNCHANGED <<op, cur>>
      BY <3>1 DEF NextSector
    <3> QED  BY <2>1, <2>3, <2>5, <3>1, <3>2, NextKernelSector
  <2>6. CASE Copying /\ pc = "disk"
    <3>1. Disk
      BY <1>1, <2>6, Step2Places
    <3> QED  BY <2>1, <2>3, <2>6, <3>1, KernelSectorRead
  <2>7. CASE pc = "loop" /\ LoopEnds
    <3>1. pc' = "done" /\ UNCHANGED <<fd, op, cur, got, count>>
      BY <2>7 DEF LoopEnds, copied
    <3>2. FdOK' /\ KernelFile(cur)'
      BY <1>1, <3>1 DEF FdOK, KernelFile
    <3>3. Copying => got = KernelBytes(count)
      BY DEF Copying
    <3>4. Wrapped => count # KernelEntry.size
      <4>1. left = 0
        BY <2>7 DEF LoopEnds
      <4>2. ~(0 \in W32 - W16 .. W32 - 1 /\ 0 % W16 >= W16 \div 2)
        <5>1. 0 % W16 = 0 /\ W16 \div 2 > 0
          BY Widths
        <5> QED  BY <5>1, Widths
      <4>3. KernelEntry.size \in Nat /\ KernelEntry.size < W32 - W16
        BY KernelFound
      <4> QED  BY <4>1, <4>2, <4>3, Widths DEF Wrapped
    <3> QED  BY <1>2, <2>3, <2>7, <3>1, <3>2, <3>3, <3>4
  <2>8. CASE Wrapped /\ CopyChunk
    <3>1. left # 0 /\ UNCHANGED <<op, cur>>
      BY <2>8 DEF CopyChunk
    <3> QED  BY <2>1, <2>3, <2>8, <3>1, WrappedCopy
  <2>9. CASE pc = "done"
    <3>1. ReadReturns
      <4>1. ~CompareEntry
        BY <1>2 DEF CompareEntry
      <4> QED  BY <1>1, <2>9, <4>1, Step2Places
    <3>2. count = KernelEntry.size => got = KernelBytes(count)
      BY <2>9 DEF Reading, Copying, Wrapped, Reads
    <3>3. pc' = "idle" /\ answer'.count = count /\ answer'.data = got /\ UNCHANGED <<fd, cur>>
      BY <3>1 DEF ReadReturns, Return
    <3>4. FdOK' /\ KernelFile(cur)'
      BY <1>1, <3>3 DEF FdOK, KernelFile
    <3> QED  BY <1>1, <2>2, <3>2, <3>3, <3>4 DEF Inv2, Reading, cstartVars
  <2>10. pc = "loop" => CopyChunk \/ LoopEnds
    BY <1>1, Step2Places
  <2>11. (Copying => pc \in {"loop", "boundary", "disk"}) /\ (Wrapped => pc = "loop")
    BY DEF Copying, Wrapped, Reads
  <2> QED  BY <1>2, <2>4, <2>5, <2>6, <2>7, <2>8, <2>9, <2>10, <2>11
<1>3. CASE pc = "idle"
  <2>1. Leave /\ (answer.count = KernelEntry.size => answer.data = KernelBytes(answer.count))
    BY <1>1, <1>3, Step2Places DEF Reading, Copying, Wrapped, Reads
  <2>2. /\ memory' = answer.data /\ fd' = Close(kernel) /\ pc' = pc
        /\ \E size \in {asked, fd[kernel].size} :
             st' = IF answer.count = size THEN "jump" ELSE "fail"
    BY <2>1 DEF Leave, CallClose
  <2>3. st' = IF answer.count = KernelEntry.size THEN "jump" ELSE "fail"
    BY <1>1, <2>2 DEF KernelFile
  <2>4. KernelComplete'
    <3>1. CASE answer.count = KernelEntry.size
      <4>1. memory' = KernelBytes(KernelEntry.size)
        BY <2>1, <2>2, <3>1
      <4>2. KernelBytes(KernelEntry.size) = Content[KernelEntry.first]
        BY KernelFound DEF KernelBytes, KernelFirst
      <4>3. Len(KernelBytes(KernelEntry.size)) = KernelEntry.size
        BY KernelFound DEF KernelBytes
      <4> QED  BY <4>1, <4>2, <4>3 DEF KernelComplete
    <3>2. CASE answer.count # KernelEntry.size
      BY <2>3, <3>2 DEF KernelComplete
    <3> QED  BY <3>1, <3>2
  <2>5. FdOK'
    <3> DEFINE f == fd[kernel]
               g == [f EXCEPT !.opened = FALSE]
    <3>1. f \in FileState /\ kernel \in Handles
      BY <1>1 DEF FdOK, KernelFile
    <3>2. g \in FileState
      BY <3>1 DEF FileState
    <3>3. fd' = [fd EXCEPT ![kernel] = g]
      BY <1>1, <2>2, <3>1 DEF Close, FdOK
    <3> HIDE DEF g
    <3> QED  BY <3>2, <3>3 DEF FdOK
  <2> QED  BY <1>3, <2>2, <2>3, <2>4, <2>5 DEF Inv2, Left2
<1> QED  BY <1>2, <1>3 DEF Reading, Copying, Wrapped, Reads

LEMMA Step2Inv == ASSUME Inv2, Step2 \/ Entry \/ UNCHANGED stVars PROVE Inv2'
<1>1. CASE UNCHANGED stVars
  <2>1. UNCHANGED <<fd, pc, op, cur, path, left, got, count, io, lba, answer, st, kernel, asked, memory>>
    BY <1>1 DEF stVars, fatVars, cstartVars
  <2>2. FdOK' /\ (Fresh => Fresh') /\ (Ready => Ready') /\ (Left2 => Left2')
    BY <2>1 DEF Inv2, FdOK, Fresh, Ready, Left2, KernelComplete, NoneOpen, RootReady, RootIs
  <2>3. Initialising => Initialising'
    BY <2>1 DEF Initialising, NoneOpen, Reads, RootReady, RootIs
  <2>4. Searching => Searching'
    BY <2>1 DEF Searching, NoneOpen, Reads, RootReady, RootIs, EntryGot
  <2>5. Opening => Opening'
    BY <2>1 DEF Opening, Reads, KernelStart, KernelFile
  <2>6. Reading => Reading'
    BY <2>1 DEF Reading, Copying, Wrapped, Reads, KernelFile, AtSector
  <2> QED  BY <2>2, <2>3, <2>4, <2>5, <2>6 DEF Inv2
<1>2. CASE Entry
  <2>1. st = "off"
    BY <1>2 DEF Entry
  <2> QED  BY <1>2, <2>1, FreshInv
           DEF Inv2, Initialising, Ready, Searching, Opening, Reading, Left2
<1>3. CASE Step2 /\ Left2
  <2>1. FALSE
    BY <1>3, Step2Places DEF Left2
  <2> QED  BY <2>1
<1> QED  BY <1>1, <1>2, <1>3, FreshInv, InitialisingInv, ReadyInv, SearchingInv, OpeningInv,
            ReadingInv DEF Inv2

------------------------------------------------------------------------------
(* The boot. *)

BootInv == Inv1 /\ Inv2

LEMMA Init2Inv == InitSt => Inv2
<1> SUFFICES ASSUME InitSt PROVE Inv2
  OBVIOUS
<1>1. fd = [h \in Handles \cup {Root} |-> NewFile] /\ pc = "idle" /\ st = "off"
  BY DEF InitSt, InitFat
<1>2. NewFile \in FileState /\ NewFile.opened = FALSE
  BY DEF NewFile, FileState, Junk
<1>3. FdOK /\ NoneOpen
  BY <1>1, <1>2 DEF FdOK, NoneOpen
<1> QED  BY <1>1, <1>3 DEF Inv2, Fresh

\* Every sector stage 2 asks for is one of the volume.
LEMMA ReadsVolume == ASSUME Inv2, pc = "disk" PROVE lba \in 0 .. Sectors - 1
<1>1. DataLba < Sectors /\ Sectors \in Nat /\ DataLba \in Nat /\ RootLba \in Nat
  BY VolumeAssumption, RootFits
<1>2. CASE Initialising
  BY <1>2, RootAtZero DEF Initialising, Reads
<1>3. CASE Searching
  BY <1>1, <1>3 DEF Searching, EntryGot, Reads
<1>4. ASSUME NEW q \in KernelSectors, lba = SectorNo(KernelFirst, q) PROVE lba \in 0 .. Sectors - 1
  <2>1. SectorNo(KernelFirst, q) \in DataLba .. Sectors - 1
    BY KernelSectorsFrom0, SectorLba DEF KernelSectors
  <2> QED  BY <1>1, <1>4, <2>1
<1>5. CASE Opening
  BY <1>4, <1>5, KernelSectorsFrom0 DEF Opening, Reads
<1>6. CASE Reading
  BY <1>4, <1>6 DEF Reading, Copying, Wrapped, Reads
<1> QED  BY <1>2, <1>3, <1>5, <1>6 DEF Inv2, Fresh, Ready, Left2

LEMMA BootInvariant == FairSpecBoot => []BootInv
<1>1. InitBoot => BootInv
  BY Init1Inv, Init2Inv DEF InitBoot, BootInv
<1>2. BootInv /\ [NextBoot]_allVars => BootInv'
  <2> SUFFICES ASSUME BootInv, [NextBoot]_allVars PROVE BootInv'
    OBVIOUS
  <2>1. Step1 \/ Reboot \/ UNCHANGED bootVars
    BY DEF NextBoot, Run, RunStage1, JumpToStage2, RunStage2, KeyAndReboot, allVars
  <2>2. Step2 \/ Entry \/ UNCHANGED stVars
    BY DEF NextBoot, Run, RunStage1, JumpToStage2, RunStage2, KeyAndReboot, allVars
  <2> QED  BY <2>1, <2>2, Step1Inv, Step2Inv DEF BootInv
<1> QED  BY <1>1, <1>2, PTL DEF FairSpecBoot

\* Stage 1 jumps only to the whole of stage 2: each sector of its chain at its
\* place (boot.asm:157-217).
THEOREM Stage2IsLoaded == FairSpecBoot => []Stage2Loaded
<1>1. BootInv => Stage2Loaded
  BY Loaded1 DEF BootInv
<1> QED  BY <1>1, BootInvariant, PTL

\* Every sector either stage asks the BIOS for is the one it means
\* (boot.asm:295-319, disk.c:20-31, x86.asm:208-222).
THEOREM EverySectorMeant == FairSpecBoot => []SectorsMeant
<1>1. BootInv => SectorsMeant
  BY AsksRight, ReadsVolume, ReachesIt DEF BootInv, SectorsMeant
<1> QED  BY <1>1, BootInvariant, PTL

\* Stage 2 jumps only to the whole of the kernel: whatever sectors of it cannot
\* be read, and whatever a 16-bit min makes of its length (main.c:71-74).
THEOREM KernelIsComplete == FairSpecBoot => []KernelComplete
<1>1. BootInv => KernelComplete
  BY DEF BootInv, Inv2, Fresh, Initialising, Ready, Searching, Opening, Reading, Left2, KernelComplete
<1> QED  BY <1>1, BootInvariant, PTL
==============================================================================
