----------------------------- MODULE FatProofs -------------------------------
(***************************************************************************)
(* Proofs about fat.c and disk.c, for every drive INT 13h can describe and *)
(* every well-formed volume on it, whoever calls them and in any order.    *)
(*                                                                         *)
(* The first part is the arithmetic of the registers, the second the walk  *)
(* of a chain through the table, the third what one step does to a handle. *)
(* Then comes FInv, which says for each call in progress what it has read  *)
(* so far and where its handle stands in the chain; every handle that no   *)
(* call is using has in its buffer the sector of its position.  It is what *)
(* the refinement of Files rests on.                                       *)
(***************************************************************************)
EXTENDS Fat12, SequenceTheorems, WellFoundedInduction, TLAPS

------------------------------------------------------------------------------
(* Quotient and remainder by any positive divisor. *)

\* Quotient and remainder make the number again.
LEMMA DivMod ==
  ASSUME NEW a \in Nat, NEW b \in Nat \ {0}
  PROVE  /\ a = b * (a \div b) + (a % b)
         /\ a \div b \in Nat /\ a % b \in 0 .. b - 1
OBVIOUS

\* Both are numbers.
LEMMA DivNat ==
  ASSUME NEW a \in Nat, NEW b \in Nat \ {0}
  PROVE  a \div b \in Nat /\ a % b \in Nat
BY DivMod

\* And are determined by it.
LEMMA DivUnique ==
  ASSUME NEW b \in Nat \ {0}, NEW q \in Nat, NEW r \in 0 .. b - 1
  PROVE  (b * q + r) \div b = q /\ (b * q + r) % b = r
OBVIOUS

\* A number below the divisor is its own remainder.
LEMMA SmallMod ==
  ASSUME NEW b \in Nat \ {0}, NEW a \in 0 .. b - 1
  PROVE  a % b = a
<1>1. (b * 0 + a) % b = a
  BY DivUnique
<1> QED  BY <1>1

\* A number below a product has a quotient below the other factor.
LEMMA DivBound ==
  ASSUME NEW a \in Nat, NEW b \in Nat \ {0}, NEW c \in Nat, a < b * c
  PROVE  a \div b < c
<1>1. a = b * (a \div b) + (a % b) /\ a \div b \in Nat /\ a % b \in 0 .. b - 1
  BY DivMod
<1>2. SUFFICES ASSUME a \div b >= c PROVE FALSE
  BY <1>1
<1>3. b * (a \div b) >= b * c
  BY <1>1, <1>2
<1> QED  BY <1>1, <1>3
\* A set of naturals has a least element.
LEMMA Least ==
  ASSUME NEW T, T \subseteq Nat, T # {}
  PROVE  \E x \in T : \A y \in T : x <= y
<1> DEFINE R == OpToRel(<, Nat)
<1>1. IsWellFoundedOn(R, Nat)
  BY NatLessThanWellFounded
<1>2. \A x, y \in Nat : <<y, x>> \in R <=> y < x
  BY DEF OpToRel
<1> HIDE DEF R
<1>3. PICK x \in T : \A y \in T : ~ (<<y, x>> \in R)
  BY <1>1, WFMin
<1>4. \A y \in T : ~(y < x)
  BY <1>2, <1>3
<1> QED  BY <1>3, <1>4

------------------------------------------------------------------------------
(* The registers. *)

\* INT 13h/08 hides nothing: both stages learn the drive's geometry.
THEOREM GeometryLearnt == Geo = [spt |-> Spt, heads |-> Heads]
<1>1. (Cylinders - 1) \div CylLow \in Nat
  BY DriveAssumption
<1>2. Spt \in 0 .. SecMod - 1
  BY DriveAssumption
<1>3. (SecMod * ((Cylinders - 1) \div CylLow) + Spt) % SecMod = Spt
  BY <1>1, <1>2, DivUnique, DriveAssumption
<1>4. (Spt + SecMod * ((Cylinders - 1) \div CylLow)) % SecMod = Spt
  BY <1>1, <1>3, DriveAssumption
<1> QED  BY <1>4, DriveAssumption DEF Geo, GeometryOf, BiosParams

\* The sector a cylinder, head and sector number name, put into the registers
\* the way the BIOS reads them.
Packed(c, h, s) ==
  [ch |-> c % CylLow, cl |-> s + SecMod * ((c \div CylLow) % CylHigh), dh |-> h]

\* The registers lose nothing of a cylinder the drive has.
LEMMA RegistersHold ==
  ASSUME NEW c \in Nat, c < Cylinders, NEW h \in Nat, NEW s \in 1 .. Spt
  PROVE  BiosSector(Packed(c, h, s)) = (c * Heads + h) * Spt + s - 1
<1> DEFINE q == c \div CylLow
<1>1. c = CylLow * q + (c % CylLow) /\ q \in Nat /\ c % CylLow \in Nat
  <2>1. CylLow \in Nat \ {0}
    BY DriveAssumption
  <2>2. c = CylLow * (c \div CylLow) + (c % CylLow)
    BY <2>1, DivMod
  <2>3. c \div CylLow \in Nat /\ c % CylLow \in 0 .. CylLow - 1
    BY <2>1, DivMod
  <2> QED  BY <2>1, <2>2, <2>3
<1>2. q < CylHigh
  <2>1. Cylinders \in Nat /\ CylLow * CylHigh \in Nat /\ Cylinders <= CylLow * CylHigh
    BY DriveAssumption
  <2>2. c < CylLow * CylHigh
    BY <2>1
  <2> QED  BY <2>2, DivBound, DriveAssumption
<1>3. q % CylHigh = q
  <2> HIDE DEF q
  <2> QED  BY <1>1, <1>2, SmallMod, DriveAssumption
<1>4. s \in 0 .. SecMod - 1
  BY DriveAssumption
<1>5. (SecMod * q + s) \div SecMod = q /\ (SecMod * q + s) % SecMod = s
  BY <1>1, <1>4, DivUnique, DriveAssumption
<1>6. s + SecMod * q = SecMod * q + s
  BY <1>1, DriveAssumption
<1>7. Packed(c, h, s) = [ch |-> c % CylLow, cl |-> SecMod * q + s, dh |-> h]
  BY <1>3, <1>6 DEF Packed
<1>8. BiosSector(Packed(c, h, s)) = (((c % CylLow) + CylLow * q) * Heads + h) * Spt + s - 1
  BY <1>5, <1>7 DEF BiosSector
<1>9. (c % CylLow) + CylLow * q = c
  BY <1>1, DriveAssumption
<1> QED  BY <1>8, <1>9

\* Sector number, head and cylinder of a sector of the drive, and back.
LEMMA ChsInverse ==
  ASSUME NEW x \in Nat, x < DriveSectors
  PROVE  LET t == x \div Spt
             c == t \div Heads
             h == t % Heads
             s == (x % Spt) + 1
         IN  /\ c \in Nat /\ c < Cylinders /\ h \in Nat /\ s \in 1 .. Spt
             /\ (c * Heads + h) * Spt + s - 1 = x
<1> DEFINE t == x \div Spt
           c == t \div Heads
           h == t % Heads
           s == (x % Spt) + 1
<1>1. x = Spt * t + (x % Spt) /\ t \in Nat /\ x % Spt \in 0 .. Spt - 1
  BY DivMod, DriveAssumption
<1>2. t = Heads * c + h /\ c \in Nat /\ h \in 0 .. Heads - 1
  <2>1. t \in Nat
    BY <1>1
  <2> HIDE DEF t
  <2> QED  BY <2>1, DivMod, DriveAssumption
<1>3. t < Cylinders * Heads
  <2>1. x < Spt * (Cylinders * Heads)
    BY DriveAssumption DEF DriveSectors
  <2>2. Cylinders * Heads \in Nat
    BY DriveAssumption
  <2> QED  BY <2>1, <2>2, DivBound, DriveAssumption
<1>4. c < Cylinders
  <2>1. t \in Nat /\ t < Heads * Cylinders
    BY <1>1, <1>3, DriveAssumption
  <2> HIDE DEF t
  <2> QED  BY <2>1, DivBound, DriveAssumption
<1>5. s \in 1 .. Spt
  BY <1>1, DriveAssumption, SMTT(30)
<1>6. c * Heads + h = t
  <2> HIDE DEF t
  <2>1. c * Heads = Heads * c
    BY <1>2, DriveAssumption
  <2> QED  BY <1>2, <2>1, DriveAssumption
<1>7. t * Spt + s - 1 = x
  BY <1>1, DriveAssumption
<1> QED  BY <1>2, <1>4, <1>5, <1>6, <1>7

\* boot.asm asks the BIOS for the sector it means, on every drive and for every
\* sector the drive has (boot.asm:295-319).
THEOREM Stage1Means ==
  ASSUME NEW x \in Nat, x < DriveSectors
  PROVE  BiosSector(BootRegs(Geo, x)) = x
<1> DEFINE t == x \div Spt
           c == t \div Heads
           h == t % Heads
           s == (x % Spt) + 1
<1>1. BootRegs(Geo, x) = Packed(c, h, s)
  BY GeometryLearnt DEF BootRegs, Packed
<1>2. /\ c \in Nat /\ c < Cylinders /\ h \in Nat /\ s \in 1 .. Spt
      /\ (c * Heads + h) * Spt + s - 1 = x
  BY ChsInverse
<1> HIDE DEF c, h, s
<1> QED  BY <1>1, <1>2, RegistersHold

\* disk.c and x86_Disk_Read do, for the sectors a uint16_t can number
\* (disk.c:20-31, x86.asm:206-222).
THEOREM Stage2Means ==
  ASSUME NEW x \in Nat, x < DriveSectors, x < W16
  PROVE  BiosSector(DiskRegs(Lba2Chs(Geo, x))) = x
<1> DEFINE t == x \div Spt
           c == t \div Heads
           h == t % Heads
           s == (x % Spt) + 1
<1>1. x % W16 = x
  BY SmallMod, DriveAssumption
<1>2. /\ c \in Nat /\ c < Cylinders /\ h \in Nat /\ s \in 1 .. Spt
      /\ (c * Heads + h) * Spt + s - 1 = x
  BY ChsInverse
<1>3. Lba2Chs(Geo, x) = [cylinder |-> c, sector |-> s, head |-> h]
  BY <1>1, GeometryLearnt DEF Lba2Chs
<1> HIDE DEF c, h, s
<1>4. s % SecMod = s
  BY <1>2, DriveAssumption
<1>5. DiskRegs(Lba2Chs(Geo, x)) = Packed(c, h, s)
  BY <1>3, <1>4 DEF DiskRegs, Packed
<1> QED  BY <1>2, <1>5, RegistersHold

------------------------------------------------------------------------------
(* The table. *)

\* Taking twelve bits from two bytes is what the format says.
LEMMA TwelveBits ==
  ASSUME NEW x \in 0 .. 255, NEW y \in 0 .. 255
  PROVE  /\ (x + 256 * y) % 4096 = x + 256 * (y % 16)
         /\ (x + 256 * y) \div 16 = (x \div 16) + 16 * y
<1>1. /\ y = 16 * (y \div 16) + (y % 16) /\ y \div 16 \in Nat /\ y % 16 \in 0 .. 15
      /\ x = 16 * (x \div 16) + (x % 16) /\ x \div 16 \in Nat /\ x % 16 \in 0 .. 15
  BY DivMod
<1>2. (4096 * (y \div 16) + (x + 256 * (y % 16))) % 4096 = x + 256 * (y % 16)
  BY <1>1, DivUnique
<1>3. (16 * ((x \div 16) + 16 * y) + (x % 16)) \div 16 = (x \div 16) + 16 * y
  BY <1>1, DivUnique
<1>4. x + 256 * y = 4096 * (y \div 16) + (x + 256 * (y % 16))
  BY <1>1
<1>5. x + 256 * y = 16 * ((x \div 16) + 16 * y) + (x % 16)
  BY <1>1
<1> QED  BY <1>2, <1>3, <1>4, <1>5

\* fat.c reads an entry of the table as the format says (fat.c:177-190).
LEMMA EntryRead ==
  ASSUME NEW c \in Nat, InTable(c)
  PROVE  NextCluster(c) = {FatEntry(c)}
<1> DEFINE i == (c * 3) \div 2
           x == FatBytes[i]
           y == FatBytes[i + 1]
<1>1. i \in DOMAIN FatBytes /\ i + 1 \in DOMAIN FatBytes
  BY DEF InTable
<1>2. x \in 0 .. 255 /\ y \in 0 .. 255
  BY <1>1, VolumeAssumption
<1>3. FatEntry(c) = IF c % 2 = 0 THEN x + 256 * (y % 16) ELSE (x \div 16) + 16 * y
  BY DEF FatEntry
<1>4. NextCluster(c) = {IF c % 2 = 0 THEN (x + 256 * y) % 4096 ELSE (x + 256 * y) \div 16}
  BY DEF NextCluster, InTable
<1> HIDE DEF x, y
<1>5. (x + 256 * y) % 4096 = x + 256 * (y % 16) /\ (x + 256 * y) \div 16 = (x \div 16) + 16 * y
  BY <1>2, TwelveBits
<1> QED  BY <1>3, <1>4, <1>5

\* What the clusters of a chain are.
LEMMA ChainLinks ==
  ASSUME NEW c \in DOMAIN Chain, NEW k \in 1 .. Len(Chain[c])
  PROVE  /\ Len(Chain[c]) \in Nat \ {0} /\ Chain[c][1] = c
         /\ Chain[c][k] \in Nat /\ 2 <= Chain[c][k] /\ Chain[c][k] < EOC
         /\ DataLba + (Chain[c][k] - 1) * SectorsPerCluster <= Sectors
         /\ InTable(Chain[c][k])
         /\ k < Len(Chain[c]) => FatEntry(Chain[c][k]) = Chain[c][k + 1]
         /\ k = Len(Chain[c]) => FatEntry(Chain[c][k]) >= EOC
<1>1. /\ Chain[c] \in Seq(2 .. EOC - 1) /\ Chain[c] # <<>> /\ Chain[c][1] = c
      /\ DataLba + (Chain[c][k] - 1) * SectorsPerCluster <= Sectors
      /\ InTable(Chain[c][k])
      /\ IF k < Len(Chain[c]) THEN FatEntry(Chain[c][k]) = Chain[c][k + 1]
                              ELSE FatEntry(Chain[c][k]) >= EOC
  BY ChainAssumption
<1>2. Len(Chain[c]) \in Nat \ {0} /\ Chain[c][k] \in 2 .. EOC - 1
  <2>1. Len(Chain[c]) \in Nat
    BY <1>1
  <2>2. Len(Chain[c]) # 0
    BY <1>1
  <2>3. Chain[c][k] \in 2 .. EOC - 1
    BY <1>1, <2>1, ElementOfSeq
  <2> QED  BY <2>1, <2>2, <2>3
<1>3. \A x \in 2 .. EOC - 1 : x \in Nat /\ 2 <= x /\ x < EOC
  BY DEF EOC
<1> QED  BY <1>1, <1>2, <1>3

\* The root directory: RootSectors are enough for it.
LEMMA RootFits ==
  /\ RootSize \in Nat \ {0} /\ RootSectors \in Nat \ {0} /\ DataLba = RootLba + RootSectors
  /\ RootSize <= SectorSize * RootSectors
  /\ SectorSize * (RootSectors - 1) < RootSize
<1>1. SectorSize \in Nat \ {0} /\ EntrySize \in Nat \ {0} /\ RootEntries \in Nat \ {0} /\ RootLba \in Nat
  BY VolumeAssumption
<1>2. RootSize \in Nat \ {0}
  BY <1>1 DEF RootSize
<1>3. /\ RootSize + SectorSize - 1 = SectorSize * RootSectors + ((RootSize + SectorSize - 1) % SectorSize)
      /\ RootSectors \in Nat /\ (RootSize + SectorSize - 1) % SectorSize \in 0 .. SectorSize - 1
  <2>1. RootSize + SectorSize - 1 \in Nat
    BY <1>1, <1>2
  <2> QED  BY <1>1, <2>1, DivMod DEF RootSectors
<1>4. RootSize <= SectorSize * RootSectors /\ SectorSize * RootSectors < RootSize + SectorSize
  <2> DEFINE prod == SectorSize * RootSectors
             rest == (RootSize + SectorSize - 1) % SectorSize
  <2>1. prod \in Nat /\ rest \in 0 .. SectorSize - 1 /\ RootSize + SectorSize - 1 = prod + rest
    BY <1>1, <1>3
  <2> HIDE DEF prod, rest
  <2>2. RootSize <= prod /\ prod < RootSize + SectorSize
    BY <1>1, <1>2, <2>1
  <2> QED  BY <2>2 DEF prod
<1>5. RootSectors # 0
  BY <1>1, <1>2, <1>4
<1>6. SectorSize * (RootSectors - 1) = SectorSize * RootSectors - SectorSize
  BY <1>1, <1>3
<1>7. SectorSize * (RootSectors - 1) < RootSize
  <2> DEFINE prod == SectorSize * RootSectors
  <2>1. prod \in Nat
    BY <1>1, <1>3
  <2>2. SectorSize * (RootSectors - 1) = prod - SectorSize /\ prod < RootSize + SectorSize
    BY <1>4, <1>6
  <2> HIDE DEF prod
  <2> QED  BY <1>1, <1>2, <2>1, <2>2
<1> QED  BY <1>2, <1>3, <1>4, <1>5, <1>7 DEF DataLba

\* A whole number of entries in a sector: an entry lies within one.
LEMMA EntriesTile ==
  ASSUME NEW n \in Nat
  PROVE  LET q == (n * EntrySize) \div SectorSize
             r == (n * EntrySize) % SectorSize
         IN  /\ q \in Nat /\ r \in Nat /\ n * EntrySize = SectorSize * q + r
             /\ r + EntrySize <= SectorSize /\ r \div EntrySize + 1 \in 1 .. SectorSize \div EntrySize
<1> DEFINE q == (n * EntrySize) \div SectorSize
           r == (n * EntrySize) % SectorSize
           m == SectorSize \div EntrySize
<1>1. SectorSize \in Nat \ {0} /\ EntrySize \in Nat \ {0} /\ SectorSize % EntrySize = 0
  BY VolumeAssumption
<1>2. m \in Nat /\ SectorSize = EntrySize * m
  BY <1>1, DivMod
<1>3. n * EntrySize \in Nat
  BY <1>1
<1>4. n * EntrySize = SectorSize * q + r /\ q \in Nat /\ r \in 0 .. SectorSize - 1
  BY <1>1, <1>3, DivMod
<1> HIDE DEF q, r, m
<1>5. r = EntrySize * (n - m * q)
  <2>1. SectorSize * q = EntrySize * (m * q)
    BY <1>1, <1>2, <1>4
  <2>2. EntrySize * (n - m * q) = n * EntrySize - EntrySize * (m * q)
    BY <1>1, <1>2, <1>4
  <2> QED  BY <1>1, <1>2, <1>4, <2>1, <2>2
<1> DEFINE d == n - m * q
<1>6. d \in Int /\ r = EntrySize * d
  BY <1>2, <1>4, <1>5
<1> HIDE DEF d
<1>7. d \in Nat
  <2> SUFFICES ASSUME d < 0 PROVE FALSE
    BY <1>6
  <2>1. EntrySize * d < 0
    BY <1>1, <1>6
  <2> QED  BY <1>4, <1>6, <2>1
<1>8. d < m
  <2> SUFFICES ASSUME d >= m PROVE FALSE
    BY <1>2, <1>7
  <2>1. EntrySize * d >= EntrySize * m
    BY <1>1, <1>2, <1>7
  <2> QED  BY <1>2, <1>4, <1>6, <2>1
<1>9. r + EntrySize <= SectorSize
  <2>1. d + 1 <= m
    BY <1>2, <1>7, <1>8
  <2>2. EntrySize * (d + 1) <= EntrySize * m
    BY <1>1, <1>2, <1>7, <2>1
  <2>3. EntrySize * (d + 1) = r + EntrySize
    BY <1>1, <1>6, <1>7
  <2> QED  BY <1>2, <2>2, <2>3
<1>10. r \div EntrySize = d
  <2>1. (EntrySize * d + 0) \div EntrySize = d
    BY <1>1, <1>7, DivUnique
  <2> QED  BY <1>1, <1>6, <1>7, <2>1
<1>11. r \div EntrySize + 1 \in 1 .. m
  BY <1>2, <1>7, <1>8, <1>10
<1> QED  BY <1>4, <1>9, <1>11 DEF q, r, m

\* An entry of the root lies in one of the root's sectors.
LEMMA RootPlace ==
  ASSUME NEW n \in 0 .. RootEntries - 1
  PROVE  (n * EntrySize) \div SectorSize \in 0 .. RootSectors - 1
<1>1. SectorSize \in Nat \ {0} /\ EntrySize \in Nat \ {0} /\ RootEntries \in Nat \ {0}
  BY VolumeAssumption
<1>2. n * EntrySize < RootEntries * EntrySize /\ n * EntrySize \in Nat
  BY <1>1
<1>3. n * EntrySize < SectorSize * RootSectors
  BY <1>1, <1>2, RootFits DEF RootSize
<1>4. (n * EntrySize) \div SectorSize < RootSectors
  BY <1>1, <1>2, <1>3, RootFits, DivBound
<1>5. (n * EntrySize) \div SectorSize \in Nat
  BY <1>1, <1>2, DivMod
<1> QED  BY <1>4, <1>5, RootFits

\* What a search finds at any place in a buffer is an entry of the volume or
\* nothing.
LEMMA EntryIsThere ==
  ASSUME NEW w, NEW o \in 0 .. SectorSize - 1
  PROVE  EntryAt(<<w, o>>) \in Entries \cup {NoEntry}
<1>1. SectorSize \in Nat \ {0} /\ EntrySize \in Nat \ {0} /\ SectorSize % EntrySize = 0
  BY VolumeAssumption
<1>2. SectorSize = EntrySize * (SectorSize \div EntrySize) + 0 /\ SectorSize \div EntrySize \in Nat
  BY <1>1, DivMod
<1>3. o \div EntrySize \in Nat /\ o \div EntrySize < SectorSize \div EntrySize
  <2>1. o \in Nat /\ o < EntrySize * (SectorSize \div EntrySize)
    BY <1>1, <1>2
  <2> QED  BY <1>1, <1>2, <2>1, DivBound, DivMod
<1>4. o \div EntrySize + 1 \in 1 .. SectorSize \div EntrySize
  BY <1>2, <1>3
<1>5. CASE w \in DOMAIN Directory
  <2>1. DOMAIN Directory[w] = 1 .. SectorSize \div EntrySize
    BY <1>5, VolumeAssumption
  <2>2. EntryAt(<<w, o>>) = Directory[w][o \div EntrySize + 1]
    BY <1>5 DEF EntryAt
  <2>3. Directory[w][o \div EntrySize + 1] \in {Directory[w][i] : i \in DOMAIN Directory[w]}
    BY <1>4, <2>1
  <2> QED  BY <1>5, <2>2, <2>3 DEF Entries
<1>6. CASE w \notin DOMAIN Directory
  BY <1>6 DEF EntryAt
<1> QED  BY <1>5, <1>6

------------------------------------------------------------------------------
(* The reader: sectors of a chain. *)

SectorsIn(c) == Len(Chain[c]) * SectorsPerCluster

\* Sector q of the chain from c.
SectorNo(c, q) ==
  (DataLba + (Chain[c][q \div SectorsPerCluster + 1] - 2) * SectorsPerCluster
    + (q % SectorsPerCluster)) % W32

\* A file entry that stands at sector q of its chain.
AtSector(f, q) ==
  /\ q \in 0 .. SectorsIn(f.first) - 1
  /\ f.cluster = Chain[f.first][q \div SectorsPerCluster + 1]
  /\ f.sec = q % SectorsPerCluster

FileState == [opened : BOOLEAN, isDir : BOOLEAN, pos : Nat, size : Nat, first : Nat,
              cluster : Nat, sec : Nat, buf : Int]

LEMMA SectorOfNo ==
  ASSUME NEW c, NEW i
  PROVE  SectorOf(c, i) = SectorNo(c, i \div SectorSize)
BY DEF SectorOf, SectorNo

\* The sector of the chain is on the disk, and the one fat.c asks for.
LEMMA SectorLba ==
  ASSUME NEW c \in DOMAIN Chain, NEW q \in 0 .. SectorsIn(c) - 1
  PROVE  LET k == Chain[c][q \div SectorsPerCluster + 1]
         IN  /\ q \div SectorsPerCluster + 1 \in 1 .. Len(Chain[c]) /\ k \in Nat /\ k < EOC
             /\ SectorNo(c, q) \in DataLba .. Sectors - 1
             /\ (ClusterToLba(k) + (q % SectorsPerCluster)) % W32 = SectorNo(c, q)
             /\ q = 0 => ClusterToLba(k) = SectorNo(c, q) /\ k = c
<1> DEFINE i == q \div SectorsPerCluster
           r == q % SectorsPerCluster
           k == Chain[c][i + 1]
<1>1. SectorsPerCluster \in Nat \ {0} /\ W32 \in Nat \ {0} /\ Sectors \in Nat /\ Sectors <= W32
      /\ DataLba \in Nat
  BY VolumeAssumption, RootFits
<1>2. Len(Chain[c]) \in Nat
  BY ChainAssumption
<1>3. q \in Nat /\ q < SectorsPerCluster * Len(Chain[c])
  BY <1>1, <1>2 DEF SectorsIn
<1>4. i \in Nat /\ r \in Nat /\ r < SectorsPerCluster /\ i < Len(Chain[c])
  <2>1. q \div SectorsPerCluster \in Nat /\ q % SectorsPerCluster \in 0 .. SectorsPerCluster - 1
    BY <1>1, <1>3, DivMod
  <2>2. q \div SectorsPerCluster < Len(Chain[c])
    BY <1>1, <1>2, <1>3, DivBound
  <2> QED  BY <1>1, <2>1, <2>2
<1>5. i + 1 \in 1 .. Len(Chain[c])
  BY <1>2, <1>4
<1> HIDE DEF i, r
<1>6. k \in Nat /\ 2 <= k /\ k < EOC /\ DataLba + (k - 1) * SectorsPerCluster <= Sectors
      /\ Chain[c][1] = c
  BY <1>5, ChainLinks
<1> HIDE DEF k
<1> DEFINE start == (k - 2) * SectorsPerCluster
<1>7. start \in Nat /\ (k - 1) * SectorsPerCluster = start + SectorsPerCluster
  BY <1>1, <1>6
<1> HIDE DEF start
<1>8. DataLba + start + r \in DataLba .. Sectors - 1 /\ DataLba + start + r \in 0 .. W32 - 1
      /\ DataLba + start \in 0 .. W32 - 1
  BY <1>1, <1>4, <1>6, <1>7
<1>9. (DataLba + start + r) % W32 = DataLba + start + r /\ (DataLba + start) % W32 = DataLba + start
  BY <1>1, <1>8, SmallMod
<1>10. SectorNo(c, q) = DataLba + start + r
  BY <1>9 DEF SectorNo, start, k, i, r
<1>11. ClusterToLba(k) = DataLba + start
  BY <1>9 DEF ClusterToLba, start
<1>12. q = 0 => i = 0 /\ r = 0
  BY <1>1 DEF i, r
<1>13. q = 0 => ClusterToLba(k) = SectorNo(c, q) /\ k = c
  <2>1. q = 0 => k = c
    BY <1>6, <1>12 DEF k
  <2> QED  BY <1>1, <1>7, <1>10, <1>11, <1>12, <2>1
<1> QED  BY <1>5, <1>6, <1>8, <1>9, <1>10, <1>11, <1>13 DEF k, i, r

\* A word of the table, or what lies behind it, is a number.
LEMMA NextIsNat ==
  ASSUME NEW c \in Nat, NEW n \in NextCluster(c)
  PROVE  n \in Nat
<1> DEFINE i == (c * 3) \div 2
           val == FatBytes[i] + 256 * FatBytes[i + 1]
<1>1. CASE {i, i + 1} \subseteq DOMAIN FatBytes
  <2>1. val \in Nat
    <3>1. i \in DOMAIN FatBytes /\ i + 1 \in DOMAIN FatBytes
      BY <1>1
    <3>2. FatBytes[i] \in 0 .. 255 /\ FatBytes[i + 1] \in 0 .. 255
      BY <3>1, VolumeAssumption
    <3> DEFINE x == FatBytes[i]
               y == FatBytes[i + 1]
    <3>3. x \in 0 .. 255 /\ y \in 0 .. 255
      BY <3>2
    <3> HIDE DEF x, y
    <3>4. x + 256 * y \in Nat
      BY <3>3
    <3> QED  BY <3>4 DEF x, y
  <2>2. n = IF c % 2 = 0 THEN val % 4096 ELSE val \div 16
    BY <1>1 DEF NextCluster
  <2> HIDE DEF val
  <2> QED  BY <2>1, <2>2
<1>2. CASE ~({i, i + 1} \subseteq DOMAIN FatBytes)
  BY <1>2 DEF NextCluster, EOC
<1> QED  BY <1>1, <1>2

\* Whatever a step does, it is to cluster and sector.
LEMMA StepOnState ==
  ASSUME NEW f \in FileState, NEW g \in StepOn(f)
  PROVE  /\ g \in FileState /\ g.opened = f.opened /\ g.isDir = f.isDir /\ g.pos = f.pos
         /\ g.size = f.size /\ g.first = f.first /\ g.buf = f.buf
<1>1. CASE f.sec + 1 >= SectorsPerCluster
  <2>1. PICK c \in NextCluster(f.cluster) : g = [f EXCEPT !.cluster = c, !.sec = 0]
    BY <1>1 DEF StepOn
  <2>2. c \in Nat
    BY NextIsNat DEF FileState
  <2> QED  BY <2>1, <2>2 DEF FileState
<1>2. CASE ~(f.sec + 1 >= SectorsPerCluster)
  <2>1. g = [f EXCEPT !.sec = @ + 1]
    BY <1>2 DEF StepOn
  <2> QED  BY <2>1 DEF FileState
<1> QED  BY <1>1, <1>2

\* A step goes to the next sector of the chain, and finds its end after the
\* last one (fat.c:232-250).
LEMMA StepAlong ==
  ASSUME NEW f \in FileState, f.first \in DOMAIN Chain, NEW q, AtSector(f, q), NEW g \in StepOn(f)
  PROVE  /\ q + 1 < SectorsIn(f.first) => AtSector(g, q + 1) /\ g.cluster < EOC
         /\ q + 1 >= SectorsIn(f.first) => g.cluster >= EOC
<1> DEFINE c == f.first
           i == q \div SectorsPerCluster
           r == q % SectorsPerCluster
<1>1. SectorsPerCluster \in Nat \ {0} /\ Len(Chain[c]) \in Nat
  BY VolumeAssumption, ChainAssumption
<1>2. /\ q \in 0 .. SectorsIn(c) - 1 /\ f.cluster = Chain[c][i + 1] /\ f.sec = r
  BY DEF AtSector
<1>3. i + 1 \in 1 .. Len(Chain[c]) /\ SectorsIn(c) = SectorsPerCluster * Len(Chain[c])
  <2>1. i + 1 \in 1 .. Len(Chain[c])
    BY <1>2, SectorLba
  <2>2. SectorsIn(c) = SectorsPerCluster * Len(Chain[c])
    BY <1>1 DEF SectorsIn
  <2> QED  BY <2>1, <2>2
<1>4. q = SectorsPerCluster * i + r /\ i \in Nat /\ r \in 0 .. SectorsPerCluster - 1
  <2>1. q \in Nat
    BY <1>2
  <2> QED  BY <1>1, <2>1, DivMod
<1>5. g.first = c
  BY StepOnState
<1> HIDE DEF c, i, r
<1>6. CASE r + 1 < SectorsPerCluster
  <2>1. g = [f EXCEPT !.sec = @ + 1]
    <3>1. ~(f.sec + 1 >= SectorsPerCluster)
      BY <1>1, <1>2, <1>4, <1>6
    <3> QED  BY <3>1 DEF StepOn
  <2>2. g.cluster = Chain[c][i + 1] /\ g.sec = r + 1
    BY <1>2, <2>1 DEF FileState
  <2>3. q + 1 = SectorsPerCluster * i + (r + 1) /\ r + 1 \in 0 .. SectorsPerCluster - 1
    BY <1>1, <1>4, <1>6
  <2>4. (q + 1) \div SectorsPerCluster = i /\ (q + 1) % SectorsPerCluster = r + 1
    <3>1. /\ (SectorsPerCluster * i + (r + 1)) \div SectorsPerCluster = i
          /\ (SectorsPerCluster * i + (r + 1)) % SectorsPerCluster = r + 1
      BY <1>1, <1>4, <2>3, DivUnique, Zenon
    <3> QED  BY <2>3, <3>1, Zenon
  <2>5. q + 1 < SectorsIn(c)
    <3>1. i + 1 <= Len(Chain[c])
      BY <1>1, <1>3
    <3>2. SectorsPerCluster * (i + 1) <= SectorsPerCluster * Len(Chain[c])
      BY <1>1, <1>4, <3>1
    <3>3. SectorsPerCluster * (i + 1) = SectorsPerCluster * i + SectorsPerCluster
      BY <1>1, <1>4
    <3>4. SectorsPerCluster * i \in Nat
      BY <1>1, <1>4
    <3> QED  BY <1>1, <1>3, <1>4, <1>6, <2>3, <3>2, <3>3, <3>4
  <2>6. q + 1 \in 0 .. SectorsIn(c) - 1
    BY <1>1, <1>2, <1>3, <2>5
  <2>7. AtSector(g, q + 1)
    BY <1>5, <2>2, <2>4, <2>6 DEF AtSector
  <2>8. g.cluster < EOC
    BY <1>3, <2>2, ChainLinks DEF c
  <2> QED  BY <1>1, <1>2, <1>3, <2>5, <2>7, <2>8 DEF c
<1>7. CASE r + 1 = SectorsPerCluster
  <2>1. f.cluster \in Nat /\ InTable(f.cluster)
    BY <1>2, <1>3, ChainLinks DEF c
  <2>2. g = [f EXCEPT !.cluster = FatEntry(f.cluster), !.sec = 0]
    <3>1. NextCluster(f.cluster) = {FatEntry(f.cluster)}
      BY <2>1, EntryRead
    <3> QED  BY <1>1, <1>2, <1>7, <3>1 DEF StepOn
  <2>3. g.cluster = FatEntry(f.cluster) /\ g.sec = 0
    BY <2>2 DEF FileState
  <2>4. q + 1 = SectorsPerCluster * (i + 1) + 0
    <3>1. SectorsPerCluster * (i + 1) = SectorsPerCluster * i + SectorsPerCluster
      BY <1>1, <1>4
    <3>2. SectorsPerCluster * i \in Nat
      BY <1>1, <1>4
    <3> QED  BY <1>1, <1>4, <1>7, <3>1, <3>2
  <2>5. CASE i + 1 = Len(Chain[c])
    <3>1. q + 1 = SectorsIn(c)
      BY <1>1, <1>3, <2>4, <2>5
    <3>2. g.cluster >= EOC
      BY <1>2, <1>3, <2>3, <2>5, ChainLinks DEF c
    <3> QED  BY <1>1, <1>3, <3>1, <3>2 DEF c
  <2>6. CASE i + 1 < Len(Chain[c])
    <3>1. i + 2 \in 1 .. Len(Chain[c]) /\ (i + 1) + 1 = i + 2
      BY <1>1, <1>4, <2>6
    <3>2. g.cluster = Chain[c][i + 2] /\ g.cluster < EOC
      <4>1. g.cluster = Chain[c][(i + 1) + 1]
        BY <1>2, <1>3, <2>3, <2>6, ChainLinks DEF c
      <4>2. Chain[c][i + 2] < EOC
        BY <3>1, ChainLinks DEF c
      <4> QED  BY <3>1, <4>1, <4>2
    <3>3. (q + 1) \div SectorsPerCluster = i + 1 /\ (q + 1) % SectorsPerCluster = 0
      <4>1. i + 1 \in Nat /\ 0 \in 0 .. SectorsPerCluster - 1
        BY <1>1, <1>4
      <4>2. /\ (SectorsPerCluster * (i + 1) + 0) \div SectorsPerCluster = i + 1
            /\ (SectorsPerCluster * (i + 1) + 0) % SectorsPerCluster = 0
        BY <1>1, <4>1, DivUnique
      <4> QED  BY <2>4, <4>2
    <3>4. q + 1 < SectorsIn(c)
      <4>1. SectorsPerCluster * (i + 1) < SectorsPerCluster * Len(Chain[c])
        BY <1>1, <1>4, <2>6
      <4> QED  BY <1>1, <1>3, <1>4, <2>4, <4>1
    <3>5. q + 1 \in 0 .. SectorsIn(c) - 1
      BY <1>1, <1>2, <1>3, <3>4
    <3>6. AtSector(g, q + 1)
      BY <1>5, <2>3, <3>1, <3>2, <3>3, <3>5 DEF AtSector
    <3> QED  BY <1>1, <1>2, <1>3, <3>2, <3>4, <3>6 DEF c
  <2> QED  BY <1>1, <1>3, <2>5, <2>6
<1> QED  BY <1>1, <1>4, <1>6, <1>7

------------------------------------------------------------------------------
(* The reader: chunks and disk. *)

\* min of 16-bit ints is the minimum of numbers an int can hold.
LEMMA MinSmall ==
  ASSUME W16 <= W32, NEW a \in Nat, NEW b \in Nat, a < W16 \div 2, b < W16 \div 2
  PROVE  MinInt(a, b) = IF a < b THEN a ELSE b
<1>1. W16 \in Nat \ {0} /\ W32 \in Nat \ {0} /\ W16 \div 2 < W16
  BY DriveAssumption, VolumeAssumption
<1>2. a \in 0 .. W16 - 1 /\ b \in 0 .. W16 - 1 /\ a \in 0 .. W32 - 1 /\ b \in 0 .. W32 - 1
  BY <1>1
<1>3. a % W16 = a /\ b % W16 = b /\ a % W32 = a /\ b % W32 = b
  BY <1>1, <1>2, SmallMod
<1>4. ToInt(a) = a /\ ToInt(b) = b
  BY <1>3 DEF ToInt
<1> QED  BY <1>3, <1>4 DEF MinInt

\* A few bytes further on in a sector.
LEMMA WithinSector ==
  ASSUME NEW p \in Nat, NEW t \in Nat, (p % SectorSize) + t < SectorSize
  PROVE  (p + t) \div SectorSize = p \div SectorSize /\ (p + t) % SectorSize = (p % SectorSize) + t
<1>1. SectorSize \in Nat \ {0}
  BY VolumeAssumption
<1> DEFINE q == p \div SectorSize
           r == p % SectorSize
<1>2. p = SectorSize * q + r /\ q \in Nat /\ r \in 0 .. SectorSize - 1
  BY <1>1, DivMod
<1>3. r + t \in 0 .. SectorSize - 1
  BY <1>1, <1>2
<1> HIDE DEF q, r
<1>4. p + t = SectorSize * q + (r + t)
  <2>1. SectorSize * q \in Nat
    BY <1>1, <1>2
  <2> QED  BY <1>2, <2>1
<1>5. (SectorSize * q + (r + t)) \div SectorSize = q /\ (SectorSize * q + (r + t)) % SectorSize = r + t
  BY <1>1, <1>2, <1>3, DivUnique
<1> QED  BY <1>4, <1>5 DEF q, r

\* All that is left in a sector.
LEMMA ToBoundary ==
  ASSUME NEW p \in Nat
  PROVE  /\ p + (SectorSize - (p % SectorSize)) = SectorSize * (p \div SectorSize + 1)
         /\ SectorSize - (p % SectorSize) \in 1 .. SectorSize /\ p \div SectorSize \in Nat
<1>1. SectorSize \in Nat \ {0}
  BY VolumeAssumption
<1> DEFINE q == p \div SectorSize
           r == p % SectorSize
<1>2. p = SectorSize * q + r /\ q \in Nat /\ r \in 0 .. SectorSize - 1
  BY <1>1, DivMod
<1> HIDE DEF q, r
<1>3. SectorSize * (q + 1) = SectorSize * q + SectorSize /\ SectorSize * q \in Nat
  BY <1>1, <1>2
<1>4. p + (SectorSize - r) = SectorSize * (q + 1) /\ SectorSize - r \in 1 .. SectorSize
  BY <1>1, <1>2, <1>3
<1> QED  BY <1>2, <1>4 DEF q, r

\* The start of a sector.
LEMMA AtStart ==
  ASSUME NEW q \in Nat
  PROVE  /\ SectorSize * q \in Nat
         /\ (SectorSize * q) \div SectorSize = q /\ (SectorSize * q) % SectorSize = 0
<1>1. SectorSize \in Nat \ {0}
  BY VolumeAssumption
<1>2. (SectorSize * q + 0) \div SectorSize = q /\ (SectorSize * q + 0) % SectorSize = 0
  BY <1>1, DivUnique
<1>3. SectorSize * q \in Nat
  BY <1>1
<1>4. SectorSize * q + 0 = SectorSize * q
  BY <1>3
<1> QED  BY <1>2, <1>3, <1>4

\* A position below the end of a chain lies in one of its sectors.
LEMMA InCover ==
  ASSUME NEW c \in DOMAIN Chain, NEW p \in Nat, p < SectorsIn(c) * SectorSize
  PROVE  p \div SectorSize \in 0 .. SectorsIn(c) - 1
<1>1. SectorSize \in Nat \ {0} /\ SectorsIn(c) \in Nat
  BY VolumeAssumption, ChainAssumption DEF SectorsIn
<1>2. p < SectorSize * SectorsIn(c)
  BY <1>1
<1>3. p \div SectorSize < SectorsIn(c) /\ p \div SectorSize \in Nat
  BY <1>1, <1>2, DivBound, DivMod
<1> QED  BY <1>1, <1>3

\* A sector of the volume is read from where it is (disk.c:20-31).
LEMMA ReachesIt ==
  ASSUME lba \in 0 .. Sectors - 1
  PROVE  Reached = lba
<1>1. lba \in Nat /\ lba < DriveSectors /\ lba < W16
  <2>1. Sectors \in Nat /\ Sectors <= DriveSectors /\ Sectors <= W16 /\ W16 \in Nat
        /\ DriveSectors \in Nat
    BY VolumeAssumption, DiskAssumption, DriveAssumption DEF DriveSectors
  <2> QED  BY <2>1
<1> QED  BY <1>1, Stage2Means DEF Reached

------------------------------------------------------------------------------
(* The reader: its table of files. *)

FdOK == fd \in [Handles \cup {Root} -> FileState]

\* Two states of a handle that differ in the buffer only.
SameFile(f, g) ==
  /\ g.opened = f.opened /\ g.isDir = f.isDir /\ g.pos = f.pos /\ g.size = f.size
  /\ g.first = f.first /\ g.cluster = f.cluster /\ g.sec = f.sec

LEMMA SameButBuf ==
  ASSUME FdOK, NEW h \in Handles \cup {Root}, NEW b \in Int,
         fd' = fd \/ fd' = [fd EXCEPT ![h].buf = b]
  PROVE  /\ FdOK' /\ \A i \in Handles \cup {Root} : SameFile(fd[i], fd'[i])
         /\ \A i \in Handles \cup {Root} : i # h => fd'[i] = fd[i]
<1>1. CASE fd' = fd
  BY <1>1 DEF FdOK, SameFile
<1>2. CASE fd' = [fd EXCEPT ![h].buf = b]
  <2>1. fd' = [fd EXCEPT ![h] = [fd[h] EXCEPT !.buf = b]]
    BY <1>2 DEF FdOK
  <2>2. fd[h] \in FileState
    BY DEF FdOK
  <2> DEFINE g == [fd[h] EXCEPT !.buf = b]
  <2>3. g \in FileState /\ SameFile(fd[h], g)
    BY <2>2 DEF FileState, SameFile
  <2>4. \A i \in Handles \cup {Root} : fd'[i] = IF i = h THEN g ELSE fd[i]
    BY <2>1 DEF FdOK
  <2> HIDE DEF g
  <2>5. FdOK'
    BY <2>1, <2>3 DEF FdOK, g
  <2>6. \A i \in Handles \cup {Root} : SameFile(fd[i], fd'[i])
    BY <2>3, <2>4 DEF SameFile
  <2> QED  BY <2>4, <2>5, <2>6
<1> QED  BY <1>1, <1>2

\* Whatever it is asked for, disk.c names a number to the BIOS.
LEMMA ReachesSector == ASSUME lba \in Nat PROVE Reached \in Int
<1> DEFINE x == lba % W16
           t == x \div Spt
           c == t \div Heads
           h == t % Heads
           s == (x % Spt) + 1
           r == DiskRegs([cylinder |-> c, sector |-> s, head |-> h])
<1>1. /\ Spt \in Nat \ {0} /\ Heads \in Nat \ {0} /\ SecMod \in Nat \ {0}
      /\ CylLow \in Nat \ {0} /\ CylHigh \in Nat \ {0} /\ W16 \in Nat \ {0}
  BY DriveAssumption
<1>2. x \in Nat
  BY <1>1, DivNat
<1>3. Reached = BiosSector(r)
  BY GeometryLearnt DEF Reached, Lba2Chs
<1> HIDE DEF x
<1>4. t \in Nat /\ s \in Nat
  BY <1>1, <1>2, DivNat
<1> HIDE DEF t, s
<1>5. c \in Nat /\ h \in Nat
  BY <1>1, <1>4, DivNat
<1> HIDE DEF c, h
<1>6. c \div CylLow \in Nat /\ c % CylLow \in Nat /\ s % SecMod \in Nat
  BY <1>1, <1>4, <1>5, DivNat
<1>7. (c \div CylLow) % CylHigh \in Nat
  BY <1>1, <1>6, DivNat
<1>8. r.ch \in Nat /\ r.cl \in Nat /\ r.dh \in Nat
  BY <1>1, <1>5, <1>6, <1>7 DEF DiskRegs
<1> HIDE DEF r
<1>9. r.cl \div SecMod \in Nat /\ r.cl % SecMod \in Nat
  BY <1>1, <1>8, DivNat
<1>10. BiosSector(r) \in Int
  BY <1>1, <1>8, <1>9 DEF BiosSector
<1> QED  BY <1>3, <1>10

\* A step of disk.c: the sector, another attempt, or the end of them, which a
\* sector of the volume comes to only if it cannot be read (disk.c:33-65).
LEMMA DiskDoes ==
  ASSUME FdOK, pc = "disk", lba \in Nat, Disk, Buffered => cur \in Handles \cup {Root}
  PROVE  /\ FdOK' /\ \A h \in Handles \cup {Root} : SameFile(fd[h], fd'[h])
         /\ \A h \in Handles \cup {Root} : h # cur \/ ~Buffered => fd'[h] = fd[h]
         /\ UNCHANGED <<path, copied, io, lba>>
         /\ \/ /\ UNCHANGED <<op, cur, answer>>
               /\ Buffered /\ lba \in 0 .. Sectors - 1 => fd'[cur].buf = lba
               /\ io = "boot" => pc' = "checkBoot"
               /\ io = "fat"  => pc' = "openRoot"
               /\ io = "root" => pc' = "rootRead"
               /\ io = "open" => pc' = "opened"
               /\ io = "read" => pc' = "loop"
            \/ pc' = "disk" /\ UNCHANGED <<op, cur, answer>>
            \/ /\ lba \in 0 .. Sectors - 1 => lba \in Fatal
               /\ io \in {"boot", "fat", "root"} =>
                    Return([op |-> "initialized", ok |-> FALSE]) /\ UNCHANGED cur
               /\ io = "open" => pc' = "openNull" /\ cur' = Null /\ UNCHANGED <<op, answer>>
               /\ io = "read" => pc' = "done" /\ UNCHANGED <<op, cur, answer>>
<1>1. Reached \in Int /\ Junk \in Int /\ (lba \in 0 .. Sectors - 1 => Reached = lba /\ lba < Sectors)
      /\ Sectors \in Nat
  BY ReachesSector, ReachesIt, VolumeAssumption DEF Junk
<1> DEFINE Others == \A h \in Handles \cup {Root} : h # cur \/ ~Buffered => fd'[h] = fd[h]
           Same == FdOK' /\ \A h \in Handles \cup {Root} : SameFile(fd[h], fd'[h])
<1>2. ASSUME NEW b \in Int, fd' \in IF Buffered THEN {[fd EXCEPT ![cur].buf = b], fd} ELSE {fd}
      PROVE  Same /\ Others
  <2>1. CASE Buffered
    BY <1>2, <2>1, SameButBuf
  <2>2. CASE ~Buffered
    <3>1. fd' = fd /\ Root \in Handles \cup {Root}
      BY <1>2, <2>2
    <3> QED  BY <1>1, <3>1, SameButBuf
  <2> QED  BY <2>1, <2>2
<1>3. CASE DiskRead
  <2>1. /\ fd' = IF Buffered THEN [fd EXCEPT ![cur].buf = Reached] ELSE fd
        /\ UNCHANGED <<op, cur, path, copied, disk, answer>>
        /\ io = "boot" => pc' = "checkBoot"
        /\ io = "fat"  => pc' = "openRoot"
        /\ io = "root" => pc' = "rootRead"
        /\ io = "open" => pc' = "opened"
        /\ io = "read" => pc' = "loop"
    BY <1>3 DEF DiskRead
  <2>2. Buffered => fd'[cur].buf = Reached
    BY <2>1 DEF FdOK, FileState
  <2>3. fd' \in IF Buffered THEN {[fd EXCEPT ![cur].buf = Reached], fd} ELSE {fd}
    BY <2>1
  <2>4. Same /\ Others
    BY <1>1, <1>2, <2>3
  <2> HIDE DEF Same, Others
  <2>5. Buffered /\ lba \in 0 .. Sectors - 1 => fd'[cur].buf = lba
    BY <1>1, <2>2
  <2> QED  BY <2>1, <2>4, <2>5 DEF disk, Same, Others
<1>4. ASSUME fd' \in IF Buffered THEN {[fd EXCEPT ![cur].buf = Junk], fd} ELSE {fd}
      PROVE  Same /\ Others
  BY <1>1, <1>2, <1>4
<1>5. CASE DiskRetries
  BY <1>4, <1>5 DEF DiskRetries
<1>6. CASE DiskFails
  <2>1. lba \in 0 .. Sectors - 1 => lba \in Fatal
    BY <1>1, <1>6 DEF DiskFails
  <2>2. UNCHANGED <<path, copied, io, lba>>
    BY <1>6 DEF DiskFails, disk
  <2>3. /\ io \in {"boot", "fat", "root"} =>
             Return([op |-> "initialized", ok |-> FALSE]) /\ UNCHANGED cur
        /\ io = "open" => pc' = "openNull" /\ cur' = Null /\ UNCHANGED <<op, answer>>
        /\ io = "read" => pc' = "done" /\ UNCHANGED <<op, cur, answer>>
    BY <1>6 DEF DiskFails
  <2>4. Same /\ Others
    BY <1>4, <1>6 DEF DiskFails
  <2> QED  BY <2>1, <2>2, <2>3, <2>4
<1> QED  BY <1>3, <1>5, <1>6 DEF Disk

\* Bytes in a row of one sector are a sequence.
BytesFrom(b, o, n) == [i \in 1 .. n |-> <<b, o + i - 1>>]

LEMMA BytesSeq ==
  ASSUME NEW n \in Nat, NEW b, NEW o, NEW T, \A i \in 1 .. n : <<b, o + i - 1>> \in T
  PROVE  BytesFrom(b, o, n) \in Seq(T) /\ Len(BytesFrom(b, o, n)) = n
<1>1. BytesFrom(b, o, n) \in [1 .. n -> T]
  BY DEF BytesFrom
<1> QED  BY <1>1


\* n bytes of a file from byte b on, and how those of a sector continue them.
FileBytes(c, b, n) == [i \in 1 .. n |-> <<SectorOf(c, b + i - 1), (b + i - 1) % SectorSize>>]

LEMMA FileBytesAppend ==
  ASSUME NEW c, NEW a \in Nat, NEW p \in Nat, NEW t \in Nat,
         ((a + p) % SectorSize) + t <= SectorSize
  PROVE  FileBytes(c, a, p) \o BytesFrom(SectorNo(c, (a + p) \div SectorSize), (a + p) % SectorSize, t)
           = FileBytes(c, a, p + t)
<1> DEFINE r == (a + p) % SectorSize
           b == SectorNo(c, (a + p) \div SectorSize)
           Byte(i) == <<SectorOf(c, a + i - 1), (a + i - 1) % SectorSize>>
           T == {Byte(i) : i \in 1 .. p + t}
<1>1. \A n \in 0 .. p + t : FileBytes(c, a, n) \in Seq(T) /\ Len(FileBytes(c, a, n)) = n
  <2> SUFFICES ASSUME NEW n \in 0 .. p + t
               PROVE  FileBytes(c, a, n) \in Seq(T) /\ Len(FileBytes(c, a, n)) = n
    OBVIOUS
  <2>1. n \in Nat /\ \A i \in 1 .. n : i \in 1 .. p + t
    OBVIOUS
  <2>2. \A i \in 1 .. n : Byte(i) \in T
    BY <2>1
  <2>3. FileBytes(c, a, n) = [i \in 1 .. n |-> Byte(i)]
    BY DEF FileBytes
  <2> HIDE DEF T, Byte
  <2>4. FileBytes(c, a, n) \in [1 .. n -> T]
    BY <2>2, <2>3
  <2> QED  BY <2>1, <2>4
<1>2. \A i \in 1 .. t : <<b, r + i - 1>> = Byte(p + i) /\ p + i \in 1 .. p + t
  <2> SUFFICES ASSUME NEW i \in 1 .. t
               PROVE  <<b, r + i - 1>> = Byte(p + i) /\ p + i \in 1 .. p + t
    BY Zenon
  <2>0. p + i \in 1 .. p + t
    OBVIOUS
  <2>1. r \in 0 .. SectorSize - 1 /\ SectorSize \in Nat
    <3>1. a + p \in Nat /\ SectorSize \in Nat \ {0}
      BY VolumeAssumption
    <3> QED  BY <3>1, DivMod
  <2>2. i - 1 \in Nat /\ r + (i - 1) < SectorSize
    BY <2>1
  <2>3. /\ ((a + p) + (i - 1)) \div SectorSize = (a + p) \div SectorSize
        /\ ((a + p) + (i - 1)) % SectorSize = r + (i - 1)
    BY <2>2, WithinSector
  <2>4. a + (p + i) - 1 = (a + p) + (i - 1) /\ r + i - 1 = r + (i - 1)
    BY <2>1
  <2>5. SectorOf(c, a + (p + i) - 1) = b
    BY <2>3, <2>4, SectorOfNo
  <2> QED  BY <2>0, <2>3, <2>4, <2>5
<1>3. BytesFrom(b, r, t) \in Seq(T) /\ Len(BytesFrom(b, r, t)) = t
  <2>1. \A i \in 1 .. t : <<b, r + i - 1>> \in T
    BY <1>2
  <2> HIDE DEF T
  <2> QED  BY <2>1, BytesSeq
<1>4. p \in 0 .. p + t /\ p + t \in 0 .. p + t
  OBVIOUS
<1> HIDE DEF T
<1>5. /\ FileBytes(c, a, p) \in Seq(T) /\ Len(FileBytes(c, a, p)) = p
      /\ FileBytes(c, a, p + t) \in Seq(T) /\ Len(FileBytes(c, a, p + t)) = p + t
  BY <1>1, <1>4
<1> DEFINE s1 == FileBytes(c, a, p)
           s2 == BytesFrom(b, r, t)
<1>6. /\ s1 \o s2 \in Seq(T) /\ Len(s1 \o s2) = p + t
      /\ \A i \in 1 .. p + t : (s1 \o s2)[i] = IF i <= p THEN s1[i] ELSE s2[i - p]
  <2>1. s1 \in Seq(T) /\ s2 \in Seq(T) /\ Len(s1) = p /\ Len(s2) = t
    BY <1>3, <1>5
  <2> HIDE DEF s1, s2
  <2> QED  BY <2>1, ConcatProperties
<1>7. \A i \in 1 .. p + t : (s1 \o s2)[i] = FileBytes(c, a, p + t)[i]
  <2> SUFFICES ASSUME NEW i \in 1 .. p + t PROVE (s1 \o s2)[i] = Byte(i)
    BY DEF FileBytes
  <2>1. CASE i <= p
    <3>1. i \in 1 .. p
      BY <2>1
    <3>2. s1[i] = Byte(i)
      BY <3>1 DEF FileBytes
    <3> HIDE DEF s1, s2, Byte
    <3> QED  BY <1>6, <2>1, <3>2
  <2>2. CASE ~(i <= p)
    <3> DEFINE k == i - p
    <3>1. k \in 1 .. t /\ p + k = i
      BY <2>2
    <3>2. s2[k] = <<b, r + k - 1>>
      BY <3>1 DEF BytesFrom
    <3>3. s2[k] = Byte(i)
      BY <1>2, <3>1, <3>2
    <3> HIDE DEF s1, s2, Byte
    <3> QED  BY <1>6, <2>2, <3>3
  <2> QED  BY <2>1, <2>2
<1> HIDE DEF s1, s2
<1>8. s1 \o s2 = FileBytes(c, a, p + t)
  BY <1>5, <1>6, <1>7, SeqEqual
<1> QED  BY <1>8 DEF s1, s2

------------------------------------------------------------------------------
(* The invariant. *)

IsFile(f) == f.isDir = FALSE /\ \E e \in FileEntries : f.first = e.first /\ f.size = e.size

\* Unless the file is at its end, its handle stands at the sector of its
\* position and has that sector in its buffer.
AtPosition(f) ==
  f.pos < f.size =>
    AtSector(f, f.pos \div SectorSize) /\ f.buf = SectorNo(f.first, f.pos \div SectorSize)

\* An open file that no call is working on.
FileOK(f) == IsFile(f) /\ f.pos <= f.size /\ AtPosition(f)

\* A directory is read entry by entry.
AtEntry(f) == f.isDir = TRUE /\ f.pos % EntrySize = 0

Busy(h) == h = cur /\ op \in {"open", "read"}

HandlesOK == \A h \in Handles : fd[h].opened /\ ~Busy(h) => FileOK(fd[h])
RootOK    == ~Unready => AtEntry(fd[Root])
EarlyOK   == Unready => \A h \in Handles : ~fd[h].opened
TableOK   == FdOK /\ HandlesOK /\ RootOK /\ EarlyOK

BetweenCalls == pc = "idle" /\ op = "none"

DuringInitialize ==
  /\ op = "initialize" /\ Unready
  /\ \/ pc = "disk" /\ io \in {"boot", "fat"} /\ lba \in Nat
     \/ pc \in {"checkBoot", "openRoot"}
     \/ pc = "disk" /\ io = "root" /\ lba \in Nat /\ cur = Root /\ AtEntry(fd[Root])
     \/ pc = "rootRead" /\ AtEntry(fd[Root])

\* FAT_Open reads an entry of a directory: all of it, in one turn of the loop.
Scanning ==
  /\ cur \in Handles \cup {Root} /\ AtEntry(fd[cur]) /\ LeadsToFile(path)
  /\ \/ pc = "find"
     \/ pc = "loop" /\ left = EntrySize /\ got = <<>>
     \/ /\ left = 0 /\ Len(got) = EntrySize /\ EntryAt(got[1]) \in Entries \cup {NoEntry}
        /\ pc \in {"loop", "boundary", "done"} \/ (pc = "disk" /\ io = "read" /\ lba \in Nat)

\* It has found the last name of the path, or the next directory.
Entering ==
  /\ cur \in Handles /\ ~fd[cur].opened /\ fd[cur].pos = 0
  /\ pc = "opened" \/ (pc = "disk" /\ io = "open" /\ lba \in Nat)
  /\ IF path = <<>>
     THEN /\ IsFile(fd[cur]) /\ AtSector(fd[cur], 0)
          /\ pc = "disk" => lba = SectorNo(fd[cur].first, 0)
          /\ pc = "opened" => fd[cur].buf = SectorNo(fd[cur].first, 0)
     ELSE AtEntry(fd[cur]) /\ LeadsToFile(path)

\* There is no handle for the file, or the directory could not be read.
Abandoned ==
  /\ cur = Null
  /\ pc = "lost" \/ (pc = "openNull" /\ (path = <<>> => Free(fd) = {}))

DuringOpen == op = "open" /\ ~Unready /\ (Scanning \/ Entering \/ Abandoned)

\* FAT_Read of n bytes has copied count, the ones before the handle's position,
\* and still wants left.
Copied(f, n) ==
  /\ count \in Nat /\ count <= f.pos /\ left \in Nat /\ f.pos + left <= f.size
  /\ got = FileBytes(f.first, f.pos - count, count)
  /\ count + left = MinWide(n, f.size - (f.pos - count))

Standing(f) ==
  \/ pc = "loop" /\ AtPosition(f)
  \/ pc = "boundary" /\ \E q \in 0 .. SectorsIn(f.first) - 1 :
       f.pos = SectorSize * (q + 1) /\ AtSector(f, q)
  \/ pc = "disk" /\ io = "read" /\ \E q \in 0 .. SectorsIn(f.first) - 1 :
       f.pos = SectorSize * q /\ AtSector(f, q) /\ lba = SectorNo(f.first, q)
  \/ pc = "done" /\ left = 0 /\ AtPosition(f)

DuringRead ==
  /\ op = "read" /\ ~Unready /\ cur \in Handles /\ fd[cur].opened
  /\ IsFile(fd[cur]) /\ (\E n \in Counts : Copied(fd[cur], n)) /\ Standing(fd[cur])

FInv == TableOK /\ (BetweenCalls \/ DuringInitialize \/ DuringOpen \/ DuringRead)

------------------------------------------------------------------------------
(* Its parts. *)

\* What the limits say about the widths.
LEMMA Limits ==
  ASSUME WithinLimits
  PROVE  /\ SectorSize \in Nat \ {0} /\ EntrySize \in Nat \ {0} /\ EntrySize <= SectorSize
         /\ W16 \in Nat \ {0} /\ W32 \in Nat \ {0} /\ W16 \div 2 \in Nat
         /\ SectorSize < W16 \div 2 /\ W16 \div 2 <= W16 /\ W16 <= W32
<1>1. /\ SectorSize \in Nat \ {0} /\ EntrySize \in Nat \ {0} /\ SectorSize % EntrySize = 0
      /\ W16 \in Nat \ {0} /\ W32 \in Nat \ {0} /\ W16 <= W32 /\ SectorSize < W16 \div 2
  BY VolumeAssumption, DriveAssumption, DiskAssumption DEF WithinLimits
<1>2. W16 \div 2 \in Nat /\ W16 \div 2 <= W16
  BY <1>1
<1>3. EntrySize <= SectorSize
  <2>1. 0 * EntrySize = 0 /\ 0 % SectorSize = 0
    BY <1>1
  <2> QED  BY <1>1, <2>1, EntriesTile
<1> QED  BY <1>1, <1>2, <1>3

\* The root is not a handle.
LEMMA RootApart == Root \notin Handles /\ Null \notin Handles /\ Null # Root /\ Handles \subseteq Nat
BY DiskAssumption DEF Root, Null, Handles

\* A file of the volume has a chain that is long enough.
LEMMA FileChain ==
  ASSUME WithinLimits, NEW f \in FileState, IsFile(f)
  PROVE  /\ f.first \in DOMAIN Chain /\ SectorsIn(f.first) \in Nat \ {0}
         /\ f.size <= SectorsIn(f.first) * SectorSize /\ f.size < W16 \div 2
<1>1. PICK e \in FileEntries : f.first = e.first /\ f.size = e.size
  BY DEF IsFile
<1>2. e.first \in DOMAIN Chain /\ e.size <= Len(Chain[e.first]) * SectorsPerCluster * SectorSize
      /\ e.size < W16 \div 2
  BY FilesAssumption DEF WithinLimits
<1>3. Len(Chain[e.first]) \in Nat \ {0}
  <2>1. Chain[e.first] \in Seq(2 .. EOC - 1) /\ Chain[e.first] # <<>>
    BY <1>2, ChainAssumption
  <2> QED  BY <2>1
<1>4. SectorsPerCluster \in Nat \ {0}
  BY VolumeAssumption
<1>5. SectorsIn(e.first) \in Nat \ {0}
  <2> DEFINE n == Len(Chain[e.first])
  <2>1. n \in Nat \ {0}
    BY <1>3
  <2> HIDE DEF n
  <2>2. n * SectorsPerCluster \in Nat \ {0}
    BY <1>4, <2>1
  <2> QED  BY <2>2 DEF SectorsIn, n
<1> QED  BY <1>1, <1>2, <1>5 DEF SectorsIn

\* A step in the middle of a call, of which its caller sees nothing: the open
\* files other than the one it works on stay as they are, and no other appears.
Unseen ==
  /\ UNCHANGED <<op, answer>>
  /\ \A h \in Handles :
       IF fd[h].opened /\ h # cur THEN fd'[h] = fd[h] /\ h # cur'
                                 ELSE ~fd'[h].opened \/ h = cur'

\* A step that keeps the call and the other handles keeps what is known of them.
LEMMA OthersKept ==
  ASSUME TableOK, ~Unready, op \in {"open", "read"}, UNCHANGED <<op, cur, answer>>,
         FdOK', \A h \in Handles \cup {Root} : h # cur => fd'[h] = fd[h],
         cur = Root => AtEntry(fd'[Root])
  PROVE  TableOK' /\ ~Unready' /\ Unseen
<1>1. ~Unready'
  BY DEF Unready
<1>2. RootOK'
  <2>1. CASE cur = Root
    BY <2>1 DEF RootOK
  <2>2. CASE cur # Root
    BY <2>2 DEF TableOK, RootOK
  <2> QED  BY <2>1, <2>2
<1>3. HandlesOK'
  <2> SUFFICES ASSUME NEW h \in Handles, fd'[h].opened, ~Busy(h)' PROVE FileOK(fd'[h])
    BY DEF HandlesOK
  <2>1. h # cur /\ ~Busy(h)
    BY DEF Busy
  <2>2. fd'[h] = fd[h]
    BY <2>1
  <2> QED  BY <2>1, <2>2 DEF TableOK, HandlesOK
<1>4. Unseen
  BY DEF Unseen
<1> QED  BY <1>1, <1>2, <1>3, <1>4 DEF TableOK, EarlyOK

\* So does one that changes the table at no handle.
LEMMA CurKept ==
  ASSUME TableOK, ~Unready, op \in {"open", "read"}, cur \in Handles \cup {Root},
         UNCHANGED <<op, cur, answer>>, NEW g \in FileState, fd' = [fd EXCEPT ![cur] = g],
         cur = Root => AtEntry(g)
  PROVE  TableOK' /\ ~Unready' /\ Unseen /\ fd'[cur] = g /\ fd'[cur'] = g
<1>1. FdOK'
  BY DEF TableOK, FdOK
<1>2. \A h \in Handles \cup {Root} : fd'[h] = IF h = cur THEN g ELSE fd[h]
  BY DEF TableOK, FdOK
<1>3. cur = Root => AtEntry(fd'[Root])
  BY <1>2
<1> QED  BY <1>1, <1>2, <1>3, OthersKept

------------------------------------------------------------------------------
(* FAT_Open searches a directory. *)

\* An entry lies in one sector, and the one behind it in one as well.
LEMMA EntryFits ==
  ASSUME WithinLimits, NEW p \in Nat, p % EntrySize = 0
  PROVE  /\ (p % SectorSize) + EntrySize <= SectorSize
         /\ (p + EntrySize) % W32 \in Nat /\ ((p + EntrySize) % W32) % EntrySize = 0
<1> DEFINE n == p \div EntrySize
           x == p + EntrySize
           w == x \div W32
           m == W32 \div EntrySize
<1>1. EntrySize \in Nat \ {0} /\ W32 \in Nat \ {0} /\ W32 % EntrySize = 0
  BY Limits DEF WithinLimits
<1>2. p = EntrySize * n + 0 /\ n \in Nat
  BY <1>1, DivMod
<1>3. n * EntrySize = p
  <2> HIDE DEF n
  <2> QED  BY <1>1, <1>2
<1>4. (p % SectorSize) + EntrySize <= SectorSize
  BY <1>2, <1>3, EntriesTile
<1>5. x \in Nat /\ x = W32 * w + (x % W32) /\ w \in Nat /\ x % W32 \in Nat
  <2>1. x \in Nat
    BY <1>1
  <2> QED  BY <1>1, <2>1, DivMod
<1>6. W32 = EntrySize * m + 0 /\ m \in Nat
  BY <1>1, DivMod
<1> DEFINE r == x % W32
           d == (n + 1) - m * w
<1>7. x = EntrySize * (n + 1)
  <2> HIDE DEF n
  <2> QED  BY <1>1, <1>2
<1> HIDE DEF n, x, w, m, r
<1>8. d \in Int /\ r = EntrySize * d
  <2>1. W32 * w = EntrySize * (m * w) /\ m * w \in Nat
    BY <1>1, <1>5, <1>6
  <2>2. EntrySize * d = EntrySize * (n + 1) - EntrySize * (m * w)
    BY <1>1, <1>2, <2>1
  <2>3. r = x - W32 * w
    <3>1. W32 * w \in Nat
      BY <1>1, <1>5
    <3> QED  BY <1>5, <3>1 DEF r
  <2> QED  BY <1>2, <1>7, <2>1, <2>2, <2>3
<1> HIDE DEF d
<1>9. d \in Nat
  <2> SUFFICES ASSUME d < 0 PROVE FALSE
    BY <1>8
  <2>1. EntrySize * d < 0
    BY <1>1, <1>8
  <2> QED  BY <1>5, <1>8, <2>1 DEF r
<1>10. (EntrySize * d + 0) % EntrySize = 0
  BY <1>1, <1>9, DivUnique
<1>11. r % EntrySize = 0
  BY <1>1, <1>8, <1>9, <1>10
<1> QED  BY <1>4, <1>5, <1>11 DEF r, x

\* One turn of the loop copies the whole entry (fat.c:204-217).
LEMMA CopiesEntry ==
  ASSUME WithinLimits, TableOK, DuringOpen, Scanning, CopyChunk
  PROVE  TableOK' /\ DuringOpen' /\ Unseen
<1> DEFINE f == fd[cur]
           r == f.pos % SectorSize
           room == SectorSize - r
           take == MinInt(left, room)
<1>1. /\ cur \in Handles \cup {Root} /\ AtEntry(f) /\ LeadsToFile(path)
      /\ left = EntrySize /\ got = <<>>
  BY DEF Scanning, CopyChunk
<1>2. f \in FileState /\ f.pos \in Nat /\ f.buf \in Int
  BY <1>1 DEF TableOK, FdOK, FileState
<1>3. f.pos % EntrySize = 0 /\ f.isDir = TRUE
  BY <1>1 DEF AtEntry
<1>4. r + EntrySize <= SectorSize /\ (f.pos + EntrySize) % W32 \in Nat
      /\ ((f.pos + EntrySize) % W32) % EntrySize = 0
  BY <1>2, <1>3, EntryFits
<1>5. r \in 0 .. SectorSize - 1
  BY <1>2, Limits, DivMod
<1>6. /\ got' = got \o [i \in 1 .. take % W16 |-> <<f.buf, r + i - 1>>]
      /\ fd' = [fd EXCEPT ![cur].pos = (@ + take) % W32]
      /\ left' = (left - take) % W32
      /\ pc' \in {"loop", "boundary"}
      /\ UNCHANGED <<op, cur, path, answer>>
  BY DEF CopyChunk
<1> HIDE DEF r
<1>7. take = EntrySize
  <2>1. room \in Nat /\ EntrySize \in Nat /\ EntrySize < W16 \div 2 /\ room < W16 \div 2
        /\ EntrySize <= room
    BY <1>4, <1>5, Limits
  <2> HIDE DEF room
  <2>2. take = IF EntrySize < room THEN EntrySize ELSE room
    BY <1>1, <2>1, MinSmall, Limits
  <2> QED  BY <2>1, <2>2
<1> HIDE DEF take
<1>8. take % W16 = EntrySize /\ left' = 0
  <2>1. EntrySize \in 0 .. W16 - 1 /\ 0 \in 0 .. W32 - 1 /\ EntrySize - EntrySize = 0
    BY Limits
  <2> QED  BY <1>1, <1>6, <1>7, <2>1, SmallMod, Limits
<1> DEFINE b == BytesFrom(f.buf, r, EntrySize)
           T == {<<f.buf, r + i - 1>> : i \in 1 .. EntrySize}
<1>9. b \in Seq(T) /\ Len(b) = EntrySize
  <2>1. EntrySize \in Nat /\ \A i \in 1 .. EntrySize : <<f.buf, r + i - 1>> \in T
    BY Limits
  <2> HIDE DEF T
  <2> QED  BY <2>1, BytesSeq
<1>10. got' = <<>> \o b
  BY <1>1, <1>6, <1>8 DEF BytesFrom
<1>11. b[1] = <<f.buf, r>>
  <2>1. 1 \in 1 .. EntrySize /\ r + 1 - 1 = r
    BY <1>5, Limits
  <2> QED  BY <2>1 DEF BytesFrom
<1> HIDE DEF b, T
<1>12. got' = b
  BY <1>9, <1>10
<1>13. EntryAt(got'[1]) \in Entries \cup {NoEntry}
  BY <1>5, <1>11, <1>12, EntryIsThere
<1> DEFINE g == [f EXCEPT !.pos = (f.pos + EntrySize) % W32]
<1>14. fd' = [fd EXCEPT ![cur] = g]
  BY <1>1, <1>6, <1>7 DEF TableOK, FdOK
<1>15. g \in FileState /\ AtEntry(g)
  BY <1>2, <1>3, <1>4 DEF FileState, AtEntry
<1> HIDE DEF f, g
<1>16. TableOK' /\ ~Unready' /\ Unseen /\ fd'[cur'] = g
  BY <1>1, <1>6, <1>14, <1>15, CurKept DEF DuringOpen
<1>17. Scanning'
  BY <1>1, <1>6, <1>8, <1>9, <1>12, <1>13, <1>15, <1>16 DEF Scanning
<1> QED  BY <1>6, <1>16, <1>17 DEF DuringOpen

\* Between one copy and the next a directory only changes its place.
LEMMA ScansOn ==
  ASSUME WithinLimits, TableOK, DuringOpen, Scanning, pc = "boundary", NextRootSector \/ NextSector
  PROVE  TableOK' /\ DuringOpen' /\ Unseen
<1>1. /\ cur \in Handles \cup {Root} /\ AtEntry(fd[cur]) /\ LeadsToFile(path)
      /\ left = 0 /\ Len(got) = EntrySize /\ EntryAt(got[1]) \in Entries \cup {NoEntry}
      /\ op = "open" /\ ~Unready
  BY DEF Scanning, DuringOpen
<1>2. fd[cur] \in FileState
  BY <1>1 DEF TableOK, FdOK
<1>3. UNCHANGED <<op, cur, path, copied, answer>>
  BY DEF NextRootSector, NextSector
<1>4. SUFFICES \E g \in FileState :
                 /\ fd' = [fd EXCEPT ![cur] = g] /\ AtEntry(g)
                 /\ pc' = "done" \/ (pc' = "disk" /\ io' = "read" /\ lba' \in Nat)
  <2>1. PICK g \in FileState :
          /\ fd' = [fd EXCEPT ![cur] = g] /\ AtEntry(g)
          /\ pc' = "done" \/ (pc' = "disk" /\ io' = "read" /\ lba' \in Nat)
    BY <1>4
  <2>2. TableOK' /\ ~Unready' /\ Unseen /\ fd'[cur'] = g
    BY <1>1, <1>3, <2>1, CurKept
  <2>3. Scanning'
    BY <1>1, <1>3, <2>1, <2>2 DEF Scanning, copied
  <2> QED  BY <1>1, <1>3, <2>2, <2>3 DEF DuringOpen
<1>5. W32 \in Nat \ {0}
  BY Limits
<1>6. CASE NextRootSector
  <2>1. cur = Root
    BY <1>6 DEF NextRootSector
  <2>2. CASE fd[Root].pos >= fd[Root].size
    <3>1. fd' = fd /\ pc' = "done"
      BY <1>6, <2>2 DEF NextRootSector
    <3>2. fd' = [fd EXCEPT ![cur] = fd[cur]]
      BY <3>1, <1>1 DEF TableOK, FdOK
    <3> QED  BY <1>1, <1>2, <3>1, <3>2
  <2>3. CASE ~(fd[Root].pos >= fd[Root].size)
    <3> DEFINE g == [fd[Root] EXCEPT !.cluster = (fd[Root].cluster + 1) % W32]
    <3>1. /\ fd' = [fd EXCEPT ![Root].cluster = (@ + 1) % W32]
          /\ pc' = "disk" /\ io' = "read" /\ lba' = fd'[Root].cluster
      BY <1>6, <2>3 DEF NextRootSector, StartDisk
    <3>2. fd' = [fd EXCEPT ![Root] = g]
      BY <3>1 DEF TableOK, FdOK
    <3>3. (fd[Root].cluster + 1) % W32 \in Nat
      <4>1. fd[Root].cluster + 1 \in Nat
        BY <1>2, <2>1 DEF FileState
      <4> QED  BY <1>5, <4>1, DivNat
    <3>4. g \in FileState /\ AtEntry(g) /\ g.cluster \in Nat
      BY <1>1, <1>2, <2>1, <3>3 DEF FileState, AtEntry
    <3> HIDE DEF g
    <3>5. fd'[Root] = g
      BY <3>2 DEF TableOK, FdOK
    <3> QED  BY <2>1, <3>1, <3>2, <3>4, <3>5
  <2> QED  BY <2>2, <2>3
<1>7. CASE NextSector
  <2>1. PICK g \in StepOn(fd[cur]) :
          IF g.cluster >= EOC
          THEN fd' = [fd EXCEPT ![cur] = [g EXCEPT !.size = g.pos]] /\ pc' = "done"
          ELSE /\ fd' = [fd EXCEPT ![cur] = g]
               /\ pc' = "disk" /\ io' = "read" /\ lba' = (ClusterToLba(g.cluster) + g.sec) % W32
    BY <1>7 DEF NextSector, StartDisk
  <2>2. g \in FileState /\ g.isDir = fd[cur].isDir /\ g.pos = fd[cur].pos
    BY <1>2, StepOnState
  <2>3. AtEntry(g)
    BY <1>1, <2>2 DEF AtEntry
  <2>4. CASE g.cluster >= EOC
    <3> DEFINE k == [g EXCEPT !.size = g.pos]
    <3>1. k \in FileState /\ AtEntry(k)
      BY <2>2, <2>3 DEF FileState, AtEntry
    <3>2. fd' = [fd EXCEPT ![cur] = k] /\ pc' = "done"
      BY <2>1, <2>4
    <3> HIDE DEF k
    <3> QED  BY <3>1, <3>2
  <2>5. CASE ~(g.cluster >= EOC)
    <3>1. (ClusterToLba(g.cluster) + g.sec) % W32 \in Nat
      <4>0. DataLba \in Nat /\ SectorsPerCluster \in Nat
        BY VolumeAssumption, RootFits
      <4>1. DataLba \in Nat /\ SectorsPerCluster \in Nat /\ g.cluster \in Nat /\ g.sec \in Nat
        BY <2>2, <4>0 DEF FileState
      <4>2. ClusterToLba(g.cluster) \in Nat
        BY <1>5, <4>1 DEF ClusterToLba
      <4>3. ClusterToLba(g.cluster) + g.sec \in Nat
        BY <4>1, <4>2
      <4> QED  BY <1>5, <4>3, DivNat
    <3> QED  BY <2>1, <2>2, <2>3, <2>5, <3>1
  <2> QED  BY <2>4, <2>5
<1> QED  BY <1>6, <1>7

\* The sector read in between is not looked at, nor its failure.
LEMMA ScanReads ==
  ASSUME WithinLimits, TableOK, DuringOpen, Scanning, pc = "disk", Disk
  PROVE  TableOK' /\ DuringOpen' /\ Unseen
<1>1. /\ cur \in Handles \cup {Root} /\ AtEntry(fd[cur]) /\ LeadsToFile(path)
      /\ left = 0 /\ Len(got) = EntrySize /\ EntryAt(got[1]) \in Entries \cup {NoEntry}
      /\ op = "open" /\ ~Unready /\ io = "read" /\ lba \in Nat
  BY DEF Scanning, DuringOpen
<1>2. /\ FdOK' /\ \A h \in Handles \cup {Root} : SameFile(fd[h], fd'[h])
      /\ \A h \in Handles \cup {Root} : h # cur => fd'[h] = fd[h]
      /\ UNCHANGED <<path, copied, io, lba, op, cur, answer>>
      /\ pc' \in {"loop", "disk", "done"}
  BY <1>1, DiskDoes DEF TableOK, Buffered
<1>3. AtEntry(fd'[cur])
  BY <1>1, <1>2 DEF AtEntry, SameFile
<1>4. TableOK' /\ ~Unready' /\ Unseen
  BY <1>1, <1>2, <1>3, OthersKept
<1>5. Scanning'
  BY <1>1, <1>2, <1>3 DEF Scanning, copied
<1> QED  BY <1>1, <1>2, <1>4, <1>5 DEF DuringOpen

\* What is left of a sequence of one.
LEMMA LastOne ==
  ASSUME NEW T, NEW s \in Seq(T), s # <<>>, Tail(s) = <<>>
  PROVE  Len(s) = 1
<1>1. Len(Tail(s)) = Len(s) - 1 /\ Len(s) \in Nat
  OBVIOUS
<1> DEFINE t == Tail(s)
<1>2. t = <<>>
  OBVIOUS
<1> HIDE DEF t
<1>3. Len(t) = 0
  BY <1>2
<1> QED  BY <1>1, <1>3 DEF t

\* The rest of a path leads to what the path leads to.
LEMMA TailLeads ==
  ASSUME NEW p, LeadsToFile(p), Tail(p) # <<>>
  PROVE  LeadsToFile(Tail(p)) /\ Len(p) > 1
<1>1. p \in Seq(STRING) /\ p # <<>>
  BY DEF LeadsToFile
<1>2. /\ Tail(p) \in Seq(STRING) /\ Len(Tail(p)) = Len(p) - 1 /\ Len(p) \in Nat /\ Len(p) # 0
      /\ \A i \in 1 .. Len(p) - 1 : Tail(p)[i] = p[i + 1]
  BY <1>1
<1> DEFINE n == Len(p)
<1>3. n - 1 # 0
  BY <1>2
<1> HIDE DEF n
<1>4. n \in Nat /\ n > 1 /\ n - 1 \in 1 .. n - 1 /\ (n - 1) + 1 = n
  BY <1>2, <1>3 DEF n
<1>5. Tail(p)[n - 1] = p[n]
  BY <1>2, <1>4 DEF n
<1>6. \A i \in 1 .. n - 2 : i \in 1 .. n - 1 /\ i + 1 \in 1 .. n - 1
  BY <1>4
<1>7. /\ \A e \in Entries \cup {NoEntry} :
            /\ e.name = p[n] => e \in FileEntries
            /\ \A i \in 1 .. n - 1 : e.name = p[i] => e.dir
  BY DEF LeadsToFile, n
<1>8. \A e \in Entries \cup {NoEntry} :
        /\ e.name = Tail(p)[n - 1] => e \in FileEntries
        /\ \A i \in 1 .. n - 2 : e.name = Tail(p)[i] => e.dir
  BY <1>2, <1>5, <1>6, <1>7 DEF n
<1>9. Len(Tail(p)) = n - 1 /\ (n - 1) - 1 = n - 2
  BY <1>2, <1>4 DEF n
<1> QED  BY <1>2, <1>4, <1>8, <1>9 DEF LeadsToFile, n

\* FAT_Close of the directory searched.
LEMMA ClosesCur ==
  ASSUME TableOK, cur \in Handles \cup {Root}, AtEntry(fd[cur]), EntrySize \in Nat \ {0}, ~Unready
  PROVE  /\ Close(cur) \in [Handles \cup {Root} -> FileState]
         /\ \A h \in Handles : Close(cur)[h].opened => h # cur /\ Close(cur)[h] = fd[h]
         /\ \A h \in Handles : h # cur => Close(cur)[h] = fd[h]
         /\ AtEntry(Close(cur)[Root])
<1>1. cur = Root \/ cur \in Handles
  OBVIOUS
<1>2. fd \in [Handles \cup {Root} -> FileState] /\ fd[cur] \in FileState /\ AtEntry(fd[Root])
  BY DEF TableOK, FdOK, RootOK
<1>3. CASE cur = Root
  <2> DEFINE g == Rewound(fd[Root])
  <2>1. g \in FileState /\ g.isDir = fd[Root].isDir /\ g.pos = 0
    BY <1>2, <1>3 DEF Rewound, FileState
  <2>2. AtEntry(g)
    <3>1. 0 % EntrySize = 0
      OBVIOUS
    <3> QED  BY <1>2, <2>1, <3>1 DEF AtEntry
  <2> HIDE DEF g
  <2>3. Close(cur) = [fd EXCEPT ![Root] = g]
    BY <1>2, <1>3 DEF Close, g
  <2> QED  BY <1>2, <1>3, <2>1, <2>2, <2>3, RootApart
<1>4. CASE cur \in Handles
  <2> DEFINE g == [fd[cur] EXCEPT !.opened = FALSE]
  <2>1. g \in FileState /\ g.opened = FALSE
    BY <1>2 DEF FileState
  <2>2. Close(cur) = [fd EXCEPT ![cur] = g]
    BY <1>2, <1>4, RootApart DEF Close
  <2> HIDE DEF g
  <2> QED  BY <1>2, <1>4, <2>1, <2>2, RootApart
<1> QED  BY <1>1, <1>3, <1>4

\* A step after which every open handle is one nothing was done to.
LEMMA TableMoved ==
  ASSUME TableOK, FdOK', ~Unready, ~Unready', AtEntry(fd'[Root]),
         \A h \in Handles : fd'[h].opened => ~Busy(h) /\ fd'[h] = fd[h]
  PROVE  TableOK'
<1>1. \A h \in Handles : fd'[h].opened => FileOK(fd'[h])
  BY DEF TableOK, HandlesOK
<1>2. HandlesOK'
  BY <1>1 DEF HandlesOK
<1> QED  BY <1>2 DEF TableOK, RootOK, EarlyOK

LEMMA EntryTypes ==
  ASSUME NEW e \in Entries \cup {NoEntry}
  PROVE  e.dir \in BOOLEAN /\ e.first \in Nat /\ e.size \in Nat
<1>1. CASE e \in Entries
  BY <1>1, VolumeAssumption
<1>2. CASE e = NoEntry
  <2>1. NoEntry.dir = FALSE /\ NoEntry.first = 0 /\ NoEntry.size = 0
    BY DEF NoEntry
  <2>2. e.dir = FALSE /\ e.first = 0 /\ e.size = 0
    BY <1>2, <2>1, Zenon
  <2>3. e.dir \in BOOLEAN
    BY <2>2, Zenon
  <2>4. e.first \in Nat /\ e.size \in Nat
    <3>1. 0 \in Nat
      OBVIOUS
    <3> QED  BY <2>2, <3>1, Zenon
  <2> QED  BY <2>3, <2>4
<1> QED  BY <1>1, <1>2

\* A handle filled in for an entry of a directory (fat.c:158-172).
LEMMA EntryOpened ==
  ASSUME WithinLimits, NEW f \in FileState, NEW e \in Entries \cup {NoEntry}, NEW g,
         g = [f EXCEPT !.isDir = e.dir, !.pos = 0, !.size = e.size, !.first = e.first,
                       !.cluster = e.first, !.sec = 0]
  PROVE  /\ g \in FileState /\ g.opened = f.opened /\ g.pos = 0
         /\ e \in FileEntries =>
              IsFile(g) /\ AtSector(g, 0) /\ ClusterToLba(e.first) = SectorNo(g.first, 0)
         /\ e.dir => AtEntry(g)
<1>1. e.dir \in BOOLEAN /\ e.first \in Nat /\ e.size \in Nat
  BY EntryTypes
<1>2. /\ g \in FileState /\ g.opened = f.opened /\ g.pos = 0 /\ g.isDir = e.dir
      /\ g.size = e.size /\ g.first = e.first /\ g.cluster = e.first /\ g.sec = 0
  BY <1>1 DEF FileState
<1>3. ASSUME e \in FileEntries
      PROVE  IsFile(g) /\ AtSector(g, 0) /\ ClusterToLba(e.first) = SectorNo(g.first, 0)
  <2>1. e.dir = FALSE
    BY <1>1, <1>3 DEF FileEntries
  <2>2. IsFile(g)
    BY <1>2, <1>3, <2>1 DEF IsFile
  <2>3. g.first \in DOMAIN Chain /\ SectorsIn(g.first) \in Nat \ {0}
    BY <1>2, <2>2, FileChain
  <2>4. 0 \in 0 .. SectorsIn(g.first) - 1
    BY <2>3
  <2>5. SectorsPerCluster \in Nat \ {0}
    BY VolumeAssumption
  <2>6. 0 \div SectorsPerCluster = 0 /\ 0 % SectorsPerCluster = 0
    BY <2>5
  <2>7. LET k == Chain[g.first][0 \div SectorsPerCluster + 1]
        IN  k = g.first /\ ClusterToLba(k) = SectorNo(g.first, 0)
    BY <2>3, <2>4, SectorLba
  <2>8. AtSector(g, 0)
    BY <1>2, <2>4, <2>6, <2>7 DEF AtSector
  <2> QED  BY <1>2, <2>2, <2>7, <2>8
<1>4. ASSUME e.dir PROVE AtEntry(g)
  <2>1. 0 % EntrySize = 0
    BY Limits
  <2>2. e.dir = TRUE
    BY <1>1, <1>4
  <2> QED  BY <1>2, <2>1, <2>2 DEF AtEntry
<1> QED  BY <1>2, <1>3, <1>4

\* The entry is compared with the name: the search goes on, or the file or the
\* next directory is entered (fat.c:308-352, 155-176).
LEMMA Compares ==
  ASSUME WithinLimits, TableOK, DuringOpen, Scanning, pc = "done", CompareEntry
  PROVE  TableOK' /\ DuringOpen' /\ Unseen
<1> DEFINE e == EntryAt(got[1])
           files == Close(cur)
<1>1. /\ cur \in Handles \cup {Root} /\ AtEntry(fd[cur]) /\ LeadsToFile(path)
      /\ Len(got) = EntrySize /\ e \in Entries \cup {NoEntry} /\ op = "open" /\ ~Unready
  BY Limits DEF Scanning, DuringOpen
<1>2. /\ path \in Seq(STRING) /\ path # <<>>
      /\ e.name = path[Len(path)] => e \in FileEntries
      /\ \A i \in 1 .. Len(path) - 1 : e.name = path[i] => e.dir
  BY <1>1 DEF LeadsToFile
<1>3. /\ \/ e.name # Head(path) /\ pc' = "find" /\ UNCHANGED <<fd, op, cur, path, disk, answer>>
         \/ e.name = Head(path) /\ Len(path) > 1 /\ ~e.dir
         \/ /\ e.name = Head(path) /\ OpenEntry(e, files)
            /\ path' = Tail(path) /\ UNCHANGED <<op, answer>>
      /\ UNCHANGED copied
  BY <1>1 DEF CompareEntry
<1>4. Head(path) = path[1] /\ Len(path) \in Nat \ {0}
  BY <1>2
<1> HIDE DEF e, files
<1>5. CASE pc' = "find" /\ UNCHANGED <<fd, op, cur, path, disk, answer>>
  <2>1. \A h \in Handles \cup {Root} : fd'[h] = fd[h]
    BY <1>5
  <2>2. FdOK' /\ AtEntry(fd'[Root])
    BY <1>1, <1>5 DEF TableOK, FdOK, RootOK
  <2>3. TableOK' /\ ~Unready' /\ Unseen
    BY <1>1, <1>5, <2>1, <2>2, OthersKept
  <2>4. AtEntry(fd'[cur'])
    BY <1>1, <1>5
  <2>5. Scanning'
    BY <1>1, <1>5, <2>4 DEF Scanning
  <2> QED  BY <1>1, <1>5, <2>3, <2>5 DEF DuringOpen
<1>6. ~(e.name = Head(path) /\ Len(path) > 1 /\ ~e.dir)
  <2> SUFFICES ASSUME e.name = Head(path), Len(path) > 1 PROVE e.dir
    OBVIOUS
  <2>1. 1 \in 1 .. Len(path) - 1
    BY <1>4
  <2> QED  BY <1>2, <1>4, <2>1
<1>7. CASE /\ e.name = Head(path) /\ OpenEntry(e, files)
           /\ path' = Tail(path) /\ UNCHANGED <<op, answer>>
  <2>1. /\ files \in [Handles \cup {Root} -> FileState]
        /\ \A h \in Handles : files[h].opened => h # cur /\ files[h] = fd[h]
        /\ \A h \in Handles : h # cur => files[h] = fd[h]
        /\ AtEntry(files[Root])
    BY <1>1, Limits, ClosesCur DEF files
  <2>2. ~Unready'
    BY <1>1, <1>7 DEF Unready
  <2>3. \A h \in Handles : h # cur => ~Busy(h)
    BY DEF Busy
  <2>4. CASE Free(files) = {}
    <3>1. pc' = "openNull" /\ cur' = Null /\ fd' = files
      BY <1>7, <2>4 DEF OpenEntry
    <3>2. TableOK'
      <4>1. FdOK' /\ AtEntry(fd'[Root])
        BY <2>1, <3>1 DEF FdOK
      <4>2. \A h \in Handles : fd'[h].opened => ~Busy(h) /\ fd'[h] = fd[h]
        BY <2>1, <2>3, <3>1
      <4> QED  BY <1>1, <2>2, <4>1, <4>2, TableMoved
    <3>3. Free(fd)' = {}
      BY <2>4, <3>1 DEF Free
    <3>4. Abandoned'
      BY <3>1, <3>3 DEF Abandoned
    <3>5. Unseen
      BY <1>7, <2>1, <3>1, RootApart DEF Unseen
    <3> QED  BY <1>1, <1>7, <2>2, <3>2, <3>4, <3>5 DEF DuringOpen
  <2>5. CASE Free(files) # {}
    <3> DEFINE h == CHOOSE i \in Free(files) : \A j \in Free(files) : i <= j
               g == [files[h] EXCEPT !.isDir = e.dir, !.pos = 0, !.size = e.size,
                       !.first = e.first, !.cluster = e.first, !.sec = 0]
    <3>1. /\ fd' = [files EXCEPT ![h] = [@ EXCEPT !.isDir = e.dir, !.pos = 0, !.size = e.size,
                      !.first = e.first, !.cluster = e.first, !.sec = 0]]
          /\ cur' = h /\ pc' = "disk" /\ io' = "open" /\ lba' = ClusterToLba(e.first)
      BY <1>7, <2>5 DEF OpenEntry, StartDisk
    <3>2. h \in Free(files)
      <4>1. Free(files) \subseteq Nat
        BY RootApart DEF Free
      <4>2. \E i \in Free(files) : \A j \in Free(files) : i <= j
        BY <2>5, <4>1, Least
      <4> QED  BY <4>2
    <3> HIDE DEF h
    <3>3. h \in Handles /\ ~files[h].opened /\ h # Root
      BY <3>2, RootApart DEF Free
    <3>4. files[h] \in FileState
      BY <2>1, <3>3
    <3>5. fd' = [files EXCEPT ![h] = g]
      BY <2>1, <3>1, <3>3
    <3>6. /\ g \in FileState /\ g.opened = files[h].opened /\ g.pos = 0
          /\ e \in FileEntries =>
               IsFile(g) /\ AtSector(g, 0) /\ ClusterToLba(e.first) = SectorNo(g.first, 0)
          /\ e.dir => AtEntry(g)
      <4> DEFINE k == g
      <4>1. k = g
        OBVIOUS
      <4> QED  BY <1>1, <3>4, EntryOpened
    <3> HIDE DEF g
    <3>7. fd' \in [Handles \cup {Root} -> FileState]
          /\ \A i \in Handles \cup {Root} : fd'[i] = IF i = h THEN g ELSE files[i]
      BY <2>1, <3>3, <3>5, <3>6
    <3>8. TableOK'
      <4>1. FdOK' /\ AtEntry(fd'[Root])
        BY <2>1, <3>3, <3>7 DEF FdOK
      <4>2. \A i \in Handles : fd'[i].opened => ~Busy(i) /\ fd'[i] = fd[i]
        BY <2>1, <2>3, <3>3, <3>6, <3>7
      <4> QED  BY <1>1, <2>2, <4>1, <4>2, TableMoved
    <3>9. fd'[cur'] = g /\ cur' \in Handles
      BY <3>1, <3>3, <3>7
    <3>10. lba' \in Nat
      <4>1. /\ DataLba \in Nat /\ SectorsPerCluster \in Nat /\ e.first \in Nat /\ W32 \in Nat \ {0}
        BY <1>1, VolumeAssumption, RootFits, EntryTypes
      <4> QED  BY <3>1, <4>1 DEF ClusterToLba
    <3>11. Entering'
      <4>1. CASE Tail(path) = <<>>
        <5>1. Len(path) = 1
          BY <1>2, <4>1, LastOne
        <5>2. e \in FileEntries
          BY <1>2, <1>4, <1>7, <5>1
        <5>3. path' = <<>> /\ IsFile(g) /\ AtSector(g, 0) /\ lba' = SectorNo(g.first, 0)
          BY <1>7, <3>1, <3>6, <4>1, <5>2
        <5> QED  BY <3>1, <3>3, <3>6, <3>9, <3>10, <5>3 DEF Entering
      <4>2. CASE Tail(path) # <<>>
        <5>1. LeadsToFile(Tail(path)) /\ Len(path) > 1
          BY <1>1, <4>2, TailLeads
        <5>2. AtEntry(g)
          BY <1>6, <1>7, <3>6, <5>1
        <5>3. path' # <<>> /\ LeadsToFile(path')
          BY <1>7, <4>2, <5>1
        <5> QED  BY <3>1, <3>3, <3>6, <3>9, <3>10, <5>2, <5>3 DEF Entering
      <4> QED  BY <4>1, <4>2
    <3>12. Unseen
      BY <1>7, <2>1, <3>1, <3>3, <3>6, <3>7 DEF Unseen
    <3> QED  BY <1>1, <1>7, <2>2, <3>8, <3>11, <3>12 DEF DuringOpen
  <2> QED  BY <2>4, <2>5
<1> QED  BY <1>3, <1>5, <1>6, <1>7

\* A sector of a file is read sooner or later.
LEMMA FileSector ==
  ASSUME WithinLimits, NEW f \in FileState, IsFile(f), NEW q \in 0 .. SectorsIn(f.first) - 1
  PROVE  SectorNo(f.first, q) \in 0 .. Sectors - 1 /\ SectorNo(f.first, q) \notin Fatal
<1>1. SectorNo(f.first, q) \in DataLba .. Sectors - 1
  BY FileChain, SectorLba
<1>2. DataLba \in Nat
  BY RootFits, VolumeAssumption
<1> QED  BY <1>1, <1>2 DEF WithinLimits

\* The first sector of what was found is read (fat.c:172-176).
LEMMA EnterReads ==
  ASSUME WithinLimits, TableOK, DuringOpen, Entering, pc = "disk", Disk
  PROVE  TableOK' /\ DuringOpen' /\ Unseen
<1>1. /\ cur \in Handles /\ ~fd[cur].opened /\ fd[cur].pos = 0 /\ io = "open" /\ lba \in Nat
      /\ IF path = <<>> THEN /\ IsFile(fd[cur]) /\ AtSector(fd[cur], 0)
                             /\ lba = SectorNo(fd[cur].first, 0)
                        ELSE AtEntry(fd[cur]) /\ LeadsToFile(path)
      /\ op = "open" /\ ~Unready /\ cur # Root /\ fd[cur] \in FileState
  BY RootApart DEF Entering, DuringOpen, TableOK, FdOK
<1>2. path = <<>> => lba \in 0 .. Sectors - 1 /\ lba \notin Fatal
  <2>1. path = <<>> => 0 \in 0 .. SectorsIn(fd[cur].first) - 1
    BY <1>1 DEF AtSector
  <2> QED  BY <1>1, <2>1, FileSector
<1>3. /\ FdOK' /\ \A h \in Handles \cup {Root} : SameFile(fd[h], fd'[h])
      /\ \A h \in Handles \cup {Root} : h # cur => fd'[h] = fd[h]
      /\ UNCHANGED <<path, io, lba>>
      /\ \/ /\ UNCHANGED <<op, cur, answer>> /\ pc' \in {"opened", "disk"}
            /\ pc' = "opened" /\ path = <<>> => fd'[cur].buf = lba
         \/ path # <<>> /\ pc' = "openNull" /\ cur' = Null /\ UNCHANGED <<op, answer>>
  BY <1>1, <1>2, DiskDoes DEF TableOK, Buffered
<1>4. AtEntry(fd'[Root])
  BY <1>1, <1>3 DEF TableOK, RootOK
<1>5. CASE UNCHANGED <<op, cur, answer>>
  <2>1. TableOK' /\ ~Unready' /\ Unseen
    BY <1>1, <1>3, <1>5, OthersKept
  <2>2. SameFile(fd[cur], fd'[cur']) /\ fd'[cur'] = fd'[cur]
    BY <1>1, <1>3, <1>5
  <2>3. cur' \in Handles /\ ~fd'[cur'].opened /\ fd'[cur'].pos = 0
    BY <1>1, <1>5, <2>2 DEF SameFile
  <2>4. CASE path = <<>>
    <3>1. IsFile(fd'[cur']) /\ AtSector(fd'[cur'], 0) /\ lba' = SectorNo(fd'[cur'].first, 0)
      BY <1>1, <1>3, <2>2, <2>4 DEF SameFile, IsFile, AtSector
    <3>2. pc' \in {"opened", "disk"} /\ (pc' = "opened" => fd'[cur'].buf = SectorNo(fd'[cur'].first, 0))
      BY <1>3, <1>5, <2>2, <2>4, <3>1, RootApart, <1>1
    <3> QED  BY <1>1, <1>3, <1>5, <2>1, <2>3, <2>4, <3>1, <3>2 DEF Entering, DuringOpen
  <2>5. CASE path # <<>>
    <3>1. AtEntry(fd'[cur']) /\ LeadsToFile(path')
      BY <1>1, <1>3, <2>2, <2>5 DEF SameFile, AtEntry
    <3>2. pc' \in {"opened", "disk"}
      BY <1>1, <1>3, <1>5, RootApart
    <3> QED  BY <1>1, <1>3, <1>5, <2>1, <2>3, <2>5, <3>1, <3>2 DEF Entering, DuringOpen
  <2> QED  BY <2>4, <2>5
<1>6. CASE path # <<>> /\ pc' = "openNull" /\ cur' = Null /\ UNCHANGED <<op, answer>>
  <2>1. ~Unready'
    BY <1>1, <1>6 DEF Unready
  <2>2. \A h \in Handles : fd'[h].opened => ~Busy(h) /\ fd'[h] = fd[h]
    <3>1. ~fd'[cur].opened
      BY <1>1, <1>3 DEF SameFile
    <3> QED  BY <1>3, <3>1 DEF Busy
  <2>3. TableOK'
    BY <1>1, <1>3, <1>4, <2>1, <2>2, TableMoved
  <2>4. Abandoned'
    BY <1>3, <1>6 DEF Abandoned
  <2>5. Unseen
    <3>1. ~fd'[cur].opened
      BY <1>1, <1>3 DEF SameFile
    <3> QED  BY <1>3, <1>6, <3>1, RootApart DEF Unseen
  <2> QED  BY <1>1, <1>6, <2>1, <2>3, <2>4, <2>5 DEF DuringOpen
<1> QED  BY <1>3, <1>5, <1>6

\* FAT_OpenEntry returns the handle (fat.c:174, 371-375).
LEMMA OpensIt ==
  ASSUME WithinLimits, TableOK, DuringOpen, Entering, Opened
  PROVE  TableOK' /\ ((DuringOpen' /\ Unseen) \/ (BetweenCalls' /\ path = <<>>))
<1> DEFINE g == [fd[cur] EXCEPT !.opened = TRUE]
<1>1. /\ cur \in Handles /\ ~fd[cur].opened /\ fd[cur].pos = 0 /\ pc = "opened"
      /\ IF path = <<>> THEN /\ IsFile(fd[cur]) /\ AtSector(fd[cur], 0)
                             /\ fd[cur].buf = SectorNo(fd[cur].first, 0)
                        ELSE AtEntry(fd[cur]) /\ LeadsToFile(path)
      /\ op = "open" /\ ~Unready /\ cur # Root /\ fd[cur] \in FileState
  BY RootApart DEF Entering, DuringOpen, TableOK, FdOK, Opened
<1>2. fd' = [fd EXCEPT ![cur] = g]
  BY <1>1 DEF Opened, TableOK, FdOK
<1>3. /\ g \in FileState /\ g.pos = 0 /\ g.isDir = fd[cur].isDir /\ g.size = fd[cur].size
      /\ g.first = fd[cur].first /\ g.cluster = fd[cur].cluster /\ g.sec = fd[cur].sec
      /\ g.buf = fd[cur].buf
  BY <1>1 DEF FileState
<1>4. UNCHANGED <<cur, path>>
  BY DEF Opened
<1> HIDE DEF g
<1>5. FdOK' /\ \A h \in Handles \cup {Root} : fd'[h] = IF h = cur THEN g ELSE fd[h]
  BY <1>2, <1>3 DEF TableOK, FdOK
<1>6. CASE path = <<>>
  <2>1. pc' = "idle" /\ op' = "none" /\ answer' = [op |-> "open", file |-> cur]
    BY <1>6 DEF Opened, Return
  <2>2. ~Unready'
    <3>1. [op |-> "open", file |-> cur].op = "open"
      BY Zenon
    <3> QED  BY <2>1, <3>1 DEF Unready
  <2>3. FileOK(g)
    <3>1. IsFile(g) /\ AtSector(g, 0) /\ g.buf = SectorNo(g.first, 0)
      BY <1>1, <1>3, <1>6 DEF IsFile, AtSector
    <3>2. 0 \div SectorSize = 0
      BY VolumeAssumption
    <3>3. g.pos <= g.size
      BY <1>3 DEF FileState
    <3> QED  BY <1>3, <3>1, <3>2, <3>3 DEF FileOK, AtPosition
  <2>4. \A h \in Handles : fd'[h].opened => FileOK(fd'[h])
    <3>1. \A h \in Handles : h # cur /\ fd'[h].opened => FileOK(fd'[h])
      BY <1>5 DEF TableOK, HandlesOK, Busy
    <3> QED  BY <1>5, <2>3, <3>1
  <2>5. HandlesOK'
    BY <2>4 DEF HandlesOK
  <2>6. RootOK' /\ EarlyOK'
    BY <1>1, <1>5, <2>2 DEF TableOK, RootOK, EarlyOK
  <2> QED  BY <1>5, <1>6, <2>1, <2>5, <2>6 DEF TableOK, BetweenCalls
<1>7. CASE path # <<>>
  <2>1. pc' = "find" /\ UNCHANGED <<op, answer>>
    BY <1>7 DEF Opened
  <2>2. TableOK' /\ ~Unready' /\ Unseen /\ fd'[cur'] = g
    BY <1>1, <1>2, <1>3, <1>4, <2>1, CurKept
  <2>3. AtEntry(g) /\ LeadsToFile(path')
    BY <1>1, <1>3, <1>4, <1>7 DEF AtEntry
  <2>4. Scanning'
    BY <1>1, <1>4, <2>1, <2>2, <2>3 DEF Scanning
  <2> QED  BY <1>1, <2>1, <2>2, <2>4 DEF DuringOpen
<1> QED  BY <1>6, <1>7

\* NULL is returned, or the search goes astray (fat.c:371-379).
LEMMA GivesUp ==
  ASSUME TableOK, DuringOpen, Abandoned, OpenFailed
  PROVE  TableOK' /\ ((DuringOpen' /\ Unseen) \/ (BetweenCalls' /\ path = <<>>))
<1>1. cur = Null /\ op = "open" /\ ~Unready /\ UNCHANGED <<fd, cur, path>>
  BY DEF Abandoned, DuringOpen, OpenFailed
<1>2. \A h \in Handles : ~Busy(h)
  BY <1>1, RootApart DEF Busy
<1>3. FdOK' /\ AtEntry(fd'[Root])
  BY <1>1 DEF TableOK, FdOK, RootOK
<1>4. \A h \in Handles : fd'[h].opened => ~Busy(h) /\ fd'[h] = fd[h]
  BY <1>1, <1>2
<1>5. CASE path = <<>>
  <2>1. pc' = "idle" /\ op' = "none" /\ answer' = [op |-> "open", file |-> Null]
    BY <1>5 DEF OpenFailed, Return
  <2>2. ~Unready'
    <3>1. [op |-> "open", file |-> Null].op = "open"
      BY Zenon
    <3> QED  BY <2>1, <3>1 DEF Unready
  <2> QED  BY <1>1, <1>3, <1>4, <1>5, <2>1, <2>2, TableMoved DEF BetweenCalls
<1>6. CASE path # <<>>
  <2>1. pc' = "lost" /\ UNCHANGED <<op, answer>>
    BY <1>6 DEF OpenFailed
  <2>2. ~Unready'
    BY <1>1, <2>1 DEF Unready
  <2>3. TableOK'
    BY <1>1, <1>3, <1>4, <2>2, TableMoved
  <2>4. Unseen
    BY <1>1, <2>1, RootApart DEF Unseen
  <2> QED  BY <1>1, <2>1, <2>2, <2>3, <2>4 DEF DuringOpen, Abandoned
<1> QED  BY <1>5, <1>6

\* A step that only moves pc, left and got while a directory is searched.
LEMMA SearchStepsOn ==
  ASSUME WithinLimits, TableOK, DuringOpen, Scanning, ReadEntry \/ LoopEnds
  PROVE  TableOK' /\ DuringOpen' /\ Unseen
<1>1. /\ cur \in Handles \cup {Root} /\ AtEntry(fd[cur]) /\ LeadsToFile(path)
      /\ op = "open" /\ ~Unready
  BY DEF Scanning, DuringOpen
<1>2. UNCHANGED <<fd, op, cur, path, answer>>
  BY DEF ReadEntry, LoopEnds
<1>3. TableOK' /\ ~Unready' /\ Unseen
  <2>1. FdOK' /\ \A h \in Handles \cup {Root} : fd'[h] = fd[h]
    BY <1>2 DEF TableOK, FdOK
  <2>2. cur = Root => AtEntry(fd'[Root])
    BY <1>1, <1>2
  <2> QED  BY <1>1, <1>2, <2>1, <2>2, OthersKept
<1>4. Scanning'
  <2>1. CASE ReadEntry
    <3>1. pc' = "loop" /\ got' = <<>> /\ left' = EntrySize
      BY <1>1, <2>1 DEF ReadEntry, StartRead, AtEntry
    <3> QED  BY <1>1, <1>2, <3>1 DEF Scanning
  <2>2. CASE LoopEnds
    <3>1. pc = "loop" /\ left = 0 /\ pc' = "done" /\ UNCHANGED <<left, got>>
      BY <2>2 DEF LoopEnds, copied
    <3>2. Len(got) = EntrySize /\ EntryAt(got[1]) \in Entries \cup {NoEntry}
      BY <3>1, Limits DEF Scanning
    <3> QED  BY <1>1, <1>2, <3>1, <3>2 DEF Scanning
  <2> QED  BY <2>1, <2>2
<1> QED  BY <1>1, <1>2, <1>3, <1>4 DEF DuringOpen

\* The callers wait for the call to return.
LEMMA CallersWait == Caller => pc = "idle"
BY DEF Caller, CallInitialize, CallOpen, CallClose, CallRead

\* Which steps there are at each place of the code.
LEMMA StepAt ==
  ASSUME Step
  PROVE  /\ pc \notin {"idle", "lost"}
         /\ pc = "disk" => Disk
         /\ pc = "checkBoot" => RefuseVolume \/ ReadFat
         /\ pc = "openRoot" => OpenRoot
         /\ pc = "rootRead" => ResetHandles
         /\ pc = "loop" => CopyChunk \/ LoopEnds
         /\ pc = "boundary" => NextRootSector \/ NextSector
         /\ pc = "done" => (op = "read" /\ ReadReturns) \/ (op = "open" /\ CompareEntry)
         /\ pc = "find" => ReadEntry
         /\ pc = "opened" => Opened
         /\ pc = "openNull" => OpenFailed
BY DEF Step, Disk, DiskRead, DiskRetries, DiskFails, Initialize, RefuseVolume, ReadFat, OpenRoot,
  ResetHandles, Loop, CopyChunk, NextRootSector, NextSector, LoopEnds, ReadReturns, Search,
  ReadEntry, CompareEntry, Opened, OpenFailed

\* Whatever FAT_Open does next.
LEMMA OpenInv ==
  ASSUME WithinLimits, TableOK, DuringOpen, NextFat
  PROVE  FInv' /\ (Unseen \/ (path = <<>> /\ (Opened \/ (OpenFailed /\ Abandoned))))
<1>1. op = "open" /\ (Scanning \/ Entering \/ Abandoned)
  BY DEF DuringOpen
<1>2. pc \in {"find", "loop", "boundary", "done", "disk", "opened", "openNull", "lost"}
  BY <1>1 DEF Scanning, Entering, Abandoned
<1>3. Step
  BY <1>2, CallersWait DEF NextFat
<1>4. CASE Scanning
  <2>1. pc \in {"find", "loop", "boundary", "done", "disk"}
    BY <1>4 DEF Scanning
  <2>2. CASE pc = "find"
    <3>1. ReadEntry
      BY <1>3, <2>2, StepAt
    <3> QED  BY <1>4, <3>1, SearchStepsOn DEF FInv
  <2>3. CASE pc = "loop"
    <3>1. CopyChunk \/ LoopEnds
      BY <1>3, <2>3, StepAt
    <3> QED  BY <1>4, <3>1, SearchStepsOn, CopiesEntry DEF FInv
  <2>4. CASE pc = "boundary"
    <3>1. NextRootSector \/ NextSector
      BY <1>3, <2>4, StepAt
    <3> QED  BY <1>4, <2>4, <3>1, ScansOn DEF FInv
  <2>5. CASE pc = "done"
    <3>1. CompareEntry
      BY <1>1, <1>3, <2>5, StepAt
    <3> QED  BY <1>4, <2>5, <3>1, Compares DEF FInv
  <2>6. CASE pc = "disk"
    <3>1. Disk
      BY <1>3, <2>6, StepAt
    <3> QED  BY <1>4, <2>6, <3>1, ScanReads DEF FInv
  <2> QED  BY <2>1, <2>2, <2>3, <2>4, <2>5, <2>6
<1>5. CASE Entering
  <2>1. pc \in {"disk", "opened"}
    BY <1>5 DEF Entering
  <2>2. CASE pc = "disk"
    <3>1. Disk
      BY <1>3, <2>2, StepAt
    <3> QED  BY <1>5, <2>2, <3>1, EnterReads DEF FInv
  <2>3. CASE pc = "opened"
    <3>1. Opened
      BY <1>3, <2>3, StepAt
    <3> QED  BY <1>5, <3>1, OpensIt DEF FInv
  <2> QED  BY <2>1, <2>2, <2>3
<1>6. CASE Abandoned
  <2>1. OpenFailed
    BY <1>3, <1>6, StepAt DEF Abandoned
  <2> QED  BY <1>6, <2>1, GivesUp DEF FInv
<1> QED  BY <1>1, <1>4, <1>5, <1>6

------------------------------------------------------------------------------
(* FAT_Read of a file. *)

\* What the call began with.
StartKept ==
  /\ fd'[cur].opened = fd[cur].opened /\ fd'[cur].first = fd[cur].first
  /\ fd'[cur].pos - count' = fd[cur].pos - count
  /\ \A h \in Handles : h # cur => fd'[h] = fd[h]
  /\ UNCHANGED <<op, cur, answer>>

\* A step of the call that leaves its handle as a read in progress has it.
LEMMA ReadsOn ==
  ASSUME TableOK, DuringRead, UNCHANGED <<op, cur, answer>>,
         NEW g \in FileState, fd' = [fd EXCEPT ![cur] = g],
         g.opened = fd[cur].opened, g.isDir = fd[cur].isDir, g.size = fd[cur].size,
         g.first = fd[cur].first, g.pos - count' = fd[cur].pos - count,
         NEW n \in Counts, Copied(g, n)', Standing(g)'
  PROVE  TableOK' /\ DuringRead' /\ StartKept
<1>1. op = "read" /\ ~Unready /\ cur \in Handles /\ cur # Root /\ fd[cur].opened /\ IsFile(fd[cur])
  BY RootApart DEF DuringRead
<1>2. TableOK' /\ ~Unready' /\ fd'[cur] = g /\ fd'[cur'] = g
  BY <1>1, CurKept
<1>3. IsFile(g)
  BY <1>1 DEF IsFile
<1>4. Copied(fd[cur], n)' /\ Standing(fd[cur])'
  BY <1>2 DEF Copied, Standing
<1>5. (\E k \in Counts : Copied(fd[cur], k))'
  BY <1>4
<1>6. DuringRead'
  BY <1>1, <1>2, <1>3, <1>4, <1>5 DEF DuringRead
<1>7. StartKept
  BY <1>1, <1>2 DEF StartKept, TableOK, FdOK
<1> QED  BY <1>2, <1>6, <1>7

\* A turn of the loop copies bytes that follow those copied (fat.c:204-217).
LEMMA CopiesFile ==
  ASSUME WithinLimits, TableOK, DuringRead, CopyChunk
  PROVE  TableOK' /\ DuringRead' /\ StartKept
<1> DEFINE f == fd[cur]
           p == f.pos
           a == p - count
           q == p \div SectorSize
           r == p % SectorSize
           room == SectorSize - r
           take == MinInt(left, room)
<1>1. PICK n \in Counts : Copied(f, n)
  BY DEF DuringRead
<1>2. /\ cur \in Handles /\ IsFile(f) /\ f \in FileState /\ pc = "loop" /\ left > 0
      /\ AtPosition(f) /\ p \in Nat /\ f.size \in Nat
  BY DEF DuringRead, Standing, CopyChunk, TableOK, FdOK, FileState
<1>3. /\ count \in Nat /\ count <= p /\ left \in Nat /\ p + left <= f.size
      /\ got = FileBytes(f.first, a, count) /\ count + left = MinWide(n, f.size - a)
  BY <1>1 DEF Copied
<1>4. f.size < W16 \div 2
  BY <1>2, FileChain
<1>5. AtSector(f, q) /\ f.buf = SectorNo(f.first, q)
  <2>1. f.pos < f.size
    BY <1>2, <1>3
  <2> QED  BY <1>2, <2>1 DEF AtPosition
<1>6. /\ p + room = SectorSize * (q + 1) /\ room \in 1 .. SectorSize /\ q \in Nat
      /\ r \in 0 .. SectorSize - 1
  BY <1>2, ToBoundary, DivMod, Limits
<1>7. /\ got' = got \o [i \in 1 .. take % W16 |-> <<f.buf, r + i - 1>>]
      /\ count' = (count + take) % W32
      /\ fd' = [fd EXCEPT ![cur].pos = (@ + take) % W32]
      /\ left' = (left - take) % W32
      /\ pc' = IF take = room THEN "boundary" ELSE "loop"
      /\ UNCHANGED <<op, cur, answer>>
  BY DEF CopyChunk
<1> HIDE DEF q, r, p
<1>8. /\ take = IF left < room THEN left ELSE room
      /\ take \in 1 .. left /\ take <= room
  <2>1. room \in Nat /\ room < W16 \div 2 /\ left < W16 \div 2 /\ left \in Nat
    BY <1>2, <1>3, <1>4, <1>6, Limits
  <2> HIDE DEF room
  <2>2. take = IF left < room THEN left ELSE room
    BY <2>1, MinSmall, Limits
  <2> HIDE DEF take
  <2> QED  BY <1>2, <1>3, <1>6, <2>1, <2>2 DEF room
<1> HIDE DEF take
<1>9. take % W16 = take /\ (p + take) % W32 = p + take /\ (left - take) % W32 = left - take
      /\ (count + take) % W32 = count + take
  <2>1. take \in 0 .. W16 - 1 /\ p + take \in 0 .. W32 - 1 /\ left - take \in 0 .. W32 - 1
        /\ count + take \in 0 .. W32 - 1
    BY <1>2, <1>3, <1>4, <1>8, Limits
  <2> QED  BY <2>1, SmallMod, Limits
<1>10. count' = count + take /\ left' = left - take
  BY <1>7, <1>9
<1>11. PICK g : g = [f EXCEPT !.pos = p + take]
  OBVIOUS
<1>12. fd' = [fd EXCEPT ![cur] = g] /\ p + take \in Nat
  <2>1. p + take \in Nat
    BY <1>2, <1>8
  <2>2. fd' = [fd EXCEPT ![cur] = g]
    BY <1>2, <1>7, <1>9, <1>11 DEF TableOK, FdOK, p
  <2> QED  BY <2>1, <2>2
<1>13. g \in FileState /\ g.opened = f.opened /\ g.isDir = f.isDir /\ g.first = f.first
       /\ g.size = f.size /\ g.pos = p + take /\ g.cluster = f.cluster /\ g.sec = f.sec
       /\ g.buf = f.buf
  BY <1>2, <1>11, <1>12 DEF FileState
<1> HIDE DEF f
<1>14. /\ count' \in Nat /\ left' \in Nat /\ count' <= g.pos /\ g.pos + left' <= g.size
       /\ g.pos - count' = a /\ count' + left' = count + left
  BY <1>2, <1>3, <1>8, <1>10, <1>13
<1>15. got' = FileBytes(g.first, a, count')
  <2>1. got' = FileBytes(f.first, a, count) \o BytesFrom(SectorNo(f.first, q), r, take)
    BY <1>3, <1>5, <1>7, <1>9 DEF BytesFrom
  <2>2. a \in Nat /\ a + count = p /\ take \in Nat /\ r + take <= SectorSize
    BY <1>2, <1>3, <1>6, <1>8, Limits
  <2> HIDE DEF a
  <2>3. FileBytes(f.first, a, count)
          \o BytesFrom(SectorNo(f.first, (a + count) \div SectorSize), (a + count) % SectorSize, take)
          = FileBytes(f.first, a, count + take)
    <3>1. ((a + count) % SectorSize) + take <= SectorSize
      BY <2>2 DEF r
    <3> QED  BY <1>3, <2>2, <3>1, FileBytesAppend
  <2> QED  BY <1>10, <1>13, <2>1, <2>2, <2>3 DEF q, r
<1> HIDE DEF a
<1>16. Copied(g, n)'
  BY <1>3, <1>13, <1>14, <1>15 DEF Copied
<1>17. AtSector(g, q) /\ q \in 0 .. SectorsIn(g.first) - 1
  BY <1>5, <1>13 DEF AtSector
<1>18. Standing(g)'
  <2>1. CASE take = room
    <3>1. pc' = "boundary" /\ g.pos = SectorSize * (q + 1)
      BY <1>6, <1>7, <1>13, <2>1
    <3> QED  BY <1>17, <3>1 DEF Standing
  <2>2. CASE take # room
    <3>1. r + take < SectorSize /\ take \in Nat
      BY <1>6, <1>8, <2>2, Limits
    <3>2. g.pos \div SectorSize = q
      BY <1>2, <1>13, <3>1, WithinSector DEF q, r
    <3>3. AtPosition(g)
      BY <1>5, <1>13, <1>17, <3>2 DEF AtPosition
    <3> QED  BY <1>7, <2>2, <3>3 DEF Standing
  <2> QED  BY <2>1, <2>2
<1>19. g.pos - count' = f.pos - count
  BY <1>14 DEF a, p
<1> QED  BY <1>7, <1>12, <1>13, <1>16, <1>18, <1>19, ReadsOn DEF f

\* At the end of a sector the reader goes on to the next one of the chain, and
\* comes to the end of the chain only at the end of the file (fat.c:230-250).
LEMMA NextOfFile ==
  ASSUME WithinLimits, TableOK, DuringRead, pc = "boundary", NextSector
  PROVE  TableOK' /\ DuringRead' /\ StartKept
<1> DEFINE f == fd[cur]
           c == f.first
<1>1. PICK n \in Counts : Copied(f, n)
  BY DEF DuringRead
<1>2. PICK q \in 0 .. SectorsIn(c) - 1 : f.pos = SectorSize * (q + 1) /\ AtSector(f, q)
  BY DEF DuringRead, Standing
<1>3. cur \in Handles /\ IsFile(f) /\ f \in FileState /\ f.pos \in Nat /\ f.size \in Nat
  BY DEF DuringRead, TableOK, FdOK, FileState
<1>4. /\ count \in Nat /\ count <= f.pos /\ left \in Nat /\ f.pos + left <= f.size
      /\ got = FileBytes(c, f.pos - count, count)
      /\ count + left = MinWide(n, f.size - (f.pos - count))
  BY <1>1 DEF Copied
<1>5. c \in DOMAIN Chain /\ SectorsIn(c) \in Nat \ {0} /\ f.size <= SectorsIn(c) * SectorSize
      /\ q \in Nat
  BY <1>2, <1>3, FileChain
<1>6. PICK g \in StepOn(f) :
        IF g.cluster >= EOC
        THEN fd' = [fd EXCEPT ![cur] = [g EXCEPT !.size = g.pos]] /\ pc' = "done"
        ELSE /\ fd' = [fd EXCEPT ![cur] = g]
             /\ pc' = "disk" /\ io' = "read" /\ lba' = (ClusterToLba(g.cluster) + g.sec) % W32
  BY DEF NextSector, StartDisk
<1>7. UNCHANGED <<op, cur, answer, left, got, count>>
  BY DEF NextSector, copied
<1>8. /\ g \in FileState /\ g.opened = f.opened /\ g.isDir = f.isDir /\ g.first = c
      /\ g.size = f.size /\ g.pos = f.pos
  BY <1>3, StepOnState
<1>9. /\ q + 1 < SectorsIn(c) => AtSector(g, q + 1) /\ g.cluster < EOC
      /\ q + 1 >= SectorsIn(c) => g.cluster >= EOC
  BY <1>2, <1>3, <1>5, StepAlong
<1> HIDE DEF f, c
<1>10. Copied(g, n)'
  BY <1>4, <1>7, <1>8 DEF Copied
<1>11. CASE q + 1 < SectorsIn(c)
  <2>1. ~(g.cluster >= EOC)
    BY <1>8, <1>9, <1>11 DEF FileState, EOC
  <2>2. fd' = [fd EXCEPT ![cur] = g] /\ pc' = "disk" /\ io' = "read"
        /\ lba' = (ClusterToLba(g.cluster) + g.sec) % W32
    BY <1>6, <2>1
  <2>3. q + 1 \in 0 .. SectorsIn(c) - 1
    BY <1>5, <1>11
  <2>4. lba' = SectorNo(c, q + 1)
    <3>1. /\ g.cluster = Chain[c][(q + 1) \div SectorsPerCluster + 1]
          /\ g.sec = (q + 1) % SectorsPerCluster
      BY <1>8, <1>9, <1>11 DEF AtSector
    <3>2. (ClusterToLba(Chain[c][(q + 1) \div SectorsPerCluster + 1])
             + ((q + 1) % SectorsPerCluster)) % W32 = SectorNo(c, q + 1)
      BY <1>5, <2>3, SectorLba
    <3> QED  BY <2>2, <3>1, <3>2
  <2>5. Standing(g)'
    <3>1. g.pos = SectorSize * (q + 1) /\ AtSector(g, q + 1)
      BY <1>2, <1>8, <1>9, <1>11
    <3> QED  BY <1>8, <2>2, <2>3, <2>4, <3>1 DEF Standing
  <2>6. g.pos - count' = f.pos - count
    BY <1>7, <1>8
  <2> QED  BY <1>7, <1>8, <1>10, <2>2, <2>5, <2>6, ReadsOn DEF f, c
<1>12. CASE q + 1 >= SectorsIn(c)
  <2>1. q + 1 = SectorsIn(c)
    BY <1>5, <1>12
  <2>2. f.pos = f.size /\ left = 0
    <3>1. SectorsIn(c) * SectorSize = f.pos
      BY <1>2, <1>5, <2>1, Limits
    <3> QED  BY <1>3, <1>4, <1>5, <3>1
  <2>3. PICK k : k = [g EXCEPT !.size = g.pos]
    OBVIOUS
  <2>4. fd' = [fd EXCEPT ![cur] = k] /\ pc' = "done"
    BY <1>6, <1>9, <1>12, <2>3
  <2>5. /\ k \in FileState /\ k.opened = f.opened /\ k.isDir = f.isDir /\ k.first = c
        /\ k.size = f.size /\ k.pos = f.pos
    BY <1>8, <2>2, <2>3 DEF FileState
  <2>6. Copied(k, n)'
    BY <1>4, <1>7, <2>5 DEF Copied
  <2>7. Standing(k)'
    <3>1. AtPosition(k)
      BY <1>3, <2>2, <2>5 DEF AtPosition
    <3> QED  BY <1>7, <2>2, <2>4, <3>1 DEF Standing
  <2>8. k.pos - count' = f.pos - count
    BY <1>7, <2>5
  <2> QED  BY <1>7, <2>4, <2>5, <2>6, <2>7, <2>8, ReadsOn DEF f, c
<1> QED  BY <1>5, <1>11, <1>12

\* A sector of the file comes, or another attempt is made.
LEMMA FileReads ==
  ASSUME WithinLimits, TableOK, DuringRead, pc = "disk", Disk
  PROVE  TableOK' /\ DuringRead' /\ StartKept
<1> DEFINE f == fd[cur]
<1>1. PICK n \in Counts : Copied(f, n)
  BY DEF DuringRead
<1>2. PICK q \in 0 .. SectorsIn(f.first) - 1 :
        io = "read" /\ f.pos = SectorSize * q /\ AtSector(f, q) /\ lba = SectorNo(f.first, q)
  BY DEF DuringRead, Standing
<1>3. cur \in Handles /\ IsFile(f) /\ f \in FileState
  BY DEF DuringRead, TableOK, FdOK
<1>4. lba \in 0 .. Sectors - 1 /\ lba \notin Fatal /\ lba \in Nat /\ Buffered
  BY <1>2, <1>3, FileSector, VolumeAssumption DEF Buffered
<1>5. /\ FdOK' /\ \A h \in Handles \cup {Root} : SameFile(fd[h], fd'[h])
      /\ \A h \in Handles \cup {Root} : h # cur => fd'[h] = fd[h]
      /\ UNCHANGED <<path, copied, io, lba, op, cur, answer>>
      /\ pc' = "disk" \/ (pc' = "loop" /\ fd'[cur].buf = lba)
  BY <1>2, <1>3, <1>4, DiskDoes DEF TableOK
<1>6. PICK g : g = fd'[cur]
  OBVIOUS
<1>7. g \in FileState /\ SameFile(f, g) /\ fd' = [fd EXCEPT ![cur] = g]
  BY <1>3, <1>5, <1>6 DEF TableOK, FdOK
<1> HIDE DEF f
<1>8. /\ g.opened = f.opened /\ g.isDir = f.isDir /\ g.first = f.first /\ g.size = f.size
      /\ g.pos = f.pos /\ g.cluster = f.cluster /\ g.sec = f.sec
  BY <1>7 DEF SameFile
<1>9. Copied(g, n)'
  BY <1>1, <1>5, <1>8 DEF Copied, copied
<1>10. AtSector(g, q)
  BY <1>2, <1>8 DEF AtSector
<1>11. Standing(g)'
  <2>1. CASE pc' = "disk"
    BY <1>2, <1>5, <1>8, <1>10, <2>1 DEF Standing
  <2>2. CASE pc' = "loop" /\ fd'[cur].buf = lba
    <3>1. g.pos \div SectorSize = q
      <4>1. q \in Nat
        OBVIOUS
      <4> QED  BY <1>2, <1>8, <4>1, AtStart
    <3>2. AtPosition(g)
      BY <1>2, <1>6, <1>8, <1>10, <2>2, <3>1 DEF AtPosition
    <3> QED  BY <2>2, <3>2 DEF Standing
  <2> QED  BY <1>5, <2>1, <2>2
<1>12. g.pos - count' = f.pos - count
  BY <1>5, <1>8 DEF copied
<1> QED  BY <1>5, <1>7, <1>8, <1>9, <1>11, <1>12, ReadsOn DEF f

\* The loop ends when nothing is wanted any more.
LEMMA ReadLoopEnds ==
  ASSUME TableOK, DuringRead, LoopEnds
  PROVE  TableOK' /\ DuringRead' /\ StartKept
<1>1. PICK n \in Counts : Copied(fd[cur], n)
  BY DEF DuringRead
<1>2. PICK g : g = fd[cur]
  OBVIOUS
<1>3. cur \in Handles /\ g \in FileState
  BY <1>2 DEF DuringRead, TableOK, FdOK
<1>4. /\ left = 0 /\ pc = "loop" /\ pc' = "done" /\ fd' = fd
      /\ UNCHANGED <<op, cur, answer, left, got, count>>
  BY DEF LoopEnds, copied
<1>5. fd' = [fd EXCEPT ![cur] = g]
  BY <1>2, <1>3, <1>4 DEF TableOK, FdOK
<1>6. Copied(g, n)'
  BY <1>1, <1>2, <1>4 DEF Copied
<1>7. Standing(g)'
  BY <1>2, <1>4 DEF DuringRead, Standing
<1> QED  BY <1>2, <1>3, <1>4, <1>5, <1>6, <1>7, ReadsOn

\* FAT_Read returns: its handle is again an open file like any other.
LEMMA ReadComesBack ==
  ASSUME TableOK, DuringRead, ReadReturns
  PROVE  TableOK' /\ BetweenCalls'
<1>1. PICK n \in Counts : Copied(fd[cur], n)
  BY DEF DuringRead
<1>2. /\ pc' = "idle" /\ op' = "none" /\ answer' = [op |-> "read", data |-> got, count |-> count]
      /\ UNCHANGED <<fd, cur>> /\ pc = "done"
  BY DEF ReadReturns, Return
<1>3. ~Unready'
  <2>1. [op |-> "read", data |-> got, count |-> count].op = "read"
    BY Zenon
  <2> QED  BY <1>2, <2>1 DEF Unready
<1>4. FileOK(fd[cur]) /\ ~Unready /\ cur \in Handles
  <2>1. fd[cur].pos + left <= fd[cur].size /\ left \in Nat /\ left = 0 /\ AtPosition(fd[cur])
        /\ IsFile(fd[cur]) /\ cur \in Handles /\ ~Unready
    BY <1>1, <1>2 DEF DuringRead, Standing, Copied
  <2>2. fd[cur].pos \in Nat /\ fd[cur].size \in Nat
    BY <2>1 DEF TableOK, FdOK, FileState
  <2> QED  BY <2>1, <2>2 DEF FileOK
<1>5. HandlesOK'
  <2>1. \A h \in Handles : fd[h].opened => FileOK(fd[h])
    BY <1>4 DEF TableOK, HandlesOK, Busy
  <2> QED  BY <1>2, <2>1 DEF HandlesOK
<1>6. FdOK' /\ RootOK' /\ EarlyOK'
  BY <1>2, <1>3, <1>4 DEF TableOK, FdOK, RootOK, EarlyOK
<1> QED  BY <1>2, <1>5, <1>6 DEF TableOK, BetweenCalls

\* Whatever FAT_Read does next.
LEMMA ReadInv ==
  ASSUME WithinLimits, TableOK, DuringRead, NextFat
  PROVE  FInv' /\ (StartKept \/ ReadReturns)
<1>1. op = "read" /\ cur # Root /\ pc \in {"loop", "boundary", "disk", "done"}
  BY RootApart DEF DuringRead, Standing
<1>2. Step
  BY <1>1, CallersWait DEF NextFat
<1>3. CASE pc = "loop"
  <2>1. CopyChunk \/ LoopEnds
    BY <1>2, <1>3, StepAt
  <2> QED  BY <2>1, CopiesFile, ReadLoopEnds DEF FInv
<1>4. CASE pc = "boundary"
  <2>1. NextSector
    BY <1>1, <1>2, <1>4, StepAt DEF NextRootSector
  <2> QED  BY <1>4, <2>1, NextOfFile DEF FInv
<1>5. CASE pc = "disk"
  <2>1. Disk
    BY <1>2, <1>5, StepAt
  <2> QED  BY <1>5, <2>1, FileReads DEF FInv
<1>6. CASE pc = "done"
  <2>1. ReadReturns
    BY <1>1, <1>2, <1>6, StepAt
  <2> QED  BY <2>1, ReadComesBack DEF FInv
<1> QED  BY <1>1, <1>3, <1>4, <1>5, <1>6

------------------------------------------------------------------------------
(* FAT_Initialize. *)

\* Before it has succeeded there are no open files.
LEMMA NoFilesYet ==
  ASSUME FdOK', Unready', \A h \in Handles : ~fd'[h].opened
  PROVE  TableOK'
BY DEF TableOK, HandlesOK, RootOK, EarlyOK

\* What the caller sees of FAT_Initialize: nothing, then its answer.
NoFiles ==
  /\ \A h \in Handles : ~fd'[h].opened
  /\ answer' = answer \/ \E ok \in BOOLEAN : answer' = [op |-> "initialized", ok |-> ok]

\* Its reads (fat.c:97-133).
LEMMA InitializeReads ==
  ASSUME TableOK, DuringInitialize, pc = "disk", Disk
  PROVE  TableOK' /\ (DuringInitialize' \/ BetweenCalls') /\ NoFiles
<1>1. /\ op = "initialize" /\ Unready /\ lba \in Nat /\ \A h \in Handles : ~fd[h].opened
      /\ \/ io \in {"boot", "fat"}
         \/ io = "root" /\ cur = Root /\ AtEntry(fd[Root])
  BY DEF DuringInitialize, TableOK, EarlyOK
<1>2. /\ FdOK' /\ \A h \in Handles \cup {Root} : SameFile(fd[h], fd'[h])
      /\ \/ /\ UNCHANGED <<op, cur, answer>>
            /\ io = "boot" => pc' = "checkBoot"
            /\ io = "fat"  => pc' = "openRoot"
            /\ io = "root" => pc' = "rootRead"
         \/ pc' = "disk" /\ UNCHANGED <<op, cur, answer>>
         \/ Return([op |-> "initialized", ok |-> FALSE])
      /\ UNCHANGED <<io, lba>>
  BY <1>1, DiskDoes DEF TableOK, Buffered
<1>3. /\ \A h \in Handles : ~fd'[h].opened
      /\ AtEntry(fd[Root]) => AtEntry(fd'[Root])
  BY <1>1, <1>2 DEF SameFile, AtEntry
<1>4. CASE UNCHANGED <<op, cur, answer>> /\ pc' \in {"checkBoot", "openRoot", "rootRead", "disk"}
  <2>1. Unready'
    BY <1>1, <1>4 DEF Unready
  <2>2. TableOK'
    BY <1>2, <1>3, <2>1, NoFilesYet
  <2>3. DuringInitialize'
    <3>1. CASE io \in {"boot", "fat"}
      <4>1. pc' \in {"checkBoot", "openRoot"} \/ pc' = "disk"
        BY <1>2, <1>4, <3>1 DEF Return
      <4> QED  BY <1>1, <1>2, <1>4, <2>1, <3>1, <4>1 DEF DuringInitialize
    <3>2. CASE io = "root" /\ cur = Root /\ AtEntry(fd[Root])
      <4>1. pc' = "rootRead" \/ pc' = "disk"
        BY <1>2, <1>4, <3>2 DEF Return
      <4> QED  BY <1>1, <1>2, <1>3, <1>4, <2>1, <3>2, <4>1 DEF DuringInitialize
    <3> QED  BY <1>1, <3>1, <3>2
  <2> QED  BY <1>3, <1>4, <2>2, <2>3 DEF NoFiles
<1>5. CASE Return([op |-> "initialized", ok |-> FALSE])
  <2>1. pc' = "idle" /\ op' = "none" /\ answer' = [op |-> "initialized", ok |-> FALSE]
    BY <1>5 DEF Return
  <2>2. Unready'
    <3>1. /\ [op |-> "initialized", ok |-> FALSE].op = "initialized"
          /\ [op |-> "initialized", ok |-> FALSE].ok = FALSE
      BY Zenon
    <3> QED  BY <2>1, <3>1 DEF Unready
  <2> QED  BY <1>2, <1>3, <2>1, <2>2, NoFilesYet DEF BetweenCalls, NoFiles
<1>6. \/ UNCHANGED <<op, cur, answer>> /\ pc' \in {"checkBoot", "openRoot", "rootRead", "disk"}
      \/ Return([op |-> "initialized", ok |-> FALSE])
  BY <1>1, <1>2
<1> QED  BY <1>4, <1>5, <1>6

\* Its own steps (fat.c:85-152).
LEMMA InitializeStepsOn ==
  ASSUME TableOK, DuringInitialize, RefuseVolume \/ ReadFat \/ OpenRoot \/ ResetHandles
  PROVE  TableOK' /\ (DuringInitialize' \/ BetweenCalls') /\ NoFiles
<1>1. op = "initialize" /\ Unready /\ \A h \in Handles : ~fd[h].opened
  BY DEF DuringInitialize, TableOK, EarlyOK
<1>2. CASE RefuseVolume
  <2>1. pc' = "idle" /\ op' = "none" /\ answer' = [op |-> "initialized", ok |-> FALSE] /\ fd' = fd
    BY <1>2 DEF RefuseVolume, Return
  <2>2. Unready'
    <3>1. /\ [op |-> "initialized", ok |-> FALSE].op = "initialized"
          /\ [op |-> "initialized", ok |-> FALSE].ok = FALSE
      BY Zenon
    <3> QED  BY <2>1, <3>1 DEF Unready
  <2>3. FdOK' /\ \A h \in Handles : ~fd'[h].opened
    BY <1>1, <2>1 DEF TableOK, FdOK
  <2> QED  BY <2>1, <2>2, <2>3, NoFilesYet DEF BetweenCalls, NoFiles
<1>3. CASE ReadFat
  <2>1. pc' = "disk" /\ io' = "fat" /\ lba' = 1 /\ UNCHANGED <<fd, op, answer>>
    BY <1>3 DEF ReadFat, StartDisk
  <2>2. Unready' /\ FdOK' /\ \A h \in Handles : ~fd'[h].opened
    BY <1>1, <2>1 DEF TableOK, FdOK, Unready
  <2> QED  BY <1>1, <2>1, <2>2, NoFilesYet DEF DuringInitialize, NoFiles
<1>4. CASE OpenRoot
  <2> DEFINE g == [fd[Root] EXCEPT !.opened = TRUE, !.isDir = TRUE, !.pos = 0,
                     !.size = RootSize, !.first = RootLba, !.cluster = RootLba, !.sec = 0]
  <2>1. /\ fd' = [fd EXCEPT ![Root] = [@ EXCEPT !.opened = TRUE, !.isDir = TRUE, !.pos = 0,
                    !.size = RootSize, !.first = RootLba, !.cluster = RootLba, !.sec = 0]]
        /\ pc' = "disk" /\ io' = "root" /\ lba' = RootLba /\ cur' = Root /\ UNCHANGED <<op, answer>>
    BY <1>4 DEF OpenRoot, StartDisk
  <2>2. RootLba \in Nat /\ RootSize \in Nat /\ EntrySize \in Nat \ {0} /\ fd[Root] \in FileState
    BY VolumeAssumption, RootFits DEF TableOK, FdOK
  <2>3. fd' = [fd EXCEPT ![Root] = g]
    BY <2>1 DEF TableOK, FdOK
  <2>4. g \in FileState /\ AtEntry(g)
    <3>1. g \in FileState /\ g.isDir = TRUE /\ g.pos = 0
      BY <2>2 DEF FileState
    <3>2. 0 % EntrySize = 0
      BY <2>2
    <3> QED  BY <3>1, <3>2 DEF AtEntry
  <2> HIDE DEF g
  <2>5. FdOK' /\ fd'[Root] = g /\ \A h \in Handles : fd'[h] = fd[h]
    BY <2>3, <2>4, RootApart DEF TableOK, FdOK
  <2>6. Unready' /\ \A h \in Handles : ~fd'[h].opened
    BY <1>1, <2>1, <2>5 DEF Unready
  <2>7. AtEntry(fd'[Root])
    BY <2>4, <2>5
  <2> QED  BY <1>1, <2>1, <2>2, <2>5, <2>6, <2>7, NoFilesYet DEF DuringInitialize, NoFiles
<1>5. CASE ResetHandles
  <2>1. /\ fd' = [h \in DOMAIN fd |-> IF h = Root THEN fd[h] ELSE [fd[h] EXCEPT !.opened = FALSE]]
        /\ pc' = "idle" /\ op' = "none" /\ answer' = [op |-> "initialized", ok |-> TRUE]
        /\ AtEntry(fd[Root])
    BY <1>5 DEF ResetHandles, Return, DuringInitialize
  <2>2. ~Unready'
    <3>1. /\ [op |-> "initialized", ok |-> TRUE].op = "initialized"
          /\ [op |-> "initialized", ok |-> TRUE].ok = TRUE
      BY Zenon
    <3> QED  BY <2>1, <3>1 DEF Unready
  <2>3. \A h \in Handles \cup {Root} :
          (IF h = Root THEN fd[h] ELSE [fd[h] EXCEPT !.opened = FALSE]) \in FileState
    BY DEF TableOK, FdOK, FileState
  <2>4. FdOK'
    <3>1. DOMAIN fd = Handles \cup {Root}
      BY DEF TableOK, FdOK
    <3> QED  BY <2>1, <2>3, <3>1 DEF FdOK
  <2>5. fd'[Root] = fd[Root]
    BY <2>1 DEF TableOK, FdOK
  <2>6. \A h \in Handles : ~fd'[h].opened
    <3> SUFFICES ASSUME NEW h \in Handles PROVE ~fd'[h].opened
      OBVIOUS
    <3>1. fd'[h] = [fd[h] EXCEPT !.opened = FALSE] /\ fd[h] \in FileState
      BY <2>1, RootApart DEF TableOK, FdOK
    <3> QED  BY <3>1 DEF FileState
  <2> QED  BY <2>1, <2>2, <2>4, <2>5, <2>6 DEF TableOK, HandlesOK, RootOK, EarlyOK, BetweenCalls,
      NoFiles
<1> QED  BY <1>2, <1>3, <1>4, <1>5

\* Whatever FAT_Initialize does next.
LEMMA InitializeInv ==
  ASSUME TableOK, DuringInitialize, NextFat
  PROVE  FInv' /\ NoFiles
<1>1. pc \in {"disk", "checkBoot", "openRoot", "rootRead"}
  BY DEF DuringInitialize
<1>2. Step
  BY <1>1, CallersWait DEF NextFat
<1>3. CASE pc = "disk"
  <2>1. Disk
    BY <1>2, <1>3, StepAt
  <2> QED  BY <1>3, <2>1, InitializeReads DEF FInv
<1>4. CASE pc # "disk"
  <2>1. RefuseVolume \/ ReadFat \/ OpenRoot \/ ResetHandles
    BY <1>1, <1>2, <1>4, StepAt
  <2> QED  BY <2>1, InitializeStepsOn DEF FInv
<1> QED  BY <1>3, <1>4

------------------------------------------------------------------------------
(* The calls. *)

\* A read starts at the position of its handle (fat.c:192-202).
LEMMA ReadCalled ==
  ASSUME WithinLimits, TableOK, BetweenCalls, NEW h \in Handles, NEW n \in Counts, CallRead(h, n)
  PROVE  TableOK' /\ DuringRead'
<1> DEFINE f == fd[h]
<1>1. /\ op' = "read" /\ cur' = h /\ pc' = "loop" /\ got' = <<>> /\ count' = 0 /\ f.opened
      /\ left' = IF f.isDir THEN n ELSE MinInt(n, (f.size - f.pos) % W32)
      /\ UNCHANGED <<fd, answer>> /\ op = "none"
  BY DEF CallRead, StartRead, BetweenCalls
<1>2. ~Unready /\ ~Unready'
  BY <1>1 DEF TableOK, EarlyOK, Unready
<1>3. FileOK(f) /\ f \in FileState /\ f.pos \in Nat /\ f.size \in Nat
  BY <1>1 DEF TableOK, HandlesOK, Busy, FdOK, FileState
<1>4. f.isDir = FALSE /\ IsFile(f) /\ f.pos <= f.size /\ AtPosition(f) /\ f.size < W16 \div 2
  BY <1>3, FileChain DEF FileOK, IsFile
<1> HIDE DEF f
<1>5. left' = MinWide(n, f.size - f.pos) /\ left' \in Nat /\ f.pos + left' <= f.size
  <2>1. f.size - f.pos \in 0 .. W32 - 1 /\ f.size - f.pos < W16 \div 2 /\ n \in Nat /\ n < W16 \div 2
    BY <1>3, <1>4, Limits DEF WithinLimits
  <2>2. (f.size - f.pos) % W32 = f.size - f.pos
    BY <2>1, SmallMod, Limits
  <2>3. MinInt(n, f.size - f.pos) = IF n < f.size - f.pos THEN n ELSE f.size - f.pos
    BY <2>1, MinSmall, Limits
  <2> QED  BY <1>1, <1>3, <1>4, <2>1, <2>2, <2>3 DEF MinWide
<1>6. <<>> = FileBytes(f.first, f.pos, 0)
  BY DEF FileBytes
<1>7. f.pos - 0 = f.pos /\ 0 + left' = left'
  BY <1>3, <1>5
<1>8. Copied(fd[cur], n)'
  BY <1>1, <1>3, <1>5, <1>6, <1>7 DEF Copied, f
<1>9. Standing(fd[cur])'
  BY <1>1, <1>4 DEF Standing, f
<1>10. DuringRead'
  BY <1>1, <1>2, <1>4, <1>8, <1>9 DEF DuringRead, f
<1>11. TableOK'
  <2>1. HandlesOK'
    BY <1>1 DEF TableOK, HandlesOK, Busy
  <2> QED  BY <1>1, <1>2, <2>1 DEF TableOK, FdOK, RootOK, EarlyOK
<1> QED  BY <1>10, <1>11

\* The other calls.
LEMMA OthersCalled ==
  ASSUME WithinLimits, TableOK, BetweenCalls,
         CallInitialize \/ (\E p \in Paths : CallOpen(p)) \/ (\E h \in Handles : CallClose(h))
  PROVE  FInv'
<1>1. op = "none" /\ \A h \in Handles : ~Busy(h)
  BY DEF BetweenCalls, Busy
<1>2. CASE CallInitialize
  <2>1. /\ Unready /\ op' = "initialize" /\ pc' = "disk" /\ io' = "boot" /\ lba' = 0
        /\ UNCHANGED <<fd, cur, answer>>
    BY <1>2 DEF CallInitialize, StartDisk
  <2>2. Unready' /\ FdOK' /\ \A h \in Handles : ~fd'[h].opened
    BY <2>1 DEF TableOK, FdOK, EarlyOK, Unready
  <2>3. TableOK'
    BY <2>2, NoFilesYet
  <2> QED  BY <2>1, <2>2, <2>3 DEF DuringInitialize, FInv
<1>3. CASE \E p \in Paths : CallOpen(p)
  <2>1. PICK p \in Paths : CallOpen(p)
    BY <1>3
  <2>2. /\ ~Unready /\ op' = "open" /\ pc' = "find" /\ cur' = Root /\ path' = p
        /\ UNCHANGED <<fd, answer>>
    BY <2>1 DEF CallOpen
  <2>3. ~Unready' /\ FdOK' /\ AtEntry(fd'[Root]) /\ fd'[Root] = fd[Root] /\ LeadsToFile(path')
    BY <2>2 DEF TableOK, FdOK, RootOK, Unready, WithinLimits
  <2>4. \A h \in Handles : fd'[h].opened => ~Busy(h) /\ fd'[h] = fd[h]
    BY <1>1, <2>2
  <2>5. TableOK'
    BY <2>2, <2>3, <2>4, TableMoved
  <2>6. Scanning'
    BY <2>2, <2>3 DEF Scanning
  <2> QED  BY <2>2, <2>3, <2>5, <2>6 DEF DuringOpen, FInv
<1>4. CASE \E h \in Handles : CallClose(h)
  <2>1. PICK h \in Handles : CallClose(h)
    BY <1>4
  <2> DEFINE g == [fd[h] EXCEPT !.opened = FALSE]
  <2>2. /\ fd[h].opened /\ fd' = Close(h) /\ answer' = [op |-> "close"] /\ pc' = pc /\ op' = op
    BY <2>1 DEF CallClose
  <2>3. ~Unready
    BY <2>2 DEF TableOK, EarlyOK
  <2>4. ~Unready'
    <3>1. [op |-> "close"].op = "close"
      BY Zenon
    <3> QED  BY <2>2, <3>1 DEF Unready
  <2>5. fd' = [fd EXCEPT ![h] = g]
    BY <2>2, RootApart DEF Close, TableOK, FdOK
  <2>6. g \in FileState /\ g.opened = FALSE
    BY DEF TableOK, FdOK, FileState
  <2> HIDE DEF g
  <2>7. FdOK' /\ \A i \in Handles \cup {Root} : fd'[i] = IF i = h THEN g ELSE fd[i]
    BY <2>5, <2>6 DEF TableOK, FdOK
  <2>8. AtEntry(fd'[Root])
    BY <2>3, <2>7, RootApart DEF TableOK, RootOK
  <2>9. \A i \in Handles : fd'[i].opened => ~Busy(i) /\ fd'[i] = fd[i]
    BY <1>1, <2>6, <2>7
  <2>10. TableOK'
    BY <2>3, <2>4, <2>7, <2>8, <2>9, TableMoved
  <2> QED  BY <2>2, <2>10 DEF FInv, BetweenCalls
<1> QED  BY <1>2, <1>3, <1>4

LEMMA InitFInv == InitFat => FInv
<1> SUFFICES ASSUME InitFat PROVE FInv
  OBVIOUS
<1>1. fd = [h \in Handles \cup {Root} |-> NewFile] /\ pc = "idle" /\ op = "none"
      /\ answer = [op |-> "none"]
  BY DEF InitFat
<1>2. NewFile \in FileState /\ NewFile.opened = FALSE
  BY DEF NewFile, FileState, Junk
<1>3. Unready
  <2>1. [op |-> "none"].op = "none"
    BY Zenon
  <2> QED  BY <1>1, <2>1 DEF Unready
<1>4. FdOK /\ \A h \in Handles : ~fd[h].opened
  BY <1>1, <1>2 DEF FdOK
<1> QED  BY <1>1, <1>3, <1>4 DEF FInv, TableOK, HandlesOK, RootOK, EarlyOK, BetweenCalls

LEMMA FInvStep == ASSUME WithinLimits, FInv, [NextFat]_fatVars PROVE FInv'
<1>1. CASE NextFat
  <2>1. CASE BetweenCalls
    <3>1. Caller
      BY <1>1, <2>1, StepAt DEF NextFat, BetweenCalls
    <3>2. CASE \E h \in Handles, n \in Counts : CallRead(h, n)
      BY <2>1, <3>2, ReadCalled DEF FInv
    <3>3. CASE CallInitialize \/ (\E p \in Paths : CallOpen(p)) \/ (\E h \in Handles : CallClose(h))
      BY <2>1, <3>3, OthersCalled DEF FInv
    <3> QED  BY <3>1, <3>2, <3>3 DEF Caller
  <2>2. CASE DuringInitialize
    BY <1>1, <2>2, InitializeInv DEF FInv
  <2>3. CASE DuringOpen
    BY <1>1, <2>3, OpenInv DEF FInv
  <2>4. CASE DuringRead
    BY <1>1, <2>4, ReadInv DEF FInv
  <2> QED  BY <2>1, <2>2, <2>3, <2>4 DEF FInv
<1>2. CASE UNCHANGED fatVars
  BY <1>2 DEF fatVars, copied, disk, FInv, TableOK, FdOK, HandlesOK, Busy, RootOK, EarlyOK, Unready,
    BetweenCalls, DuringInitialize, DuringOpen, Scanning, Entering, Abandoned, Free,
    DuringRead, Copied, Standing
<1> QED  BY <1>1, <1>2

LEMMA FatInvariant == ASSUME WithinLimits PROVE SpecFat => []FInv
<1>1. InitFat => FInv
  BY InitFInv
<1>2. FInv /\ [NextFat]_fatVars => FInv'
  BY FInvStep
<1> QED  BY <1>1, <1>2, PTL DEF SpecFat

\* Between calls an open file that is not at its end has the sector of its
\* position in its buffer, so the next FAT_Read starts with the right byte,
\* whatever was opened, read and closed before (fat.c:172, 210-213, 253), on
\* every volume whose files and callers stay within a 16-bit int.
THEOREM BufferKeepsUp == ASSUME WithinLimits PROVE SpecFat => []BufferAtPosition
<1>1. FInv => BufferAtPosition
  <2> SUFFICES ASSUME FInv, pc = "idle", NEW h \in Handles, fd[h].opened, fd[h].pos < fd[h].size
               PROVE  fd[h].buf = SectorOf(fd[h].first, fd[h].pos)
    BY DEF BufferAtPosition
  <2>1. op = "none"
    BY DEF FInv, BetweenCalls, DuringInitialize, DuringOpen, Scanning, Entering, Abandoned,
      DuringRead, Standing
  <2>2. FileOK(fd[h])
    BY <2>1 DEF FInv, TableOK, HandlesOK, Busy
  <2> QED  BY <2>2, SectorOfNo DEF FileOK, AtPosition
<1>2. SpecFat => []FInv
  BY FatInvariant
<1> QED  BY <1>1, <1>2, PTL

------------------------------------------------------------------------------
(* The refinement of Files. *)

\* Bytes of a file are a sequence.
LEMMA FileBytesSeq ==
  ASSUME NEW c, NEW a \in Nat, NEW n \in Nat
  PROVE  \E T : FileBytes(c, a, n) \in Seq(T) /\ Len(FileBytes(c, a, n)) = n
<1> DEFINE Byte(i) == <<SectorOf(c, a + i - 1), (a + i - 1) % SectorSize>>
           T == {Byte(i) : i \in 1 .. n}
<1>1. \A i \in 1 .. n : Byte(i) \in T
  OBVIOUS
<1>2. FileBytes(c, a, n) = [i \in 1 .. n |-> Byte(i)]
  BY DEF FileBytes
<1> HIDE DEF T, Byte
<1>3. FileBytes(c, a, n) \in [1 .. n -> T]
  BY <1>1, <1>2
<1>4. FileBytes(c, a, n) \in Seq(T) /\ Len(FileBytes(c, a, n)) = n
  BY <1>3
<1> QED  BY <1>4

\* Content is the bytes of a file from the first one.
LEMMA ContentOf ==
  ASSUME NEW f \in FileState, IsFile(f)
  PROVE  f.first \in DOMAIN Content /\ Content[f.first] = FileBytes(f.first, 0, f.size)
<1>1. PICK e \in FileEntries : f.first = e.first /\ f.size = e.size
  BY DEF IsFile
<1>2. \A k \in FileEntries : k.first = e.first => k = e
  BY FilesAssumption
<1> DEFINE k == CHOOSE x \in FileEntries : x.first = e.first
<1>3. k = e
  <2>1. k \in FileEntries /\ k.first = e.first
    OBVIOUS
  <2> HIDE DEF k
  <2> QED  BY <1>2, <2>1
<1>4. e.first \in DOMAIN Content
  BY DEF Content
<1>5. Content[e.first] = [i \in 1 .. e.size |-> <<SectorOf(e.first, i - 1), (i - 1) % SectorSize>>]
  <2>1. Content[e.first] =
          [i \in 1 .. k.size |-> <<SectorOf(e.first, i - 1), (i - 1) % SectorSize>>]
    BY DEF Content
  <2> HIDE DEF k
  <2> QED  BY <1>3, <2>1
<1>6. \A i \in 1 .. e.size : 0 + i - 1 = i - 1
  OBVIOUS
<1>7. Content[e.first] = FileBytes(e.first, 0, e.size)
  BY <1>5, <1>6 DEF FileBytes
<1> QED  BY <1>1, <1>4, <1>7

\* What a read is promised, and that it is what FAT_Read has copied.
LEMMA PieceIs ==
  ASSUME NEW f \in FileState, IsFile(f), NEW a \in Nat, a <= f.size, NEW n \in Nat,
         NEW k, k = MinWide(n, f.size - a)
  PROVE  Promise!Piece(f.first, a, n) = FileBytes(f.first, a, k) /\ k \in Nat
         /\ Len(Promise!Piece(f.first, a, n)) = k
<1> DEFINE s == FileBytes(f.first, 0, f.size)
           b == FileBytes(f.first, a, k)
<1>1. f.size \in Nat
  BY DEF FileState
<1>2. k \in Nat /\ a + k <= f.size /\ a + k = IF a + n < f.size THEN a + n ELSE f.size
  BY <1>1 DEF MinWide
<1>3. PICK T : s \in Seq(T) /\ Len(s) = f.size
  BY <1>1, FileBytesSeq
<1>4. PICK U : b \in Seq(U) /\ Len(b) = k
  BY <1>2, FileBytesSeq
<1>5. Promise!Piece(f.first, a, n) = SubSeq(s, a + 1, a + k)
  <2>1. Content[f.first] = s
    BY ContentOf
  <2> HIDE DEF s
  <2> QED  BY <1>2, <1>3, <2>1 DEF Promise!Piece
<1> DEFINE p == SubSeq(s, a + 1, a + k)
<1>6. p \in Seq(T) /\ Len(p) = k /\ \A i \in 1 .. k : p[i] = s[a + i]
  <2> DEFINE m == a + 1
             z == a + k
  <2>1. m \in Int /\ z \in Int /\ (IF m <= z THEN z - m + 1 ELSE 0) = k /\ z - m + 1 = k
        /\ \A i \in 1 .. k : m + i - 1 = a + i
    BY <1>2
  <2>2. \A i \in m .. z : s[i] \in T
    <3>1. \A i \in m .. z : i \in 1 .. f.size
      BY <1>1, <1>2
    <3> HIDE DEF s
    <3> QED  BY <1>3, <3>1, ElementOfSeq
  <2> HIDE DEF s, m, z
  <2>3. /\ SubSeq(s, m, z) \in Seq(T)
        /\ Len(SubSeq(s, m, z)) = IF m <= z THEN z - m + 1 ELSE 0
        /\ \A i \in 1 .. z - m + 1 : SubSeq(s, m, z)[i] = s[m + i - 1]
    BY <2>1, <2>2, SubSeqProperties
  <2>4. p = SubSeq(s, m, z)
    BY DEF m, z
  <2> HIDE DEF p
  <2> QED  BY <2>1, <2>3, <2>4
<1>7. \A i \in 1 .. k : p[i] = b[i]
  <2> SUFFICES ASSUME NEW i \in 1 .. k PROVE s[a + i] = b[i]
    BY <1>6
  <2>1. a + i \in 1 .. f.size /\ 0 + (a + i) - 1 = a + i - 1
    BY <1>1, <1>2
  <2> QED  BY <2>1 DEF FileBytes
<1> HIDE DEF p, b
<1>8. p = b
  <2>1. DOMAIN p = 1 .. k /\ DOMAIN b = 1 .. k
    BY <1>4, <1>6
  <2> QED  BY <1>4, <1>6, <1>7, <2>1, SeqEqual
<1> QED  BY <1>2, <1>4, <1>5, <1>8 DEF p, b

\* A handle as the caller sees it.
Hidden(h) == ~fd[h].opened \/ (op = "open" /\ cur = h)
Shown(h)  == IF op = "read" /\ cur = h THEN (fd[h].pos - count) % W32 ELSE fd[h].pos
Seen(h)   == IF Hidden(h) THEN [file |-> -1, pos |-> 0] ELSE [file |-> fd[h].first, pos |-> Shown(h)]

LEMMA TableSeen == Table = [h \in Handles |-> Seen(h)] /\ Table' = [h \in Handles |-> Seen(h)']
BY DEF Table, Seen, Hidden, Shown

LEMMA TableSame ==
  ASSUME \A h \in Handles : Seen(h)' = Seen(h)
  PROVE  Table' = Table
BY TableSeen

\* A file is told from no file.
LEMMA NotClosed ==
  ASSUME FdOK, NEW h \in Handles, ~Hidden(h)
  PROVE  Table[h] = [file |-> fd[h].first, pos |-> Shown(h)] /\ Table[h] # Promise!Closed
<1>1. Table[h] = [file |-> fd[h].first, pos |-> Shown(h)]
  BY TableSeen DEF Seen
<1>2. fd[h].first # -1
  <2>1. fd[h].first \in Nat
    BY DEF FdOK, FileState
  <2> QED  BY <2>1
<1>3. Table[h].file = fd[h].first /\ Promise!Closed.file = -1
  BY <1>1 DEF Promise!Closed
<1> QED  BY <1>1, <1>2, <1>3

LEMMA InitMaps == InitFat => Promise!Init
<1> SUFFICES ASSUME InitFat PROVE Promise!Init
  OBVIOUS
<1>1. fd = [h \in Handles \cup {Root} |-> NewFile] /\ answer = [op |-> "none"]
  BY DEF InitFat
<1>2. NewFile.opened = FALSE
  BY DEF NewFile
<1>3. \A h \in Handles : Seen(h) = [file |-> -1, pos |-> 0]
  BY <1>1, <1>2 DEF Seen, Hidden
<1>4. Table = [h \in Handles |-> [file |-> -1, pos |-> 0]]
  BY <1>3, TableSeen
<1> QED  BY <1>1, <1>4 DEF Promise!Init, Promise!Closed

\* FAT_Initialize keeps the table closed and answers once.
LEMMA InitializeMaps ==
  ASSUME TableOK, DuringInitialize, NoFiles
  PROVE  [Promise!Next]_<<Table, answer>>
<1>1. Unready /\ \A h \in Handles : ~fd[h].opened /\ ~fd'[h].opened
  BY DEF DuringInitialize, TableOK, EarlyOK, NoFiles
<1>2. \A h \in Handles : Seen(h)' = Seen(h)
  BY <1>1 DEF Seen, Hidden
<1>3. Table' = Table
  BY <1>2, TableSame
<1>4. Promise!Unready
  BY <1>1 DEF Unready, Promise!Unready
<1>5. CASE answer' = answer
  BY <1>3, <1>5
<1>6. CASE \E ok \in BOOLEAN : answer' = [op |-> "initialized", ok |-> ok]
  BY <1>3, <1>4, <1>6 DEF Promise!Next, Promise!Initialize
<1> QED  BY <1>5, <1>6 DEF NoFiles

\* The search of FAT_Open shows nothing.
LEMMA UnseenMaps ==
  ASSUME op = "open", Unseen
  PROVE  UNCHANGED <<Table, answer>>
<1>1. op' = "open" /\ answer' = answer
  BY DEF Unseen
<1>2. ASSUME NEW h \in Handles PROVE Seen(h)' = Seen(h)
  <2>1. CASE fd[h].opened /\ h # cur
    <3>1. fd'[h] = fd[h] /\ h # cur'
      BY <2>1 DEF Unseen
    <3> QED  BY <1>1, <2>1, <3>1 DEF Seen, Hidden, Shown
  <2>2. CASE ~(fd[h].opened /\ h # cur)
    <3>1. ~fd'[h].opened \/ h = cur'
      BY <2>2 DEF Unseen
    <3> QED  BY <1>1, <2>2, <3>1 DEF Seen, Hidden
  <2> QED  BY <2>1, <2>2
<1> QED  BY <1>1, <1>2, TableSame

\* It shows the file named when it returns.
LEMMA OpenedMaps ==
  ASSUME TableOK, DuringOpen, Opened, path = <<>>
  PROVE  \E f \in DOMAIN Content : Promise!Open(f)
<1>1. /\ pc = "opened" /\ fd' = [fd EXCEPT ![cur].opened = TRUE]
      /\ op' = "none" /\ answer' = [op |-> "open", file |-> cur] /\ cur' = cur
  BY DEF Opened, Return
<1>2. op = "open" /\ ~Unready /\ cur \in Handles /\ fd[cur].pos = 0 /\ IsFile(fd[cur]) /\ ~fd[cur].opened
  BY <1>1 DEF DuringOpen, Scanning, Entering, Abandoned
<1>3. fd[cur] \in FileState
  BY <1>2 DEF TableOK, FdOK
<1> DEFINE g == [fd[cur] EXCEPT !.opened = TRUE]
           new == [file |-> fd[cur].first, pos |-> 0]
<1>4. g.opened = TRUE /\ g.pos = 0 /\ g.first = fd[cur].first
  BY <1>2, <1>3 DEF FileState
<1>5. \A h \in Handles : fd'[h] = IF h = cur THEN g ELSE fd[h]
  BY <1>1, <1>2 DEF TableOK, FdOK
<1> HIDE DEF g
<1>6. \A h \in Handles : Seen(h)' = IF h = cur THEN new ELSE Seen(h)
  BY <1>1, <1>2, <1>4, <1>5 DEF Seen, Hidden, Shown
<1> HIDE DEF new
<1>7. Table[cur] = Promise!Closed
  BY <1>2, TableSeen DEF Seen, Hidden, Promise!Closed
<1>8. Table' = [Table EXCEPT ![cur] = new]
  <2>1. Table' = [h \in Handles |-> IF h = cur THEN new ELSE Seen(h)]
    BY <1>6, TableSeen
  <2> QED  BY <2>1, TableSeen
<1>9. fd[cur].first \in DOMAIN Content
  BY <1>2, <1>3, ContentOf
<1>10. ~Promise!Unready
  BY <1>2 DEF Unready, Promise!Unready
<1>11. Promise!Open(fd[cur].first)
  BY <1>1, <1>2, <1>7, <1>8, <1>10 DEF Promise!Open, new
<1> QED  BY <1>9, <1>11

\* NULL for a file of the volume means that the table is full.
LEMMA GivesUpMaps ==
  ASSUME TableOK, DuringOpen, OpenFailed, Abandoned, path = <<>>
  PROVE  Promise!NoHandle
<1>1. /\ pc = "openNull" /\ op' = "none" /\ answer' = [op |-> "open", file |-> Null]
      /\ UNCHANGED <<fd, cur>>
  BY DEF OpenFailed, Return
<1>2. op = "open" /\ ~Unready /\ cur = Null /\ Free(fd) = {}
  BY <1>1 DEF DuringOpen, Abandoned
<1>3. \A h \in Handles : fd[h].opened /\ h # cur
  BY <1>2, RootApart DEF Free
<1>4. \A h \in Handles : Table[h] # Promise!Closed
  BY <1>3, NotClosed DEF Hidden, TableOK
<1>5. \A h \in Handles : Seen(h)' = Seen(h)
  BY <1>1, <1>2, <1>3 DEF Seen, Hidden, Shown
<1>6. Table' = Table
  BY <1>5, TableSame
<1>7. ~Promise!Unready /\ Promise!NoFile = Null
  BY <1>2 DEF Unready, Promise!Unready, Promise!NoFile, Null
<1> QED  BY <1>1, <1>4, <1>6, <1>7 DEF Promise!NoHandle

\* FAT_Read shows nothing before it returns.
LEMMA ReadsOnMaps ==
  ASSUME DuringRead, StartKept
  PROVE  UNCHANGED <<Table, answer>>
<1>1. op = "read" /\ op' = "read" /\ cur' = cur /\ answer' = answer /\ cur \in Handles
  BY DEF DuringRead, StartKept
<1>2. ASSUME NEW h \in Handles PROVE Seen(h)' = Seen(h)
  <2>1. CASE h = cur
    BY <1>1, <2>1 DEF StartKept, Seen, Hidden, Shown
  <2>2. CASE h # cur
    <3>1. fd'[h] = fd[h]
      BY <2>2 DEF StartKept
    <3> QED  BY <1>1, <2>2, <3>1 DEF Seen, Hidden, Shown
  <2> QED  BY <2>1, <2>2
<1> QED  BY <1>1, <1>2, TableSame

\* Then it has read the next piece of the file.
LEMMA ReadMaps ==
  ASSUME WithinLimits, TableOK, DuringRead, ReadReturns
  PROVE  \E h \in Handles, n \in Counts : Promise!Read(h, n)
<1> DEFINE f == fd[cur]
           a == f.pos - count
<1>1. PICK n \in Counts : Copied(f, n)
  BY DEF DuringRead
<1>2. /\ pc = "done" /\ op' = "none" /\ answer' = [op |-> "read", data |-> got, count |-> count]
      /\ UNCHANGED <<fd, cur, count>>
  BY DEF ReadReturns, Return, copied
<1>3. /\ op = "read" /\ cur \in Handles /\ f.opened /\ IsFile(f) /\ f \in FileState
      /\ f.pos \in Nat /\ f.size \in Nat /\ left = 0
  BY <1>2 DEF DuringRead, Standing, TableOK, FdOK, FileState
<1>4. /\ count \in Nat /\ count <= f.pos /\ f.pos <= f.size /\ n \in Nat
      /\ got = FileBytes(f.first, a, count) /\ count = MinWide(n, f.size - a)
  <2>1. /\ count \in Nat /\ count <= f.pos /\ f.pos + left <= f.size
        /\ got = FileBytes(f.first, a, count) /\ count + left = MinWide(n, f.size - a)
    BY <1>1 DEF Copied
  <2>2. n \in Nat
    BY DEF WithinLimits
  <2> QED  BY <1>3, <2>1, <2>2
<1>5. f.size < W16 \div 2
  BY <1>3, FileChain
<1>6. a \in Nat /\ a <= f.size /\ a + count = f.pos /\ a % W32 = a
  <2>1. a \in 0 .. W32 - 1 /\ a <= f.size /\ a + count = f.pos
    BY <1>3, <1>4, <1>5, Limits
  <2> QED  BY <2>1, SmallMod, Limits
<1> HIDE DEF f, a
<1>7. Promise!Piece(f.first, a, n) = got /\ Len(got) = count
  BY <1>3, <1>4, <1>6, PieceIs
<1> DEFINE old == [file |-> f.first, pos |-> a]
           new == [file |-> f.first, pos |-> f.pos]
<1>8. Table[cur] = old /\ Table[cur] # Promise!Closed
  <2>1. ~Hidden(cur) /\ Shown(cur) = a
    BY <1>3, <1>6 DEF Hidden, Shown, f, a
  <2> QED  BY <1>3, <2>1, NotClosed DEF TableOK, f
<1>9. \A h \in Handles : Seen(h)' = IF h = cur THEN new ELSE Seen(h)
  BY <1>2, <1>3 DEF Seen, Hidden, Shown, f
<1>10. Table' = [Table EXCEPT ![cur] = new]
  <2> HIDE DEF new
  <2>1. Table' = [h \in Handles |-> IF h = cur THEN new ELSE Seen(h)]
    BY <1>9, TableSeen
  <2> QED  BY <2>1, TableSeen
<1>11. Table' = [Table EXCEPT ![cur].pos = @ + count]
  <2>1. Table[cur].pos = a /\ [Table[cur] EXCEPT !.pos = a + count] = new
    BY <1>6, <1>8
  <2>2. [Table EXCEPT ![cur].pos = @ + count] = [Table EXCEPT ![cur] = [Table[cur] EXCEPT !.pos = a + count]]
    BY <1>3, <2>1, TableSeen
  <2> HIDE DEF new
  <2> QED  BY <1>10, <2>1, <2>2
<1>12. Promise!Piece(Table[cur].file, Table[cur].pos, n) = got
  BY <1>7, <1>8
<1>13. Promise!Read(cur, n)
  BY <1>2, <1>7, <1>8, <1>11, <1>12 DEF Promise!Read
<1> QED  BY <1>3, <1>13

\* The calls show nothing but FAT_Close, which closes its handle.
LEMMA CallerMaps ==
  ASSUME WithinLimits, TableOK, BetweenCalls, Caller
  PROVE  [Promise!Next]_<<Table, answer>>
<1>1. op = "none"
  BY DEF BetweenCalls
<1>2. CASE CallInitialize \/ \E p \in Paths : CallOpen(p)
  <2>1. fd' = fd /\ answer' = answer /\ (op' = "initialize" \/ (op' = "open" /\ cur' = Root))
    BY <1>2 DEF CallInitialize, CallOpen
  <2>2. \A h \in Handles : Seen(h)' = Seen(h)
    BY <1>1, <2>1, RootApart DEF Seen, Hidden, Shown
  <2> QED  BY <2>1, <2>2, TableSame
<1>3. CASE \E h \in Handles, n \in Counts : CallRead(h, n)
  <2>1. PICK h \in Handles, n \in Counts : CallRead(h, n)
    BY <1>3
  <2>2. /\ fd' = fd /\ answer' = answer /\ op' = "read" /\ cur' = h /\ count' = 0 /\ fd[h].opened
    BY <2>1 DEF CallRead, StartRead
  <2>3. (fd[h].pos - 0) % W32 = fd[h].pos
    <3>1. FileOK(fd[h]) /\ fd[h] \in FileState
      BY <1>1, <2>2 DEF TableOK, HandlesOK, Busy, FdOK
    <3>2. fd[h].pos \in Nat /\ fd[h].size \in Nat /\ fd[h].pos <= fd[h].size /\ fd[h].size < W16 \div 2
      BY <3>1, FileChain DEF FileOK, FileState
    <3>3. fd[h].pos \in 0 .. W32 - 1 /\ fd[h].pos - 0 = fd[h].pos
      BY <3>2, Limits
    <3> QED  BY <3>3, SmallMod, Limits
  <2>4. \A i \in Handles : Seen(i)' = Seen(i)
    BY <1>1, <2>2, <2>3 DEF Seen, Hidden, Shown
  <2> QED  BY <2>2, <2>4, TableSame
<1>4. CASE \E h \in Handles : CallClose(h)
  <2>1. PICK h \in Handles : CallClose(h)
    BY <1>4
  <2>2. /\ fd[h].opened /\ fd' = Close(h) /\ answer' = [op |-> "close"] /\ op' = op /\ cur' = cur
    BY <2>1 DEF CallClose
  <2>3. fd' = [fd EXCEPT ![h].opened = FALSE]
    BY <2>2, RootApart DEF Close
  <2>4. ~fd'[h].opened /\ \A i \in Handles : i # h => fd'[i] = fd[i]
    BY <2>3 DEF TableOK, FdOK, FileState
  <2>5. \A i \in Handles : Seen(i)' = IF i = h THEN [file |-> -1, pos |-> 0] ELSE Seen(i)
    BY <1>1, <2>2, <2>4 DEF Seen, Hidden, Shown
  <2>6. Table' = [Table EXCEPT ![h] = Promise!Closed]
    <3>1. Table' = [i \in Handles |-> IF i = h THEN Promise!Closed ELSE Seen(i)]
      BY <2>5, TableSeen DEF Promise!Closed
    <3> QED  BY <3>1, TableSeen
  <2>7. Table[h] # Promise!Closed
    BY <1>1, <2>2, NotClosed DEF Hidden, TableOK
  <2>8. Promise!Close(h)
    BY <2>2, <2>6, <2>7 DEF Promise!Close
  <2> QED  BY <2>8 DEF Promise!Next
<1> QED  BY <1>2, <1>3, <1>4 DEF Caller

LEMMA StepMaps ==
  ASSUME WithinLimits, FInv, [NextFat]_fatVars
  PROVE  [Promise!Next]_<<Table, answer>>
<1>1. CASE NextFat
  <2>1. CASE BetweenCalls
    <3>1. Caller
      BY <1>1, <2>1, StepAt DEF NextFat, BetweenCalls
    <3> QED  BY <2>1, <3>1, CallerMaps DEF FInv
  <2>2. CASE DuringInitialize
    <3>1. NoFiles
      BY <1>1, <2>2, InitializeInv DEF FInv
    <3> QED  BY <2>2, <3>1, InitializeMaps DEF FInv
  <2>3. CASE DuringOpen
    <3>1. Unseen \/ (path = <<>> /\ (Opened \/ (OpenFailed /\ Abandoned)))
      BY <1>1, <2>3, OpenInv DEF FInv
    <3>2. CASE Unseen
      BY <2>3, <3>2, UnseenMaps DEF DuringOpen
    <3>3. CASE path = <<>> /\ Opened
      BY <2>3, <3>3, OpenedMaps DEF Promise!Next, FInv
    <3>4. CASE path = <<>> /\ OpenFailed /\ Abandoned
      BY <2>3, <3>4, GivesUpMaps DEF Promise!Next, FInv
    <3> QED  BY <3>1, <3>2, <3>3, <3>4
  <2>4. CASE DuringRead
    <3>1. StartKept \/ ReadReturns
      BY <1>1, <2>4, ReadInv DEF FInv
    <3>2. CASE StartKept
      BY <2>4, <3>2, ReadsOnMaps
    <3>3. CASE ReadReturns
      <4>1. \E h \in Handles, n \in Counts : Promise!Read(h, n)
        BY <2>4, <3>3, ReadMaps DEF FInv
      <4> QED  BY <4>1 DEF Promise!Next
    <3> QED  BY <3>1, <3>2, <3>3
  <2> QED  BY <2>1, <2>2, <2>3, <2>4 DEF FInv
<1>2. CASE UNCHANGED fatVars
  <2>1. UNCHANGED <<fd, op, cur, count, answer>>
    BY <1>2 DEF fatVars, copied
  <2>2. \A h \in Handles : Seen(h)' = Seen(h)
    BY <2>1 DEF Seen, Hidden, Shown
  <2> QED  BY <2>1, <2>2, TableSame
<1> QED  BY <1>1, <1>2

\* The reader does what fat.h promises, whatever files are open and however the
\* calls follow each other: FAT_Open returns a free handle that stands at the
\* first byte of a file of the volume, or NULL when the table is full, and
\* FAT_Read returns the next bytes of that file, short at its end only
\* (FAT_OpenEntry, FAT_Open, FAT_ReadImpl).  Any attempt of disk.c may fail, as
\* long as the third one reads the sectors of the data area.
THEOREM FatRefinesFiles == ASSUME WithinLimits PROVE SpecFat => ImplementsFiles
<1>1. InitFat => Promise!Init
  BY InitMaps
<1>2. FInv /\ [NextFat]_fatVars => [Promise!Next]_<<Table, answer>>
  BY StepMaps
<1>3. SpecFat => []FInv
  BY FatInvariant
<1> QED  BY <1>1, <1>2, <1>3, PTL DEF SpecFat, ImplementsFiles, Promise!Spec
==============================================================================
