------------------------------- MODULE Volume --------------------------------
(***************************************************************************)
(* The FAT12 volume AlmaOS boots from, as its two readers find it: the     *)
(* boot sector of stage 1 and fat.c of stage 2.                            *)
(*                                                                         *)
(* A byte is named by where it is on the disk, <<lba, offset>>, and a      *)
(* buffer by the sector it holds: nothing in the readers depends on the    *)
(* value of a byte, except the bytes of the FAT and directory entries.     *)
(***************************************************************************)
EXTENDS Integers, Sequences

CONSTANTS
  SectorSize, EntrySize,  \* 512 and 32
  SectorsPerCluster, RootLba, RootEntries, Sectors,   \* the boot sector's
  FatBytes,     \* the file allocation table: function from offsets to bytes
  Chain,        \* for the first cluster of each file, its clusters as the
                \* volume's writer laid them out (only properties look at it)
  Directory,    \* for each sector of a directory, the sequence of its entries
  W32           \* a uint32_t: 2^32 values

Junk    == -1   \* a buffer after a failed read
EOC     == 4088 \* 0xFF8
NoEntry == [name |-> "", dir |-> FALSE, first |-> 0, size |-> 0]

\* Twelve bits an entry: two of them share the middle of three bytes.
InTable(c) == {(c * 3) \div 2, (c * 3) \div 2 + 1} \subseteq DOMAIN FatBytes
FatEntry(c) ==
  LET i == (c * 3) \div 2
  IN  IF c % 2 = 0 THEN FatBytes[i] + 256 * (FatBytes[i + 1] % 16)
                   ELSE FatBytes[i] \div 16 + 16 * FatBytes[i + 1]

RootSize == RootEntries * EntrySize
RootSectors == (RootSize + SectorSize - 1) \div SectorSize
DataLba  == RootLba + RootSectors

\* The directory entry that starts at a byte.
EntryAt(where) ==
  IF where[1] \in DOMAIN Directory
  THEN Directory[where[1]][where[2] \div EntrySize + 1] ELSE NoEntry

\* Entry i of the root directory.
RootEntry(i) ==
  EntryAt(<<RootLba + (i * EntrySize) \div SectorSize, (i * EntrySize) % SectorSize>>)

\* Where byte i (from 0) of the file that starts at cluster c lies.
SectorOf(c, i) ==
  LET sector == i \div SectorSize
  IN  (DataLba + (Chain[c][sector \div SectorsPerCluster + 1] - 2) * SectorsPerCluster
        + (sector % SectorsPerCluster)) % W32

Entries == UNION {{Directory[s][i] : i \in DOMAIN Directory[s]} : s \in DOMAIN Directory}
FileEntries == {e \in Entries : e # NoEntry /\ ~e.dir}

\* The bytes of each file.
Content ==
  [c \in {e.first : e \in FileEntries} |->
     LET e == CHOOSE f \in FileEntries : f.first = c
     IN  [i \in 1 .. e.size |-> <<SectorOf(c, i - 1), (i - 1) % SectorSize>>]]

\* The volume is well formed.  Its parts are on the disk and its directories
\* are full of entries, used or not.
ASSUME VolumeAssumption ==
  /\ {SectorSize, EntrySize, SectorsPerCluster, RootEntries, W32} \subseteq Nat \ {0}
  /\ SectorSize % EntrySize = 0
  /\ RootLba \in Nat /\ RootLba > 1
  /\ Sectors \in Nat /\ DataLba < Sectors /\ Sectors <= W32
  /\ \A s \in DOMAIN Directory : DOMAIN Directory[s] = 1 .. SectorSize \div EntrySize
  /\ \A e \in Entries : e.dir \in BOOLEAN /\ {e.first, e.size} \subseteq Nat
  /\ \A i \in DOMAIN FatBytes : FatBytes[i] \in 0 .. 255

\* The table links the clusters of each chain.
ASSUME ChainAssumption ==
  \A c \in DOMAIN Chain :
    /\ Chain[c] \in Seq(2 .. EOC - 1) /\ Chain[c] # <<>> /\ Chain[c][1] = c
    /\ \A i \in 1 .. Len(Chain[c]) :
         /\ DataLba + (Chain[c][i] - 1) * SectorsPerCluster <= Sectors
         /\ InTable(Chain[c][i])
         /\ IF i < Len(Chain[c]) THEN FatEntry(Chain[c][i]) = Chain[c][i + 1]
                                 ELSE FatEntry(Chain[c][i]) >= EOC

\* Every file has a chain long enough for it, of its own.
ASSUME FilesAssumption ==
  /\ \A e \in FileEntries :
       /\ e.first \in DOMAIN Chain
       /\ e.size <= Len(Chain[e.first]) * SectorsPerCluster * SectorSize
  /\ \A e, f \in FileEntries : e.first = f.first => e = f
==============================================================================
