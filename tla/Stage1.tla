------------------------------- MODULE Stage1 --------------------------------
(***************************************************************************)
(* The boot sector (src/bootloader/stage1/boot.asm): it finds stage 2 in   *)
(* the root directory, follows its chain through the FAT and loads it at   *)
(* 0x2000:0.  It counts on one sector per cluster, as its own BPB says.    *)
(***************************************************************************)
EXTENDS Volume, Chs

CONSTANTS
  Stage2Name,   \* file_stage2_bin
  FatSectors,   \* bdb_sectors_per_fat
  DataOffset,   \* 31: what the boot sector adds to a cluster number
  SegBytes,     \* the bytes BX can address, 2^16
  Fatal1        \* the sectors that may fail three times

\* The volume is what the boot sector counts on, on a drive that holds it, and
\* stage 2 is a file of the root alone that fits the 64 KB BX can address.
ASSUME Stage1Assumption ==
  /\ SectorsPerCluster = 1 /\ DataOffset = DataLba - 2
  /\ Sectors <= DriveSectors
  /\ SegBytes \in Nat \ {0} /\ SegBytes % SectorSize = 0
  /\ Stage2Name # NoEntry.name
  /\ \A e, f \in Entries : e.name = Stage2Name /\ f.name = Stage2Name => e = f
  /\ \A e \in Entries :
       e.name = Stage2Name => ~e.dir /\ Len(Chain[e.first]) * SectorSize <= SegBytes

VARIABLES
  at,       \* where the boot sector is
  geo,      \* the BPB's geometry, once the BIOS was asked
  want,     \* the reads of disk_read in progress: first sector, how many, what for
  di,       \* its attempts left
  buffer,   \* the sectors in memory after the boot sector
  entry,    \* BX of the search
  cluster,  \* stage2_cluster
  bx,       \* where the next sector goes
  loaded    \* for each sector's place at 0x2000, what is there

bootVars == <<at, geo, want, di, buffer, entry, cluster, bx, loaded>>
reading  == <<want, di>>

Slots == 0 .. (SegBytes \div SectorSize) - 1
NoGeo == [spt |-> 1, heads |-> 1]

Init1 ==
  /\ at = "params" /\ geo = NoGeo
  /\ want = [lba |-> 0, n |-> 0, for |-> "none"] /\ di = 0
  /\ buffer = <<>> /\ entry = 0 /\ cluster = 0 /\ bx = 0
  /\ loaded = [k \in Slots |-> Junk]

Failed == at \in {"readError", "notFound"}

------------------------------------------------------------------------------
(* disk_read *)

StartRead1(first, count, what) ==
  /\ at' = "disk" /\ want' = [lba |-> first, n |-> count, for |-> what] /\ di' = 3

\* The sectors the BIOS reads for the registers lba_to_chs computes.
FirstSector == BiosSector(BootRegs(geo, want.lba))
Asked == [i \in 1 .. want.n |-> FirstSector + i - 1]

Read1 ==
  /\ at = "disk" /\ FirstSector + want.n <= Sectors
  /\ CASE want.for = "root"  -> at' = "search" /\ buffer' = Asked /\ UNCHANGED loaded
       [] want.for = "fat"   -> at' = "load" /\ buffer' = Asked /\ UNCHANGED loaded
       [] want.for = "stage2" ->
            /\ at' = "next" /\ loaded' = [loaded EXCEPT ![bx \div SectorSize] = FirstSector]
            /\ UNCHANGED buffer
  /\ UNCHANGED <<geo, reading, entry, cluster, bx>>

\* An attempt fails, the controller is reset and the read tried again, three
\* times in all; a reset that fails ends the boot.
Retry1 ==
  /\ at = "disk" /\ di > 1
  /\ di' = di - 1
  /\ UNCHANGED <<at, geo, want, buffer, entry, cluster, bx, loaded>>

Fail1 ==
  /\ at = "disk"
  /\ di = 1 => (Fatal1 \cap {Asked[i] : i \in DOMAIN Asked} # {} \/ FirstSector + want.n > Sectors)
  /\ at' = "readError"
  /\ UNCHANGED <<geo, reading, buffer, entry, cluster, bx, loaded>>

DiskRead1 == Read1 \/ Retry1 \/ Fail1

------------------------------------------------------------------------------
(* main *)

\* INT 13h/08 gives the geometry; then the root directory is read.
DriveParams ==
  /\ at = "params"
  /\ \/ geo' = Geo /\ StartRead1(RootLba, RootSectors, "root")
     \/ at' = "readError" /\ UNCHANGED <<geo, reading>>
  /\ UNCHANGED <<buffer, entry, cluster, bx, loaded>>

\* The entry at DI: the 11 bytes of the name, at steps of 32 bytes.
EntryInBuffer(i) ==
  LET byte == i * EntrySize
      sector == byte \div SectorSize + 1
  IN  EntryAt(<<buffer[sector], byte % SectorSize>>)

\* One turn of .search_stage2.
SearchEntry ==
  /\ at = "search"
  /\ IF EntryInBuffer(entry).name = Stage2Name
     THEN /\ cluster' = EntryInBuffer(entry).first
          /\ StartRead1(1, FatSectors, "fat") /\ UNCHANGED entry
     ELSE /\ entry' = entry + 1
          /\ at' = IF entry + 1 < RootEntries THEN "search" ELSE "notFound"
          /\ UNCHANGED <<cluster, reading>>
  /\ UNCHANGED <<geo, buffer, bx, loaded>>

\* .load_stage2_loop: a cluster is a sector.
LoadCluster ==
  /\ at = "load" /\ StartRead1(cluster + DataOffset, 1, "stage2")
  /\ UNCHANGED <<geo, buffer, entry, cluster, bx, loaded>>

\* An entry of the table that takes the upper half of the pair for every
\* cluster.
TableEntryOdd(c) ==
  LET i == (c * 3) \div 2 IN (FatBytes[i] + 256 * FatBytes[i + 1]) \div 16

TableEntry(c) ==
  LET i == (c * 3) \div 2
      word == FatBytes[i] + 256 * FatBytes[i + 1]
  IN  IF (c * 3) % 2 = 0 THEN word % 4096 ELSE word \div 16

\* Past the table lies whatever is in memory.
TableValues(c) == IF InTable(c) THEN {TableEntry(c)} ELSE {0, EOC}

\* BX goes on to the next sector, around 64 KB, and the chain ends or goes on.
NextCluster1 ==
  /\ at = "next"
  /\ bx' = (bx + SectorSize) % SegBytes
  /\ \E c \in TableValues(cluster) :
       IF c >= EOC THEN at' = "jump" /\ UNCHANGED cluster
                   ELSE at' = "load" /\ cluster' = c
  /\ UNCHANGED <<geo, reading, buffer, entry, loaded>>

Step1 == DiskRead1 \/ DriveParams \/ SearchEntry \/ LoadCluster \/ NextCluster1

\* wait_key_and_reboot: the boot starts again when somebody hits a key.
Reboot ==
  /\ Failed
  /\ at' = "params" /\ geo' = NoGeo
  /\ want' = [lba |-> 0, n |-> 0, for |-> "none"] /\ di' = 0
  /\ buffer' = <<>> /\ entry' = 0 /\ cluster' = 0 /\ bx' = 0
  /\ loaded' = [k \in Slots |-> Junk]
==============================================================================
