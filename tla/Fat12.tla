-------------------------------- MODULE Fat12 --------------------------------
(***************************************************************************)
(* The FAT12 reader of stage 2 (fat.c) on top of disk.c: initialisation,   *)
(* FAT_Open with its search of directories, FAT_Read, FAT_Close.           *)
(***************************************************************************)
EXTENDS Volume, Chs

CONSTANTS
  MaxHandles,   \* MAX_FILE_HANDLES, 10
  Fatal,        \* the sectors that may fail three times
  Careful,      \* do callers leave a handle free for the directories of a path
  Paths, Counts \* what callers ask for

Handles == 0 .. MaxHandles - 1
Root    == -1   \* ROOT_DIRECTORY_HANDLE
Null    == -2

\* The volume is on the drive and a uint16_t can number its sectors; a sector is
\* less than an int, and the position of the root does not wrap in it.
ASSUME DiskAssumption ==
  /\ MaxHandles \in Nat \ {0}
  /\ Sectors <= DriveSectors /\ Sectors <= W16
  /\ SectorSize < W16 \div 2 /\ RootSize < W32

VARIABLES
  fd,      \* g_Data: RootDirectory and OpenedFiles
  pc,      \* where the call in progress is
  op,      \* which call it is
  cur,     \* the file it works on
  path,    \* FAT_Open: the names still to be found
  left,    \* FAT_ReadImpl: byteCount
  got,     \* what it has copied to dataOut
  count,   \* bytesRead
  io,      \* what DISK_ReadSectors is reading for
  lba, tries,
  answer   \* what the last call returned

fatVars == <<fd, pc, op, cur, path, left, got, count, io, lba, tries, answer>>
copied  == <<left, got, count>>
disk    == <<io, lba, tries>>

NewFile == [opened |-> FALSE, isDir |-> FALSE, pos |-> 0, size |-> 0, first |-> 0,
            cluster |-> 0, sec |-> 0, buf |-> Junk]

InitFat ==
  /\ fd = [h \in Handles \cup {Root} |-> NewFile]
  /\ pc = "idle" /\ op = "none" /\ cur = Null /\ path = <<>>
  /\ left = 0 /\ got = <<>> /\ count = 0
  /\ io = "none" /\ lba = 0 /\ tries = 0
  /\ answer = [op |-> "none"]

Return(a) == pc' = "idle" /\ op' = "none" /\ answer' = a

------------------------------------------------------------------------------
(* disk.c *)

StartDisk(what, where) == pc' = "disk" /\ io' = what /\ lba' = where /\ tries' = 0

Buffered == io \in {"root", "open", "read"}

\* The sector DISK_ReadSectors names to the BIOS.
Reached == BiosSector(DiskRegs(Lba2Chs(Geo, lba)))

\* The BIOS reads it; the call continues.
DiskRead ==
  /\ pc = "disk" /\ Reached < Sectors
  /\ fd' = IF Buffered THEN [fd EXCEPT ![cur].buf = Reached] ELSE fd
  /\ pc' = CASE io = "boot" -> "checkBoot"
             [] io = "fat"  -> "openRoot"
             [] io = "root" -> "rootRead"
             [] io = "open" -> "opened"
             [] io = "read" -> "loop"
  /\ UNCHANGED <<op, cur, path, copied, disk, answer>>

\* A disk.c that starts to count again after its second attempt.
DiskRetriesForever ==
  /\ pc = "disk"
  /\ tries' = IF tries = 1 THEN 0 ELSE tries + 1
  /\ UNCHANGED <<fd, pc, op, cur, path, copied, io, lba, answer>>

\* An attempt fails and may leave part of the data; the controller is reset.
\* After the third one the caller is told.
DiskRetries ==
  /\ pc = "disk" /\ tries < 2
  /\ tries' = tries + 1
  /\ fd' \in IF Buffered THEN {[fd EXCEPT ![cur].buf = Junk], fd} ELSE {fd}
  /\ UNCHANGED <<pc, op, cur, path, copied, io, lba, answer>>

DiskFails ==
  /\ pc = "disk" /\ tries = 2 /\ (Reached \in Fatal \/ Reached >= Sectors)
  /\ fd' \in IF Buffered THEN {[fd EXCEPT ![cur].buf = Junk], fd} ELSE {fd}
  /\ CASE io \in {"boot", "fat", "root"} ->
            Return([op |-> "initialized", ok |-> FALSE]) /\ UNCHANGED cur
       [] io = "open" -> pc' = "openNull" /\ cur' = Null /\ UNCHANGED <<op, answer>>
       [] io = "read" -> pc' = "done" /\ UNCHANGED <<op, cur, answer>>
  /\ UNCHANGED <<path, copied, disk>>

Disk == DiskRead \/ DiskRetries \/ DiskFails

------------------------------------------------------------------------------
(* FAT_Initialize. *)

\* No call has initialised the reader yet.
Unready == answer.op = "none" \/ (answer.op = "initialized" /\ ~answer.ok)

CallInitialize ==
  /\ pc = "idle" /\ Unready
  /\ op' = "initialize" /\ StartDisk("boot", 0)
  /\ UNCHANGED <<fd, cur, path, copied, answer>>

\* A boot sector the reader does not support, or a FAT too large for its area.
RefuseVolume ==
  /\ pc = "checkBoot"
  /\ Return([op |-> "initialized", ok |-> FALSE])
  /\ UNCHANGED <<fd, cur, path, copied, disk>>

ReadFat ==
  /\ pc = "checkBoot" /\ StartDisk("fat", 1)
  /\ UNCHANGED <<fd, op, cur, path, copied, answer>>

OpenRoot ==
  /\ pc = "openRoot"
  /\ fd' = [fd EXCEPT ![Root] = [@ EXCEPT !.opened = TRUE, !.isDir = TRUE, !.pos = 0,
              !.size = RootSize, !.first = RootLba, !.cluster = RootLba, !.sec = 0]]
  /\ cur' = Root /\ StartDisk("root", RootLba)
  /\ UNCHANGED <<op, path, copied, answer>>

ResetHandles ==
  /\ pc = "rootRead"
  /\ fd' = [h \in DOMAIN fd |-> IF h = Root THEN fd[h] ELSE [fd[h] EXCEPT !.opened = FALSE]]
  /\ Return([op |-> "initialized", ok |-> TRUE])
  /\ UNCHANGED <<cur, path, copied, disk>>

Initialize == RefuseVolume \/ ReadFat \/ OpenRoot \/ ResetHandles

------------------------------------------------------------------------------
(* FAT_ReadImpl. *)

\* min takes and returns 16-bit ints; its arguments and its result are uint32_t.
ToInt(x) == IF x % W16 < W16 \div 2 THEN x % W16 ELSE (x % W16) - W16
MinInt(a, b) == (IF ToInt(a) < ToInt(b) THEN ToInt(a) ELSE ToInt(b)) % W32

\* A min of 32-bit values.
MinWide(a, b) == IF a < b THEN a ELSE b

ClusterToLba(c) == (DataLba + (c - 2) * SectorsPerCluster) % W32

\* A FAT_NextCluster that takes the low 12 bits of every entry.
NextClusterLow(c) ==
  LET i == (c * 3) \div 2
  IN  IF {i, i + 1} \subseteq DOMAIN FatBytes
      THEN {(FatBytes[i] + 256 * FatBytes[i + 1]) % 4096}
      ELSE {0, EOC}

\* Entry c of the 12-bit table.  Past its end lies whatever is in memory.
NextCluster(c) ==
  LET i == (c * 3) \div 2
      val == FatBytes[i] + 256 * FatBytes[i + 1]
  IN  IF {i, i + 1} \subseteq DOMAIN FatBytes
      THEN {IF c % 2 = 0 THEN val % 4096 ELSE val \div 16}
      ELSE {0, EOC}

StartRead(h, n) ==
  /\ pc' = "loop" /\ got' = <<>> /\ count' = 0
  /\ left' = IF fd[h].isDir THEN n ELSE MinInt(n, (fd[h].size - fd[h].pos) % W32)

\* One turn of the loop: copy what the buffer has of what is wanted.
CopyChunk ==
  /\ pc = "loop" /\ left > 0
  /\ LET f == fd[cur]
         inBuffer == SectorSize - (f.pos % SectorSize)
         take == MinInt(left, inBuffer)
     IN  /\ got' = got \o [i \in 1 .. take % W16 |-> <<f.buf, (f.pos % SectorSize) + i - 1>>]
         /\ count' = (count + take) % W32
         /\ fd' = [fd EXCEPT ![cur].pos = (@ + take) % W32]
         /\ left' = (left - take) % W32
         /\ pc' = IF take = inBuffer THEN "boundary" ELSE "loop"
  /\ UNCHANGED <<op, cur, path, disk, answer>>

\* The root directory is contiguous and of fixed size.
NextRootSector ==
  /\ pc = "boundary" /\ cur = Root
  /\ IF fd[Root].pos >= fd[Root].size
     THEN pc' = "done" /\ UNCHANGED <<fd, disk>>
     ELSE /\ fd' = [fd EXCEPT ![Root].cluster = (@ + 1) % W32]
          /\ StartDisk("read", fd'[Root].cluster)
  /\ UNCHANGED <<op, cur, path, copied, answer>>

\* A reader that goes on one sector too long in every cluster.
StepLate(f) ==
  IF f.sec + 1 > SectorsPerCluster
  THEN {[f EXCEPT !.cluster = c, !.sec = 0] : c \in NextCluster(f.cluster)}
  ELSE {[f EXCEPT !.sec = @ + 1]}

\* The next sector of the cluster, or the first one of the next cluster.
StepOn(f) ==
  IF f.sec + 1 >= SectorsPerCluster
  THEN {[f EXCEPT !.cluster = c, !.sec = 0] : c \in NextCluster(f.cluster)}
  ELSE {[f EXCEPT !.sec = @ + 1]}

\* Anything else follows the FAT; the end of the chain becomes the size.
NextSector ==
  /\ pc = "boundary" /\ cur # Root
  /\ \E f \in StepOn(fd[cur]) :
       IF f.cluster >= EOC
       THEN /\ fd' = [fd EXCEPT ![cur] = [f EXCEPT !.size = f.pos]]
            /\ pc' = "done" /\ UNCHANGED disk
       ELSE /\ fd' = [fd EXCEPT ![cur] = f]
            /\ StartDisk("read", (ClusterToLba(f.cluster) + f.sec) % W32)
  /\ UNCHANGED <<op, cur, path, copied, answer>>

LoopEnds ==
  /\ pc = "loop" /\ left = 0
  /\ pc' = "done"
  /\ UNCHANGED <<fd, op, cur, path, copied, disk, answer>>

Loop == CopyChunk \/ NextRootSector \/ NextSector \/ LoopEnds

CallRead(h, n) ==
  /\ pc = "idle" /\ fd[h].opened
  /\ op' = "read" /\ cur' = h
  /\ StartRead(h, n)
  /\ UNCHANGED <<fd, path, disk, answer>>

ReadReturns ==
  /\ pc = "done" /\ op = "read"
  /\ Return([op |-> "read", data |-> got, count |-> count])
  /\ UNCHANGED <<fd, cur, path, copied, disk>>

------------------------------------------------------------------------------
(* FAT_Close. *)

Rewound(f) == [f EXCEPT !.pos = 0, !.cluster = f.first]

Close(h) == IF h = Root THEN [fd EXCEPT ![Root] = Rewound(@)]
                        ELSE [fd EXCEPT ![h].opened = FALSE]

CallClose(h) ==
  /\ pc = "idle" /\ fd[h].opened
  /\ fd' = Close(h)
  /\ answer' = [op |-> "close"]
  /\ UNCHANGED <<pc, op, cur, path, copied, disk>>

------------------------------------------------------------------------------
(* FAT_Open. *)

CallOpen(p) ==
  /\ pc = "idle" /\ ~Unready
  /\ op' = "open" /\ pc' = "find" /\ cur' = Root /\ path' = p
  /\ UNCHANGED <<fd, copied, disk, answer>>

\* FAT_FindFile asks for the next entry.
ReadEntry ==
  /\ pc = "find"
  /\ StartRead(cur, EntrySize)
  /\ UNCHANGED <<fd, op, cur, path, disk, answer>>

Free(files) == {h \in Handles : ~files[h].opened}

\* FAT_OpenEntry up to its read: the first free handle is filled in.
OpenEntry(e, files) ==
  IF Free(files) = {}
  THEN pc' = "openNull" /\ cur' = Null /\ fd' = files /\ UNCHANGED disk
  ELSE LET h == CHOOSE i \in Free(files) : \A j \in Free(files) : i <= j IN
       /\ fd' = [files EXCEPT ![h] = [@ EXCEPT !.isDir = e.dir, !.pos = 0, !.size = e.size,
                   !.first = e.first, !.cluster = e.first, !.sec = 0]]
       /\ cur' = h
       /\ StartDisk("open", ClusterToLba(e.first))

\* The entry read is the one looked for, or the search goes on, or there are
\* no more entries.
CompareEntry ==
  /\ pc = "done" /\ op = "open"
  /\ LET e == EntryAt(got[1]) IN
     IF Len(got) # EntrySize
     THEN /\ fd' = Close(cur) /\ Return([op |-> "open", file |-> Null])
          /\ UNCHANGED <<cur, path, disk>>
     ELSE IF e.name # Head(path)
     THEN pc' = "find" /\ UNCHANGED <<fd, op, cur, path, disk, answer>>
     ELSE IF Len(path) > 1 /\ ~e.dir
     THEN /\ fd' = Close(cur) /\ Return([op |-> "open", file |-> Null])
          /\ UNCHANGED <<cur, path, disk>>
     ELSE OpenEntry(e, Close(cur)) /\ path' = Tail(path) /\ UNCHANGED <<op, answer>>
  /\ UNCHANGED copied

Opened ==
  /\ pc = "opened"
  /\ fd' = [fd EXCEPT ![cur].opened = TRUE]
  /\ IF path = <<>> THEN Return([op |-> "open", file |-> cur])
                    ELSE pc' = "find" /\ UNCHANGED <<op, answer>>
  /\ UNCHANGED <<cur, path, copied, disk>>

\* FAT_OpenEntry returned NULL.  FAT_Open returns it, or goes on to search the
\* directory at address 0.
OpenFailed ==
  /\ pc = "openNull"
  /\ IF path = <<>> THEN Return([op |-> "open", file |-> Null])
                    ELSE pc' = "lost" /\ UNCHANGED <<op, answer>>
  /\ UNCHANGED <<fd, cur, path, copied, disk>>

Search == ReadEntry \/ CompareEntry \/ Opened \/ OpenFailed

------------------------------------------------------------------------------
(* Callers: one call after another. *)

Step == Disk \/ Initialize \/ Loop \/ ReadReturns \/ Search

Caller ==
  \/ CallInitialize
  \/ \E p \in Paths : (Careful /\ Len(p) > 1 => Free(fd) # {}) /\ CallOpen(p)
  \/ \E h \in Handles : CallClose(h) \/ \E n \in Counts : CallRead(h, n)

NextFat == Step \/ Caller

SpecFat == InitFat /\ [][NextFat]_fatVars

FairSpecFat == SpecFat /\ WF_fatVars(Step)

------------------------------------------------------------------------------
(* What FatProofs assumes of the volume, the disk and the callers. *)

\* A path that only a file can end and only a directory can continue.
LeadsToFile(p) ==
  /\ p \in Seq(STRING) /\ p # <<>>
  /\ \A e \in Entries \cup {NoEntry} :
       /\ e.name = p[Len(p)] => e \in FileEntries
       /\ \A i \in 1 .. Len(p) - 1 : e.name = p[i] => e.dir

\* A 16-bit int holds the size of a file and what is asked of it; entries do
\* not straddle the end of a uint32_t; the sectors of the data area can be read.
WithinLimits ==
  /\ W16 <= W32 /\ W32 % EntrySize = 0
  /\ \A e \in FileEntries : e.size < W16 \div 2
  /\ \A n \in Counts : n \in Nat /\ n < W16 \div 2
  /\ Fatal \cap (DataLba .. Sectors - 1) = {}
  /\ \A p \in Paths : LeadsToFile(p)

------------------------------------------------------------------------------
(* Properties. *)

\* Types of the table of open files and of the call in progress.
FatTypeOK ==
  /\ DOMAIN fd = Handles \cup {Root}
  /\ \A h \in DOMAIN fd :
       /\ {fd[h].opened, fd[h].isDir} \subseteq BOOLEAN
       /\ {fd[h].pos, fd[h].size, fd[h].first} \subseteq 0 .. W32 - 1
       /\ fd[h].cluster \in 0 .. W32 - 1 \/ fd[h].cluster \in EOC .. 4095
       /\ fd[h].sec \in 0 .. SectorsPerCluster - 1
       /\ fd[h].buf \in {Junk} \cup 0 .. Sectors - 1
  /\ pc \in {"idle", "disk", "checkBoot", "openRoot", "rootRead", "loop", "boundary",
             "done", "find", "opened", "openNull", "lost"}
  /\ op \in {"none", "initialize", "open", "read"}
  /\ cur \in Handles \cup {Root, Null}
  /\ left \in 0 .. W32 - 1 /\ count \in 0 .. W32 - 1
  /\ tries \in 0 .. 2

\* Between calls, an open file that has not come to its end has in its buffer
\* the sector its position lies in, so the next read starts with the right
\* byte (fat.c:210-213 relies on it, 172 and 253 establish it).
BufferAtPosition ==
  pc = "idle" =>
    \A h \in Handles :
      fd[h].opened /\ fd[h].pos < fd[h].size =>
        fd[h].buf = SectorOf(fd[h].first, fd[h].pos)

\* What a caller sees of the table: a file appears when FAT_Open returns it and
\* its position moves when FAT_Read returns.
Table ==
  [h \in Handles |->
     IF ~fd[h].opened \/ (op = "open" /\ cur = h) THEN [file |-> -1, pos |-> 0]
     ELSE [file |-> fd[h].first,
           pos |-> IF op = "read" /\ cur = h THEN (fd[h].pos - count) % W32 ELSE fd[h].pos]]

Promise == INSTANCE Files WITH table <- Table, last <- answer

\* On a disk that fails at most twice in a row the reader does what fat.h
\* promises: what is opened is a file, and the bytes read are the file's.
ImplementsFiles == Promise!Spec

\* FAT_Open comes back: with a file if the path names one, else with NULL
\* (fat.h, FAT_Open).
OpenReturns == op = "open" ~> op = "none"
==============================================================================
