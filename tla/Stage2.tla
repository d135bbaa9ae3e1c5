------------------------------- MODULE Stage2 -------------------------------
(***************************************************************************)
(* cstart of stage 2: the one caller the FAT reader has in the boot path.  *)
(* It initialises the disk and the reader, collects the memory map, loads  *)
(* /kernel.bin with a single read and jumps to it.                         *)
(***************************************************************************)
EXTENDS Fat12

CONSTANT Kernel  \* the path of kernel.bin

\* The kernel is a file of the root alone, no larger than a uint32_t can count
\* on with 16-bit mistakes, and the root can be read.
ASSUME KernelAssumption ==
  /\ W32 % W16 = 0
  /\ Kernel = <<Kernel[1]>> /\ Kernel[1] # NoEntry.name
  /\ \E i \in 0 .. RootEntries - 1 : RootEntry(i).name = Kernel[1]
  /\ \A e, f \in Entries : e.name = Kernel[1] /\ f.name = Kernel[1] => e = f
  /\ \A e \in Entries : e.name = Kernel[1] => ~e.dir /\ e.size < W32 - W16
  /\ Fatal \cap (RootLba + 1 .. DataLba - 1) = {}

VARIABLES
  st,      \* where cstart is
  kernel,  \* the handle it opened
  asked,   \* kernel->Size when the read was asked for
  memory   \* what was copied to MEMORY_KERNEL_ADDR

cstartVars == <<kernel, asked, memory>>
stVars     == <<fatVars, st, cstartVars>>

InitSt ==
  /\ InitFat
  /\ st = "off" /\ kernel = Null /\ asked = 0 /\ memory = <<>>

\* Stage 1 jumped to the entry of main.asm, which calls cstart.
Entry ==
  /\ st = "off" /\ st' = "disk"
  /\ UNCHANGED <<fatVars, cstartVars>>

\* DISK_Initialize: the BIOS knows the drive or does not.
DiskInitialize ==
  /\ st = "disk" /\ st' \in {"fat", "fail"}
  /\ UNCHANGED <<fatVars, cstartVars>>

StartFat ==
  /\ st = "fat" /\ CallInitialize
  /\ st' = "fatWait"
  /\ UNCHANGED cstartVars

FatReady ==
  /\ st = "fatWait" /\ pc = "idle"
  /\ st' = IF answer.ok THEN "map" ELSE "fail"
  /\ UNCHANGED <<fatVars, cstartVars>>

\* The memory map, the heap and boot_info: the first two may fail.
PrepareMemory ==
  /\ st = "map" /\ st' \in {"open", "fail"}
  /\ UNCHANGED <<fatVars, cstartVars>>

OpenKernel ==
  /\ st = "open" /\ CallOpen(Kernel)
  /\ st' = "openWait"
  /\ UNCHANGED cstartVars

\* FAT_Open returned: a null pointer, or a file that is read in one go.
ReadKernel ==
  /\ st = "openWait" /\ pc = "idle"
  /\ IF answer.file = Null
     THEN st' = "fail" /\ UNCHANGED <<fatVars, cstartVars>>
     ELSE /\ kernel' = answer.file /\ asked' = fd[answer.file].size
          /\ CallRead(answer.file, fd[answer.file].size)
          /\ st' = "readWait" /\ UNCHANGED memory

\* A cstart that takes any answer of FAT_ReadFar.
LeaveUnchecked ==
  /\ st = "readWait" /\ pc = "idle"
  /\ memory' = answer.data
  /\ CallClose(kernel)
  /\ st' = "jump"
  /\ UNCHANGED <<kernel, asked>>

\* The comparison of what was read with kernel->Size, which the compiler may
\* load before or after the call; FAT_Close; the far jump.
Leave ==
  /\ st = "readWait" /\ pc = "idle"
  /\ memory' = answer.data
  /\ CallClose(kernel)
  /\ \E size \in {asked, fd[kernel].size} :
       st' = IF answer.count = size THEN "jump" ELSE "fail"
  /\ UNCHANGED <<kernel, asked>>

Cstart ==
  \/ DiskInitialize \/ StartFat \/ FatReady \/ PrepareMemory
  \/ OpenKernel \/ ReadKernel \/ Leave

Step2 == (Step /\ UNCHANGED <<st, cstartVars>>) \/ Cstart

------------------------------------------------------------------------------
(* Properties. *)

KernelEntry == CHOOSE e \in FileEntries : e.name = Kernel[Len(Kernel)]

\* Stage 2 never jumps to a kernel that is not the whole file, whichever
\* sectors cannot be read (main.c:71-74).
KernelComplete ==
  st = "jump" =>
    /\ Len(memory) = KernelEntry.size
    /\ memory = Content[KernelEntry.first]
==============================================================================
