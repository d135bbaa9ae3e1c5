----------------------------- MODULE BootMemory ------------------------------
(***************************************************************************)
(* How memory gets from the firmware to the kernel: stage 2 collects the   *)
(* E820 map (x86_Memory_GetMap), carves its heap out of it (memory.c),     *)
(* writes both into boot_info and jumps; kalloc_init of the kernel reads   *)
(* the same map.                                                           *)
(***************************************************************************)
EXTENDS Kalloc

CONSTANTS
  MapCapacity,         \* MEMORY_E820_MAP_CAPACITY, 32
  HeapBase, HeapSize,  \* MEMORY_HEAP_MIN_PHYSICAL and MEMORY_KERNEL_HEAP_SIZE
  HeapRequests,        \* the <<size, alignment>> asked of the heap
  Paragraph, Segments  \* 16 bytes, 2^16 segment values

\* memdefs.h: the heap is below 1 MiB, where a far pointer can name it.
ASSUME HeapAssumption ==
  /\ MapCapacity \in Nat
  /\ HeapBase \in Nat /\ HeapSize \in Nat \ {0}
  /\ HeapBase + HeapSize <= MinPhysical
  /\ Paragraph \in Nat \ {0} /\ Segments \in Nat
  /\ MinPhysical <= Paragraph * Segments
  /\ HeapRequests \subseteq Nat \X Nat

VARIABLES
  firmware,  \* the BIOS's map
  ends,      \* how it tells the end: a zero token, or the carry of one more call
  stage,     \* where stage 2 is
  table,     \* memoryMap: the entries at MEMORY_E820_MAP_ADDR
  heap,      \* kernelAllocator
  lent,      \* what MEMORY_Allocator_Alloc has returned
  info       \* boot_info

bootVars == <<firmware, ends, stage, table, heap, lent, info>>
memVars  == <<kvars, bootVars>>

NoHeap == [base |-> 0, capacity |-> 0, offset |-> 0]
NoInfo == [hasMap |-> FALSE, map |-> <<>>, heap |-> NoHeap]

InitMem ==
  /\ InitK
  /\ firmware \in Maps /\ ends \in {"token", "carry"}
  /\ stage = "collect" /\ table = <<>>
  /\ heap = NoHeap /\ lent = <<>> /\ info = NoInfo

------------------------------------------------------------------------------
(* x86_Memory_GetMap *)

\* A full table before the end of the map makes the call fail.
MapFits == Len(table) < MapCapacity

\* A full table taken for the whole map.
TableFull ==
  /\ stage = "collect" /\ ~MapFits
  /\ stage' = "heap"
  /\ UNCHANGED <<kvars, firmware, ends, table, heap, lent, info>>

\* INT 15h/E820 gives the next entry; the token is zero after the last one.
E820Entry ==
  /\ stage = "collect" /\ MapFits /\ Len(table) < Len(firmware)
  /\ table' = Append(table, firmware[Len(table) + 1])
  /\ stage' = IF Len(table') = Len(firmware) /\ ends = "token" THEN "heap" ELSE "collect"
  /\ UNCHANGED <<kvars, firmware, ends, heap, lent, info>>

\* The table is full, the service fails, or the map has ended with the carry
\* flag: GetMap reports a failure in each case, and cstart gives up.
E820Fails ==
  /\ stage = "collect"
  /\ stage' = "failed"
  /\ UNCHANGED <<kvars, firmware, ends, table, heap, lent, info>>

------------------------------------------------------------------------------
(* memory.c *)

\* The test of an entry that forgets its type.
CoversAnyType(e) == e.base <= HeapBase /\ (e.base + e.length) % W64 >= HeapBase + HeapSize

Covers(e) ==
  /\ e.usable
  /\ e.base <= HeapBase /\ (e.base + e.length) % W64 >= HeapBase + HeapSize

\* MEMORY_Allocator_InitFromMap.
HeapFromMap ==
  /\ stage = "heap"
  /\ IF \E n \in 1 .. Len(table) : Covers(table[n])
     THEN /\ heap' = [base |-> HeapBase, capacity |-> HeapSize, offset |-> 0]
          /\ stage' = "loader"
     ELSE stage' = "failed" /\ UNCHANGED heap
  /\ UNCHANGED <<kvars, firmware, ends, table, lent, info>>

\* MEMORY_PhysicalToFar, and the byte the far pointer names.
FarTo(physical) ==
  ((physical \div Paragraph) % Segments) * Paragraph + (physical % Paragraph)

Aligned(alignment) ==
  LET step == IF alignment < 1 THEN 1 ELSE alignment
      rest == heap.offset % step
  IN  IF rest # 0 THEN heap.offset + step - rest ELSE heap.offset

HeapFits(size, alignment) ==
  size # 0 /\ Aligned(alignment) <= heap.capacity /\ size <= heap.capacity - Aligned(alignment)

\* MEMORY_Allocator_Alloc; when it returns NULL nothing changes.
HeapAlloc(size, alignment) ==
  /\ stage = "loader" /\ HeapFits(size, alignment)
  /\ lent' = Append(lent, [addr |-> FarTo(heap.base + Aligned(alignment)), size |-> size])
  /\ heap' = [heap EXCEPT !.offset = Aligned(alignment) + size]
  /\ UNCHANGED <<kvars, firmware, ends, stage, table, info>>

\* MEMORY_BootInfo_Init, and the jump to the kernel.
WriteBootInfo ==
  /\ stage = "loader"
  /\ info' = [hasMap |-> Len(table) # 0, map |-> table, heap |-> heap]
  /\ stage' = "kernel"
  /\ UNCHANGED <<kvars, firmware, ends, table, heap, lent>>

Stage2Memory ==
  \/ E820Entry \/ E820Fails \/ HeapFromMap
  \/ \E r \in HeapRequests : HeapAlloc(r[1], r[2])
  \/ WriteBootInfo

------------------------------------------------------------------------------
(* The kernel: kalloc_init finds the map by boot_info. *)

KernelInit == stage = "kernel" /\ KallocInit(info.map) /\ UNCHANGED bootVars

Kernel ==
  /\ stage = "kernel"
  /\ ScanEntry \/ FinishInit \/ \E size \in Sizes : KallocPages(size)
  /\ UNCHANGED bootVars

NextMem == Stage2Memory \/ KernelInit \/ Kernel

SpecMem == InitMem /\ [][NextMem]_memVars

------------------------------------------------------------------------------
(* Properties. *)

\* The kernel runs with the firmware's map, complete and in order, or not at
\* all: a map that does not fit the table stops the boot instead of arriving
\* without its tail (x86.asm:343-359, memory.c:53-66).
MapComplete == stage = "kernel" => info.map = firmware /\ (pc # "boot" => map = firmware)

\* The heap stage 2 describes in boot_info is memory, its blocks lie in it and
\* share no byte (memory.c:77-130).
HeapIsMemory ==
  stage \in {"loader", "kernel"} =>
    /\ \E n \in 1 .. Len(firmware) :
         /\ firmware[n].usable
         /\ firmware[n].base <= heap.base
         /\ heap.base + heap.capacity <= firmware[n].base + firmware[n].length
    /\ \A i \in 1 .. Len(lent) :
         /\ heap.base <= lent[i].addr
         /\ lent[i].addr + lent[i].size <= heap.base + heap.offset
    /\ heap.offset <= heap.capacity
    /\ \A i, j \in 1 .. Len(lent) : i < j => lent[i].addr + lent[i].size <= lent[j].addr

\* The two allocators never hand out the same byte, although both take theirs
\* from the same map (kalloc.c:46, memory.c:77-102).
AllocatorsApart ==
  \A i \in 1 .. Len(lent), j \in 1 .. Len(blocks) :
    lent[i].addr + lent[i].size <= blocks[j].addr
==============================================================================
