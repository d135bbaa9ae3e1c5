------------------------------- MODULE Kalloc -------------------------------
(***************************************************************************)
(* src/kernel/kalloc.c: the page allocator above 1 MiB.  kalloc_init walks *)
(* the E820 map of boot_info and keeps the largest usable region;          *)
(* kalloc_pages hands it out page by page and never takes anything back.   *)
(* Arithmetic has the widths of the code: the map is in 64 bits, the       *)
(* allocator's state in 32.                                                *)
(***************************************************************************)
EXTENDS Integers, Sequences, FiniteSets

CONSTANTS
  PageSize,     \* KALLOC_PAGE_SIZE
  MinPhysical,  \* KALLOC_MIN_PHYSICAL
  W32,          \* 2^32
  W64,          \* 2^64
  Maps,         \* the E820 maps the boot loader may hand over
  Sizes         \* the sizes callers ask for, uint32_t

Entries == [base : 0 .. W64 - 1, length : 0 .. W64 - 1, usable : BOOLEAN]

ASSUME WidthAssumption ==
  /\ PageSize \in Nat \ {0}
  /\ W32 \in Nat /\ W64 \in Nat
  /\ PageSize < W32 /\ W32 < W64
  /\ MinPhysical \in 1 .. W32 - 1
  /\ W32 % PageSize = 0

\* No E820 entry runs past the end of the 64-bit address space: kalloc_init
\* adds base and length without looking.
ASSUME MapsAssumption ==
  /\ Maps \subseteq Seq(Entries)
  /\ \A m \in Maps : \A n \in 1 .. Len(m) : m[n].base + m[n].length < W64

ASSUME SizesAssumption == Sizes \subseteq 0 .. W32 - 1

VARIABLES
  map,       \* the E820 entries kalloc_init found in boot_info
  next,      \* its loop variable i, from 1
  pc,        \* "boot", then "scan" inside kalloc_init, then "ready" or "failed"
  base,      \* kalloc_region_base
  capacity,  \* kalloc_region_capacity
  offset,    \* kalloc_region_offset
  blocks     \* what kalloc_pages has returned, in order: address and size asked

kvars == <<map, next, pc, base, capacity, offset, blocks>>

\* x & ~(KALLOC_PAGE_SIZE - 1)
PageFloor(x) == x - (x % PageSize)

\* kalloc_align_up: 0 when rounding up would need a 33rd bit.
AlignUp(v) ==
  IF v > W32 - 1 - (PageSize - 1) THEN 0 ELSE PageFloor(v + PageSize - 1)

\* end, cut at 4 GiB.
EndOf(e) ==
  LET end == (e.base + e.length) % W64 IN IF end > W32 THEN W32 ELSE end

\* The tests without the limit of 1 MiB.
EligibleAnywhere(e) == e.usable /\ e.base <= W32 - 1

\* The entries the first tests of the loop let through.
Eligible(e) == e.usable /\ e.base >= MinPhysical /\ e.base <= W32 - 1

\* usable_size before and after the unaligned head is cut off, and what it
\* would be with the head left in.
RawSize(e) == (EndOf(e) - e.base) % W32
Skipped(e) == AlignUp(e.base) - e.base
NetSizeWithHead(e) == RawSize(e)
NetSize(e) == RawSize(e) - Skipped(e)

Considered(e) == Eligible(e) /\ AlignUp(e.base) # 0 /\ Skipped(e) < RawSize(e)

InitK ==
  /\ map = <<>> /\ next = 1 /\ pc = "boot"
  /\ base = 0 /\ capacity = 0 /\ offset = 0
  /\ blocks = <<>>

\* kalloc_init is called: the region is forgotten, and without a map it fails.
KallocInit(m) ==
  /\ pc = "boot"
  /\ map' = m /\ next' = 1
  /\ pc' = IF Len(m) = 0 THEN "failed" ELSE "scan"
  /\ base' = 0 /\ capacity' = 0 /\ offset' = 0
  /\ UNCHANGED blocks

\* Keeps the last region that fits a page, not the largest.
ScanKeepsLast ==
  /\ pc = "scan" /\ next <= Len(map)
  /\ LET e == map[next] IN
     IF Considered(e)
     THEN /\ base' = AlignUp(e.base)
          /\ capacity' = PageFloor(NetSize(e))
     ELSE UNCHANGED <<base, capacity>>
  /\ next' = next + 1
  /\ UNCHANGED <<map, pc, offset, blocks>>

\* One turn of the loop.  The size compared is not rounded, the size kept is.
ScanEntry ==
  /\ pc = "scan" /\ next <= Len(map)
  /\ LET e == map[next] IN
     IF Considered(e) /\ NetSize(e) > capacity
     THEN /\ base' = AlignUp(e.base)
          /\ capacity' = PageFloor(NetSize(e))
     ELSE UNCHANGED <<base, capacity>>
  /\ next' = next + 1
  /\ UNCHANGED <<map, pc, offset, blocks>>

\* kalloc_init returns.
FinishInit ==
  /\ pc = "scan" /\ next > Len(map)
  /\ pc' = IF capacity > 0 THEN "ready" ELSE "failed"
  /\ UNCHANGED <<map, next, base, capacity, offset, blocks>>

\* The request is compared with the whole region, not with what is left.
FitsRegion(size) ==
  /\ capacity # 0 /\ size # 0
  /\ AlignUp(size) # 0
  /\ AlignUp(size) <= capacity

\* The early returns of kalloc_pages, negated.
Fits(size) ==
  /\ capacity # 0 /\ size # 0
  /\ AlignUp(size) # 0
  /\ AlignUp(size) <= capacity - offset

\* kalloc_pages(size): NULL changes nothing.
KallocPages(size) ==
  /\ pc # "scan"
  /\ IF Fits(size)
     THEN /\ blocks' = Append(blocks, [addr |-> base + offset, size |-> size])
          /\ offset' = (offset + AlignUp(size)) % W32
     ELSE UNCHANGED <<blocks, offset>>
  /\ UNCHANGED <<map, next, pc, base, capacity>>

NextK ==
  \/ \E m \in Maps : KallocInit(m)
  \/ ScanEntry \/ FinishInit
  \/ \E size \in Sizes : KallocPages(size)

SpecK == InitK /\ [][NextK]_kvars

------------------------------------------------------------------------------
(* Properties. *)

KTypeOK ==
  /\ map \in Seq(Entries)
  /\ next \in 1 .. Len(map) + 1
  /\ pc \in {"boot", "scan", "ready", "failed"}
  /\ base \in 0 .. W32 - 1 /\ capacity \in 0 .. W32 - 1 /\ offset \in 0 .. W32 - 1
  /\ blocks \in Seq([addr : 0 .. W32 - 1, size : 1 .. W32 - 1])

\* The region handed out is memory: it lies inside one usable entry that
\* starts at or above 1 MiB, and below 4 GiB.
RegionIsMemory ==
  capacity > 0 =>
    /\ base + capacity <= W32
    /\ \E n \in 1 .. Len(map) :
         /\ map[n].usable
         /\ MinPhysical <= map[n].base
         /\ map[n].base <= base
         /\ base + capacity <= map[n].base + map[n].length

\* A block has all its bytes in the region, and no two blocks share one.
BlocksApart ==
  /\ \A i \in 1 .. Len(blocks) :
       base <= blocks[i].addr /\ blocks[i].addr + blocks[i].size <= base + capacity
  /\ \A i, j \in 1 .. Len(blocks) :
       i < j => blocks[i].addr + blocks[i].size <= blocks[j].addr

\* Every address returned is the first byte of a page (kalloc.h:36).
BlocksAligned == \A i \in 1 .. Len(blocks) : blocks[i].addr % PageSize = 0

\* The whole pages of an entry that a 32-bit kernel can use.
WholePages(e) ==
  IF ~Eligible(e) THEN {}
  ELSE {p \in 0 .. (W32 \div PageSize) - 1 :
          e.base <= p * PageSize /\ (p + 1) * PageSize <= e.base + e.length}

\* kalloc_init ends with as many pages as the best entry has, and fails only
\* when no entry has one ("Pega a maior regiao", kalloc.h:30).
LargestRegion ==
  pc \in {"ready", "failed"} =>
    /\ \A n \in 1 .. Len(map) : Cardinality(WholePages(map[n])) * PageSize <= capacity
    /\ capacity > 0 => \E n \in 1 .. Len(map) :
                         Cardinality(WholePages(map[n])) * PageSize = capacity
==============================================================================
