---------------------------- MODULE MemoryProofs -----------------------------
(***************************************************************************)
(* Proofs about Kalloc, for every page size, word width and E820 map the   *)
(* assumptions of that module allow: the region is memory, it has the most *)
(* whole pages of any entry, and the blocks are page aligned, inside the   *)
(* region and disjoint.  Then about BootMemory, for every firmware map,    *)
(* table size and layout.                                                  *)
(*                                                                         *)
(* BlocksApart is not inductive: a new block starts at base + offset, so   *)
(* what is needed is that every earlier block ends there or before.        *)
(* BlocksAligned needs base and offset to be whole pages.  LargestRegion   *)
(* needs to know that the region is the maximum of the entries seen so far *)
(* (ScanBest), and what the loop's sizes are as sets of pages.             *)
(*                                                                         *)
(* The kernel's part of a behaviour of BootMemory is a behaviour of        *)
(* Kalloc, so what is shown of that module holds of the machine; the rest  *)
(* follows from MInv, which says what stage 2 has ready at each stage.     *)
(***************************************************************************)
EXTENDS BootMemory, FiniteSetTheorems, TLAPS

------------------------------------------------------------------------------
(* Quotient and remainder by any positive divisor. *)

\* Quotient and remainder make the number again.
LEMMA DivMod ==
  ASSUME NEW a \in Nat, NEW b \in Nat \ {0}
  PROVE  /\ a = b * (a \div b) + (a % b)
         /\ a \div b \in Nat /\ a % b \in 0 .. b - 1
OBVIOUS

\* And are determined by it.
LEMMA DivUnique ==
  ASSUME NEW b \in Nat \ {0}, NEW q \in Nat, NEW r \in 0 .. b - 1
  PROVE  (b * q + r) \div b = q /\ (b * q + r) % b = r
OBVIOUS

\* A number below the divisor is its own remainder.
LEMMA SmallMod ==
  ASSUME NEW b \in Nat \ {0}, NEW a \in 0 .. b - 1
  PROVE  a % b = a
<1>1. (b * 0 + a) % b = a
  BY DivUnique
<1> QED  BY <1>1

\* A number below a product has a quotient below the other factor.
LEMMA DivBound ==
  ASSUME NEW a \in Nat, NEW b \in Nat \ {0}, NEW c \in Nat, a < b * c
  PROVE  a \div b < c
<1>1. a = b * (a \div b) + (a % b) /\ a \div b \in Nat /\ a % b \in 0 .. b - 1
  BY DivMod
<1>2. SUFFICES ASSUME a \div b >= c PROVE FALSE
  BY <1>1
<1>3. b * (a \div b) >= b * c
  BY <1>1, <1>2
<1> QED  BY <1>1, <1>3
------------------------------------------------------------------------------
(* Kalloc: the invariant. *)

\* x is a whole number of pages.
Paged(x) == \E k \in Nat : x = k * PageSize

\* Nothing is handed out before kalloc_init returned, and no region is there
\* before it was called.
ScanIsEarly ==
  /\ pc \in {"boot", "scan"} => offset = 0 /\ blocks = <<>>
  /\ pc = "boot" => capacity = 0

\* No entry of the map runs past the end of the address space.
MapSound == \A n \in 1 .. Len(map) : map[n].base + map[n].length < W64

RegionPaged == Paged(base) /\ Paged(offset) /\ offset <= capacity

\* Every block lies between the base and the first free byte.
BlocksBelowOffset ==
  \A i \in 1 .. Len(blocks) :
    /\ base <= blocks[i].addr
    /\ blocks[i].addr + blocks[i].size <= base + offset
    /\ Paged(blocks[i].addr)

BlocksInOrder ==
  \A i, j \in 1 .. Len(blocks) :
    i < j => blocks[i].addr + blocks[i].size <= blocks[j].addr

KInv ==
  /\ MapSound
  /\ KTypeOK
  /\ RegionIsMemory
  /\ ScanIsEarly
  /\ RegionPaged
  /\ BlocksBelowOffset
  /\ BlocksInOrder

------------------------------------------------------------------------------
(* Arithmetic of pages. *)

\* The remainder by the page size is less than a page.
LEMMA RemainderRange == ASSUME NEW x \in Nat PROVE x % PageSize \in 0 .. PageSize - 1
BY WidthAssumption

\* x & ~(PAGE - 1): at most x, less than a page below it, a whole number of pages.
LEMMA FloorFacts ==
  ASSUME NEW x \in Nat
  PROVE  /\ PageFloor(x) \in Nat
         /\ PageFloor(x) <= x
         /\ x < PageFloor(x) + PageSize
         /\ Paged(PageFloor(x))
<1>1. x % PageSize \in 0 .. PageSize - 1
  BY RemainderRange
<1>2. x = (PageSize * (x \div PageSize)) + (x % PageSize) /\ x \div PageSize \in Nat
  BY WidthAssumption
<1>3. PageFloor(x) = (x \div PageSize) * PageSize
  BY <1>1, <1>2, WidthAssumption DEF PageFloor
<1>4. PageFloor(x) \in Nat /\ PageFloor(x) <= x /\ x < PageFloor(x) + PageSize
  BY <1>1, <1>2, <1>3, WidthAssumption DEF PageFloor
<1> QED
  BY <1>2, <1>3, <1>4 DEF Paged

\* Whole pages add up to whole pages.
LEMMA PagedSum == ASSUME NEW x, NEW y, Paged(x), Paged(y) PROVE Paged(x + y)
<1>1. PICK k \in Nat : x = k * PageSize
  BY DEF Paged
<1>2. PICK j \in Nat : y = j * PageSize
  BY DEF Paged
<1>3. x + y = (k + j) * PageSize /\ k + j \in Nat
  BY <1>1, <1>2, WidthAssumption
<1> QED
  BY <1>3 DEF Paged

\* A whole number of pages leaves no remainder.
LEMMA PagedRemainder == ASSUME NEW x, Paged(x) PROVE x % PageSize = 0
BY WidthAssumption DEF Paged

\* Nothing is zero pages.
LEMMA PagedZero == Paged(0)
<1>1. 0 = 0 * PageSize /\ 0 \in Nat
  BY WidthAssumption
<1> QED
  BY <1>1 DEF Paged

\* kalloc_align_up: a 32-bit value, 0 when it would overflow and otherwise no
\* smaller than its argument; always whole pages.
LEMMA AlignUpFacts ==
  ASSUME NEW v \in 0 .. W32 - 1
  PROVE  /\ AlignUp(v) \in 0 .. W32 - 1
         /\ AlignUp(v) # 0 => v <= AlignUp(v)
         /\ Paged(AlignUp(v))
<1>1. CASE v > W32 - 1 - (PageSize - 1)
  BY <1>1, PagedZero, WidthAssumption DEF AlignUp
<1>2. CASE ~(v > W32 - 1 - (PageSize - 1))
  <2>1. v + PageSize - 1 \in Nat /\ v + PageSize - 1 <= W32 - 1
    BY <1>2, WidthAssumption
  <2>2. /\ PageFloor(v + PageSize - 1) \in Nat
        /\ PageFloor(v + PageSize - 1) <= v + PageSize - 1
        /\ v + PageSize - 1 < PageFloor(v + PageSize - 1) + PageSize
        /\ Paged(PageFloor(v + PageSize - 1))
    BY <2>1, FloorFacts
  <2>3. AlignUp(v) = PageFloor(v + PageSize - 1)
    BY <1>2 DEF AlignUp
  <2> QED
    BY <2>1, <2>2, <2>3, WidthAssumption
<1> QED
  BY <1>1, <1>2

\* Addition in 32 bits does not wrap when the sum fits.
LEMMA NoWrap32 == ASSUME NEW x \in Nat, x < W32 PROVE x % W32 = x
BY WidthAssumption

\* An entry that kalloc_init considers: its aligned base and what is left of
\* its size stay below 4 GiB and inside the entry.
LEMMA ConsideredFits ==
  ASSUME NEW e \in Entries, e.base + e.length < W64, Considered(e)
  PROVE  /\ AlignUp(e.base) \in 1 .. W32 - 1
         /\ NetSize(e) \in 1 .. W32 - 1
         /\ e.usable /\ MinPhysical <= e.base /\ e.base <= AlignUp(e.base)
         /\ AlignUp(e.base) + NetSize(e) <= W32
         /\ AlignUp(e.base) + NetSize(e) <= e.base + e.length
         /\ Paged(AlignUp(e.base))
<1> DEFINE b == e.base
           l == e.length
<1>1. b \in Nat /\ l \in Nat /\ e.usable \in BOOLEAN
  BY WidthAssumption DEF Entries
<1>2. e.usable /\ MinPhysical <= b /\ b <= W32 - 1
  BY DEF Considered, Eligible
<1>3. b \in 1 .. W32 - 1
  BY <1>1, <1>2, WidthAssumption
<1>4. /\ AlignUp(b) \in 1 .. W32 - 1
      /\ b <= AlignUp(b)
      /\ Paged(AlignUp(b))
  BY <1>3, AlignUpFacts, WidthAssumption DEF Considered
<1>5. (b + l) % W64 = b + l
  BY <1>1, WidthAssumption
<1>6. EndOf(e) = IF b + l > W32 THEN W32 ELSE b + l
  BY <1>5 DEF EndOf
<1>7. /\ EndOf(e) \in Nat /\ b <= EndOf(e)
      /\ EndOf(e) <= W32 /\ EndOf(e) <= b + l
  BY <1>1, <1>3, <1>6, WidthAssumption
<1>8. RawSize(e) = EndOf(e) - b
  <2>1. EndOf(e) - b \in Nat /\ EndOf(e) - b < W32
    BY <1>3, <1>7, WidthAssumption
  <2> QED
    BY <2>1, NoWrap32 DEF RawSize
<1>9. AlignUp(b) - b < EndOf(e) - b
  BY <1>8 DEF Considered, Skipped
<1>10. NetSize(e) = EndOf(e) - AlignUp(b)
  BY <1>1, <1>4, <1>7, <1>8, WidthAssumption DEF NetSize, Skipped
<1> QED
  BY <1>1, <1>2, <1>3, <1>4, <1>7, <1>9, <1>10, WidthAssumption

------------------------------------------------------------------------------
(* How many whole pages an entry has: what kalloc_init computes by cutting *)
(* off the head and rounding, against the set of its pages.                *)

\* The bytes in whole pages of an entry, as the loop of kalloc_init has them.
PagedSize(e) == IF Considered(e) THEN PageFloor(NetSize(e)) ELSE 0

\* Counting in pages and counting in bytes order numbers the same way.
LEMMA PageOrder ==
  ASSUME NEW x \in Int, NEW y \in Int
  PROVE  /\ x <= y => x * PageSize <= y * PageSize
         /\ x * PageSize < y * PageSize => x < y
<1>1. PageSize \in Nat /\ PageSize > 0
  BY WidthAssumption
<1>2. x <= y => x * PageSize <= y * PageSize
  BY <1>1
<1>3. y <= x => y * PageSize <= x * PageSize
  BY <1>1
<1>4. x * PageSize \in Int /\ y * PageSize \in Int
  BY <1>1
<1> QED
  BY <1>2, <1>3, <1>4

\* kalloc_align_up skips less than a page, and fails only in the last page
\* below 4 GiB.
LEMMA AlignUpSkips ==
  ASSUME NEW v \in 0 .. W32 - 1
  PROVE  /\ AlignUp(v) < v + PageSize
         /\ AlignUp(v) = 0 => v = 0 \/ v > W32 - PageSize
<1>1. CASE v > W32 - 1 - (PageSize - 1)
  BY <1>1, WidthAssumption DEF AlignUp
<1>2. CASE ~(v > W32 - 1 - (PageSize - 1))
  <2>1. v + PageSize - 1 \in Nat
    BY <1>2, WidthAssumption
  <2>2. /\ PageFloor(v + PageSize - 1) \in Nat
        /\ PageFloor(v + PageSize - 1) <= v + PageSize - 1
        /\ v + PageSize - 1 < PageFloor(v + PageSize - 1) + PageSize
    BY <2>1, FloorFacts
  <2>3. AlignUp(v) = PageFloor(v + PageSize - 1)
    BY <1>2 DEF AlignUp
  <2> QED
    BY <2>1, <2>2, <2>3, WidthAssumption
<1> QED
  BY <1>1, <1>2

\* The end of an entry that starts where a 32-bit kernel can reach it, and its
\* size up to there.
LEMMA EndFacts ==
  ASSUME NEW e \in Entries, e.base + e.length < W64, Eligible(e)
  PROVE  /\ e.base \in 1 .. W32 - 1 /\ e.length \in Nat
         /\ EndOf(e) = IF e.base + e.length > W32 THEN W32 ELSE e.base + e.length
         /\ EndOf(e) \in Nat /\ EndOf(e) <= W32
         /\ RawSize(e) = EndOf(e) - e.base
<1> DEFINE b == e.base
           l == e.length
<1>1. b \in 1 .. W32 - 1 /\ l \in Nat
  BY WidthAssumption DEF Entries, Eligible
<1>2. (b + l) % W64 = b + l
  BY <1>1, WidthAssumption
<1>3. EndOf(e) = IF b + l > W32 THEN W32 ELSE b + l
  BY <1>2 DEF EndOf
<1>4. EndOf(e) \in Nat /\ b <= EndOf(e) /\ EndOf(e) <= W32
  BY <1>1, <1>3, WidthAssumption
<1>5. EndOf(e) - b \in Nat /\ EndOf(e) - b < W32
  BY <1>1, <1>4, WidthAssumption
<1>6. RawSize(e) = EndOf(e) - b
  BY <1>5, NoWrap32 DEF RawSize
<1> QED
  BY <1>1, <1>3, <1>4, <1>6

\* A page of an entry lies after its aligned base and before its end.
LEMMA PageInside ==
  ASSUME NEW e \in Entries, e.base + e.length < W64, Eligible(e),
         NEW p \in WholePages(e)
  PROVE  /\ p \in Nat /\ e.base <= p * PageSize
         /\ (p + 1) * PageSize <= EndOf(e)
<1> DEFINE q == W32 \div PageSize
<1>1. q \in Nat /\ q * PageSize <= W32
  <2>1. W32 = (PageSize * (W32 \div PageSize)) + (W32 % PageSize)
        /\ W32 \div PageSize \in Nat /\ W32 % PageSize \in Nat
    BY WidthAssumption
  <2> QED
    BY <2>1, WidthAssumption
<1> HIDE DEF q
<1>2. /\ p \in 0 .. q - 1
      /\ e.base <= p * PageSize /\ (p + 1) * PageSize <= e.base + e.length
  BY DEF WholePages, q
<1>3. (p + 1) * PageSize <= q * PageSize
  BY <1>1, <1>2, PageOrder
<1>4. (p + 1) * PageSize <= W32
  BY <1>1, <1>2, <1>3, WidthAssumption
<1> QED
  BY <1>1, <1>2, <1>4, EndFacts

\* An entry kalloc_init passes over has no whole page.
LEMMA NoPages ==
  ASSUME NEW e \in Entries, e.base + e.length < W64, ~Considered(e)
  PROVE  WholePages(e) = {}
<1> SUFFICES ASSUME Eligible(e), NEW p \in WholePages(e) PROVE FALSE
  BY DEF WholePages
<1> DEFINE a == AlignUp(e.base)
           c == (p + 1) * PageSize
<1>1. p \in Nat /\ e.base <= p * PageSize /\ c <= EndOf(e)
  BY PageInside
<1>2. /\ e.base \in 1 .. W32 - 1 /\ EndOf(e) \in Nat /\ EndOf(e) <= W32
      /\ RawSize(e) = EndOf(e) - e.base
  BY EndFacts
<1>3. c = p * PageSize + PageSize /\ c \in Nat /\ p * PageSize \in Nat
  BY <1>1, WidthAssumption
<1>4. /\ a \in 0 .. W32 - 1 /\ a < e.base + PageSize
      /\ a = 0 => e.base > W32 - PageSize
  BY <1>2, AlignUpFacts, AlignUpSkips, WidthAssumption
<1>5. a # 0
  BY <1>1, <1>2, <1>3, <1>4, WidthAssumption
<1>6. a - e.base >= EndOf(e) - e.base
  BY <1>2, <1>4, <1>5 DEF Considered, Skipped
<1> QED
  BY <1>1, <1>2, <1>3, <1>4, <1>6, WidthAssumption

\* The pages of an entry that is considered: those from its aligned base on,
\* as many as fit what is left of it.
LEMMA PagesAreInterval ==
  ASSUME NEW e \in Entries, e.base + e.length < W64, Considered(e),
         NEW i \in Nat, AlignUp(e.base) = i * PageSize,
         NEW k \in Nat, PageFloor(NetSize(e)) = k * PageSize
  PROVE  WholePages(e) = i .. i + k - 1
<1> DEFINE a == AlignUp(e.base)
           n == NetSize(e)
<1>0. Eligible(e)
  BY DEF Considered
<1>1. /\ e.base \in 1 .. W32 - 1 /\ e.length \in Nat
      /\ EndOf(e) = IF e.base + e.length > W32 THEN W32 ELSE e.base + e.length
      /\ EndOf(e) \in Nat /\ EndOf(e) <= W32
      /\ RawSize(e) = EndOf(e) - e.base
  BY <1>0, EndFacts
<1>2. /\ a \in 1 .. W32 - 1 /\ n \in 1 .. W32 - 1 /\ e.base <= a
  BY ConsideredFits
<1>3. a < e.base + PageSize
  BY <1>1, AlignUpSkips
<1>4. n = EndOf(e) - a
  BY <1>1, <1>2 DEF NetSize, Skipped
<1>5. k * PageSize <= n /\ n < k * PageSize + PageSize
  BY <1>2, FloorFacts
<1>6. ASSUME NEW p \in WholePages(e) PROVE p \in i .. i + k - 1
  <2>1. p \in Nat /\ e.base <= p * PageSize /\ (p + 1) * PageSize <= EndOf(e)
    BY <1>0, PageInside
  <2>2. /\ (p + 1) * PageSize = p * PageSize + PageSize /\ p * PageSize \in Nat
        /\ (i + k + 1) * PageSize = i * PageSize + k * PageSize + PageSize
        /\ i * PageSize \in Nat /\ k * PageSize \in Nat /\ PageSize \in Nat
    BY <2>1, WidthAssumption
  <2>3. i * PageSize < (p + 1) * PageSize
    BY <1>1, <1>2, <1>3, <2>1, <2>2
  <2>4. (p + 1) * PageSize < (i + k + 1) * PageSize
    BY <1>1, <1>2, <1>4, <1>5, <2>1, <2>2
  <2>5. i < p + 1 /\ p + 1 < i + k + 1
    BY <2>1, <2>3, <2>4, PageOrder
  <2> QED
    BY <2>1, <2>5
<1>7. ASSUME NEW p \in i .. i + k - 1 PROVE p \in WholePages(e)
  <2> DEFINE q == W32 \div PageSize
  <2>0. q \in Nat /\ W32 = q * PageSize
    <3>1. W32 = (PageSize * (W32 \div PageSize)) + (W32 % PageSize)
          /\ W32 \div PageSize \in Nat
      BY WidthAssumption
    <3> QED
      BY <3>1, WidthAssumption
  <2> HIDE DEF q
  <2>1. p \in Nat /\ i <= p /\ p + 1 <= i + k
    OBVIOUS
  <2>2. i * PageSize <= p * PageSize /\ (p + 1) * PageSize <= (i + k) * PageSize
    BY <2>1, PageOrder
  <2>3. /\ (i + k) * PageSize = i * PageSize + k * PageSize
        /\ i * PageSize \in Nat /\ k * PageSize \in Nat
        /\ p * PageSize \in Nat /\ (p + 1) * PageSize \in Nat
    BY <2>1, WidthAssumption
  <2>4. (p + 1) * PageSize <= EndOf(e)
    BY <1>1, <1>2, <1>4, <1>5, <2>2, <2>3
  <2>5. e.base <= p * PageSize
    BY <1>1, <1>2, <2>2, <2>3
  <2>6. (p + 1) * PageSize <= e.base + e.length /\ (p + 1) * PageSize <= W32
    BY <1>1, <2>3, <2>4, WidthAssumption
  <2>7. (p + 1) * PageSize < (q + 1) * PageSize
    <3>1. (q + 1) * PageSize = q * PageSize + PageSize
      BY <2>0, WidthAssumption
    <3> QED
      BY <2>0, <2>3, <2>6, <3>1, WidthAssumption
  <2>8. p + 1 < q + 1
    BY <2>0, <2>1, <2>7, PageOrder
  <2>9. p \in 0 .. q - 1
    BY <2>0, <2>1, <2>8
  <2> QED
    BY <1>0, <2>5, <2>6, <2>9 DEF WholePages, q
<1> QED
  BY <1>6, <1>7

\* kalloc_init's size of an entry is the size of its whole pages.
LEMMA SizeIsPages ==
  ASSUME NEW e \in Entries, e.base + e.length < W64
  PROVE  Cardinality(WholePages(e)) * PageSize = PagedSize(e)
<1>1. CASE ~Considered(e)
  <2>1. Cardinality(WholePages(e)) = 0
    BY <1>1, NoPages, FS_EmptySet
  <2> QED
    BY <1>1, <2>1, WidthAssumption DEF PagedSize
<1>2. CASE Considered(e)
  <2>1. Paged(AlignUp(e.base)) /\ NetSize(e) \in Nat
    BY <1>2, ConsideredFits
  <2>2. Paged(PageFloor(NetSize(e)))
    BY <2>1, FloorFacts
  <2>3. PICK i \in Nat : AlignUp(e.base) = i * PageSize
    BY <2>1 DEF Paged
  <2>4. PICK k \in Nat : PageFloor(NetSize(e)) = k * PageSize
    BY <2>2 DEF Paged
  <2>5. WholePages(e) = i .. i + k - 1
    BY <1>2, <2>3, <2>4, PagesAreInterval
  <2>6. Cardinality(i .. i + k - 1) = IF i > i + k - 1 THEN 0 ELSE (i + k - 1) - i + 1
    <3>1. i \in Int /\ i + k - 1 \in Int
      OBVIOUS
    <3> QED
      BY <3>1, FS_Interval
  <2>7. Cardinality(WholePages(e)) = k
    BY <2>5, <2>6
  <2> QED
    BY <1>2, <2>4, <2>7 DEF PagedSize
<1> QED
  BY <1>1, <1>2

\* The size of an entry in whole pages is a number, and of whole pages.
LEMMA PagedSizeFacts ==
  ASSUME NEW e \in Entries, e.base + e.length < W64
  PROVE  PagedSize(e) \in Nat /\ Paged(PagedSize(e))
<1>1. CASE ~Considered(e)
  BY <1>1, PagedZero DEF PagedSize
<1>2. CASE Considered(e)
  <2>1. NetSize(e) \in Nat
    BY <1>2, ConsideredFits
  <2> QED
    BY <1>2, <2>1, FloorFacts DEF PagedSize
<1> QED
  BY <1>1, <1>2

------------------------------------------------------------------------------
(* The invariant. *)

\* What kalloc_pages returned, one call.
LEMMA BlockType ==
  ASSUME KTypeOK, NEW i \in 1 .. Len(blocks)
  PROVE  blocks[i] \in [addr : 0 .. W32 - 1, size : 1 .. W32 - 1]
<1> DEFINE Blk == [addr : 0 .. W32 - 1, size : 1 .. W32 - 1]
<1>1. blocks \in Seq(Blk)
  BY DEF KTypeOK
<1> HIDE DEF Blk
<1>2. blocks[i] \in Blk
  BY <1>1
<1> QED
  BY <1>2 DEF Blk

\* kalloc_init starts with no region and no block.
LEMMA InitKInv == InitK => KInv
<1> SUFFICES ASSUME InitK PROVE KInv
  OBVIOUS
<1>1. map = <<>> /\ map \in Seq(Entries) /\ Len(map) = 0
  BY DEF InitK
<1>2. KTypeOK
  BY <1>1, WidthAssumption DEF InitK, KTypeOK
<1>3. RegionIsMemory /\ ScanIsEarly /\ MapSound
  BY <1>1 DEF InitK, RegionIsMemory, ScanIsEarly, MapSound
<1>4. RegionPaged
  BY PagedZero DEF InitK, RegionPaged
<1>5. BlocksBelowOffset /\ BlocksInOrder
  BY DEF InitK, BlocksBelowOffset, BlocksInOrder
<1> QED
  BY <1>1, <1>2, <1>3, <1>4, <1>5 DEF KInv

\* kalloc_init is called with a map the boot loader may hand over.
LEMMA CallKInv == ASSUME KInv, NEW m \in Maps, KallocInit(m) PROVE KInv'
<1> USE DEF KInv
<1>1. /\ map' = m /\ next' = 1 /\ pc' \in {"scan", "failed"}
      /\ base' = 0 /\ capacity' = 0 /\ offset' = 0 /\ blocks' = blocks /\ pc = "boot"
  BY DEF KallocInit
<1>2. blocks = <<>>
  BY <1>1 DEF ScanIsEarly
<1>3. m \in Seq(Entries) /\ Len(m) \in Nat
  BY MapsAssumption
<1>4. KTypeOK'
  BY <1>1, <1>3, WidthAssumption DEF KTypeOK
<1>5. MapSound'
  BY <1>1, MapsAssumption DEF MapSound
<1>6. RegionIsMemory' /\ ScanIsEarly'
  BY <1>1, <1>2 DEF RegionIsMemory, ScanIsEarly
<1>7. RegionPaged' /\ BlocksBelowOffset' /\ BlocksInOrder'
  BY <1>1, <1>2, PagedZero DEF RegionPaged, BlocksBelowOffset, BlocksInOrder
<1> QED
  BY <1>4, <1>5, <1>6, <1>7

\* One turn of the loop of kalloc_init: the region stays, or becomes the whole
\* pages of the entry at hand.
LEMMA ScanKInv == KInv /\ ScanEntry => KInv'
<1> SUFFICES ASSUME KInv, ScanEntry PROVE KInv'
  OBVIOUS
<1> USE DEF KInv
<1>1. /\ map \in Seq(Entries) /\ Len(map) \in Nat
      /\ next \in 1 .. Len(map) + 1 /\ next <= Len(map)
      /\ map' = map /\ pc' = pc /\ pc = "scan"
      /\ offset' = offset /\ blocks' = blocks /\ next' = next + 1
  BY DEF ScanEntry, KTypeOK
<1>2. offset = 0 /\ blocks = <<>>
  BY <1>1 DEF ScanIsEarly
<1> DEFINE e == map[next]
           take == Considered(e) /\ NetSize(e) > capacity
<1>3. next \in 1 .. Len(map) /\ e \in Entries /\ e.base + e.length < W64
  BY <1>1 DEF MapSound
<1>4. /\ base' \in 0 .. W32 - 1 /\ capacity' \in 0 .. W32 - 1
      /\ Paged(base')
      /\ RegionIsMemory'
  <2>1. CASE ~take
    <3>1. base' = base /\ capacity' = capacity
      BY <2>1 DEF ScanEntry
    <3> QED
      BY <1>1, <3>1 DEF KTypeOK, RegionPaged, RegionIsMemory
  <2>2. CASE take
    <3>1. base' = AlignUp(e.base) /\ capacity' = PageFloor(NetSize(e))
      BY <2>2 DEF ScanEntry
    <3>2. /\ AlignUp(e.base) \in 1 .. W32 - 1
          /\ NetSize(e) \in 1 .. W32 - 1
          /\ e.usable /\ MinPhysical <= e.base /\ e.base <= AlignUp(e.base)
          /\ AlignUp(e.base) + NetSize(e) <= W32
          /\ AlignUp(e.base) + NetSize(e) <= e.base + e.length
          /\ Paged(AlignUp(e.base))
      BY <1>3, <2>2, ConsideredFits
    <3>3. PageFloor(NetSize(e)) \in Nat /\ PageFloor(NetSize(e)) <= NetSize(e)
      BY <3>2, FloorFacts
    <3>4. e.base \in Nat /\ e.length \in Nat
      BY <1>3 DEF Entries
    <3>5. base' + capacity' <= W32 /\ base' + capacity' <= e.base + e.length
      BY <3>1, <3>2, <3>3, <3>4, WidthAssumption
    <3>6. RegionIsMemory'
      BY <1>1, <1>3, <3>1, <3>2, <3>5 DEF RegionIsMemory
    <3>7. base' \in 0 .. W32 - 1 /\ capacity' \in 0 .. W32 - 1
      BY <3>1, <3>2, <3>3, WidthAssumption
    <3> QED
      BY <3>1, <3>2, <3>6, <3>7
  <2> QED
    BY <2>1, <2>2
<1>5. KTypeOK'
  BY <1>1, <1>4 DEF KTypeOK
<1>6. ScanIsEarly' /\ MapSound' /\ BlocksBelowOffset' /\ BlocksInOrder'
  BY <1>1, <1>2 DEF ScanIsEarly, MapSound, BlocksBelowOffset, BlocksInOrder
<1>7. RegionPaged'
  BY <1>1, <1>2, <1>4, PagedZero, WidthAssumption DEF RegionPaged
<1> QED
  BY <1>1, <1>4, <1>5, <1>6, <1>7

\* The return of kalloc_init changes no number.
LEMMA FinishKInv == KInv /\ FinishInit => KInv'
<1> SUFFICES ASSUME KInv, FinishInit PROVE KInv'
  OBVIOUS
<1> USE DEF KInv
<1>1. /\ map' = map /\ next' = next /\ base' = base /\ capacity' = capacity
      /\ offset' = offset /\ blocks' = blocks /\ pc' \in {"ready", "failed"}
  BY DEF FinishInit
<1>2. KTypeOK' /\ RegionIsMemory'
  BY <1>1 DEF KTypeOK, RegionIsMemory
<1>3. ScanIsEarly' /\ RegionPaged' /\ MapSound'
  BY <1>1 DEF ScanIsEarly, RegionPaged, MapSound
<1>4. BlocksBelowOffset' /\ BlocksInOrder'
  BY <1>1 DEF BlocksBelowOffset, BlocksInOrder
<1> QED
  BY <1>1, <1>2, <1>3, <1>4

\* A request that is granted: the new block starts where the last one ended or
\* after, and the offset moves past its end by whole pages.
LEMMA GrantKInv ==
  ASSUME KInv, NEW size \in 0 .. W32 - 1, KallocPages(size), Fits(size)
  PROVE  KInv'
<1> USE DEF KInv
<1> DEFINE blk == [addr |-> base + offset, size |-> size]
           n   == Len(blocks)
<1>1. /\ map' = map /\ next' = next /\ pc' = pc /\ base' = base /\ capacity' = capacity
      /\ blocks' = Append(blocks, blk)
      /\ offset' = (offset + AlignUp(size)) % W32
      /\ pc # "scan"
  BY DEF KallocPages
<1>2. /\ base \in 0 .. W32 - 1 /\ capacity \in 0 .. W32 - 1 /\ offset \in 0 .. W32 - 1
      /\ blocks \in Seq([addr : 0 .. W32 - 1, size : 1 .. W32 - 1])
      /\ n \in Nat
  BY DEF KTypeOK
<1>3. size \in 1 .. W32 - 1 /\ capacity > 0
  BY <1>2, SizesAssumption, WidthAssumption DEF Fits
<1>4. /\ AlignUp(size) \in 0 .. W32 - 1 /\ size <= AlignUp(size) /\ Paged(AlignUp(size))
      /\ AlignUp(size) <= capacity - offset
  BY <1>3, AlignUpFacts, WidthAssumption DEF Fits
<1>5. offset + AlignUp(size) \in Nat /\ offset + AlignUp(size) <= capacity
  BY <1>2, <1>4, WidthAssumption
<1>6. offset' = offset + AlignUp(size)
  <2>1. offset + AlignUp(size) < W32
    BY <1>2, <1>5, WidthAssumption
  <2>2. (offset + AlignUp(size)) % W32 = offset + AlignUp(size)
    BY <1>5, <2>1, NoWrap32
  <2> QED
    BY <1>1, <2>2
<1>7. base + capacity <= W32
  BY <1>3 DEF RegionIsMemory
<1>8. base + offset \in 0 .. W32 - 1
  BY <1>2, <1>3, <1>4, <1>7, WidthAssumption
<1>9. blk \in [addr : 0 .. W32 - 1, size : 1 .. W32 - 1]
  BY <1>3, <1>8
<1>10. /\ blocks' \in Seq([addr : 0 .. W32 - 1, size : 1 .. W32 - 1])
       /\ Len(blocks') = n + 1
       /\ \A i \in 1 .. n : blocks'[i] = blocks[i]
       /\ blocks'[n + 1] = blk
  BY <1>1, <1>2, <1>9
<1>11. KTypeOK'
  BY <1>1, <1>2, <1>5, <1>6, <1>10, WidthAssumption DEF KTypeOK
<1>12. RegionIsMemory' /\ ScanIsEarly' /\ MapSound'
  BY <1>1, <1>3 DEF RegionIsMemory, ScanIsEarly, MapSound
<1>13. Paged(base) /\ Paged(offset) /\ Paged(base + offset)
  BY PagedSum DEF RegionPaged
<1>14. RegionPaged'
  BY <1>1, <1>4, <1>5, <1>6, <1>13, PagedSum DEF RegionPaged
<1>15. BlocksBelowOffset'
  <2> SUFFICES ASSUME NEW i \in 1 .. n + 1
               PROVE  /\ base <= blocks'[i].addr
                      /\ blocks'[i].addr + blocks'[i].size <= base + offset'
                      /\ Paged(blocks'[i].addr)
    BY <1>1, <1>10 DEF BlocksBelowOffset
  <2>1. CASE i = n + 1
    BY <1>2, <1>3, <1>4, <1>6, <1>10, <1>13, <2>1, WidthAssumption
  <2>2. CASE i \in 1 .. n
    <3>1. blocks[i] \in [addr : 0 .. W32 - 1, size : 1 .. W32 - 1]
      BY <2>2, BlockType
    <3>2. base <= blocks[i].addr /\ blocks[i].addr + blocks[i].size <= base + offset
          /\ Paged(blocks[i].addr)
      BY <2>2 DEF BlocksBelowOffset
    <3>3. blocks'[i] = blocks[i]
      BY <1>10, <2>2
    <3> QED
      BY <1>2, <1>4, <1>6, <3>1, <3>2, <3>3, WidthAssumption, SMTT(30)
  <2> QED
    BY <1>2, <2>1, <2>2
<1>16. BlocksInOrder'
  <2> SUFFICES ASSUME NEW i \in 1 .. n + 1, NEW j \in 1 .. n + 1, i < j
               PROVE  blocks'[i].addr + blocks'[i].size <= blocks'[j].addr
    BY <1>10 DEF BlocksInOrder
  <2>1. i \in 1 .. n
    BY <1>2
  <2>2. blocks'[i] = blocks[i]
    BY <1>10, <2>1
  <2>3. CASE j = n + 1
    BY <1>10, <2>1, <2>2, <2>3 DEF BlocksBelowOffset
  <2>4. CASE j \in 1 .. n
    BY <1>10, <2>1, <2>2, <2>4 DEF BlocksInOrder
  <2> QED
    BY <1>2, <2>3, <2>4
<1> QED
  BY <1>1, <1>11, <1>12, <1>14, <1>15, <1>16

\* NULL changes nothing, and neither does a step that leaves the variables alone.
LEMMA QuietKInv ==
  ASSUME KInv, UNCHANGED kvars
  PROVE  KInv'
BY DEF kvars, KInv, MapSound, KTypeOK, RegionIsMemory, ScanIsEarly, RegionPaged,
       BlocksBelowOffset, BlocksInOrder

\* The invariant is inductive: one case per action.
LEMMA NextKInv == KInv /\ [NextK]_kvars => KInv'
<1> SUFFICES ASSUME KInv, [NextK]_kvars PROVE KInv'
  OBVIOUS
<1>1. CASE ScanEntry
  BY <1>1, ScanKInv
<1>2. CASE FinishInit
  BY <1>2, FinishKInv
<1>3. CASE \E size \in Sizes : KallocPages(size)
  <2>1. PICK size \in Sizes : KallocPages(size)
    BY <1>3
  <2>2. CASE Fits(size)
    BY <2>1, <2>2, GrantKInv, SizesAssumption
  <2>3. CASE ~Fits(size)
    BY <2>1, <2>3, QuietKInv DEF KallocPages, kvars
  <2> QED
    BY <2>2, <2>3
<1>4. CASE UNCHANGED kvars
  BY <1>4, QuietKInv
<1>5. CASE \E m \in Maps : KallocInit(m)
  BY <1>5, CallKInv
<1> QED
  BY <1>1, <1>2, <1>3, <1>4, <1>5 DEF NextK

\* The invariant holds in every reachable state.
LEMMA KInvariance == SpecK => []KInv
BY InitKInv, NextKInv, PTL DEF SpecK

\* The blocks below offset are inside the region, and in order they are apart.
LEMMA KInvBlocks ==
  ASSUME KInv
  PROVE  BlocksApart
<1>1. \A i \in 1 .. Len(blocks) :
        base <= blocks[i].addr /\ blocks[i].addr + blocks[i].size <= base + capacity
  <2> SUFFICES ASSUME NEW i \in 1 .. Len(blocks)
               PROVE  base <= blocks[i].addr
                      /\ blocks[i].addr + blocks[i].size <= base + capacity
    OBVIOUS
  <2>1. blocks[i] \in [addr : 0 .. W32 - 1, size : 1 .. W32 - 1]
    BY BlockType DEF KInv
  <2>2. base \in Nat /\ capacity \in Nat /\ offset \in Nat
    BY WidthAssumption DEF KInv, KTypeOK
  <2>3. base <= blocks[i].addr /\ blocks[i].addr + blocks[i].size <= base + offset
    BY DEF KInv, BlocksBelowOffset
  <2>4. offset <= capacity
    BY DEF KInv, RegionPaged
  <2> QED
    BY <2>1, <2>3, <2>4, <2>2, WidthAssumption
<1>2. BlocksInOrder
  BY DEF KInv
<1> QED
  BY <1>1, <1>2 DEF BlocksApart, BlocksInOrder

------------------------------------------------------------------------------
(* The theorems. *)

\* Every variable of kalloc.c fits its 32 bits; nothing returned wraps around.
THEOREM KallocTypes == SpecK => []KTypeOK
<1>1. KInv => KTypeOK
  BY DEF KInv
<1> QED
  BY <1>1, KInvariance, PTL

\* The region kalloc_init chose lies inside one usable entry above 1 MiB and
\* below 4 GiB.
THEOREM KallocRegion == SpecK => []RegionIsMemory
<1>1. KInv => RegionIsMemory
  BY DEF KInv
<1> QED
  BY <1>1, KInvariance, PTL

\* The blocks kalloc_pages returned lie inside the region and do not overlap.
THEOREM KallocBlocks == SpecK => []BlocksApart
<1>1. KInv => BlocksApart
  BY KInvBlocks
<1> QED
  BY <1>1, KInvariance, PTL

\* Every address kalloc_pages returned is the first byte of a page.
THEOREM KallocAlignment == SpecK => []BlocksAligned
<1>1. KInv => BlocksAligned
  BY PagedRemainder DEF KInv, BlocksBelowOffset, BlocksAligned
<1> QED
  BY <1>1, KInvariance, PTL

------------------------------------------------------------------------------
(* The largest region.                                                     *)

\* What the loop of kalloc_init keeps true: no entry it has seen has more
\* whole pages than the region, and the region is all those of some entry.
ScanBest ==
  pc # "boot" =>
    /\ \A n \in 1 .. Len(map) : n < next => PagedSize(map[n]) <= capacity
    /\ capacity > 0 => \E n \in 1 .. Len(map) : PagedSize(map[n]) = capacity
    /\ pc \in {"ready", "failed"} => next > Len(map)

\* The entry at hand has at most capacity' bytes in pages, and when the region
\* is replaced it has that many: the comparison of the unrounded size with the
\* rounded one loses no page, because capacity is whole pages.
LEMMA TurnKeepsMaximum ==
  ASSUME KInv, ScanBest, ScanEntry
  PROVE  /\ capacity' \in Nat /\ capacity <= capacity'
         /\ PagedSize(map[next]) <= capacity'
         /\ capacity' = capacity \/ capacity' = PagedSize(map[next])
<1> DEFINE e == map[next]
           take == Considered(e) /\ NetSize(e) > capacity
<1>1. /\ next \in 1 .. Len(map) /\ e \in Entries /\ e.base + e.length < W64
      /\ capacity \in Nat
  <2>1. /\ map \in Seq(Entries) /\ Len(map) \in Nat /\ capacity \in 0 .. W32 - 1
        /\ next \in 1 .. Len(map) + 1 /\ next <= Len(map)
    BY DEF ScanEntry, KTypeOK, KInv
  <2> QED
    BY <2>1, WidthAssumption DEF KInv, MapSound
<1>2. Considered(e) => /\ NetSize(e) \in Nat
                       /\ PageFloor(NetSize(e)) \in Nat
                       /\ PageFloor(NetSize(e)) <= NetSize(e)
                       /\ NetSize(e) < PageFloor(NetSize(e)) + PageSize
                       /\ Paged(PageFloor(NetSize(e)))
  <2> SUFFICES ASSUME Considered(e) PROVE NetSize(e) \in Nat
    BY FloorFacts
  <2> QED
    BY <1>1, ConsideredFits
<1>3. CASE take
  <2>1. capacity' = PageFloor(NetSize(e)) /\ PagedSize(e) = capacity'
    BY <1>3 DEF ScanEntry, PagedSize
  <2>2. Paged(capacity)
    <3>1. CASE capacity = 0
      BY <3>1, PagedZero
    <3>2. CASE capacity > 0
      <4>1. PICK n \in 1 .. Len(map) : PagedSize(map[n]) = capacity
        BY <3>2 DEF ScanBest, ScanEntry
      <4>2. map[n] \in Entries /\ map[n].base + map[n].length < W64
        BY DEF KInv, KTypeOK, MapSound
      <4> QED
        BY <4>1, <4>2, PagedSizeFacts
    <3> QED
      BY <1>1, <3>1, <3>2
  <2>3. PICK k \in Nat : capacity = k * PageSize
    BY <2>2 DEF Paged
  <2>4. PICK j \in Nat : capacity' = j * PageSize
    BY <1>2, <1>3, <2>1 DEF Paged
  <2>5. /\ (j + 1) * PageSize = j * PageSize + PageSize
        /\ k * PageSize \in Nat /\ j * PageSize \in Nat /\ PageSize \in Nat
    BY WidthAssumption
  <2>6. k * PageSize < (j + 1) * PageSize
    BY <1>1, <1>2, <1>3, <2>1, <2>3, <2>4, <2>5
  <2>7. k <= j
    BY <2>6, PageOrder
  <2>8. capacity <= capacity'
    BY <2>3, <2>4, <2>7, PageOrder
  <2> QED
    BY <1>2, <1>3, <2>1, <2>8
<1>4. CASE ~take
  <2>1. capacity' = capacity
    BY <1>4 DEF ScanEntry
  <2>2. PagedSize(e) <= capacity
    BY <1>1, <1>2, <1>4 DEF PagedSize
  <2> QED
    BY <1>1, <2>1, <2>2
<1> QED
  BY <1>3, <1>4

\* kalloc_init is called: nothing seen, nothing kept.
LEMMA CallBest == ASSUME NEW m \in Maps, KallocInit(m) PROVE ScanBest'
<1>1. map' = m /\ next' = 1 /\ capacity' = 0 /\ Len(m) \in Nat
  BY MapsAssumption DEF KallocInit
<1>2. pc' \in {"ready", "failed"} => Len(m) = 0
  BY DEF KallocInit
<1> QED
  BY <1>1, <1>2 DEF ScanBest

\* One turn of the loop adds the entry at hand to those the maximum is of.
LEMMA TurnBest == ASSUME KInv, ScanBest, ScanEntry PROVE ScanBest'
<1>1. /\ map' = map /\ next' = next + 1 /\ pc' = "scan" /\ pc = "scan"
      /\ next \in 1 .. Len(map) /\ next \in Nat /\ Len(map) \in Nat
      /\ capacity \in Nat
  <2>1. /\ map \in Seq(Entries) /\ Len(map) \in Nat /\ capacity \in 0 .. W32 - 1
        /\ next \in 1 .. Len(map) + 1 /\ next <= Len(map)
    BY DEF ScanEntry, KTypeOK, KInv
  <2> QED
    BY <2>1, WidthAssumption DEF ScanEntry
<1>2. /\ capacity' \in Nat /\ capacity <= capacity'
      /\ PagedSize(map[next]) <= capacity'
      /\ capacity' = capacity \/ capacity' = PagedSize(map[next])
  BY TurnKeepsMaximum
<1>3. ASSUME NEW n \in 1 .. Len(map), n < next + 1
      PROVE  PagedSize(map[n]) <= capacity'
  <2>1. CASE n = next
    BY <2>1, <1>2
  <2>2. CASE n < next
    <3>1. PagedSize(map[n]) <= capacity
      BY <1>1, <2>2 DEF ScanBest
    <3>2. PagedSize(map[n]) \in Nat
      <4>1. map[n] \in Entries /\ map[n].base + map[n].length < W64
        BY DEF KInv, KTypeOK, MapSound
      <4> QED
        BY <4>1, PagedSizeFacts
    <3> QED
      BY <1>1, <1>2, <3>1, <3>2
  <2> QED
    BY <1>1, <1>3, <2>1, <2>2
<1>4. ASSUME capacity' > 0
      PROVE  \E n \in 1 .. Len(map) : PagedSize(map[n]) = capacity'
  BY <1>1, <1>2, <1>4 DEF ScanBest
<1> QED
  BY <1>1, <1>3, <1>4 DEF ScanBest

\* Only kalloc_init changes the region, its loop variable or its progress.
LEMMA BestStep == KInv /\ ScanBest /\ [NextK]_kvars => ScanBest'
<1> SUFFICES ASSUME KInv, ScanBest, [NextK]_kvars PROVE ScanBest'
  OBVIOUS
<1>1. CASE \E m \in Maps : KallocInit(m)
  BY <1>1, CallBest
<1>2. CASE ScanEntry
  BY <1>2, TurnBest
<1>3. CASE FinishInit
  BY <1>3 DEF FinishInit, ScanBest
<1>4. CASE UNCHANGED <<map, next, pc, capacity>>
  BY <1>4 DEF ScanBest
<1> QED
  BY <1>1, <1>2, <1>3, <1>4 DEF NextK, KallocPages, kvars

\* When kalloc_init has returned, its region has as many whole pages as the
\* entry of the map that has most, and there is none only when no entry has one.
THEOREM KallocLargest == SpecK => []LargestRegion
<1>1. InitK => ScanBest
  BY DEF InitK, ScanBest
<1>2. KInv /\ ScanBest => LargestRegion
  <2> SUFFICES ASSUME KInv, ScanBest, pc \in {"ready", "failed"}
               PROVE  LargestRegion
    BY DEF LargestRegion
  <2>1. \A n \in 1 .. Len(map) :
          Cardinality(WholePages(map[n])) * PageSize = PagedSize(map[n])
    <3> SUFFICES ASSUME NEW n \in 1 .. Len(map)
                 PROVE  Cardinality(WholePages(map[n])) * PageSize = PagedSize(map[n])
      OBVIOUS
    <3>1. map[n] \in Entries /\ map[n].base + map[n].length < W64
      BY DEF KInv, KTypeOK, MapSound
    <3> QED
      BY <3>1, SizeIsPages
  <2>2. next > Len(map) /\ next \in Nat /\ Len(map) \in Nat
    BY DEF ScanBest, KInv, KTypeOK
  <2>3. \A n \in 1 .. Len(map) : n < next
    BY <2>2
  <2> QED
    BY <2>1, <2>3 DEF ScanBest, LargestRegion
<1> QED
  BY <1>1, <1>2, KInvariance, BestStep, PTL DEF SpecK

------------------------------------------------------------------------------
(* BootMemory: the invariant. *)

Lent == [addr : Nat, size : Nat \ {0}]

\* The table holds the first entries of the firmware's map, and later all.
TableFollows ==
  /\ table \in Seq(Entries) /\ Len(table) <= Len(firmware)
  /\ \A i \in 1 .. Len(table) : table[i] = firmware[i]
  /\ stage \in {"heap", "loader", "kernel"} => table = firmware

\* The heap appears when an entry covers it.
HeapReady ==
  /\ stage \in {"collect", "heap", "failed"} => lent = <<>>
  /\ stage \in {"loader", "kernel"} =>
       /\ heap \in [base : {HeapBase}, capacity : {HeapSize}, offset : 0 .. HeapSize]
       /\ \E n \in 1 .. Len(firmware) : Covers(firmware[n])

LentBelowOffset ==
  /\ lent \in Seq(Lent)
  /\ \A i \in 1 .. Len(lent) :
       /\ HeapBase <= lent[i].addr
       /\ lent[i].addr + lent[i].size <= HeapBase + heap.offset
  /\ \A i, j \in 1 .. Len(lent) : i < j => lent[i].addr + lent[i].size <= lent[j].addr

\* The kernel starts when stage 2 is done, with the map boot_info names.
Handover ==
  /\ stage = "kernel" => info.map = firmware
  /\ stage # "kernel" => pc = "boot"
  /\ pc # "boot" => map = firmware

MInv ==
  /\ firmware \in Maps
  /\ stage \in {"collect", "heap", "loader", "kernel", "failed"}
  /\ TableFollows
  /\ HeapReady
  /\ LentBelowOffset
  /\ Handover

------------------------------------------------------------------------------
(* Helpers. *)

\* A map is a finite sequence of entries that stay inside the address space.
LEMMA FirmwareType ==
  ASSUME NEW m \in Maps
  PROVE  /\ m \in Seq(Entries) /\ Len(m) \in Nat
         /\ \A n \in 1 .. Len(m) : m[n] \in Entries /\ m[n].base + m[n].length < W64
BY MapsAssumption

\* A far pointer to an address below 1 MiB names that address.
LEMMA FarBelowLimit ==
  ASSUME NEW x \in Nat, x < MinPhysical
  PROVE  FarTo(x) = x
<1>1. Paragraph \in Nat \ {0} /\ Segments \in Nat /\ x < Paragraph * Segments
  BY HeapAssumption, WidthAssumption
<1>2. /\ x = Paragraph * (x \div Paragraph) + (x % Paragraph)
      /\ x \div Paragraph \in Nat /\ x % Paragraph \in 0 .. Paragraph - 1
  BY <1>1, DivMod
<1>3. x \div Paragraph < Segments
  BY <1>1, DivBound
<1>4. (x \div Paragraph) % Segments = x \div Paragraph
  BY <1>1, <1>2, <1>3, SmallMod
<1>5. (x \div Paragraph) * Paragraph = Paragraph * (x \div Paragraph)
  BY <1>1, <1>2
<1> QED  BY <1>2, <1>4, <1>5 DEF FarTo

\* What a block of the heap is.
LEMMA LentType == ASSUME lent \in Seq(Lent), NEW i \in 1 .. Len(lent) PROVE lent[i] \in Lent
<1> HIDE DEF Lent
<1> QED  OBVIOUS

\* Aligning moves the offset up, if at all.
LEMMA AlignedUp ==
  ASSUME NEW alignment \in Nat, heap.offset \in Nat
  PROVE  Aligned(alignment) \in Nat /\ heap.offset <= Aligned(alignment)
<1> DEFINE step == IF alignment < 1 THEN 1 ELSE alignment
           rest == heap.offset % step
<1>1. step \in Nat \ {0}
  OBVIOUS
<1>2. rest \in 0 .. step - 1
  <2> HIDE DEF step
  <2> QED  BY <1>1, DivMod
<1>3. Aligned(alignment) = IF rest # 0 THEN heap.offset + step - rest ELSE heap.offset
  BY DEF Aligned
<1> HIDE DEF step, rest
<1> QED  BY <1>1, <1>2, <1>3

------------------------------------------------------------------------------
(* The invariant. *)

LEMMA InitMInv == InitMem => MInv
<1> SUFFICES ASSUME InitMem PROVE MInv
  OBVIOUS
<1>1. firmware \in Maps /\ firmware \in Seq(Entries) /\ Len(firmware) \in Nat
  BY FirmwareType DEF InitMem
<1>2. TableFollows
  BY <1>1 DEF InitMem, TableFollows
<1>3. HeapReady /\ Handover
  BY DEF InitMem, InitK, HeapReady, Handover
<1>4. LentBelowOffset
  BY DEF InitMem, LentBelowOffset
<1> QED  BY <1>1, <1>2, <1>3, <1>4 DEF InitMem, MInv

\* The firmware's next entry goes to the next place of the table.
LEMMA EntryMInv == MInv /\ E820Entry => MInv'
<1> SUFFICES ASSUME MInv, E820Entry PROVE MInv'
  OBVIOUS
<1> USE DEF MInv
<1> DEFINE k == Len(table)
           e == firmware[k + 1]
<1>1. /\ stage = "collect" /\ k < Len(firmware) /\ table' = Append(table, e)
      /\ stage' = IF Len(table') = Len(firmware) /\ ends = "token" THEN "heap" ELSE "collect"
      /\ firmware' = firmware /\ heap' = heap /\ lent' = lent /\ info' = info
      /\ pc' = pc /\ map' = map
  BY DEF E820Entry, kvars
<1>2. firmware \in Seq(Entries) /\ Len(firmware) \in Nat /\ table \in Seq(Entries) /\ k \in Nat
  BY FirmwareType DEF TableFollows
<1>3. e \in Entries
  BY <1>1, <1>2
<1>4. /\ table' \in Seq(Entries) /\ Len(table') = k + 1
      /\ \A i \in 1 .. k : table'[i] = table[i]
      /\ table'[k + 1] = e
  BY <1>1, <1>2, <1>3
<1>5. \A i \in 1 .. Len(table') : table'[i] = firmware'[i]
  BY <1>1, <1>2, <1>4 DEF TableFollows
<1>6. Len(table') = Len(firmware') => table' = firmware'
  BY <1>1, <1>2, <1>4, <1>5
<1>7. TableFollows'
  BY <1>1, <1>2, <1>4, <1>5, <1>6 DEF TableFollows
<1>8. HeapReady' /\ LentBelowOffset'
  BY <1>1 DEF HeapReady, LentBelowOffset
<1>9. Handover'
  BY <1>1 DEF Handover
<1> QED  BY <1>1, <1>7, <1>8, <1>9

\* InitFromMap finds an entry around the heap, or the boot fails.
LEMMA HeapMInv == MInv /\ HeapFromMap => MInv'
<1> SUFFICES ASSUME MInv, HeapFromMap PROVE MInv'
  OBVIOUS
<1> USE DEF MInv
<1>1. /\ stage = "heap" /\ stage' \in {"loader", "failed"} /\ table = firmware
      /\ table' = table /\ firmware' = firmware /\ lent' = lent /\ info' = info
      /\ pc' = pc /\ map' = map
  BY DEF HeapFromMap, TableFollows, kvars
<1>2. lent = <<>> /\ pc = "boot"
  BY <1>1 DEF HeapReady, Handover
<1>3. TableFollows' /\ Handover' /\ LentBelowOffset'
  BY <1>1, <1>2 DEF TableFollows, Handover, LentBelowOffset
<1>4. HeapReady'
  <2>1. CASE \E n \in 1 .. Len(table) : Covers(table[n])
    <3>1. heap' = [base |-> HeapBase, capacity |-> HeapSize, offset |-> 0] /\ stage' = "loader"
      BY <2>1 DEF HeapFromMap
    <3>2. \E n \in 1 .. Len(firmware') : Covers(firmware'[n])
      BY <1>1, <2>1
    <3> QED  BY <3>1, <3>2, HeapAssumption DEF HeapReady, Covers
  <2>2. CASE ~ \E n \in 1 .. Len(table) : Covers(table[n])
    BY <1>1, <1>2, <2>2 DEF HeapFromMap, HeapReady
  <2> QED  BY <2>1, <2>2
<1> QED  BY <1>1, <1>3, <1>4

\* A block of the heap starts at the aligned offset, after every other.
LEMMA HeapAllocMInv ==
  ASSUME MInv, NEW size \in Nat, NEW alignment \in Nat, HeapAlloc(size, alignment)
  PROVE  MInv'
<1> USE DEF MInv
<1> DEFINE a   == Aligned(alignment)
           blk == [addr |-> FarTo(heap.base + a), size |-> size]
           n   == Len(lent)
<1>0. \A x, s, u, v \in Nat : x + s <= u /\ u <= v => x + s <= v
  OBVIOUS
<1>1. /\ stage = "loader" /\ stage' = stage /\ table' = table /\ firmware' = firmware
      /\ info' = info /\ pc' = pc /\ map' = map
      /\ lent' = Append(lent, blk) /\ heap' = [heap EXCEPT !.offset = a + size]
      /\ size # 0 /\ a <= heap.capacity /\ size <= heap.capacity - a
  BY DEF HeapAlloc, HeapFits, kvars
<1>2. /\ heap \in [base : {HeapBase}, capacity : {HeapSize}, offset : 0 .. HeapSize]
      /\ heap.base = HeapBase /\ heap.capacity = HeapSize /\ heap.offset \in 0 .. HeapSize
  BY <1>1 DEF HeapReady
<1>3. HeapBase \in Nat /\ HeapSize \in Nat /\ HeapBase + HeapSize <= MinPhysical /\ MinPhysical \in Nat
  BY HeapAssumption, WidthAssumption
<1>4. a \in Nat /\ heap.offset <= a
  BY <1>2, <1>3, AlignedUp
<1> HIDE DEF a
<1>5. a + size \in 0 .. HeapSize
  BY <1>1, <1>2, <1>3, <1>4
<1>6. /\ heap' \in [base : {HeapBase}, capacity : {HeapSize}, offset : 0 .. HeapSize]
      /\ heap'.offset = a + size
  BY <1>1, <1>2, <1>5
<1>7. HeapBase + a \in Nat /\ HeapBase + a < MinPhysical
  BY <1>1, <1>2, <1>3, <1>4
<1>8. FarTo(HeapBase + a) = HeapBase + a
  BY <1>7, FarBelowLimit
<1>9. blk \in Lent /\ blk.addr = HeapBase + a /\ blk.size = size
  BY <1>1, <1>2, <1>7, <1>8 DEF Lent
<1> HIDE DEF blk
<1>10. lent \in Seq(Lent) /\ n \in Nat
  BY DEF LentBelowOffset
<1>11. /\ lent' \in Seq(Lent) /\ Len(lent') = n + 1
       /\ \A i \in 1 .. n : lent'[i] = lent[i]
       /\ lent'[n + 1] = blk
  BY <1>1, <1>9, <1>10
<1>12. ASSUME NEW i \in 1 .. n
       PROVE  /\ lent[i].addr \in Nat /\ lent[i].size \in Nat
              /\ HeapBase <= lent[i].addr
              /\ lent[i].addr + lent[i].size <= HeapBase + heap.offset
  <2>1. lent[i] \in Lent
    BY <1>10, LentType
  <2> QED  BY <2>1 DEF LentBelowOffset, Lent
<1>13. \A i \in 1 .. n + 1 : /\ HeapBase <= lent'[i].addr
                             /\ lent'[i].addr + lent'[i].size <= HeapBase + heap'.offset
  <2> SUFFICES ASSUME NEW i \in 1 .. n + 1
               PROVE  /\ HeapBase <= lent'[i].addr
                      /\ lent'[i].addr + lent'[i].size <= HeapBase + heap'.offset
    OBVIOUS
  <2>1. CASE i = n + 1
    BY <1>3, <1>4, <1>6, <1>9, <1>11, <2>1
  <2>2. CASE i \in 1 .. n
    <3>1. lent'[i] = lent[i]
      BY <1>11, <2>2
    <3>2. HeapBase + heap.offset <= HeapBase + heap'.offset
      BY <1>1, <1>2, <1>3, <1>4, <1>5, <1>6
    <3>3. /\ lent[i].addr \in Nat /\ lent[i].size \in Nat /\ HeapBase <= lent[i].addr
          /\ lent[i].addr + lent[i].size <= HeapBase + heap.offset
      BY <1>12, <2>2
    <3>4. heap.offset \in Nat /\ heap'.offset \in Nat
      BY <1>2, <1>5, <1>6
    <3>5. HeapBase + heap.offset \in Nat /\ HeapBase + heap'.offset \in Nat
      BY <1>3, <3>4
    <3>6. lent[i].addr + lent[i].size <= HeapBase + heap'.offset
      BY <1>0, <3>2, <3>3, <3>5
    <3> QED  BY <3>1, <3>3, <3>6
  <2> QED  BY <1>10, <2>1, <2>2
<1>14. \A i, j \in 1 .. n + 1 : i < j => lent'[i].addr + lent'[i].size <= lent'[j].addr
  <2> SUFFICES ASSUME NEW i \in 1 .. n + 1, NEW j \in 1 .. n + 1, i < j
               PROVE  lent'[i].addr + lent'[i].size <= lent'[j].addr
    OBVIOUS
  <2> HIDE DEF n
  <2>0. i \in 1 .. n
    BY <1>10
  <2>1. i \in 1 .. n /\ lent'[i] = lent[i]
    BY <1>11, <2>0
  <2> USE DEF n
  <2>2. CASE j = n + 1
    <3>1. lent'[j] = blk
      BY <1>11, <2>2
    <3>2. /\ lent[i].addr \in Nat /\ lent[i].size \in Nat
          /\ lent[i].addr + lent[i].size <= HeapBase + heap.offset
      BY <1>12, <2>0
    <3>3. /\ HeapBase + heap.offset \in Nat /\ HeapBase + a \in Nat
          /\ HeapBase + heap.offset <= HeapBase + a
      BY <1>2, <1>3, <1>4
    <3>4. lent[i].addr + lent[i].size <= HeapBase + a
      BY <1>0, <3>2, <3>3
    <3> QED  BY <1>9, <2>1, <3>1, <3>4
  <2>3. CASE j \in 1 .. n
    BY <1>11, <2>1, <2>3 DEF LentBelowOffset
  <2> QED  BY <1>10, <2>2, <2>3
<1>15. LentBelowOffset'
  BY <1>11, <1>13, <1>14 DEF LentBelowOffset
<1>16. HeapReady'
  BY <1>1, <1>6 DEF HeapReady, Covers
<1>17. TableFollows' /\ Handover'
  BY <1>1 DEF TableFollows, Handover
<1> QED  BY <1>1, <1>15, <1>16, <1>17

\* The map goes to the kernel as it was collected.
LEMMA InfoMInv == MInv /\ WriteBootInfo => MInv'
<1> SUFFICES ASSUME MInv, WriteBootInfo PROVE MInv'
  OBVIOUS
<1> USE DEF MInv
<1>1. /\ stage = "loader" /\ stage' = "kernel" /\ info'.map = table /\ table = firmware
      /\ table' = table /\ firmware' = firmware /\ lent' = lent /\ heap' = heap
      /\ pc' = pc /\ map' = map
  BY DEF WriteBootInfo, TableFollows, kvars
<1>2. pc = "boot"
  BY <1>1 DEF Handover
<1>3. TableFollows' /\ LentBelowOffset' /\ Handover'
  BY <1>1, <1>2 DEF TableFollows, LentBelowOffset, Handover
<1>4. HeapReady'
  BY <1>1 DEF HeapReady, Covers
<1> QED  BY <1>1, <1>3, <1>4

\* The kernel's steps change nothing of stage 2's.
LEMMA KernelMInv == MInv /\ (KernelInit \/ Kernel) => MInv'
<1> SUFFICES ASSUME MInv, KernelInit \/ Kernel PROVE MInv'
  OBVIOUS
<1> USE DEF MInv
<1>1. /\ stage = "kernel" /\ stage' = stage /\ table' = table /\ firmware' = firmware
      /\ lent' = lent /\ heap' = heap /\ info' = info
  BY DEF KernelInit, Kernel, bootVars
<1>2. TableFollows' /\ LentBelowOffset'
  BY <1>1 DEF TableFollows, LentBelowOffset
<1>3. HeapReady'
  BY <1>1 DEF HeapReady, Covers
<1>4. Handover'
  <2>1. CASE KernelInit
    BY <1>1, <2>1 DEF KernelInit, KallocInit, Handover
  <2>2. CASE Kernel
    <3>1. pc' = "boot" \/ map' = map
      BY <2>2 DEF Kernel, ScanEntry, FinishInit, KallocPages
    <3>2. pc = "boot" => pc' = "boot"
      BY <2>2 DEF Kernel, ScanEntry, FinishInit, KallocPages
    <3> QED  BY <1>1, <3>1, <3>2 DEF Handover
  <2> QED  BY <2>1, <2>2
<1> QED  BY <1>1, <1>2, <1>3, <1>4

LEMMA NextMInv == MInv /\ [NextMem]_memVars => MInv'
<1> SUFFICES ASSUME MInv, [NextMem]_memVars PROVE MInv'
  OBVIOUS
<1> USE DEF MInv
<1>1. CASE E820Fails
  <2>1. /\ stage = "collect" /\ stage' = "failed" /\ table' = table /\ firmware' = firmware
        /\ lent' = lent /\ heap' = heap /\ info' = info /\ pc' = pc /\ map' = map
    BY <1>1 DEF E820Fails, kvars
  <2> QED  BY <2>1 DEF TableFollows, HeapReady, LentBelowOffset, Handover
<1>2. CASE UNCHANGED memVars
  <2>1. /\ stage' = stage /\ table' = table /\ firmware' = firmware
        /\ lent' = lent /\ heap' = heap /\ info' = info /\ pc' = pc /\ map' = map
    BY <1>2 DEF memVars, bootVars, kvars
  <2> QED  BY <2>1 DEF TableFollows, HeapReady, LentBelowOffset, Handover, Covers
<1>3. CASE \E r \in HeapRequests : HeapAlloc(r[1], r[2])
  <2>1. PICK r \in HeapRequests : HeapAlloc(r[1], r[2])
    BY <1>3
  <2>2. r[1] \in Nat /\ r[2] \in Nat
    BY HeapAssumption
  <2> QED  BY <2>1, <2>2, HeapAllocMInv
<1> QED  BY <1>1, <1>2, <1>3, EntryMInv, HeapMInv, InfoMInv, KernelMInv
         DEF NextMem, Stage2Memory

------------------------------------------------------------------------------
(* The kernel's allocator in the machine. *)

\* Every step of the machine is a step of kalloc.c or leaves it alone: the map
\* kalloc_init reads is one of the firmware's.
LEMMA MachineStepsAreKalloc == MInv /\ [NextMem]_memVars => [NextK]_kvars
<1> SUFFICES ASSUME MInv, [NextMem]_memVars PROVE [NextK]_kvars
  OBVIOUS
<1>1. CASE KernelInit
  <2>1. KallocInit(info.map) /\ info.map \in Maps
    BY <1>1 DEF KernelInit, MInv, Handover
  <2> QED  BY <2>1 DEF NextK
<1>2. CASE Kernel
  BY <1>2 DEF Kernel, NextK
<1>3. CASE Stage2Memory
  BY <1>3 DEF Stage2Memory, E820Entry, E820Fails, HeapFromMap, HeapAlloc, WriteBootInfo
<1>4. CASE UNCHANGED memVars
  BY <1>4 DEF memVars
<1> QED  BY <1>1, <1>2, <1>3, <1>4 DEF NextMem

LEMMA MemInvariance == SpecMem => [](MInv /\ KInv)
<1>1. InitMem => MInv /\ KInv
  BY InitMInv, InitKInv DEF InitMem
<1>2. MInv /\ KInv /\ [NextMem]_memVars => (MInv /\ KInv)'
  BY NextMInv, MachineStepsAreKalloc, NextKInv
<1> QED  BY <1>1, <1>2, PTL DEF SpecMem

------------------------------------------------------------------------------
(* The theorems. *)

\* The machine implements Kalloc: what x86.asm:323-379, memory.c and
\* boot_info do before the kernel runs is stuttering of kalloc.c, and the map
\* they hand it is one Kalloc allows.
THEOREM BootRefinesKalloc == SpecMem => SpecK
<1>1. InitMem => InitK
  BY DEF InitMem
<1> QED  BY <1>1, MemInvariance, MachineStepsAreKalloc, PTL DEF SpecMem, SpecK

\* The kernel reads the firmware's whole map or does not run (x86.asm:343-359).
THEOREM WholeMapArrives == SpecMem => []MapComplete
<1>1. MInv => MapComplete
  BY DEF MInv, Handover, MapComplete
<1> QED  BY <1>1, MemInvariance, PTL

\* The bump allocator of stage 2 lends memory, each byte once (memory.c:77-130).
THEOREM HeapSound == SpecMem => []HeapIsMemory
<1>1. MInv => HeapIsMemory
  <2> SUFFICES ASSUME MInv, stage \in {"loader", "kernel"} PROVE HeapIsMemory
    BY DEF HeapIsMemory
  <2>1. /\ heap.base = HeapBase /\ heap.capacity = HeapSize /\ heap.offset <= heap.capacity
    BY HeapAssumption DEF MInv, HeapReady
  <2>2. PICK n \in 1 .. Len(firmware) : Covers(firmware[n])
    BY DEF MInv, HeapReady
  <2>3. firmware[n] \in Entries /\ firmware[n].base + firmware[n].length < W64
    BY FirmwareType DEF MInv
  <2>4. firmware[n].base + firmware[n].length \in Nat
    BY <2>3 DEF Entries
  <2>5. (firmware[n].base + firmware[n].length) % W64 = firmware[n].base + firmware[n].length
    BY <2>3, <2>4, WidthAssumption, SmallMod
  <2>6. /\ firmware[n].usable /\ firmware[n].base <= heap.base
        /\ heap.base + heap.capacity <= firmware[n].base + firmware[n].length
    BY <2>1, <2>2, <2>5 DEF Covers
  <2> QED  BY <2>1, <2>6 DEF HeapIsMemory, MInv, LentBelowOffset
<1> QED  BY <1>1, MemInvariance, PTL

\* The loader's heap and the kernel's pages are apart, although nothing in the
\* kernel's code looks at boot_info.heap (kalloc.c:46, memdefs.h).
THEOREM OwnersApart == SpecMem => []AllocatorsApart
<1>1. MInv /\ KInv => AllocatorsApart
  <2> SUFFICES ASSUME MInv, KInv, NEW i \in 1 .. Len(lent), NEW j \in 1 .. Len(blocks)
               PROVE  lent[i].addr + lent[i].size <= blocks[j].addr
    BY DEF AllocatorsApart
  <2>1. lent # <<>> /\ heap.offset \in 0 .. HeapSize
    BY DEF MInv, HeapReady, LentBelowOffset
  <2>2. lent[i] \in Lent
    BY LentType DEF MInv, LentBelowOffset
  <2>3. lent[i].addr + lent[i].size <= MinPhysical /\ lent[i].addr + lent[i].size \in Nat
    BY <2>1, <2>2, HeapAssumption, WidthAssumption, SMTT(30) DEF MInv, LentBelowOffset, Lent
  <2>4. blocks[j].addr \in Nat /\ blocks[j].size \in Nat \ {0} /\ base \in Nat
    BY BlockType, SMTT(30) DEF KInv, KTypeOK
  <2>5. base <= blocks[j].addr /\ capacity > 0
    <3>1. base <= blocks[j].addr /\ blocks[j].addr + blocks[j].size <= base + offset
      BY DEF KInv, BlocksBelowOffset
    <3>2. offset <= capacity /\ offset \in Nat /\ capacity \in Nat
      BY DEF KInv, KTypeOK, RegionPaged
    <3> QED  BY <2>4, <3>1, <3>2
  <2>6. PICK n \in 1 .. Len(map) : MinPhysical <= map[n].base /\ map[n].base <= base
    BY <2>5 DEF KInv, RegionIsMemory
  <2>7. map[n] \in Entries /\ map[n].base \in Nat
    <3>1. map \in Seq(Entries)
      BY DEF KInv, KTypeOK
    <3>2. map[n] \in Entries
      <4> HIDE DEF Entries
      <4> QED  BY <2>6, <3>1
    <3> QED  BY <3>2 DEF Entries
  <2> QED  BY <2>3, <2>4, <2>5, <2>6, <2>7, WidthAssumption
<1> QED  BY <1>1, MemInvariance, PTL
==============================================================================
