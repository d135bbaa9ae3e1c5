---------------------------- MODULE CmdVideoProofs ---------------------------
(***************************************************************************)
(* Proofs about CmdVideo, for every set of video BIOSes, every memory map  *)
(* and every argument typed.  The properties hold together: the record of  *)
(* the mode sizes the buffers, so FrameFits needs RecordedIsShown, and     *)
(* which modes the adapter can be in bounds the bytes of a frame.          *)
(*                                                                         *)
(* That the colours arrive is arithmetic: powers of two up to 32 bits, the *)
(* fields of a word that do not overlap and come back from it, and the     *)
(* palette of mode 13h, which gives back the index it was made of.         *)
(***************************************************************************)
EXTENDS CmdVideo, MemoryProofs, WellFoundedInduction

\* The mode on the screen is one of three, a VBE mode the best for what was
\* asked for last.
ListedMode == \E i \in Best(asked[1], asked[2], asked[3]) : adapter = bios.list[i].mode
AdapterMode == adapter = Text \/ adapter = Vga13 \/ ListedMode

\* Without the trampoline no mode is ever switched.
StuckInText == ~rmReady => current = Zero /\ adapter = Text

Starting ==
  /\ step = "boot" => adapter = Text
  /\ step \in {"boot", "kalloc"} => last = "none"

\* Past its first tests the bridge works on the mode that is on the screen, and
\* then has the colour buffer.
BridgeHas(i) == blocks[i].addr = pending /\ BufferBytes(current) <= blocks[i].size
Bridging ==
  /\ step \in {"colour", "depth", "frame"} => rmReady /\ current.kind # "text"
  /\ step = "depth" => \E i \in 1 .. Len(blocks) : BridgeHas(i)

Screen == bios \in Bioses /\ rmReady \in BOOLEAN /\ AdapterMode /\ StuckInText

VInv ==
  /\ Screen /\ Starting
  /\ RecordedIsShown /\ TextComesBack
  /\ Bridging /\ FrameFits

------------------------------------------------------------------------------
(* Modes. *)

\* A mode the loop keeps is one of the BIOS's.
LEMMA BestListed ==
  ASSUME bios \in Bioses, NEW width, NEW height, NEW bpp, NEW i \in Best(width, height, bpp)
  PROVE  /\ i \in 1 .. Len(bios.list) /\ i \in Listed
         /\ bios.list[i].mode.kind = "vbe" /\ FrameFitsIn32(bios.list[i].mode)
<1>1. i \in Listed
  BY DEF Best, Candidates
<1>2. Len(bios.list) \in Nat /\ MaxModes \in Nat
  BY BiosAssumption
<1>3. i \in 1 .. Len(bios.list)
  BY <1>1, <1>2 DEF Listed
<1> QED  BY <1>1, <1>3, BiosAssumption

\* Whatever is not text has a frame whose bytes the bridge counts right.
LEMMA FrameBytes ==
  ASSUME bios \in Bioses, AdapterMode, adapter.kind # "text"
  PROVE  BufferBytes(adapter) = adapter.width * adapter.height * 4
         /\ BufferBytes(adapter) \in 0 .. W32 - 1
<1>1. FrameFitsIn32(adapter)
  <2>1. CASE adapter = Text
    BY <2>1 DEF Text, Mode
  <2>2. CASE adapter = Vga13
    BY <2>2, BiosAssumption
  <2>3. CASE ListedMode
    BY <2>3, BestListed DEF ListedMode
  <2> QED  BY <2>1, <2>2, <2>3 DEF AdapterMode
<1> DEFINE n == adapter.width * adapter.height * 4
<1>2. n \in Nat /\ n < W32
  BY <1>1 DEF FrameFitsIn32
<1>3. n % W32 = n
  <2> HIDE DEF n
  <2> QED  BY <1>2, NoWrap32
<1>4. BufferBytes(adapter) = n
  BY <1>3 DEF BufferBytes
<1>5. n \in 0 .. W32 - 1
  <2> HIDE DEF n
  <2> QED  BY <1>2, WidthAssumption
<1> QED  BY <1>4, <1>5
------------------------------------------------------------------------------
(* Mode switches. *)

\* The best modes depend on the BIOS only.
LEMMA BestStays ==
  ASSUME bios' = bios, NEW width, NEW height, NEW bpp
  PROVE  Best(width, height, bpp)' = Best(width, height, bpp)
<1>1. Listed' = Listed
  BY DEF Listed
<1>2. Candidates(width, height, bpp)' = Candidates(width, height, bpp)
  BY <1>1 DEF Candidates, Usable, Score
<1> QED  BY <1>2 DEF Best, Score

\* Nothing that leaves the adapter and the request alone changes what is on.
LEMMA SameScreen ==
  ASSUME Screen, bios' = bios, rmReady' = rmReady, adapter' = adapter, asked' = asked,
         current' = current
  PROVE  Screen'
<1>1. CASE ListedMode
  <2>1. ListedMode'
    BY <1>1, BestStays DEF ListedMode
  <2> QED  BY <2>1 DEF Screen, AdapterMode, StuckInText
<1>2. CASE ~ListedMode
  BY <1>2 DEF Screen, AdapterMode, StuckInText
<1> QED  BY <1>1, <1>2

LEMMA TextScreen ==
  ASSUME Screen, NEW ok \in BOOLEAN, SetText(ok)
  PROVE  /\ Screen' /\ bios' = bios /\ rmReady' = rmReady /\ adapter' = Text
         /\ rmReady => current' = adapter'
<1>1. bios' = bios /\ rmReady' = rmReady /\ asked' = asked /\ ok = rmReady
  BY DEF SetText
<1>2. CASE ok
  <2>1. adapter' = Text /\ current' = Text
    BY <1>2 DEF SetText, BiosSwitches
  <2> QED  BY <1>1, <1>2, <2>1 DEF Screen, AdapterMode, StuckInText
<1>3. CASE ~ok
  <2>1. adapter' = adapter /\ current' = current
    BY <1>3 DEF SetText
  <2>2. Screen'
    BY <1>1, <2>1, SameScreen
  <2> QED  BY <1>1, <1>3, <2>1, <2>2 DEF Screen, StuckInText
<1> QED  BY <1>2, <1>3

LEMMA Vga13Screen ==
  ASSUME Screen, rmReady => current = adapter, NEW ok \in BOOLEAN, SetVga13(ok)
  PROVE  Screen' /\ bios' = bios /\ rmReady' = rmReady /\ (rmReady => current' = adapter')
<1>1. bios' = bios /\ rmReady' = rmReady /\ asked' = asked /\ ok = rmReady
  BY DEF SetVga13
<1>2. CASE ok
  <2>1. adapter' = Vga13 /\ current' = Vga13
    BY <1>2 DEF SetVga13
  <2> QED  BY <1>1, <1>2, <2>1 DEF Screen, AdapterMode, StuckInText
<1>3. CASE ~ok
  <2>1. adapter' = adapter /\ current' = current
    BY <1>3 DEF SetVga13
  <2> QED  BY <1>1, <2>1, SameScreen
<1> QED  BY <1>2, <1>3

LEMMA VbeScreen ==
  ASSUME Screen, rmReady => current = adapter, NEW ok \in BOOLEAN,
         NEW width, NEW height, NEW bpp, SetVbe(width, height, bpp, ok)
  PROVE  Screen' /\ bios' = bios /\ rmReady' = rmReady /\ (rmReady => current' = adapter')
<1>1. bios' = bios /\ rmReady' = rmReady
  BY DEF SetVbe
<1>2. CASE ok
  <2>1. PICK m \in Found(width, height, bpp) :
          adapter' = m /\ current' = m /\ asked' = <<width, height, bpp>>
    BY <1>2 DEF SetVbe, BiosSwitches
  <2>2. rmReady
    BY <2>1 DEF Found
  <2>3. PICK i \in Best(width, height, bpp) : m = bios.list[i].mode
    BY <2>1, <2>2 DEF Found
  <2>4. /\ asked'[1] = width /\ asked'[2] = height /\ asked'[3] = bpp
        /\ i \in Best(width, height, bpp)'
    BY <1>1, <2>1, <2>3, BestStays
  <2>5. ListedMode'
    BY <1>1, <2>1, <2>3, <2>4 DEF ListedMode
  <2> QED  BY <1>1, <2>1, <2>2, <2>5 DEF Screen, AdapterMode, StuckInText
<1>3. CASE ~ok
  <2>1. adapter' = adapter /\ current' = current /\ asked' = asked
    BY <1>3 DEF SetVbe
  <2> QED  BY <1>1, <2>1, SameScreen
<1> QED  BY <1>2, <1>3

LEMMA ApplyModeScreen ==
  ASSUME Screen, rmReady => current = adapter, NEW spec, NEW ok \in BOOLEAN,
         ApplyMode(spec, ok)
  PROVE  Screen' /\ bios' = bios /\ rmReady' = rmReady /\ (rmReady => current' = adapter')
<1>1. CASE UNCHANGED videoVars
  BY <1>1, SameScreen DEF videoVars
<1> QED  BY <1>1, TextScreen, Vga13Screen, VbeScreen DEF ApplyMode

------------------------------------------------------------------------------
(* The invariant. *)

LEMMA InitVInv == InitCmd => VInv
<1> SUFFICES ASSUME InitCmd PROVE VInv
  OBVIOUS
<1>1. /\ bios \in Bioses /\ rmReady \in BOOLEAN /\ current = Zero /\ adapter = Text
      /\ step = "boot" /\ last = "none"
  BY DEF InitCmd, InitVideo
<1> QED  BY <1>1 DEF VInv, Screen, AdapterMode, StuckInText, Starting, RecordedIsShown,
                     TextComesBack, Bridging, FrameFits

\* Input and the stutter leave all that matters alone.
LEMMA QuietVInv ==
  ASSUME VInv, UNCHANGED <<kvars, videoVars, bridgeVars, step, last>>
  PROVE  VInv'
<1>1. /\ bios' = bios /\ rmReady' = rmReady /\ adapter' = adapter /\ asked' = asked
      /\ current' = current /\ blocks' = blocks /\ pending' = pending /\ ready' = ready
      /\ shape' = shape /\ colour' = colour /\ depth' = depth /\ step' = step /\ last' = last
  BY DEF kvars, videoVars, bridgeVars
<1>2. Screen'
  BY <1>1, SameScreen DEF VInv
<1> QED  BY <1>1, <1>2 DEF VInv, Starting, RecordedIsShown, TextComesBack, Bridging, BridgeHas,
                           BufferBytes, FrameFits

LEMMA KernelMainVInv == VInv /\ KernelMain => VInv'
<1> SUFFICES ASSUME VInv, KernelMain PROVE VInv'
  OBVIOUS
<1>1. last' = last /\ last = "none" /\ step \in {"boot", "kalloc"}
  BY DEF KernelMain, VInv, Starting
<1>2. bios' = bios /\ rmReady' = rmReady /\ adapter' = adapter /\ asked' = asked
  BY DEF KernelMain, VideoInit, videoVars
<1>3. step' \in {"kalloc", "shell"}
  BY <1>1 DEF KernelMain
<1>4. Screen' /\ (rmReady => current' = adapter')
  <2>1. CASE step = "boot"
    <3>1. current' = IF rmReady THEN Text ELSE current
      BY <2>1 DEF KernelMain, VideoInit
    <3>2. adapter = Text
      BY <2>1 DEF VInv, Starting
    <3> QED  BY <1>2, <3>1, <3>2 DEF VInv, Screen, AdapterMode, StuckInText
  <2>2. CASE step = "kalloc"
    <3>1. current' = current
      BY <2>2 DEF KernelMain, videoVars
    <3> QED  BY <1>2, <2>2, <3>1, SameScreen DEF VInv, RecordedIsShown
  <2> QED  BY <1>1, <2>1, <2>2
<1> QED  BY <1>1, <1>2, <1>3, <1>4 DEF VInv, Starting, RecordedIsShown, TextComesBack, Bridging,
                                       FrameFits

LEMMA CallVInv ==
  ASSUME VInv, NEW spec, CallMode(spec) \/ \E alone \in BOOLEAN : CallDemo(spec, alone)
  PROVE  VInv'
<1>1. PICK ok \in BOOLEAN :
        /\ step = "shell" /\ ApplyMode(spec, ok)
        /\ (step' = "shell" /\ last' = "mode") \/ step' \in {"bridge", "failed"}
  BY DEF CallMode, CallDemo
<1>2. rmReady => current = adapter
  BY <1>1 DEF VInv, RecordedIsShown
<1>3. Screen' /\ bios' = bios /\ rmReady' = rmReady /\ (rmReady => current' = adapter')
  BY <1>1, <1>2, ApplyModeScreen DEF VInv
<1> QED  BY <1>1, <1>3 DEF VInv, Starting, RecordedIsShown, TextComesBack, Bridging, FrameFits

\* Both ends of gfxdemo call video_set_text.
LEMMA EndVInv == VInv /\ (DemoFails \/ DemoLeaves) => VInv'
<1> SUFFICES ASSUME VInv, DemoFails \/ DemoLeaves PROVE VInv'
  OBVIOUS
<1>1. PICK ok \in BOOLEAN : SetText(ok)
  BY DEF DemoFails, DemoLeaves
<1>2. step' = "shell" /\ last' = "gfxdemo"
  BY DEF DemoFails, DemoLeaves
<1>3. Screen' /\ rmReady' = rmReady /\ adapter' = Text /\ (rmReady => current' = adapter')
  BY <1>1, TextScreen DEF VInv
<1>4. Text.kind = "text"
  BY DEF Text, Mode
<1> QED  BY <1>2, <1>3, <1>4 DEF VInv, Starting, RecordedIsShown, TextComesBack, Bridging, FrameFits

LEMMA FrameVInv == VInv /\ DemoFrame => VInv'
<1> SUFFICES ASSUME VInv, DemoFrame PROVE VInv'
  OBVIOUS
<1>1. /\ step = "frame" /\ step' \in {"frame", "leave"}
      /\ UNCHANGED <<kvars, videoVars, ready, shape, colour, depth>>
  BY DEF DemoFrame, DrawFrame, bridgeVars
<1>2. /\ bios' = bios /\ rmReady' = rmReady /\ adapter' = adapter /\ asked' = asked
      /\ current' = current /\ blocks' = blocks /\ ready' = ready
      /\ shape' = shape /\ colour' = colour /\ depth' = depth
  BY <1>1 DEF kvars, videoVars
<1>3. Screen'
  BY <1>2, SameScreen DEF VInv
<1> QED  BY <1>1, <1>2, <1>3 DEF VInv, Starting, RecordedIsShown, TextComesBack, Bridging, FrameFits

------------------------------------------------------------------------------
(* gfx_bridge_init. *)

\* kalloc_pages for the bridge: a block of the size asked for, or NULL.
LEMMA GrantedBlock ==
  ASSUME KInv, NEW size, KallocPages(size), Granted(size) # 0
  PROVE  /\ Len(blocks) \in Nat /\ Len(blocks') = Len(blocks) + 1
         /\ \A i \in 1 .. Len(blocks) : blocks'[i] = blocks[i]
         /\ blocks'[Len(blocks) + 1].addr = Granted(size)
         /\ blocks'[Len(blocks) + 1].size = size
<1> DEFINE blk == [addr |-> base + offset, size |-> size]
           T   == [addr : 0 .. W32 - 1, size : 1 .. W32 - 1]
<1>1. Fits(size) /\ Granted(size) = base + offset
  BY DEF Granted
<1>2. blocks' = Append(blocks, blk)
  BY <1>1 DEF KallocPages
<1>3. blocks \in Seq(T)
  BY DEF KInv, KTypeOK
<1>4. /\ Len(blocks) \in Nat /\ Len(blocks') = Len(blocks) + 1
      /\ \A i \in 1 .. Len(blocks) : blocks'[i] = blocks[i]
      /\ blocks'[Len(blocks) + 1] = blk
  <2> HIDE DEF blk, T
  <2> QED  BY <1>2, <1>3
<1> QED  BY <1>1, <1>4

\* The bytes the bridge asks for are those of the mode on the screen.
LEMMA BridgeAsks ==
  ASSUME VInv, step \in {"colour", "depth"}
  PROVE  /\ rmReady /\ current = adapter /\ current.kind # "text"
         /\ BufferBytes(current) = current.width * current.height * 4
         /\ BufferBytes(current) \in 0 .. W32 - 1
<1>1. rmReady /\ current = adapter /\ current.kind # "text"
  BY DEF VInv, Bridging, RecordedIsShown
<1> QED  BY <1>1, FrameBytes DEF VInv, Screen

LEMMA BridgeVInv == KInv /\ VInv /\ InitializeBridge => VInv'
<1> SUFFICES ASSUME KInv, VInv, InitializeBridge PROVE VInv'
  OBVIOUS
<1>1. PICK ok \in BOOLEAN :
        \/ step = "bridge" /\ BridgeStart(ok) /\ step' = IF ok THEN "colour" ELSE "failed"
        \/ step = "colour" /\ BridgeColour(ok) /\ step' = IF ok THEN "depth" ELSE "failed"
        \/ step = "depth" /\ BridgeDepth(ok) /\ step' = IF ok THEN "frame" ELSE "failed"
  BY DEF InitializeBridge
<1>2. /\ bios' = bios /\ rmReady' = rmReady /\ adapter' = adapter /\ asked' = asked
      /\ current' = current
  BY <1>1 DEF BridgeStart, BridgeColour, BridgeDepth, videoVars
<1>3. Screen' /\ RecordedIsShown' /\ Starting' /\ TextComesBack'
  <2>1. Screen'
    BY <1>2, SameScreen DEF VInv
  <2> QED  BY <1>1, <1>2, <2>1 DEF VInv, RecordedIsShown, Starting, TextComesBack
<1>4. CASE step' = "failed"
  BY <1>3, <1>4 DEF VInv, Bridging, FrameFits
<1>5. CASE step = "bridge" /\ step' = "colour"
  <2>1. current.kind # "text"
    BY <1>1, <1>5 DEF BridgeStart
  <2>2. rmReady
    BY <2>1 DEF VInv, Screen, StuckInText, Zero, Mode
  <2> QED  BY <1>2, <1>3, <1>5, <2>1, <2>2 DEF VInv, Bridging, FrameFits
<1>6. CASE step = "colour" /\ step' = "depth"
  <2>1. /\ Granted(BufferBytes(current)) # 0 /\ pending' = Granted(BufferBytes(current))
        /\ KallocPages(BufferBytes(current))
    BY <1>1, <1>6 DEF BridgeColour
  <2>2. BufferBytes(current)' = BufferBytes(current)
    BY <1>2 DEF BufferBytes
  <2>3. BufferBytes(current) \in Nat
    BY <1>6, BridgeAsks, WidthAssumption
  <2>4. \E i \in 1 .. Len(blocks') : BridgeHas(i)'
    <3>1. PICK size : size = BufferBytes(current)
      OBVIOUS
    <3>2. KallocPages(size) /\ Granted(size) # 0 /\ pending' = Granted(size)
      BY <2>1, <3>1
    <3>3. PICK i : i = Len(blocks) + 1
      OBVIOUS
    <3>4. /\ i \in 1 .. Len(blocks')
          /\ blocks'[i].addr = pending' /\ blocks'[i].size = BufferBytes(current)
      BY <3>1, <3>2, <3>3, GrantedBlock
    <3>5. BufferBytes(current)' <= blocks'[i].size
      BY <2>2, <2>3, <3>4
    <3> QED  BY <3>4, <3>5 DEF BridgeHas
  <2>5. Bridging'
    BY <1>2, <1>6, <2>4, BridgeAsks DEF Bridging
  <2> QED  BY <1>3, <1>6, <2>5 DEF VInv, FrameFits
<1>7. CASE step = "depth" /\ step' = "frame"
  <2>1. ok
    BY <1>1, <1>7
  <2>2. /\ Granted(BufferBytes(current)) # 0 /\ KallocPages(BufferBytes(current))
        /\ ready' = TRUE /\ shape' = current /\ colour' = pending
        /\ depth' = Granted(BufferBytes(current))
    BY <1>1, <1>7, <2>1 DEF BridgeDepth
  <2>3. PICK i \in 1 .. Len(blocks) : BridgeHas(i)
    BY <1>7 DEF VInv, Bridging
  <2>4. /\ current = adapter /\ current.kind # "text"
        /\ BufferBytes(current) = current.width * current.height * 4
        /\ BufferBytes(current) \in Nat /\ rmReady
    BY <1>7, BridgeAsks, WidthAssumption
  <2>5. /\ Len(blocks) \in Nat /\ Len(blocks') = Len(blocks) + 1 /\ blocks'[i] = blocks[i]
        /\ blocks'[Len(blocks) + 1].addr = depth'
        /\ blocks'[Len(blocks) + 1].size = BufferBytes(current)
    <3>1. PICK size : size = BufferBytes(current)
      OBVIOUS
    <3>2. KallocPages(size) /\ Granted(size) # 0 /\ depth' = Granted(size)
      BY <2>2, <3>1
    <3> QED  BY <2>3, <3>1, <3>2, GrantedBlock
  <2> DEFINE n == shape'.width * shape'.height * 4
  <2>6. n = BufferBytes(current)
    BY <2>2, <2>4
  <2>7. /\ i \in 1 .. Len(blocks') /\ Len(blocks) + 1 \in 1 .. Len(blocks')
        /\ i < Len(blocks) + 1
        /\ blocks'[i].addr = colour' /\ blocks'[Len(blocks) + 1].addr = depth'
        /\ n <= blocks'[i].size /\ n <= blocks'[Len(blocks) + 1].size
    <3> HIDE DEF n
    <3> QED  BY <2>2, <2>3, <2>4, <2>5, <2>6 DEF BridgeHas
  <2>8. FrameFits'
    BY <1>2, <2>2, <2>4, <2>7 DEF FrameFits
  <2>9. Bridging'
    BY <1>2, <1>7, <2>4 DEF Bridging
  <2> QED  BY <1>3, <2>8, <2>9 DEF VInv
<1> QED  BY <1>1, <1>4, <1>5, <1>6, <1>7

LEMMA NextVInv == KInv /\ VInv /\ [NextCmd]_videoMachine => VInv'
<1> SUFFICES ASSUME KInv, VInv, [NextCmd]_videoMachine PROVE VInv'
  OBVIOUS
<1>1. CASE UNCHANGED videoMachine
  BY <1>1, QuietVInv DEF videoMachine, cmdVars
<1>2. CASE KeyTyped \/ ByteSent \/ ShellReads
  BY <1>2, QuietVInv DEF KeyTyped, ByteSent, ShellReads
<1> QED  BY <1>1, <1>2, KernelMainVInv, CallVInv, BridgeVInv, EndVInv, FrameVInv DEF NextCmd, Demo

------------------------------------------------------------------------------
(* The allocator in the composition. *)

LEMMA PagesKInv ==
  ASSUME KInv, NEW size \in 0 .. W32 - 1, KallocPages(size)
  PROVE  KInv'
<1>1. CASE Fits(size)
  BY <1>1, GrantKInv
<1>2. CASE ~Fits(size)
  BY <1>2, QuietKInv DEF KallocPages, kvars
<1> QED  BY <1>1, <1>2

LEMMA NextCmdKInv == KInv /\ VInv /\ [NextCmd]_videoMachine => KInv'
<1> SUFFICES ASSUME KInv, VInv, [NextCmd]_videoMachine PROVE KInv'
  OBVIOUS
<1>1. CASE KernelMain
  <2>1. CASE UNCHANGED kvars
    BY <2>1, QuietKInv
  <2>2. CASE \E m \in Maps : KallocInit(m)
    BY <2>2, CallKInv
  <2> QED  BY <1>1, <2>1, <2>2, ScanKInv, FinishKInv DEF KernelMain
<1>2. CASE InitializeBridge
  <2>1. CASE UNCHANGED kvars
    BY <2>1, QuietKInv
  <2>2. CASE step \in {"colour", "depth"} /\ KallocPages(BufferBytes(current))
    <3>1. PICK size \in 0 .. W32 - 1 : size = BufferBytes(current)
      BY <2>2, BridgeAsks
    <3>2. KallocPages(size)
      BY <2>2, <3>1
    <3> QED  BY <3>1, <3>2, PagesKInv
  <2> QED  BY <1>2, <2>1, <2>2 DEF InitializeBridge, BridgeStart, BridgeColour, BridgeDepth
<1>3. CASE ~ KernelMain /\ ~ InitializeBridge
  <2>1. UNCHANGED kvars
    BY <1>3 DEF NextCmd, CallMode, CallDemo, Demo, DemoFails, DemoFrame, DrawFrame, DemoLeaves,
               KeyTyped, ByteSent, ShellReads, videoMachine
  <2> QED  BY <2>1, QuietKInv
<1> QED  BY <1>1, <1>2, <1>3

LEMMA CmdInvariance == SpecCmd => [](VInv /\ KInv)
<1>1. InitCmd => VInv /\ KInv
  BY InitVInv, InitKInv DEF InitCmd
<1>2. VInv /\ KInv /\ [NextCmd]_videoMachine => (VInv /\ KInv)'
  BY NextVInv, NextCmdKInv
<1> QED  BY <1>1, <1>2, PTL DEF SpecCmd

------------------------------------------------------------------------------
(* Powers of two, up to the width of a pixel.                              *)

\* A set of naturals has a least element.
LEMMA Least ==
  ASSUME NEW T, T \subseteq Nat, T # {}
  PROVE  \E x \in T : \A y \in T : x <= y
<1> DEFINE R == OpToRel(<, Nat)
<1>1. IsWellFoundedOn(R, Nat)
  BY NatLessThanWellFounded
<1>2. \A x, y \in Nat : <<y, x>> \in R <=> y < x
  BY DEF OpToRel
<1> HIDE DEF R
<1>3. PICK x \in T : \A y \in T : ~ (<<y, x>> \in R)
  BY <1>1, WFMin
<1>4. \A y \in T : ~(y < x)
  BY <1>2, <1>3
<1> QED  BY <1>3, <1>4

\* One bit more doubles the number of values.
LEMMA PowerStep == ASSUME NEW n \in 0 .. 31 PROVE 2 ^ (n + 1) = 2 * 2 ^ n
<1>0. CASE n = 0  BY <1>0
<1>1. CASE n = 1  BY <1>1
<1>2. CASE n = 2  BY <1>2
<1>3. CASE n = 3  BY <1>3
<1>4. CASE n = 4  BY <1>4
<1>5. CASE n = 5  BY <1>5
<1>6. CASE n = 6  BY <1>6
<1>7. CASE n = 7  BY <1>7
<1>8. CASE n = 8  BY <1>8
<1>9. CASE n = 9  BY <1>9
<1>10. CASE n = 10  BY <1>10
<1>11. CASE n = 11  BY <1>11
<1>12. CASE n = 12  BY <1>12
<1>13. CASE n = 13  BY <1>13
<1>14. CASE n = 14  BY <1>14
<1>15. CASE n = 15  BY <1>15
<1>16. CASE n = 16  BY <1>16
<1>17. CASE n = 17  BY <1>17
<1>18. CASE n = 18  BY <1>18
<1>19. CASE n = 19  BY <1>19
<1>20. CASE n = 20  BY <1>20
<1>21. CASE n = 21  BY <1>21
<1>22. CASE n = 22  BY <1>22
<1>23. CASE n = 23  BY <1>23
<1>24. CASE n = 24  BY <1>24
<1>25. CASE n = 25  BY <1>25
<1>26. CASE n = 26  BY <1>26
<1>27. CASE n = 27  BY <1>27
<1>28. CASE n = 28  BY <1>28
<1>29. CASE n = 29  BY <1>29
<1>30. CASE n = 30  BY <1>30
<1>31. CASE n = 31  BY <1>31
<1> QED
  BY <1>0, <1>1, <1>2, <1>3, <1>4, <1>5, <1>6, <1>7, <1>8, <1>9, <1>10,
     <1>11, <1>12, <1>13, <1>14, <1>15, <1>16, <1>17, <1>18, <1>19, <1>20, <1>21,
     <1>22, <1>23, <1>24, <1>25, <1>26, <1>27, <1>28, <1>29, <1>30, <1>31

\* Powers are positive, and the bits of a sum multiply.
LEMMA PowerPositive == \A n \in 0 .. 32 : 2 ^ n \in Nat \ {0}
<1> DEFINE T == {n \in 0 .. 32 : 2 ^ n \notin Nat \ {0}}
<1>1. SUFFICES ASSUME T # {} PROVE FALSE
  OBVIOUS
<1>2. T \subseteq Nat
  OBVIOUS
<1>3. PICK m \in T : \A y \in T : m <= y
  <2> HIDE DEF T
  <2> QED  BY <1>1, <1>2, Least
<1>4. m # 0
  <2> SUFFICES ASSUME m = 0 PROVE 2 ^ m = 1
    BY <1>3
  <2> QED  OBVIOUS
<1>5. PICK k : k = m - 1
  OBVIOUS
<1>6. k \in 0 .. 31 /\ k \in 0 .. 32 /\ k + 1 = m /\ ~(m <= k)
  BY <1>3, <1>4, <1>5
<1>7. k \notin T
  <2> HIDE DEF T
  <2> QED  BY <1>3, <1>6
<1>8. 2 ^ k \in Nat \ {0} /\ 2 ^ (k + 1) = 2 * 2 ^ k
  BY <1>6, <1>7, PowerStep
<1> QED  BY <1>3, <1>6, <1>8

LEMMA PowerSum ==
  ASSUME NEW a \in 0 .. 32
  PROVE  \A b \in 0 .. 32 : a + b <= 32 => 2 ^ (a + b) = 2 ^ a * 2 ^ b
<1> DEFINE T == {b \in 0 .. 32 : a + b <= 32 /\ 2 ^ (a + b) # 2 ^ a * 2 ^ b}
<1>1. SUFFICES ASSUME T # {} PROVE FALSE
  OBVIOUS
<1>2. T \subseteq Nat
  OBVIOUS
<1>3. PICK m \in T : \A y \in T : m <= y
  <2> HIDE DEF T
  <2> QED  BY <1>1, <1>2, Least
<1>4. m # 0
  <2> SUFFICES ASSUME m = 0 PROVE 2 ^ (a + m) = 2 ^ a * 2 ^ m
    BY <1>3
  <2>1. 2 ^ m = 1
    OBVIOUS
  <2>2. 2 ^ a \in Nat /\ a + m = a
    BY PowerPositive
  <2> QED  BY <2>1, <2>2
<1>5. PICK k : k = m - 1
  OBVIOUS
<1>6. /\ k \in 0 .. 31 /\ k \in 0 .. 32 /\ k \notin T /\ k + 1 = m /\ m \in 0 .. 32
      /\ a + k \in 0 .. 31 /\ (a + k) + 1 = a + m /\ a + m <= 32
  BY <1>3, <1>4, <1>5
<1>7. 2 ^ (a + k) = 2 ^ a * 2 ^ k
  BY <1>6
<1>8. 2 ^ ((a + k) + 1) = 2 * 2 ^ (a + k) /\ 2 ^ (k + 1) = 2 * 2 ^ k
  BY <1>6, PowerStep
<1>9. 2 ^ (a + m) = 2 * 2 ^ (a + k) /\ 2 ^ m = 2 * 2 ^ k
  BY <1>6, <1>8
<1>10. PICK x \in Nat, y \in Nat : x = 2 ^ a /\ y = 2 ^ k
  BY <1>6, PowerPositive
<1>11. 2 * (x * y) = x * (2 * y)
  BY <1>10
<1>12. 2 ^ (a + m) = 2 ^ a * 2 ^ m
  BY <1>7, <1>9, <1>10, <1>11
<1> QED  BY <1>3, <1>12

\* More bits, more values.
LEMMA PowerDivides ==
  ASSUME NEW a \in 0 .. 32, NEW b \in 0 .. 32, a <= b
  PROVE  \E q \in Nat \ {0} : 2 ^ b = 2 ^ a * q /\ 2 ^ a <= 2 ^ b
<1>1. PICK c : c = b - a
  OBVIOUS
<1>2. c \in 0 .. 32 /\ a + c = b /\ a + c <= 32
  BY <1>1
<1>3. \A d \in 0 .. 32 : a + d <= 32 => 2 ^ (a + d) = 2 ^ a * 2 ^ d
  BY PowerSum
<1>4. 2 ^ (a + c) = 2 ^ a * 2 ^ c
  BY <1>2, <1>3
<1>5. PICK x \in Nat \ {0}, q \in Nat \ {0} : x = 2 ^ a /\ q = 2 ^ c
  BY <1>2, PowerPositive
<1>6. x <= x * q
  BY <1>5
<1> QED  BY <1>2, <1>4, <1>5, <1>6

------------------------------------------------------------------------------
(* Channels of a pixel. *)

\* narrow_channel keeps as many of the high bits as the field has.
LEMMA NarrowKeeps ==
  ASSUME NEW v \in 0 .. 255, NEW s \in 1 .. 8
  PROVE  /\ Narrow(v, s) \in 0 .. 2 ^ s - 1
         /\ 2 ^ (8 - s) \in Nat
         /\ Narrow(v, s) * 2 ^ (8 - s) <= v
         /\ v < Narrow(v, s) * 2 ^ (8 - s) + 2 ^ (8 - s)
<1>1. CASE s = 8
  <2>1. Narrow(v, s) = v
    BY <1>1 DEF Narrow
  <2>2. 2 ^ s = 256
    BY <1>1
  <2>3. 2 ^ (8 - s) = 1
    <3>1. 8 - s = 0
      BY <1>1
    <3>2. ASSUME NEW z, z = 0 PROVE 2 ^ z = 1
      BY <3>2
    <3> QED  BY <3>1, <3>2
  <2> QED  BY <2>1, <2>2, <2>3
<1>2. CASE s # 8
  <2>1. PICK k : k = 8 - s
    OBVIOUS
  <2>2. k \in 0 .. 32 /\ s \in 0 .. 32 /\ s + k = 8 /\ s + k <= 32
    BY <2>1
  <2>3. \A d \in 0 .. 32 : s + d <= 32 => 2 ^ (s + d) = 2 ^ s * 2 ^ d
    BY <2>2, PowerSum
  <2>4. 2 ^ (s + k) = 2 ^ s * 2 ^ k
    BY <2>2, <2>3
  <2>5. 2 ^ (s + k) = 256
    <3>1. ASSUME NEW z, z = 8 PROVE 2 ^ z = 256
      BY <3>1
    <3> QED  BY <2>2, <3>1
  <2>6. PICK e \in Nat \ {0}, d \in Nat \ {0} : e = 2 ^ s /\ d = 2 ^ k
    BY <2>2, PowerPositive
  <2>7. e * d = 256
    BY <2>4, <2>5, <2>6
  <2>8. v = d * (v \div d) + (v % d) /\ v \div d \in Nat /\ v % d \in 0 .. d - 1
    <3>1. v \in Nat
      OBVIOUS
    <3> QED  BY <2>6, <3>1, DivMod
  <2>9. PICK q \in Nat, r \in 0 .. d - 1 : q = v \div d /\ r = v % d
    BY <2>8
  <2>10. v = d * q + r
    BY <2>8, <2>9
  <2>11. q < e
    <3> SUFFICES ASSUME q >= e PROVE FALSE
      BY <2>6, <2>9
    <3>1. d * q >= d * e
      BY <2>6, <2>9
    <3>2. d * e = 256
      BY <2>6, <2>7
    <3>3. d * q \in Nat /\ r \in Nat /\ v <= 255
      BY <2>6, <2>9
    <3> QED  BY <2>10, <3>1, <3>2, <3>3
  <2>12. Narrow(v, s) = q
    <3>1. Narrow(v, s) = v \div (2 ^ (8 - s))
      BY <1>2 DEF Narrow
    <3>2. 2 ^ (8 - s) = 2 ^ k
      BY <2>1
    <3> QED  BY <2>6, <2>9, <3>1, <3>2
  <2>13. q * d <= v /\ v < q * d + d
    <3>1. d * q = q * d /\ d * q \in Nat
      BY <2>6, <2>9
    <3>2. r \in Nat /\ r < d /\ d \in Nat
      BY <2>6, <2>9
    <3> QED  BY <2>10, <3>1, <3>2
  <2>14. 2 ^ (8 - s) = d
    <3>1. 2 ^ (8 - s) = 2 ^ k
      BY <2>1
    <3> QED  BY <2>6, <3>1
  <2> QED  BY <2>6, <2>9, <2>11, <2>12, <2>13, <2>14
<1> QED  BY <1>1, <1>2

\* A field that ends at bit b or below leaves room for one more step of its
\* lowest bit.
LEMMA FieldBelow ==
  ASSUME NEW p \in Nat, NEW s \in 1 .. 8, NEW b \in 0 .. 32, p + s <= b,
         NEW n \in 0 .. 2 ^ s - 1
  PROVE  n * 2 ^ p \in Nat /\ 2 ^ p \in Nat \ {0} /\ n * 2 ^ p + 2 ^ p <= 2 ^ b
<1>1. p \in 0 .. 32 /\ s \in 0 .. 32 /\ p + s \in 0 .. 32 /\ p + s <= 32
  OBVIOUS
<1>2. \A d \in 0 .. 32 : p + d <= 32 => 2 ^ (p + d) = 2 ^ p * 2 ^ d
  BY <1>1, PowerSum
<1>3. 2 ^ (p + s) = 2 ^ p * 2 ^ s
  BY <1>1, <1>2
<1>4. PICK x \in Nat \ {0}, y \in Nat \ {0} : x = 2 ^ p /\ y = 2 ^ s
  BY <1>1, PowerPositive
<1>5. 2 ^ (p + s) <= 2 ^ b
  <2>1. PICK q \in Nat \ {0} : 2 ^ b = 2 ^ (p + s) * q /\ 2 ^ (p + s) <= 2 ^ b
    BY <1>1, PowerDivides
  <2> QED  BY <2>1
<1>6. n * x + x <= x * y
  <2>1. n \in Nat /\ n + 1 <= y
    BY <1>4
  <2>2. x * (n + 1) <= x * y /\ x * (n + 1) = n * x + x
    BY <1>4, <2>1
  <2> QED  BY <2>2
<1>7. n * x \in Nat /\ x * y \in Nat /\ 2 ^ b \in Nat
  <2>1. n \in Nat
    BY <1>4
  <2>2. 2 ^ b \in Nat
    BY PowerPositive
  <2>3. n * x \in Nat /\ x * y \in Nat
    BY <1>4, <2>1
  <2> QED  BY <2>2, <2>3
<1> QED  BY <1>3, <1>4, <1>5, <1>6, <1>7

\* A field that starts at bit b or above is a multiple of the bit.
LEMMA FieldAbove ==
  ASSUME NEW p \in 0 .. 32, NEW b \in 0 .. 32, b <= p, NEW n \in Nat
  PROVE  \E x \in Nat : n * 2 ^ p = 2 ^ b * x
<1>1. PICK q \in Nat \ {0} : 2 ^ p = 2 ^ b * q
  BY PowerDivides
<1>2. PICK z \in Nat \ {0} : z = 2 ^ b
  BY PowerPositive
<1>3. n * (z * q) = z * (n * q) /\ n * q \in Nat
  BY <1>2
<1> QED  BY <1>1, <1>2, <1>3

\* Two fields, each a first bit and a number of bits, do not overlap.
Apart(p, s, q, t) == p + s <= q \/ q + t <= p

\* Three fields with what is in them, below bit b.
Pixel(b, p, s, n, q, t, m, r, u, l) ==
  /\ p \in Nat /\ s \in 1 .. 8 /\ p + s <= b /\ n \in 0 .. 2 ^ s - 1
  /\ q \in Nat /\ t \in 1 .. 8 /\ q + t <= b /\ m \in 0 .. 2 ^ t - 1
  /\ r \in Nat /\ u \in 1 .. 8 /\ r + u <= b /\ l \in 0 .. 2 ^ u - 1
  /\ Apart(p, s, q, t) /\ Apart(p, s, r, u) /\ Apart(q, t, r, u)

\* Two fields below bit b make a number below it.
LEMMA TwoBelow ==
  ASSUME NEW b \in 0 .. 32,
         NEW p \in Nat, NEW s \in 1 .. 8, p + s <= b, NEW n \in 0 .. 2 ^ s - 1,
         NEW q \in Nat, NEW t \in 1 .. 8, q + t <= b, NEW m \in 0 .. 2 ^ t - 1,
         Apart(p, s, q, t)
  PROVE  n * 2 ^ p + m * 2 ^ q \in 0 .. 2 ^ b - 1
<1>1. n * 2 ^ p \in Nat /\ 2 ^ p \in Nat \ {0} /\ n * 2 ^ p + 2 ^ p <= 2 ^ b
  BY FieldBelow
<1>2. m * 2 ^ q \in Nat /\ 2 ^ q \in Nat \ {0} /\ m * 2 ^ q + 2 ^ q <= 2 ^ b
  BY FieldBelow
<1>3. 2 ^ b \in Nat
  BY PowerPositive
<1>4. CASE p + s <= q
  <2>1. q \in 0 .. 32
    OBVIOUS
  <2>2. n * 2 ^ p + 2 ^ p <= 2 ^ q
    BY <1>4, <2>1, FieldBelow
  <2> QED  BY <1>1, <1>2, <1>3, <2>2
<1>5. CASE q + t <= p
  <2>1. p \in 0 .. 32
    OBVIOUS
  <2>2. m * 2 ^ q + 2 ^ q <= 2 ^ p
    BY <1>5, <2>1, FieldBelow
  <2> QED  BY <1>1, <1>2, <1>3, <2>2
<1> QED  BY <1>4, <1>5 DEF Apart

\* Two fields, seen from a third: what is above it and what is below.
LEMMA OthersAround ==
  ASSUME NEW b \in 0 .. 32, NEW p, NEW s, NEW n, NEW q, NEW t, NEW m, NEW r, NEW u, NEW l,
         Pixel(b, p, s, n, q, t, m, r, u, l)
  PROVE  \E x \in Nat : \E y \in 0 .. 2 ^ p - 1 :
           m * 2 ^ q + l * 2 ^ r = 2 ^ p * 2 ^ s * x + y
<1>0. /\ p \in Nat /\ s \in 1 .. 8 /\ p + s <= 32
      /\ q \in Nat /\ t \in 1 .. 8 /\ q + t <= 32 /\ m \in 0 .. 2 ^ t - 1
      /\ r \in Nat /\ u \in 1 .. 8 /\ r + u <= 32 /\ l \in 0 .. 2 ^ u - 1
      /\ Apart(p, s, q, t) /\ Apart(p, s, r, u) /\ Apart(q, t, r, u)
  BY DEF Pixel
<1>1. /\ p \in 0 .. 32 /\ s \in 0 .. 32 /\ p + s \in 0 .. 32 /\ q \in 0 .. 32 /\ r \in 0 .. 32
      /\ 32 \in 0 .. 32
  BY <1>0
<1>2. \A d \in 0 .. 32 : p + d <= 32 => 2 ^ (p + d) = 2 ^ p * 2 ^ d
  BY <1>0, <1>1, PowerSum
<1>3. 2 ^ (p + s) = 2 ^ p * 2 ^ s
  BY <1>0, <1>1, <1>2
<1>4. PICK w \in Nat \ {0}, z \in Nat \ {0} : w = 2 ^ (p + s) /\ z = 2 ^ p
  BY <1>1, PowerPositive
<1>5. m * 2 ^ q \in Nat /\ l * 2 ^ r \in Nat /\ m \in Nat /\ l \in Nat
  <2>1. m * 2 ^ q \in Nat
    BY <1>0, <1>1, FieldBelow
  <2>2. l * 2 ^ r \in Nat
    BY <1>0, <1>1, FieldBelow
  <2>3. m \in Nat /\ l \in Nat
    BY <1>0
  <2> QED  BY <2>1, <2>2, <2>3
<1>6. p + s <= q => \E x \in Nat : m * 2 ^ q = w * x
  <2> SUFFICES ASSUME p + s <= q PROVE \E x \in Nat : m * 2 ^ q = w * x
    OBVIOUS
  <2>1. \E x \in Nat : m * 2 ^ q = 2 ^ (p + s) * x
    BY <1>0, <1>1, <1>5, FieldAbove
  <2> QED  BY <1>4, <2>1
<1>7. p + s <= r => \E x \in Nat : l * 2 ^ r = w * x
  <2> SUFFICES ASSUME p + s <= r PROVE \E x \in Nat : l * 2 ^ r = w * x
    OBVIOUS
  <2>1. \E x \in Nat : l * 2 ^ r = 2 ^ (p + s) * x
    BY <1>0, <1>1, <1>5, FieldAbove
  <2> QED  BY <1>4, <2>1
<1>8. q + t <= p => m * 2 ^ q \in 0 .. z - 1
  <2> SUFFICES ASSUME q + t <= p PROVE m * 2 ^ q \in 0 .. z - 1
    OBVIOUS
  <2>1. m * 2 ^ q + 2 ^ q <= z /\ 2 ^ q \in Nat \ {0}
    BY <1>0, <1>1, <1>4, FieldBelow
  <2> QED  BY <1>4, <1>5, <2>1
<1>9. r + u <= p => l * 2 ^ r \in 0 .. z - 1
  <2> SUFFICES ASSUME r + u <= p PROVE l * 2 ^ r \in 0 .. z - 1
    OBVIOUS
  <2>1. l * 2 ^ r + 2 ^ r <= z /\ 2 ^ r \in Nat \ {0}
    BY <1>0, <1>1, <1>4, FieldBelow
  <2> QED  BY <1>4, <1>5, <2>1
<1>10. q + t <= p /\ r + u <= p => m * 2 ^ q + l * 2 ^ r \in 0 .. z - 1
  BY <1>0, <1>1, <1>4, TwoBelow
<1>11. PICK mq \in Nat, lr \in Nat : mq = m * 2 ^ q /\ lr = l * 2 ^ r
  BY <1>5
<1>12. SUFFICES \E x \in Nat : \E y \in 0 .. z - 1 : mq + lr = w * x + y
  BY <1>3, <1>4, <1>11
<1>13. CASE q + t <= p /\ r + u <= p
  <2>1. mq + lr \in 0 .. z - 1 /\ mq + lr = w * 0 + (mq + lr)
    BY <1>4, <1>10, <1>11, <1>13
  <2> QED  BY <2>1
<1>14. CASE p + s <= q /\ r + u <= p
  BY <1>6, <1>9, <1>11, <1>14
<1>15. CASE q + t <= p /\ p + s <= r
  <2>1. PICK x \in Nat : lr = w * x
    BY <1>7, <1>11, <1>15
  <2>2. mq + lr = w * x + mq
    BY <1>4, <2>1
  <2> QED  BY <1>8, <1>11, <1>15, <2>2
<1>16. CASE p + s <= q /\ p + s <= r
  <2>1. PICK x \in Nat : mq = w * x
    BY <1>6, <1>11, <1>16
  <2>2. PICK y \in Nat : lr = w * y
    BY <1>7, <1>11, <1>16
  <2>3. mq + lr = w * (x + y) + 0 /\ x + y \in Nat /\ 0 \in 0 .. z - 1
    BY <1>4, <2>1, <2>2
  <2> QED  BY <2>3
<1> QED  BY <1>0, <1>13, <1>14, <1>15, <1>16 DEF Apart

\* Three fields of a pixel, the first above the others, make a number its bits
\* can hold.
LEMMA TopOfThree ==
  ASSUME NEW b \in 0 .. 32,
         NEW p \in Nat, NEW s \in 1 .. 8, p + s <= b, NEW n \in 0 .. 2 ^ s - 1,
         NEW q \in Nat, NEW t \in 1 .. 8, q + t <= p, NEW m \in 0 .. 2 ^ t - 1,
         NEW r \in Nat, NEW u \in 1 .. 8, r + u <= p, NEW l \in 0 .. 2 ^ u - 1,
         Apart(q, t, r, u)
  PROVE  n * 2 ^ p + (m * 2 ^ q + l * 2 ^ r) \in 0 .. 2 ^ b - 1
<1>1. p \in 0 .. 32
  OBVIOUS
<1>2. m * 2 ^ q + l * 2 ^ r \in 0 .. 2 ^ p - 1
  BY <1>1, TwoBelow
<1>3. n * 2 ^ p \in Nat /\ n * 2 ^ p + 2 ^ p <= 2 ^ b
  BY FieldBelow
<1>4. 2 ^ b \in Nat /\ 2 ^ p \in Nat
  BY <1>1, PowerPositive
<1> QED  BY <1>2, <1>3, <1>4

\* A number made of three fields fits its bits, and gives each field back.
LEMMA ThreeFields ==
  ASSUME NEW b \in 0 .. 32, NEW p, NEW s, NEW n, NEW q, NEW t, NEW m, NEW r, NEW u, NEW l,
         Pixel(b, p, s, n, q, t, m, r, u, l)
  PROVE  /\ n * 2 ^ p + (m * 2 ^ q + l * 2 ^ r) \in 0 .. 2 ^ b - 1
         /\ ((n * 2 ^ p + (m * 2 ^ q + l * 2 ^ r)) \div 2 ^ p) % 2 ^ s = n
<1>0. /\ p \in Nat /\ s \in 1 .. 8 /\ p + s <= b /\ n \in 0 .. 2 ^ s - 1
      /\ q \in Nat /\ t \in 1 .. 8 /\ q + t <= b /\ m \in 0 .. 2 ^ t - 1
      /\ r \in Nat /\ u \in 1 .. 8 /\ r + u <= b /\ l \in 0 .. 2 ^ u - 1
      /\ Apart(p, s, q, t) /\ Apart(p, s, r, u) /\ Apart(q, t, r, u)
  BY DEF Pixel
<1>1. p \in 0 .. 32 /\ s \in 0 .. 32 /\ q \in 0 .. 32 /\ r \in 0 .. 32
  BY <1>0
<1>2. n * 2 ^ p \in Nat /\ m * 2 ^ q \in Nat /\ l * 2 ^ r \in Nat
  <2>1. n * 2 ^ p \in Nat
    BY <1>0, FieldBelow
  <2>2. m * 2 ^ q \in Nat
    BY <1>0, FieldBelow
  <2>3. l * 2 ^ r \in Nat
    BY <1>0, FieldBelow
  <2> QED  BY <2>1, <2>2, <2>3
<1>3. n * 2 ^ p + (m * 2 ^ q + l * 2 ^ r) \in 0 .. 2 ^ b - 1
  <2>1. CASE q + t <= p /\ r + u <= p
    BY <1>0, <2>1, TopOfThree
  <2>2. CASE p + s <= q /\ r + u <= q
    <3>1. m * 2 ^ q + (n * 2 ^ p + l * 2 ^ r) \in 0 .. 2 ^ b - 1
      BY <1>0, <2>2, TopOfThree
    <3> QED  BY <1>2, <3>1
  <2>3. CASE p + s <= r /\ q + t <= r
    <3>1. l * 2 ^ r + (n * 2 ^ p + m * 2 ^ q) \in 0 .. 2 ^ b - 1
      BY <1>0, <2>3, TopOfThree
    <3> QED  BY <1>2, <3>1
  <2> QED  BY <1>0, <2>1, <2>2, <2>3 DEF Apart
<1>4. PICK x \in Nat : \E y \in 0 .. 2 ^ p - 1 :
        m * 2 ^ q + l * 2 ^ r = 2 ^ p * 2 ^ s * x + y
  BY OthersAround
<1>5. PICK y \in 0 .. 2 ^ p - 1 : m * 2 ^ q + l * 2 ^ r = 2 ^ p * 2 ^ s * x + y
  BY <1>4
<1>6. PICK lo \in Nat \ {0}, range \in Nat \ {0} : lo = 2 ^ p /\ range = 2 ^ s
  BY <1>1, PowerPositive
<1>7. PICK d : d = n * 2 ^ p + (m * 2 ^ q + l * 2 ^ r)
  OBVIOUS
<1>8. d = lo * range * x + (n * lo + y)
  <2>1. n * lo \in Nat /\ lo * range * x \in Nat /\ y \in Nat
    <3>1. n \in Nat /\ y \in Nat
      BY <1>0, <1>5, <1>6
    <3> QED  BY <1>4, <1>6, <3>1
  <2>2. d = n * lo + (lo * range * x + y)
    BY <1>5, <1>6, <1>7
  <2> QED  BY <2>1, <2>2
<1>9. (d \div lo) % range = n
  <2>1. y \in 0 .. lo - 1 /\ n \in 0 .. range - 1 /\ x \in Nat
    BY <1>0, <1>4, <1>5, <1>6
  <2>2. PICK k \in Nat : k = range * x + n
    BY <1>6, <2>1
  <2>3. lo * k = lo * range * x + n * lo /\ lo * k \in Nat /\ n * lo \in Nat
        /\ lo * range * x \in Nat
    BY <1>6, <2>1, <2>2
  <2>4. d = lo * k + y
    BY <1>8, <2>1, <2>3
  <2>5. d \div lo = k
    <3>1. (lo * k + y) \div lo = k
      BY <1>6, <2>1, <2>2, DivUnique, ZenonT(40)
    <3> QED  BY <2>4, <3>1, Zenon
  <2>6. k % range = n
    BY <1>6, <2>1, <2>2, DivUnique
  <2> QED  BY <2>5, <2>6
<1> QED  BY <1>3, <1>6, <1>7, <1>9

\* rgba_to_direct fits the pixel, and each channel of it is the colour's,
\* narrowed.
LEMMA DirectBack ==
  ASSUME NEW bits \in 0 .. 32, ChannelsApart(shape.rgb, bits), NEW c \in [1 .. 3 -> 0 .. 255]
  PROVE  /\ Direct(c) \in 0 .. 2 ^ bits - 1
         /\ \A i \in 1 .. 3 : (Direct(c) \div 2 ^ shape.rgb[i][1]) % 2 ^ shape.rgb[i][2]
                                = Narrow(c[i], shape.rgb[i][2])
<1> DEFINE P(i) == shape.rgb[i][1]
           S(i) == shape.rgb[i][2]
           N(i) == Narrow(c[i], S(i))
<1>1. PICK p, s, q, t, r, u :
        p = P(1) /\ s = S(1) /\ q = P(2) /\ t = S(2) /\ r = P(3) /\ u = S(3)
  OBVIOUS
<1>0. /\ p \in Nat /\ s \in 1 .. 8 /\ q \in Nat /\ t \in 1 .. 8 /\ r \in Nat /\ u \in 1 .. 8
  BY <1>1 DEF ChannelsApart
<1>2. p + s <= bits /\ q + t <= bits /\ r + u <= bits
  BY <1>1 DEF ChannelsApart
<1>3. Apart(p, s, q, t) /\ Apart(p, s, r, u) /\ Apart(q, t, r, u)
  BY <1>1 DEF ChannelsApart, Apart
<1>4. PICK n, m, l : n = N(1) /\ m = N(2) /\ l = N(3)
  OBVIOUS
<1>5. n \in 0 .. 2 ^ s - 1 /\ m \in 0 .. 2 ^ t - 1 /\ l \in 0 .. 2 ^ u - 1
  <2>1. c[1] \in 0 .. 255 /\ c[2] \in 0 .. 255 /\ c[3] \in 0 .. 255
    OBVIOUS
  <2>2. n = Narrow(c[1], s) /\ m = Narrow(c[2], t) /\ l = Narrow(c[3], u)
    BY <1>1, <1>4
  <2> QED  BY <1>0, <2>1, <2>2, NarrowKeeps
<1>6. Direct(c) = n * 2 ^ p + m * 2 ^ q + l * 2 ^ r
  BY <1>1, <1>4 DEF Direct
<1>7. n * 2 ^ p \in Nat /\ m * 2 ^ q \in Nat /\ l * 2 ^ r \in Nat
  <2>1. n * 2 ^ p \in Nat
    BY <1>0, <1>2, <1>5, FieldBelow
  <2>2. m * 2 ^ q \in Nat
    BY <1>0, <1>2, <1>5, FieldBelow
  <2>3. l * 2 ^ r \in Nat
    BY <1>0, <1>2, <1>5, FieldBelow
  <2> QED  BY <2>1, <2>2, <2>3
<1>8. /\ Direct(c) = n * 2 ^ p + (m * 2 ^ q + l * 2 ^ r)
      /\ Direct(c) = m * 2 ^ q + (n * 2 ^ p + l * 2 ^ r)
      /\ Direct(c) = l * 2 ^ r + (n * 2 ^ p + m * 2 ^ q)
  BY <1>6, <1>7
<1>9. /\ Pixel(bits, p, s, n, q, t, m, r, u, l)
      /\ Pixel(bits, q, t, m, p, s, n, r, u, l)
      /\ Pixel(bits, r, u, l, p, s, n, q, t, m)
  BY <1>0, <1>2, <1>3, <1>5 DEF Pixel, Apart
<1>10. /\ n * 2 ^ p + (m * 2 ^ q + l * 2 ^ r) \in 0 .. 2 ^ bits - 1
       /\ ((n * 2 ^ p + (m * 2 ^ q + l * 2 ^ r)) \div 2 ^ p) % 2 ^ s = n
  <2>1. n * 2 ^ p + (m * 2 ^ q + l * 2 ^ r) \in 0 .. 2 ^ bits - 1
    BY <1>9, ThreeFields
  <2>2. ((n * 2 ^ p + (m * 2 ^ q + l * 2 ^ r)) \div 2 ^ p) % 2 ^ s = n
    BY <1>9, ThreeFields
  <2> QED  BY <2>1, <2>2
<1>11. ((m * 2 ^ q + (n * 2 ^ p + l * 2 ^ r)) \div 2 ^ q) % 2 ^ t = m
  BY <1>9, ThreeFields
<1>12. ((l * 2 ^ r + (n * 2 ^ p + m * 2 ^ q)) \div 2 ^ r) % 2 ^ u = l
  BY <1>9, ThreeFields
<1>13. PICK d : d = Direct(c)
  OBVIOUS
<1>14. /\ d \in 0 .. 2 ^ bits - 1 /\ (d \div 2 ^ p) % 2 ^ s = n
       /\ (d \div 2 ^ q) % 2 ^ t = m /\ (d \div 2 ^ r) % 2 ^ u = l
  BY <1>8, <1>10, <1>11, <1>12, <1>13
<1>15. \A i \in 1 .. 3 : (d \div 2 ^ P(i)) % 2 ^ S(i) = N(i)
  <2> SUFFICES ASSUME NEW i \in 1 .. 3 PROVE (d \div 2 ^ P(i)) % 2 ^ S(i) = N(i)
    OBVIOUS
  <2>1. CASE i = 1
    BY <1>1, <1>4, <1>14, <2>1
  <2>2. CASE i = 2
    BY <1>1, <1>4, <1>14, <2>2
  <2>3. CASE i = 3
    BY <1>1, <1>4, <1>14, <2>3
  <2> QED  BY <2>1, <2>2, <2>3
<1> QED  BY <1>13, <1>14, <1>15

------------------------------------------------------------------------------
(* The 3-3-2 palette of mode 13h. *)

\* The three fields of a 3-3-2 index come back.
LEMMA IndexBack ==
  ASSUME NEW f \in 0 .. 7, NEW g \in 0 .. 7, NEW h \in 0 .. 3
  PROVE  /\ ((f * 32 + g * 4 + h) \div 32) % 8 = f
         /\ ((f * 32 + g * 4 + h) \div 4) % 8 = g
         /\ (f * 32 + g * 4 + h) % 4 = h
<1>0. PICK v : v = f * 32 + g * 4 + h
  OBVIOUS
<1>1. v = 32 * f + (g * 4 + h) /\ g * 4 + h \in 0 .. 31
  BY <1>0
<1>2. v = 4 * (8 * f + g) + h /\ 8 * f + g \in Nat
  BY <1>0
<1>3. v \div 32 = f
  BY <1>1, DivUnique
<1>4. v \div 4 = 8 * f + g /\ v % 4 = h
  BY <1>2, DivUnique
<1>5. (8 * f + g) % 8 = g
  BY DivUnique
<1>6. f % 8 = f
  OBVIOUS
<1> QED  BY <1>0, <1>3, <1>4, <1>5, <1>6

\* An entry of the palette is less than a step away from what it stands for.
LEMMA Scaled7 ==
  ASSUME NEW v \in 0 .. 255, NEW f \in 0 .. 7, f = v \div 32
  PROVE  LET shown == (((f * 255) \div 7) \div 4) * 4 IN -32 < shown - v /\ shown - v < 32
<1>1. f * 32 <= v /\ v < f * 32 + 32
  OBVIOUS
<1>2. \/ f = 0 \/ f = 1 \/ f = 2 \/ f = 3 \/ f = 4 \/ f = 5 \/ f = 6 \/ f = 7
  OBVIOUS
<1> QED  BY <1>1, <1>2

LEMMA Scaled3 ==
  ASSUME NEW v \in 0 .. 255, NEW f \in 0 .. 3, f = v \div 64
  PROVE  LET shown == (((f * 255) \div 3) \div 4) * 4 IN -64 < shown - v /\ shown - v < 64
<1>1. f * 64 <= v /\ v < f * 64 + 64
  OBVIOUS
<1>2. \/ f = 0 \/ f = 1 \/ f = 2 \/ f = 3
  OBVIOUS
<1> QED  BY <1>1, <1>2

\* rgba_to_332 through video_install_332_palette.
LEMMA PaletteBack ==
  ASSUME NEW c \in [1 .. 3 -> 0 .. 255]
  PROVE  LET shown == Palette332(Index332(c)) IN
         /\ Index332(c) \in Nat
         /\ -32 < shown[1] - c[1] /\ shown[1] - c[1] < 32
         /\ -32 < shown[2] - c[2] /\ shown[2] - c[2] < 32
         /\ -64 < shown[3] - c[3] /\ shown[3] - c[3] < 64
<1>0. PICK r, g, b : r = c[1] /\ g = c[2] /\ b = c[3]
  OBVIOUS
<1>1. /\ r \in 0 .. 255 /\ g \in 0 .. 255 /\ b \in 0 .. 255
      /\ r = c[1] /\ g = c[2] /\ b = c[3]
  BY <1>0
<1>2. PICK x, y, z : x = r \div 32 /\ y = g \div 32 /\ z = b \div 64
  OBVIOUS
<1>3. x \in 0 .. 7 /\ y \in 0 .. 7 /\ z \in 0 .. 3
  BY <1>1, <1>2
<1>4. PICK v : v = x * 32 + y * 4 + z
  OBVIOUS
<1>5. Index332(c) = v /\ v \in Nat
  <2>1. Index332(c) = (c[1] \div 32) * 32 + (c[2] \div 32) * 4 + c[3] \div 64
    BY DEF Index332
  <2>2. Index332(c) = x * 32 + y * 4 + z
    BY <1>0, <1>2, <2>1
  <2>3. v \in Nat
    BY <1>3, <1>4
  <2> QED  BY <1>4, <2>2, <2>3
<1>6. (v \div 32) % 8 = x /\ (v \div 4) % 8 = y /\ v % 4 = z
  <2>1. /\ ((x * 32 + y * 4 + z) \div 32) % 8 = x
        /\ ((x * 32 + y * 4 + z) \div 4) % 8 = y
        /\ (x * 32 + y * 4 + z) % 4 = z
    BY <1>3, IndexBack, SMTT(30)
  <2> QED  BY <1>4, <2>1, Zenon
<1>7. Palette332(v) = << (((x * 255) \div 7) \div 4) * 4, (((y * 255) \div 7) \div 4) * 4,
                         (((z * 255) \div 3) \div 4) * 4 >>
  BY <1>6 DEF Palette332
<1>8. LET shown == (((x * 255) \div 7) \div 4) * 4 IN -32 < shown - r /\ shown - r < 32
  BY <1>1, <1>2, <1>3, Scaled7
<1>9. LET shown == (((y * 255) \div 7) \div 4) * 4 IN -32 < shown - g /\ shown - g < 32
  BY <1>1, <1>2, <1>3, Scaled7, ZenonT(40)
<1>10. LET shown == (((z * 255) \div 3) \div 4) * 4 IN -64 < shown - b /\ shown - b < 64
  BY <1>1, <1>2, <1>3, Scaled3, ZenonT(40)
<1> QED  BY <1>1, <1>5, <1>7, <1>8, <1>9, <1>10

------------------------------------------------------------------------------
(* The colours on the screen. *)

Direct32 == {15, 16, 24, 32}

\* Mode 13h has its palette, and nothing was ever drawn in a mode the bridge
\* cannot convert to.
PaletteOn   == adapter = Vga13 => dac = "332"
Unconverted == adapter.bpp \notin Direct32 \cup {8} => pixel = NoPixel
ColourInv   == ColoursShown /\ PaletteOn /\ Unconverted

\* What leaves the screen alone, or clears it.
LEMMA SamePicture ==
  ASSUME ColourInv, adapter' = adapter, dac' = dac, pixel' = pixel, drawn' = drawn
  PROVE  ColourInv'
<1>1. Shown' = Shown /\ ChannelBits' = ChannelBits
  BY DEF Shown, ChannelBits
<1> QED  BY <1>1 DEF ColourInv, ColoursShown, PaletteOn, Unconverted

LEMMA ClearedPicture ==
  ASSUME ColourInv, Cleared, drawn' = drawn, PaletteOn'
  PROVE  ColourInv'
<1>1. CASE adapter' = adapter /\ dac' = dac
  <2>1. pixel' = pixel
    BY <1>1 DEF Cleared
  <2> QED  BY <1>1, <2>1, SamePicture
<1>2. CASE ~(adapter' = adapter /\ dac' = dac)
  <2>1. pixel' = NoPixel
    BY <1>2 DEF Cleared
  <2> QED  BY <2>1 DEF ColourInv, ColoursShown, Unconverted
<1> QED  BY <1>1, <1>2

\* A mode switch leaves mode 13h without its palette nowhere.
LEMMA SwitchKeepsPalette ==
  ASSUME Screen, PaletteOn, NEW spec, NEW ok \in BOOLEAN, ApplyMode(spec, ok) \/ SetText(ok)
  PROVE  PaletteOn'
<1>1. Text # Vga13
  <2>1. Text.kind = "text" /\ Vga13.kind = "vga13"
    BY DEF Text, Vga13, Mode
  <2> QED  BY <2>1
<1>2. CASE UNCHANGED <<adapter, dac>>
  BY <1>2 DEF PaletteOn
<1>3. CASE SetText(ok)
  BY <1>1, <1>3 DEF SetText, BiosSwitches, PaletteOn
<1>4. CASE SetVga13(ok)
  BY <1>4 DEF SetVga13, PaletteOn
<1>5. ASSUME NEW width, NEW height, NEW bpp, SetVbe(width, height, bpp, ok)
      PROVE  PaletteOn'
  <2>1. CASE ~ok
    BY <1>5, <2>1 DEF SetVbe, PaletteOn
  <2>2. CASE ok
    <3>1. PICK m \in Found(width, height, bpp) : adapter' = m
      BY <1>5, <2>2 DEF SetVbe, BiosSwitches
    <3>2. PICK i \in Best(width, height, bpp) : m = bios.list[i].mode
      BY <3>1 DEF Found
    <3>3. m.kind = "vbe"
      BY <3>2, BestListed DEF Screen
    <3>4. Vga13.kind = "vga13"
      BY DEF Vga13, Mode
    <3> QED  BY <3>1, <3>3, <3>4 DEF PaletteOn
  <2> QED  BY <2>1, <2>2
<1> QED  BY <1>2, <1>3, <1>4, <1>5 DEF ApplyMode, videoVars

\* The same with the shown level and its step as numbers of their own.
LEMMA NarrowSteps ==
  ASSUME NEW v \in 0 .. 255, NEW s \in 1 .. 8
  PROVE  \E n \in Nat, d \in Nat :
           /\ n = Narrow(v, s) /\ d = 2 ^ (8 - s)
           /\ n * d \in Nat /\ - d < n * d - v /\ n * d - v < d
<1>1. s \in 0 .. 32
  OBVIOUS
<1>2. 2 ^ s \in Nat \ {0}
  BY <1>1, PowerPositive
<1>3. PICK e \in Nat : e = 2 ^ s
  BY <1>2
<1>4. Narrow(v, s) \in 0 .. 2 ^ s - 1
  BY NarrowKeeps
<1>5. Narrow(v, s) \in 0 .. e - 1
  BY <1>3, <1>4
<1>6. Narrow(v, s) \in Nat
  BY <1>3, <1>5
<1>7. 2 ^ (8 - s) \in Nat
  BY NarrowKeeps
<1>8. PICK n \in Nat : n = Narrow(v, s)
  BY <1>6
<1>9. PICK d \in Nat : d = 2 ^ (8 - s)
  BY <1>7
<1>10. Narrow(v, s) * 2 ^ (8 - s) <= v /\ v < Narrow(v, s) * 2 ^ (8 - s) + 2 ^ (8 - s)
  BY NarrowKeeps
<1>11. n * d <= v /\ v < n * d + d
  BY <1>8, <1>9, <1>10
<1>12. n * d \in Nat
  BY <1>8, <1>9
<1>13. PICK x \in Nat : x = n * d
  BY <1>12
<1>14. - d < x - v /\ x - v < d
  <2>1. x <= v /\ v < x + d
    BY <1>11, <1>13
  <2> QED  BY <2>1, <1>9
<1>15. - d < n * d - v /\ n * d - v < d
  BY <1>13, <1>14
<1> QED  BY <1>8, <1>9, <1>12, <1>15

\* A pixel of a direct-colour mode.
LEMMA DirectShown ==
  ASSUME NEW bits \in 0 .. 32, ChannelsApart(shape.rgb, bits), shape = adapter,
         adapter.bpp # 8, NEW c \in [1 .. 3 -> 0 .. 255],
         pixel' = Direct(c), drawn' = c, adapter' = adapter
  PROVE  ColoursShown'
<1> DEFINE P(i) == shape.rgb[i][1]
           S(i) == shape.rgb[i][2]
<1>1. \A i \in 1 .. 3 : (Direct(c) \div 2 ^ P(i)) % 2 ^ S(i) = Narrow(c[i], S(i))
  BY DirectBack
<1>2. Shown' = [i \in 1 .. 3 |-> Channel(pixel', shape.rgb[i])]
  BY DEF Shown
<1>3. ChannelBits' = [i \in 1 .. 3 |-> S(i)]
  BY DEF ChannelBits
<1>4. ASSUME NEW i \in 1 .. 3
      PROVE  /\ - (2 ^ (8 - ChannelBits'[i])) < Shown'[i] - drawn'[i]
             /\ Shown'[i] - drawn'[i] < 2 ^ (8 - ChannelBits'[i])
  <2>1. S(i) \in 1 .. 8 /\ c[i] \in 0 .. 255
    BY DEF ChannelsApart
  <2>2. PICK v \in 0 .. 255, s \in 1 .. 8 : v = c[i] /\ s = S(i)
    BY <2>1
  <2>3. PICK n \in Nat, d \in Nat :
          /\ n = Narrow(v, s) /\ d = 2 ^ (8 - s)
          /\ n * d \in Nat /\ - d < n * d - v /\ n * d - v < d
    BY NarrowSteps
  <2>4. Channel(pixel', shape.rgb[i]) = Narrow(v, s) * 2 ^ (8 - s)
    BY <1>1, <2>2 DEF Channel
  <2>5. Shown'[i] = Narrow(v, s) * 2 ^ (8 - s) /\ drawn'[i] = v /\ ChannelBits'[i] = s
    BY <1>2, <1>3, <2>2, <2>4
  <2>6. 2 ^ (8 - ChannelBits'[i]) = d
    BY <2>3, <2>5
  <2>7. Shown'[i] - drawn'[i] = n * d - v
    BY <2>3, <2>5
  <2> QED  BY <2>3, <2>6, <2>7
<1> QED  BY <1>4 DEF ColoursShown

\* A pixel of mode 13h.
LEMMA Mode13hShown ==
  ASSUME adapter = Vga13, shape = adapter, dac = "332", NEW c \in [1 .. 3 -> 0 .. 255],
         pixel' = Index332(c), drawn' = c, adapter' = adapter, dac' = dac
  PROVE  ColoursShown'
<1>1. adapter'.bpp = 8
  BY DEF Vga13, Mode
<1>2. Shown' = Palette332(Index332(c)) /\ ChannelBits' = <<3, 3, 2>>
  BY <1>1 DEF Shown, ChannelBits
<1>3. PICK p : p = Palette332(Index332(c))
  OBVIOUS
<1>4. /\ -32 < p[1] - c[1] /\ p[1] - c[1] < 32
      /\ -32 < p[2] - c[2] /\ p[2] - c[2] < 32
      /\ -64 < p[3] - c[3] /\ p[3] - c[3] < 64
  BY <1>3, PaletteBack
<1>5. 2 ^ (8 - 3) = 32 /\ 2 ^ (8 - 2) = 64
  <2>1. ASSUME NEW z, z = 5 PROVE 2 ^ z = 32
    BY <2>1
  <2>2. ASSUME NEW z, z = 6 PROVE 2 ^ z = 64
    BY <2>2
  <2>3. 8 - 3 = 5 /\ 8 - 2 = 6
    OBVIOUS
  <2> QED  BY <2>1, <2>2, <2>3
<1>6. ASSUME NEW i \in 1 .. 3
      PROVE  /\ - (2 ^ (8 - ChannelBits'[i])) < Shown'[i] - drawn'[i]
             /\ Shown'[i] - drawn'[i] < 2 ^ (8 - ChannelBits'[i])
  <2>1. CASE i = 1
    BY <1>2, <1>3, <1>4, <1>5, <2>1
  <2>2. CASE i = 2
    BY <1>2, <1>3, <1>4, <1>5, <2>2
  <2>3. CASE i = 3
    BY <1>2, <1>3, <1>4, <1>5, <2>3
  <2> QED  BY <2>1, <2>2, <2>3
<1> QED  BY <1>6 DEF ColoursShown

\* A frame shows its colour in the mode on the screen.
LEMMA FrameShows ==
  ASSUME Screen, ColourInv, step = "frame", FrameFits, NEW c \in Colours, DrawFrame(c)
  PROVE  ColourInv'
<1>1. /\ ready /\ shape = adapter /\ adapter.kind # "text"
      /\ adapter' = adapter /\ dac' = dac /\ drawn' = c /\ pixel' = Converted(c)
  BY DEF FrameFits, DrawFrame, videoVars
<1>2. c \in [1 .. 3 -> 0 .. 255]
  BY ColoursAssumption
<1>3. PaletteOn'
  BY <1>1 DEF ColourInv, PaletteOn
<1>4. CASE adapter = Vga13
  <2>1. shape.bpp = 8
    BY <1>1, <1>4 DEF Vga13, Mode
  <2>2. pixel' = Index332(c)
    BY <1>1, <2>1 DEF Converted
  <2>3. ColoursShown'
    BY <1>1, <1>2, <1>4, <2>2, Mode13hShown DEF ColourInv, PaletteOn
  <2> QED  BY <1>1, <1>3, <2>1, <2>3 DEF ColourInv, Unconverted
<1>5. CASE adapter # Vga13
  <2>1. adapter # Text
    BY <1>1 DEF Text, Mode
  <2>2. PICK i \in Best(asked[1], asked[2], asked[3]) : adapter = bios.list[i].mode
    BY <1>5, <2>1 DEF Screen, AdapterMode, ListedMode
  <2>3. /\ bios \in Bioses /\ i \in 1 .. Len(bios.list) /\ adapter.kind = "vbe"
    BY <2>2, BestListed DEF Screen
  <2>4. adapter'.kind # "vga13"
    BY <1>1, <2>3
  <2>5. CASE adapter.bpp = 8
    BY <1>1, <1>3, <2>4, <2>5 DEF ColourInv, ColoursShown, Unconverted
  <2>6. CASE adapter.bpp \in Direct32
    <3> DEFINE bits == IF adapter.bpp = 15 THEN 16 ELSE adapter.bpp
    <3>1. adapter.bpp \in {15, 16, 24, 32}
      BY <2>6 DEF Direct32
    <3>2. bits \in 0 .. 32 /\ ChannelsApart(shape.rgb, bits)
      BY <1>1, <2>2, <2>3, <3>1, ChannelAssumption
    <3>3. Direct(c) \in 0 .. 2 ^ bits - 1
      <4> HIDE DEF bits
      <4> QED  BY <1>2, <3>2, DirectBack
    <3>4. pixel' = Direct(c)
      <4>1. PICK d : d = Direct(c)
        OBVIOUS
      <4>2. 2 ^ 16 \in Nat \ {0} /\ 2 ^ 24 \in Nat \ {0}
        OBVIOUS
      <4>3. CASE adapter.bpp \in {15, 16}
        <5>1. bits = 16
          BY <4>3
        <5>2. d \in 0 .. 2 ^ 16 - 1
          BY <3>3, <4>1, <5>1
        <5>3. d % 2 ^ 16 = d
          BY <5>2
        <5> QED  BY <1>1, <4>1, <4>3, <5>3 DEF Converted
      <4>4. CASE adapter.bpp = 24
        <5>1. bits = 24
          BY <4>4
        <5>2. d \in 0 .. 2 ^ 24 - 1
          BY <3>3, <4>1, <5>1
        <5>3. d % 2 ^ 24 = d
          BY <5>2
        <5> QED  BY <1>1, <4>1, <4>4, <5>3 DEF Converted
      <4>5. CASE adapter.bpp = 32
        BY <1>1, <4>5 DEF Converted
      <4> QED  BY <3>1, <4>3, <4>4, <4>5
    <3>5. ColoursShown'
      <4> HIDE DEF bits
      <4>1. adapter.bpp # 8
        BY <3>1
      <4> QED  BY <1>1, <1>2, <3>2, <3>4, <4>1, DirectShown
    <3> QED  BY <1>1, <1>3, <2>6, <3>5 DEF ColourInv, Unconverted
  <2>7. CASE adapter.bpp \notin Direct32 \cup {8}
    <3>1. pixel = NoPixel
      BY <2>7 DEF ColourInv, Unconverted
    <3>2. pixel' = pixel
      BY <1>1, <2>7 DEF Converted, Direct32
    <3> QED  BY <1>3, <3>1, <3>2 DEF ColourInv, ColoursShown, Unconverted, NoPixel
  <2> QED  BY <2>5, <2>6, <2>7
<1> QED  BY <1>4, <1>5

LEMMA InitColourInv == InitCmd => ColourInv
<1> SUFFICES ASSUME InitCmd PROVE ColourInv
  OBVIOUS
<1>1. pixel = NoPixel /\ adapter = Text
  BY DEF InitCmd, InitBridge, InitVideo
<1>2. Text # Vga13
  <2>1. Text.kind = "text" /\ Vga13.kind = "vga13"
    BY DEF Text, Vga13, Mode
  <2> QED  BY <2>1
<1> QED  BY <1>1, <1>2 DEF ColourInv, ColoursShown, PaletteOn, Unconverted

LEMMA NextColourInv == VInv /\ ColourInv /\ [NextCmd]_videoMachine => ColourInv'
<1> SUFFICES ASSUME VInv, ColourInv, [NextCmd]_videoMachine PROVE ColourInv'
  OBVIOUS
<1>1. CASE UNCHANGED <<adapter, dac, pixel, drawn>>
  BY <1>1, SamePicture
<1>2. ASSUME NEW spec, CallMode(spec) \/ \E alone \in BOOLEAN : CallDemo(spec, alone)
      PROVE  ColourInv'
  <2>1. PICK ok \in BOOLEAN : ApplyMode(spec, ok)
    BY <1>2 DEF CallMode, CallDemo
  <2>2. Cleared /\ drawn' = drawn
    BY <1>2 DEF CallMode, CallDemo
  <2>3. PaletteOn'
    BY <2>1, SwitchKeepsPalette DEF VInv, ColourInv
  <2> QED  BY <2>2, <2>3, ClearedPicture
<1>3. CASE DemoFails \/ DemoLeaves
  <2>1. PICK ok \in BOOLEAN : SetText(ok)
    BY <1>3 DEF DemoFails, DemoLeaves
  <2>2. Cleared /\ drawn' = drawn
    BY <1>3 DEF DemoFails, DemoLeaves
  <2>3. PaletteOn'
    BY <2>1, SwitchKeepsPalette DEF VInv, ColourInv
  <2> QED  BY <2>2, <2>3, ClearedPicture
<1>4. CASE DemoFrame
  <2>1. CASE \E c \in Colours : DrawFrame(c)
    BY <1>4, <2>1, FrameShows DEF DemoFrame, VInv
  <2>2. CASE UNCHANGED <<kvars, videoVars, bridgeVars>>
    BY <2>2, SamePicture DEF videoVars, bridgeVars
  <2> QED  BY <1>4, <2>1, <2>2 DEF DemoFrame
<1>5. CASE KernelMain
  BY <1>1, <1>5 DEF KernelMain, VideoInit, videoVars, bridgeVars
<1>6. CASE InitializeBridge
  BY <1>1, <1>6 DEF InitializeBridge, BridgeStart, BridgeColour, BridgeDepth, videoVars
<1>7. CASE KeyTyped \/ ByteSent \/ ShellReads \/ UNCHANGED videoMachine
  BY <1>1, <1>7 DEF KeyTyped, ByteSent, ShellReads, videoMachine, videoVars, bridgeVars
<1> QED  BY <1>2, <1>3, <1>4, <1>5, <1>6, <1>7 DEF NextCmd, Demo

------------------------------------------------------------------------------
(* The theorems. *)

\* current_mode describes the mode on the screen whatever commands were typed
\* and whatever the BIOS refused (video.c:180-341).
THEOREM RecordAgrees == SpecCmd => []RecordedIsShown
<1>1. VInv => RecordedIsShown
  BY DEF VInv
<1> QED  BY <1>1, CmdInvariance, PTL

\* A frame has both its buffers, of the size of the mode on the screen
\* (gfx_bridge.c:73-118).
THEOREM FramesFit == SpecCmd => []FrameFits
<1>1. VInv => FrameFits
  BY DEF VInv
<1> QED  BY <1>1, CmdInvariance, PTL

\* Whatever the command lines asked for and however often gfxdemo ran, the
\* buffers it draws into and copies from lie inside the kernel's region and
\* share no byte with each other or with those of an earlier run
\* (gfx_bridge.c:93-104, kalloc.c:76-93).
THEOREM BuffersApart == SpecCmd => []BlocksApart
<1>1. KInv => BlocksApart
  BY KInvBlocks
<1> QED  BY <1>1, CmdInvariance, PTL

\* Every way out of gfxdemo leads back to text (cmd_video.c:370-411).
THEOREM TextReturns == SpecCmd => []TextComesBack
<1>1. VInv => TextComesBack
  BY DEF VInv
<1> QED  BY <1>1, CmdInvariance, PTL

\* video_set_vbe never settles for another bpp when a mode it listed has the
\* one asked for (video.c:227-325).
THEOREM BestModeWins == SpecCmd => []ModeAsAsked
<1>1. VInv => ModeAsAsked
  <2> SUFFICES ASSUME VInv, adapter.kind = "vbe"
               PROVE  /\ adapter.width = asked[1] /\ adapter.height = asked[2]
                      /\ \A j \in 1 .. Len(bios.list) :
                           ~ /\ adapter.bpp # asked[3] /\ j <= MaxModes
                             /\ Usable(bios.list[j], asked[1], asked[2])
                             /\ bios.list[j].mode.bpp = asked[3]
    BY DEF ModeAsAsked
  <2>1. PICK i \in Best(asked[1], asked[2], asked[3]) : adapter = bios.list[i].mode
    BY DEF VInv, Screen, AdapterMode, ListedMode, Text, Vga13, Mode
  <2>2. i \in Candidates(asked[1], asked[2], asked[3])
    BY DEF Best
  <2>3. adapter.width = asked[1] /\ adapter.height = asked[2]
    BY <2>1, <2>2 DEF Candidates, Usable
  <2>4. ASSUME adapter.bpp # asked[3], NEW j \in 1 .. Len(bios.list), j <= MaxModes,
               Usable(bios.list[j], asked[1], asked[2]), bios.list[j].mode.bpp = asked[3]
        PROVE  FALSE
    <3>1. Len(bios.list) \in Nat /\ MaxModes \in Nat
      BY BiosAssumption DEF VInv, Screen
    <3>2. j \in Listed
      BY <2>4, <3>1 DEF Listed
    <3>3. Score(bios.list[j], asked[3]) = 2
      BY <2>4 DEF Score
    <3>4. j \in Candidates(asked[1], asked[2], asked[3])
      BY <2>4, <3>2, <3>3 DEF Candidates
    <3>5. Score(bios.list[i], asked[3]) \in {0, 1}
      BY <2>1, <2>4 DEF Score
    <3> QED  BY <3>3, <3>4, <3>5 DEF Best
  <2> QED  BY <2>3, <2>4
<1> QED  BY <1>1, CmdInvariance, PTL

\* The pixel on the screen is the colour drawn, up to the bits the mode does not
\* have, in every direct-colour layout and in mode 13h (gfx_bridge.c:37-71,
\* 157-184, video.c:106-119).
THEOREM ColoursArrive == SpecCmd => []ColoursShown
<1>1. VInv /\ ColourInv /\ [NextCmd]_videoMachine => ColourInv'
  BY NextColourInv
<1>2. ColourInv => ColoursShown
  BY DEF ColourInv
<1> QED  BY <1>1, <1>2, InitColourInv, CmdInvariance, PTL DEF SpecCmd
==============================================================================
