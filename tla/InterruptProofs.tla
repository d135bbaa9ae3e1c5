-------------------------- MODULE InterruptProofs ---------------------------
(***************************************************************************)
(* Proofs about interrupts: that they reach the kernel, and that what the  *)
(* keyboard's interrupt hands on is what was typed.                        *)
(*                                                                         *)
(* First the way to the handler (RealMode), for all sets of IRQs and       *)
(* whatever masks the BIOS leaves: no interrupt meets the wrong            *)
(* environment or a missing handler, and a BIOS call leaves no trace.  The *)
(* invariant says for each position of the main context what every switch  *)
(* is set to.  The one place where interrupts may be on in the wrong       *)
(* environment is inside the BIOS, and there the first PIC is masked       *)
(* completely; requests of the second one have to pass its IRQ 2.          *)
(*                                                                         *)
(* Then the scancode decoder (Keyboard), for every keyboard, every pair of *)
(* tables, every number of bytes in flight and every order of key presses, *)
(* interrupts and layout switches.  The decoder lags behind the keyboard   *)
(* by the bytes in wire.  The invariant says that it will catch up: there  *)
(* are decoder states, one for each byte in flight, that lead from the     *)
(* present one to the one the held keys stand for, and wherever one of     *)
(* them decodes a character it does so in the layer that was promised when *)
(* the key went down.                                                      *)
(***************************************************************************)
EXTENDS Keyboard, RealMode, SequenceTheorems, TLAPS

------------------------------------------------------------------------------
(* The way to the handler. *)

Dark    == {"idt", "pic", "timer", "keyboard", "sti"}          \* boot, IF = 0
Lit     == {"init", "caller", "maskMaster", "maskSlave", "enter",
            "unmaskMaster", "unmaskSlave"}                     \* IF = 1
Closed  == {"leave", "ivt", "protect", "lidt", "popfd"}        \* the stub, IF = 0
Foreign == {"bios", "cli"}                                     \* IF is the BIOS's
InStub  == Closed \cup Foreign
InCall  == InStub \cup {"maskMaster", "maskSlave", "enter", "unmaskMaster", "unmaskSlave"}

\* What boot makes of the masks.
Opened == biosMask \ {TIMER, KBD}

\* The mode, the table and the vector base.
EnvInv ==
  /\ mode = "real" <=> pc \in {"ivt", "bios", "cli", "protect"}
  /\ pc # "idt" => table = IF pc \in {"bios", "cli", "protect", "lidt"} THEN "bios" ELSE "kernel"
  /\ pc \notin {"idt", "pic"} => vectors = "kernel"
  /\ pc \in InStub => savedTable = "kernel" /\ savedFlag = TRUE

\* Interrupts are on exactly where the code means them to be.
FlagInv ==
  /\ pc \in Lit => (flag = TRUE <=> serving = None)
  /\ pc \notin Lit => serving = None
  /\ pc \in Dark \cup Closed => flag = FALSE

\* The masks, written bit by bit during boot and byte by byte in a call.
MaskInv ==
  /\ pc \in {"idt", "pic", "timer"} => mask = biosMask
  /\ pc = "keyboard" => mask = biosMask \ {TIMER}
  /\ pc \in {"sti", "init", "caller", "maskMaster"} => mask = Opened
  /\ pc = "maskSlave" => mask = Opened \cup Master
  /\ pc \in InStub \cup {"enter", "unmaskMaster"} => mask = Irqs
  /\ pc = "unmaskSlave" => mask = Slave \cup (Opened \cap Master)
  /\ pc \in InCall => savedMask = Opened /\ ready = TRUE

\* The handlers are installed before interrupts come on.
HandlerInv ==
  /\ pc \notin {"idt", "pic", "timer"} => TIMER \in registered
  /\ pc \notin {"idt", "pic", "timer", "keyboard"} => KBD \in registered

RMInv == RMTypeOK /\ EnvInv /\ FlagInv /\ MaskInv /\ HandlerInv

------------------------------------------------------------------------------
(* The main context. *)

\* kernel_main is entered with interrupts off.
LEMMA InitRMInv == InitRM => RMInv
BY RealModeAssumption DEF InitRM, RMInv, RMTypeOK, EnvInv, FlagInv, MaskInv, HandlerInv,
   Dark, Lit, Closed, Foreign, InStub, InCall, Opened, Irqs, None

\* The steps of kernel_main.
LEMMA BootInv == ASSUME RMInv, Boot PROVE RMInv'
<1> USE RealModeAssumption
    DEF RMInv, RMTypeOK, EnvInv, FlagInv, MaskInv, HandlerInv, Dark, Lit, Closed, Foreign,
        InStub, InCall, Opened, Irqs, None, TIMER, KBD, CASCADE, SPURIOUS, Step, env, pic, saved
<1>1. CASE IdtInit
  BY <1>1 DEF IdtInit
<1>2. CASE PicRemap
  BY <1>2 DEF PicRemap, boot
<1>3. CASE StartTimer
  BY <1>3 DEF StartTimer
<1>4. CASE StartKeyboard
  BY <1>4 DEF StartKeyboard
<1>5. CASE EnableInterrupts
  BY <1>5 DEF EnableInterrupts, boot
<1>6. CASE RealmodeInit
  BY <1>6 DEF RealmodeInit
<1> QED
  BY <1>1, <1>2, <1>3, <1>4, <1>5, <1>6 DEF Boot

\* The two PICs have no IRQ in common.
LEMMA Disjoint == Master \cap Slave = {}
BY RealModeAssumption

\* Asking for a call, and writing the masks before and after it.
LEMMA MaskingInv == ASSUME RMInv, RefuseCall \/ ReadMasks \/ Masking PROVE RMInv'
<1> USE RealModeAssumption
    DEF RMInv, RMTypeOK, EnvInv, FlagInv, MaskInv, HandlerInv, Dark, Lit, Closed, Foreign,
        InStub, InCall, Opened, Irqs, Step, env, pic, saved, boot
<1>1. CASE RefuseCall
  BY <1>1 DEF RefuseCall
<1>2. CASE ReadMasks
  BY <1>2 DEF ReadMasks
<1>3. CASE MaskMaster
  BY <1>3 DEF MaskMaster
<1>4. CASE MaskSlave
  BY <1>4 DEF MaskSlave
<1>5. CASE RestoreMaster
  BY <1>5 DEF RestoreMaster
<1>6. CASE RestoreSlave
  <2>1. mask' = Opened
    BY <1>6, Disjoint DEF RestoreSlave
  <2> QED
    BY <1>6, <2>1 DEF RestoreSlave
<1> QED
  BY <1>1, <1>2, <1>3, <1>4, <1>5, <1>6 DEF Masking

\* The way into real mode and back; the BIOS in between.
LEMMA StubInv == ASSUME RMInv, Leaving \/ Back \/ BiosToggles PROVE RMInv'
<1> USE RealModeAssumption
    DEF RMInv, RMTypeOK, EnvInv, FlagInv, MaskInv, HandlerInv, Dark, Lit, Closed, Foreign,
        InStub, InCall, Opened, Step, env, pic, saved, boot
<1>1. CASE StubEnter
  BY <1>1 DEF StubEnter
<1>2. CASE LeaveProtected
  BY <1>2 DEF LeaveProtected
<1>3. CASE LoadIvt
  BY <1>3 DEF LoadIvt
<1>4. CASE BiosToggles
  BY <1>4 DEF BiosToggles
<1>5. CASE BiosReturns
  BY <1>5 DEF BiosReturns
<1>6. CASE StubCli
  BY <1>6 DEF StubCli
<1>7. CASE EnterProtected
  BY <1>7 DEF EnterProtected
<1>8. CASE LoadIdt
  BY <1>8 DEF LoadIdt
<1>9. CASE RestoreFlags
  BY <1>9 DEF RestoreFlags
<1> QED
  BY <1>1, <1>2, <1>3, <1>4, <1>5, <1>6, <1>7, <1>8, <1>9 DEF Leaving, Back

------------------------------------------------------------------------------
(* Interrupts. *)

\* With the first PIC masked, nothing is let through.
LEMMA AllMasked == ASSUME mask = Irqs, NEW i \in Lines PROVE ~Unmasked(i)
BY DEF Unmasked, Lines

\* Interrupts are taken only where IF = 1 belongs to the kernel.
LEMMA InterruptInv == ASSUME RMInv, Interrupt PROVE RMInv'
<1> USE DEF RMInv, RMTypeOK, EnvInv, FlagInv, MaskInv, HandlerInv, Dark, Lit, Closed, Foreign,
            InStub, InCall, Opened, env, pic, saved, boot
<1>1. ASSUME NEW i \in Lines, Request(i) PROVE RMInv'
  BY <1>1 DEF Request
<1>2. ASSUME NEW i \in Lines, Accept(i) PROVE RMInv'
  <2>1. pc \in Lit
    BY <1>2, AllMasked DEF Accept
  <2>2. i \in Irqs /\ i # None
    BY RealModeAssumption DEF Lines, Irqs, None
  <2>3. serving' # None /\ flag' = FALSE /\ pc' = pc
    BY <1>2, <2>2 DEF Accept
  <2>4. FlagInv'
    BY <2>1, <2>3
  <2>5. RMTypeOK'
    BY <1>2, <2>2 DEF Accept
  <2>6. (EnvInv /\ MaskInv /\ HandlerInv)'
    BY <1>2 DEF Accept
  <2> QED
    BY <2>4, <2>5, <2>6
<1>3. CASE AcceptSpurious
  <2>1. SPURIOUS \in Irqs /\ SPURIOUS # None
    BY RealModeAssumption DEF SPURIOUS, None, Irqs
  <2>2. serving' # None /\ flag' = FALSE /\ pc' = pc /\ pc = "maskSlave"
    BY <1>3, <2>1 DEF AcceptSpurious
  <2>3. FlagInv'
    BY <2>2
  <2>4. RMTypeOK'
    BY <1>3, <2>1 DEF AcceptSpurious
  <2>5. (EnvInv /\ MaskInv /\ HandlerInv)'
    BY <1>3 DEF AcceptSpurious
  <2> QED
    BY <2>3, <2>4, <2>5
<1>4. CASE Iret
  BY <1>4 DEF Iret
<1> QED
  BY <1>1, <1>2, <1>3, <1>4 DEF Interrupt

\* The invariant.
LEMMA RMInvAlways == SpecRM => []RMInv
<1>1. RMInv /\ [NextRM]_rmVars => RMInv'
  <2> SUFFICES ASSUME RMInv, [NextRM]_rmVars PROVE RMInv'
    OBVIOUS
  <2>1. CASE NextRM
    BY <2>1, BootInv, MaskingInv, StubInv, InterruptInv DEF NextRM, Call
  <2>2. CASE UNCHANGED rmVars
    BY <2>2 DEF rmVars, env, pic, saved, boot, RMInv, RMTypeOK, EnvInv, FlagInv, MaskInv,
       HandlerInv, Opened
  <2> QED
    BY <2>1, <2>2
<1> QED
  BY InitRMInv, <1>1, PTL DEF SpecRM

------------------------------------------------------------------------------
(* What follows from it. *)

\* Type correctness of the boot order and the trampoline.
THEOREM RealModeTypes == SpecRM => []RMTypeOK
<1>1. RMInv => RMTypeOK
  BY DEF RMInv
<1> QED
  BY <1>1, RMInvAlways, PTL

\* No interrupt is taken through the wrong table, in the wrong mode or with
\* the wrong vectors, whatever the BIOS does with IF (realmode.c:172-175).
THEOREM EveryInterruptFindsTheKernel == SpecRM => []RightTable
<1>1. RMInv => RightTable
  BY DEF RMInv, RMTypeOK, EnvInv, FlagInv, RightTable, KernelEnv, Lit
<1> QED
  BY <1>1, RMInvAlways, PTL

\* The timer's and the keyboard's interrupts never come before their handlers
\* (kernel_main.c:49-62).
THEOREM HandlersComeFirst == SpecRM => []HandlersReady
<1>1. RMInv => HandlersReady
  BY DEF RMInv, FlagInv, HandlerInv, HandlersReady, Lit, TIMER, KBD, None
<1> QED
  BY <1>1, RMInvAlways, PTL

\* Real mode is entered only through a stub that is there (realmode.c:153).
THEOREM StubIsThere == SpecRM => []StubBeforeUse
<1>1. RMInv => StubBeforeUse
  BY DEF RMInv, EnvInv, MaskInv, StubBeforeUse, InCall, InStub, Closed, Foreign
<1> QED
  BY <1>1, RMInvAlways, PTL

\* After a BIOS call the masks, the environment and IF are as before it
\* (realmode.c:176-184, realmode.asm:206-218).
THEOREM BiosCallIsTransparent == SpecRM => []CallLeavesNoTrace
<1>1. RMInv => CallLeavesNoTrace
  BY DEF RMInv, RMTypeOK, EnvInv, FlagInv, MaskInv, CallLeavesNoTrace, KernelEnv, Opened, Lit
<1> QED
  BY <1>1, RMInvAlways, PTL

------------------------------------------------------------------------------
(* The decoder. *)

Modes   == [shift : BOOLEAN, altgr : BOOLEAN, caps : BOOLEAN, ext : BOOLEAN]
Entries == [byte : 0 .. 255, layer : Layers, lit : BOOLEAN]

\* What the decoder remembers, and what the keyboard says it should.
Decoder  == [shift |-> shift, altgr |-> altgr, caps |-> caps, ext |-> ext]
Promised == [shift |-> down \cap ShiftKeys # {}, altgr |-> down \cap AltGrKeys # {},
             caps |-> lamp, ext |-> FALSE]

\* The handler as a function of what it remembers.
After(m, b) ==
  IF b = PREFIX THEN [m EXCEPT !.ext = TRUE]
  ELSE IF b >= BREAK
  THEN [shift |-> m.shift /\ Released(b) \notin {LSHIFT, RSHIFT},
        altgr |-> m.altgr /\ ~(m.ext /\ Released(b) = ALT),
        caps  |-> m.caps, ext |-> FALSE]
  ELSE [shift |-> m.shift \/ b \in {LSHIFT, RSHIFT},
        altgr |-> m.altgr \/ (b = ALT /\ m.ext),
        caps  |-> m.caps # (b = CAPS), ext |-> FALSE]

\* A byte that mode m decodes to a character carries the layer and the lamp of m.
LayerIn(m) == IF m.altgr THEN "altgr" ELSE IF m.shift THEN "shift" ELSE "normal"
Fits(m, e) ==
  e.byte < BREAK /\ e.byte \notin {LSHIFT, RSHIFT, CAPS} /\ ~(e.byte = ALT /\ m.ext)
    => e.layer = LayerIn(m) /\ e.lit = m.caps

\* The bytes of w lead the decoder from one mode to another, by those of ms.
Leads(w, ms, from, to) ==
  /\ ms \in [0 .. Len(w) -> Modes]
  /\ ms[0] = from /\ ms[Len(w)] = to
  /\ \A i \in 1 .. Len(w) : ms[i] = After(ms[i - 1], w[i].byte) /\ Fits(ms[i - 1], w[i])
Follows(w, from, to) == \E ms \in [0 .. Len(w) -> Modes] : Leads(w, ms, from, to)

------------------------------------------------------------------------------
(* Bytes in flight. *)

LEMMA AfterMode ==
  ASSUME NEW m \in Modes, NEW b \in 0 .. 255
  PROVE  After(m, b) \in Modes
BY DEF After, Modes

\* Nothing in flight: the two modes are the same.
LEMMA FollowsNothing ==
  ASSUME NEW a, NEW b, Follows(<<>>, a, b)
  PROVE  a = b
BY DEF Follows, Leads

LEMMA NothingFollows ==
  ASSUME NEW a \in Modes
  PROVE  Follows(<<>>, a, a)
<1> DEFINE ms == [i \in 0 .. 0 |-> a]
<1>1. ms \in [0 .. Len(<<>>) -> Modes] /\ Leads(<<>>, ms, a, a)
  BY DEF Leads
<1> QED  BY <1>1 DEF Follows

\* The handler takes the oldest byte.
LEMMA FollowsTail ==
  ASSUME NEW w \in Seq(Entries), w # <<>>, NEW a, NEW b, Follows(w, a, b)
  PROVE  /\ Head(w) \in Entries /\ Tail(w) \in Seq(Entries) /\ a \in Modes
         /\ Fits(a, Head(w))
         /\ Follows(Tail(w), After(a, Head(w).byte), b)
<1>1. PICK ms \in [0 .. Len(w) -> Modes] : Leads(w, ms, a, b)
  BY DEF Follows
<1> DEFINE rest == [i \in 0 .. Len(Tail(w)) |-> ms[i + 1]]
<1>2. /\ Len(w) \in Nat \ {0} /\ Len(Tail(w)) = Len(w) - 1
      /\ Head(w) = w[1] /\ Head(w) \in Entries /\ Tail(w) \in Seq(Entries)
      /\ \A i \in 1 .. Len(Tail(w)) : Tail(w)[i] = w[i + 1]
  OBVIOUS
<1>3. rest \in [0 .. Len(Tail(w)) -> Modes]
  BY <1>2
<1>4. rest[0] = After(a, Head(w).byte) /\ rest[Len(Tail(w))] = b
  BY <1>1, <1>2 DEF Leads
<1>5. ASSUME NEW i \in 1 .. Len(Tail(w))
      PROVE  rest[i] = After(rest[i - 1], Tail(w)[i].byte) /\ Fits(rest[i - 1], Tail(w)[i])
  <2>1. i + 1 \in 1 .. Len(w) /\ rest[i] = ms[i + 1] /\ rest[i - 1] = ms[i]
    BY <1>2
  <2>2. ms[i + 1] = After(ms[(i + 1) - 1], w[i + 1].byte) /\ Fits(ms[(i + 1) - 1], w[i + 1])
    BY <1>1, <2>1 DEF Leads
  <2>3. (i + 1) - 1 = i
    BY <1>2
  <2> QED  BY <1>2, <2>1, <2>2, <2>3
<1>6. Follows(Tail(w), After(a, Head(w).byte), b)
  <2> HIDE DEF rest
  <2> QED  BY <1>3, <1>4, <1>5 DEF Follows, Leads
<1>7. a \in Modes /\ Fits(a, Head(w))
  <2>1. 1 \in 1 .. Len(w) /\ 0 \in 0 .. Len(w)
    BY <1>2
  <2>2. Fits(ms[1 - 1], w[1]) /\ ms[0] = a /\ ms[0] \in Modes
    BY <1>1, <2>1 DEF Leads
  <2> QED  BY <1>2, <2>2
<1> QED  BY <1>2, <1>6, <1>7

\* The keyboard sends a byte.
LEMMA FollowsAppend ==
  ASSUME NEW w \in Seq(Entries), NEW e \in Entries, NEW a, NEW b, Follows(w, a, b), Fits(b, e)
  PROVE  /\ Append(w, e) \in Seq(Entries) /\ b \in Modes
         /\ Follows(Append(w, e), a, After(b, e.byte))
<1>1. PICK ms \in [0 .. Len(w) -> Modes] : Leads(w, ms, a, b)
  BY DEF Follows
<1> DEFINE more == [i \in 0 .. Len(w) + 1 |-> IF i = Len(w) + 1 THEN After(b, e.byte) ELSE ms[i]]
<1>2. /\ Len(w) \in Nat /\ Append(w, e) \in Seq(Entries)
      /\ Len(Append(w, e)) = Len(w) + 1 /\ Append(w, e)[Len(w) + 1] = e
      /\ \A i \in 1 .. Len(w) : Append(w, e)[i] = w[i]
  OBVIOUS
<1>3. b \in Modes /\ e.byte \in 0 .. 255
  BY <1>1, <1>2 DEF Leads, Entries
<1>4. more \in [0 .. Len(w) + 1 -> Modes]
  <2>1. After(b, e.byte) \in Modes
    BY <1>3, AfterMode
  <2> QED  BY <1>2, <2>1
<1>5. more[0] = a /\ more[Len(w) + 1] = After(b, e.byte)
  BY <1>1, <1>2 DEF Leads
<1>6. ASSUME NEW i \in 1 .. Len(w) + 1
      PROVE  /\ more[i] = After(more[i - 1], Append(w, e)[i].byte)
             /\ Fits(more[i - 1], Append(w, e)[i])
  <2>1. CASE i = Len(w) + 1
    <3>1. i - 1 = Len(w) /\ i - 1 \in 0 .. Len(w) + 1 /\ i - 1 # Len(w) + 1
      BY <1>2, <2>1
    <3>2. more[i - 1] = b
      BY <1>1, <3>1 DEF Leads
    <3> QED  BY <1>2, <1>5, <2>1, <3>2
  <2>2. CASE i # Len(w) + 1
    <3>1. i \in 1 .. Len(w) /\ i - 1 \in 0 .. Len(w) + 1 /\ i - 1 # Len(w) + 1
      BY <1>2, <2>2
    <3>2. more[i] = ms[i] /\ more[i - 1] = ms[i - 1]
      BY <3>1, <2>2
    <3> QED  BY <1>1, <1>2, <3>1, <3>2 DEF Leads
  <2> QED  BY <2>1, <2>2
<1>7. Follows(Append(w, e), a, After(b, e.byte))
  <2> HIDE DEF more
  <2> QED  BY <1>2, <1>4, <1>5, <1>6 DEF Follows, Leads
<1> QED  BY <1>2, <1>3, <1>7

------------------------------------------------------------------------------
(* The inductive invariant. *)

UserOK ==
  /\ down \subseteq Keys /\ lamp \in BOOLEAN
  /\ wire \in Seq(Entries)

\* The pointers still to be stored are the ones in switching.
PointersFollow ==
  /\ switching \subseteq Layers /\ target \in Layouts
  /\ mapOf \in [Layers -> Layouts]
  /\ \A l \in Layers \ switching : mapOf[l] = target

CatchesUp == Follows(wire, Decoder, Promised)

KbdInv == UserOK /\ PointersFollow /\ CatchesUp

LEMMA InitKbdInv == InitKbd => KbdInv
<1> SUFFICES ASSUME InitKbd PROVE KbdInv
  OBVIOUS
<1>1. UserOK
  <2>1. down \subseteq Keys /\ lamp \in BOOLEAN
    BY DEF InitKbd, InitUser
  <2>2. wire \in Seq(Entries)
    BY DEF InitKbd, InitUser
  <2> QED  BY <2>1, <2>2 DEF UserOK
<1> USE DEF InitKbd, InitDriver, InitUser
<1>4. PointersFollow
  BY DEF PointersFollow, Layers, Layouts
<1>2. Decoder = Promised /\ Decoder \in Modes
  BY DEF Decoder, Promised, Modes
<1>3. CatchesUp
  BY <1>2, NothingFollows DEF CatchesUp
<1> QED  BY <1>1, <1>3, <1>4 DEF KbdInv

\* One run of the handler is After.
LEMMA HandlerIsAfter ==
  ASSUME Decoder \in Modes, NEW b \in 0 .. 255, HandleByte(b)
  PROVE  Decoder' = After(Decoder, b)
<1> USE DEF PREFIX, BREAK, LSHIFT, RSHIFT, CAPS, ALT
<1>1. shift \in BOOLEAN /\ altgr \in BOOLEAN /\ caps \in BOOLEAN /\ ext \in BOOLEAN
  BY DEF Decoder, Modes
<1>2. CASE Prefix(b)
  <2>1. b = PREFIX /\ shift' = shift /\ altgr' = altgr /\ caps' = caps /\ ext' = TRUE
    BY <1>2 DEF Prefix
  <2> QED  BY <2>1 DEF Decoder, After
<1>3. CASE Release(b)
  <2>1. b # PREFIX /\ b >= BREAK
    BY <1>3 DEF Release, IsBreak
  <2>2. /\ shift' = (shift /\ Released(b) \notin {LSHIFT, RSHIFT})
        /\ altgr' = (altgr /\ ~(ext /\ Released(b) = ALT))
        /\ caps' = caps /\ ext' = FALSE
    BY <1>3 DEF Release
  <2> QED  BY <2>1, <2>2, Zenon DEF Decoder, After
<1>4. CASE MakeShift(b)
  <2>1. /\ b # PREFIX /\ ~(b >= BREAK) /\ b # CAPS /\ b # ALT /\ b \in {LSHIFT, RSHIFT}
    BY <1>4 DEF MakeShift
  <2>2. shift' = TRUE /\ altgr' = altgr /\ caps' = caps /\ ext' = FALSE
    BY <1>4 DEF MakeShift
  <2>3. After(Decoder, b) = [shift |-> TRUE, altgr |-> altgr, caps |-> caps, ext |-> FALSE]
    BY <1>1, <2>1 DEF Decoder, After
  <2> QED  BY <2>2, <2>3 DEF Decoder
<1>5. CASE MakeCaps(b)
  <2>1. b = CAPS /\ b # PREFIX /\ ~(b >= BREAK) /\ b # ALT /\ b \notin {LSHIFT, RSHIFT}
    BY <1>5 DEF MakeCaps
  <2>2. shift' = shift /\ altgr' = altgr /\ caps' = ~caps /\ ext' = FALSE
    BY <1>5 DEF MakeCaps
  <2>3. After(Decoder, b) = [shift |-> shift, altgr |-> altgr, caps |-> ~caps, ext |-> FALSE]
    BY <1>1, <2>1 DEF Decoder, After
  <2> QED  BY <2>2, <2>3 DEF Decoder
<1>6. CASE MakeAltGr(b)
  <2>1. b = ALT /\ ext /\ b # PREFIX /\ ~(b >= BREAK) /\ b # CAPS /\ b \notin {LSHIFT, RSHIFT}
    BY <1>6 DEF MakeAltGr
  <2>2. shift' = shift /\ altgr' = TRUE /\ caps' = caps /\ ext' = FALSE
    BY <1>6 DEF MakeAltGr
  <2>3. After(Decoder, b) = [shift |-> shift, altgr |-> TRUE, caps |-> caps, ext |-> FALSE]
    BY <1>1, <2>1 DEF Decoder, After
  <2> QED  BY <2>2, <2>3 DEF Decoder
<1>7. CASE MakeChar(b)
  <2>1. /\ b # PREFIX /\ ~(b >= BREAK) /\ b \notin {LSHIFT, RSHIFT, CAPS}
        /\ ~(b = ALT /\ ext)
    BY <1>7 DEF MakeChar, IsCharMake
  <2>2. shift' = shift /\ altgr' = altgr /\ caps' = caps /\ ext' = FALSE
    BY <1>7 DEF MakeChar
  <2>3. After(Decoder, b) = [shift |-> shift, altgr |-> altgr, caps |-> caps, ext |-> FALSE]
    BY <1>1, <2>1 DEF Decoder, After
  <2> QED  BY <2>2, <2>3 DEF Decoder
<1> QED  BY <1>2, <1>3, <1>4, <1>5, <1>6, <1>7 DEF HandleByte

\* The interrupt takes the decoder one mode further.
LEMMA HandlerKbdInv == ASSUME KbdInv, KeyboardHandler PROVE KbdInv'
<1>1. wire # <<>> /\ HandleByte(Head(wire).byte) /\ wire' = Tail(wire)
      /\ UNCHANGED <<mapVars, down, lamp>>
  BY DEF KeyboardHandler
<1>2. wire \in Seq(Entries) /\ Follows(wire, Decoder, Promised)
  BY DEF KbdInv, UserOK, CatchesUp
<1>3. /\ Head(wire) \in Entries /\ Tail(wire) \in Seq(Entries) /\ Decoder \in Modes
      /\ Follows(Tail(wire), After(Decoder, Head(wire).byte), Promised)
  BY <1>1, <1>2, FollowsTail
<1>4. Head(wire).byte \in 0 .. 255
  BY <1>3 DEF Entries
<1>5. Decoder' = After(Decoder, Head(wire).byte)
  BY <1>1, <1>3, <1>4, HandlerIsAfter
<1>6. Promised' = Promised
  BY <1>1 DEF Promised
<1>7. CatchesUp'
  BY <1>1, <1>3, <1>5, <1>6 DEF CatchesUp
<1>8. UserOK' /\ PointersFollow'
  BY <1>1, <1>3 DEF KbdInv, UserOK, PointersFollow, mapVars
<1> QED  BY <1>7, <1>8 DEF KbdInv

------------------------------------------------------------------------------
(* What the keys send. *)

LEMMA PromisedMode ==
  ASSUME UserOK
  PROVE  /\ Promised \in Modes /\ LayerOf(down) \in Layers
         /\ LayerIn(Promised) = LayerOf(down)
         /\ LayerIn([Promised EXCEPT !.ext = TRUE]) = LayerOf(down)
<1>1. lamp \in BOOLEAN
  BY DEF UserOK
<1>2. Promised \in Modes
  BY <1>1 DEF Promised, Modes
<1>3. LayerIn(Promised) = LayerOf(down)
  BY DEF LayerIn, LayerOf, Promised
<1>4. LayerIn([Promised EXCEPT !.ext = TRUE]) = LayerIn(Promised)
  BY DEF LayerIn, Promised
<1>5. LayerOf(down) \in Layers
  BY DEF LayerOf, Layers
<1> QED  BY <1>2, <1>3, <1>4, <1>5

\* What the held keys promise for a byte sent now.
Stamped(c) == [byte |-> c, layer |-> LayerOf(down), lit |-> lamp]

LEMMA StampFits ==
  ASSUME UserOK, NEW c \in 0 .. 255
  PROVE  /\ Stamped(c) \in Entries
         /\ Fits(Promised, Stamped(c)) /\ Fits([Promised EXCEPT !.ext = TRUE], Stamped(c))
<1>1. lamp \in BOOLEAN /\ LayerOf(down) \in Layers
  BY PromisedMode DEF UserOK
<1>2. Promised.caps = lamp /\ [Promised EXCEPT !.ext = TRUE].caps = lamp
  BY DEF Promised
<1> QED  BY <1>1, <1>2, PromisedMode DEF Stamped, Entries, Fits

\* A code of one byte.
LEMMA SendsOne ==
  ASSUME UserOK, CatchesUp, NEW c \in 0 .. 255, Send(<<c>>, LayerOf(down), lamp)
  PROVE  wire' \in Seq(Entries) /\ Follows(wire', Decoder, After(Promised, c))
<1>1. wire' = wire \o [i \in 1 .. 1 |-> Stamped(c)]
  BY DEF Send, Stamped
<1>2. wire \in Seq(Entries) /\ Stamped(c) \in Entries
  BY StampFits DEF UserOK
<1>3. wire' = Append(wire, Stamped(c))
  BY <1>1, <1>2
<1>4. Stamped(c).byte = c
  BY DEF Stamped
<1>5. Follows(wire, Decoder, Promised) /\ Fits(Promised, Stamped(c))
  BY StampFits DEF CatchesUp
<1> QED  BY <1>2, <1>3, <1>4, <1>5, FollowsAppend

\* An extended code.
LEMMA SendsTwo ==
  ASSUME UserOK, CatchesUp, NEW c \in 0 .. 255, Send(<<PREFIX, c>>, LayerOf(down), lamp)
  PROVE  /\ wire' \in Seq(Entries)
         /\ Follows(wire', Decoder, After([Promised EXCEPT !.ext = TRUE], c))
<1> DEFINE both == <<PREFIX, c>>
           sent == [i \in 1 .. 2 |-> Stamped(both[i])]
<1>1. wire' = wire \o sent
  <2>1. Len(both) = 2
    OBVIOUS
  <2>2. wire' = wire \o [i \in 1 .. Len(both) |-> Stamped(both[i])]
    BY DEF Send, Stamped
  <2> QED  BY <2>1, <2>2
<1>2. wire \in Seq(Entries) /\ Stamped(c) \in Entries /\ Stamped(PREFIX) \in Entries
      /\ PREFIX \in 0 .. 255
  <2>1. PREFIX \in 0 .. 255
    BY DEF PREFIX
  <2> QED  BY <2>1, StampFits DEF UserOK
<1>3. wire' = Append(Append(wire, Stamped(PREFIX)), Stamped(c))
  <2>1. sent \in Seq(Entries) /\ Len(sent) = 2 /\ sent[1] = Stamped(PREFIX) /\ sent[2] = Stamped(c)
    <3>1. both[1] = PREFIX /\ both[2] = c
      OBVIOUS
    <3>2. \A i \in 1 .. 2 : Stamped(both[i]) \in Entries
      BY <1>2, <3>1
    <3> QED  BY <3>1, <3>2
  <2>2. Append(Append(wire, Stamped(PREFIX)), Stamped(c)) \in Seq(Entries)
    BY <1>2
  <2> HIDE DEF sent
  <2>3. wire \o sent \in Seq(Entries)
    BY <1>2, <2>1
  <2> DEFINE one == Append(wire, Stamped(PREFIX))
             two == Append(one, Stamped(c))
  <2>a. /\ one \in Seq(Entries) /\ Len(wire) \in Nat /\ Len(one) = Len(wire) + 1
        /\ one[Len(wire) + 1] = Stamped(PREFIX)
        /\ \A i \in 1 .. Len(wire) : one[i] = wire[i]
    BY <1>2
  <2> HIDE DEF one
  <2>b. /\ Len(two) = Len(wire) + 2
        /\ two[Len(wire) + 2] = Stamped(c) /\ two[Len(wire) + 1] = Stamped(PREFIX)
        /\ \A i \in 1 .. Len(wire) : two[i] = wire[i]
    BY <1>2, <2>a
  <2>4. /\ Len(wire \o sent) = Len(wire) + 2
        /\ (wire \o sent)[Len(wire) + 1] = Stamped(PREFIX)
        /\ (wire \o sent)[Len(wire) + 2] = Stamped(c)
        /\ \A i \in 1 .. Len(wire) : (wire \o sent)[i] = wire[i]
    <3>1. /\ Len(wire \o sent) = Len(wire) + Len(sent)
          /\ \A i \in 1 .. Len(wire) + Len(sent) :
               (wire \o sent)[i] = IF i <= Len(wire) THEN wire[i] ELSE sent[i - Len(wire)]
      BY <1>2, <2>1, ConcatProperties
    <3>2. (Len(wire) + 1) - Len(wire) = 1 /\ (Len(wire) + 2) - Len(wire) = 2
      BY <2>a
    <3> QED  BY <2>1, <2>a, <3>1, <3>2
  <2>5. ASSUME NEW i \in 1 .. Len(wire) + 2
        PROVE  (wire \o sent)[i] = two[i]
    <3>1. i \in 1 .. Len(wire) \/ i = Len(wire) + 1 \/ i = Len(wire) + 2
      BY <2>a
    <3> HIDE DEF two
    <3> QED  BY <2>b, <2>4, <3>1
  <2>c. Len(two) = Len(wire) + 2
    BY <2>b
  <2> HIDE DEF two
  <2>6. two \in Seq(Entries)
    BY <2>2 DEF two, one
  <2>7. wire \o sent = two
    BY <2>3, <2>c, <2>4, <2>5, <2>6, SeqEqual
  <2> QED  BY <1>1, <2>7 DEF two, one
<1>4. Stamped(c).byte = c /\ Stamped(PREFIX).byte = PREFIX
  BY DEF Stamped
<1>5. Follows(wire, Decoder, Promised) /\ Fits(Promised, Stamped(PREFIX))
  BY <1>2, StampFits DEF CatchesUp
<1>6. /\ Append(wire, Stamped(PREFIX)) \in Seq(Entries)
      /\ Follows(Append(wire, Stamped(PREFIX)), Decoder, After(Promised, PREFIX))
  BY <1>2, <1>4, <1>5, FollowsAppend
<1>7. After(Promised, PREFIX) = [Promised EXCEPT !.ext = TRUE]
  BY DEF After
<1>8. Fits([Promised EXCEPT !.ext = TRUE], Stamped(c))
  BY StampFits
<1> QED  BY <1>2, <1>3, <1>4, <1>6, <1>7, <1>8, FollowsAppend

\* What a make or a break code of a key tells the decoder.
Pressed(k) ==
  [shift |-> Promised.shift \/ k \in ShiftKeys, altgr |-> Promised.altgr \/ k \in AltGrKeys,
   caps |-> lamp # (k \in CapsKeys), ext |-> FALSE]
LetGo(k) ==
  [shift |-> Promised.shift /\ k \notin ShiftKeys, altgr |-> Promised.altgr /\ k \notin AltGrKeys,
   caps |-> lamp, ext |-> FALSE]

\* The decoder between the prefix and the code of an extended key.
Extended == [Promised EXCEPT !.ext = TRUE]

LEMMA ExtendedMode ==
  ASSUME UserOK
  PROVE  /\ Extended \in Modes /\ Extended.ext = TRUE /\ Extended.shift = Promised.shift
         /\ Extended.altgr = Promised.altgr /\ Extended.caps = lamp
         /\ Promised \in Modes /\ Promised.ext = FALSE /\ Promised.caps = lamp
<1>1. Promised \in Modes
  BY PromisedMode
<1> QED  BY <1>1 DEF Extended, Modes, Promised

LEMMA MakeByte ==
  ASSUME NEW m \in Modes, NEW c \in 0 .. BREAK - 1
  PROVE  After(m, c) = [shift |-> m.shift \/ c \in {LSHIFT, RSHIFT},
                        altgr |-> m.altgr \/ (c = ALT /\ m.ext),
                        caps  |-> m.caps # (c = CAPS), ext |-> FALSE]
<1>1. c # PREFIX /\ ~(c >= BREAK)
  BY DEF PREFIX, BREAK
<1> QED  BY <1>1, Zenon DEF After

LEMMA BreakByte ==
  ASSUME NEW m \in Modes, NEW c \in 0 .. BREAK - 1, c # PREFIX - BREAK
  PROVE  After(m, c + BREAK) = [shift |-> m.shift /\ c \notin {LSHIFT, RSHIFT},
                                altgr |-> m.altgr /\ ~(m.ext /\ c = ALT),
                                caps  |-> m.caps, ext |-> FALSE]
<1>1. c + BREAK # PREFIX /\ c + BREAK >= BREAK /\ Released(c + BREAK) = c
  BY DEF PREFIX, BREAK, Released
<1> QED  BY <1>1, Zenon DEF After

\* Every key has a code the decoder tells from those of the other kinds of key.
LEMMA CodeOf ==
  ASSUME NEW k \in Keys
  PROVE  \E c \in 0 .. BREAK - 1 :
           /\ c # PREFIX - BREAK
           /\ (k \in ShiftKeys <=> c \in {LSHIFT, RSHIFT}) /\ (k \in CapsKeys <=> c = CAPS)
           /\ \/ k \notin AltGrKeys /\ Sends(k, c)
              \/ (k \in AltGrKeys <=> c = ALT) /\ SendsExtended(k, c)
<1>1. LSHIFT \in 0 .. BREAK - 1 /\ RSHIFT \in 0 .. BREAK - 1 /\ CAPS \in 0 .. BREAK - 1
      /\ ALT \in 0 .. BREAK - 1 /\ PREFIX - BREAK \notin {LSHIFT, RSHIFT, CAPS, ALT}
      /\ CAPS \notin {LSHIFT, RSHIFT} /\ ALT \notin {LSHIFT, RSHIFT} /\ ALT # CAPS
  BY DEF LSHIFT, RSHIFT, CAPS, ALT, BREAK, PREFIX
<1>2. /\ ShiftKeys \cap AltGrKeys = {} /\ ShiftKeys \cap CapsKeys = {}
      /\ AltGrKeys \cap CapsKeys = {}
  BY KeysAssumption
<1>3. CASE k \in ShiftKeys
  <2>1. Sends(k, LSHIFT) \/ Sends(k, RSHIFT)
    BY <1>3, KeysAssumption
  <2> QED  BY <1>1, <1>2, <1>3, <2>1, Zenon
<1>4. CASE k \in AltGrKeys
  <2>1. SendsExtended(k, ALT)
    BY <1>4, KeysAssumption
  <2> QED  BY <1>1, <1>2, <1>4, <2>1, Zenon
<1>5. CASE k \in CapsKeys
  <2>1. Sends(k, CAPS)
    BY <1>5, KeysAssumption
  <2> QED  BY <1>1, <1>2, <1>5, <2>1, Zenon
<1>6. CASE k \notin ShiftKeys /\ k \notin AltGrKeys /\ k \notin CapsKeys
  <2>1. PICK c \in OrdinaryCodes : Sends(k, c) \/ (c # ALT /\ SendsExtended(k, c))
    BY <1>6, KeysAssumption, Zenon
  <2>2. c \in 0 .. BREAK - 1 /\ c # PREFIX - BREAK /\ c \notin {LSHIFT, RSHIFT} /\ c # CAPS
    BY <2>1 DEF OrdinaryCodes
  <2> QED  BY <1>6, <2>1, <2>2, Zenon
<1> QED  BY <1>3, <1>4, <1>5, <1>6

LEMMA MakeTells ==
  ASSUME UserOK, CatchesUp, NEW k \in Keys, Send(MakeCode[k], LayerOf(down), lamp)
  PROVE  wire' \in Seq(Entries) /\ Follows(wire', Decoder, Pressed(k))
<1>1. PICK c \in 0 .. BREAK - 1 :
        /\ (k \in ShiftKeys <=> c \in {LSHIFT, RSHIFT}) /\ (k \in CapsKeys <=> c = CAPS)
        /\ \/ k \notin AltGrKeys /\ Sends(k, c)
           \/ (k \in AltGrKeys <=> c = ALT) /\ SendsExtended(k, c)
  BY CodeOf
<1>2. c \in 0 .. 255
  BY DEF BREAK
<1>3. CASE k \notin AltGrKeys /\ Sends(k, c)
  <2>1. After(Promised, c) = Pressed(k)
    <3>1. (c \in {LSHIFT, RSHIFT}) = (k \in ShiftKeys) /\ (c = CAPS) = (k \in CapsKeys)
      BY <1>1
    <3>2. (Promised.altgr \/ (c = ALT /\ Promised.ext)) = (Promised.altgr \/ k \in AltGrKeys)
      BY <1>3, ExtendedMode
    <3>3. After(Promised, c) = [shift |-> Promised.shift \/ c \in {LSHIFT, RSHIFT},
                             altgr |-> Promised.altgr \/ (c = ALT /\ Promised.ext),
                             caps  |-> Promised.caps # (c = CAPS), ext |-> FALSE]
      BY MakeByte, ExtendedMode
    <3>4. Promised.shift = Promised.shift /\ Promised.caps = lamp
      BY ExtendedMode
    <3> QED  BY <3>1, <3>2, <3>3, <3>4, Zenon DEF Pressed
  <2> QED  BY <1>2, <1>3, <2>1, SendsOne DEF Sends
<1>4. CASE (k \in AltGrKeys <=> c = ALT) /\ SendsExtended(k, c)
  <2>1. After(Extended, c) = Pressed(k)
    <3>1. (c \in {LSHIFT, RSHIFT}) = (k \in ShiftKeys) /\ (c = CAPS) = (k \in CapsKeys)
      BY <1>1
    <3>2. (Extended.altgr \/ (c = ALT /\ Extended.ext)) = (Promised.altgr \/ k \in AltGrKeys)
      BY <1>4, ExtendedMode
    <3>3. After(Extended, c) = [shift |-> Extended.shift \/ c \in {LSHIFT, RSHIFT},
                             altgr |-> Extended.altgr \/ (c = ALT /\ Extended.ext),
                             caps  |-> Extended.caps # (c = CAPS), ext |-> FALSE]
      BY MakeByte, ExtendedMode
    <3>4. Extended.shift = Promised.shift /\ Extended.caps = lamp
      BY ExtendedMode
    <3> QED  BY <3>1, <3>2, <3>3, <3>4, Zenon DEF Pressed
  <2> QED  BY <1>2, <1>4, <2>1, SendsTwo DEF SendsExtended, Extended
<1> QED  BY <1>1, <1>3, <1>4

LEMMA BreakTells ==
  ASSUME UserOK, CatchesUp, NEW k \in Keys, Send(BreakCode[k], LayerOf(down), lamp)
  PROVE  wire' \in Seq(Entries) /\ Follows(wire', Decoder, LetGo(k))
<1>1. PICK c \in 0 .. BREAK - 1 :
        /\ c # PREFIX - BREAK
        /\ (k \in ShiftKeys <=> c \in {LSHIFT, RSHIFT}) /\ (k \in CapsKeys <=> c = CAPS)
        /\ \/ k \notin AltGrKeys /\ Sends(k, c)
           \/ (k \in AltGrKeys <=> c = ALT) /\ SendsExtended(k, c)
  BY CodeOf
<1>2. c + BREAK \in 0 .. 255
  BY DEF BREAK
<1>3. CASE k \notin AltGrKeys /\ Sends(k, c)
  <2>1. After(Promised, c + BREAK) = LetGo(k)
    BY <1>1, <1>3, BreakByte, ExtendedMode, Zenon DEF LetGo
  <2> QED  BY <1>2, <1>3, <2>1, SendsOne DEF Sends
<1>4. CASE (k \in AltGrKeys <=> c = ALT) /\ SendsExtended(k, c)
  <2>1. After(Extended, c + BREAK) = LetGo(k)
    BY <1>1, <1>4, BreakByte, ExtendedMode, Zenon DEF LetGo
  <2> QED  BY <1>2, <1>4, <2>1, SendsTwo DEF SendsExtended, Extended
<1> QED  BY <1>1, <1>3, <1>4

LEMMA PressKbdInv == ASSUME KbdInv, NEW k \in Keys, PressKey(k), UNCHANGED modVars PROVE UserOK' /\ CatchesUp'
<1>1. UserOK /\ CatchesUp /\ Send(MakeCode[k], LayerOf(down), lamp)
      /\ down' = down \cup {k} /\ lamp' = (lamp # (k \in CapsKeys))
  BY DEF KbdInv, PressKey
<1>2. wire' \in Seq(Entries) /\ Follows(wire', Decoder, Pressed(k))
  BY <1>1, MakeTells
<1>3. Promised' = Pressed(k)
  <2>1. /\ (down' \cap ShiftKeys # {}) = (Promised.shift \/ k \in ShiftKeys)
        /\ (down' \cap AltGrKeys # {}) = (Promised.altgr \/ k \in AltGrKeys)
    BY <1>1 DEF Promised
  <2> QED  BY <1>1, <2>1 DEF Promised, Pressed
<1>4. Decoder' = Decoder
  BY DEF Decoder, modVars
<1> QED  BY <1>1, <1>2, <1>3, <1>4 DEF UserOK, CatchesUp

\* There is one Shift key: when it goes up no Shift is held.
LEMMA ReleaseKbdInv == ASSUME KbdInv, NEW k \in Keys, ReleaseKey(k), UNCHANGED modVars PROVE UserOK' /\ CatchesUp'
<1>1. UserOK /\ CatchesUp /\ Send(BreakCode[k], LayerOf(down), lamp)
      /\ k \in down /\ down' = down \ {k} /\ lamp' = lamp
  BY DEF KbdInv, ReleaseKey
<1>2. wire' \in Seq(Entries) /\ Follows(wire', Decoder, LetGo(k))
  BY <1>1, BreakTells
<1>3. Promised' = LetGo(k)
  <2>1. /\ \A i, j \in ShiftKeys : i = j
        /\ \A i, j \in AltGrKeys : i = j
    BY KeysAssumption
  <2>2. /\ (down' \cap ShiftKeys # {}) = (Promised.shift /\ k \notin ShiftKeys)
        /\ (down' \cap AltGrKeys # {}) = (Promised.altgr /\ k \notin AltGrKeys)
    BY <1>1, <2>1 DEF Promised
  <2> QED  BY <1>1, <2>2 DEF Promised, LetGo
<1>4. Decoder' = Decoder
  BY DEF Decoder, modVars
<1> QED  BY <1>1, <1>2, <1>3, <1>4 DEF UserOK, CatchesUp

\* A key that repeats is held already, and Caps Lock does not repeat.
LEMMA RepeatKbdInv == ASSUME KbdInv, NEW k \in Keys, RepeatKey(k), UNCHANGED modVars PROVE UserOK' /\ CatchesUp'
<1>1. UserOK /\ CatchesUp /\ Send(MakeCode[k], LayerOf(down), lamp)
      /\ k \in down /\ k \in Typematic /\ UNCHANGED <<down, lamp>>
  BY DEF KbdInv, RepeatKey
<1>2. wire' \in Seq(Entries) /\ Follows(wire', Decoder, Pressed(k))
  BY <1>1, MakeTells
<1>3. Promised' = Pressed(k)
  <2>1. k \notin CapsKeys /\ lamp \in BOOLEAN
    <3>1. Typematic \cap CapsKeys = {}
      BY KeysAssumption
    <3> QED  BY <1>1, <3>1 DEF UserOK
  <2>2. /\ (down \cap ShiftKeys # {}) = (Promised.shift \/ k \in ShiftKeys)
        /\ (down \cap AltGrKeys # {}) = (Promised.altgr \/ k \in AltGrKeys)
    BY <1>1 DEF Promised
  <2>3. lamp = (lamp # (k \in CapsKeys))
    <3>1. (k \in CapsKeys) = FALSE
      BY <2>1
    <3>2. lamp = TRUE \/ lamp = FALSE
      BY <2>1
    <3> QED  BY <3>1, <3>2, Zenon
  <2> QED  BY <1>1, <2>2, <2>3 DEF Promised, Pressed
<1>4. Decoder' = Decoder
  BY DEF Decoder, modVars
<1> QED  BY <1>1, <1>2, <1>3, <1>4 DEF UserOK, CatchesUp

LEMMA UserKbdInv == ASSUME KbdInv, User PROVE KbdInv'
<1>1. PICK k \in Keys : PressKey(k) \/ ReleaseKey(k) \/ RepeatKey(k)
  BY DEF User
<1>2. UserOK' /\ CatchesUp'
  BY <1>1, PressKbdInv, ReleaseKbdInv, RepeatKbdInv DEF User
<1>3. PointersFollow'
  BY DEF User, mapVars, KbdInv, PointersFollow
<1> QED  BY <1>2, <1>3 DEF KbdInv

------------------------------------------------------------------------------
(* The layout, and the reader of the queue. *)

\* Nothing that leaves the bytes, the keys and the modifiers alone matters.
LEMMA SameKeys ==
  ASSUME UserOK, CatchesUp, UNCHANGED <<modVars, userVars>>
  PROVE  UserOK' /\ CatchesUp'
<1>1. Decoder' = Decoder /\ Promised' = Promised /\ wire' = wire /\ down' = down /\ lamp' = lamp
  BY DEF Decoder, Promised, modVars, userVars
<1> QED  BY <1>1 DEF UserOK, CatchesUp

LEMMA SetLayoutKbdInv == ASSUME KbdInv, NEW l \in Layouts, SetLayout(l) PROVE KbdInv'
<1>1. UserOK' /\ CatchesUp'
  BY SameKeys DEF KbdInv, SetLayout
<1>2. PointersFollow'
  BY DEF KbdInv, PointersFollow, SetLayout
<1> QED  BY <1>1, <1>2 DEF KbdInv

LEMMA StoreMapKbdInv == ASSUME KbdInv, NEW y \in Layers, StoreMap(y) PROVE KbdInv'
<1>1. UserOK' /\ CatchesUp'
  BY SameKeys DEF KbdInv, StoreMap
<1>2. PointersFollow'
  BY DEF KbdInv, PointersFollow, StoreMap
<1> QED  BY <1>1, <1>2 DEF KbdInv

LEMMA NextKbdInv == KbdInv /\ [NextKbd]_kbdVars => KbdInv'
<1> SUFFICES ASSUME KbdInv, [NextKbd]_kbdVars PROVE KbdInv'
  OBVIOUS
<1>1. CASE User
  BY <1>1, UserKbdInv
<1>2. CASE KeyboardHandler
  BY <1>2, HandlerKbdInv
<1>3. CASE \E l \in Layouts : SetLayout(l)
  BY <1>3, SetLayoutKbdInv
<1>4. CASE \E y \in Layers : StoreMap(y)
  BY <1>4, StoreMapKbdInv
<1>5. CASE UNCHANGED <<modVars, mapVars, userVars>>
  <2>1. UserOK' /\ CatchesUp'
    BY <1>5, SameKeys DEF KbdInv
  <2>2. PointersFollow'
    BY <1>5 DEF KbdInv, PointersFollow, mapVars
  <2> QED  BY <2>1, <2>2 DEF KbdInv
<1> QED  BY <1>1, <1>2, <1>3, <1>4, <1>5 DEF NextKbd, kbdVars

\* The decoder can always catch up with the keyboard (keyboard.c:257-292).
THEOREM DecoderCatchesUp == SpecKbd => []KbdInv
<1> QED  BY InitKbdInv, NextKbdInv, PTL DEF SpecKbd

\* When every byte has been handled, kb_shift, kb_altgr and kb_caps are what
\* the keys and the lamp say and no prefix is pending (keyboard.c:257-285).
THEOREM ModifiersAgree == SpecKbd => []ModifiersTrackKeys
<1>1. KbdInv => ModifiersTrackKeys
  <2> SUFFICES ASSUME KbdInv, wire = <<>>
               PROVE  /\ shift <=> down \cap ShiftKeys # {}
                      /\ altgr <=> down \cap AltGrKeys # {}
                      /\ caps <=> lamp
                      /\ ~ext
    BY DEF ModifiersTrackKeys
  <2>1. Decoder = Promised
    BY FollowsNothing DEF KbdInv, CatchesUp
  <2>2. shift = (down \cap ShiftKeys # {}) /\ altgr = (down \cap AltGrKeys # {})
        /\ caps = lamp /\ ext = FALSE
    BY <2>1 DEF Decoder, Promised
  <2> QED  BY <2>2
<1> QED  BY <1>1, DecoderCatchesUp, PTL

\* A byte decodes to the character that was promised when its key went down,
\* in the layout keyboard_get_layout names, however many bytes, releases and
\* layout switches later it is handled (keyboard.c:257-310).
THEOREM TypedIsDecoded == SpecKbd => []DecodesAsTyped
<1>1. KbdInv => DecodesAsTyped
  <2> SUFFICES ASSUME KbdInv, wire # <<>>, switching = {}, IsCharMake(Head(wire).byte)
               PROVE  Decode(Head(wire).byte) = Typed(Head(wire))
    BY DEF DecodesAsTyped
  <2>1. Fits(Decoder, Head(wire)) /\ Decoder \in Modes
    BY FollowsTail DEF KbdInv, UserOK, CatchesUp
  <2>2. Decoder.altgr = altgr /\ Decoder.shift = shift /\ Decoder.caps = caps
        /\ Decoder.ext = ext
    BY DEF Decoder
  <2>3. Head(wire).layer = ActiveLayer /\ Head(wire).lit = caps
    BY <2>1, <2>2 DEF Fits, LayerIn, ActiveLayer, IsCharMake
  <2>4. mapOf[ActiveLayer] = GetLayout
    BY DEF KbdInv, PointersFollow, GetLayout, ActiveLayer, Layers
  <2> QED  BY <2>3, <2>4 DEF Decode, Typed
<1> QED  BY <1>1, DecoderCatchesUp, PTL
==============================================================================
