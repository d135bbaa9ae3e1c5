---------------------------- MODULE ConsoleProofs ----------------------------
(***************************************************************************)
(* Proofs about KeyRing and Console, for every buffer size, every set of   *)
(* stray IRQs and every bound.                                             *)
(*                                                                         *)
(* First the ring by itself: type correctness, the stability of what the   *)
(* reader holds, and the refinement of LossyFifo.  Then the console around *)
(* it: no byte is left without its interrupt, the PIC and the CPU agree on *)
(* what is in service, and the shell never sleeps inside keyboard_getchar. *)
(*                                                                         *)
(* The parts of the console's invariant lean on each other.  That a byte   *)
(* waits when the handler of IRQ 1 reads the port needs that IRQ 1 is not  *)
(* requested while that handler is about to read; that an EOI retires the  *)
(* IRQ that sent it needs that everything else in service is a stray IRQ   *)
(* of lower priority; that keyboard_getchar finds data needs that kb_push  *)
(* never makes the ring look empty.                                        *)
(***************************************************************************)
EXTENDS Console, SequenceTheorems, TLAPS

(***************************************************************************)
(*                                The ring                                 *)
(***************************************************************************)

\* The increment and remainder of the code, as the two cases the proofs use.
LEMMA NextSlotCases ==
  ASSUME NEW i \in Slots
  PROVE  /\ NextSlot(i) \in Slots
         /\ NextSlot(i) = IF i + 1 = Size THEN 0 ELSE i + 1
<1>1. Size \in Nat /\ Size >= 2
  BY SizeAssumption
<1>2. CASE i + 1 = Size
  <2>1. Size % Size = 0
    BY <1>1
  <2> QED
    BY <1>1, <1>2, <2>1 DEF NextSlot, Slots
<1>3. CASE i + 1 # Size
  <2>1. i + 1 \in 0 .. Size - 1
    BY <1>1, <1>3 DEF Slots
  <2>2. (i + 1) % Size = i + 1
    BY <1>1, <2>1
  <2> QED
    BY <1>3, <2>1, <2>2 DEF NextSlot, Slots
<1> QED
  BY <1>2, <1>3

------------------------------------------------------------------------------
(* The inductive invariant. *)

IInv == TypeOK /\ ReaderStable /\ UnreadAreChars

\* How the number of waiting characters follows the two indices.
LEMMA CountBounds ==
  ASSUME TypeOK
  PROVE  /\ Count \in 0 .. Size - 1
         /\ Count = 0 <=> RingEmpty
         /\ NextSlot(head) = tail <=> Count = Size - 1
         /\ \A k \in 0 .. Size - 1 : SlotOf(k) \in Slots
         /\ SlotOf(Count) = head
         /\ SlotOf(0) = tail
         /\ \A j, k \in 0 .. Size - 1 : SlotOf(j) = SlotOf(k) => j = k
<1>1. /\ Size \in Nat
      /\ Size >= 2
      /\ head \in Slots
      /\ tail \in Slots
  BY SizeAssumption DEF TypeOK
<1>2. NextSlot(head) = IF head + 1 = Size THEN 0 ELSE head + 1
  BY <1>1, NextSlotCases
<1> QED
  BY <1>1, <1>2 DEF Count, SlotOf, RingEmpty, Slots

\* An accepted character lands behind the others and moves none of them.
LEMMA PushStored ==
  ASSUME TypeOK, NEW c \in Char, Push(c), NextSlot(head) # tail
  PROVE  /\ Count' = Count + 1
         /\ \A k \in 0 .. Size - 1 : SlotOf(k)' = SlotOf(k)
         /\ \A k \in 0 .. Size - 1 : k < Count => buffer'[SlotOf(k)] = buffer[SlotOf(k)]
         /\ buffer'[SlotOf(Count)] = c
<1>1. /\ Size \in Nat
      /\ Size >= 2
      /\ head \in Slots
      /\ tail \in Slots
      /\ buffer \in [Slots -> Char \cup {NUL}]
  BY SizeAssumption DEF TypeOK
<1>2. NextSlot(head) = IF head + 1 = Size THEN 0 ELSE head + 1
  BY <1>1, NextSlotCases
<1>3. /\ buffer' = [buffer EXCEPT ![head] = c]
      /\ head' = NextSlot(head)
      /\ tail' = tail
  BY DEF Push
<1>4. \A k \in 0 .. Size - 1 : SlotOf(k)' = SlotOf(k)
  BY <1>3 DEF SlotOf
<1>5. Count' = Count + 1
  BY <1>1, <1>2, <1>3 DEF Count, Slots
<1>6. ASSUME NEW k \in 0 .. Size - 1, k < Count
      PROVE  buffer'[SlotOf(k)] = buffer[SlotOf(k)]
  <2>1. SlotOf(k) \in Slots /\ SlotOf(k) # head
    BY <1>6, CountBounds
  <2> QED
    BY <1>1, <1>3, <2>1
<1>7. buffer'[SlotOf(Count)] = c
  BY <1>1, <1>3, CountBounds
<1> QED
  BY <1>4, <1>5, <1>6, <1>7

\* Returning a character shifts the others one place towards the front.
LEMMA AdvanceShifts ==
  ASSUME TypeOK, ~RingEmpty, Advance
  PROVE  /\ Count' = Count - 1
         /\ \A k \in 0 .. Size - 2 : k < Count' => SlotOf(k)' = SlotOf(k + 1)
<1>1. /\ Size \in Nat
      /\ Size >= 2
      /\ head \in Slots
      /\ tail \in Slots
  BY SizeAssumption DEF TypeOK
<1>2. tail' = (IF tail + 1 = Size THEN 0 ELSE tail + 1) /\ head' = head
  BY <1>1, NextSlotCases DEF Advance
<1> QED
  BY <1>1, <1>2 DEF Count, SlotOf, Slots, RingEmpty

------------------------------------------------------------------------------
(* Invariance. *)

\* An empty ring, an idle reader.
LEMMA InitIInv == Init => IInv
<1> SUFFICES ASSUME Init PROVE IInv
  OBVIOUS
<1>1. Size \in Nat /\ Size >= 2
  BY SizeAssumption
<1>2. TypeOK
  <2>1. 0 \in Slots
    BY <1>1 DEF Slots
  <2> QED
    BY <2>1, Zenon DEF Init, InitRing, InitReader, TypeOK, ReaderPCs
<1>3. ReaderStable
  BY DEF Init, InitReader, ReaderStable
<1>4. UnreadAreChars
  <2>1. Count = 0
    BY <1>1 DEF Init, InitRing, Count
  <2> QED
    BY <1>1, <2>1 DEF UnreadAreChars
<1> QED
  BY <1>2, <1>3, <1>4 DEF IInv

\* kb_push: the new character goes to a slot nobody reads.
LEMMA PushIInv ==
  ASSUME IInv, NEW c \in Char, Push(c), UNCHANGED readerVars
  PROVE  IInv'
<1>1. /\ Size \in Nat
      /\ Size >= 2
      /\ TypeOK
      /\ head \in Slots
      /\ tail \in Slots
      /\ buffer \in [Slots -> Char \cup {NUL}]
      /\ <<rpc, blocking, loaded, result>>' = <<rpc, blocking, loaded, result>>
  BY SizeAssumption DEF IInv, TypeOK, readerVars
<1>2. CASE NextSlot(head) = tail
  <2>1. UNCHANGED <<buffer, head, tail>>
    BY <1>2 DEF Push, ringVars
  <2> QED
    BY <1>1, <2>1 DEF IInv, TypeOK, ReaderStable, UnreadAreChars, RingEmpty, Count, SlotOf
<1>3. CASE NextSlot(head) # tail
  <2>1. /\ buffer' = [buffer EXCEPT ![head] = c]
        /\ head' = NextSlot(head)
        /\ tail' = tail
    BY <1>3 DEF Push
  <2>2. NextSlot(head) \in Slots
    BY <1>1, NextSlotCases
  <2>3. TypeOK'
    BY <1>1, <2>1, <2>2 DEF TypeOK
  <2>4. ReaderStable'
    <3>1. ~RingEmpty => buffer'[tail] = buffer[tail]
      BY <1>1, <2>1 DEF RingEmpty
    <3>2. ~RingEmpty'
      BY <1>3, <2>1 DEF RingEmpty
    <3> QED
      BY <1>1, <2>1, <3>1, <3>2 DEF IInv, ReaderStable
  <2>5. UnreadAreChars'
    <3>1. SUFFICES ASSUME NEW k \in 0 .. Size - 1, k < Count'
                   PROVE  buffer'[SlotOf(k)'] \in Char
      BY DEF UnreadAreChars
    <3>2. /\ Count' = Count + 1
          /\ SlotOf(k)' = SlotOf(k)
          /\ k < Count => buffer'[SlotOf(k)] = buffer[SlotOf(k)]
          /\ buffer'[SlotOf(Count)] = c
      BY <1>1, <1>3, PushStored
    <3>3. Count \in Nat
      BY <1>1, CountBounds
    <3>4. CASE k < Count
      BY <3>2, <3>4 DEF IInv, UnreadAreChars
    <3>5. CASE k = Count
      BY <3>2, <3>5
    <3> QED
      BY <1>1, <3>1, <3>2, <3>3, <3>4, <3>5
  <2> QED
    BY <2>3, <2>4, <2>5 DEF IInv
<1> QED
  BY <1>2, <1>3

\* The reader gives its slot back after it has taken the character.
LEMMA AdvanceIInv ==
  ASSUME IInv, Advance
  PROVE  IInv'
<1>1. /\ Size \in Nat
      /\ Size >= 2
      /\ TypeOK
      /\ tail \in Slots
      /\ ~RingEmpty
      /\ rpc' = "idle"
      /\ UNCHANGED <<buffer, head, blocking, loaded>>
  BY SizeAssumption DEF IInv, TypeOK, ReaderStable, Advance
<1>2. TypeOK'
  <2>1. tail' \in Slots
    BY <1>1, NextSlotCases DEF Advance
  <2>2. result' \in Char \cup {NUL}
    BY DEF Advance, IInv, TypeOK
  <2> QED
    BY <1>1, <2>1, <2>2 DEF TypeOK, ReaderPCs
<1>3. ReaderStable'
  BY <1>1 DEF ReaderStable
<1>4. UnreadAreChars'
  <2>1. SUFFICES ASSUME NEW k \in 0 .. Size - 1, k < Count'
                 PROVE  buffer[SlotOf(k)'] \in Char
    BY <1>1 DEF UnreadAreChars
  <2>2. Count' = Count - 1 /\ Count \in 0 .. Size - 1
    BY <1>1, AdvanceShifts, CountBounds
  <2>3. k \in 0 .. Size - 2 /\ k + 1 \in 0 .. Size - 1 /\ k + 1 < Count
    BY <1>1, <2>1, <2>2
  <2>4. SlotOf(k)' = SlotOf(k + 1)
    BY <1>1, <2>1, <2>3, AdvanceShifts
  <2> QED
    BY <2>3, <2>4 DEF IInv, UnreadAreChars
<1> QED
  BY <1>2, <1>3, <1>4 DEF IInv

\* The remaining steps of the reader leave the ring alone.
LEMMA QuietIInv ==
  ASSUME IInv,
         \/ \E b \in BOOLEAN : CallRead(b)
         \/ CheckEmpty \/ CheckData \/ Load \/ Halt \/ Wake
         \/ UNCHANGED vars
  PROVE  IInv' /\ Count' = Count /\ UNCHANGED <<buffer, head, tail>>
<1>1. UNCHANGED <<buffer, head, tail>>
  BY DEF CallRead, CheckEmpty, CheckData, Load, Halt, Wake, vars, ringVars
<1>2. Count' = Count /\ (UnreadAreChars => UnreadAreChars')
  BY <1>1 DEF Count, SlotOf, UnreadAreChars
<1>3. TypeOK'
  BY <1>1, Zenon DEF IInv, TypeOK, ReaderPCs, CallRead, CheckEmpty, CheckData, Load, Halt, Wake, vars
<1>4. ReaderStable'
  BY <1>1 DEF IInv, TypeOK, ReaderStable, RingEmpty, CallRead, CheckEmpty, CheckData, Load, Halt, Wake, vars
<1> QED
  BY <1>1, <1>2, <1>3, <1>4 DEF IInv

\* The invariant is inductive.
LEMMA NextIInv == IInv /\ [Next]_vars => IInv'
  BY PushIInv, AdvanceIInv, QuietIInv DEF Next, Reader

\* The invariant holds in every reachable state.
LEMMA Invariance == Spec => []IInv
  BY InitIInv, NextIInv, PTL DEF Spec

\* Every variable of the ring keeps its C type and both indices stay inside
\* the array, for every KB_BUFFER_SIZE that fits in the uint8_t indices.
THEOREM TypeCorrect == Spec => []TypeOK
  BY Invariance, PTL DEF IInv

\* keyboard_read and keyboard_getchar return the character they saw, however
\* many times IRQ 1 runs between their accesses.
THEOREM ReaderKeepsItsCharacter == Spec => []ReaderStable
  BY Invariance, PTL DEF IInv

\* A 0 from keyboard_read always means an empty ring.
THEOREM UnreadSlotsHoldChars == Spec => []UnreadAreChars
  BY Invariance, PTL DEF IInv

------------------------------------------------------------------------------
(* Refinement. *)

\* The abstract queue is a sequence of characters, as long as Count.
LEMMA ContentsIsSeq ==
  ASSUME IInv
  PROVE  /\ Contents \in Seq(Char)
         /\ Len(Contents) = Count
         /\ Count \in 0 .. Size - 1
<1>1. Count \in 0 .. Size - 1 /\ Size \in Nat
  BY CountBounds, SizeAssumption DEF IInv
<1>2. \A k \in 1 .. Count : buffer[SlotOf(k - 1)] \in Char
  BY <1>1 DEF IInv, UnreadAreChars
<1> QED
  BY <1>1, <1>2 DEF Contents

\* kb_push is Offer: an append, or nothing when the ring is full.
LEMMA PushOffers ==
  ASSUME IInv, NEW c \in Char, Push(c), UNCHANGED readerVars
  PROVE  Fifo!Offer(c)
<1>1. TypeOK /\ Count \in 0 .. Size - 1 /\ Len(Contents) = Count /\ Size \in Nat
  BY ContentsIsSeq, SizeAssumption DEF IInv
<1>2. UNCHANGED result
  BY DEF readerVars
<1>3. CASE NextSlot(head) = tail
  <2>1. Contents' = Contents
    BY <1>3 DEF Push, ringVars, Contents, Count, SlotOf
  <2>2. ~(Len(Contents) < Size - 1)
    BY <1>1, <1>3, CountBounds
  <2> QED
    BY <1>2, <2>1, <2>2 DEF Fifo!Offer
<1>4. CASE NextSlot(head) # tail
  <2>1. Len(Contents) < Size - 1
    BY <1>1, <1>4, CountBounds
  <2>2. /\ Count' = Count + 1
        /\ \A k \in 0 .. Size - 1 : SlotOf(k)' = SlotOf(k)
        /\ \A k \in 0 .. Size - 1 : k < Count => buffer'[SlotOf(k)] = buffer[SlotOf(k)]
        /\ buffer'[SlotOf(Count)] = c
    BY <1>1, <1>4, PushStored
  <2>3. Contents' = Append(Contents, c)
    <3>1. /\ Contents' = [k \in 1 .. Count + 1 |-> buffer'[SlotOf(k - 1)]]
      <4>1. Contents' = [k \in 1 .. Count' |-> buffer'[SlotOf(k - 1)']]
        BY DEF Contents
      <4>2. \A k \in 1 .. Count + 1 : SlotOf(k - 1)' = SlotOf(k - 1)
        BY <1>1, <2>1, <2>2
      <4> QED
        BY <2>2, <4>1, <4>2
    <3>2. Append(Contents, c)
            = [k \in 1 .. Count + 1 |-> IF k = Count + 1 THEN c ELSE buffer[SlotOf(k - 1)]]
      BY <1>1, ContentsIsSeq DEF Contents
    <3>3. \A k \in 1 .. Count + 1 :
            buffer'[SlotOf(k - 1)] = IF k = Count + 1 THEN c ELSE buffer[SlotOf(k - 1)]
      BY <1>1, <2>1, <2>2
    <3> QED
      BY <3>1, <3>2, <3>3
  <2> QED
    BY <1>2, <2>1, <2>3 DEF Fifo!Offer
<1> QED
  BY <1>3, <1>4

\* The return of a read that found a character is Take.
LEMMA AdvanceTakes ==
  ASSUME IInv, Advance
  PROVE  Fifo!Take
<1>1. /\ TypeOK
      /\ ~RingEmpty
      /\ Count \in 0 .. Size - 1
      /\ Count # 0
      /\ Len(Contents) = Count
      /\ Contents \in Seq(Char)
      /\ Size \in Nat
      /\ loaded = buffer[tail]
      /\ UNCHANGED buffer
  BY ContentsIsSeq, CountBounds, SizeAssumption DEF IInv, ReaderStable, Advance
<1>2. Contents # <<>> /\ Head(Contents) = Contents[1]
  BY <1>1
<1>3. Contents[1] = buffer[tail]
  BY <1>1, CountBounds DEF Contents
<1>4. Contents' = Tail(Contents)
  <2>1. /\ Count' = Count - 1
        /\ \A k \in 0 .. Size - 2 : k < Count' => SlotOf(k)' = SlotOf(k + 1)
    BY <1>1, AdvanceShifts
  <2>2. Contents' = [k \in 1 .. Count - 1 |-> buffer[SlotOf(k)]]
    <3>1. Contents' = [k \in 1 .. Count' |-> buffer'[SlotOf(k - 1)']]
      BY DEF Contents
    <3>2. \A k \in 1 .. Count - 1 : SlotOf(k - 1)' = SlotOf(k)
      <4> SUFFICES ASSUME NEW k \in 1 .. Count - 1
                   PROVE  SlotOf(k - 1)' = SlotOf(k)
        OBVIOUS
      <4>1. k - 1 \in 0 .. Size - 2 /\ k - 1 < Count' /\ (k - 1) + 1 = k
        BY <1>1, <2>1
      <4> QED
        BY <2>1, <4>1
    <3> QED
      BY <1>1, <2>1, <3>1, <3>2
  <2>3. \A k \in 1 .. Count - 1 : buffer[SlotOf(k)] \in Char
    BY <1>1 DEF IInv, UnreadAreChars
  <2>4. /\ Contents' \in Seq(Char)
        /\ Len(Contents') = Count - 1
        /\ \A k \in 1 .. Count - 1 : Contents'[k] = buffer[SlotOf(k)]
    BY <1>1, <2>2, <2>3
  <2>5. /\ Tail(Contents) \in Seq(Char)
        /\ Len(Tail(Contents)) = Count - 1
        /\ \A k \in 1 .. Count - 1 : Tail(Contents)[k] = Contents[k + 1]
    BY <1>1, <1>2, HeadTailProperties
  <2>6. \A k \in 1 .. Count - 1 : Contents[k + 1] = buffer[SlotOf(k)]
    BY <1>1 DEF Contents
  <2> QED
    BY <2>4, <2>5, <2>6, SeqEqual
<1> QED
  BY <1>1, <1>2, <1>3, <1>4 DEF Advance, Fifo!Take

\* A read that finds the ring empty is Miss when it returns.
LEMMA CheckEmptyMisses ==
  ASSUME IInv, CheckEmpty
  PROVE  Fifo!Miss \/ UNCHANGED <<Contents, result>>
<1>1. Contents' = Contents
  BY DEF CheckEmpty, ringVars, Contents, Count, SlotOf
<1>2. Contents = <<>>
  <2>1. Count = 0
    BY CountBounds DEF IInv, CheckEmpty
  <2> QED
    BY <2>1, ContentsIsSeq
<1> QED
  BY <1>1, <1>2 DEF CheckEmpty, Fifo!Miss

\* Every step of the ring is a step of the FIFO or none.
LEMMA NextRefines ==
  ASSUME IInv, [Next]_vars
  PROVE  [Fifo!Next]_(Fifo!vars)
<1>1. CASE \E c \in Char : Push(c) /\ UNCHANGED readerVars
  BY <1>1, PushOffers DEF Fifo!Next
<1>2. CASE Advance
  BY <1>2, AdvanceTakes DEF Fifo!Next
<1>3. CASE CheckEmpty
  BY <1>3, CheckEmptyMisses DEF Fifo!Next, Fifo!vars
<1>4. CASE \/ \E b \in BOOLEAN : CallRead(b)
           \/ CheckData \/ Load \/ Halt \/ Wake \/ UNCHANGED vars
  <2>1. UNCHANGED <<buffer, head, tail, result>>
    BY <1>4 DEF CallRead, CheckData, Load, Halt, Wake, vars, ringVars
  <2> QED
    BY <2>1 DEF Fifo!vars, Contents, Count, SlotOf
<1> QED
  BY <1>1, <1>2, <1>3, <1>4 DEF Next, Reader

\* The circular buffer is a lossy FIFO of KB_BUFFER_SIZE - 1 characters for
\* every buffer size and character set: an interrupt between the accesses of
\* a reader loses, duplicates or reorders nothing but the newest character of
\* a full ring.
THEOREM RingRefinesFifo == Spec => ImplementsFifo
<1>1. Init => Fifo!Init
  <2> SUFFICES ASSUME Init PROVE Fifo!Init
    OBVIOUS
  <2>1. Count = 0
    BY SizeAssumption DEF Init, InitRing, Count
  <2>2. Contents = <<>>
    BY <2>1, InitIInv, ContentsIsSeq
  <2> QED
    BY <2>2 DEF Init, InitReader, Fifo!Init
<1>2. IInv /\ [Next]_vars => [Fifo!Next]_(Fifo!vars)
  BY NextRefines
<1> QED
  BY <1>1, <1>2, Invariance, PTL DEF Spec, ImplementsFifo, Fifo!Spec

(***************************************************************************)
(*                               The console                               *)
(***************************************************************************)

\* ConTypeOK without the part that belongs to the ring, and that a byte
\* serial_has_data saw is still there.
MachineOK ==
  /\ kbc \in Seq(ScanChars) /\ Len(kbc) <= KbcCap
  /\ uart \in Seq(SerialBytes) /\ Len(uart) <= UartCap
  /\ irr \subseteq Irqs /\ inService \subseteq Irqs
  /\ serving \in Irqs \cup {None}
  /\ stage \in {"idle", "dispatch", "eoi", "iret"}
  /\ ticks \in 0 .. TickMod - 1
  /\ spc \in {"caller", "pollKeyboard", "getchar", "pollSerial", "serial", "hlt", "halted"}
  /\ spc = "serial" => uart # <<>>

\* The handler of IRQ 1 is about to read port 0x60.
Reading == serving = KBD /\ stage = "dispatch"

\* A byte waits exactly when its interrupt is requested or its handler is
\* about to read it, and never both.
PortServed ==
  /\ kbc # <<>> <=> (KBD \in irr \/ Reading)
  /\ ~(KBD \in irr /\ Reading)

ServiceInv ==
  /\ serving = None <=> stage = "idle"
  /\ stage \in {"dispatch", "eoi"} =>
       /\ serving \in inService
       /\ \A j \in inService : j # serving => serving < j /\ j \in Stray
  /\ stage \in {"idle", "iret"} => inService \subseteq Stray

\* The consumer of the ring runs only inside keyboard_getchar, which the shell
\* calls on a ring with data.
ShellInv ==
  /\ rpc \in {"idle", "check", "load", "advance"}
  /\ rpc # "idle" => spc = "getchar"
  /\ rpc = "check" => ~RingEmpty

ConInv == IInv /\ MachineOK /\ PortServed /\ ServiceInv /\ ShellInv

------------------------------------------------------------------------------
(* Helpers. *)

\* The numbers of the IRQs, and that None is none of them.
LEMMA IrqNumbers == Irqs \subseteq 0 .. 7 /\ None \notin Irqs /\ TIMER \in Irqs /\ KBD \in Irqs
BY ConsoleAssumption DEF Irqs, TIMER, KBD, None

\* Lowest picks the IRQ of highest priority.
LEMMA LowestIs ==
  ASSUME NEW S, S \subseteq Irqs, NEW s \in S, \A j \in S : j # s => s < j
  PROVE  Lowest(S) = s
<1>1. S \subseteq 0 .. 7
  BY IrqNumbers
<1>2. \A j \in S : s <= j
  BY <1>1
<1>3. \A i \in S : (\A j \in S : i <= j) => i = s
  BY <1>1, <1>2
<1> QED
  BY <1>2, <1>3 DEF Lowest

\* The ring's invariant looks at the ring and the reader only.
LEMMA RingUntouched == ASSUME IInv, UNCHANGED vars PROVE IInv'
BY QuietIInv

\* A step that leaves the ring and the reader alone keeps ShellInv as long as
\* the shell does not leave keyboard_getchar.
LEMMA ShellUntouched ==
  ASSUME ShellInv, UNCHANGED vars, rpc # "idle" => spc' = spc
  PROVE  ShellInv'
BY DEF ShellInv, vars, RingEmpty

------------------------------------------------------------------------------
(* Initial states. *)

\* The state kernel_main hands to shell_run.
LEMMA InitConInv == InitCon => ConInv
<1> SUFFICES ASSUME InitCon PROVE ConInv
  OBVIOUS
<1>1. IInv
  BY InitIInv DEF InitCon
<1>2. MachineOK
  BY ConsoleAssumption, IrqNumbers DEF InitCon, MachineOK
<1>3. PortServed /\ ServiceInv
  BY DEF InitCon, PortServed, Reading, ServiceInv, None, KBD
<1>4. ShellInv
  BY DEF InitCon, Init, InitReader, ShellInv
<1> QED
  BY <1>1, <1>2, <1>3, <1>4 DEF ConInv

------------------------------------------------------------------------------
(* The devices. *)

\* A byte arrives: only the first one of a row raises the line.
LEMMA KeyArrivesInv ==
  ASSUME ConInv, NEW c \in ScanChars, KeyArrives(c)
  PROVE  ConInv'
<1> USE DEF ConInv
<1>1. /\ UNCHANGED vars /\ UNCHANGED <<uart, inService, serving, stage, ticks, spc>>
      /\ Len(kbc) < KbcCap /\ kbc' = Append(kbc, c)
      /\ irr' = IF kbc = <<>> THEN irr \cup {KBD} ELSE irr
  BY DEF KeyArrives, cpu
<1>2. /\ kbc \in Seq(ScanChars) /\ kbc' \in Seq(ScanChars)
      /\ Len(kbc') = Len(kbc) + 1 /\ Len(kbc) \in Nat /\ kbc' # <<>>
  BY <1>1 DEF MachineOK
<1>3. IInv' /\ ShellInv'
  BY <1>1, RingUntouched, ShellUntouched
<1>4. Len(kbc') <= KbcCap
  BY <1>1, <1>2, ConsoleAssumption
<1>5. MachineOK'
  BY <1>1, <1>2, <1>4, IrqNumbers DEF MachineOK
<1>6. PortServed'
  BY <1>1, <1>2 DEF PortServed, Reading
<1>7. ServiceInv'
  BY <1>1 DEF ServiceInv
<1> QED
  BY <1>3, <1>5, <1>6, <1>7

\* The timer and stray devices request IRQs other than the keyboard's.
LEMMA RequestInv ==
  ASSUME ConInv, NEW i \in Irqs, i # KBD, irr' = irr \cup {i},
         UNCHANGED <<vars, kbc, uart, inService, cpu, ticks, spc>>
  PROVE  ConInv'
<1> USE DEF ConInv
<1>1. UNCHANGED vars /\ UNCHANGED <<kbc, uart, inService, serving, stage, ticks, spc>>
  BY DEF cpu
<1>2. IInv' /\ ShellInv'
  BY <1>1, RingUntouched, ShellUntouched
<1>3. MachineOK'
  BY <1>1 DEF MachineOK
<1>4. PortServed'
  BY <1>1 DEF PortServed, Reading
<1>5. ServiceInv'
  BY <1>1 DEF ServiceInv
<1> QED
  BY <1>2, <1>3, <1>4, <1>5

\* A byte on COM1: a full FIFO loses it.
LEMMA SerialArrivesInv ==
  ASSUME ConInv, NEW b \in SerialBytes, SerialArrives(b)
  PROVE  ConInv'
<1> USE DEF ConInv
<1>1. /\ UNCHANGED vars /\ UNCHANGED <<kbc, irr, inService, serving, stage, ticks, spc>>
      /\ uart' = IF Len(uart) < UartCap THEN Append(uart, b) ELSE uart
  BY DEF SerialArrives, pic, cpu
<1>2. IInv' /\ ShellInv'
  BY <1>1, RingUntouched, ShellUntouched
<1>3. uart' \in Seq(SerialBytes) /\ Len(uart') <= UartCap /\ (uart # <<>> => uart' # <<>>)
  <2>1. uart \in Seq(SerialBytes) /\ Len(uart) <= UartCap /\ Len(uart) \in Nat
    BY DEF MachineOK
  <2>2. CASE Len(uart) < UartCap
    <3>1. uart' = Append(uart, b)
      BY <1>1, <2>2
    <3>2. uart' \in Seq(SerialBytes) /\ Len(uart') = Len(uart) + 1
      BY <2>1, <3>1
    <3> QED
      BY <2>1, <2>2, <3>2, ConsoleAssumption
  <2>3. CASE ~(Len(uart) < UartCap)
    BY <1>1, <2>1, <2>3
  <2> QED
    BY <2>2, <2>3
<1>4. MachineOK'
  BY <1>1, <1>3 DEF MachineOK
<1>5. PortServed' /\ ServiceInv'
  BY <1>1 DEF PortServed, Reading, ServiceInv
<1> QED
  BY <1>2, <1>4, <1>5

------------------------------------------------------------------------------
(* Interrupts. *)

\* The CPU takes a request: its priority is above everything in service.
LEMMA AcceptInv ==
  ASSUME ConInv, NEW i \in Irqs, Accept(i)
  PROVE  ConInv'
<1> USE DEF ConInv
<1>1. /\ serving = None /\ i \in irr
      /\ \A j \in inService : i < j
      /\ irr' = irr \ {i} /\ inService' = inService \cup {i}
      /\ serving' = i /\ stage' = "dispatch"
      /\ spc' = IF spc = "halted" THEN "pollKeyboard" ELSE spc
      /\ UNCHANGED <<buffer, head, tail, blocking, loaded, result, kbc, uart, ticks>>
  BY DEF Accept, ringVars
<1>2. rpc' = rpc
  BY DEF Accept, ShellInv
<1>3. UNCHANGED vars
  BY <1>1, <1>2 DEF vars
<1>4. stage = "idle" /\ inService \subseteq Stray
  BY <1>1 DEF ServiceInv
<1>5. IInv'
  BY <1>3, RingUntouched
<1>6. rpc # "idle" => spc' = spc
  BY <1>1 DEF ShellInv
<1>7. ShellInv'
  BY <1>3, <1>6, ShellUntouched
<1>8. MachineOK'
  BY <1>1 DEF MachineOK
<1>9. PortServed'
  BY <1>1, <1>4 DEF PortServed, Reading
<1>10. ServiceInv'
  BY <1>1, <1>4, IrqNumbers DEF ServiceInv
<1> QED
  BY <1>5, <1>7, <1>8, <1>9, <1>10

\* irq0_handler counts and goes on to its EOI.
LEMMA TimerHandlerInv == ConInv /\ TimerHandler => ConInv'
<1> SUFFICES ASSUME ConInv, TimerHandler PROVE ConInv'
  OBVIOUS
<1> USE DEF ConInv
<1>1. /\ UNCHANGED vars /\ UNCHANGED <<kbc, uart, irr, inService, serving, spc>>
      /\ serving = TIMER /\ stage = "dispatch" /\ stage' = "eoi"
      /\ ticks' = (ticks + 1) % TickMod
  BY DEF TimerHandler, pic
<1>2. IInv' /\ ShellInv'
  BY <1>1, RingUntouched, ShellUntouched
<1>3. ticks' \in 0 .. TickMod - 1
  BY <1>1, ConsoleAssumption DEF MachineOK
<1>4. MachineOK'
  BY <1>1, <1>3 DEF MachineOK
<1>5. PortServed'
  BY <1>1 DEF PortServed, Reading, TIMER, KBD
<1>6. ServiceInv'
  BY <1>1 DEF ServiceInv
<1> QED
  BY <1>2, <1>4, <1>5, <1>6

\* The handler of IRQ 1 finds a byte; if another waits behind it the line
\* rises again.
LEMMA KbdHandlerInv == ConInv /\ KbdHandler => ConInv'
<1> SUFFICES ASSUME ConInv, KbdHandler PROVE ConInv'
  OBVIOUS
<1> USE DEF ConInv
<1>1. /\ serving = KBD /\ stage = "dispatch" /\ stage' = "eoi"
      /\ kbc' = Tail(kbc)
      /\ irr' = IF Len(kbc) > 1 THEN irr \cup {KBD} ELSE irr
      /\ UNCHANGED <<rpc, blocking, loaded, result, uart, inService, serving, ticks, spc>>
      /\ UNCHANGED readerVars
  BY DEF KbdHandler, readerVars
<1>2. kbc \in Seq(ScanChars) /\ kbc # <<>> /\ KBD \notin irr
  BY <1>1 DEF MachineOK, PortServed, Reading
<1>3. /\ kbc' \in Seq(ScanChars) /\ Len(kbc') = Len(kbc) - 1 /\ Len(kbc) \in Nat
      /\ Head(kbc) \in ScanChars
      /\ kbc' # <<>> <=> Len(kbc) > 1
  <2>1. /\ Tail(kbc) \in Seq(ScanChars) /\ Len(Tail(kbc)) = Len(kbc) - 1
        /\ Head(kbc) \in ScanChars /\ Len(kbc) \in Nat
    BY <1>2, HeadTailProperties
  <2>2. Tail(kbc) = <<>> <=> Len(Tail(kbc)) = 0
    BY <2>1, EmptySeq
  <2> QED
    BY <1>1, <2>1, <2>2
<1>4. IInv' /\ ShellInv'
  <2>1. CASE Head(kbc) # NUL
    <3>1. Head(kbc) \in Char /\ Push(Head(kbc))
      BY <1>3, <2>1, ConsoleAssumption DEF KbdHandler
    <3>2. IInv'
      BY <1>1, <3>1, PushIInv
    <3>3. ~RingEmpty => ~RingEmpty'
      BY <3>1 DEF Push, RingEmpty, ringVars
    <3> QED
      BY <1>1, <3>2, <3>3 DEF ShellInv
  <2>2. CASE Head(kbc) = NUL
    <3>1. UNCHANGED vars
      BY <1>1, <2>2 DEF KbdHandler, ringVars, vars
    <3> QED
      BY <1>1, <3>1, RingUntouched, ShellUntouched
  <2> QED
    BY <2>1, <2>2
<1>5. Len(kbc') <= KbcCap
  BY <1>3, ConsoleAssumption DEF MachineOK
<1>6. irr' \subseteq Irqs
  BY <1>1, IrqNumbers DEF MachineOK
<1>7. MachineOK'
  BY <1>1, <1>3, <1>5, <1>6 DEF MachineOK
<1>8. PortServed'
  BY <1>1, <1>2, <1>3 DEF PortServed, Reading
<1>9. ServiceInv'
  BY <1>1 DEF ServiceInv
<1> QED
  BY <1>4, <1>7, <1>8, <1>9

\* No handler, no EOI: the IRQ stays in service.
LEMMA NoHandlerInv == ConInv /\ NoHandler => ConInv'
<1> SUFFICES ASSUME ConInv, NoHandler PROVE ConInv'
  OBVIOUS
<1> USE DEF ConInv
<1>1. /\ UNCHANGED vars /\ UNCHANGED <<kbc, uart, irr, inService, serving, ticks, spc>>
      /\ serving \in Stray /\ stage = "dispatch" /\ stage' = "iret"
  BY DEF NoHandler, pic
<1>2. IInv' /\ ShellInv'
  BY <1>1, RingUntouched, ShellUntouched
<1>3. MachineOK'
  BY <1>1 DEF MachineOK
<1>4. serving # KBD
  BY <1>1, ConsoleAssumption DEF KBD
<1>5. PortServed'
  BY <1>1, <1>4 DEF PortServed, Reading
<1>6. ServiceInv'
  BY <1>1 DEF ServiceInv
<1> QED
  BY <1>2, <1>3, <1>5, <1>6

\* The EOI retires the IRQ that is being served; only stray IRQs are left.
LEMMA EoiInv == ConInv /\ Eoi => ConInv'
<1> SUFFICES ASSUME ConInv, Eoi PROVE ConInv'
  OBVIOUS
<1> USE DEF ConInv
<1>1. /\ UNCHANGED vars /\ UNCHANGED <<kbc, uart, irr, serving, ticks, spc>>
      /\ stage = "eoi" /\ stage' = "iret"
      /\ inService' = inService \ {Lowest(inService)}
  BY DEF Eoi
<1>2. Lowest(inService) = serving
  BY <1>1, LowestIs DEF ServiceInv, MachineOK
<1>3. IInv' /\ ShellInv'
  BY <1>1, RingUntouched, ShellUntouched
<1>4. MachineOK'
  BY <1>1 DEF MachineOK
<1>5. PortServed'
  BY <1>1 DEF PortServed, Reading
<1>6. ServiceInv'
  BY <1>1, <1>2 DEF ServiceInv
<1> QED
  BY <1>3, <1>4, <1>5, <1>6

\* Back in the main context only stray IRQs are in service.
LEMMA IretInv == ConInv /\ Iret => ConInv'
<1> SUFFICES ASSUME ConInv, Iret PROVE ConInv'
  OBVIOUS
<1> USE DEF ConInv
<1>1. /\ UNCHANGED vars /\ UNCHANGED <<kbc, uart, irr, inService, ticks, spc>>
      /\ stage = "iret" /\ stage' = "idle" /\ serving' = None
  BY DEF Iret, pic
<1>2. IInv' /\ ShellInv'
  BY <1>1, RingUntouched, ShellUntouched
<1>3. MachineOK'
  BY <1>1 DEF MachineOK
<1>4. PortServed'
  BY <1>1 DEF PortServed, Reading
<1>5. ServiceInv'
  BY <1>1 DEF ServiceInv
<1> QED
  BY <1>2, <1>3, <1>4, <1>5

------------------------------------------------------------------------------
(* The shell. *)

\* A step of the main context that moves spc and touches nothing else.
LEMMA ShellMoves ==
  ASSUME ConInv, rpc = "idle",
         spc' \in {"caller", "pollKeyboard", "getchar", "pollSerial", "serial", "hlt", "halted"},
         spc' = "serial" => uart # <<>>,
         UNCHANGED <<vars, kbc, uart, pic, cpu, ticks>>
  PROVE  ConInv'
<1> USE DEF ConInv
<1>1. UNCHANGED vars /\ UNCHANGED <<kbc, uart, irr, inService, serving, stage, ticks>>
  BY DEF pic, cpu
<1>2. IInv' /\ ShellInv'
  BY <1>1, RingUntouched, ShellUntouched
<1>3. MachineOK'
  BY <1>1 DEF MachineOK
<1>4. PortServed' /\ ServiceInv'
  BY <1>1 DEF PortServed, Reading, ServiceInv
<1> QED
  BY <1>2, <1>3, <1>4

\* keyboard_getchar is called on a ring with data.
LEMMA PollKeyboardInv == ConInv /\ PollKeyboard => ConInv'
<1> SUFFICES ASSUME ConInv, PollKeyboard PROVE ConInv'
  OBVIOUS
<1> USE DEF ConInv
<1>1. spc = "pollKeyboard" /\ rpc = "idle" /\ UNCHANGED <<kbc, uart, pic, cpu, ticks>>
  BY DEF PollKeyboard, ShellInv
<1>2. CASE RingEmpty
  BY <1>1, <1>2, ShellMoves DEF PollKeyboard
<1>3. CASE ~RingEmpty
  <2>1. spc' = "getchar" /\ CallRead(TRUE)
    BY <1>3 DEF PollKeyboard
  <2>2. IInv' /\ UNCHANGED <<buffer, head, tail>>
    BY <2>1, QuietIInv
  <2>3. rpc' = "check"
    BY <2>1 DEF CallRead
  <2>4. ShellInv'
    BY <1>3, <2>1, <2>2, <2>3 DEF ShellInv, RingEmpty
  <2>5. MachineOK'
    BY <1>1, <2>1 DEF MachineOK, pic, cpu
  <2>6. PortServed' /\ ServiceInv'
    BY <1>1 DEF PortServed, Reading, ServiceInv, pic, cpu
  <2> QED
    BY <2>2, <2>4, <2>5, <2>6
<1> QED
  BY <1>2, <1>3

\* Inside keyboard_getchar: the test finds data, so the loop with hlt is not
\* entered.
LEMMA GetCharInv == ConInv /\ GetChar => ConInv'
<1> SUFFICES ASSUME ConInv, GetChar PROVE ConInv'
  OBVIOUS
<1> USE DEF ConInv
<1>1. /\ spc = "getchar" /\ spc' = IF rpc' = "idle" THEN "caller" ELSE spc
      /\ UNCHANGED <<kbc, uart, irr, inService, serving, stage, ticks>>
  BY DEF GetChar, pic, cpu
<1>2. CheckData \/ Load \/ Advance
  BY DEF GetChar, ShellInv, CheckEmpty, Halt
<1>3. IInv'
  BY <1>2, QuietIInv, AdvanceIInv
<1>4. ShellInv'
  BY <1>1, <1>2 DEF ShellInv, CheckData, Load, Advance
<1>5. MachineOK'
  BY <1>1 DEF MachineOK
<1>6. PortServed' /\ ServiceInv'
  BY <1>1 DEF PortServed, Reading, ServiceInv
<1> QED
  BY <1>3, <1>4, <1>5, <1>6

\* A byte of COM1: the main context is the only reader of the UART, so the
\* byte serial_has_data saw is still there.
LEMMA SerialGetCharInv == ConInv /\ SerialGetChar => ConInv'
<1> SUFFICES ASSUME ConInv, SerialGetChar PROVE ConInv'
  OBVIOUS
<1> USE DEF ConInv
<1>1. /\ spc = "serial" /\ spc' = "caller" /\ rpc = "idle"
      /\ result' = Convert[Head(uart)] /\ uart' = Tail(uart)
      /\ UNCHANGED <<buffer, head, tail, rpc, blocking, loaded>>
      /\ UNCHANGED <<kbc, irr, inService, serving, stage, ticks>>
  BY DEF SerialGetChar, ShellInv, ringVars, pic, cpu
<1>2. /\ uart \in Seq(SerialBytes) /\ uart # <<>> /\ Len(uart) <= UartCap
      /\ Head(uart) \in SerialBytes /\ Tail(uart) \in Seq(SerialBytes)
      /\ Len(Tail(uart)) = Len(uart) - 1 /\ Len(uart) \in Nat
  BY <1>1, HeadTailProperties DEF MachineOK
<1>3. result' \in Char \cup {NUL}
  BY <1>1, <1>2, ConsoleAssumption
<1>4. IInv'
  <2>1. TypeOK'
    BY <1>1, <1>3 DEF IInv, TypeOK
  <2>2. ReaderStable' /\ UnreadAreChars'
    BY <1>1 DEF IInv, ReaderStable, UnreadAreChars, RingEmpty, Count, SlotOf
  <2> QED
    BY <2>1, <2>2 DEF IInv
<1>5. ShellInv'
  BY <1>1 DEF ShellInv
<1>6. Len(uart') <= UartCap
  BY <1>1, <1>2, ConsoleAssumption
<1>7. MachineOK'
  BY <1>1, <1>2, <1>6 DEF MachineOK
<1>8. PortServed' /\ ServiceInv'
  BY <1>1 DEF PortServed, Reading, ServiceInv
<1> QED
  BY <1>4, <1>5, <1>7, <1>8

\* Every step of the shell.
LEMMA MainInv == ConInv /\ Main => ConInv'
<1> SUFFICES ASSUME ConInv, Main PROVE ConInv'
  OBVIOUS
<1>1. CASE CallReadChar
  <2>1. rpc = "idle"
    BY <1>1 DEF ConInv, ShellInv, CallReadChar
  <2> QED
    BY <1>1, <2>1, ShellMoves DEF CallReadChar
<1>2. CASE PollKeyboard
  BY <1>2, PollKeyboardInv
<1>3. CASE GetChar
  BY <1>3, GetCharInv
<1>4. CASE PollSerial
  <2>1. rpc = "idle"
    BY <1>4 DEF ConInv, ShellInv, PollSerial
  <2> QED
    BY <1>4, <2>1, ShellMoves DEF PollSerial
<1>5. CASE SerialGetChar
  BY <1>5, SerialGetCharInv
<1>6. CASE HaltShell
  <2>1. rpc = "idle"
    BY <1>6 DEF ConInv, ShellInv, HaltShell
  <2> QED
    BY <1>6, <2>1, ShellMoves DEF HaltShell
<1> QED
  BY <1>1, <1>2, <1>3, <1>4, <1>5, <1>6 DEF Main

\* Every step of a device.
LEMMA DevicesInv == ConInv /\ Devices => ConInv'
<1> SUFFICES ASSUME ConInv, Devices PROVE ConInv'
  OBVIOUS
<1>1. CASE PitFires
  <2>1. TIMER \in Irqs /\ TIMER # KBD
    BY IrqNumbers DEF TIMER, KBD
  <2> QED
    BY <1>1, <2>1, RequestInv DEF PitFires
<1>2. CASE \E i \in Stray : StrayFires(i)
  <2>1. PICK i \in Stray : StrayFires(i)
    BY <1>2
  <2>2. i \in Irqs /\ i # KBD
    BY <2>1, ConsoleAssumption DEF Irqs, KBD
  <2> QED
    BY <2>1, <2>2, RequestInv DEF StrayFires
<1> QED
  BY <1>1, <1>2, KeyArrivesInv, SerialArrivesInv DEF Devices

\* The invariant is inductive.
LEMMA NextConInv == ConInv /\ [NextCon]_conVars => ConInv'
<1> SUFFICES ASSUME ConInv, [NextCon]_conVars PROVE ConInv'
  OBVIOUS
<1>1. CASE Devices
  BY <1>1, DevicesInv
<1>2. CASE \E i \in Irqs : Accept(i)
  BY <1>2, AcceptInv
<1>3. CASE Handler
  BY <1>3, TimerHandlerInv, KbdHandlerInv, NoHandlerInv, EoiInv, IretInv DEF Handler
<1>4. CASE Main
  BY <1>4, MainInv
<1>5. CASE UNCHANGED conVars
  <2>1. UNCHANGED vars /\ UNCHANGED <<kbc, uart, irr, inService, serving, stage, ticks, spc>>
    BY <1>5 DEF conVars, pic, cpu
  <2>2. IInv' /\ ShellInv'
    BY <2>1, RingUntouched, ShellUntouched DEF ConInv
  <2> QED
    BY <2>1, <2>2 DEF ConInv, MachineOK, PortServed, Reading, ServiceInv
<1> QED
  BY <1>1, <1>2, <1>3, <1>4, <1>5 DEF NextCon

\* The invariant holds in every reachable state.
LEMMA ConInvariance == SpecCon => []ConInv
BY InitConInv, NextConInv, PTL DEF SpecCon

------------------------------------------------------------------------------
(* The theorems. *)

\* Every register and queue of the composition holds a legal value.
THEOREM ConsoleTypes == SpecCon => []ConTypeOK
<1>1. ConInv => ConTypeOK
  BY DEF ConInv, IInv, MachineOK, ConTypeOK
<1> QED
  BY <1>1, ConInvariance, PTL

\* A byte in the keyboard controller always has its interrupt requested or its
\* handler about to read it: the keyboard cannot fall silent.
THEOREM KeyboardNeverSilent == SpecCon => []NoByteWithoutIrq
<1>1. ConInv => NoByteWithoutIrq
  BY DEF ConInv, PortServed, Reading, NoByteWithoutIrq
<1> QED
  BY <1>1, ConInvariance, PTL

\* Only IRQs nobody handles stay in service, and an EOI retires the IRQ whose
\* handler sends it.
THEOREM EoiRetiresItsSender == SpecCon => []EoiDiscipline
<1>1. ConInv => EoiDiscipline
  <2> SUFFICES ASSUME ConInv PROVE EoiDiscipline
    OBVIOUS
  <2>1. serving = None => inService \subseteq Stray
    BY DEF ConInv, ServiceInv
  <2>2. stage \in {"dispatch", "eoi"} => serving = Lowest(inService)
    BY LowestIs DEF ConInv, ServiceInv, MachineOK
  <2> QED
    BY <2>1, <2>2 DEF EoiDiscipline
<1> QED
  BY <1>1, ConInvariance, PTL

\* The shell never executes the hlt of keyboard_getchar, where it would not
\* hear COM1.
THEOREM ShellHearsSerial == SpecCon => []GetcharNeverBlocks
<1>1. ConInv => GetcharNeverBlocks
  BY DEF ConInv, ShellInv, GetcharNeverBlocks
<1> QED
  BY <1>1, ConInvariance, PTL

\* Interrupts and shell together leave the reader of the ring its character.
THEOREM ConsoleReaderStable == SpecCon => []ReaderStable
<1>1. ConInv => ReaderStable
  BY DEF ConInv, IInv
<1> QED
  BY <1>1, ConInvariance, PTL
==============================================================================
