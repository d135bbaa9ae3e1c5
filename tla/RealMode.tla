------------------------------ MODULE RealMode ------------------------------
(***************************************************************************)
(* kernel_main up to the shell, and the BIOS calls made from then on       *)
(* through the trampoline of realmode.c and realmode.asm.                  *)
(*                                                                         *)
(* What is at stake is the environment an interrupt meets: the table IDTR  *)
(* points at, the processor's mode, the vectors the 8259 sends and the     *)
(* masks.  Each is switched by an instruction of its own, in boot and      *)
(* twice in every call, and the BIOS may execute sti in between.           *)
(***************************************************************************)
EXTENDS Naturals

CONSTANTS
  Master,  \* IRQs of the first 8259 that can be requested
  Slave    \* IRQs of the second one, which come in through CASCADE

TIMER    == 0
KBD      == 1
CASCADE  == 2
SPURIOUS == 7
None     == 16    \* no IRQ has this number

ASSUME RealModeAssumption ==
  /\ Master \subseteq 0 .. 7 /\ Slave \subseteq 8 .. 15
  /\ {TIMER, KBD, CASCADE, SPURIOUS} \subseteq Master

Irqs  == Master \cup Slave
Lines == Irqs \ {CASCADE, SPURIOUS}

VARIABLES
  pc,          \* the main context: what it does next
  flag,        \* IF
  mode,        \* CR0.PE
  table,       \* IDTR: the BIOS's IVT or the kernel's IDT
  vectors,     \* the base the PIC was programmed with
  mask,        \* both interrupt mask registers
  irr,         \* requests latched by the PIC; external
  serving,     \* the IRQ that took the CPU, or None
  registered,  \* IRQs with an entry in handlers[]
  ready,       \* realmode_ready
  answer,      \* what the last realmode_int returned
  savedMask,   \* mask_master and mask_slave
  savedFlag,   \* IF in the EFLAGS pushed by the stub
  savedTable,  \* RM_SAVED_IDTR
  biosMask     \* the masks the BIOS left; never changes

env     == <<mode, table, vectors>>
pic     == <<mask, irr>>
saved   == <<savedMask, savedFlag, savedTable>>
boot    == <<registered, ready, biosMask>>
rmVars  == <<pc, flag, env, pic, serving, boot, answer, saved>>

\* What boot.asm hands over: protected mode, interrupts off, the rest as the
\* BIOS and stage 2 left it.
InitRM ==
  /\ biosMask \in SUBSET Irqs /\ mask = biosMask
  /\ pc = "idt" /\ flag = FALSE /\ mode = "protected"
  /\ table = "bios" /\ vectors = "bios"
  /\ irr = {} /\ serving = None
  /\ registered = {} /\ ready = FALSE /\ answer = "none"
  /\ savedMask = {} /\ savedFlag = FALSE /\ savedTable = "bios"

\* One step of the main context, which runs when no interrupt has the CPU.
Step(from, to) == serving = None /\ pc = from /\ pc' = to

------------------------------------------------------------------------------
(* kernel_main. *)

\* idt_init: an empty handler table, 48 gates, lidt.
IdtInit ==
  /\ Step("idt", "pic")
  /\ registered' = {} /\ table' = "kernel"
  /\ UNCHANGED <<flag, mode, vectors, pic, serving, ready, biosMask, answer, saved>>

\* pic_remap: initialising an 8259 drops its requests; the masks are restored.
PicRemap ==
  /\ Step("pic", "timer")
  /\ vectors' = "kernel" /\ irr' = {}
  /\ UNCHANGED <<flag, mode, table, mask, serving, boot, answer, saved>>

\* A kernel_main that enables interrupts as soon as the clock is set up.
StartTimerEnables ==
  /\ Step("timer", "keyboard")
  /\ registered' = registered \cup {TIMER} /\ mask' = mask \ {TIMER} /\ flag' = TRUE
  /\ UNCHANGED <<env, irr, serving, ready, biosMask, answer, saved>>

\* pit_init, idt_register_handler(0x20), pic_clear_mask(0).
StartTimer ==
  /\ Step("timer", "keyboard")
  /\ registered' = registered \cup {TIMER} /\ mask' = mask \ {TIMER}
  /\ UNCHANGED <<flag, env, irr, serving, ready, biosMask, answer, saved>>

\* keyboard_init, idt_register_handler(0x21), pic_clear_mask(1).
StartKeyboard ==
  /\ Step("keyboard", "sti")
  /\ registered' = registered \cup {KBD} /\ mask' = mask \ {KBD}
  /\ UNCHANGED <<flag, env, irr, serving, ready, biosMask, answer, saved>>

\* sti.
EnableInterrupts ==
  /\ Step("sti", "init")
  /\ flag' = TRUE
  /\ UNCHANGED <<env, pic, serving, boot, answer, saved>>

\* realmode_init: the stub is copied if it and the two descriptors fit.
RealmodeInit ==
  /\ Step("init", "caller")
  /\ ready' \in BOOLEAN
  /\ UNCHANGED <<flag, env, pic, serving, registered, biosMask, answer, saved>>

Boot == IdtInit \/ PicRemap \/ StartTimer \/ StartKeyboard \/ EnableInterrupts \/ RealmodeInit

------------------------------------------------------------------------------
(* realmode_int. *)

\* No stub, no registers or no handler in the IVT: nothing is done.
RefuseCall ==
  /\ Step("caller", "caller")
  /\ answer' = "false"
  /\ UNCHANGED <<flag, env, pic, serving, boot, saved>>

\* The vector is taken from the IVT and both masks are read.
ReadMasks ==
  /\ Step("caller", "maskMaster") /\ ready
  /\ savedMask' = mask
  /\ UNCHANGED <<flag, env, pic, serving, boot, answer, savedFlag, savedTable>>

\* A realmode_int that leaves the first PIC alone.
SkipMaster ==
  /\ Step("maskMaster", "maskSlave")
  /\ UNCHANGED <<flag, env, pic, serving, boot, answer, saved>>

\* A realmode_int that reads the masks after it has written them.
MaskMasterThenRead ==
  /\ Step("maskMaster", "maskSlave")
  /\ mask' = mask \cup Master
  /\ savedMask' = mask'
  /\ UNCHANGED <<flag, env, irr, serving, boot, answer, savedFlag, savedTable>>

\* outb(PIC1_DATA, 0xFF)
MaskMaster ==
  /\ Step("maskMaster", "maskSlave")
  /\ mask' = mask \cup Master
  /\ UNCHANGED <<flag, env, irr, serving, boot, answer, saved>>

\* outb(PIC2_DATA, 0xFF)
MaskSlave ==
  /\ Step("maskSlave", "enter")
  /\ mask' = mask \cup Slave
  /\ UNCHANGED <<flag, env, irr, serving, boot, answer, saved>>

\* pushfd, cli and sidt.
StubEnter ==
  /\ Step("enter", "leave")
  /\ savedFlag' = flag /\ flag' = FALSE /\ savedTable' = table
  /\ UNCHANGED <<env, pic, serving, boot, answer, savedMask>>

\* CR0.PE is cleared and CS reloaded.
LeaveProtected ==
  /\ Step("leave", "ivt")
  /\ mode' = "real"
  /\ UNCHANGED <<flag, table, vectors, pic, serving, boot, answer, saved>>

\* lidt of the BIOS's vector table.
LoadIvt ==
  /\ Step("ivt", "bios")
  /\ table' = "bios"
  /\ UNCHANGED <<flag, mode, vectors, pic, serving, boot, answer, saved>>

\* The BIOS executes sti or cli.  It is taken not to unmask an IRQ.
BiosToggles ==
  /\ Step("bios", "bios")
  /\ flag' \in BOOLEAN
  /\ UNCHANGED <<env, pic, serving, boot, answer, saved>>

\* It returns, with IF as the stub had it (iret) or as it likes (retf).
BiosReturns ==
  /\ Step("bios", "cli")
  /\ flag' \in {FALSE, flag}
  /\ UNCHANGED <<env, pic, serving, boot, answer, saved>>

\* The results are stored and interrupts switched off.
StubCli ==
  /\ Step("cli", "protect")
  /\ flag' = FALSE
  /\ UNCHANGED <<env, pic, serving, boot, answer, saved>>

\* CR0.PE is set and CS reloaded.
EnterProtected ==
  /\ Step("protect", "lidt")
  /\ mode' = "protected"
  /\ UNCHANGED <<flag, table, vectors, pic, serving, boot, answer, saved>>

\* lidt of the saved table.
LoadIdt ==
  /\ Step("lidt", "popfd")
  /\ table' = savedTable
  /\ UNCHANGED <<flag, mode, vectors, pic, serving, boot, answer, saved>>

\* popfd
RestoreFlags ==
  /\ Step("popfd", "unmaskMaster")
  /\ flag' = savedFlag
  /\ UNCHANGED <<env, pic, serving, boot, answer, saved>>

\* A realmode_int that swaps the two saved bytes.
RestoreMasterSwapped ==
  /\ Step("unmaskMaster", "unmaskSlave")
  /\ mask' = (mask \cap Slave) \cup {i \in Master : i + 8 \in savedMask}
  /\ UNCHANGED <<flag, env, irr, serving, boot, answer, saved>>

\* outb(PIC1_DATA, mask_master)
RestoreMaster ==
  /\ Step("unmaskMaster", "unmaskSlave")
  /\ mask' = (mask \cap Slave) \cup (savedMask \cap Master)
  /\ UNCHANGED <<flag, env, irr, serving, boot, answer, saved>>

\* outb(PIC2_DATA, mask_slave); the registers are copied back.
RestoreSlave ==
  /\ Step("unmaskSlave", "caller")
  /\ mask' = (mask \cap Master) \cup (savedMask \cap Slave)
  /\ answer' = "true"
  /\ UNCHANGED <<flag, env, irr, serving, boot, saved>>

Masking == MaskMaster \/ MaskSlave \/ RestoreMaster \/ RestoreSlave
Leaving == StubEnter \/ LeaveProtected \/ LoadIvt
Back    == BiosReturns \/ StubCli \/ EnterProtected \/ LoadIdt \/ RestoreFlags
Call    == Masking \/ Leaving \/ Back

------------------------------------------------------------------------------
(* Interrupts. *)

\* The environment in which the gates of idt.c can be used.
KernelEnv == mode = "protected" /\ table = "kernel" /\ vectors = "kernel"

Request(i) ==
  /\ i \notin irr
  /\ irr' = irr \cup {i}
  /\ UNCHANGED <<pc, flag, env, mask, serving, boot, answer, saved>>

Unmasked(i) == i \notin mask /\ (i \in Slave => CASCADE \notin mask)

\* Between two instructions the CPU takes a request the PIC lets through.  The
\* PIC's priorities are left out: they would only rule some of these out.
Accept(i) ==
  /\ flag /\ serving = None
  /\ i \in irr /\ Unmasked(i)
  /\ irr' = irr \ {i} /\ serving' = i /\ flag' = FALSE
  /\ UNCHANGED <<pc, env, mask, boot, answer, saved>>

\* The CPU had already seen INT when the first mask was written: the PIC has
\* nothing to offer any more and answers with its lowest priority.
AcceptSpurious ==
  /\ flag /\ serving = None
  /\ pc = "maskSlave" /\ irr \ savedMask # {}
  /\ serving' = SPURIOUS /\ flag' = FALSE
  /\ UNCHANGED <<pc, env, pic, boot, answer, saved>>

\* isr_dispatch and iret.  Through any other table or in any other mode the
\* CPU runs whatever is there and does not come back.
Iret ==
  /\ serving # None /\ KernelEnv
  /\ serving' = None /\ flag' = TRUE
  /\ UNCHANGED <<pc, env, pic, boot, answer, saved>>

Interrupt == (\E i \in Lines : Request(i) \/ Accept(i)) \/ AcceptSpurious \/ Iret

NextRM == Boot \/ RefuseCall \/ ReadMasks \/ Call \/ BiosToggles \/ Interrupt

SpecRM == InitRM /\ [][NextRM]_rmVars

\* The timer goes on; a handler ends; an instruction that can run runs; a
\* request that the PIC offers again and again is taken.  A BIOS call ends.
\* Nobody has to make a call, and no device but the timer has to interrupt.
FairnessRM ==
  /\ WF_rmVars(Request(TIMER)) /\ WF_rmVars(Iret)
  /\ SF_rmVars(Accept(TIMER)) /\ SF_rmVars(Accept(KBD))
  /\ SF_rmVars(Boot) /\ SF_rmVars(Call)

FairSpecRM == SpecRM /\ FairnessRM

------------------------------------------------------------------------------
(* Properties. *)

\* Types.
RMTypeOK ==
  /\ pc \in {"idt", "pic", "timer", "keyboard", "sti", "init", "caller",
             "maskMaster", "maskSlave", "enter", "leave", "ivt", "bios", "cli",
             "protect", "lidt", "popfd", "unmaskMaster", "unmaskSlave"}
  /\ flag \in BOOLEAN /\ ready \in BOOLEAN /\ savedFlag \in BOOLEAN
  /\ mode \in {"real", "protected"}
  /\ table \in {"bios", "kernel"} /\ savedTable \in {"bios", "kernel"}
  /\ vectors \in {"bios", "kernel"}
  /\ answer \in {"none", "true", "false"}
  /\ mask \subseteq Irqs /\ biosMask \subseteq Irqs /\ savedMask \subseteq Irqs
  /\ irr \subseteq Lines /\ registered \subseteq Irqs
  /\ serving \in Irqs \cup {None}

\* No interrupt finds the wrong table, mode or vector base: not during boot,
\* not while the BIOS has interrupts on, not while the masks are being written
\* (the comment of realmode.c:172-175).
RightTable == serving # None => KernelEnv

\* An interrupt of the timer or the keyboard finds its handler installed.
\* Without one isr_dispatch sends no EOI and the IRQ never comes again
\* (kernel_main.c:49-62, idt.c:84-91).
HandlersReady == serving \in {TIMER, KBD} => serving \in registered

\* The stub's address is called only after realmode_init has copied it there
\* (realmode.c:153, 181).
StubBeforeUse == mode = "real" => ready

\* A BIOS call leaves no trace: back at the caller both masks are the ones boot
\* set up, however often a call was made and wherever interrupts fell in it;
\* the kernel's environment is back and interrupts are on
\* (realmode.c:176-184, realmode.asm:206-218).
CallLeavesNoTrace ==
  pc = "caller" =>
    /\ mask = biosMask \ {TIMER, KBD}
    /\ KernelEnv
    /\ serving = None => flag

\* The timer survives any number of BIOS calls.
ClockSurvivesBios == []<>(serving = TIMER)

\* A key pressed while everything is masked for the BIOS is not lost: its
\* request stays latched and is served when the call is over.
KeyDuringCallIsServed == pc = "bios" /\ KBD \in irr ~> serving = KBD
==============================================================================
