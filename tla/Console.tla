------------------------------- MODULE Console -------------------------------
(***************************************************************************)
(* From the interrupt lines to shell_read_char: one CPU, the 8259 PIC, the *)
(* 8254 timer, the PS/2 controller, the UART, the two IRQ handlers of      *)
(* kernel_main.c and the loop of shell.c that waits for a character.       *)
(*                                                                         *)
(* The kernel runs in two contexts.  The main context is the shell; it has *)
(* IF = 1 and an interrupt can take the CPU between any two of its steps.  *)
(* A handler runs with IF = 0 from its gate to iret, so the main context   *)
(* stands still meanwhile, but the devices do not: a byte, a tick or a     *)
(* stray request can arrive between the handler's body and its EOI.        *)
(***************************************************************************)
EXTENDS KeyRing, FiniteSets

CONSTANTS
  ScanChars,  \* what one byte of port 0x60 decodes to: a character, or NUL
              \* for a prefix, a modifier, a release or an unmapped key
  SerialBytes,\* bytes a terminal sends on COM1
  Convert,    \* [SerialBytes -> Char \cup {NUL}]: CR to \n, DEL to \b
  Stray,      \* IRQs above 1 that the BIOS left unmasked and nobody handles;
              \* those of the slave reach the master as its IRQ 2
  KbcCap,     \* bound: bytes the keyboard and its controller hold
  UartCap,    \* the receive FIFO of the UART (16 bytes on a 16550)
  TickMod     \* bound: tick_count is a uint32_t, 2^32 in the code

TIMER == 0
KBD   == 1
Irqs  == {TIMER, KBD} \cup Stray
None  == 16   \* no IRQ has this number

ASSUME ConsoleAssumption ==
  /\ ScanChars \subseteq Char \cup {NUL}
  /\ Convert \in [SerialBytes -> Char \cup {NUL}]
  /\ Stray \subseteq 2 .. 7
  /\ KbcCap \in Nat \ {0} /\ UartCap \in Nat \ {0} /\ TickMod \in Nat \ {0}

VARIABLES
  kbc,        \* bytes not read from port 0x60 yet; external
  uart,       \* bytes in the receive FIFO of COM1; external
  irr,        \* the PIC's interrupt request register
  inService,  \* the PIC's in-service register
  serving,    \* the IRQ whose handler runs, or None in the main context
  stage,      \* how far that handler is
  ticks,      \* tick_count of pit.c
  spc         \* where the main context is in shell_read_char

pic      == <<irr, inService>>
cpu      == <<serving, stage>>
conVars  == <<vars, kbc, uart, pic, cpu, ticks, spc>>

Lowest(S) == CHOOSE i \in S : \A j \in S : i <= j

\* The state kernel_main leaves when it calls shell_run: queues empty,
\* interrupts enabled, IRQ 0 and IRQ 1 unmasked with their handlers installed.
InitCon ==
  /\ Init
  /\ kbc = <<>> /\ uart = <<>>
  /\ irr = {} /\ inService = {}
  /\ serving = None /\ stage = "idle"
  /\ ticks = 0
  /\ spc = "caller"

------------------------------------------------------------------------------
(* The devices. *)

\* IRQ 1 is edge triggered: it rises when a byte reaches the empty output port.
KeyArrives(c) ==
  /\ Len(kbc) < KbcCap
  /\ kbc' = Append(kbc, c)
  /\ irr' = IF kbc = <<>> THEN irr \cup {KBD} ELSE irr
  /\ UNCHANGED <<vars, uart, inService, cpu, ticks, spc>>

\* The timer's period (10 ms) is longer than its handler.
PitFires ==
  /\ TIMER \notin irr
  /\ serving # TIMER
  /\ irr' = irr \cup {TIMER}
  /\ UNCHANGED <<vars, kbc, uart, inService, cpu, ticks, spc>>

StrayFires(i) ==
  /\ i \notin irr
  /\ irr' = irr \cup {i}
  /\ UNCHANGED <<vars, kbc, uart, inService, cpu, ticks, spc>>

\* COM1 raises no interrupt (UART_INT_ENABLE is 0); a full FIFO loses the byte.
SerialArrives(b) ==
  /\ uart' = IF Len(uart) < UartCap THEN Append(uart, b) ELSE uart
  /\ UNCHANGED <<vars, kbc, pic, cpu, ticks, spc>>

Devices ==
  \/ \E c \in ScanChars : KeyArrives(c)
  \/ PitFires
  \/ \E i \in Stray : StrayFires(i)
  \/ \E b \in SerialBytes : SerialArrives(b)

------------------------------------------------------------------------------
(* Interrupts. *)

\* The PIC offers its highest-priority request unless one of at least that
\* priority is in service; the CPU takes it, IF drops, a halt ends.
Accept(i) ==
  /\ serving = None
  /\ i \in irr /\ i = Lowest(irr)
  /\ \A j \in inService : i < j
  /\ irr' = irr \ {i}
  /\ inService' = inService \cup {i}
  /\ serving' = i
  /\ stage' = "dispatch"
  /\ spc' = IF spc = "halted" THEN "pollKeyboard" ELSE spc
  /\ rpc' = IF rpc = "halted" THEN "check" ELSE rpc
  /\ UNCHANGED <<ringVars, blocking, loaded, result, kbc, uart, ticks>>

\* irq0_handler up to its EOI: pit_handler.
TimerHandler ==
  /\ serving = TIMER /\ stage = "dispatch"
  /\ ticks' = (ticks + 1) % TickMod
  /\ stage' = "eoi"
  /\ UNCHANGED <<vars, kbc, uart, pic, serving, spc>>

\* A handler that leaves the byte in the port while the ring is full.
KbdHandlerKeepsByte ==
  /\ serving = KBD /\ stage = "dispatch"
  /\ stage' = "eoi"
  /\ IF NextSlot(head) = tail
     THEN UNCHANGED <<ringVars, kbc, irr>>
     ELSE /\ kbc' = Tail(kbc)
          /\ irr' = IF Len(kbc) > 1 THEN irr \cup {KBD} ELSE irr
          /\ IF Head(kbc) # NUL THEN Push(Head(kbc)) ELSE UNCHANGED ringVars
  /\ UNCHANGED <<readerVars, uart, inService, serving, ticks, spc>>

\* irq1_handler up to its EOI: keyboard_handler reads the port, which lets
\* the controller present the next byte and raise IRQ 1 again.
KbdHandler ==
  /\ serving = KBD /\ stage = "dispatch"
  /\ stage' = "eoi"
  /\ kbc' = Tail(kbc)
  /\ irr' = IF Len(kbc) > 1 THEN irr \cup {KBD} ELSE irr
  /\ IF Head(kbc) # NUL THEN Push(Head(kbc)) ELSE UNCHANGED ringVars
  /\ UNCHANGED <<readerVars, uart, inService, serving, ticks, spc>>

\* isr_dispatch finds no handler and the vector is no exception: it returns,
\* and no EOI is ever sent for this IRQ.
NoHandler ==
  /\ serving \in Stray /\ stage = "dispatch"
  /\ stage' = "iret"
  /\ UNCHANGED <<vars, kbc, uart, pic, serving, ticks, spc>>

\* An irq0_handler that forgets its EOI.
EoiNotForTimer ==
  /\ stage = "eoi"
  /\ inService' = IF serving = TIMER THEN inService ELSE inService \ {Lowest(inService)}
  /\ stage' = "iret"
  /\ UNCHANGED <<vars, kbc, uart, irr, serving, ticks, spc>>

\* pic_send_eoi: a non-specific EOI retires the highest priority in service.
Eoi ==
  /\ stage = "eoi"
  /\ inService' = inService \ {Lowest(inService)}
  /\ stage' = "iret"
  /\ UNCHANGED <<vars, kbc, uart, irr, serving, ticks, spc>>

\* iret restores IF and the main context goes on.
Iret ==
  /\ stage = "iret"
  /\ serving' = None
  /\ stage' = "idle"
  /\ UNCHANGED <<vars, kbc, uart, pic, ticks, spc>>

Handler == TimerHandler \/ KbdHandler \/ NoHandler \/ Eoi \/ Iret

------------------------------------------------------------------------------
(* shell_read_char. *)

\* shell_run wants a character.
CallReadChar ==
  /\ spc = "caller"
  /\ spc' = "pollKeyboard"
  /\ UNCHANGED <<vars, kbc, uart, pic, cpu, ticks>>

\* shell_read_char without the keyboard poll: it always calls keyboard_getchar.
PollKeyboardBlindly ==
  /\ spc = "pollKeyboard"
  /\ spc' = "getchar" /\ CallRead(TRUE)
  /\ UNCHANGED <<kbc, uart, pic, cpu, ticks>>

\* keyboard_has_data, and the call of keyboard_getchar when it says yes.
PollKeyboard ==
  /\ spc = "pollKeyboard"
  /\ IF RingEmpty
     THEN spc' = "pollSerial" /\ UNCHANGED vars
     ELSE spc' = "getchar" /\ CallRead(TRUE)
  /\ UNCHANGED <<kbc, uart, pic, cpu, ticks>>

\* keyboard_getchar, access by access; it returns to shell_run.
GetChar ==
  /\ spc = "getchar"
  /\ CheckEmpty \/ CheckData \/ Load \/ Advance \/ Halt
  /\ spc' = IF rpc' = "idle" THEN "caller" ELSE spc
  /\ UNCHANGED <<kbc, uart, pic, cpu, ticks>>

\* serial_has_data.
PollSerial ==
  /\ spc = "pollSerial"
  /\ spc' = IF uart # <<>> THEN "serial" ELSE "hlt"
  /\ UNCHANGED <<vars, kbc, uart, pic, cpu, ticks>>

\* serial_getchar and the conversion of CR and DEL; it returns to shell_run.
SerialGetChar ==
  /\ spc = "serial"
  /\ result' = Convert[Head(uart)]
  /\ uart' = Tail(uart)
  /\ spc' = "caller"
  /\ UNCHANGED <<ringVars, rpc, blocking, loaded, kbc, pic, cpu, ticks>>

\* hlt: input that came after the polls is not seen before the CPU stops.
HaltShell ==
  /\ spc = "hlt"
  /\ spc' = "halted"
  /\ UNCHANGED <<vars, kbc, uart, pic, cpu, ticks>>

Main ==
  /\ serving = None
  /\ CallReadChar \/ PollKeyboard \/ GetChar \/ PollSerial \/ SerialGetChar \/ HaltShell

NextCon == Devices \/ (\E i \in Irqs : Accept(i)) \/ Handler \/ Main

SpecCon == InitCon /\ [][NextCon]_conVars

\* What the machine guarantees.  The timer never stops.  An instruction that
\* can run is run, and a request that stays is taken: ticks are 10 ms apart
\* and a key's bytes about 1 ms, handlers last microseconds, so neither the
\* main context nor IRQ 1 is shut out for ever (strong fairness).
\* Nobody has to type, and no stray IRQ has to come.
Fairness ==
  /\ WF_conVars(PitFires)
  /\ WF_conVars(Handler)
  /\ WF_conVars(Accept(TIMER))
  /\ SF_conVars(Accept(KBD))
  /\ SF_conVars(Main)

FairSpecCon == SpecCon /\ Fairness

------------------------------------------------------------------------------
(* Properties. *)

\* Types of the hardware and of the shell's position.
ConTypeOK ==
  /\ TypeOK
  /\ kbc \in Seq(ScanChars) /\ Len(kbc) <= KbcCap
  /\ uart \in Seq(SerialBytes) /\ Len(uart) <= UartCap
  /\ irr \subseteq Irqs /\ inService \subseteq Irqs
  /\ serving \in Irqs \cup {None}
  /\ stage \in {"idle", "dispatch", "eoi", "iret"}
  /\ ticks \in 0 .. TickMod - 1
  /\ spc \in {"caller", "pollKeyboard", "getchar", "pollSerial", "serial", "hlt", "halted"}

\* A byte in the controller always has its interrupt latched or its handler
\* about to read it: IRQ 1 is an edge, and a byte left without one would shut
\* the keyboard up for ever (keyboard.c:259, kernel_main.c:23-27).
NoByteWithoutIrq ==
  kbc # <<>> => KBD \in irr \/ (serving = KBD /\ stage = "dispatch")

\* The PIC agrees with the CPU about what is being served: in the main context
\* only IRQs without a handler are in service (they never get an EOI,
\* idt.c:84-91), and an EOI retires the IRQ whose handler sends it.
EoiDiscipline ==
  /\ serving = None => inService \subseteq Stray
  /\ stage \in {"dispatch", "eoi"} => serving = Lowest(inService)

\* The poll before it makes keyboard_getchar find data, so its own hlt loop
\* never runs: inside it the shell would be deaf to COM1 (shell.c:161-162).
GetcharNeverBlocks == rpc \notin {"hlt", "halted"}

\* Input is not slept on: whenever a key or a serial byte waits, the shell
\* gets a character.  Nothing wakes hlt for COM1 and an IRQ 1 between the poll
\* and hlt is already spent, so it is the timer that ends the wait
\* (the comment of shell.c:149-158).
InputWakesShell == (~RingEmpty \/ uart # <<>>) ~> spc = "caller"

\* Every byte of the keyboard is read, stray IRQs stuck in service or not.
KeyIsHandled == kbc # <<>> ~> (serving = KBD /\ stage = "eoi")

\* The clock goes on for ever, stray IRQs or not.
ClockGoesOn == []<>(serving = TIMER /\ stage = "eoi")
==============================================================================
