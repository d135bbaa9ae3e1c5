----------------------------- MODULE MCRealMode -----------------------------
(* RealMode with the IRQs of the timer, the keyboard, a spurious request    *)
(* and IRQ 9, on the second PIC.  Any of them may have been left masked or   *)
(* unmasked by the BIOS.                                                    *)
EXTENDS RealMode

MCMaster == {TIMER, KBD, CASCADE, SPURIOUS}
MCSlave  == {9}
==============================================================================
