------------------------------ MODULE MCConsole ------------------------------
(* Console with one typed character, one serial byte and one stray IRQ (6, *)
(* the floppy controller the BIOS has just booted from).                   *)
EXTENDS Console, TLC

MCScan    == {"a", "0"}
MCConvert == ("CR" :> "NL")
==============================================================================
