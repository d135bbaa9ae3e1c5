-------------------------------- MODULE Boot ---------------------------------
(***************************************************************************)
(* From the boot sector to the jump into the kernel: Stage1 hands the      *)
(* drive to Stage2, which reads the same volume with code of its own.      *)
(***************************************************************************)
EXTENDS Stage1, Stage2

allVars == <<bootVars, stVars>>

InitBoot == Init1 /\ InitSt

RunStage1 == Step1 /\ UNCHANGED stVars

\* The jump to STAGE2_LOAD_SEGMENT:STAGE2_LOAD_OFFSET.
JumpToStage2 == at = "jump" /\ Entry /\ UNCHANGED bootVars

RunStage2 == st # "off" /\ Step2 /\ UNCHANGED bootVars

KeyAndReboot == Reboot /\ UNCHANGED stVars

Run == RunStage1 \/ JumpToStage2 \/ RunStage2

NextBoot == Run \/ KeyAndReboot

\* The boot runs alone: an instruction that can run runs.  Nobody has to hit a
\* key after a failure of stage 1.
FairSpecBoot == InitBoot /\ [][NextBoot]_allVars /\ WF_allVars(Run)

------------------------------------------------------------------------------
(* Properties. *)

Stage2Entry == CHOOSE e \in FileEntries : e.name = Stage2Name

\* Stage 1 jumps only to the whole of stage 2: the sectors of its chain, in
\* order, from 0x2000:0 on (boot.asm:157-217).
Stage2Loaded ==
  at = "jump" =>
    \A k \in 1 .. Len(Chain[Stage2Entry.first]) :
      loaded[k - 1] = SectorOf(Stage2Entry.first, (k - 1) * SectorSize)

\* Both stages take the drive's geometry from the BIOS and ask it for the
\* sectors they mean, each with its own arithmetic (boot.asm:295-319,
\* disk.c:20-31, x86.asm:208-222).
SectorsMeant ==
  /\ at = "disk" => FirstSector = want.lba
  /\ pc = "disk" => Reached = lba

\* Every boot ends: in the kernel, at a message of stage 2, or at one of
\* stage 1, after which a key starts the next.
BootEnds == []<>(Failed \/ st \in {"jump", "fail"})
==============================================================================
