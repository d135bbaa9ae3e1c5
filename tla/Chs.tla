--------------------------------- MODULE Chs ---------------------------------
(***************************************************************************)
(* Cylinder, head and sector: how the two stages turn a sector number into *)
(* the registers of INT 13h, and the sector the BIOS makes of them.        *)
(***************************************************************************)
EXTENDS Integers

CONSTANTS
  Spt, Heads, Cylinders,  \* the drive
  SecMod,    \* 64: the sector number in CL, below the high bits of the cylinder
  CylLow,    \* 256: the cylinder's low bits in CH
  CylHigh,   \* 4: its high bits in CL
  W16        \* a uint16_t: 2^16 values

\* INT 13h has room for the geometry of the drive.
ASSUME DriveAssumption ==
  /\ {Spt, Heads, Cylinders, SecMod, CylLow, CylHigh, W16} \subseteq Nat \ {0}
  /\ Spt < SecMod /\ Cylinders <= CylLow * CylHigh

\* INT 13h/08: the greatest sector, head and cylinder.
BiosParams ==
  [ch |-> (Cylinders - 1) % CylLow,
   cl |-> Spt + SecMod * ((Cylinders - 1) \div CylLow),
   dh |-> Heads - 1]

\* What both stages make of it.
GeometryOf(r) == [spt |-> r.cl % SecMod, heads |-> r.dh + 1]

\* A lba_to_chs that leaves the high bits of the cylinder in AH.
BootRegsLow(g, lba) ==
  LET track == lba \div g.spt
  IN  [ch |-> (track \div g.heads) % CylLow, cl |-> (lba % g.spt) + 1, dh |-> track % g.heads]

\* lba_to_chs of boot.asm.
BootRegs(g, lba) ==
  LET track    == lba \div g.spt
      cylinder == track \div g.heads
  IN  [ch |-> cylinder % CylLow,
       cl |-> (lba % g.spt) + 1 + SecMod * ((cylinder \div CylLow) % CylHigh),
       dh |-> track % g.heads]

\* DISK_LBA2CHS of disk.c.
Lba2Chs(g, lba) ==
  LET lba16 == lba % W16
  IN  [cylinder |-> (lba16 \div g.spt) \div g.heads,
       sector   |-> (lba16 % g.spt) + 1,
       head     |-> (lba16 \div g.spt) % g.heads]

\* x86_Disk_Read of x86.asm: CH and the top of CL from the two bytes of the
\* cylinder.
DiskRegs(a) ==
  [ch |-> a.cylinder % CylLow,
   cl |-> (a.sector % SecMod) + SecMod * ((a.cylinder \div CylLow) % CylHigh),
   dh |-> a.head]

\* The sector INT 13h/02 reads.
BiosSector(r) ==
  ((r.ch + CylLow * (r.cl \div SecMod)) * Heads + r.dh) * Spt + (r.cl % SecMod) - 1

DriveSectors == Cylinders * Heads * Spt

Geo == GeometryOf(BiosParams)
==============================================================================
