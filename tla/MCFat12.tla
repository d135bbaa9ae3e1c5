------------------------------- MODULE MCFat12 -------------------------------
(***************************************************************************)
(* A volume with four-byte sectors, one-byte entries and two sectors in a  *)
(* cluster.  The root directory has one sector, with the file A, in        *)
(* clusters 5 and 2, and as its last entry the directory D, which has the  *)
(* file C in its second sector.                                            *)
(***************************************************************************)
EXTENDS Fat12, TLC

File(n, c, s) == [name |-> n, dir |-> FALSE, first |-> c, size |-> s]
Dir(n, c)     == [name |-> n, dir |-> TRUE, first |-> c, size |-> 0]

MCDirectory ==
  (2 :> <<File("A", 5, 12), NoEntry, NoEntry, Dir("D", 3)>>) @@
  (5 :> <<NoEntry, NoEntry, NoEntry, NoEntry>>) @@
  (6 :> <<NoEntry, File("C", 4, 8), NoEntry, NoEntry>>)

MCChain == (5 :> <<5, 2>>) @@ (4 :> <<4>>)

\* The table of the volume, packed as FAT12 stores it.
TableEntries == <<4080, 4095, 4095, 4095, 4095, 2, 4095, 4095>>
Packed(t) ==
  [b \in 0 .. (Len(t) * 3) \div 2 - 1 |->
     LET even == t[2 * (b \div 3) + 1]
         odd  == t[2 * (b \div 3) + 2]
     IN  CASE b % 3 = 0 -> even % 256
           [] b % 3 = 1 -> (even \div 256) + 16 * (odd % 16)
           [] b % 3 = 2 -> odd \div 16]
MCFatBytes == Packed(TableEntries)

MCPaths == {<<"A">>, <<"D", "C">>}

\* A name that is not there.
MCMissing == {<<"Z">>}

\* Sectors that are read only by FAT_Initialize.
MCSystemSectors == {0, 1, 2}

\* A volume with two entries in the one sector of its root directory.
MCSmallDirectory == 2 :> <<File("A", 2, 1), NoEntry>>
MCSmallChain == 2 :> <<2>>

ASSUME Paths = MCPaths => WithinLimits
==============================================================================
