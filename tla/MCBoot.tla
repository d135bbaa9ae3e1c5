------------------------------- MODULE MCBoot --------------------------------
(***************************************************************************)
(* A volume with four-byte sectors, one sector per cluster and a root      *)
(* directory of two sectors.  Stage 2, S, has clusters 3, 2 and 6, the     *)
(* kernel, K, clusters 5 and 4.  The drive has more cylinders than fit in  *)
(* the low bits.                                                           *)
(***************************************************************************)
EXTENDS Boot, TLC

File(n, c, s) == [name |-> n, dir |-> FALSE, first |-> c, size |-> s]

MCDirectory ==
  (2 :> <<NoEntry, File("A", 7, 1), NoEntry, NoEntry>>) @@
  (3 :> <<File("S", 3, 11), NoEntry, NoEntry, File("K", 5, 7)>>)

MCChain == (3 :> <<3, 2, 6>>) @@ (5 :> <<5, 4>>) @@ (7 :> <<7>>)

\* The table of the volume, packed as FAT12 stores it.
TableEntries == <<4080, 4095, 6, 2, 4095, 4, 4095, 4095>>
MCFatBytes ==
  [b \in 0 .. (Len(TableEntries) * 3) \div 2 - 1 |->
     LET even == TableEntries[2 * (b \div 3) + 1]
         odd  == TableEntries[2 * (b \div 3) + 2]
     IN  CASE b % 3 = 0 -> even % 256
           [] b % 3 = 1 -> (even \div 256) + 16 * (odd % 16)
           [] b % 3 = 2 -> odd \div 16]

MCKernel == <<"K">>

\* In stage 2 a search that cannot read the second sector of the root never
\* ends, as one for a missing name does not.
MCFatal == (0 .. Sectors - 1) \ {3}
MCFatal1 == 0 .. Sectors - 1

\* The constant 31 of boot.asm is what its BPB makes it: one reserved sector,
\* two tables of nine sectors, 224 entries of 32 bytes, clusters from 2 on.
ASSUME 1 + 2 * 9 + (224 * 32) \div 512 - 2 = 31
==============================================================================
