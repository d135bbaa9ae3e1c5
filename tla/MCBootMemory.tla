---------------------------- MODULE MCBootMemory -----------------------------
(***************************************************************************)
(* A machine with pages of 4 bytes, 32 bytes below the 32-bit limit, "1    *)
(* MiB" at 8 and the heap at 2.  Its maps have an entry around the heap    *)
(* and up to two more on the boundaries, or more than the table holds.     *)
(***************************************************************************)
EXTENDS BootMemory

Bases   == {0, 8, 9, 12, 24, 29, 31, 32, 40}
Lengths == {0, 1, 3, 4, 7, 8, 12, 24}

MCEntry  == {e \in [base : Bases, length : Lengths, usable : BOOLEAN] : e.base + e.length < 65}
MCUsable == {e \in MCEntry : e.usable}
Low      == [base |-> 0, length |-> 7, usable |-> TRUE]
LowParts == {[base |-> b, length |-> l, usable |-> u] : b \in {0, 2, 3}, l \in {4, 5, 8}, u \in BOOLEAN}

MCMaps ==
  {<<>>} \cup {<<e>> : e \in MCEntry \cup LowParts} \cup {<<e, f>> : e \in LowParts, f \in LowParts}
    \cup {<<Low, e, f>> : e \in MCEntry, f \in MCUsable}
    \cup {<<Low, e, Low, f>> : e \in LowParts, f \in LowParts}

MCSizes == {0, 1, 4, 5, 31}
MCHeapRequests == {<<0, 0>>, <<1, 2>>, <<2, 3>>, <<3, 0>>, <<2, 1>>}
==============================================================================
