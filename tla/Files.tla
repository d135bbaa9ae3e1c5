-------------------------------- MODULE Files --------------------------------
(***************************************************************************)
(* What fat.h promises a caller whose disk can be read: a file of the      *)
(* volume is opened into a free handle, and successive reads of a handle   *)
(* return successive pieces of the file, short only at its end.  Which     *)
(* file a name stands for is left open.                                    *)
(***************************************************************************)
EXTENDS Integers, Sequences

CONSTANTS
  Handles,  \* the slots of the table of open files
  Content,  \* for each file, its bytes
  Counts    \* sizes asked for

VARIABLES
  table,    \* for each handle, the file and the position in it, or Closed
  last      \* what the last call returned

Closed == [file |-> -1, pos |-> 0]
NoFile == -2

Init ==
  /\ table = [h \in Handles |-> Closed]
  /\ last = [op |-> "none"]

Unready == last.op = "none" \/ (last.op = "initialized" /\ ~last.ok)

\* The volume is accepted or not; a caller may try again.
Initialize ==
  /\ Unready
  /\ \E ok \in BOOLEAN : last' = [op |-> "initialized", ok |-> ok]
  /\ UNCHANGED table

Open(f) ==
  /\ ~Unready
  /\ \E h \in Handles :
       /\ table[h] = Closed
       /\ table' = [table EXCEPT ![h] = [file |-> f, pos |-> 0]]
       /\ last' = [op |-> "open", file |-> h]

NoHandle ==
  /\ ~Unready
  /\ \A h \in Handles : table[h] # Closed
  /\ last' = [op |-> "open", file |-> NoFile]
  /\ UNCHANGED table

Piece(f, pos, n) ==
  LET end == IF pos + n < Len(Content[f]) THEN pos + n ELSE Len(Content[f])
  IN  SubSeq(Content[f], pos + 1, end)

Read(h, n) ==
  /\ table[h] # Closed
  /\ LET piece == Piece(table[h].file, table[h].pos, n)
     IN  /\ last' = [op |-> "read", data |-> piece, count |-> Len(piece)]
         /\ table' = [table EXCEPT ![h].pos = @ + Len(piece)]

Close(h) ==
  /\ table[h] # Closed
  /\ table' = [table EXCEPT ![h] = Closed]
  /\ last' = [op |-> "close"]

Next ==
  \/ Initialize
  \/ \E f \in DOMAIN Content : Open(f)
  \/ NoHandle
  \/ \E h \in Handles : Close(h) \/ \E n \in Counts : Read(h, n)

Spec == Init /\ [][Next]_<<table, last>>
==============================================================================
