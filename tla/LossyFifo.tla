------------------------------ MODULE LossyFifo ------------------------------
(***************************************************************************)
(* What the keyboard driver promises to the code that reads it: a FIFO of  *)
(* characters of bounded capacity.  A character offered to a full queue is *)
(* discarded, so what is already queued is neither lost nor overtaken; a   *)
(* read returns the oldest character, or NUL when there is none.           *)
(***************************************************************************)
EXTENDS Naturals, Sequences

CONSTANTS
  Char,      \* the characters a key press can produce, never NUL
  NUL,       \* the value that tells a caller "no character"
  Capacity   \* how many characters can wait

VARIABLES
  queue,     \* the characters accepted and not yet read, oldest first
  result     \* what the last finished read returned

vars == <<queue, result>>

Init == queue = <<>> /\ result = NUL

\* A key press: the newest character is the one that is given up.
Offer(c) ==
  /\ queue' = IF Len(queue) < Capacity THEN Append(queue, c) ELSE queue
  /\ UNCHANGED result

\* A read that finds a character.
Take ==
  /\ queue # <<>>
  /\ result' = Head(queue)
  /\ queue' = Tail(queue)

\* A read that finds none.
Miss ==
  /\ queue = <<>>
  /\ result' = NUL
  /\ UNCHANGED queue

Next ==
  \/ \E c \in Char : Offer(c)
  \/ Take
  \/ Miss

Spec == Init /\ [][Next]_vars
==============================================================================
