------------------------------- MODULE KeyRing -------------------------------
(***************************************************************************)
(* The circular buffer of src/kernel/keyboard.c, shared without a lock by  *)
(* one producer and one consumer on a single CPU:                          *)
(*                                                                         *)
(*   - the producer is kb_push, called by the IRQ 1 handler.  The gate is  *)
(*     an interrupt gate, so IF = 0 and no instruction of the consumer     *)
(*     runs inside it: Push is one step;                                   *)
(*   - the consumer is keyboard_read or keyboard_getchar, called with      *)
(*     interrupts enabled.  An interrupt can arrive between any two of its *)
(*     accesses to the (volatile) ring: each access is a step of its own.  *)
(***************************************************************************)
EXTENDS Naturals, Sequences

CONSTANTS
  Char,     \* the characters a key can produce; kb_push is never given NUL
  NUL,      \* the 0 that keyboard_read returns for "nothing"
  Size      \* KB_BUFFER_SIZE

\* Both indices are uint8_t, so a slot number must fit in 8 bits.
ASSUME SizeAssumption == Size \in 2 .. 256
ASSUME NulAssumption  == NUL \notin Char

VARIABLES
  buffer,   \* kb_buffer
  head,     \* kb_head: the next slot to write, moved only by the producer
  tail,     \* kb_tail: the next slot to read, moved only by the consumer
  rpc,      \* where the consumer is inside keyboard_read / keyboard_getchar
  blocking, \* TRUE inside keyboard_getchar, FALSE inside keyboard_read
  loaded,   \* the consumer's local c, read from the ring and not returned yet
  result    \* what the last finished call returned

ringVars   == <<buffer, head, tail>>
readerVars == <<rpc, blocking, loaded, result>>
vars       == <<buffer, head, tail, rpc, blocking, loaded, result>>

Slots     == 0 .. Size - 1
ReaderPCs == {"idle", "check", "load", "advance", "hlt", "halted"}

RingEmpty == head = tail

\* The slot after i: an increment and a "% KB_BUFFER_SIZE".
NextSlot(i) == (i + 1) % Size

InitRing ==
  /\ buffer = [i \in Slots |-> NUL]
  /\ head = 0
  /\ tail = 0

InitReader ==
  /\ rpc = "idle"
  /\ blocking = FALSE
  /\ loaded = NUL
  /\ result = NUL

Init == InitRing /\ InitReader

------------------------------------------------------------------------------
(* The producer. *)

\* kb_push without its test for a full ring.
PushUnchecked(c) ==
  /\ buffer' = [buffer EXCEPT ![head] = c]
  /\ head' = NextSlot(head)
  /\ UNCHANGED tail

\* kb_push that makes room by giving up the oldest character.
PushDropOldest(c) ==
  /\ buffer' = [buffer EXCEPT ![head] = c]
  /\ head' = NextSlot(head)
  /\ tail' = IF NextSlot(head) = tail THEN NextSlot(tail) ELSE tail

\* kb_push that stores through the index it has just advanced.
PushStoresNext(c) ==
  /\ NextSlot(head) # tail
  /\ buffer' = [buffer EXCEPT ![NextSlot(head)] = c]
  /\ head' = NextSlot(head)
  /\ UNCHANGED tail

\* kb_push that moves the head before it has wrapped.
PushNoWrap(c) ==
  /\ NextSlot(head) # tail
  /\ buffer' = [buffer EXCEPT ![head] = c]
  /\ head' = head + 1
  /\ UNCHANGED tail

\* kb_push(c): nothing changes when the ring is full.
Push(c) ==
  \/ /\ NextSlot(head) # tail
     /\ buffer' = [buffer EXCEPT ![head] = c]
     /\ head' = NextSlot(head)
     /\ UNCHANGED tail
  \/ /\ NextSlot(head) = tail
     /\ UNCHANGED ringVars

------------------------------------------------------------------------------
(* The consumer. *)

\* A caller enters keyboard_getchar (b) or keyboard_read (~b).
CallRead(b) ==
  /\ rpc = "idle"
  /\ rpc' = "check"
  /\ blocking' = b
  /\ UNCHANGED <<ringVars, loaded, result>>

\* The comparison of the indices found the ring empty: keyboard_read returns
\* 0, keyboard_getchar is about to execute hlt.
CheckEmpty ==
  /\ rpc = "check"
  /\ RingEmpty
  /\ IF blocking
     THEN rpc' = "hlt" /\ UNCHANGED result
     ELSE rpc' = "idle" /\ result' = NUL
  /\ UNCHANGED <<ringVars, blocking, loaded>>

CheckData ==
  /\ rpc = "check"
  /\ ~RingEmpty
  /\ rpc' = "load"
  /\ UNCHANGED <<ringVars, blocking, loaded, result>>

\* c = kb_buffer[kb_tail]
Load ==
  /\ rpc = "load"
  /\ loaded' = buffer[tail]
  /\ rpc' = "advance"
  /\ UNCHANGED <<ringVars, blocking, result>>

\* kb_tail = (kb_tail + 1) % KB_BUFFER_SIZE; return c
Advance ==
  /\ rpc = "advance"
  /\ tail' = NextSlot(tail)
  /\ result' = loaded
  /\ rpc' = "idle"
  /\ UNCHANGED <<buffer, head, blocking, loaded>>

\* The CPU stops.  A character may have arrived since CheckEmpty: nothing in
\* the code looks again before it sleeps.
Halt ==
  /\ rpc = "hlt"
  /\ rpc' = "halted"
  /\ UNCHANGED <<ringVars, blocking, loaded, result>>

\* Any interrupt ends hlt and the loop tests the indices again.
Wake ==
  /\ rpc = "halted"
  /\ rpc' = "check"
  /\ UNCHANGED <<ringVars, blocking, loaded, result>>

Reader == CheckEmpty \/ CheckData \/ Load \/ Advance \/ Halt \/ Wake

Next ==
  \/ \E c \in Char : Push(c) /\ UNCHANGED readerVars
  \/ \E b \in BOOLEAN : CallRead(b)
  \/ Reader

Spec == Init /\ [][Next]_vars

------------------------------------------------------------------------------
(* Properties. *)

\* Every variable holds a value of its C type, the indices inside the array.
TypeOK ==
  /\ buffer \in [Slots -> Char \cup {NUL}]
  /\ head \in Slots
  /\ tail \in Slots
  /\ rpc \in ReaderPCs
  /\ blocking \in BOOLEAN
  /\ loaded \in Char \cup {NUL}
  /\ result \in Char \cup {NUL}

\* How many characters wait, and the slot of the k-th of them (0 is oldest).
Count    == IF head >= tail THEN head - tail ELSE head + Size - tail
SlotOf(k) == IF tail + k < Size THEN tail + k ELSE tail + k - Size

\* Between the consumer's test of the ring and its return, interrupts may add
\* characters but cannot take away or replace the one it is about to return.
ReaderStable ==
  /\ rpc \in {"load", "advance"} => ~RingEmpty
  /\ rpc = "advance" => loaded = buffer[tail]

\* The slots that hold unread characters hold characters, never the NUL the
\* array starts with: keyboard_read's 0 always means "empty".
UnreadAreChars == \A k \in 0 .. Size - 1 : k < Count => buffer[SlotOf(k)] \in Char

\* The contents of the ring as the abstract queue.
Contents == [k \in 1 .. Count |-> buffer[SlotOf(k - 1)]]

Fifo == INSTANCE LossyFifo
          WITH queue <- Contents, Capacity <- Size - 1

\* The ring is a lossy FIFO of KB_BUFFER_SIZE - 1 characters, however the
\* interrupts cut through the reader.
ImplementsFifo == Fifo!Spec
==============================================================================
