-------------------------------- MODULE Fifo --------------------------------
(***************************************************************************)
(* What a pipe promises: a bounded queue of bytes.  A read takes bytes from *)
(* its head, and returns none only when the queue is empty and the writing  *)
(* side is closed, or fails and takes nothing.                              *)
(***************************************************************************)
EXTENDS Naturals, Sequences

CONSTANTS Byte, Reader, Capacity, Failed

VARIABLES
  queue,   \* the bytes that were written and not read
  open,    \* the writing side is open
  got      \* the last reader, and what it was given

vars == <<queue, open, got>>

Init == queue = <<>> /\ open = TRUE /\ got \in Reader \X {<<>>}

Put(b) ==
  /\ open
  /\ Len(queue) < Capacity
  /\ queue' = Append(queue, b)
  /\ UNCHANGED <<open, got>>

Take(r, k) ==
  /\ queue' = SubSeq(queue, k + 1, Len(queue))
  /\ got' = <<r, SubSeq(queue, 1, k)>>
  /\ UNCHANGED open

EndOfFile(r) ==
  /\ queue = <<>> /\ ~open
  /\ got' = <<r, <<>>>>
  /\ UNCHANGED <<queue, open>>

Fail(r) ==
  /\ got' = <<r, Failed>>
  /\ UNCHANGED <<queue, open>>

Close == open' = FALSE /\ UNCHANGED <<queue, got>>

Next ==
  \/ \E b \in Byte : Put(b)
  \/ \E r \in Reader : EndOfFile(r) \/ Fail(r)
  \/ \E r \in Reader, k \in 1..Len(queue) : Take(r, k)
  \/ Close

Spec == Init /\ [][Next]_vars
=============================================================================
