------------------------------ MODULE Console ------------------------------
(***************************************************************************)
(* Console input: kernel/console.c.  consoleintr() and consolegetc_nb()     *)
(* hold cons.lock from end to end and are one action; consoleread() takes   *)
(* one character a step and gives the lock up only in sleep().              *)
(***************************************************************************)
EXTENDS Integers, Sequences

CONSTANTS
  Proc,             \* the processes that read the console
  INPUT_BUF_SIZE,
  UINT,             \* number of values of an unsigned int
  Polls,            \* bound: calls of consolegetc_nb()
  MaxRead,          \* bound: bytes asked of one consoleread()
  MaxTyped          \* bound: characters typed

ConsoleAssumption ==
  /\ INPUT_BUF_SIZE \in Nat \ {0} /\ UINT % INPUT_BUF_SIZE = 0
  /\ UINT > INPUT_BUF_SIZE /\ Polls \in Nat /\ MaxRead \in Nat /\ MaxTyped \in Nat

Char == {"x", "newline", "eof"}      \* a letter, '\n' (or '\r'), control-D
Ender == {"newline", "eof"}

VARIABLES
  buf, r, w, e,   \* struct cons
  holder,         \* the process that has cons.lock, or "none"
  pr,             \* processes: pc, bytes to go, bytes read, last result
  killed,
  typed, polls    \* counts for the bounds

vars == <<buf, r, w, e, holder, pr, killed, typed, polls>>

Idle == [pc |-> "idle", n |-> 0, got |-> 0]

Init ==
  /\ buf = [i \in 0..(INPUT_BUF_SIZE - 1) |-> "x"]
  /\ r = 0 /\ w = 0 /\ e = 0 /\ holder = "none"
  /\ pr = [p \in Proc |-> Idle]
  /\ killed = {} /\ typed = 0 /\ polls = 0

Plus(a, k) == (a + k) % UINT
Minus(a, b) == (a - b + UINT) % UINT
At(i) == buf[i % INPUT_BUF_SIZE]

\* wakeup(&cons.r)
Woken ==
  [p \in Proc |-> IF pr[p].pc = "sleep" THEN [pr[p] EXCEPT !.pc = "lock"] ELSE pr[p]]

----------------------------------------------------------------------------
(* consoleintr(c) *)

Room == Minus(e, r) < INPUT_BUF_SIZE

\* The default case: store, and at the end of a line or of the buffer, commit.
consoleintr(c) ==
  LET e2 == Plus(e, 1) IN
  /\ holder = "none" /\ typed < MaxTyped /\ typed' = typed + 1
  /\ IF Room
     THEN /\ buf' = [buf EXCEPT ![e % INPUT_BUF_SIZE] = c]
          /\ e' = e2
          /\ IF c \in Ender \/ Minus(e2, r) = INPUT_BUF_SIZE
             THEN w' = e2 /\ pr' = Woken
             ELSE UNCHANGED <<w, pr>>
     ELSE UNCHANGED <<buf, w, e, pr>>
  /\ UNCHANGED <<r, holder, killed, polls>>

\* Control-H and delete.
consoleintr_erase ==
  /\ holder = "none" /\ e # w
  /\ e' = Minus(e, 1)
  /\ UNCHANGED <<buf, r, w, holder, pr, killed, typed, polls>>

\* Control-U: back to the write index or to a newline.
consoleintr_kill ==
  /\ holder = "none"
  /\ \E k \in 0..Minus(e, w) :
       /\ \A i \in 1..k : At(Minus(e, i)) # "newline"
       /\ k = Minus(e, w) \/ At(Minus(e, k + 1)) = "newline"
       /\ e' = Minus(e, k)
  /\ UNCHANGED <<buf, r, w, holder, pr, killed, typed, polls>>

----------------------------------------------------------------------------
(* consoleread() *)

Call(p, n) ==
  /\ pr[p].pc = "idle" /\ p \notin killed
  /\ pr' = [pr EXCEPT ![p] = [pc |-> "lock", n |-> n, got |-> 0]]
  /\ UNCHANGED <<buf, r, w, e, holder, killed, typed, polls>>

\* acquire(&cons.lock), at the start or on the way out of sleep().
consoleread_acquire(p) ==
  /\ pr[p].pc = "lock" /\ holder = "none"
  /\ holder' = p /\ pr' = [pr EXCEPT ![p].pc = "read"]
  /\ UNCHANGED <<buf, r, w, e, killed, typed, polls>>

Return(p) == holder' = "none" /\ pr' = [pr EXCEPT ![p] = Idle]

consoleread_sleep(p) ==
  /\ pr[p].pc = "read" /\ pr[p].n > 0 /\ r = w
  /\ IF p \in killed THEN Return(p)
     ELSE holder' = "none" /\ pr' = [pr EXCEPT ![p].pc = "sleep"]
  /\ UNCHANGED <<buf, r, w, e, killed, typed, polls>>

\* The read index after ^D: kept for the next call if this one has bytes.
AfterEof(got) == IF got > 0 THEN r ELSE Plus(r, 1)

\* One character, copied out; either_copyout() may fail.
consoleread_char(p) ==
  LET c == At(r) IN
  /\ pr[p].pc = "read" /\ pr[p].n > 0 /\ r # w
  /\ IF c = "eof" THEN r' = AfterEof(pr[p].got) /\ Return(p)
     ELSE /\ r' = Plus(r, 1)
          /\ \/ Return(p)                    \* either_copyout() == -1, or '\n'
             \/ /\ c # "newline"
                /\ pr' = [pr EXCEPT ![p].n = @ - 1, ![p].got = @ + 1]
                /\ UNCHANGED holder
  /\ UNCHANGED <<buf, w, e, killed, typed, polls>>

consoleread_done(p) ==
  /\ pr[p].pc = "read" /\ pr[p].n = 0 /\ Return(p)
  /\ UNCHANGED <<buf, r, w, e, killed, typed, polls>>

\* kkill(): a killed process is made runnable.
kkill(p) ==
  /\ pr[p].pc # "idle" /\ killed' = killed \cup {p}
  /\ pr' = [pr EXCEPT ![p].pc = IF @ = "sleep" THEN "lock" ELSE @]
  /\ UNCHANGED <<buf, r, w, e, holder, typed, polls>>

----------------------------------------------------------------------------

Pushed(r2) == IF w < r2 THEN r2 ELSE w

consolegetc_nb ==
  LET r2 == Plus(r, 1) IN
  /\ holder = "none" /\ polls < Polls /\ polls' = polls + 1
  /\ IF r # e THEN r' = r2 /\ w' = Pushed(r2) ELSE UNCHANGED <<r, w>>
  /\ UNCHANGED <<buf, e, holder, pr, killed, typed>>

\* Everything typed, nothing moves.
Rest ==
  /\ typed = MaxTyped /\ holder = "none" /\ \A p \in Proc : pr[p].pc \in {"idle", "sleep"}
  /\ UNCHANGED vars

Next ==
  \/ \E c \in Char : consoleintr(c)
  \/ consoleintr_erase \/ consoleintr_kill \/ consolegetc_nb \/ Rest
  \/ \E p \in Proc :
       \/ \E n \in 1..MaxRead : Call(p, n)
       \/ consoleread_acquire(p) \/ consoleread_sleep(p) \/ consoleread_char(p)
       \/ consoleread_done(p) \/ kkill(p)

Spec == Init /\ [][Next]_vars

\* A reader gets the lock if it keeps asking, and does not stop in its loop.
Fairness ==
  \A p \in Proc : /\ SF_vars(consoleread_acquire(p))
                  /\ WF_vars(consoleread_sleep(p) \/ consoleread_char(p)
                             \/ consoleread_done(p))

----------------------------------------------------------------------------

\* Characters from index i up to j.
Span(i, j) == [k \in 1..Minus(j, i) |-> At(Plus(i, k - 1))]

\* "Save ^D for next time, to make sure caller gets a 0-byte result": a
\* consoleread() never swallows an end-of-file together with bytes.
EofAlone ==
  [][\A p \in Proc : holder = p /\ r' # r /\ At(r) = "eof" => pr[p].got = 0]_vars

L == INSTANCE LineInput WITH ready <- Span(r, w), edit <- Span(w, e)


\* A consoleread() that has committed input to take returns or finds the
\* input used up.
ReadReturns(p) == r # w /\ pr[p].pc # "idle" ~> r = w \/ pr[p].pc = "idle"
=============================================================================
