----------------------------- MODULE LineInput -----------------------------
(***************************************************************************)
(* What the console promises to its readers: typed characters are edited    *)
(* in a line of their own, go over to the readers when the line is complete *)
(* (or nothing more fits), and are read once each, in the order they were   *)
(* typed.  A polling reader may also take from an incomplete line.          *)
(***************************************************************************)
EXTENDS Sequences, SequencesExt

CONSTANTS Char, Ender        \* the characters; those that complete a line

VARIABLES ready, edit
vars == <<ready, edit>>

Init == ready = <<>> /\ edit = <<>>

Type(c) == /\ ready' = ready /\ edit' = Append(edit, c)
Commit(c) == /\ ready' = ready \o Append(edit, c) /\ edit' = <<>>
Erase == edit # <<>> /\ edit' = Front(edit) /\ UNCHANGED ready
Kill == edit' = <<>> /\ UNCHANGED ready
Read == ready # <<>> /\ ready' = Tail(ready) /\ UNCHANGED edit
Poll == ready = <<>> /\ edit # <<>> /\ edit' = Tail(edit) /\ UNCHANGED ready

Next ==
  \/ \E c \in Char \ Ender : Type(c)
  \/ \E c \in Char : Commit(c)
  \/ Erase \/ Kill \/ Read \/ Poll

Spec == Init /\ [][Next]_vars
=============================================================================
