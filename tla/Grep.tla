-------------------------------- MODULE Grep --------------------------------
(***************************************************************************)
(* user/grep.c: match(), matchhere() and matchstar() on all short patterns  *)
(* and texts, and grep()'s buffer, which is filled by reads of any length.  *)
(***************************************************************************)
EXTENDS Integers, Sequences, SequencesExt

CONSTANTS
  ReChar, TextChar,     \* characters of patterns and of lines
  MaxRe, MaxInput,      \* bounds: lengths
  BUFSIZE               \* sizeof(buf)

GrepAssumption == MaxRe \in Nat /\ MaxInput \in Nat /\ BUFSIZE \in Nat /\ BUFSIZE > 1

VARIABLES
  re,       \* the pattern
  input,    \* what the file holds
  pos,      \* how much of it was read
  buf,      \* the m characters of the buffer
  out,      \* what was written to descriptor 1
  phase     \* "pattern", "input", "read", "done"

vars == <<re, input, pos, buf, out, phase>>

----------------------------------------------------------------------------
(* The matcher; the rest of a string is its tail *)

At(s, i) == IF i > Len(s) THEN "nul" ELSE s[i]

EndAnchor(text) == text = <<>>

RECURSIVE matchhere(_, _), matchstar(_, _, _)
matchhere(r, text) ==
  IF r = <<>> THEN TRUE
  ELSE IF At(r, 2) = "*" THEN matchstar(r[1], SubSeq(r, 3, Len(r)), text)
  ELSE IF r = <<"$">> THEN EndAnchor(text)
  ELSE /\ text # <<>> /\ r[1] \in {".", text[1]}
       /\ matchhere(Tail(r), Tail(text))

\* c*re: zero or more instances.
matchstar(c, r, text) ==
  \/ matchhere(r, text)
  \/ text # <<>> /\ c \in {".", text[1]} /\ matchstar(c, r, Tail(text))

RECURSIVE Anywhere(_, _)
Anywhere(r, text) ==
  matchhere(r, text) \/ (text # <<>> /\ Anywhere(r, Tail(text)))

match(r, text) == IF At(r, 1) = "^" THEN matchhere(Tail(r), text) ELSE Anywhere(r, text)

----------------------------------------------------------------------------
(* grep() *)

Init ==
  /\ re = <<>> /\ input = <<>> /\ pos = 0 /\ buf = <<>> /\ out = <<>>
  /\ phase = "pattern"

\* The arguments and the file: any pattern, any input.
Choose ==
  \/ /\ phase = "pattern"
     /\ \/ Len(re) < MaxRe /\ \E c \in ReChar : re' = Append(re, c) /\ UNCHANGED phase
        \/ phase' = "input" /\ UNCHANGED re
     /\ UNCHANGED <<input, pos, buf, out>>
  \/ /\ phase = "input"
     /\ \/ Len(input) < MaxInput /\ UNCHANGED phase
           /\ \E c \in TextChar \cup {"\n"} : input' = Append(input, c)
        \/ phase' = "read" /\ UNCHANGED input
     /\ UNCHANGED <<re, pos, buf, out>>

Newlines(s) == {i \in 1..Len(s) : s[i] = "\n"}

\* The whole lines of s that match, newlines included.
RECURSIVE Matching(_)
Matching(s) ==
  LET q == IF Newlines(s) = {} THEN 0
           ELSE CHOOSE i \in Newlines(s) : \A j \in Newlines(s) : i <= j
  IN  IF q = 0 THEN <<>>
      ELSE (IF match(re, SubSeq(s, 1, q - 1)) THEN SubSeq(s, 1, q) ELSE <<>>)
           \o Matching(SubSeq(s, q + 1, Len(s)))

\* Mutant: the incomplete line at the end of the buffer is thrown away.
Rest_Dropped(s) == <<>>
\* memmove(buf, p, m): what follows the last newline.
Rest(s) ==
  IF Newlines(s) = {} THEN s
  ELSE SubSeq(s, 1 + CHOOSE i \in Newlines(s) : \A j \in Newlines(s) : j <= i, Len(s))

Room(b) == BUFSIZE - Len(b) - 1

\* One read() of n characters, and the lines it completes.
grep(n) ==
  LET s == buf \o SubSeq(input, pos + 1, pos + n) IN
  /\ phase = "read" /\ n <= Room(buf) /\ pos + n <= Len(input)
  /\ pos' = pos + n /\ out' = out \o Matching(s) /\ buf' = Rest(s)
  /\ UNCHANGED <<re, input, phase>>

\* read() returns 0: the end of the file, or no room in the buffer.
grep_end ==
  /\ phase = "read" /\ (pos = Len(input) \/ Room(buf) = 0)
  /\ phase' = "done" /\ UNCHANGED <<re, input, pos, buf, out>>

Next ==
  \/ Choose \/ grep_end \/ \E n \in 1..BUFSIZE : grep(n)
  \/ phase = "done" /\ UNCHANGED vars

Spec == Init /\ [][Next]_vars

----------------------------------------------------------------------------
(* What the operators ^ . * $ mean *)

\* The pattern as a sequence of characters with or without a star.
RECURSIVE Items(_)
Items(r) ==
  IF r = <<>> THEN <<>>
  ELSE IF At(r, 2) = "*" THEN <<[c |-> r[1], star |-> TRUE]>> \o Items(SubSeq(r, 3, Len(r)))
  ELSE <<[c |-> r[1], star |-> FALSE]>> \o Items(Tail(r))

Fits(c, x) == c = "." \/ c = x
\* cut says how far into the text each item reaches.
Derives(items, text) ==
  \E cut \in [0..Len(items) -> 0..Len(text)] :
    /\ cut[0] = 0 /\ cut[Len(items)] = Len(text)
    /\ \A k \in 1..Len(items) :
         /\ cut[k - 1] <= cut[k] /\ (items[k].star \/ cut[k] = cut[k - 1] + 1)
         /\ \A i \in (cut[k - 1] + 1)..cut[k] : Fits(items[k].c, text[i])

Means(r, text) ==
  LET left == At(r, 1) = "^"
      r1 == IF left THEN Tail(r) ELSE r
      items == Items(r1)
      right == items # <<>> /\ Last(items) = [c |-> "$", star |-> FALSE]
      body == IF right THEN Front(items) ELSE items
  IN  \E i \in 1..(Len(text) + 1) : \E j \in (i - 1)..Len(text) :
        /\ left => i = 1
        /\ right => j = Len(text)
        /\ Derives(body, SubSeq(text, i, j))

\* match() finds a match exactly when some part of the text can be derived
\* from the pattern, with every way to share the text among stars tried.
\* However the reads cut the input, the output is at any time the matching
\* lines of what was read, once each and in order, and what is kept is the
\* incomplete line.  The buffer never overflows, and grep stops before the
\* end of the file only at a line that does not fit in it.
GrepExact ==
  LET read == SubSeq(input, 1, pos) IN
  /\ phase = "input" /\ Newlines(input) = {} => match(re, input) = Means(re, input)
  /\ out = Matching(read) /\ buf = Rest(read) /\ Len(buf) < BUFSIZE
  /\ phase = "done" /\ pos < Len(input) => Newlines(buf) = {} /\ Len(buf) = BUFSIZE - 1
=============================================================================
