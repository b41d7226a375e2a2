------------------------------ MODULE Topfree ------------------------------
(***************************************************************************)
(* user/topfree.c: parse_args(), main() and wait_and_check_quit().  An      *)
(* argument is one of the words the program knows, or a number, or "?".     *)
(* What a screen shows is the business of Display; the kernel's             *)
(* getallprocs(), pause() and getc_nb() are those of Monitor, Clock and     *)
(* Console.                                                                 *)
(***************************************************************************)
EXTENDS Integers, Sequences, FiniteSetsExt

CONSTANTS
  INT_MAX,
  PerSecond, PerMinute, PerTick,  \* 10 and 600 ticks; 100 ms
  Words, Numbers,                 \* bounds: the arguments
  MaxArgs

TopfreeAssumption ==
  {INT_MAX, PerSecond, PerMinute, PerTick} \subseteq Nat \ {0} /\ MaxArgs \in Nat

VARIABLES
  argv, i,      \* the arguments after the program's name, and the next one
  config, flag,
  iter, wait,   \* the loops of main() and wait_and_check_quit()
  polls,        \* getc_nb() since the last screen
  pc
vars == <<argv, i, config, flag, iter, wait, polls, pc>>

\* The values of each option, and what config keeps of them.
Accepts == [
  cpu |-> [t |-> "t", s |-> "s", p |-> "p"],
  mem |-> [K |-> "K", M |-> "M", G |-> "G", p |-> "p"],
  sort |-> [cpu |-> "c", mem |-> "m", time |-> "t", pid |-> "p", ppid |-> "i"],
  time |-> [min |-> "M", m |-> "m", s |-> "s"],
  unit_pause |-> [min |-> "M", s |-> "s", m |-> "m"]]
NumberOptions == {"iter", "pause"}
Options == DOMAIN Accepts \cup NumberOptions

\* A word is "--" and an option, "--help", or the text of a value.
Flag(o) == <<"--", o>>
Value(w) == <<"", w>>
Args ==
  {Flag(o) : o \in Options \cup {"help"}}
  \cup {Value(w) : w \in Words \cup DOMAIN Numbers}
atoi(a) == IF a[1] = "" /\ a[2] \in DOMAIN Numbers THEN Numbers[a[2]] ELSE 0

Defaults == [iter |-> 5, cpu |-> "p", mem |-> "p", sort |-> "n", time |-> "s",
             pause |-> 20, unit_pause |-> "t"]

Init ==
  /\ argv \in UNION {[1..n -> Args] : n \in 0..MaxArgs} /\ i = 1
  /\ config = Defaults /\ flag = 97
  /\ iter = 0 /\ wait = 0 /\ polls = 0 /\ pc = "parse"

----------------------------------------------------------------------------
(* parse_args(): one turn of the loop *)

HasValue(k) == k + 1 <= Len(argv)
Skips(k) == k + 2

Known(a) == a[1] = "--" /\ a[2] \in Options
Good(o, a) == o \in NumberOptions \/ (a[1] = "" /\ a[2] \in DOMAIN Accepts[o])
Kept(o, a) == IF o \in NumberOptions THEN atoi(a) ELSE Accepts[o][a[2]]

parse_help ==
  /\ pc = "parse" /\ i <= Len(argv) /\ argv[i] = Flag("help")
  /\ pc' = "helped" /\ UNCHANGED <<argv, i, config, flag, iter, wait, polls>>

parse_option ==
  /\ pc = "parse" /\ i <= Len(argv) /\ Known(argv[i]) /\ HasValue(i)
  /\ LET o == argv[i][2] IN
     IF Good(o, argv[i + 1])
     THEN config' = [config EXCEPT ![o] = Kept(o, argv[i + 1])] /\ UNCHANGED flag
     ELSE flag' = -97 /\ UNCHANGED config
  /\ i' = Skips(i) /\ UNCHANGED <<argv, iter, wait, polls, pc>>

parse_invalid ==
  /\ pc = "parse" /\ i <= Len(argv) /\ argv[i] # Flag("help")
  /\ ~(Known(argv[i]) /\ HasValue(i))
  /\ flag' = -97 /\ i' = i + 1 /\ UNCHANGED <<argv, config, iter, wait, polls, pc>>

parse_end ==
  /\ pc = "parse" /\ i > Len(argv)
  /\ pc' = IF flag < 0 THEN "usage" ELSE "parsed"
  /\ UNCHANGED <<argv, i, config, flag, iter, wait, polls>>

----------------------------------------------------------------------------
(* main() *)

\* An int that overflows wraps.
Wrapped(x) == ((x + INT_MAX + 1) % (2 * INT_MAX + 2)) - (INT_MAX + 1)

Target ==
  IF config.unit_pause = "m" THEN config.pause \div PerTick
  ELSE IF config.unit_pause = "s" THEN Wrapped(config.pause * PerSecond)
  ELSE IF config.unit_pause = "M" THEN Wrapped(config.pause * PerMinute)
  ELSE config.pause
target_pause_ticks == IF Target <= 0 THEN 1 ELSE Target

\* The options that matter from here are iter and the pause.
start ==
  /\ pc = "parsed" /\ pc' = "screen" /\ argv' = <<>> /\ i' = 1
  /\ config' = [Defaults EXCEPT !.iter = config.iter, !.pause = target_pause_ticks]
  /\ UNCHANGED <<flag, iter, wait, polls>>

Turned(n) == n + 1
Goes == iter < config.iter \/ config.iter = 0

screen ==
  /\ pc = "screen" /\ Goes
  /\ \/ pc' = "wait" /\ wait' = 0 /\ polls' = 0
     \/ pc' = "failed" /\ UNCHANGED <<wait, polls>>       \* getallprocs() < 0
  /\ UNCHANGED <<argv, i, config, flag, iter>>

\* iter is an int; a run that never ends is modelled by leaving it at 0.
wait_and_check_quit ==
  /\ pc = "wait" /\ UNCHANGED <<argv, i, config, flag>>
  /\ IF wait < config.pause
     THEN /\ polls' = 1 /\ UNCHANGED iter
          /\ \/ pc' = "quit" /\ UNCHANGED wait             \* getc_nb() = 'q'
             \/ wait' = wait + 1 /\ UNCHANGED pc           \* pause(1)
     ELSE /\ pc' = "screen" /\ UNCHANGED <<wait, polls>>
          /\ iter' = IF config.iter = 0 THEN iter ELSE Turned(iter)

end ==
  /\ pc = "screen" /\ ~Goes /\ pc' = "ended"
  /\ UNCHANGED <<argv, i, config, flag, iter, wait, polls>>

Over == {"helped", "usage", "failed", "quit", "ended"}
Rest == pc \in Over /\ UNCHANGED vars

Next ==
  \/ parse_help \/ parse_option \/ parse_invalid \/ parse_end
  \/ start \/ screen \/ wait_and_check_quit \/ end \/ Rest
Spec == Init /\ [][Next]_vars

----------------------------------------------------------------------------

Pairs == {k \in 1..Len(argv) : k % 2 = 1}
Formed ==
  Len(argv) % 2 = 0 /\ \A k \in Pairs : Known(argv[k]) /\ Good(argv[k][2], argv[k + 1])

=============================================================================
