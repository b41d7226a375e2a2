------------------------------ MODULE Display ------------------------------
(***************************************************************************)
(* What topfree prints: itoa() of user/ulib.c, and the formats, sizes,      *)
(* percentages and the sorting of user/topfree_utils.c.  A text is a        *)
(* sequence of digits and the marks MINUS and DOT; units are left out.     *)
(***************************************************************************)
EXTENDS Integers, Sequences, SequencesExt

CONSTANTS
  INT_MAX,      \* of an int
  K,            \* 1024
  TOTAL_MEM_BYTES,
  MaxV,         \* bound: numbers that are printed
  Totals,       \* bound: what percentages are of
  N, Keys       \* bounds: processes that are sorted, and their keys

DisplayAssumption ==
  /\ {INT_MAX, MaxV, N} \cup Totals \subseteq Nat
  /\ {K, TOTAL_MEM_BYTES} \subseteq Nat \ {0}

MINUS == -1
DOT == -2

VARIABLES v, procs       \* a number to print; processes to sort: <<key, id>>
vars == <<v, procs>>

Init == v \in -INT_MAX..MaxV /\ procs = <<>>
Next ==
  /\ UNCHANGED v
  /\ \/ /\ v = 0 /\ Len(procs) < N
        /\ \E k \in Keys : procs' = Append(procs, <<k, Len(procs)>>)
     \/ UNCHANGED procs
Spec == Init /\ [][Next]_vars

----------------------------------------------------------------------------
(* itoa() *)

\* The loop: the digits, lowest first.
RECURSIVE Lowest(_, _)
Lowest(n, base) == IF n = 0 THEN <<>> ELSE <<n % base>> \o Lowest(n \div base, base)

\* '-' is appended and the string is turned round.
Signed(digits) == Reverse(Append(digits, MINUS))

itoa(n, base) ==
  IF n = 0 THEN <<0>>
  ELSE IF n < 0 /\ base = 10 THEN Signed(Lowest(-n, base))
  ELSE Reverse(Lowest(n, base))

----------------------------------------------------------------------------
(* The two ways to print a fraction *)

\* format_cpu(), format_mem(), format_time(): itoa() of both parts.
Joined(whole, frac) == itoa(whole, 10) \o <<DOT>> \o itoa(frac, 10)

\* print_percentage(), print_size(): two digits.
Padded(whole, frac) ==
  itoa(whole, 10) \o <<DOT>> \o (IF frac < 10 THEN <<0>> ELSE <<>>) \o itoa(frac, 10)

\* Hundredths of a percent.
Ratio(part, total) == (part * 10000) \div total
Hundredths(x) == Joined(x \div 100, x % 100)

format_cpu(ticks, up_ticks, opt) ==
  IF opt = "p" THEN Hundredths(Ratio(ticks, IF up_ticks <= 0 THEN 1 ELSE up_ticks))
  ELSE IF opt = "s" THEN Joined(ticks \div 10, ticks % 10)
  ELSE itoa(ticks, 10)

\* Kilobytes with two digits, megabytes with three, gigabytes with four.
format_mem(bytes, opt) ==
  IF opt = "p" THEN Hundredths(Ratio(bytes, TOTAL_MEM_BYTES))
  ELSE IF opt = "K" THEN Hundredths((bytes * 100) \div K)
  ELSE IF opt = "M"
  THEN LET x == (bytes * 1000) \div (K * K) IN Joined(x \div 1000, x % 1000)
  ELSE IF opt = "G"
  THEN LET x == (bytes * 10000) \div (K * K * K) IN Joined(x \div 10000, x % 10000)
  ELSE itoa(bytes, 10)

TenthsOfMinute(ticks) == (ticks * 10) \div 600

\* A tick is a tenth of a second.
format_time(ticks, opt) ==
  IF opt = "m" THEN itoa(ticks * 100, 10)
  ELSE IF opt = "M" THEN Joined(TenthsOfMinute(ticks) \div 10, TenthsOfMinute(ticks) % 10)
  ELSE Joined(ticks \div 10, ticks % 10)

print_percentage(part, total) ==
  IF total = 0 THEN <<0, DOT, 0, 0>>
  ELSE Padded(Ratio(part, total) \div 100, Ratio(part, total) % 100)

\* Bytes, or hundredths of the unit that fits.
Unit(bytes) == IF bytes < K * K THEN K ELSE IF bytes < K * K * K THEN K * K ELSE K * K * K
print_size(bytes) ==
  IF bytes < K THEN itoa(bytes, 10)
  ELSE Padded(bytes \div Unit(bytes), ((bytes % Unit(bytes)) * 100) \div Unit(bytes))

----------------------------------------------------------------------------
(* sort_processes(): the key is the field that sort_opt names *)

Swaps(p, q) == p[1] < q[1]

RECURSIVE Bubble(_, _, _)
Bubble(p, j, end) ==
  IF j > end THEN p
  ELSE Bubble(IF Swaps(p[j], p[j + 1])
              THEN [p EXCEPT ![j] = p[j + 1], ![j + 1] = p[j]] ELSE p, j + 1, end)
RECURSIVE Passes(_, _)
Passes(p, i) == IF i > Len(p) - 1 THEN p ELSE Passes(Bubble(p, 1, Len(p) - i), i + 1)
sort_processes(p, sort_opt) == IF sort_opt = "n" THEN p ELSE Passes(p, 1)

----------------------------------------------------------------------------
(* Reading the text back *)

RECURSIVE Number(_, _)
Number(digits, base) ==
  IF digits = <<>> THEN 0 ELSE Number(Front(digits), base) * base + Last(digits)
RECURSIVE Pow10(_)
Pow10(n) == IF n = 0 THEN 1 ELSE 10 * Pow10(n - 1)

\* What a reader takes the text for, in units of 10^-places.
Reads(text, places) ==
  LET dots == {i \in 1..Len(text) : text[i] = DOT}
      d == IF dots = {} THEN Len(text) + 1 ELSE CHOOSE i \in dots : TRUE
      frac == SubSeq(text, d + 1, Len(text))
  IN  Number(SubSeq(text, 1, d - 1), 10) * Pow10(places)
      + Number(frac, 10) * Pow10(places - Len(frac))

=============================================================================
