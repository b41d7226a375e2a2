------------------------------ MODULE ShParse ------------------------------
(***************************************************************************)
(* The shell's parser: gettoken() to nulterminate() of user/sh.c, on the    *)
(* characters of a command line.  A position in the line stands for a       *)
(* char *; a parse that panics returns Panic.                               *)
(***************************************************************************)
EXTENDS Integers, Sequences, SequencesExt, FiniteSets

CONSTANTS Alphabet, MaxLen, MAXARGS

VARIABLE buf

Symbols == {"<", "|", ">", "&", ";", "(", ")"}
C(s) == IF s > Len(buf) THEN "nul" ELSE buf[s]

RECURSIVE Skip(_)
Skip(s) == IF C(s) = " " THEN Skip(s + 1) ELSE s
RECURSIVE WordEnd(_)
WordEnd(s) == IF C(s) \in {" ", "nul"} \cup Symbols THEN s ELSE WordEnd(s + 1)

\* Kind, start and end of the next token, and the position after it.
gettoken(s0) ==
  LET s == Skip(s0)
      append == C(s) = ">" /\ C(s + 1) = ">"
      eq == IF C(s) = "nul" THEN s ELSE IF append THEN s + 2
            ELSE IF C(s) \in Symbols THEN s + 1 ELSE WordEnd(s)
  IN  [ret |-> IF append THEN "+" ELSE IF C(s) \in Symbols \cup {"nul"} THEN C(s) ELSE "a",
       q |-> s, eq |-> eq, s |-> Skip(eq)]
peek(s, toks) == C(Skip(s)) \in toks

----------------------------------------------------------------------------
(* The constructors, and the recursive descent *)

Word(t) == <<t.q, t.eq>>
Exec(argv) == [type |-> "EXEC", argv |-> argv]
Redir(cmd, r) == [type |-> "REDIR", cmd |-> cmd, file |-> r.file, mode |-> r.mode]
Two(type, left, right) == [type |-> type, left |-> left, right |-> right]
Back(cmd) == [type |-> "BACK", cmd |-> cmd]

Panic == [cmd |-> [type |-> "panic"], s |-> 0]
Bad(r) == r.cmd.type = "panic"

\* Redirections wrap the command in the order in which they are read.
Wrapped(cmd, rs) == FoldLeft(Redir, cmd, rs)

\* The redirections from s on, after those in rs.
RECURSIVE parseredirs(_, _)
parseredirs(rs, s) ==
  LET t == gettoken(s)  f == gettoken(t.s) IN
  IF ~peek(s, {"<", ">"}) THEN [ok |-> TRUE, rs |-> rs, s |-> s]
  ELSE IF f.ret # "a" THEN [ok |-> FALSE, rs |-> rs, s |-> s]
  ELSE parseredirs(Append(rs, [mode |-> t.ret, file |-> Word(f)]), f.s)

\* The loop of parseexec().
RECURSIVE Args(_, _, _)
Args(argv, rs, s) ==
  LET t == gettoken(s)
      r == parseredirs(rs, t.s)
  IN  IF peek(s, {"|", ")", "&", ";"}) \/ t.ret = "nul"
      THEN [cmd |-> Wrapped(Exec(argv), rs), s |-> s]
      ELSE IF t.ret # "a" \/ Len(argv) + 1 >= MAXARGS \/ ~r.ok THEN Panic
      ELSE Args(Append(argv, Word(t)), r.rs, r.s)

\* Mutant: at most one & is taken.
Ampersands_One(r) ==
  IF ~Bad(r) /\ peek(r.s, {"&"}) THEN [cmd |-> Back(r.cmd), s |-> gettoken(r.s).s] ELSE r
RECURSIVE Ampersands(_)
Ampersands(r) ==
  IF ~Bad(r) /\ peek(r.s, {"&"})
  THEN Ampersands([cmd |-> Back(r.cmd), s |-> gettoken(r.s).s]) ELSE r

\* A list or pipe of a parsed command l and what follows it.
Join(type, l, next) ==
  IF Bad(next) THEN Panic ELSE [cmd |-> Two(type, l.cmd, next.cmd), s |-> next.s]

\* The end of parseblock(): the ")" and the redirections rs behind it.
Close(r, rs) ==
  IF Bad(r) \/ ~peek(r.s, {")"}) \/ ~rs.ok THEN Panic
  ELSE [cmd |-> Wrapped(r.cmd, rs.rs), s |-> rs.s]
Block(r) == Close(r, parseredirs(<<>>, gettoken(r.s).s))

\* parseexec() after its first parseredirs().
ExecAfter(r) == IF ~r.ok THEN Panic ELSE Args(<<>>, r.rs, r.s)

RECURSIVE parseline(_), parsepipe(_), parseexec(_), parseblock(_)
\* The ends of parseline() and parsepipe(), after a command r.
LineRest(r) ==
  IF Bad(r) \/ ~peek(r.s, {";"}) THEN r ELSE Join("LIST", r, parseline(gettoken(r.s).s))
PipeRest(r) ==
  IF Bad(r) \/ ~peek(r.s, {"|"}) THEN r ELSE Join("PIPE", r, parsepipe(gettoken(r.s).s))
parseline(s) == LineRest(Ampersands(parsepipe(s)))
parsepipe(s) == PipeRest(parseexec(s))
parseblock(s) == Block(parseline(gettoken(s).s))
parseexec(s) ==
  IF peek(s, {"("}) THEN parseblock(s) ELSE ExecAfter(parseredirs(<<>>, s))

\* parsecmd(): nothing may be left over.
parsecmd ==
  LET r == parseline(1) IN IF Bad(r) \/ C(Skip(r.s)) # "nul" THEN Panic.cmd ELSE r.cmd

FileEnd(cmd) == {cmd.file[2]}

\* nulterminate(): the positions that get a NUL.
RECURSIVE nulterminate(_)
nulterminate(cmd) ==
  CASE cmd.type = "EXEC" -> {cmd.argv[i][2] : i \in DOMAIN cmd.argv}
    [] cmd.type = "REDIR" -> nulterminate(cmd.cmd) \cup FileEnd(cmd)
    [] cmd.type \in {"PIPE", "LIST"} -> nulterminate(cmd.left) \cup nulterminate(cmd.right)
    [] cmd.type = "BACK" -> nulterminate(cmd.cmd)
    [] OTHER -> {}

\* gets(): the line is built one character at a time; every line of up to
\* MaxLen characters is a state.
Init == buf = <<>>
Next == \/ Len(buf) < MaxLen /\ \E c \in Alphabet : buf' = Append(buf, c)
        \/ Len(buf) = MaxLen /\ UNCHANGED buf
Spec == Init /\ [][Next]_buf

----------------------------------------------------------------------------
(* The grammar, as the set of trees a sequence of tokens can be derived to *)

RECURSIVE TokensFrom(_)
TokensFrom(s) ==
  LET t == gettoken(s) IN IF t.ret = "nul" THEN <<>> ELSE <<t>> \o TokensFrom(t.s)

Op(t) == t.ret \in {"<", ">", "+"}
AllRedirs(ts) ==
  Len(ts) % 2 = 0 /\ \A i \in DOMAIN ts : IF i % 2 = 1 THEN Op(ts[i]) ELSE ts[i].ret = "a"
RedirsOf(ts) ==
  LET ops == {i \in DOMAIN ts : Op(ts[i])}
  IN  [k \in 1..Cardinality(ops) |->
         LET i == CHOOSE j \in ops : Cardinality({l \in ops : l < j}) = k - 1
         IN  [mode |-> ts[i].ret, file |-> Word(ts[i + 1])]]

Simple(ts) ==
  LET isArg(i) == ts[i].ret = "a" /\ (i = 1 \/ ~Op(ts[i - 1]))
      args == {i \in DOMAIN ts : isArg(i)}
  IN  IF /\ \A i \in DOMAIN ts : \/ ts[i].ret = "a"
                                 \/ Op(ts[i]) /\ i < Len(ts) /\ ts[i + 1].ret = "a"
         /\ Cardinality(args) < MAXARGS
      THEN {Wrapped(Exec([k \in 1..Cardinality(args) |->
              Word(ts[CHOOSE j \in args : Cardinality({l \in args : l < j}) = k - 1])]),
              RedirsOf(ts))}
      ELSE {}

RECURSIVE Line(_), Amp(_), Pipe(_), Cmd(_)
Cmd(ts) ==
  Simple(ts) \cup
  UNION {IF ts[1].ret = "(" /\ ts[k].ret = ")" /\ AllRedirs(SubSeq(ts, k + 1, Len(ts)))
         THEN {Wrapped(c, RedirsOf(SubSeq(ts, k + 1, Len(ts)))) : c \in Line(SubSeq(ts, 2, k - 1))}
         ELSE {} : k \in 2..Len(ts)}
Split(ts, sep, type, L(_), R(_)) ==
  UNION {IF ts[k].ret = sep
         THEN {Two(type, l, r) : l \in L(SubSeq(ts, 1, k - 1)), r \in R(SubSeq(ts, k + 1, Len(ts)))}
         ELSE {} : k \in DOMAIN ts}
Pipe(ts) == Cmd(ts) \cup Split(ts, "|", "PIPE", Cmd, Pipe)
Amp(ts) ==
  Pipe(ts) \cup (IF ts # <<>> /\ Last(ts).ret = "&" THEN {Back(c) : c \in Amp(Front(ts))} ELSE {})
Line(ts) == Amp(ts) \cup Split(ts, ";", "LIST", Amp, Line)

RECURSIVE WordsOf(_)
WordsOf(cmd) ==
  CASE cmd.type = "EXEC" -> Range(cmd.argv)
    [] cmd.type = "REDIR" -> WordsOf(cmd.cmd) \cup {cmd.file}
    [] cmd.type \in {"PIPE", "LIST"} -> WordsOf(cmd.left) \cup WordsOf(cmd.right)
    [] cmd.type = "BACK" -> WordsOf(cmd.cmd)
    [] OTHER -> {}

\* The parser accepts exactly the lines of the grammar
\*   line = pipe {"&"} [";" line],  pipe = cmd ["|" pipe],
\*   cmd = words and redirections | "(" line ")" redirections
\* and returns the one tree the grammar gives.  After nulterminate() every
\* word of the tree is its own string: it ends with a NUL where it ended in
\* the line, and no NUL written for another word falls into it, however
\* closely words and symbols follow one another.
ParsesGrammar ==
  LET ends == nulterminate(parsecmd) IN
  /\ Line(TokensFrom(1)) = IF parsecmd.type = "panic" THEN {} ELSE {parsecmd}
  /\ \A w \in WordsOf(parsecmd) :
       /\ w[1] < w[2] /\ (C(w[2]) = "nul" \/ w[2] \in ends)
       /\ ends \cap (w[1]..(w[2] - 1)) = {}
=============================================================================
