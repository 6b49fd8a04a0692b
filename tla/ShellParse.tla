------------------------------ MODULE ShellParse ------------------------------
(***************************************************************************)
(* The parser of the shell (user/sh.c) on a text that is a sequence of     *)
(* characters, and the grammar it is for.  A word is the part q..eq-1 of   *)
(* the text until nulterminate makes a string of it.                       *)
(***************************************************************************)
EXTENDS Integers, Sequences, FiniteSetsExt, SequencesExt

CONSTANTS MAXARGS,
          Alphabet, Length    \* the lines that are typed

VARIABLE text                \* what is in buf of main, extended by a character at a time

NUL == ""
Blank == {" "}
Symbols == {"<", "|", ">", "&", ";", "(", ")"}
Char(t, s) == IF s > Len(t) THEN NUL ELSE t[s]
-------------------------------------------------------------------------------
\* The first place from s on that is outside the set.
Past(t, s, set) == Min({k \in s..(Len(t) + 1) : Char(t, k) \notin set})
\* The end of the word at s.
WordEnd(t, s) ==
  Min({k \in s..(Len(t) + 1) : Char(t, k) \in Blank \cup Symbols \cup {NUL}})

gettoken(t, at) ==
  LET token(tok, q, eq) == [tok |-> tok, word |-> <<q, eq>>, s |-> Past(t, eq, Blank)]
      start(q, c) ==
        CASE c = NUL -> token(c, q, q)
          [] c = ">" /\ Char(t, q + 1) = ">" -> token("+", q, q + 2)
          [] c \in Symbols /\ ~(c = ">" /\ Char(t, q + 1) = ">") -> token(c, q, q + 1)
          [] OTHER -> token("a", q, WordEnd(t, q))
      from(q) == start(q, Char(t, q))
  IN  from(Past(t, at, Blank))

peek(t, s, toks) == Char(t, Past(t, s, Blank)) \in toks

\* What a parsing function returns: the place it got to and the command, or panic.
Parsed(s, cmd) == [ok |-> TRUE, s |-> s, cmd |-> cmd]
Panic == [ok |-> FALSE, s |-> 0, cmd |-> [type |-> "NONE"]]
execcmd(argv) == [type |-> "EXEC", argv |-> argv]
redircmd(cmd, file, tok) == [type |-> "REDIR", cmd |-> cmd, file |-> file, mode |-> tok]
pipecmd(l, r) == [type |-> "PIPE", left |-> l, right |-> r]
listcmd(l, r) == [type |-> "LIST", left |-> l, right |-> r]
backcmd(cmd) == [type |-> "BACK", cmd |-> cmd]

\* redirs: <<word, token>>, in order; the first is the innermost command.
Redirected(cmd, redirs) == FoldLeft(LAMBDA c, r : redircmd(c, r[1], r[2]), cmd, redirs)

\* The words of a simple command, of which parseexec fills argv, and its redirections.
RECURSIVE parseredirs(_, _, _)
parseredirs(t, s, redirs) ==
  LET to(op, file) == IF file.tok # "a" THEN Panic
                      ELSE parseredirs(t, file.s, Append(redirs, <<file.word, op.tok>>))
      redir(op) == to(op, gettoken(t, op.s))
  IN  IF peek(t, s, {"<", ">"}) THEN redir(gettoken(t, s)) ELSE Parsed(s, redirs)

RECURSIVE parseargs(_, _, _, _)
parseargs(t, s, argv, redirs) ==
  LET more(arg, r) == IF r.ok THEN parseargs(t, r.s, Append(argv, arg.word), r.cmd) ELSE Panic
      next(arg) ==
        CASE arg.tok = NUL -> Parsed(s, Redirected(execcmd(argv), redirs))
          [] arg.tok = "a" /\ Len(argv) + 1 < MAXARGS -> more(arg, parseredirs(t, arg.s, redirs))
          [] OTHER -> Panic
  IN  IF peek(t, s, {"|", ")", "&", ";"}) THEN Parsed(s, Redirected(execcmd(argv), redirs))
      ELSE next(gettoken(t, s))

RECURSIVE parseline(_, _)
RECURSIVE parsepipe(_, _)
parseblock(t, s) ==
  LET close(line, r) == IF r.ok THEN Parsed(r.s, Redirected(line.cmd, r.cmd)) ELSE Panic
      block(line) == IF ~line.ok \/ ~peek(t, line.s, {")"}) THEN Panic
                     ELSE close(line, parseredirs(t, gettoken(t, line.s).s, <<>>))
  IN  block(parseline(t, gettoken(t, s).s))

parseexec(t, s) ==
  LET simple(r) == IF r.ok THEN parseargs(t, r.s, <<>>, r.cmd) ELSE Panic
  IN  IF peek(t, s, {"("}) THEN parseblock(t, s) ELSE simple(parseredirs(t, s, <<>>))

parsepipe(t, s) ==
  LET both(left, right) == IF right.ok THEN Parsed(right.s, pipecmd(left.cmd, right.cmd)) ELSE Panic
      pipe(left) == IF ~left.ok \/ ~peek(t, left.s, {"|"}) THEN left
                    ELSE both(left, parsepipe(t, gettoken(t, left.s).s))
  IN  pipe(parseexec(t, s))

\* The loop on "&" of parseline, after the pipe.
RECURSIVE parseback(_, _)
parseback(t, r) ==
  IF ~r.ok \/ ~peek(t, r.s, {"&"}) THEN r
  ELSE parseback(t, Parsed(gettoken(t, r.s).s, backcmd(r.cmd)))

parseline(t, s) ==
  LET both(left, right) == IF right.ok THEN Parsed(right.s, listcmd(left.cmd, right.cmd)) ELSE Panic
      list(left) == IF ~left.ok \/ ~peek(t, left.s, {";"}) THEN left
                    ELSE both(left, parseline(t, gettoken(t, left.s).s))
  IN  list(parseback(t, parsepipe(t, s)))
-------------------------------------------------------------------------------
(***************************************************************************)
(* nulterminate: a NUL is written at the end of each word, over whatever   *)
(* is there; a word is then read as a string.                              *)
(***************************************************************************)
RECURSIVE Ends(_)
Ends(cmd) ==
  CASE cmd.type = "EXEC" -> {w[2] : w \in ToSet(cmd.argv)}
    [] cmd.type = "REDIR" -> {cmd.file[2]} \cup Ends(cmd.cmd)
    [] cmd.type = "BACK" -> Ends(cmd.cmd)
    [] OTHER -> Ends(cmd.left) \cup Ends(cmd.right)

String(t, w) == SubSeq(t, w[1], Min({k \in w[1]..(Len(t) + 1) : Char(t, k) = NUL}) - 1)
RECURSIVE Strings(_, _)
Strings(t, cmd) ==
  CASE cmd.type = "EXEC" -> execcmd([i \in DOMAIN cmd.argv |-> String(t, cmd.argv[i])])
    [] cmd.type = "REDIR" -> redircmd(Strings(t, cmd.cmd), String(t, cmd.file), cmd.mode)
    [] cmd.type = "BACK" -> backcmd(Strings(t, cmd.cmd))
    [] OTHER -> [cmd EXCEPT !.left = Strings(t, @), !.right = Strings(t, @)]

nulterminate(t, cmd) ==
  Strings([k \in DOMAIN t |-> IF k \in Ends(cmd) THEN NUL ELSE t[k]], cmd)

\* The command that is run, in a set; none if there is a syntax error.
parsecmd_in(t, r) ==
  IF r.ok /\ Past(t, r.s, Blank) > Len(t) THEN {nulterminate(t, r.cmd)} ELSE {}
\* Mutant: what is left over is not looked at.
parsecmdLoose(t) == parsecmd_in(t, [parseline(t, 1) EXCEPT !.s = Len(t) + 1])
parsecmd(t) == parsecmd_in(t, parseline(t, 1))
-------------------------------------------------------------------------------
(***************************************************************************)
(* The grammar, on tokens <<kind, word>>:                                  *)
(*   line   = back [";" line]         back = pipe {"&"}                    *)
(*   pipe   = exec ["|" pipe]         exec = simple | "(" line ")" {redir} *)
(*   simple = {word | redir}          redir = ("<" | ">" | ">>") word      *)
(* Each operator gives the set of commands that derive the tokens.         *)
(***************************************************************************)
RECURSIVE Tokens(_)
Tokens(t) ==
  LET w == IF t # <<>> /\ t[1] \notin Symbols \cup Blank THEN WordEnd(t, 1) - 1 ELSE 1
      rest == SubSeq(t, w + 1, Len(t))
  IN  IF t = <<>> THEN <<>>
      ELSE IF t[1] \in Blank THEN Tokens(rest)
      ELSE IF t[1] \notin Symbols THEN <<<<"a", SubSeq(t, 1, w)>>>> \o Tokens(rest)
      ELSE IF t[1] = ">" /\ Char(t, 2) = ">"
      THEN <<<<"+", <<>>>>>> \o Tokens(SubSeq(t, 3, Len(t)))
      ELSE <<<<t[1], <<>>>>>> \o Tokens(rest)

Of(ts, kinds) == {i \in DOMAIN ts : ts[i][1] \in kinds}
Before(ts, i) == SubSeq(ts, 1, i - 1)
Behind(ts, i) == SubSeq(ts, i + 1, Len(ts))

\* Words that follow no redirection are arguments.
Simple(ts) ==
  LET ops == Of(ts, {"<", ">", "+"})
      files == {i + 1 : i \in ops}
      args == DOMAIN ts \ (ops \cup files)
      At(set) == SetToSortSeq(set, <)
      redirs == [i \in 1..Len(At(ops)) |-> <<ts[At(ops)[i] + 1][2], ts[At(ops)[i]][1]>>]
      argv == [i \in 1..Len(At(args)) |-> ts[At(args)[i]][2]]
  IN  IF files \cup args \subseteq Of(ts, {"a"}) /\ Len(argv) < MAXARGS
      THEN {[argv |-> argv, redirs |-> redirs]} ELSE {}

RECURSIVE Line(_)
RECURSIVE Pipes(_)
RECURSIVE Backs(_)
Execs(ts) ==
  {Redirected(execcmd(c.argv), c.redirs) : c \in Simple(ts)}
    \cup IF ts = <<>> \/ ts[1][1] # "(" THEN {}
         ELSE UNION {{Redirected(l, c.redirs) : l \in Line(SubSeq(ts, 2, i - 1)),
                        c \in {d \in Simple(Behind(ts, i)) : d.argv = <<>>}} :
                     i \in Of(ts, {")"})}
Pipes(ts) ==
  Execs(ts) \cup UNION {{pipecmd(l, r) : l \in Execs(Before(ts, i)), r \in Pipes(Behind(ts, i))} :
                        i \in Of(ts, {"|"})}
Backs(ts) ==
  Pipes(ts) \cup IF ts = <<>> \/ Last(ts)[1] # "&" THEN {} ELSE {backcmd(c) : c \in Backs(Front(ts))}
Line(ts) ==
  Backs(ts) \cup UNION {{listcmd(l, r) : l \in Backs(Before(ts, i)), r \in Line(Behind(ts, i))} :
                        i \in Of(ts, {";"})}
-------------------------------------------------------------------------------
Init == text = <<>>
Next == Len(text) < Length /\ \E c \in Alphabet : text' = Append(text, c)
Spec == Init /\ [][Next]_text

\* The tree that parsecmd builds, with its strings terminated, is the one the grammar
\* gives the line, and it panics on the lines that the grammar does not have.
Parses == parsecmd(text) = Line(Tokens(text))
===============================================================================
