------------------------------- MODULE Filters --------------------------------
(***************************************************************************)
(* The programs that copy, count and search a stream: user/cat.c, wc.c and *)
(* grep.c, on an input that read delivers in pieces of any size, as from a *)
(* pipe or the console.  A step is one read and what follows up to the     *)
(* next.  Characters: NL, a blank, letters; a line is text without NL.     *)
(***************************************************************************)
EXTENDS Integers, Sequences, SequencesExt, FiniteSetsExt

CONSTANTS Letters,
          BUF,                  \* sizeof(buf) of grep
          Patterns,             \* those that are searched for
          Length                \* bound on the input

NL == "\n"
Blanks == {" "}                 \* the other characters that end a word
Dot == "."
Star == "*"
Begin == "^"
End == "$"

VARIABLES prog,                 \* "cat", "wc" or "grep"
          pattern,
          input,                \* history: what has been read
          buf,                  \* grep: buf[0..m), carried over from the last read
          count,                \* wc: l, w, c and inword
          out,                  \* what has been written
          done                  \* the program has seen read return <= 0

vars == <<prog, pattern, input, buf, count, out, done>>
-------------------------------------------------------------------------------
\* match, matchhere, matchstar: re and text are suffixes of the C strings.
RECURSIVE matchhere(_, _)
matchstar_in(c, re, text, least) ==
  \E n \in least..Len(text) :
    /\ \A i \in 1..n : c = Dot \/ text[i] = c
    /\ matchhere(re, SubSeq(text, n + 1, Len(text)))
\* Mutant: at least one instance.
matchstarOne(c, re, text) == matchstar_in(c, re, text, 1)
matchstar(c, re, text) == matchstar_in(c, re, text, 0)

matchhere(re, text) ==
  IF re = <<>> THEN TRUE
  ELSE IF Len(re) > 1 /\ re[2] = Star THEN matchstar(re[1], SubSeq(re, 3, Len(re)), text)
  ELSE IF re = <<End>> THEN text = <<>>
  ELSE /\ text # <<>> /\ re[1] \in {Dot, text[1]}
       /\ matchhere(Tail(re), Tail(text))

match(re, text) ==
  IF re # <<>> /\ re[1] = Begin THEN matchhere(Tail(re), text)
  ELSE \E k \in 1..(Len(text) + 1) : matchhere(re, SubSeq(text, k, Len(text)))
-------------------------------------------------------------------------------
\* The lines that are complete, and what follows the last NL.
LastNL(s) == Max({0} \cup {i \in DOMAIN s : s[i] = NL})
Carried(s) == SubSeq(s, LastNL(s) + 1, Len(s))
RECURSIVE Lines(_)
Lines(s) ==
  LET n == Min({Len(s) + 1} \cup {i \in DOMAIN s : s[i] = NL})
  IN  IF n > Len(s) THEN <<>> ELSE <<SubSeq(s, 1, n - 1)>> \o Lines(SubSeq(s, n + 1, Len(s)))
Matching(s) ==
  FlattenSeq([i \in DOMAIN Lines(s) |->
    IF match(pattern, Lines(s)[i]) THEN Append(Lines(s)[i], NL) ELSE <<>>])

\* grep: the complete lines of what was carried over and read; the rest is carried over.
grep_in(piece, carried) ==
  /\ prog = "grep" /\ Len(piece) <= BUF - Len(buf) - 1
  /\ out' = out \o Matching(buf \o piece)
  /\ buf' = carried /\ UNCHANGED count
\* Mutant: an incomplete line is dropped.
grepDrops(piece) == grep_in(piece, <<>>)
grep(piece) == grep_in(piece, Carried(buf \o piece))

Counted(n, c) ==
  LET blank == c \in Blanks \cup {NL}
  IN  [c |-> n.c + 1, l |-> n.l + (IF c = NL THEN 1 ELSE 0),
       w |-> n.w + (IF ~blank /\ ~n.inword THEN 1 ELSE 0), inword |-> ~blank]
wc_in(piece, from) ==
  prog = "wc" /\ count' = FoldLeft(Counted, from, piece) /\ UNCHANGED <<buf, out>>
\* Mutant: inword is reset for every buffer.
wcForgets(piece) == wc_in(piece, [count EXCEPT !.inword = FALSE])
wc(piece) == wc_in(piece, count)

\* cat: write what was read; a write that takes less ends the program.
cat(piece) == prog = "cat" /\ out' = out \o piece /\ UNCHANGED <<buf, count>>
catFails(piece) ==
  /\ prog = "cat" /\ \E n \in 0..(Len(piece) - 1) : out' = out \o SubSeq(piece, 1, n)
  /\ UNCHANGED <<buf, count>>

Pieces == UNION {[1..n -> Letters \cup Blanks \cup {NL}] : n \in 1..(Length - Len(input))}
Read ==
  /\ ~done /\ UNCHANGED <<prog, pattern>>
  /\ \E piece \in Pieces :
       /\ input' = input \o piece
       /\ \/ (cat(piece) \/ wc(piece) \/ grep(piece)) /\ done' = FALSE
          \/ catFails(piece) /\ done' = TRUE
\* read returns 0: the input ends, or grep has left no room in its buffer.
Stop == ~done /\ done' = TRUE /\ UNCHANGED <<prog, pattern, input, buf, count, out>>
Init ==
  /\ prog \in {"cat", "wc", "grep"}
  /\ pattern \in IF prog = "grep" THEN Patterns ELSE {<<>>}
  /\ input = <<>> /\ buf = <<>> /\ out = <<>> /\ done = FALSE
  /\ count = [l |-> 0, w |-> 0, c |-> 0, inword |-> FALSE]
Next == Read \/ Stop
Spec == Init /\ [][Next]_vars
-------------------------------------------------------------------------------
(***************************************************************************)
(* What a pattern means: a part of the text, from its beginning after ^    *)
(* and to its end before $, is cut into one piece per item of the pattern, *)
(* one character or, under *, any number of the same.                      *)
(***************************************************************************)
RECURSIVE Items(_)
Items(re) ==
  IF re = <<>> THEN <<>>
  ELSE IF Len(re) > 1 /\ re[2] = Star
  THEN <<[char |-> re[1], star |-> TRUE]>> \o Items(SubSeq(re, 3, Len(re)))
  ELSE <<[char |-> re[1], star |-> FALSE]>> \o Items(Tail(re))
Means(re, text) ==
  LET begin == re # <<>> /\ re[1] = Begin
      items == Items(IF begin THEN Tail(re) ELSE re)
      end == items # <<>> /\ Last(items) = [char |-> End, star |-> FALSE]
      n == Len(items) - (IF end THEN 1 ELSE 0)
      Piece(i, from, to) ==
        /\ IF items[i].star THEN from <= to ELSE to = from + 1
        /\ \A k \in (from + 1)..to : items[i].char \in {Dot, text[k]}
  IN  \E cut \in [0..n -> 0..Len(text)] :
        /\ \A i \in 1..n : Piece(i, cut[i - 1], cut[i])
        /\ begin => cut[0] = 0
        /\ end => cut[n] = Len(text)
\* The complete lines of s a pattern means, as a sequence of characters.
Selected(s) ==
  LET ends == SetToSortSeq({i \in DOMAIN s : s[i] = NL}, <)
      Text(k) == SubSeq(s, (IF k = 1 THEN 0 ELSE ends[k - 1]) + 1, ends[k] - 1)
  IN  FlattenSeq([k \in DOMAIN ends |->
                    IF Means(pattern, Text(k)) THEN Append(Text(k), NL) ELSE <<>>])

\* However read cuts the input, grep has written exactly the lines, of those complete so
\* far, that the pattern means, and cat has written all, up to a write that failed.
Filtered ==
  /\ prog = "grep" => out = Selected(input)
  /\ prog = "cat" => IsPrefix(out, input) /\ (~done => out = input)

\* However read cuts the input, wc has counted its characters, its lines, and its words
\* once each: a word begins at a letter before which there is none.
Counts ==
  LET begins == {i \in DOMAIN input :
                   input[i] \in Letters /\ (i = 1 \/ input[i - 1] \notin Letters)}
  IN  prog = "wc" => /\ count.c = Len(input) /\ count.w = Cardinality(begins)
                     /\ count.l = Cardinality({i \in DOMAIN input : input[i] = NL})
===============================================================================
