--------------------------------- MODULE Printf -------------------------------
(***************************************************************************)
(* Formatted output: printf of the kernel (kernel/printf.c) and vprintf of *)
(* the user library (user/printf.c), which were written apart, on the same *)
(* format.  An argument is a record: a directive takes of it the int, the  *)
(* str (a sequence of characters, or Null) or the chr, as its va_arg does. *)
(***************************************************************************)
EXTENDS Integers, Sequences, FiniteSets, SequencesExt

CONSTANTS WORD,       \* 2^32: the values of an unsigned int; an int is in -WORD/2..WORD/2-1
          PTRDIGITS,  \* 16: the hexadecimal digits of a pointer
          Letters,    \* the characters of a format
          Arguments,  \* the argument lists
          Length      \* bound on the format

VARIABLES fmt, ap
vars == <<fmt, ap>>

Null == <<"null">>
Percent == "%"
digits == <<"0", "1", "2", "3", "4", "5", "6", "7", "8", "9", "a", "b", "c", "d", "e", "f">>
-------------------------------------------------------------------------------
\* The digits of x, the last one first as in buf, then turned round.
RECURSIVE buf(_, _)
buf(x, base) ==
  <<digits[(x % base) + 1]>> \o (IF x \div base = 0 THEN <<>> ELSE buf(x \div base, base))
printint_in(base, neg, x) == (IF neg THEN <<"-">> ELSE <<>>) \o Reverse(buf(x, base))
\* x is unsigned: the negation of the least int is itself, and right.  A mutant of
\* printint computes in int.
printintInt(xx, base, sign) ==
  LET neg == sign /\ xx < 0
      x == IF xx = -(WORD \div 2) THEN 0 ELSE IF neg THEN -xx ELSE xx % WORD
  IN  printint_in(base, neg, x)
printint(xx, base, sign) ==
  LET neg == sign /\ xx < 0
  IN  printint_in(base, neg, (IF neg THEN -xx ELSE xx) % WORD)

\* The digit on top, then a shift to the left.
printptr(x) ==
  <<"0", "x">> \o [i \in 1..PTRDIGITS |-> digits[((x \div 16^(PTRDIGITS - i)) % 16) + 1]]
string(s) == IF s = Null THEN <<"(", "n", "u", "l", "l", ")">> ELSE s

\* What the two do for %c with the argument a.
printf_directive(c, a) ==
  CASE c = "d" -> printint(a.int, 10, TRUE)
    [] c = "x" -> printint(a.int, 16, TRUE)
    [] c = "p" -> printptr(a.int % 16^PTRDIGITS)
    [] c = "s" -> string(a.str)
    [] c = Percent -> <<Percent>>
    [] OTHER -> <<Percent, c>>
vprintf_directive(c, a) ==
  CASE c = "x" -> printint(a.int, 16, FALSE)
    [] c = "l" -> printint(a.int, 10, FALSE)
    [] c = "c" -> <<a.chr>>
    [] OTHER -> printf_directive(c, a)
Takes(c, more) == IF c \in {"d", "x", "p", "s"} \cup more THEN 1 ELSE 0

\* The kernel looks ahead; a % at the end is dropped.
RECURSIVE printf(_, _)
printf(f, args) ==
  IF f = <<>> THEN <<>>
  ELSE IF f[1] # Percent THEN <<f[1]>> \o printf(Tail(f), args)
  ELSE IF Len(f) = 1 THEN <<>>
  ELSE printf_directive(f[2], args[1])
         \o printf(SubSeq(f, 3, Len(f)), SubSeq(args, 1 + Takes(f[2], {}), Len(args)))

\* The library goes one character at a time, with a state.
vprintf_step(st, c) ==
  IF st.state # Percent
  THEN IF c = Percent THEN [st EXCEPT !.state = Percent] ELSE [st EXCEPT !.out = Append(@, c)]
  ELSE [state |-> "0", out |-> st.out \o vprintf_directive(c, st.ap[1]),
        ap |-> SubSeq(st.ap, 1 + Takes(c, {"l", "c"}), Len(st.ap))]
\* Mutant: after %% the state is not reset.
vprintfStuck(f, args) ==
  FoldLeft(LAMBDA st, c : [vprintf_step(st, c) EXCEPT !.state = IF c = Percent THEN c ELSE @],
           [state |-> "0", out |-> <<>>, ap |-> args], f).out
vprintf(f, args) == FoldLeft(vprintf_step, [state |-> "0", out |-> <<>>, ap |-> args], f).out
-------------------------------------------------------------------------------
Init == fmt = <<>> /\ ap \in Arguments
Next == Len(fmt) < Length /\ (\E c \in Letters : fmt' = Append(fmt, c)) /\ UNCHANGED ap
Spec == Init /\ [][Next]_vars
-------------------------------------------------------------------------------
\* The value that is printed can be read back: the digits and the sign give the int, or
\* its unsigned value, also for the least int (printint, in both).
RECURSIVE Value(_, _)
Value(s, base) ==
  IF s = <<>> THEN 0
  ELSE base * Value(Front(s), base) + (CHOOSE d \in 0..(base - 1) : digits[d + 1] = Last(s))
Read(s, base) == IF s[1] = "-" THEN -Value(Tail(s), base) ELSE Value(s, base)
PrintsBack ==
  \A i \in DOMAIN ap, base \in {10, 16} :
    /\ Read(printint(ap[i].int, base, TRUE), base) = ap[i].int
    /\ Read(printint(ap[i].int, base, FALSE), base) = ap[i].int % WORD

\* Both print the format with each directive replaced: a % begins one if an even number
\* of %s stands before it, and the n-th that takes an argument takes the n-th.
Begins ==
  {i \in DOMAIN fmt : /\ fmt[i] = Percent
                      /\ \E k \in 0..(i - 1) : /\ k % 2 = 0
                                               /\ \A j \in (i - k)..(i - 1) : fmt[j] = Percent
                                               /\ k = i - 1 \/ fmt[i - k - 1] # Percent}
Expected(directive(_, _), more) ==
  LET Before(i) == Cardinality({j \in Begins : j < i /\ Takes(fmt[j + 1], more) = 1})
  IN  FlattenSeq([i \in DOMAIN fmt |->
        IF i \in Begins THEN IF i = Len(fmt) THEN <<>> ELSE directive(fmt[i + 1], ap[Before(i) + 1])
        ELSE IF i - 1 \in Begins THEN <<>> ELSE <<fmt[i]>>])
Formatted ==
  /\ printf(fmt, ap) = Expected(printf_directive, {})
  /\ vprintf(fmt, ap) = Expected(vprintf_directive, {"l", "c"})
===============================================================================
