------------------------------- MODULE ByteFile -------------------------------
(***************************************************************************)
(* What a file is to the processes that use it: a sequence of bytes that   *)
(* is read and written at the offset of an open file, and of which a crash *)
(* brings back what was there when no write was under way.                 *)
(***************************************************************************)
EXTENDS Naturals, Sequences

CONSTANTS Handle, File,
          of,         \* the file of each open file
          ByteOf(_, _), MaxLen

VARIABLES bytes,   \* of each file
          stable,  \* the same, as a crash would leave it
          off      \* of each open file

Init == stable = bytes /\ off = [h \in Handle |-> 0]

\* Bytes a to b - 1 of f are written; f grows if it must.
Written(s, f, a, b) ==
  [k \in 1..(IF b > Len(s) THEN b ELSE Len(s)) |->
     IF a < k /\ k <= b THEN ByteOf(f, k - 1) ELSE s[k]]

\* A write or a truncation: s is what the files held, t what they hold now.  A write
\* that fails may have written more than it counts and moves the offset by.
Write(h, s, t) ==
  LET f == of[h]
  IN  /\ t = [s EXCEPT ![f] = t[f]]
      /\ \/ /\ off[h] <= Len(s[f]) /\ off' = [off EXCEPT ![h] = off'[h]]
            /\ \E b \in off'[h]..MaxLen : t[f] = Written(s[f], f, off[h], b)
            /\ off'[h] >= off[h]
         \/ t[f] = <<>> /\ off' = [off EXCEPT ![h] = 0]

\* Reading moves the offset, opening sets it to 0.
Moves(h, s) ==
  /\ off' = [off EXCEPT ![h] = off'[h]]
  /\ off'[h] \in {0} \cup off[h]..Len(s[of[h]])

\* A commit makes stable what all files hold.
Next ==
  LET s == bytes  t == bytes'  c == stable  d == stable'
  IN  \/ t = s /\ d = c /\ \E h \in Handle : Moves(h, s)
      \/ (d = c \/ d = t) /\ \E h \in Handle : Write(h, s, t)
      \/ t = s /\ d = s /\ UNCHANGED off
      \/ t = c /\ d = c /\ off' = [h \in Handle |-> 0]

Spec == Init /\ [][Next]_<<bytes, stable, off>>
===============================================================================
