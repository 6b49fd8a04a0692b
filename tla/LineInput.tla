------------------------------- MODULE LineInput ------------------------------
(***************************************************************************)
(* What the console promises to a program that reads it: the characters    *)
(* typed form an editable line; the line is handed over when it is ended,  *)
(* or when nothing more fits; and a read takes what was handed over, in    *)
(* order, up to the end of a line and no further.                          *)
(***************************************************************************)
EXTENDS Naturals, Sequences

CONSTANTS Reader,
          Char,  \* what a line is made of, with Newline and Eof (control-D)
          Newline, Eof,
          SIZE,  \* characters the console keeps
          MaxN   \* the most a read asks for

VARIABLES line,   \* typed, still editable
          ready,  \* handed over, not yet read
          want,   \* of each reader, how much its read asks for; 0 outside a read
          got     \* what its read has so far

vars == <<line, ready, want, got>>

Init ==
  /\ line = <<>> /\ ready = <<>>
  /\ want = [p \in Reader |-> 0]
  /\ got = [p \in Reader |-> <<>>]

Type(c) ==
  LET l == Append(line, c)
  IN
  /\ Len(line) + Len(ready) < SIZE
  /\ IF c \in {Newline, Eof} \/ Len(l) + Len(ready) = SIZE
     THEN ready' = ready \o l /\ line' = <<>>
     ELSE line' = l /\ UNCHANGED ready
  /\ UNCHANGED <<want, got>>

Erase ==
  /\ line # <<>>
  /\ line' = SubSeq(line, 1, Len(line) - 1)
  /\ UNCHANGED <<ready, want, got>>

Read(p, n) ==
  /\ want[p] = 0
  /\ want' = [want EXCEPT ![p] = n]
  /\ UNCHANGED <<line, ready, got>>

Take(p) ==
  /\ Len(got[p]) < want[p] /\ ready # <<>> /\ Head(ready) # Eof
  /\ \A k \in 1..Len(got[p]) : got[p][k] # Newline
  /\ got' = [got EXCEPT ![p] = Append(@, Head(ready))]
  /\ ready' = Tail(ready)
  /\ UNCHANGED <<line, want>>

\* The read has all it asked for, or a line, or an end of file after it.
Complete(p) ==
  \/ Len(got[p]) = want[p]
  \/ \E k \in 1..Len(got[p]) : got[p][k] = Newline
  \/ got[p] # <<>> /\ ready # <<>> /\ Head(ready) = Eof

\* A killed process gives up when there is nothing to read.  An end of file is
\* used up by the read that returns nothing; a bad buffer costs a character.
Return(p) ==
  /\ want[p] > 0
  /\ want' = [want EXCEPT ![p] = 0]
  /\ got' = [got EXCEPT ![p] = <<>>]
  /\ IF Complete(p) \/ ready = <<>> THEN UNCHANGED ready ELSE ready' = Tail(ready)
  /\ UNCHANGED line

Next ==
  \/ \E c \in Char : Type(c)
  \/ Erase
  \/ \E p \in Reader : Take(p) \/ Return(p) \/ \E n \in 1..MaxN : Read(p, n)

Spec == Init /\ [][Next]_vars
===============================================================================
