--------------------------------- MODULE Pipe ---------------------------------
(***************************************************************************)
(* One pipe (kernel/pipe.c) from pipealloc to kfree, with the processes    *)
(* that hold its two ends open (the reference counts of file.c's fileclose)*)
(* and kill().                                                             *)
(*                                                                         *)
(* A process that holds pi->lock takes two steps per byte: killed(pr) is   *)
(* looked at before each byte, under p->lock and not pi->lock, so that a   *)
(* kill may fall between the look and what follows.                        *)
(* sleep() releases pi->lock and falls asleep in one step (see Proc).      *)
(***************************************************************************)
EXTENDS Integers, Sequences

CONSTANTS Reader, Writer,   \* processes with the read end, the write end open
          NoProc,           \* holder of a free lock
          Byte,
          PIPESIZE,
          WORD,             \* nread and nwrite are counted modulo WORD (uint)
          MaxN,             \* bound: bytes in one read or write call
          Killable          \* processes that somebody may kill

ASSUME PipeAssumption ==
  /\ Reader \cap Writer = {} /\ NoProc \notin Reader \cup Writer /\ Byte # {}
  /\ Killable \subseteq Reader \cup Writer
  /\ PIPESIZE \in Nat \ {0} /\ WORD \in Nat /\ MaxN \in Nat \ {0}
  /\ PIPESIZE < WORD /\ WORD % PIPESIZE = 0

Proc == Reader \cup Writer

VARIABLES
  data, nread, nwrite, readopen, writeopen,  \* struct pipe
  freed,    \* kfree(pi) has been called
  lock,     \* pi->lock: the process that holds it
  ref,      \* processes whose descriptor of the pipe is open
  pc, i, n, \* each process: where it is, bytes done, bytes asked for
  killed

ring == <<data, nread, nwrite>>
ends == <<readopen, writeopen, freed>>
vars == <<ring, ends, lock, ref, pc, i, n, killed>>

\* pipealloc
Init ==
  /\ data \in [0..(PIPESIZE - 1) -> {CHOOSE b \in Byte : TRUE}]
  /\ nread = 0 /\ nwrite = 0
  /\ readopen = TRUE /\ writeopen = TRUE
  /\ freed = FALSE
  /\ lock = NoProc
  /\ ref = Proc
  /\ pc = [p \in Proc |-> "user"]
  /\ i = [p \in Proc |-> 0]
  /\ n = [p \in Proc |-> 0]
  /\ killed = [p \in Proc |-> FALSE]

Empty == nread = nwrite
\* Mutant of Full: the sum is not truncated to a uint.
FullUnwrapped == nwrite = nread + PIPESIZE
Full == nwrite = (nread + PIPESIZE) % WORD

\* wakeup(&pi->nread), wakeup(&pi->nwrite): the sleepers contend for the lock.
wakeup(f, chan) == [p \in Proc |-> IF f[p] = chan THEN "woken" ELSE f[p]]
\* pi->lock is released and p goes to sleep, or returns to user space.
unlock(p, f, l) ==
  /\ lock' = NoProc
  /\ pc' = [f EXCEPT ![p] = l]
  /\ i' = [i EXCEPT ![p] = IF l = "user" THEN 0 ELSE @]
  /\ n' = [n EXCEPT ![p] = IF l = "user" THEN 0 ELSE @]
  /\ UNCHANGED <<ring, ends, ref, killed>>

\* killed(pr) has returned 0.
checked(p) ==
  /\ pc' = [pc EXCEPT ![p] = "checked"]
  /\ UNCHANGED <<ring, ends, lock, ref, i, n, killed>>

\* A read or write system call; usertrap lets no killed process make one.
call(p, k) ==
  /\ pc[p] = "user" /\ p \in ref /\ ~killed[p]
  /\ pc' = [pc EXCEPT ![p] = "enter"]
  /\ n' = [n EXCEPT ![p] = k]
  /\ UNCHANGED <<ring, ends, lock, ref, i, killed>>

\* acquire(&pi->lock), on entry or at the end of sleep().
acquire(p) ==
  /\ pc[p] \in {"enter", "woken"} /\ lock = NoProc
  /\ lock' = p
  /\ pc' = [pc EXCEPT ![p] = "locked"]
  /\ UNCHANGED <<ring, ends, ref, i, n, killed>>
-------------------------------------------------------------------------------
(***************************************************************************)
(* pipewrite                                                               *)
(***************************************************************************)
\* Nobody to read, or killed: leave at once.
write_fail(p) ==
  /\ p \in Writer /\ pc[p] = "locked" /\ i[p] < n[p]
  /\ ~readopen \/ killed[p]
  /\ unlock(p, pc, "user")

write_check(p) ==
  /\ p \in Writer /\ pc[p] = "locked" /\ i[p] < n[p]
  /\ readopen /\ ~killed[p]
  /\ checked(p)

write_full(p) ==
  /\ p \in Writer /\ pc[p] = "checked" /\ Full
  /\ unlock(p, wakeup(pc, "sleep_nread"), "sleep_nwrite")

\* Mutants of write_byte: nwrite is not truncated to a uint; i++ is left out.
write_byte_wide(p, b) ==
  /\ p \in Writer /\ pc[p] = "checked" /\ ~Full
  /\ data' = [data EXCEPT ![nwrite % PIPESIZE] = b]
  /\ nwrite' = nwrite + 1
  /\ i' = [i EXCEPT ![p] = @ + 1]
  /\ pc' = [pc EXCEPT ![p] = "locked"]
  /\ UNCHANGED <<nread, ends, lock, ref, n, killed>>
write_byte_again(p, b) ==
  /\ p \in Writer /\ pc[p] = "checked" /\ ~Full
  /\ data' = [data EXCEPT ![nwrite % PIPESIZE] = b]
  /\ nwrite' = (nwrite + 1) % WORD
  /\ pc' = [pc EXCEPT ![p] = "locked"]
  /\ UNCHANGED <<nread, ends, lock, ref, i, n, killed>>

write_byte(p, b) ==
  /\ p \in Writer /\ pc[p] = "checked" /\ ~Full
  /\ data' = [data EXCEPT ![nwrite % PIPESIZE] = b]
  /\ nwrite' = (nwrite + 1) % WORD
  /\ i' = [i EXCEPT ![p] = @ + 1]
  /\ pc' = [pc EXCEPT ![p] = "locked"]
  /\ UNCHANGED <<nread, ends, lock, ref, n, killed>>

\* All written, or copyin failed.
write_done(p) ==
  /\ p \in Writer
  /\ \/ pc[p] = "locked" /\ i[p] = n[p]
     \/ pc[p] = "checked" /\ ~Full
  /\ unlock(p, wakeup(pc, "sleep_nread"), "user")

(***************************************************************************)
(* piperead                                                                *)
(***************************************************************************)
\* Nothing to read yet: killed, or go to sleep.
read_killed(p) ==
  /\ p \in Reader /\ pc[p] = "locked"
  /\ Empty /\ writeopen /\ killed[p]
  /\ unlock(p, pc, "user")

read_check(p) ==
  /\ p \in Reader /\ pc[p] = "locked"
  /\ Empty /\ writeopen /\ ~killed[p]
  /\ checked(p)

read_sleep(p) ==
  /\ p \in Reader /\ pc[p] = "checked"
  /\ unlock(p, pc, "sleep_nread")

\* The waiting is over; the copy loop does not look at writeopen or killed.
read_start(p) ==
  /\ p \in Reader /\ pc[p] = "locked"
  /\ ~(Empty /\ writeopen)
  /\ pc' = [pc EXCEPT ![p] = "copy"]
  /\ UNCHANGED <<ring, ends, lock, ref, i, n, killed>>

\* One byte leaves the pipe; if copyout fails, it is gone and the call ends.
read_byte(p, copied) ==
  /\ pc[p] = "copy" /\ i[p] < n[p] /\ ~Empty
  /\ nread' = (nread + 1) % WORD
  /\ i' = [i EXCEPT ![p] = IF copied THEN @ + 1 ELSE @]
  /\ pc' = [pc EXCEPT ![p] = IF copied THEN "copy" ELSE "copied"]
  /\ UNCHANGED <<data, nwrite, ends, lock, ref, n, killed>>

\* Mutant of read_done: no wakeup(&pi->nwrite).
read_done_silent(p) ==
  /\ \/ pc[p] = "copied"
     \/ pc[p] = "copy" /\ (i[p] = n[p] \/ Empty)
  /\ unlock(p, pc, "user")

read_done(p) ==
  /\ \/ pc[p] = "copied"
     \/ pc[p] = "copy" /\ (i[p] = n[p] \/ Empty)
  /\ unlock(p, wakeup(pc, "sleep_nwrite"), "user")
-------------------------------------------------------------------------------
(***************************************************************************)
(* close, by the process or by its exit: fileclose drops a reference under *)
(* ftable.lock, and the last one goes on to pipeclose.                     *)
(***************************************************************************)
fileclose(p) ==
  /\ pc[p] = "user" /\ p \in ref
  /\ ref' = ref \ {p}
  /\ pc' = [pc EXCEPT ![p] =
       IF ref' \cap (IF p \in Writer THEN Writer ELSE Reader) = {} THEN "pipeclose" ELSE "user"]
  /\ UNCHANGED <<ring, ends, lock, i, n, killed>>

\* Mutants of pipeclose: freed by the first close; the sleepers are not woken.
pipeclose_early(p) ==
  /\ pc[p] = "pipeclose" /\ lock = NoProc
  /\ IF p \in Writer
     THEN writeopen' = FALSE /\ UNCHANGED readopen
     ELSE readopen' = FALSE /\ UNCHANGED writeopen
  /\ pc' = [wakeup(pc, IF p \in Writer THEN "sleep_nread" ELSE "sleep_nwrite") EXCEPT ![p] = "user"]
  /\ freed' = ~(readopen' /\ writeopen')
  /\ UNCHANGED <<ring, lock, ref, i, n, killed>>
pipeclose_silent(p) ==
  /\ pc[p] = "pipeclose" /\ lock = NoProc
  /\ IF p \in Writer
     THEN writeopen' = FALSE /\ UNCHANGED readopen
     ELSE readopen' = FALSE /\ UNCHANGED writeopen
  /\ pc' = [pc EXCEPT ![p] = "user"]
  /\ freed' = ~(readopen' \/ writeopen')
  /\ UNCHANGED <<ring, lock, ref, i, n, killed>>

pipeclose(p) ==
  /\ pc[p] = "pipeclose" /\ lock = NoProc
  /\ IF p \in Writer
     THEN writeopen' = FALSE /\ UNCHANGED readopen
     ELSE readopen' = FALSE /\ UNCHANGED writeopen
  /\ pc' = [wakeup(pc, IF p \in Writer THEN "sleep_nread" ELSE "sleep_nwrite") EXCEPT ![p] = "user"]
  /\ freed' = ~(readopen' \/ writeopen')
  /\ UNCHANGED <<ring, lock, ref, i, n, killed>>

\* kill: set the flag and wake the process from sleep().
kill(p) ==
  /\ p \in Killable /\ ~killed[p]
  /\ killed' = [killed EXCEPT ![p] = TRUE]
  /\ pc' = [pc EXCEPT ![p] = IF @ \in {"sleep_nread", "sleep_nwrite"} THEN "woken" ELSE @]
  /\ UNCHANGED <<ring, ends, lock, ref, i, n>>

Inside(p) ==
  \/ acquire(p) \/ write_fail(p) \/ write_check(p) \/ write_full(p) \/ write_done(p)
  \/ read_killed(p) \/ read_check(p) \/ read_sleep(p) \/ read_start(p) \/ read_done(p) \/ read_byte(p, TRUE)
  \/ pipeclose(p)
  \/ \E b \in Byte : write_byte(p, b)

\* Both ends are closed and the page is freed: nothing more happens.
Finished == freed /\ UNCHANGED vars

Next ==
  \/ \E p \in Proc : \/ Inside(p) \/ read_byte(p, FALSE) \/ fileclose(p) \/ kill(p)
                    \/ \E k \in 1..MaxN : call(p, k)
  \/ Finished

Spec == Init /\ [][Next]_vars

(***************************************************************************)
(* A process in a call keeps running, a spinning one gets the lock in the  *)
(* end, and programs go on reading and writing (not always from a bad      *)
(* address) or close their end.                                            *)
(***************************************************************************)
Fairness == \A p \in Proc :
  /\ WF_vars(Inside(p))
  /\ SF_vars(acquire(p) \/ pipeclose(p))
  /\ SF_vars(\E b \in Byte : write_byte(p, b))
  /\ WF_vars(fileclose(p) \/ \E k \in 1..MaxN : call(p, k))

FairSpec == Spec /\ Fairness
-------------------------------------------------------------------------------
(***************************************************************************)
(* Properties.                                                             *)
(***************************************************************************)
Labels == {"user", "enter", "locked", "checked", "copy", "copied", "sleep_nread", "sleep_nwrite",
           "woken", "pipeclose"}

\* Every variable has the shape the code gives it.
TypeOK ==
  /\ data \in [0..(PIPESIZE - 1) -> Byte]
  /\ nread \in 0..(WORD - 1) /\ nwrite \in 0..(WORD - 1)
  /\ readopen \in BOOLEAN /\ writeopen \in BOOLEAN /\ freed \in BOOLEAN
  /\ lock \in Proc \cup {NoProc}
  /\ ref \subseteq Proc
  /\ pc \in [Proc -> Labels]
  /\ i \in [Proc -> 0..MaxN] /\ n \in [Proc -> 0..MaxN]
  /\ killed \in [Proc -> BOOLEAN]

Count == (nwrite - nread) % WORD
Queue == [k \in 1..Count |-> data[(nread + k - 1) % PIPESIZE]]

Abs == INSTANCE Fifo WITH Capacity <- PIPESIZE, q <- Queue, ropen <- readopen, wopen <- writeopen

(***************************************************************************)
(* The pipe is a bounded FIFO (pipewrite, piperead, pipeclose): bytes come *)
(* out once, in order and unchanged, across wrap-around of the ring and of *)
(* the 32-bit counters, whoever sleeps, is killed or closes in between.    *)
(***************************************************************************)
IsFifo == Abs!Spec

(***************************************************************************)
(* No writer sleeps while there is room or nobody to read: read_done and   *)
(* pipeclose wake it (looked at when pi->lock is free).                    *)
(***************************************************************************)
WriterSleepsOnFull ==
  lock = NoProc => \A p \in Proc : pc[p] = "sleep_nwrite" => Full /\ readopen

(***************************************************************************)
(* No reader sleeps while there is data or nobody to write (pipewrite,     *)
(* pipeclose), provided no writer was killed in the middle of its copy.    *)
(***************************************************************************)
ReaderSleepsOnEmpty ==
  lock = NoProc => \A p \in Proc : pc[p] = "sleep_nread" => Empty /\ writeopen

(***************************************************************************)
(* The page is freed when the second end is closed, not before: nobody is  *)
(* inside a pipe call or can start one, and no second pipeclose follows    *)
(* (fileclose, pipeclose).                                                 *)
(***************************************************************************)
NoUseAfterFree ==
  freed => ref = {} /\ lock = NoProc /\ \A p \in Proc : pc[p] = "user"

(***************************************************************************)
(* Nobody sleeps on a pipe that is ready for them or uses one that has     *)
(* been freed, unless a writer was killed in the middle of its write.      *)
(***************************************************************************)
PipeWaits ==
  /\ TypeOK /\ NoUseAfterFree /\ WriterSleepsOnFull
  /\ ReaderSleepsOnEmpty \/ \E w \in Writer : killed[w]

(***************************************************************************)
(* Every read and write returns, with a single process at each end that    *)
(* keeps using the pipe or closes it: the pipe never blocks both.          *)
(***************************************************************************)
CallsReturn == \A p \in Proc : pc[p] = "enter" ~> pc[p] = "user"
===============================================================================
