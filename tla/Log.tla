--------------------------------- MODULE Log ----------------------------------
(***************************************************************************)
(* The write-ahead redo log of the file system: kernel/log.c, with the     *)
(* part of the buffer cache it leans on (a dirty block may leave the cache *)
(* only when nothing refers to it) and with crashes.                       *)
(*                                                                         *)
(* A process runs begin_op, then any number of "bread, modify, log_write,  *)
(* brelse", then end_op; the last end_op of a group commits.  Every bwrite *)
(* is synchronous, so each disk write is one action and a crash may fall   *)
(* between any two of them, or in the middle of one: a block is two        *)
(* sectors, and a data block whose write was cut short is Torn.  The       *)
(* header's 124 bytes lie in one sector, so it is written whole or not.    *)
(*                                                                         *)
(* sleep() and wakeup() are atomic here: log.lock is held across the test  *)
(* and released by sleep() only once the process is asleep.                *)
(***************************************************************************)
EXTENDS Naturals, Sequences, FiniteSets

CONSTANTS Proc,         \* processes that make file-system calls
          Block,        \* home block numbers
          Val,          \* contents of a block
          Torn,         \* contents of a block whose write was cut short
          NoBuf,        \* a block without a buffer, a process holding none
          MAXOPBLOCKS,  \* blocks begin_op reserves for a call
          OPBLOCKS,     \* blocks a call really writes, at most
          LOGSIZE,      \* length of logheader.block
          NLOG          \* superblock's nlog: header block and log blocks

ASSUME LogAssumption ==
  /\ IsFiniteSet(Proc)
  /\ Torn \notin Val /\ NoBuf \notin Val \cup Block /\ Torn # NoBuf
  /\ MAXOPBLOCKS \in Nat /\ OPBLOCKS \in 1..MAXOPBLOCKS
  /\ LOGSIZE \in Nat /\ NLOG \in Nat \ {0}
  /\ MAXOPBLOCKS < LOGSIZE /\ LOGSIZE <= NLOG

VARIABLES
  home,         \* on disk: each block at its home location
  logblk,       \* on disk: the log's data blocks
  head,         \* on disk: the header, as the sequence block[0..n-1]
  cache,        \* buffer contents, or NoBuf
  pin,          \* references bpin took on each buffer
  lh,           \* log.lh in memory, as a sequence
  outstanding,  \* log.outstanding
  committing,   \* log.committing
  mode,         \* booting, running or panicked
  pc,           \* where each process is
  buf,          \* the block whose locked buffer each process holds
  wrote,        \* blocks the call of each process has written
  tail          \* loop index of write_log and install_trans

disk == <<home, logblk, head>>
memory == <<cache, pin, lh, outstanding, committing>>
vars == <<disk, memory, mode, pc, buf, wrote, tail>>

Slot == 1..(NLOG - 1)
Logged == {lh[i] : i \in 1..Len(lh)}

\* bread: the buffer's contents, read from disk if the block is not cached.
Data(b) == IF cache[b] = NoBuf THEN home[b] ELSE cache[b]

Init ==
  /\ home \in [Block -> Val]
  /\ logblk \in [Slot -> {Torn}]
  /\ head = <<>>
  /\ cache = [b \in Block |-> NoBuf]
  /\ pin = [b \in Block |-> 0]
  /\ lh = <<>>
  /\ outstanding = 0
  /\ committing = FALSE
  /\ mode = "read_head"
  /\ pc = [p \in Proc |-> "idle"]
  /\ buf = [p \in Proc |-> NoBuf]
  /\ wrote = [p \in Proc |-> {}]
  /\ tail = 1

-------------------------------------------------------------------------------
(***************************************************************************)
(* initlog at boot: read the header, install what it names, clear it.      *)
(***************************************************************************)
read_head ==
  /\ mode = "read_head"
  /\ lh' = head
  /\ mode' = "recover"
  /\ UNCHANGED <<disk, cache, pin, outstanding, committing, pc, buf, wrote, tail>>

\* Mutant of install: recovery also drops a pin it never took.
install_unpins(recovering) ==
  /\ tail <= Len(lh)
  /\ home' = [home EXCEPT ![lh[tail]] = logblk[tail]]
  /\ cache' = [cache EXCEPT ![lh[tail]] = logblk[tail]]
  /\ pin' = [pin EXCEPT ![lh[tail]] = @ - 1]
  /\ tail' = tail + 1
  /\ UNCHANGED <<logblk, head, lh, outstanding, committing, mode, pc, buf, wrote>>

\* One turn of install_trans' loop; a running system also drops the pin.
install(recovering) ==
  LET b == lh[tail] IN
  /\ tail <= Len(lh)
  /\ home' = [home EXCEPT ![b] = logblk[tail]]
  /\ cache' = [cache EXCEPT ![b] = logblk[tail]]
  /\ pin' = IF recovering THEN pin ELSE [pin EXCEPT ![b] = @ - 1]
  /\ tail' = tail + 1
  /\ UNCHANGED <<logblk, head, lh, outstanding, committing, mode, pc, buf, wrote>>

recover_install ==
  /\ mode = "recover"
  /\ install(TRUE)

\* Mutant of clear_log: the second write_head is forgotten.
clear_memory_only ==
  /\ tail > Len(lh)
  /\ lh' = <<>>
  /\ tail' = 1
  /\ UNCHANGED <<disk, cache, pin, outstanding, committing, buf, wrote>>

\* log.lh.n = 0; write_head(): erase the transaction.
clear_log ==
  /\ tail > Len(lh)
  /\ lh' = <<>>
  /\ head' = <<>>
  /\ tail' = 1
  /\ UNCHANGED <<home, logblk, cache, pin, outstanding, committing, buf, wrote>>

recover_clear ==
  /\ mode = "recover"
  /\ clear_log
  /\ mode' = "up"
  /\ UNCHANGED pc

-------------------------------------------------------------------------------
(***************************************************************************)
(* One file-system call.                                                   *)
(***************************************************************************)
\* wakeup(&log): every process asleep in begin_op runs again.
wakeup_log(f) == [p \in Proc |-> IF f[p] = "sleep" THEN "woken" ELSE f[p]]

\* Mutant of must_wait: a commit is not waited for.
must_wait_space == Len(lh) + (outstanding + 1) * MAXOPBLOCKS > LOGSIZE

must_wait == committing \/ Len(lh) + (outstanding + 1) * MAXOPBLOCKS > LOGSIZE

begin_op(p) ==
  /\ mode = "up" /\ pc[p] \in {"idle", "woken"}
  /\ \/ /\ must_wait
        /\ pc' = [pc EXCEPT ![p] = "sleep"]
        /\ UNCHANGED outstanding
     \/ /\ ~must_wait
        /\ outstanding' = outstanding + 1
        /\ pc' = [pc EXCEPT ![p] = "op"]
  /\ UNCHANGED <<disk, cache, pin, lh, committing, mode, buf, wrote, tail>>

\* Mutant of modify: the buffer's sleeplock is not taken.
modify_unlocked(p, b, v) ==
  /\ mode = "up" /\ pc[p] = "op"
  /\ Cardinality(wrote[p] \cup {b}) <= OPBLOCKS
  /\ cache' = [cache EXCEPT ![b] = v]
  /\ buf' = [buf EXCEPT ![p] = b]
  /\ wrote' = [wrote EXCEPT ![p] = @ \cup {b}]
  /\ pc' = [pc EXCEPT ![p] = "modified"]
  /\ UNCHANGED <<disk, pin, lh, outstanding, committing, mode, tail>>

\* bread and change a block; the buffer stays locked until log_write.
modify(p, b, v) ==
  /\ mode = "up" /\ pc[p] = "op"
  /\ \A q \in Proc : buf[q] # b
  /\ Cardinality(wrote[p] \cup {b}) <= OPBLOCKS
  /\ cache' = [cache EXCEPT ![b] = v]
  /\ buf' = [buf EXCEPT ![p] = b]
  /\ wrote' = [wrote EXCEPT ![p] = @ \cup {b}]
  /\ pc' = [pc EXCEPT ![p] = "modified"]
  /\ UNCHANGED <<disk, pin, lh, outstanding, committing, mode, tail>>

\* panic() holding log.lock: no process can use the log again until a reboot.
panic ==
  /\ mode' = "panic"
  /\ UNCHANGED <<disk, memory, pc, buf, wrote, tail>>

log_write_panics ==
  \/ Len(lh) >= LOGSIZE \/ Len(lh) >= NLOG - 1
  \/ outstanding < 1

log_write(p) ==
  /\ mode = "up" /\ pc[p] = "modified"
  /\ \/ log_write_panics /\ panic
     \/ /\ ~log_write_panics
        /\ \/ buf[p] \in Logged /\ UNCHANGED <<lh, pin>>     \* log absorption
           \/ /\ buf[p] \notin Logged
              /\ lh' = Append(lh, buf[p])
              /\ pin' = [pin EXCEPT ![buf[p]] = @ + 1]
        /\ pc' = [pc EXCEPT ![p] = "op"]
        /\ buf' = [buf EXCEPT ![p] = NoBuf]                  \* brelse
        /\ UNCHANGED <<disk, cache, outstanding, committing, mode, wrote, tail>>

end_op(p) ==
  /\ mode = "up" /\ pc[p] = "op"
  /\ \/ committing /\ panic
     \/ /\ ~committing
        /\ outstanding' = outstanding - 1
        /\ wrote' = [wrote EXCEPT ![p] = {}]
        /\ \/ /\ outstanding' = 0
              /\ committing' = TRUE
              /\ pc' = [pc EXCEPT ![p] = "commit"]
           \/ /\ outstanding' # 0
              /\ pc' = wakeup_log([pc EXCEPT ![p] = "idle"])
              /\ UNCHANGED committing
        /\ UNCHANGED <<disk, cache, pin, lh, mode, buf, tail>>

-------------------------------------------------------------------------------
(***************************************************************************)
(* commit(), run by the process whose end_op was the last of the group.    *)
(***************************************************************************)
commit(p) ==
  /\ mode = "up" /\ pc[p] = "commit"
  /\ pc' = [pc EXCEPT ![p] = IF Len(lh) > 0 THEN "write_log" ELSE "committed"]
  /\ UNCHANGED <<disk, memory, mode, buf, wrote, tail>>

write_log(p) ==
  /\ mode = "up" /\ pc[p] = "write_log"
  /\ tail <= Len(lh)
  /\ logblk' = [logblk EXCEPT ![tail] = Data(lh[tail])]
  /\ cache' = [cache EXCEPT ![lh[tail]] = Data(lh[tail])]
  /\ tail' = tail + 1
  /\ UNCHANGED <<home, head, pin, lh, outstanding, committing, mode, pc, buf, wrote>>

\* Mutant of write_head: the header goes out before all blocks are in the log.
write_head_early(p) ==
  /\ mode = "up" /\ pc[p] = "write_log"
  /\ head' = lh
  /\ tail' = 1
  /\ pc' = [pc EXCEPT ![p] = "install"]
  /\ UNCHANGED <<home, logblk, memory, mode, buf, wrote>>

\* The commit point.
write_head(p) ==
  /\ mode = "up" /\ pc[p] = "write_log"
  /\ tail > Len(lh)
  /\ head' = lh
  /\ tail' = 1
  /\ pc' = [pc EXCEPT ![p] = "install"]
  /\ UNCHANGED <<home, logblk, memory, mode, buf, wrote>>

install_trans(p) ==
  /\ mode = "up" /\ pc[p] = "install"
  /\ install(FALSE)

erase(p) ==
  /\ mode = "up" /\ pc[p] = "install"
  /\ clear_log
  /\ pc' = [pc EXCEPT ![p] = "committed"]
  /\ UNCHANGED mode

\* Mutant of end_commit: no wakeup(&log).
end_commit_silent(p) ==
  /\ mode = "up" /\ pc[p] = "committed"
  /\ committing' = FALSE
  /\ pc' = [pc EXCEPT ![p] = "idle"]
  /\ UNCHANGED <<disk, cache, pin, lh, outstanding, mode, buf, wrote, tail>>

end_commit(p) ==
  /\ mode = "up" /\ pc[p] = "committed"
  /\ committing' = FALSE
  /\ pc' = wakeup_log([pc EXCEPT ![p] = "idle"])
  /\ UNCHANGED <<disk, cache, pin, lh, outstanding, mode, buf, wrote, tail>>

-------------------------------------------------------------------------------
\* bget recycles the buffer of a block that no one refers to.
evict(b) ==
  /\ mode = "up"
  /\ cache[b] # NoBuf
  /\ pin[b] = 0
  /\ \A q \in Proc : buf[q] # b
  /\ cache' = [cache EXCEPT ![b] = NoBuf]
  /\ UNCHANGED <<disk, pin, lh, outstanding, committing, mode, pc, buf, wrote, tail>>

\* The write under way when the power goes may leave its block torn.
torn_write ==
  \/ UNCHANGED <<home, logblk>>
  \/ /\ tail <= Len(lh)
     /\ mode = "up" /\ \E p \in Proc : pc[p] = "write_log"
     /\ logblk' = [logblk EXCEPT ![tail] = Torn]
     /\ UNCHANGED home
  \/ /\ tail <= Len(lh)
     /\ mode = "recover" \/ (mode = "up" /\ \E p \in Proc : pc[p] = "install")
     /\ home' = [home EXCEPT ![lh[tail]] = Torn]
     /\ UNCHANGED logblk

\* Power failure: the disk stays, memory starts afresh (as in Init).
Crash ==
  /\ torn_write
  /\ cache' = [b \in Block |-> NoBuf]
  /\ pin' = [b \in Block |-> 0]
  /\ lh' = <<>>
  /\ outstanding' = 0
  /\ committing' = FALSE
  /\ mode' = "read_head"
  /\ pc' = [p \in Proc |-> "idle"]
  /\ buf' = [p \in Proc |-> NoBuf]
  /\ wrote' = [p \in Proc |-> {}]
  /\ tail' = 1
  /\ UNCHANGED head

Boot == read_head \/ recover_install \/ recover_clear

Call(p) ==
  \/ begin_op(p) \/ log_write(p) \/ end_op(p)
  \/ \E b \in Block, v \in Val : modify(p, b, v)

Committer(p) ==
  \/ commit(p) \/ write_log(p) \/ write_head(p)
  \/ install_trans(p) \/ erase(p) \/ end_commit(p)

Next ==
  \/ Boot
  \/ \E p \in Proc : Call(p) \/ Committer(p)
  \/ \E b \in Block : evict(b)
  \/ Crash

Spec == Init /\ [][Next]_vars

(***************************************************************************)
(* A process that has work in the log keeps running: the scheduler visits  *)
(* every runnable process, the disk answers, and a file-system call makes  *)
(* finitely many writes before its end_op (hence SF).                      *)
(***************************************************************************)
Fairness ==
  /\ \A p \in Proc : WF_vars(log_write(p)) /\ SF_vars(end_op(p))
  /\ \A p \in Proc : WF_vars(Committer(p))

FairSpec == Spec /\ Fairness

-------------------------------------------------------------------------------
(***************************************************************************)
(* Properties.                                                             *)
(***************************************************************************)
Modes == {"read_head", "recover", "up", "panic"}
CommitPc == {"commit", "write_log", "install", "committed"}
Pcs == {"idle", "sleep", "woken", "op", "modified"} \cup CommitPc

\* Every variable has the shape the code gives it.
TypeOK ==
  /\ home \in [Block -> Val \cup {Torn}]
  /\ logblk \in [Slot -> Val \cup {Torn}]
  /\ head \in Seq(Block)
  /\ cache \in [Block -> Val \cup {Torn, NoBuf}]
  /\ pin \in [Block -> Nat]
  /\ lh \in Seq(Block)
  /\ outstanding \in Nat
  /\ committing \in BOOLEAN
  /\ mode \in Modes
  /\ pc \in [Proc -> Pcs]
  /\ buf \in [Proc -> Block \cup {NoBuf}]
  /\ wrote \in [Proc -> SUBSET Block]
  /\ tail \in Nat \ {0}

\* What a reboot would bring back: log blocks named by the header win.
Recovered ==
  [b \in Block |-> IF \E i \in 1..Len(head) : head[i] = b
                   THEN logblk[CHOOSE i \in 1..Len(head) : head[i] = b]
                   ELSE home[b]]

\* What the running system sees; nothing survives in memory across a crash.
View == IF mode \in {"up", "panic"} THEN [b \in Block |-> Data(b)] ELSE Recovered

Active == {p \in Proc : pc[p] \in {"op", "modified"}}

Abs == INSTANCE AtomicDisk WITH mem <- View, durable <- Recovered, active <- Active

(***************************************************************************)
(* The log implements AtomicDisk: whatever the interleaving of calls, the  *)
(* commit steps and the crashes (inside recovery too), a reboot finds all  *)
(* the writes of a call or none, and no write of a call that is running.   *)
(***************************************************************************)
CrashAtomic == Abs!Spec

(***************************************************************************)
(* end_op of the last call returns only once everything the group wrote    *)
(* is durable, the header erased and the pins dropped: a quiet log holds   *)
(* nothing back (end_op, commit, install_trans).                           *)
(***************************************************************************)
QuietIsDurable ==
  (mode = "up" /\ outstanding = 0 /\ ~committing) =>
    /\ View = Recovered
    /\ lh = <<>> /\ head = <<>>
    /\ \A b \in Block : pin[b] = 0

(***************************************************************************)
(* Calls that keep to their reservation never reach panic("too big a       *)
(* transaction"), panic("log_write outside of trans") or                   *)
(* panic("log.committing"): begin_op's admission test is strong enough.    *)
(***************************************************************************)
NoPanic == mode # "panic"

(***************************************************************************)
(* A process asleep in begin_op is woken: neither end_op nor the end of a  *)
(* commit loses the wakeup.                                                *)
(***************************************************************************)
SleepersWake == \A p \in Proc : pc[p] = "sleep" ~> pc[p] # "sleep"
-------------------------------------------------------------------------------
(***************************************************************************)
(* The inductive invariant behind these properties, in named parts.        *)
(***************************************************************************)
Running == mode \in {"up", "panic"}
Installing == \E p \in Proc : pc[p] = "install"

\* Logged blocks whose home copy is still the old one.
Pending == {lh[i] : i \in {j \in 1..Len(lh) : Installing => tail <= j}}

Injective(s) == \A i, j \in 1..Len(s) : s[i] = s[j] => i = j

\* One committer at a time, and only while no call is in progress.
CommitInv ==
  /\ outstanding = Cardinality(Active)
  /\ \A p, q \in Proc : pc[p] \in CommitPc /\ pc[q] \in CommitPc => p = q
  /\ committing <=> \E p \in Proc : pc[p] \in CommitPc
  /\ committing => Active = {}
  /\ ~Running => (~committing /\ \A p \in Proc : pc[p] = "idle")
  /\ mode = "up" /\ ~committing /\ Active = {} => lh = <<>>
  /\ \A p \in Proc : pc[p] = "committed" => lh = <<>>

\* A buffer is locked from the modification to the log_write, by one process.
BufInv ==
  /\ \A p \in Proc : buf[p] # NoBuf <=> pc[p] = "modified"
  /\ \A p, q \in Proc : buf[p] # NoBuf /\ buf[p] = buf[q] => p = q

\* What the on-disk log holds at each point of a commit and of a recovery.
HeadInv ==
  /\ Injective(lh) /\ Len(lh) < NLOG
  /\ Injective(head) /\ Len(head) < NLOG
  /\ \A i \in 1..Len(head) : logblk[i] \in Val
  /\ mode = "read_head" => lh = <<>> /\ tail = 1
  /\ mode = "recover" \/ Installing =>
       /\ lh = head
       /\ \A i \in 1..Len(head) : i < tail => home[head[i]] = logblk[i]
  /\ Running /\ ~Installing => head = <<>>
  /\ \A p \in Proc : pc[p] = "write_log" =>
       \A i \in 1..Len(lh) : i < tail => logblk[i] = cache[lh[i]]
  /\ Running /\ (\A p \in Proc : pc[p] \notin {"write_log", "install"}) => tail = 1

\* The cache differs from the home copies only where it is pinned or locked.
CacheInv ==
  /\ \A b \in Block : home[b] \in Val \/ \E i \in 1..Len(head) : head[i] = b
  /\ ~Running => \A b \in Block : pin[b] = 0 /\ cache[b] \in {NoBuf, home[b]}
  /\ Running => \A b \in Block :
       /\ pin[b] = IF b \in Pending THEN 1 ELSE 0
       /\ b \in Pending => cache[b] \in Val
       /\ b \notin Pending /\ (\A p \in Proc : buf[p] # b) => cache[b] \in {NoBuf, home[b]}
       /\ (\E p \in Proc : buf[p] = b) => cache[b] \in Val
  /\ Installing => \A i \in 1..Len(lh) : tail <= i => cache[lh[i]] = logblk[i]

LogInv == TypeOK /\ CommitInv /\ BufInv /\ HeadInv /\ CacheInv

\* Blocks the running calls may still add to the log.
Left == {t \in Proc \X (1..OPBLOCKS) :
           t[1] \in Active /\ t[2] > Cardinality(wrote[t[1]] \cap Logged)}

(***************************************************************************)
(* The log always has room for what the running calls may still write, and *)
(* two entries to spare (begin_op's admission test).                       *)
(***************************************************************************)
SpaceInv ==
  /\ \A p \in Proc : wrote[p] \ Logged \subseteq {buf[p]}
  /\ \A p \in Proc : pc[p] \notin {"op", "modified"} => wrote[p] = {}
  /\ \A p \in Proc : pc[p] = "modified" => buf[p] \in wrote[p]
  /\ \A p \in Proc : Cardinality(wrote[p]) <= OPBLOCKS
  /\ mode = "up" => Len(lh) + Cardinality(Left) + 2 <= LOGSIZE
===============================================================================
