-------------------------------- MODULE Virtio --------------------------------
(***************************************************************************)
(* The virtio disk driver (kernel/virtio_disk.c), the device it talks to,  *)
(* and the processes that call virtio_disk_rw.                             *)
(*                                                                         *)
(* Process p owns one locked buffer for block p: the buffer cache keeps    *)
(* one buffer per block and its sleep-lock lets one process in.  The       *)
(* driver's steps end where vdisk_lock is released or where the device,    *)
(* which respects no lock, can see what was written.                       *)
(***************************************************************************)
EXTENDS Integers, FiniteSets

CONSTANTS Proc,
          NoProc, Intr,  \* vdisk_lock is free; held by the interrupt handler
          NUM,           \* descriptors, and entries of each ring
          WORD,          \* the rings' indices are counted modulo WORD (uint16)
          Value          \* contents of a block

ASSUME VirtioAssumption ==
  /\ NoProc \notin Proc /\ Intr \notin Proc /\ NoProc # Intr
  /\ NUM \in Nat /\ WORD \in Nat /\ NUM >= 3
  /\ NUM < WORD /\ WORD % NUM = 0

Desc == 0..(NUM - 1)

VARIABLES
  free, desc, ops,         \* the driver's descriptors and command headers
  info,                    \* info[h]: the buffer and the status of chain h
  avail, avail_idx,        \* ring of requests, written by the driver
  used, used_idx,          \* ring of completions, written by the device
  seen_idx,                \* disk.used_idx, how far the driver has looked
  lock,                    \* vdisk_lock
  pc, write, idx,          \* each process: where it is, its call's arguments
  data, disk,              \* b->data, b->disk
  media, taken, busy, irq  \* the device: blocks, how far it has taken requests,
                           \* the ones in progress, the interrupt status bit

driver == <<free, desc, ops, info>>
rings == <<avail, avail_idx, used, used_idx, seen_idx>>
procs == <<pc, write, idx, data, disk>>
device == <<media, taken, busy, irq>>
vars == <<driver, rings, lock, procs, device>>

zeroed == [addr |-> 0, next |-> 0, more |-> FALSE]

\* virtio_disk_init
Init ==
  /\ free = Desc
  /\ desc = [d \in Desc |-> zeroed]
  /\ ops = [d \in Desc |-> [out |-> FALSE, sector |-> NoProc]]
  /\ info = [d \in Desc |-> [b |-> NoProc, status |-> 0]]
  /\ avail = [k \in Desc |-> 0] /\ avail_idx = 0
  /\ used = [k \in Desc |-> 0] /\ used_idx = 0 /\ seen_idx = 0
  /\ lock = NoProc
  /\ pc = [p \in Proc |-> "idle"]
  /\ write = [p \in Proc |-> FALSE]
  /\ idx = [p \in Proc |-> 0]
  /\ media \in {[p \in Proc |-> v] : v \in Value}
  /\ data = media
  /\ disk = [p \in Proc |-> FALSE]
  /\ taken = 0 /\ busy = {} /\ irq = FALSE

\* The lowest free descriptor: the one alloc_desc returns.
alloc_desc(f) == CHOOSE d \in f : \A e \in f : d <= e

\* wakeup(&disk.free[0])
wakeup_free == [p \in Proc |-> IF pc[p] = "sleep_free" THEN "woken_free" ELSE pc[p]]
-------------------------------------------------------------------------------
(***************************************************************************)
(* virtio_disk_rw                                                          *)
(***************************************************************************)
\* A caller with its buffer locked: new contents to write, or stale ones to fill.
virtio_disk_rw(p, w, v) ==
  /\ pc[p] = "idle"
  /\ pc' = [pc EXCEPT ![p] = "enter"]
  /\ write' = [write EXCEPT ![p] = w]
  /\ data' = [data EXCEPT ![p] = v]
  /\ UNCHANGED <<driver, rings, lock, idx, disk, device>>

\* Mutant of alloc3_fails: what was taken is not given back.
alloc3_leaks(p) ==
  /\ pc[p] \in {"enter", "woken_free"} /\ lock = NoProc
  /\ Cardinality(free) < 3
  /\ desc' = [d \in Desc |-> IF d \in free THEN zeroed ELSE desc[d]]
  /\ pc' = [(IF free = {} THEN pc ELSE wakeup_free) EXCEPT ![p] = "sleep_free"]
  /\ free' = {}
  /\ UNCHANGED <<ops, info, rings, lock, write, idx, data, disk, device>>

(***************************************************************************)
(* alloc3_desc fails: what it took is given back, which wakes the other    *)
(* sleepers if it took anything, and the caller sleeps on &disk.free[0].   *)
(***************************************************************************)
alloc3_fails(p) ==
  /\ pc[p] \in {"enter", "woken_free"} /\ lock = NoProc
  /\ Cardinality(free) < 3
  /\ desc' = [d \in Desc |-> IF d \in free THEN zeroed ELSE desc[d]]
  /\ pc' = [(IF free = {} THEN pc ELSE wakeup_free) EXCEPT ![p] = "sleep_free"]
  /\ UNCHANGED <<free, ops, info, rings, lock, write, idx, data, disk, device>>

\* Mutant of fill: the entry after the next one.
fill_next(p, d0, d1, d2) ==
  /\ free' = free \ {d0, d1, d2}
  /\ ops' = [ops EXCEPT ![d0] = [out |-> write[p], sector |-> p]]
  /\ desc' = [desc EXCEPT ![d0] = [addr |-> d0, next |-> d1, more |-> TRUE],
                          ![d1] = [addr |-> p, next |-> d2, more |-> TRUE],
                          ![d2] = [addr |-> d0, next |-> 0, more |-> FALSE]]
  /\ info' = [info EXCEPT ![d0] = [b |-> p, status |-> 255]]
  /\ idx' = [idx EXCEPT ![p] = d0]
  /\ avail' = [avail EXCEPT ![(avail_idx + 1) % NUM] = d0]

\* Allocate and format the chain, and enter it in the ring; the device looks
\* at none of it before avail->idx moves.
fill(p, d0, d1, d2) ==
  /\ free' = free \ {d0, d1, d2}
  /\ ops' = [ops EXCEPT ![d0] = [out |-> write[p], sector |-> p]]
  /\ desc' = [desc EXCEPT ![d0] = [addr |-> d0, next |-> d1, more |-> TRUE],
                          ![d1] = [addr |-> p, next |-> d2, more |-> TRUE],
                          ![d2] = [addr |-> d0, next |-> 0, more |-> FALSE]]
  /\ info' = [info EXCEPT ![d0] = [b |-> p, status |-> 255]]
  /\ idx' = [idx EXCEPT ![p] = d0]
  /\ avail' = [avail EXCEPT ![avail_idx % NUM] = d0]

alloc3_desc(p) ==
  /\ pc[p] \in {"enter", "woken_free"} /\ lock = NoProc
  /\ Cardinality(free) >= 3
  /\ LET d0 == alloc_desc(free)
         d1 == alloc_desc(free \ {d0})
         d2 == alloc_desc(free \ {d0, d1})
     IN fill(p, d0, d1, d2)
  /\ disk' = [disk EXCEPT ![p] = TRUE]
  /\ lock' = p
  /\ pc' = [pc EXCEPT ![p] = "filled"]
  /\ UNCHANGED <<avail_idx, used, used_idx, seen_idx, write, data, device>>

\* Mutant of submit: the index is not a uint16.
submit_wide(p) ==
  /\ pc[p] = "filled"
  /\ avail_idx' = avail_idx + 1
  /\ pc' = [pc EXCEPT ![p] = "submitted"]
  /\ UNCHANGED <<driver, avail, used, used_idx, seen_idx, lock, write, idx, data, disk, device>>

submit(p) ==
  /\ pc[p] = "filled"
  /\ avail_idx' = (avail_idx + 1) % WORD
  /\ pc' = [pc EXCEPT ![p] = "submitted"]
  /\ UNCHANGED <<driver, avail, used, used_idx, seen_idx, lock, write, idx, data, disk, device>>

\* while(b->disk == 1) sleep(b, &disk.vdisk_lock), the first time and after a wakeup.
wait(p) ==
  /\ \/ pc[p] = "submitted"
     \/ pc[p] = "woken_b" /\ lock = NoProc
  /\ disk[p]
  /\ lock' = NoProc
  /\ pc' = [pc EXCEPT ![p] = "sleep_b"]
  /\ UNCHANGED <<driver, rings, write, idx, data, disk, device>>

\* The descriptors free_chain(h) visits.
Chain(h) ==
  LET d1 == desc[h].next  d2 == desc[d1].next
  IN {h} \cup (IF desc[h].more THEN {d1} ELSE {})
         \cup (IF desc[h].more /\ desc[d1].more THEN {d2} ELSE {})

\* Mutants of finish: one wakeup is taken for the completion; nobody is woken.
finish_woken(p) ==
  /\ pc[p] = "woken_b" /\ lock = NoProc
  /\ info' = [info EXCEPT ![idx[p]].b = NoProc]
  /\ free' = free \cup Chain(idx[p])
  /\ desc' = [d \in Desc |-> IF d \in Chain(idx[p]) THEN zeroed ELSE desc[d]]
  /\ pc' = [wakeup_free EXCEPT ![p] = "idle"]
  /\ write' = [write EXCEPT ![p] = FALSE]
  /\ idx' = [idx EXCEPT ![p] = 0]
  /\ UNCHANGED <<ops, rings, lock, data, disk, device>>
finish_silent(p) ==
  /\ pc[p] = "woken_b" /\ lock = NoProc
  /\ ~disk[p]
  /\ info' = [info EXCEPT ![idx[p]].b = NoProc]
  /\ free' = free \cup Chain(idx[p])
  /\ desc' = [d \in Desc |-> IF d \in Chain(idx[p]) THEN zeroed ELSE desc[d]]
  /\ pc' = [pc EXCEPT ![p] = "idle"]
  /\ write' = [write EXCEPT ![p] = FALSE]
  /\ idx' = [idx EXCEPT ![p] = 0]
  /\ UNCHANGED <<ops, rings, lock, data, disk, device>>

finish(p) ==
  /\ pc[p] = "woken_b" /\ lock = NoProc
  /\ ~disk[p]
  /\ info' = [info EXCEPT ![idx[p]].b = NoProc]
  /\ free' = free \cup Chain(idx[p])
  /\ desc' = [d \in Desc |-> IF d \in Chain(idx[p]) THEN zeroed ELSE desc[d]]
  /\ pc' = [wakeup_free EXCEPT ![p] = "idle"]
  /\ write' = [write EXCEPT ![p] = FALSE]
  /\ idx' = [idx EXCEPT ![p] = 0]
  /\ UNCHANGED <<ops, rings, lock, data, disk, device>>

\* kill() makes any sleeping process runnable, whatever it waits for.
kill(p) ==
  /\ pc[p] \in {"sleep_free", "sleep_b"}
  /\ pc' = [pc EXCEPT ![p] = IF @ = "sleep_b" THEN "woken_b" ELSE "woken_free"]
  /\ UNCHANGED <<driver, rings, lock, write, idx, data, disk, device>>
-------------------------------------------------------------------------------
(***************************************************************************)
(* virtio_disk_intr                                                        *)
(***************************************************************************)
intr ==
  /\ irq /\ lock = NoProc
  /\ lock' = Intr
  /\ irq' = FALSE
  /\ UNCHANGED <<driver, rings, procs, media, taken, busy>>

\* Mutants of intr_used: no wakeup(b); one completion per interrupt.
intr_used_silent ==
  /\ lock = Intr /\ seen_idx # used_idx
  /\ LET b == info[used[seen_idx % NUM]].b IN
       /\ disk' = [disk EXCEPT ![b] = FALSE]
  /\ seen_idx' = (seen_idx + 1) % WORD
  /\ UNCHANGED <<driver, avail, avail_idx, used, used_idx, lock, pc, write, idx, data, device>>
intr_used_one ==
  /\ lock = Intr /\ seen_idx # used_idx
  /\ LET b == info[used[seen_idx % NUM]].b IN
       /\ disk' = [disk EXCEPT ![b] = FALSE]
       /\ pc' = [pc EXCEPT ![b] = IF @ = "sleep_b" THEN "woken_b" ELSE @]
  /\ lock' = NoProc
  /\ seen_idx' = (seen_idx + 1) % WORD
  /\ UNCHANGED <<driver, avail, avail_idx, used, used_idx, write, idx, data, device>>

intr_used ==
  /\ lock = Intr /\ seen_idx # used_idx
  /\ LET b == info[used[seen_idx % NUM]].b IN
       /\ disk' = [disk EXCEPT ![b] = FALSE]
       /\ pc' = [pc EXCEPT ![b] = IF @ = "sleep_b" THEN "woken_b" ELSE @]
  /\ seen_idx' = (seen_idx + 1) % WORD
  /\ UNCHANGED <<driver, avail, avail_idx, used, used_idx, lock, write, idx, data, device>>

intr_done ==
  /\ lock = Intr /\ seen_idx = used_idx
  /\ lock' = NoProc
  /\ UNCHANGED <<driver, rings, procs, device>>
-------------------------------------------------------------------------------
(***************************************************************************)
(* The device: it takes requests in ring order and completes them in any.  *)
(***************************************************************************)
device_take ==
  /\ taken # avail_idx
  /\ busy' = busy \cup {avail[taken % NUM]}
  /\ taken' = (taken + 1) % WORD
  /\ UNCHANGED <<driver, rings, lock, procs, media, irq>>

device_complete(h) ==
  /\ h \in busy
  /\ LET d1 == desc[h].next
         b == desc[d1].addr
     IN /\ IF ops[h].out
           THEN media' = [media EXCEPT ![ops[h].sector] = data[b]] /\ UNCHANGED data
           ELSE data' = [data EXCEPT ![b] = media[ops[h].sector]] /\ UNCHANGED media
        /\ info' = [info EXCEPT ![desc[desc[d1].next].addr].status = 0]
  /\ used' = [used EXCEPT ![used_idx % NUM] = h]
  /\ used_idx' = (used_idx + 1) % WORD
  /\ busy' = busy \ {h}
  /\ irq' = TRUE
  /\ UNCHANGED <<free, desc, ops, avail, avail_idx, seen_idx, lock, pc, write, idx, disk, taken>>
-------------------------------------------------------------------------------
Run(p) ==
  \/ alloc3_fails(p) \/ alloc3_desc(p) \/ submit(p) \/ wait(p) \/ finish(p)

Interrupt == intr \/ intr_used \/ intr_done

Device == device_take \/ \E h \in Desc : device_complete(h)

Next ==
  \/ \E p \in Proc : \/ Run(p) \/ kill(p)
                    \/ \E w \in BOOLEAN, v \in Value : virtio_disk_rw(p, w, v)
  \/ Interrupt
  \/ Device

Spec == Init /\ [][Next]_vars

(***************************************************************************)
(* The device works off every request, the interrupt it raises is taken    *)
(* and handled, and a process that spins for vdisk_lock gets it if it is   *)
(* free again and again.                                                   *)
(***************************************************************************)
Fairness ==
  /\ SF_vars(intr) /\ WF_vars(intr_used) /\ WF_vars(intr_done)
  /\ WF_vars(device_take) /\ \A h \in Desc : WF_vars(device_complete(h))
  /\ \A p \in Proc :
       /\ WF_vars(submit(p)) /\ WF_vars(wait(p) /\ lock = p)
       /\ SF_vars(alloc3_desc(p)) /\ SF_vars(finish(p))

FairSpec == Spec /\ Fairness
-------------------------------------------------------------------------------
(***************************************************************************)
(* Properties.                                                             *)
(***************************************************************************)
\* Every variable has the shape the code gives it.
TypeOK ==
  /\ free \subseteq Desc
  /\ desc \in [Desc -> [addr : Desc \cup Proc, next : Desc, more : BOOLEAN]]
  /\ ops \in [Desc -> [out : BOOLEAN, sector : Proc \cup {NoProc}]]
  /\ info \in [Desc -> [b : Proc \cup {NoProc}, status : {0, 255}]]
  /\ avail \in [Desc -> Desc] /\ used \in [Desc -> Desc]
  /\ {avail_idx, used_idx, seen_idx, taken} \subseteq 0..(WORD - 1)
  /\ lock \in Proc \cup {NoProc, Intr}
  /\ pc \in [Proc -> {"idle", "enter", "filled", "submitted", "sleep_free", "woken_free",
                      "sleep_b", "woken_b"}]
  /\ write \in [Proc -> BOOLEAN] /\ idx \in [Proc -> Desc]
  /\ data \in [Proc -> Value] /\ disk \in [Proc -> BOOLEAN]
  /\ media \in [Proc -> Value] /\ busy \subseteq Desc /\ irq \in BOOLEAN

\* Calls that have their three descriptors.
Active == {p \in Proc : pc[p] \in {"filled", "submitted", "sleep_b", "woken_b"}}

(***************************************************************************)
(* Descriptors are conserved (alloc_desc, free_chain): each is free or in  *)
(* the chain of exactly one call, and every chain has three.  Hence the    *)
(* panics of free_desc cannot happen and no request is overwritten.        *)
(***************************************************************************)
DescConserved ==
  /\ \A p \in Active : Cardinality(Chain(idx[p])) = 3 /\ Chain(idx[p]) \cap free = {}
  /\ \A p, q \in Active : p # q => Chain(idx[p]) \cap Chain(idx[q]) = {}
  /\ Cardinality(free) + 3 * Cardinality(Active) = NUM

\* What a ring holds between two of its indices: completions the driver has not looked at,
\* requests the device has not taken.
Entries(ring, from, to) == {ring[(from + k) % NUM] : k \in 0..(((to - from) % WORD) - 1)}
Unseen == Entries(used, seen_idx, used_idx)
Untaken == Entries(avail, taken, avail_idx)

(***************************************************************************)
(* A call in progress is in exactly one place: not yet taken, in the       *)
(* device, or completed and not yet seen by the interrupt handler; when    *)
(* the handler sees it, its status is 0 and info names the waiting buffer, *)
(* so virtio_disk_intr neither panics nor wakes somebody else's call.      *)
(***************************************************************************)
RequestTracked ==
  /\ Unseen \cap Untaken = {} /\ (Unseen \cup Untaken) \cap busy = {}
  /\ \A p \in Proc : disk[p] /\ pc[p] # "filled" =>
       /\ idx[p] \in Unseen \cup Untaken \cup busy
       /\ info[idx[p]].b = p
       /\ idx[p] \in Unseen => info[idx[p]].status = 0
  /\ \A h \in Unseen \cup Untaken \cup busy : \E p \in Active : idx[p] = h /\ disk[p]
  /\ Cardinality(Unseen) = (used_idx - seen_idx) % WORD
  /\ Cardinality(Untaken) = (avail_idx - taken) % WORD

(***************************************************************************)
(* virtio_disk_rw returns when the transfer is over: the buffer and the    *)
(* block on the disk then agree, for reads as for writes, although a kill  *)
(* may have woken the caller before.                                       *)
(***************************************************************************)
TransferDone == \A p \in Proc : pc[p] = "idle" => data[p] = media[p]

(***************************************************************************)
(* Nobody sleeps for descriptors while there are enough, and nobody sleeps *)
(* on a buffer the interrupt handler has finished (sleep, wakeup and       *)
(* free_desc under vdisk_lock).                                            *)
(***************************************************************************)
NoLostWakeup ==
  lock = NoProc =>
    \A p \in Proc : /\ pc[p] = "sleep_free" => Cardinality(free) < 3
                    /\ pc[p] = "sleep_b" => disk[p]

(***************************************************************************)
(* A completion the handler has not seen has the interrupt raised or the   *)
(* handler running: acknowledging before looking (virtio_disk_intr) loses  *)
(* none.                                                                   *)
(***************************************************************************)
InterruptPending == seen_idx # used_idx => irq \/ lock = Intr

\* Each descriptor is free or in the chain of one call (alloc_desc, free_chain), and
\* nobody sleeps for descriptors while there are enough, or for a request that is done.
Descriptors == DescConserved /\ NoLostWakeup

\* virtio_disk_rw returns when the buffer and the block on the disk agree, not before; a
\* request is in one place, not yet taken, in the device, or completed and not yet seen,
\* and when it is completed the interrupt is on its way or being handled.
Requests == TypeOK /\ TransferDone /\ RequestTracked /\ InterruptPending

(***************************************************************************)
(* Every virtio_disk_rw returns, although callers that cannot allocate     *)
(* wake each other and go back to sleep.                                   *)
(***************************************************************************)
RequestsFinish == \A p \in Proc : pc[p] = "enter" ~> pc[p] = "idle"
===============================================================================
