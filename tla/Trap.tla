--------------------------------- MODULE Trap ---------------------------------
(***************************************************************************)
(* Traps (kernel/trap.c, kernelvec.S, trampoline.S) and the interrupt      *)
(* state that threads carry from CPU to CPU (kernel/spinlock.c, the        *)
(* scheduler of kernel/proc.c).                                            *)
(*                                                                         *)
(* The threads are the processes and the scheduler of each CPU.  A thread  *)
(* has a kernel stack of frames: usertrap or scheduler at the bottom, and  *)
(* kerneltrap above it when the kernel is interrupted.  A step of a thread *)
(* ends where an interrupt can come or where another thread can see it.    *)
(* A place in the code is <<thread, pc>> in user mode and                  *)
(* <<thread, depth, pc>> in the kernel.                                    *)
(***************************************************************************)
EXTENDS Integers, Sequences

CONSTANTS Proc, Cpu, None

\* A thread is a process or the scheduler of a CPU.
ASSUME TrapAssumption == Proc \cap Cpu = {} /\ None \notin Proc \cup Cpu

VARIABLES
  cpu,    \* registers sie, spp, spie (of sstatus), sepc, stvec, tp, the mode (user),
          \* and struct cpu: proc, noff, intena
  stack,  \* of each thread
  upc,    \* of each process: where its user code goes on
  frame,  \* struct trapframe: epc, kernel_hartid
  state,
  fault   \* "" or what went wrong

vars == <<cpu, stack, upc, frame, state, fault>>

UserPc == {"u0", "u1"}
After(u) == IF u = "u0" THEN "u1" ELSE "u0"
On(c) == IF cpu[c].proc = None THEN c ELSE cpu[c].proc
\* The frame on top of a stack, and the stack without it.
Top(s) == s[Len(s)]
Below(s) == SubSeq(s, 1, Len(s) - 1)
Pc(t) == Top(stack[t]).pc
Place(t) == <<t, Len(stack[t]), Pc(t)>>
Goto(t, pc) == [stack EXCEPT ![t][Len(stack[t])].pc = pc]
At(c, pc) == ~cpu[c].user /\ Pc(On(c)) = pc

\* then: where it goes on after yield.
Frame(pc, then) == [pc |-> pc, then |-> then, sepc |-> None, sstatus |-> <<FALSE, FALSE>>,
                    tp |-> None, intena |-> FALSE]
Is(r, c) == cpu' = [cpu EXCEPT ![c] = r]
Faults(checks) ==
  fault' = IF \E i \in DOMAIN checks : checks[i][1]
           THEN checks[CHOOSE i \in DOMAIN checks : checks[i][1]][2] ELSE ""
-------------------------------------------------------------------------------
push_off(r) == [r EXCEPT !.sie = FALSE, !.intena = IF r.noff = 0 THEN r.sie ELSE @,
                         !.noff = @ + 1]
\* Mutant of pop_off: the count is kept.
pop_offKept(r) == [r EXCEPT !.sie = (r.noff = 1 /\ r.intena)]
pop_off(r) == [r EXCEPT !.noff = @ - 1, !.sie = (r.noff = 1 /\ r.intena)]
pop_offBad(r) == <<r.sie \/ r.noff < 1, "pop_off">>

\* The hardware takes a trap: at is where it comes.
Trapped(r, at) == [r EXCEPT !.spp = ~r.user, !.spie = r.sie, !.sie = FALSE, !.sepc = at,
                            !.user = FALSE]
\* sret
Returned(r) == [r EXCEPT !.user = ~r.spp, !.sie = r.spie, !.spie = TRUE, !.spp = FALSE]
-------------------------------------------------------------------------------
(***************************************************************************)
(* From user space and back.  User code may change tp; uservec takes it    *)
(* from the trapframe.                                                     *)
(***************************************************************************)
\* The trap vector of user space, on the way to usertrap.
uservec(r, t) == [r EXCEPT !.tp = frame[t].kernel_hartid]

\* usertrap, up to where interrupts come on (a system call) or it calls yield (timer).
usertrap(c, cause) ==
  LET t == cpu[c].proc
      r == uservec(Trapped(cpu[c], <<t, upc[t]>>), t)
      next == IF cause = "ecall" THEN After(upc[t]) ELSE upc[t]
  IN  /\ cpu[c].user
      /\ Is([r EXCEPT !.stvec = "kernelvec", !.sie = (cause = "ecall")], c)
      /\ frame' = [frame EXCEPT ![t].epc = <<t, next>>]
      /\ upc' = [upc EXCEPT ![t] = next]
      /\ stack' = [stack EXCEPT ![t] = <<Frame(
            CASE cause = "ecall" -> "syscall" [] cause = "timer" -> "yield"
              [] OTHER -> "usertrapret",
            IF cause = "ecall" THEN "syscall" ELSE "usertrapret")>>]
      /\ Faults(<< <<r.spp \/ r.stvec # "uservec", "usertrap: not from user mode">> >>)
      /\ UNCHANGED state

\* A system call takes and releases a lock, sleeps, or returns.
syscall(c) ==
  LET t == cpu[c].proc
  IN  /\ At(c, "syscall")
      /\ \/ Is(push_off(cpu[c]), c) /\ stack' = Goto(t, "locked") /\ fault' = ""
         \/ stack' = Goto(t, "yield") /\ UNCHANGED cpu /\ fault' = ""
         \/ stack' = Goto(t, "usertrapret") /\ UNCHANGED cpu /\ fault' = ""
      /\ UNCHANGED <<upc, frame, state>>

release(c) ==
  /\ At(c, "locked")
  /\ Is(pop_off(cpu[c]), c) /\ stack' = Goto(On(c), "syscall")
  /\ Faults(<<pop_offBad(cpu[c])>>)
  /\ UNCHANGED <<upc, frame, state>>

\* intr_off, the trap vector of user space, the trapframe, sstatus and sepc.
usertrapret_in(c, sie) ==
  LET t == cpu[c].proc
  IN  /\ At(c, "usertrapret")
      /\ Is([cpu[c] EXCEPT !.sie = sie, !.stvec = "uservec", !.spp = FALSE, !.spie = TRUE,
                           !.sepc = frame[t].epc], c)
      /\ frame' = [frame EXCEPT ![t].kernel_hartid = cpu[c].tp]
      /\ stack' = Goto(t, "userret")
      /\ UNCHANGED <<upc, state, fault>>
\* Mutant of usertrapret: intr_off is left out.
usertrapretOn(c) == usertrapret_in(c, cpu[c].sie)
usertrapret(c) == usertrapret_in(c, FALSE)

\* The user's registers, any tp among them, and sret.
userret(c) ==
  LET t == cpu[c].proc
  IN  /\ At(c, "userret")
      /\ \E tp \in Cpu \cup {None} : Is([Returned(cpu[c]) EXCEPT !.tp = tp], c)
      /\ stack' = [stack EXCEPT ![t] = <<>>]
      /\ Faults(<< <<cpu[c].sepc # <<t, upc[t]>> \/ cpu[c].spp, "lost">> >>)
      /\ UNCHANGED <<upc, frame, state>>
-------------------------------------------------------------------------------
(***************************************************************************)
(* From the kernel and back: kernelvec and kerneltrap.                     *)
(***************************************************************************)
kerneltrap(c, cause) ==
  LET t == On(c)
      r == Trapped(cpu[c], Place(t))
      yields == cause = "timer" /\ cpu[c].proc # None /\ state[t] = "RUNNING"
      f == Frame(IF yields THEN "yield" ELSE "restore", "restore")
  IN  /\ ~cpu[c].user /\ cpu[c].sie
      /\ Is(r, c)
      /\ stack' = [stack EXCEPT ![t] = Append(@, [f EXCEPT !.sepc = r.sepc, !.tp = r.tp,
                                                           !.sstatus = <<r.spp, r.spie>>])]
      /\ Faults(<< <<r.stvec # "kernelvec", "usertrap: not from user mode">>,
                   <<~r.spp, "kerneltrap: not from supervisor mode">>,
                   <<r.sie, "kerneltrap: interrupts enabled">> >>)
      /\ UNCHANGED <<upc, frame, state>>

\* What kerneltrap and kernelvec have saved.
Saved(c) == Top(stack[On(c)])
\* The end of kerneltrap, which sets the registers r, and kernelvec to its sret, which
\* keeps tp "in case we moved CPUs".
restore_in(c, r) ==
  LET t == On(c)
      left == Below(stack[t])
  IN  /\ At(c, "restore")
      /\ Is(Returned(r), c)
      /\ stack' = [stack EXCEPT ![t] = left]
      /\ Faults(<< <<r.sepc # <<t, Len(left), Top(left).pc>> \/ ~r.spp, "lost">> >>)
      /\ UNCHANGED <<upc, frame, state>>
\* Mutant of restore: sepc is left as other traps have set it.
restoreStatus(c) ==
  restore_in(c, [cpu[c] EXCEPT !.spp = Saved(c).sstatus[1], !.spie = Saved(c).sstatus[2]])
\* Mutant of restore: tp too is restored, from where the thread was interrupted.
restoreTp(c) ==
  restore_in(c, [cpu[c] EXCEPT !.sepc = Saved(c).sepc, !.spp = Saved(c).sstatus[1],
                               !.spie = Saved(c).sstatus[2], !.tp = Saved(c).tp])
\* Mutant of restore: interrupts are off where they were on.
restorePlace(c) ==
  restore_in(c, [cpu[c] EXCEPT !.sepc = Saved(c).sepc, !.spp = TRUE, !.spie = FALSE])
restore(c) ==
  restore_in(c, [cpu[c] EXCEPT !.sepc = Saved(c).sepc,
                               !.spp = Saved(c).sstatus[1], !.spie = Saved(c).sstatus[2]])
-------------------------------------------------------------------------------
(***************************************************************************)
(* yield and sleep, up to swtch in sched; the scheduler of a CPU.          *)
(***************************************************************************)
yield(c) ==
  LET t == cpu[c].proc
      r == push_off(cpu[c])
  IN  /\ At(c, "yield")
      /\ state' = [state EXCEPT ![t] = "RUNNABLE"]
      /\ stack' = [stack EXCEPT ![t][Len(stack[t])].pc = "sched",
                                ![t][Len(stack[t])].intena = r.intena]
      /\ Is([r EXCEPT !.proc = None], c)
      /\ Faults(<< <<r.noff # 1, "sched locks">>, <<r.sie, "sched interruptible">> >>)
      /\ UNCHANGED <<upc, frame>>

\* Back from swtch: the thread's own intena, and the lock that the scheduler took.
sched_in(c, intena) ==
  LET f == Top(stack[On(c)])
      r == [cpu[c] EXCEPT !.intena = intena]
  IN  /\ At(c, "sched")
      /\ Is(pop_off(r), c) /\ stack' = Goto(On(c), f.then)
      /\ Faults(<<pop_offBad(r)>>)
      /\ UNCHANGED <<upc, frame, state>>
\* Mutant of sched: intena is a property of the CPU.
schedCpu(c) == sched_in(c, cpu[c].intena)
sched(c) == sched_in(c, Top(stack[On(c)]).intena)

forkret(c) ==
  /\ At(c, "forkret")
  /\ Is(pop_off(cpu[c]), c) /\ stack' = Goto(On(c), "usertrapret")
  /\ Faults(<<pop_offBad(cpu[c])>>)
  /\ UNCHANGED <<upc, frame, state>>

\* The loop of scheduler: intr_on, then the processes, of which it runs a RUNNABLE one.
scheduler(c) ==
  /\ \/ /\ At(c, "loop") /\ Is([cpu[c] EXCEPT !.sie = TRUE], c)
        /\ stack' = Goto(c, "scan") /\ UNCHANGED state
     \/ At(c, "scan") /\ stack' = Goto(c, "loop") /\ UNCHANGED <<cpu, state>>
     \/ /\ At(c, "scan")
        /\ \E t \in Proc :
             /\ state[t] = "RUNNABLE" /\ state' = [state EXCEPT ![t] = "RUNNING"]
             /\ Is([push_off(cpu[c]) EXCEPT !.proc = t], c)
        /\ stack' = Goto(c, "swtch")
  /\ UNCHANGED <<upc, frame, fault>>

\* The process has switched back: its lock is released.
switched(c) ==
  /\ At(c, "swtch")
  /\ Is(pop_off(cpu[c]), c) /\ stack' = Goto(c, "scan")
  /\ Faults(<<pop_offBad(cpu[c])>>)
  /\ UNCHANGED <<upc, frame, state>>
-------------------------------------------------------------------------------
Init ==
  /\ cpu = [c \in Cpu |-> [sie |-> FALSE, spp |-> FALSE, spie |-> FALSE, sepc |-> None,
              stvec |-> "kernelvec", tp |-> c, user |-> FALSE, proc |-> None, noff |-> 0,
              intena |-> FALSE]]
  /\ stack = [t \in Proc \cup Cpu |->
                <<Frame(IF t \in Proc THEN "forkret" ELSE "loop", None)>>]
  /\ upc = [p \in Proc |-> "u0"]
  /\ frame = [p \in Proc |-> [epc |-> <<p, "u0">>, kernel_hartid |-> None]]
  /\ state = [p \in Proc |-> "RUNNABLE"]
  /\ fault = ""

Next ==
  /\ fault = ""
  /\ \E c \in Cpu :
       \/ \E cause \in {"ecall", "timer", "device"} : usertrap(c, cause)
       \/ \E cause \in {"timer", "device"} : kerneltrap(c, cause)
       \/ syscall(c) \/ release(c) \/ usertrapret(c) \/ userret(c) \/ restore(c)
       \/ yield(c) \/ sched(c) \/ forkret(c) \/ scheduler(c) \/ switched(c)

Spec == Init /\ [][Next]_vars
-------------------------------------------------------------------------------
TypeOK ==
  /\ \A c \in Cpu : /\ cpu[c].proc \in Proc \cup {None} /\ cpu[c].noff \in 0..1
                    /\ cpu[c].stvec \in {"kernelvec", "uservec"}
                    /\ {cpu[c].sie, cpu[c].spp, cpu[c].spie, cpu[c].user} \subseteq BOOLEAN
  /\ upc \in [Proc -> UserPc] /\ state \in [Proc -> {"RUNNABLE", "RUNNING"}]

\* None of the panics of usertrap, kerneltrap, sched and pop_off is reached: no interrupt
\* comes between "switch the destination of traps" and user space, and each thread's
\* push_off and pop_off match on whatever CPUs it runs.
NoPanic == fault \in {"", "lost"}

\* A trap returns to where it came from, in the mode it came from, whatever other traps
\* happened on this and other CPUs since (usertrapret's sepc; "the yield() may have caused
\* some traps to occur, so restore trap registers" in kerneltrap).
Returns == fault # "lost"

\* The kernel is never interrupted in kerneltrap, not even after it has yielded, so a
\* kernel stack holds the registers of one interrupted place at most.
NotNested == \A t \in Proc \cup Cpu : Len(stack[t]) <= 2

\* In the kernel tp is the number of the CPU (cpuid), although user code changes tp and
\* threads move; a process runs on one CPU at a time.
OwnCpu ==
  /\ \A c \in Cpu : ~cpu[c].user => cpu[c].tp = c
  /\ \A c, d \in Cpu : c # d /\ cpu[c].proc = cpu[d].proc => cpu[c].proc = None

\* A system call runs with interrupts on exactly while it holds no lock, wherever it was
\* interrupted and moved to another CPU before.
InterruptsOn ==
  \A c \in Cpu : ~cpu[c].user /\ Pc(On(c)) \in {"syscall", "locked"} =>
    cpu[c].sie = (cpu[c].noff = 0)

\* A thread does not notice that it was interrupted.
Resumes == TypeOK /\ Returns /\ NotNested /\ OwnCpu /\ InterruptsOn
===============================================================================
