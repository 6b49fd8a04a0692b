------------------------------ MODULE TrapProofs ------------------------------
(***************************************************************************)
(* Proofs about Trap, for any number of processes and CPUs.                *)
(***************************************************************************)
EXTENDS Trap, SequenceTheorems, TLAPS

Thread == Proc \cup Cpu

\* The places of a thread at the bottom of its stack and in kerneltrap; those in which it
\* holds a lock; those in a system call or in yield; those at which an interrupt can come.
ProcPc == {"forkret", "syscall", "locked", "yield", "sched", "usertrapret", "userret"}
CpuPc == {"loop", "scan", "swtch"}
TrapPc == {"yield", "sched", "restore"}
Locked == {"forkret", "locked", "sched", "swtch"}
Calling == {"syscall", "locked", "yield", "sched"}
Open == {"syscall", "yield", "usertrapret", "loop", "scan"}

Epc == Proc \X UserPc
Sepc == {None} \cup Epc \cup (Thread \X Nat \X (ProcPc \cup CpuPc \cup TrapPc))
CpuType ==
  [sie : BOOLEAN, spp : BOOLEAN, spie : BOOLEAN, sepc : Sepc, stvec : {"kernelvec", "uservec"},
   tp : Cpu \cup {None}, user : BOOLEAN, proc : Proc \cup {None}, noff : 0..1, intena : BOOLEAN]
FrameType ==
  [pc : ProcPc \cup CpuPc \cup TrapPc, then : {None, "syscall", "usertrapret", "restore"},
   sepc : Sepc, sstatus : BOOLEAN \X BOOLEAN, tp : Cpu \cup {None}, intena : BOOLEAN]

Types ==
  /\ cpu \in [Cpu -> CpuType] /\ stack \in [Thread -> Seq(FrameType)]
  /\ upc \in [Proc -> UserPc] /\ state \in [Proc -> {"RUNNABLE", "RUNNING"}]
  /\ frame \in [Proc -> [epc : Epc, kernel_hartid : Cpu \cup {None}]]

\* What thread t may have on its stack s: the code it runs or was interrupted in, and above
\* it kerneltrap, which knows that place and that interrupts were on there.
Interrupted(t, s) == s[2].sepc = <<t, 1, s[1].pc>> /\ s[2].sstatus = <<TRUE, TRUE>>
StackOK(t, s) ==
  /\ Len(s) <= 2
  /\ Len(s) > 0 =>
       /\ s[1].pc \in (IF t \in Proc THEN ProcPc ELSE CpuPc)
       /\ s[1].pc \in Calling => s[1].then \in {"syscall", "usertrapret"}
       /\ s[1].pc = "sched" /\ s[1].then = "syscall" => s[1].intena
  /\ Len(s) = 2 =>
       /\ s[1].pc \in Open /\ s[2].pc \in TrapPc /\ (t \in Cpu => s[2].pc = "restore")
       /\ s[2].then = "restore" /\ Interrupted(t, s)
       /\ s[2].pc = "sched" => ~s[2].intena

\* CPU c, with registers r, in user mode, and in the kernel at the top f of a stack of n frames.
UserOK(c, r, f) ==
  r.proc # None /\ r.noff = 0 /\ r.stvec = "uservec" /\ f.kernel_hartid = c
KernelOK(c, r, f, n) ==
  /\ r.tp = c
  /\ r.noff = IF f.pc \in Locked THEN 1 ELSE 0
  /\ f.pc \in Locked \cup {"restore", "userret"} \/ n = 2 => ~r.sie
  /\ f.pc = "syscall" \/ (f.pc = "yield" /\ f.then = "syscall") => r.sie
  /\ f.pc = "locked" => r.intena
  /\ r.stvec = IF f.pc = "userret" THEN "uservec" ELSE "kernelvec"
ReturnOK(c, r, t, f, u) == ~r.spp /\ r.sepc = <<t, u>> /\ f.kernel_hartid = c

\* CPU c, with registers r, runs thread t, with stack s, struct trapframe f and user code at u.
Runs(c, r, t, s, f, u) ==
  /\ r.user => UserOK(c, r, f) /\ s = <<>>
  /\ ~r.user => /\ s # <<>> /\ KernelOK(c, r, s[Len(s)], Len(s))
                /\ s[Len(s)].pc = "userret" => ReturnOK(c, r, t, f, u)
\* The scheduler waits for the process it runs.
Gone(c) ==
  cpu[c].proc # None =>
    state[cpu[c].proc] = "RUNNING" /\ Len(stack[c]) = 1 /\ stack[c][1].pc = "swtch"
CpuOK(c) == Gone(c) /\ Runs(c, cpu[c], On(c), stack[On(c)], frame[On(c)], upc[On(c)])

\* A process that is not running was switched away in sched or has not run yet.
Waiting(p) ==
  state[p] = "RUNNABLE" =>
    stack[p] # <<>> /\ stack[p][Len(stack[p])].pc \in {"forkret", "sched"}

Alone == \A c, d \in Cpu : c # d /\ cpu[c].proc = cpu[d].proc => cpu[c].proc = None

TrapInv ==
  /\ Types /\ Alone /\ fault = ""
  /\ \A t \in Thread : StackOK(t, stack[t])
  /\ \A c \in Cpu : CpuOK(c)
  /\ \A p \in Proc : Waiting(p) /\ frame[p].epc = <<p, upc[p]>>

-------------------------------------------------------------------------------
\* The frame of kerneltrap is put on a stack of one frame.
LEMMA Pushed ==
  ASSUME NEW s \in Seq(FrameType), Len(s) = 1, NEW f \in FrameType
  PROVE  /\ Append(s, f) \in Seq(FrameType) /\ Len(Append(s, f)) = 2
         /\ Append(s, f)[1] = s[1] /\ Append(s, f)[2] = f /\ Append(s, f) # <<>>
<1>1. /\ Append(s, f) \in Seq(FrameType) /\ Append(s, f) # <<>> /\ Len(Append(s, f)) = Len(s) + 1
  BY Zenon, AppendProperties
<1>2. Append(s, f)[Len(s) + 1] = f
  BY Zenon, AppendProperties
<1>3. Len(s) + 1 = 2 /\ Append(s, f)[1] = s[1]
  BY SMT
<1>4. QED
  BY Zenon, <1>1, <1>2, <1>3

USE TrapAssumption

\* The thread of a CPU, and that no other CPU has it.
LEMMA OnIs ==
  ASSUME Types, Alone
  PROVE  /\ \A c \in Cpu : On(c) \in Thread /\ c \in Thread
         /\ \A c \in Cpu : cpu[c].proc = None => On(c) = c
         /\ \A c \in Cpu : cpu[c].proc # None =>
              On(c) = cpu[c].proc /\ On(c) \in Proc /\ On(c) \notin Cpu
         /\ \A c, d \in Cpu : c # d => On(c) # On(d) /\ On(c) # d
         /\ \A c \in Cpu : cpu[c] \in CpuType /\ cpu[c].proc \in Proc \cup {None}
<1>1. \A c \in Cpu : cpu[c] \in CpuType /\ cpu[c].proc \in Proc \cup {None}
  BY Zenon DEF Types, CpuType
<1>2. QED
  BY Zenon, <1>1 DEF On, Thread, Alone

\* The lengths of a stack in use.
LEMMA OneOrTwo == 1 # 2 /\ \A n \in Nat : n # 0 /\ n <= 2 => n = 1 \/ n = 2
OBVIOUS

\* A stack in use has one frame, or two with kerneltrap on top; the top is a place of the
\* thread, or of kerneltrap.
LEMMA Frames ==
  ASSUME NEW t \in Thread, NEW s \in Seq(FrameType), StackOK(t, s), s # <<>>
  PROVE  /\ Len(s) = 1 \/ Len(s) = 2
         /\ s[1] \in FrameType /\ s[Len(s)] \in FrameType
         /\ s[Len(s)].pc \in TrapPc \cup (IF t \in Proc THEN ProcPc ELSE CpuPc)
         /\ t \in Cpu => s[Len(s)].pc \in CpuPc \cup {"restore"}
<1>1. Len(s) \in Nat /\ Len(s) # 0 /\ Len(s) <= 2
  BY Zenon, LenProperties, EmptySeq DEF StackOK
<1>2. Len(s) = 1 \/ Len(s) = 2
  BY Zenon, <1>1, OneOrTwo
<1>3. s[1] \in FrameType /\ s[Len(s)] \in FrameType
  BY <1>1, ElementOfSeq
<1>4. Len(s) > 0 /\ (t \in Cpu => t \notin Proc)
  BY <1>1
<1>5. QED
  BY Zenon, <1>2, <1>3, <1>4 DEF StackOK, Thread

\* The frame on top of a stack replaced.
PutTop(s, f) == [s EXCEPT ![Len(s)] = f]

\* The stack with the frame on top replaced.
LEMMA PutTopIs ==
  ASSUME NEW s \in Seq(FrameType), s # <<>>, NEW f \in FrameType
  PROVE  /\ PutTop(s, f) \in Seq(FrameType) /\ Len(PutTop(s, f)) = Len(s)
         /\ PutTop(s, f)[Len(s)] = f /\ PutTop(s, f) # <<>>
         /\ \A i \in 1..(Len(s) - 1) : PutTop(s, f)[i] = s[i]
BY DEF PutTop

\* What the frame on top has to be like for the stack to stay as it should be.
LEMMA PutOK ==
  ASSUME NEW t \in Thread, NEW s \in Seq(FrameType), StackOK(t, s), s # <<>>, NEW f \in FrameType,
         Len(s) = 1 =>
           /\ f.pc \in (IF t \in Proc THEN ProcPc ELSE CpuPc)
           /\ f.pc \in Calling => f.then \in {"syscall", "usertrapret"}
           /\ f.pc = "sched" /\ f.then = "syscall" => f.intena,
         Len(s) = 2 =>
           /\ f.pc \in TrapPc /\ (t \in Cpu => f.pc = "restore")
           /\ f.then = s[2].then /\ f.sepc = s[2].sepc /\ f.sstatus = s[2].sstatus
           /\ f.pc = "sched" => ~f.intena
  PROVE  StackOK(t, PutTop(s, f))
<1> DEFINE u == PutTop(s, f)
<1>1. Len(u) = Len(s) /\ u[Len(s)] = f /\ (Len(s) = 2 => u[1] = s[1])
  BY PutTopIs
<1>2. Len(s) = 1 \/ Len(s) = 2
  BY Zenon, Frames
<1> HIDE DEF u
<1>3. CASE Len(s) = 1
  <2>1. Len(u) = 1 /\ u[1] = f /\ Len(u) <= 2 /\ Len(u) # 2
    BY <1>1, <1>3
  <2>2. QED
    BY Zenon, <1>3, <2>1 DEF StackOK, u
<1>4. CASE Len(s) = 2
  <2>1. Len(u) = 2 /\ u[2] = f /\ u[1] = s[1] /\ Len(s) > 0
    BY <1>1, <1>4
  <2>2. Interrupted(t, u)
    BY Zenon, <1>4, <2>1 DEF StackOK, Interrupted
  <2>3. QED
    BY Zenon, <1>4, <2>1, <2>2 DEF StackOK, u
<1>5. QED
  BY Zenon, <1>2, <1>3, <1>4

\* A thread goes on at another place: the pc of its frame on top changes.
LEMMA GotoIs ==
  ASSUME Types, NEW t \in Thread, stack[t] # <<>>, NEW pc \in ProcPc \cup CpuPc \cup TrapPc
  PROVE  LET f == [stack[t][Len(stack[t])] EXCEPT !.pc = pc]
         IN  f \in FrameType /\ Goto(t, pc) = [stack EXCEPT ![t] = PutTop(stack[t], f)]
<1>1. stack[t] \in Seq(FrameType) /\ stack[t][Len(stack[t])] \in FrameType
  BY DEF Types
<1>2. [stack[t][Len(stack[t])] EXCEPT !.pc = pc] \in FrameType
  BY Zenon, <1>1 DEF FrameType
<1>3. QED
  BY Zenon, <1>2 DEF Goto, PutTop, Types

\* A step of CPU c that stays with its thread disturbs no other CPU.
LEMMA Local ==
  ASSUME TrapInv, NEW c \in Cpu, NEW r \in CpuType, NEW s \in Seq(FrameType),
         cpu' = [cpu EXCEPT ![c] = r], r.proc = cpu[c].proc,
         stack' = [stack EXCEPT ![On(c)] = s], StackOK(On(c), s), Types',
         state' = state, fault' = "",
         \A p \in Proc : p # cpu[c].proc => frame'[p] = frame[p] /\ upc'[p] = upc[p],
         cpu[c].proc # None => frame'[cpu[c].proc].epc = <<cpu[c].proc, upc'[cpu[c].proc]>>,
         Runs(c, r, On(c), s, frame'[On(c)], upc'[On(c)])
  PROVE  TrapInv'
<1>1. Types /\ Alone
  BY Zenon DEF TrapInv
<1>2. cpu'[c] = r /\ \A d \in Cpu : d # c => cpu'[d] = cpu[d]
  BY Zenon, <1>1 DEF Types
<1>3. \A d \in Cpu : cpu'[d].proc = cpu[d].proc /\ On(d)' = On(d)
  <2> SUFFICES ASSUME NEW d \in Cpu PROVE cpu'[d].proc = cpu[d].proc /\ On(d)' = On(d)
    BY Zenon
  <2>1. cpu'[d].proc = cpu[d].proc
    BY Zenon, <1>2
  <2>2. QED
    BY Zenon, <2>1 DEF On
<1>4. On(c) \in Thread /\ stack'[On(c)] = s /\ \A t \in Thread : t # On(c) => stack'[t] = stack[t]
  BY Zenon, <1>1, OnIs DEF Types
<1>5. \A t \in Thread : StackOK(t, stack[t])'
  <2> SUFFICES ASSUME NEW t \in Thread PROVE StackOK(t, stack'[t])
    BY Zenon DEF StackOK
  <2>1. StackOK(t, stack[t])
    BY Zenon DEF TrapInv
  <2>2. QED
    BY Zenon, <1>4, <2>1
<1>6. ASSUME NEW d \in Cpu, d # c PROVE CpuOK(d)'
  <2>1. CpuOK(d) /\ On(d) \in Thread /\ On(d) # On(c) /\ d # On(c) /\ d \in Thread
    BY Zenon, <1>1, <1>6, OnIs DEF TrapInv, Thread
  <2>2. cpu'[d] = cpu[d] /\ On(d)' = On(d) /\ stack'[On(d)] = stack[On(d)] /\ stack'[d] = stack[d]
    BY Zenon, <1>2, <1>3, <1>4, <1>6, <2>1
  <2>3. cpu[d].proc # None => /\ cpu[d].proc \in Proc /\ cpu[d].proc # cpu[c].proc
                              /\ On(d) = cpu[d].proc
    BY Zenon, <1>1, <1>6, OnIs DEF Alone
  <2>4. cpu[d].proc # None => frame'[On(d)] = frame[On(d)] /\ upc'[On(d)] = upc[On(d)]
    BY Zenon, <2>3
  <2>5. Gone(d)'
    BY Zenon, <2>1, <2>2 DEF CpuOK, Gone
  <2>6. CASE cpu[d].proc # None
    BY Zenon, <2>1, <2>2, <2>4, <2>5, <2>6 DEF CpuOK
  <2>7. CASE cpu[d].proc = None
    <3>1. On(d) = d /\ ~cpu[d].user
      BY Zenon, <2>1, <2>7 DEF CpuOK, Runs, On, UserOK
    <3>2. stack[d][Len(stack[d])].pc # "userret" /\ stack[d] # <<>>
      <4>1. StackOK(d, stack[d]) /\ stack[d] # <<>> /\ stack[d] \in Seq(FrameType)
        <5>1. stack[d] # <<>>
          BY Zenon, <2>1, <3>1 DEF CpuOK, Runs
        <5>2. QED
          BY Zenon, <1>1, <2>1, <5>1 DEF TrapInv, Types
      <4>2. QED
        BY Zenon, <4>1, <2>1, Frames DEF CpuPc
    <3>3. Runs(d, cpu[d], On(d), stack[On(d)], frame'[On(d)], upc'[On(d)])
      BY Zenon, <2>1, <3>1, <3>2 DEF CpuOK, Runs
    <3>4. QED
      BY Zenon, <2>2, <2>5, <3>3 DEF CpuOK
  <2>8. QED
    BY Zenon, <2>6, <2>7
<1>7. CpuOK(c)'
  <2>1. r.proc # None => On(c) # c /\ c \in Thread
    BY Zenon, <1>1, OnIs
  <2>2. CpuOK(c)
    BY Zenon DEF TrapInv
  <2>3. r.proc # None => stack'[c] = stack[c]
    BY Zenon, <1>4, <2>1
  <2>4. Gone(c)'
    BY Zenon, <1>2, <2>2, <2>3 DEF CpuOK, Gone
  <2>5. QED
    BY Zenon, <1>2, <1>3, <1>4, <2>4 DEF CpuOK
<1>8. ASSUME NEW p \in Proc PROVE Waiting(p)' /\ (frame[p].epc = <<p, upc[p]>>)'
  <2>1. Waiting(p) /\ frame[p].epc = <<p, upc[p]>> /\ CpuOK(c)
    BY Zenon DEF TrapInv
  <2>2. state[p] = "RUNNABLE" => cpu[c].proc # p /\ p \in Thread /\ p # On(c)
    <3>1. cpu[c].proc # None => state[cpu[c].proc] = "RUNNING"
      BY Zenon, <2>1 DEF CpuOK, Gone
    <3>2. p # None /\ p # c
      BY Zenon
    <3>3. QED
      BY Zenon, <1>1, <3>1, <3>2, OnIs DEF Thread
  <2>3. Waiting(p)'
    BY Zenon, <1>4, <2>1, <2>2 DEF Waiting
  <2>4. QED
    BY Zenon, <2>1, <2>3
<1>9. Alone'
  <2> SUFFICES ASSUME NEW d \in Cpu, NEW e \in Cpu, d # e, cpu'[d].proc = cpu'[e].proc
               PROVE  cpu'[d].proc = None
    BY Zenon DEF Alone
  <2>1. QED
    BY Zenon, <1>1, <1>3 DEF Alone
<1>10. QED
  BY Zenon, <1>5, <1>6, <1>7, <1>8, <1>9 DEF TrapInv

\* A CPU in the kernel is at a place of its thread, and its registers fit that place.
LEMMA AtIs ==
  ASSUME TrapInv, NEW c \in Cpu, ~cpu[c].user
  PROVE  /\ On(c) \in Thread /\ stack[On(c)] \in Seq(FrameType) /\ stack[On(c)] # <<>>
         /\ StackOK(On(c), stack[On(c)]) /\ Top(stack[On(c)]) \in FrameType
         /\ Top(stack[On(c)]) = stack[On(c)][Len(stack[On(c)])]
         /\ KernelOK(c, cpu[c], Top(stack[On(c)]), Len(stack[On(c)]))
         /\ Pc(On(c)) = "userret" => ReturnOK(c, cpu[c], On(c), frame[On(c)], upc[On(c)])
         /\ Pc(On(c)) \in ProcPc => cpu[c].proc # None /\ On(c) = cpu[c].proc /\ On(c) \in Proc
         /\ Pc(On(c)) \in CpuPc => cpu[c].proc = None /\ On(c) = c /\ On(c) \notin Proc
         /\ cpu[c] \in CpuType
         /\ Len(stack[On(c)]) = 1 \/ Len(stack[On(c)]) = 2
         /\ Len(stack[On(c)]) = 1 /\ Pc(On(c)) \in Calling =>
              Top(stack[On(c)]).then \in {"syscall", "usertrapret"}
         /\ Len(stack[On(c)]) = 2 => Pc(On(c)) \in TrapPc /\ Top(stack[On(c)]).then = "restore"
<1>1. Types /\ Alone /\ CpuOK(c)
  BY Zenon DEF TrapInv
<1>2. On(c) \in Thread /\ cpu[c] \in CpuType
  BY Zenon, <1>1, OnIs
<1>3. stack[On(c)] \in Seq(FrameType) /\ StackOK(On(c), stack[On(c)])
  BY Zenon, <1>1, <1>2 DEF Types, TrapInv
<1>4. stack[On(c)] # <<>> /\ Top(stack[On(c)]) = stack[On(c)][Len(stack[On(c)])]
  BY Zenon, <1>1 DEF CpuOK, Runs, Top
<1>5. /\ KernelOK(c, cpu[c], Top(stack[On(c)]), Len(stack[On(c)]))
      /\ Pc(On(c)) = "userret" => ReturnOK(c, cpu[c], On(c), frame[On(c)], upc[On(c)])
  BY Zenon, <1>1, <1>4 DEF CpuOK, Runs, Pc
<1>6. Top(stack[On(c)]) \in FrameType
  BY Zenon, <1>2, <1>3, <1>4, Frames
<1>7. Pc(On(c)) \in ProcPc => On(c) \notin Cpu
  BY Zenon, <1>2, <1>3, <1>4, Frames DEF Pc, ProcPc, CpuPc
<1>8. Pc(On(c)) \in CpuPc => On(c) \notin Proc
  BY Zenon, <1>2, <1>3, <1>4, Frames DEF Pc, ProcPc, CpuPc, TrapPc
<1>9. Len(stack[On(c)]) = 1 \/ Len(stack[On(c)]) = 2
  BY Zenon, <1>2, <1>3, <1>4, Frames
<1>10. CASE Len(stack[On(c)]) = 1
  <2>1. Len(stack[On(c)]) > 0 /\ Len(stack[On(c)]) # 2
    BY <1>10
  <2>2. Pc(On(c)) \in Calling => Top(stack[On(c)]).then \in {"syscall", "usertrapret"}
    BY Zenon, <1>3, <1>4, <1>10, <2>1 DEF StackOK, Pc
  <2>3. QED
    BY Zenon, <1>1, <1>2, <1>3, <1>4, <1>5, <1>6, <1>7, <1>8, <1>10, <2>1, <2>2, OnIs DEF Thread
<1>11. CASE Len(stack[On(c)]) = 2
  <2>1. Pc(On(c)) \in TrapPc /\ Top(stack[On(c)]).then = "restore" /\ Len(stack[On(c)]) # 1
    BY Zenon, <1>3, <1>4, <1>11, OneOrTwo DEF StackOK, Pc
  <2>2. QED
    BY Zenon, <1>1, <1>2, <1>3, <1>4, <1>5, <1>6, <1>7, <1>8, <1>11, <2>1, OnIs DEF Thread
<1>12. QED
  BY Zenon, <1>9, <1>10, <1>11

\* Where thread t may go on, other than to sched and to user space.
Places == {"syscall", "locked", "yield", "usertrapret", "restore", "loop", "scan", "swtch"}
MayGo(t, q) ==
  /\ Len(stack[t]) = 1 =>
       /\ q \in (IF t \in Proc THEN ProcPc ELSE CpuPc)
       /\ q \in Calling => Top(stack[t]).then \in {"syscall", "usertrapret"}
  /\ Len(stack[t]) = 2 => q = "restore"

\* A step from one place of a thread to another.
LEMMA Goes ==
  ASSUME TrapInv, NEW c \in Cpu, ~cpu[c].user, NEW r \in CpuType,
         NEW q \in Places, cpu' = [cpu EXCEPT ![c] = r], r.proc = cpu[c].proc, ~r.user,
         stack' = Goto(On(c), q), UNCHANGED <<upc, frame, state>>, fault' = "",
         MayGo(On(c), q),
         KernelOK(c, r, [Top(stack[On(c)]) EXCEPT !.pc = q], Len(stack[On(c)]))
  PROVE  TrapInv'
<1> DEFINE t == On(c)
<1> DEFINE f == [Top(stack[t]) EXCEPT !.pc = q]
<1> DEFINE s == PutTop(stack[t], f)
<1>1. Types /\ q \in ProcPc \cup CpuPc \cup TrapPc
  BY Zenon DEF TrapInv, ProcPc, CpuPc, TrapPc, Places
<1>2. /\ t \in Thread /\ stack[t] \in Seq(FrameType) /\ stack[t] # <<>> /\ StackOK(t, stack[t])
      /\ Top(stack[t]) = stack[t][Len(stack[t])] /\ Top(stack[t]) \in FrameType
  BY Zenon, AtIs
<1>3. f \in FrameType /\ stack' = [stack EXCEPT ![t] = s]
  BY Zenon, <1>1, <1>2, GotoIs
<1>4. f.pc = q /\ f.then = Top(stack[t]).then /\ f.sepc = Top(stack[t]).sepc
      /\ f.sstatus = Top(stack[t]).sstatus
  BY Zenon, <1>2 DEF FrameType
<1> HIDE DEF f
<1>5. s \in Seq(FrameType) /\ s # <<>> /\ s[Len(s)] = f /\ Len(s) = Len(stack[t])
  <2>1. s \in Seq(FrameType) /\ s # <<>> /\ s[Len(stack[t])] = f /\ Len(s) = Len(stack[t])
    BY Zenon, <1>2, <1>3, PutTopIs
  <2> HIDE DEF s
  <2>2. QED
    BY Zenon, <2>1
<1>6. StackOK(t, s)
  <2>1. CASE Len(stack[t]) = 1
    <3>1. f.pc \notin {"sched"} /\ Len(stack[t]) # 2
      BY Zenon, <2>1, <1>4, OneOrTwo DEF Places
    <3>2. QED
      BY Zenon, <1>2, <1>3, <1>4, <2>1, <3>1, PutOK DEF MayGo
  <2>2. CASE Len(stack[t]) = 2
    <3>1. f.pc = "restore" /\ Len(stack[t]) # 1
      BY Zenon, <2>2, <1>4, OneOrTwo DEF MayGo
    <3>2. f.then = stack[t][2].then /\ f.sepc = stack[t][2].sepc /\ f.sstatus = stack[t][2].sstatus
      BY Zenon, <1>2, <1>4, <2>2
    <3>3. QED
      BY Zenon, <1>2, <1>3, <2>2, <3>1, <3>2, PutOK DEF TrapPc
  <2>3. QED
    BY Zenon, <1>2, <2>1, <2>2, Frames
<1> HIDE DEF s
<1>7. Types'
  <2>1. cpu' \in [Cpu -> CpuType]
    BY Zenon, <1>1 DEF Types
  <2>2. stack' \in [Thread -> Seq(FrameType)]
    BY Zenon, <1>1, <1>2, <1>3, <1>5 DEF Types
  <2>3. QED
    BY Zenon, <1>1, <2>1, <2>2 DEF Types
<1>8. cpu[c].proc # None => frame'[cpu[c].proc].epc = <<cpu[c].proc, upc'[cpu[c].proc]>>
  BY Zenon, <1>1, OnIs DEF TrapInv
<1>9. Runs(c, r, t, s, frame'[t], upc'[t])
  <2>1. KernelOK(c, r, f, Len(s)) /\ f.pc # "userret"
    BY Zenon, <1>4, <1>5 DEF f, Places
  <2>2. QED
    BY Zenon, <1>5, <2>1 DEF Runs
<1>10. QED
  BY Zenon, <1>3, <1>5, <1>6, <1>7, <1>8, <1>9, Local

\* Checks that do not fail.
LEMMA NoFault ==
  ASSUME NEW a, NEW m, a = FALSE, Faults(<< <<a, m>> >>)
  PROVE  fault' = ""
<1> DEFINE k == <<a, m>>
<1>1. ~k[1]
  BY Zenon
<1> HIDE DEF k
<1>2. DOMAIN <<k>> = {1} /\ <<k>>[1] = k
  BY SMT
<1>3. \A i \in DOMAIN <<k>> : ~<<k>>[i][1]
  BY Zenon, <1>1, <1>2
<1>4. QED
  BY Zenon, <1>3 DEF Faults, k

\* The two checks of sched.
LEMMA NoFault2 ==
  ASSUME NEW a, NEW b, NEW m, NEW n, a = FALSE, b = FALSE, Faults(<< <<a, m>>, <<b, n>> >>)
  PROVE  fault' = ""
<1> DEFINE j == <<a, m>>
<1> DEFINE k == <<b, n>>
<1>1. ~j[1] /\ ~k[1]
  BY Zenon
<1> HIDE DEF j, k
<1>2. DOMAIN <<j, k>> = {1, 2} /\ <<j, k>>[1] = j /\ <<j, k>>[2] = k
  BY SMT
<1>3. \A i \in DOMAIN <<j, k>> : ~<<j, k>>[i][1]
  BY Zenon, <1>1, <1>2
<1>4. QED
  BY Zenon, <1>3 DEF Faults, j, k

\* The three checks of kerneltrap.
LEMMA NoFault3 ==
  ASSUME NEW a, NEW b, NEW d, NEW m, NEW n, NEW o, a = FALSE, b = FALSE, d = FALSE,
         Faults(<< <<a, m>>, <<b, n>>, <<d, o>> >>)
  PROVE  fault' = ""
<1> DEFINE j == <<a, m>>
<1> DEFINE k == <<b, n>>
<1> DEFINE l == <<d, o>>
<1>1. ~j[1] /\ ~k[1] /\ ~l[1]
  BY Zenon
<1> HIDE DEF j, k, l
<1>2. /\ DOMAIN <<j, k, l>> = {1, 2, 3}
      /\ <<j, k, l>>[1] = j /\ <<j, k, l>>[2] = k /\ <<j, k, l>>[3] = l
  BY SMT
<1>3. \A i \in DOMAIN <<j, k, l>> : ~<<j, k, l>>[i][1]
  BY Zenon, <1>1, <1>2
<1>4. QED
  BY Zenon, <1>3 DEF Faults, j, k, l

\* push_off and pop_off.
LEMMA Counts ==
  ASSUME NEW r \in CpuType
  PROVE  /\ r.noff = 0 => push_off(r) \in CpuType
         /\ r.noff = 1 => pop_off(r) \in CpuType
         /\ push_off(r).proc = r.proc /\ push_off(r).user = r.user /\ push_off(r).tp = r.tp
         /\ push_off(r).stvec = r.stvec /\ push_off(r).sie = FALSE
         /\ r.noff = 0 => push_off(r).noff = 1 /\ push_off(r).intena = r.sie
         /\ pop_off(r).proc = r.proc /\ pop_off(r).user = r.user /\ pop_off(r).tp = r.tp
         /\ pop_off(r).stvec = r.stvec
         /\ r.noff = 1 => pop_off(r).noff = 0 /\ pop_off(r).sie = r.intena
<1>1. /\ r.sie \in BOOLEAN /\ r.spp \in BOOLEAN /\ r.spie \in BOOLEAN /\ r.sepc \in Sepc
      /\ r.stvec \in {"kernelvec", "uservec"} /\ r.tp \in Cpu \cup {None} /\ r.user \in BOOLEAN
      /\ r.proc \in Proc \cup {None} /\ r.noff \in 0..1 /\ r.intena \in BOOLEAN
  BY Zenon DEF CpuType
<1>2. DOMAIN r = {"sie", "spp", "spie", "sepc", "stvec", "tp", "user", "proc", "noff", "intena"}
  BY Zenon DEF CpuType
<1>3. /\ push_off(r).proc = r.proc /\ push_off(r).user = r.user /\ push_off(r).tp = r.tp
      /\ push_off(r).stvec = r.stvec /\ push_off(r).sie = FALSE
      /\ pop_off(r).proc = r.proc /\ pop_off(r).user = r.user /\ pop_off(r).tp = r.tp
      /\ pop_off(r).stvec = r.stvec
      /\ r.noff = 0 => push_off(r).intena = r.sie
      /\ push_off(r).noff = r.noff + 1 /\ pop_off(r).noff = r.noff - 1
  BY Zenon, <1>2 DEF push_off, pop_off
<1>4. pop_off(r).sie = (r.noff = 1 /\ r.intena)
  BY Zenon, <1>2 DEF push_off, pop_off
<1>5. r.noff = 1 => pop_off(r).sie = r.intena
  BY Zenon, <1>1, <1>4
<1>6. (r.noff = 0 => push_off(r).noff = 1) /\ (r.noff = 1 => pop_off(r).noff = 0)
  BY <1>3
<1>7. \A x, i \in BOOLEAN : \A n \in 0..1 :
        /\ [r EXCEPT !.sie = x, !.intena = i, !.noff = n] \in CpuType
        /\ [r EXCEPT !.noff = n, !.sie = x] \in CpuType
  BY ZenonT(30) DEF CpuType
<1>8. r.noff = 0 => push_off(r) \in CpuType
  <2>1. HAVE r.noff = 0
  <2>2. r.noff + 1 \in 0..1 /\ (IF r.noff = 0 THEN r.sie ELSE r.intena) \in BOOLEAN
    BY <1>1, <2>1
  <2>3. QED
    BY Zenon, <1>7, <2>2 DEF push_off
<1>9. r.noff = 1 => pop_off(r) \in CpuType
  <2>1. HAVE r.noff = 1
  <2>2. r.noff - 1 \in 0..1 /\ (r.noff = 1 /\ r.intena) \in BOOLEAN
    BY <1>1, <2>1
  <2>3. QED
    BY Zenon, <1>7, <2>2 DEF pop_off
<1>10. QED
  BY Zenon, <1>3, <1>5, <1>6, <1>8, <1>9

\* pop_off does not panic.
LEMMA PopsWell ==
  ASSUME NEW r, ~r.sie, r.noff = 1, Faults(<<pop_offBad(r)>>)
  PROVE  fault' = ""
<1>1. (r.sie \/ r.noff < 1) = FALSE
  BY SMT
<1>2. QED
  BY Zenon, <1>1, NoFault DEF pop_offBad

\* A lock is taken in a system call, which sleeps or returns.
LEMMA SyscallStep ==
  ASSUME TrapInv, NEW c \in Cpu, syscall(c)
  PROVE  TrapInv'
<1> DEFINE t == On(c)
<1> DEFINE f == Top(stack[t])
<1>1. /\ f.pc = "syscall" /\ ~cpu[c].user /\ t = cpu[c].proc /\ t \in Proc /\ cpu[c] \in CpuType
      /\ f \in FrameType /\ KernelOK(c, cpu[c], f, Len(stack[t])) /\ Len(stack[t]) # 2
      /\ f.then \in {"syscall", "usertrapret"}
  BY Zenon, AtIs DEF syscall, At, Pc, ProcPc, TrapPc, Calling
<1>2. cpu[c].noff = 0 /\ cpu[c].sie /\ cpu[c].tp = c /\ cpu[c].stvec = "kernelvec"
  BY Zenon, <1>1 DEF KernelOK, Locked
<1>3. \A q \in {"locked", "yield", "usertrapret"} :
        [f EXCEPT !.pc = q].pc = q /\ [f EXCEPT !.pc = q].then = f.then
  BY Zenon, <1>1 DEF FrameType
<1>4. UNCHANGED <<upc, frame, state>> /\ fault' = ""
  BY Zenon DEF syscall
<1> HIDE DEF f
<1>5. CASE Is(push_off(cpu[c]), c) /\ stack' = Goto(t, "locked")
  <2> DEFINE r == push_off(cpu[c])
  <2>1. r \in CpuType /\ r.proc = cpu[c].proc /\ ~r.user /\ cpu' = [cpu EXCEPT ![c] = r]
    BY Zenon, <1>1, <1>2, <1>5, Counts DEF Is
  <2>2. r.tp = c /\ r.stvec = "kernelvec" /\ ~r.sie /\ r.noff = 1 /\ r.intena
    BY Zenon, <1>1, <1>2, Counts
  <2> HIDE DEF r
  <2>3. KernelOK(c, r, [f EXCEPT !.pc = "locked"], Len(stack[t]))
    BY Zenon, <1>3, <2>2 DEF KernelOK, Locked
  <2>4. QED
    BY Zenon, <1>1, <1>4, <1>5, <2>1, <2>3, Goes DEF ProcPc, MayGo, Places, f
<1>6. ASSUME NEW q \in {"yield", "usertrapret"}, stack' = Goto(t, q), cpu' = cpu
      PROVE  TrapInv'
  <2>1. KernelOK(c, cpu[c], [f EXCEPT !.pc = q], Len(stack[t]))
    BY Zenon, <1>1, <1>2, <1>3 DEF KernelOK, Locked
  <2>2. cpu' = [cpu EXCEPT ![c] = cpu[c]]
    BY Zenon, <1>6 DEF TrapInv, Types
  <2>3. QED
    BY Zenon, <1>1, <1>4, <1>6, <2>1, <2>2, Goes DEF ProcPc, MayGo, Places, f
<1>7. QED
  BY Zenon, <1>1, <1>5, <1>6 DEF syscall

\* A lock is released: interrupts are on again if they were when it was taken.
LEMMA PopStep ==
  ASSUME TrapInv, NEW c \in Cpu, ~cpu[c].user, NEW i \in BOOLEAN,
         NEW q \in {"syscall", "usertrapret", "restore", "scan"},
         Pc(On(c)) \in Locked,
         cpu' = [cpu EXCEPT ![c] = pop_off([cpu[c] EXCEPT !.intena = i])],
         stack' = Goto(On(c), q), Faults(<<pop_offBad([cpu[c] EXCEPT !.intena = i])>>),
         UNCHANGED <<upc, frame, state>>,
         MayGo(On(c), q),
         q = "syscall" => i, q = "restore" => ~i
  PROVE  TrapInv'
<1> DEFINE t == On(c)
<1> DEFINE f == Top(stack[t])
<1> DEFINE g == [f EXCEPT !.pc = q]
<1> DEFINE r == [cpu[c] EXCEPT !.intena = i]
<1> DEFINE e == pop_off(r)
<1>1. cpu[c] \in CpuType /\ f \in FrameType /\ KernelOK(c, cpu[c], f, Len(stack[t]))
      /\ f.pc \in Locked
  BY Zenon, AtIs DEF Pc
<1>2. cpu[c].noff = 1 /\ ~cpu[c].sie /\ cpu[c].tp = c /\ cpu[c].stvec = "kernelvec"
  BY Zenon, <1>1 DEF KernelOK, Locked
<1>3. r \in CpuType /\ r.intena = i /\ r.noff = 1 /\ ~r.sie /\ r.tp = c /\ r.stvec = "kernelvec"
      /\ r.proc = cpu[c].proc /\ ~r.user
  BY Zenon, <1>1, <1>2 DEF CpuType
<1>4. g.pc = q
  BY Zenon, <1>1 DEF FrameType
<1> HIDE DEF r
<1>5. fault' = ""
  BY Zenon, <1>3, PopsWell DEF r
<1>6. e \in CpuType /\ e.proc = cpu[c].proc /\ ~e.user /\ e.tp = c /\ e.stvec = "kernelvec"
      /\ e.noff = 0 /\ e.sie = i
  BY Zenon, <1>3, Counts
<1>7. cpu' = [cpu EXCEPT ![c] = e]
  BY Zenon DEF r
<1> HIDE DEF e, g
<1>8. KernelOK(c, e, g, Len(stack[t]))
  <2>1. Len(stack[t]) = 2 => q = "restore"
    BY Zenon DEF MayGo
  <2>2. QED
    BY Zenon, <1>4, <1>6, <2>1 DEF KernelOK, Locked
<1>9. q \in Places
  BY Zenon DEF Places
<1>10. QED
  BY Zenon, <1>5, <1>6, <1>7, <1>8, <1>9, Goes DEF g

\* A lock is released, by a system call or after a switch: by forkret, the scheduler or sched.
LEMMA ReleaseStep ==
  ASSUME TrapInv, NEW c \in Cpu, release(c) \/ forkret(c) \/ switched(c) \/ sched(c)
  PROVE  TrapInv'
<1> DEFINE t == On(c)
<1> DEFINE f == Top(stack[t])
<1>1. /\ ~cpu[c].user /\ cpu[c] \in CpuType /\ f \in FrameType /\ stack[t] \in Seq(FrameType)
      /\ KernelOK(c, cpu[c], f, Len(stack[t])) /\ StackOK(t, stack[t]) /\ t \in Thread
      /\ (Len(stack[t]) = 1 \/ Len(stack[t]) = 2) /\ f = stack[t][Len(stack[t])]
      /\ Len(stack[t]) = 1 /\ f.pc \in Calling => f.then \in {"syscall", "usertrapret"}
      /\ Len(stack[t]) = 2 => f.pc \in TrapPc /\ f.then = "restore"
      /\ f.pc \in ProcPc => t \in Proc
      /\ f.pc \in CpuPc => t \notin Proc
      /\ UNCHANGED <<upc, frame, state>>
  BY Zenon, AtIs DEF release, forkret, switched, sched, sched_in, At, Pc
<1>2. cpu[c].intena \in BOOLEAN /\ f.intena \in BOOLEAN /\ cpu[c] = [cpu[c] EXCEPT !.intena = cpu[c].intena]
  BY Zenon, <1>1 DEF CpuType, FrameType
<1> HIDE DEF f
<1>3. CASE release(c)
  <2>1. f.pc = "locked" /\ Len(stack[t]) # 2 /\ cpu[c].intena
    BY Zenon, <1>1, <1>3 DEF release, At, Pc, TrapPc, KernelOK, f
  <2>2. QED
    BY Zenon, <1>1, <1>2, <1>3, <2>1, PopStep DEF release, Is, Pc, Locked, Calling, ProcPc, MayGo, f
<1>4. CASE forkret(c)
  <2>1. f.pc = "forkret" /\ Len(stack[t]) # 2
    BY Zenon, <1>1, <1>4 DEF forkret, At, Pc, TrapPc, f
  <2>2. QED
    BY Zenon, <1>1, <1>2, <1>4, <2>1, PopStep DEF forkret, Is, Pc, Locked, Calling, ProcPc, MayGo, f
<1>5. CASE switched(c)
  <2>1. f.pc = "swtch" /\ Len(stack[t]) # 2 /\ t = c
    BY Zenon, <1>1, <1>5, AtIs DEF switched, At, Pc, TrapPc, CpuPc, f
  <2>2. QED
    BY Zenon, <1>1, <1>2, <1>5, <2>1, PopStep DEF switched, Is, Pc, Locked, Calling, CpuPc, MayGo, f
<1>6. CASE sched(c)
  <2>1. f.pc = "sched" /\ t \in Proc
    BY Zenon, <1>1, <1>6 DEF sched, sched_in, At, Pc, ProcPc, f
  <2>2. /\ f.then \in {"syscall", "usertrapret", "restore"}
        /\ Len(stack[t]) = 1 => f.then \in {"syscall", "usertrapret"}
        /\ Len(stack[t]) = 2 => f.then = "restore"
    BY Zenon, <1>1, <2>1 DEF Calling
  <2>3. (f.then = "syscall" => f.intena) /\ (f.then = "restore" => ~f.intena)
    <3>1. CASE Len(stack[t]) = 1
      <4>1. Len(stack[t]) > 0
        BY <3>1
      <4>2. QED
        BY Zenon, <1>1, <2>1, <2>2, <3>1, <4>1 DEF StackOK
    <3>2. CASE Len(stack[t]) = 2
      BY Zenon, <1>1, <2>1, <2>2, <3>2 DEF StackOK
    <3>3. QED
      BY Zenon, <1>1, <3>1, <3>2
  <2>4. QED
    BY Zenon, <1>1, <1>2, <1>6, <2>1, <2>2, <2>3, PopStep
    DEF sched, sched_in, Is, Pc, Locked, ProcPc, MayGo, f
<1>7. QED
  BY Zenon, <1>3, <1>4, <1>5, <1>6

\* The loop of the scheduler, when it runs nobody.
LEMMA LoopStep ==
  ASSUME TrapInv, NEW c \in Cpu, NEW r \in CpuType, NEW q \in {"loop", "scan"},
         At(c, "loop") \/ At(c, "scan"), r = cpu[c] \/ r = [cpu[c] EXCEPT !.sie = TRUE],
         cpu' = [cpu EXCEPT ![c] = r], stack' = Goto(c, q), UNCHANGED <<upc, frame, state, fault>>
  PROVE  TrapInv'
<1> DEFINE f == Top(stack[c])
<1>1. /\ ~cpu[c].user /\ On(c) = c /\ f.pc \in {"loop", "scan"} /\ cpu[c] \in CpuType /\ f \in FrameType
      /\ KernelOK(c, cpu[c], f, Len(stack[c])) /\ Len(stack[c]) # 2 /\ c \notin Proc
  BY Zenon, AtIs DEF At, Pc, CpuPc, TrapPc
<1>2. cpu[c].noff = 0 /\ cpu[c].tp = c /\ cpu[c].stvec = "kernelvec"
  BY Zenon, <1>1 DEF KernelOK, Locked
<1>3. r.noff = 0 /\ r.tp = c /\ r.stvec = "kernelvec" /\ r.proc = cpu[c].proc /\ ~r.user
  BY ZenonT(30), <1>1, <1>2 DEF CpuType
<1>4. [f EXCEPT !.pc = q].pc = q
  BY Zenon, <1>1 DEF FrameType
<1>5. KernelOK(c, r, [f EXCEPT !.pc = q], Len(stack[c]))
  BY Zenon, <1>1, <1>3, <1>4 DEF KernelOK, Locked
<1>6. q \in Places /\ MayGo(c, q) /\ fault' = ""
  BY Zenon, <1>1 DEF Places, MayGo, CpuPc, Calling, TrapInv
<1>7. /\ stack' = Goto(On(c), q) /\ MayGo(On(c), q)
      /\ KernelOK(c, r, [Top(stack[On(c)]) EXCEPT !.pc = q], Len(stack[On(c)]))
  BY Zenon, <1>1, <1>5, <1>6
<1>8. QED
  BY Zenon, <1>1, <1>3, <1>6, <1>7, Goes

\* The types, when one CPU and the stack of one thread change.
LEMMA TypesKept ==
  ASSUME Types, NEW c \in Cpu, NEW r \in CpuType, NEW t \in Thread, NEW s \in Seq(FrameType),
         cpu' = [cpu EXCEPT ![c] = r], stack' = [stack EXCEPT ![t] = s]
  PROVE  cpu' \in [Cpu -> CpuType] /\ stack' \in [Thread -> Seq(FrameType)]
BY Zenon DEF Types

\* The registers are set up for the return to user space, with interrupts off.
LEMMA UsertrapretStep ==
  ASSUME TrapInv, NEW c \in Cpu, usertrapret(c)
  PROVE  TrapInv'
<1> DEFINE t == On(c)
<1> DEFINE f == Top(stack[t])
<1> DEFINE g == [f EXCEPT !.pc = "userret"]
<1> DEFINE s == PutTop(stack[t], g)
<1> DEFINE r == [cpu[c] EXCEPT !.sie = FALSE, !.stvec = "uservec", !.spp = FALSE, !.spie = TRUE,
                               !.sepc = frame[t].epc]
<1>1. /\ ~cpu[c].user /\ f.pc = "usertrapret" /\ t = cpu[c].proc /\ t \in Proc /\ cpu[c] \in CpuType
      /\ f \in FrameType /\ KernelOK(c, cpu[c], f, Len(stack[t])) /\ Len(stack[t]) # 2
      /\ t \in Thread /\ stack[t] \in Seq(FrameType) /\ stack[t] # <<>> /\ StackOK(t, stack[t])
      /\ f = stack[t][Len(stack[t])] /\ Types
  BY Zenon, AtIs DEF usertrapret, usertrapret_in, At, Pc, ProcPc, TrapPc, TrapInv
<1>2. cpu[c].noff = 0 /\ cpu[c].tp = c
  BY Zenon, <1>1 DEF KernelOK, Locked
<1>3. frame[t].epc = <<t, upc[t]>> /\ frame[t].epc \in Sepc
  <2>1. frame[t].epc = <<t, upc[t]>> /\ upc[t] \in UserPc
    BY Zenon, <1>1 DEF TrapInv, Types
  <2>2. QED
    <3>1. frame[t].epc \in Epc
      BY Zenon, <1>1 DEF Types
    <3>2. QED
      BY Zenon, <2>1, <3>1 DEF Sepc
<1>4. r \in CpuType /\ r.noff = 0 /\ r.tp = c /\ r.stvec = "uservec" /\ ~r.sie /\ ~r.spp
      /\ r.sepc = <<t, upc[t]>> /\ r.proc = cpu[c].proc /\ ~r.user
  BY Zenon, <1>1, <1>2, <1>3 DEF CpuType
<1>5. g \in FrameType /\ g.pc = "userret" /\ stack' = [stack EXCEPT ![t] = s]
  <2>1. "userret" \in ProcPc \cup CpuPc \cup TrapPc
    BY Zenon DEF ProcPc
  <2>2. g \in FrameType /\ g.pc = "userret"
    BY Zenon, <1>1, <2>1 DEF FrameType
  <2>3. QED
    BY Zenon, <1>1, <2>1, <2>2, GotoIs DEF usertrapret, usertrapret_in
<1> HIDE DEF g
<1>6. s \in Seq(FrameType) /\ s # <<>> /\ s[Len(stack[t])] = g /\ Len(s) = Len(stack[t])
  BY Zenon, <1>1, <1>5, PutTopIs
<1>7. StackOK(t, s)
  BY Zenon, <1>1, <1>5, PutOK DEF ProcPc, Calling
<1> HIDE DEF s
<1>8. cpu' = [cpu EXCEPT ![c] = r]
  BY Zenon, <1>1 DEF usertrapret, usertrapret_in, Is
<1>9. /\ frame' = [frame EXCEPT ![t].kernel_hartid = c] /\ UNCHANGED <<upc, state>> /\ fault' = ""
  BY Zenon, <1>1, <1>2 DEF usertrapret, usertrapret_in, TrapInv
<1>10. /\ frame' \in [Proc -> [epc : Epc, kernel_hartid : Cpu \cup {None}]]
       /\ frame'[t].epc = frame[t].epc /\ frame'[t].kernel_hartid = c
       /\ \A p \in Proc : p # t => frame'[p] = frame[p]
  BY <1>1, <1>9 DEF Types
<1> HIDE DEF r
<1>11. Types'
  BY Zenon, <1>1, <1>4, <1>5, <1>6, <1>8, <1>9, <1>10, TypesKept DEF Types
<1>12. KernelOK(c, r, s[Len(s)], Len(s)) /\ ReturnOK(c, r, t, frame'[t], upc'[t])
  BY Zenon, <1>1, <1>4, <1>5, <1>6, <1>9, <1>10 DEF KernelOK, Locked, ReturnOK
<1>13. Runs(c, r, t, s, frame'[t], upc'[t])
  BY Zenon, <1>4, <1>6, <1>12 DEF Runs
<1>14. /\ \A p \in Proc : p # cpu[c].proc => frame'[p] = frame[p] /\ upc'[p] = upc[p]
       /\ cpu[c].proc # None => frame'[cpu[c].proc].epc = <<cpu[c].proc, upc'[cpu[c].proc]>>
  BY Zenon, <1>1, <1>3, <1>9, <1>10
<1>15. QED
  BY Zenon, <1>4, <1>5, <1>6, <1>7, <1>8, <1>9, <1>11, <1>13, <1>14, Local

\* sret to user space: to where the process trapped from.
LEMMA UserretStep ==
  ASSUME TrapInv, NEW c \in Cpu, userret(c)
  PROVE  TrapInv'
<1> DEFINE t == On(c)
<1>1. /\ ~cpu[c].user /\ Pc(t) = "userret" /\ t = cpu[c].proc /\ t \in Proc /\ cpu[c] \in CpuType
      /\ KernelOK(c, cpu[c], Top(stack[t]), Len(stack[t])) /\ t \in Thread /\ Types
      /\ ReturnOK(c, cpu[c], t, frame[t], upc[t]) /\ cpu[c].proc # None
  BY Zenon, AtIs DEF userret, At, ProcPc, TrapInv
<1>2. /\ cpu[c].noff = 0 /\ cpu[c].stvec = "uservec" /\ ~cpu[c].spp /\ cpu[c].sepc = <<t, upc[t]>>
      /\ frame[t].kernel_hartid = c
  BY Zenon, <1>1 DEF KernelOK, Locked, ReturnOK, Pc
<1>3. PICK tp \in Cpu \cup {None} : Is([Returned(cpu[c]) EXCEPT !.tp = tp], c)
  BY Zenon DEF userret
<1> DEFINE r == [Returned(cpu[c]) EXCEPT !.tp = tp]
<1>4. r \in CpuType /\ r.user /\ r.noff = 0 /\ r.stvec = "uservec" /\ r.proc = cpu[c].proc
  BY ZenonT(30), <1>1, <1>2 DEF CpuType, Returned
<1> HIDE DEF r
<1>5. stack' = [stack EXCEPT ![t] = <<>>] /\ cpu' = [cpu EXCEPT ![c] = r] /\ UNCHANGED <<upc, frame, state>>
  BY Zenon, <1>1, <1>3 DEF userret, Is, r
<1>6. fault' = ""
  <2> DEFINE lost == cpu[c].sepc # <<t, upc[t]>> \/ cpu[c].spp
  <2>1. lost = FALSE
    BY Zenon, <1>2
  <2>2. Faults(<< <<lost, "lost">> >>)
    BY Zenon, <1>1 DEF userret
  <2> HIDE DEF lost
  <2>3. QED
    BY Zenon, <2>1, <2>2, NoFault
<1>7. <<>> \in Seq(FrameType) /\ StackOK(t, <<>>)
  <2>1. <<>> \in Seq(FrameType) /\ Len(<<>>) = 0
    BY Zenon, EmptySeq
  <2>2. Len(<<>>) <= 2 /\ ~(Len(<<>>) > 0) /\ Len(<<>>) # 2
    BY <2>1
  <2>3. QED
    BY Zenon, <2>1, <2>2 DEF StackOK
<1>8. Types'
  BY Zenon, <1>1, <1>4, <1>5, <1>7, TypesKept DEF Types
<1>9. Runs(c, r, t, <<>>, frame'[t], upc'[t])
  BY Zenon, <1>1, <1>2, <1>4, <1>5 DEF Runs, UserOK
<1>10. frame'[t].epc = <<t, upc'[t]>>
  BY Zenon, <1>1, <1>5 DEF TrapInv
<1>11. QED
  BY Zenon, <1>1, <1>4, <1>5, <1>6, <1>7, <1>8, <1>9, <1>10, Local

\* A stack of one frame.
LEMMA OneFrame ==
  ASSUME NEW f \in FrameType
  PROVE  <<f>> \in Seq(FrameType) /\ Len(<<f>>) = 1 /\ <<f>>[1] = f /\ <<f>> # <<>>
BY SMT

\* What the hardware does when it takes a trap.
LEMMA TrappedIs ==
  ASSUME NEW r \in CpuType, NEW at \in Sepc
  PROVE  /\ Trapped(r, at) \in CpuType /\ Trapped(r, at).sepc = at
         /\ ~Trapped(r, at).sie /\ ~Trapped(r, at).user
         /\ (Trapped(r, at).spp <=> ~r.user) /\ Trapped(r, at).spie = r.sie
         /\ Trapped(r, at).stvec = r.stvec /\ Trapped(r, at).tp = r.tp
         /\ Trapped(r, at).proc = r.proc /\ Trapped(r, at).noff = r.noff
<1>1. r.sie \in BOOLEAN /\ (~r.user) \in BOOLEAN
  BY Zenon DEF CpuType
<1>2. \A x, y \in BOOLEAN :
        [r EXCEPT !.spp = x, !.spie = y, !.sie = FALSE, !.sepc = at, !.user = FALSE] \in CpuType
  BY ZenonT(30) DEF CpuType
<1>3. DOMAIN r = {"sie", "spp", "spie", "sepc", "stvec", "tp", "user", "proc", "noff", "intena"}
  BY Zenon DEF CpuType
<1>4. QED
  BY Zenon, <1>1, <1>2, <1>3 DEF Trapped

\* The frame of a trap.
LEMMA FrameIs ==
  ASSUME NEW pc \in ProcPc \cup CpuPc \cup TrapPc, NEW then \in {"syscall", "usertrapret", "restore"}
  PROVE  Frame(pc, then) \in FrameType /\ Frame(pc, then).pc = pc /\ Frame(pc, then).then = then
<1>1. None \in Sepc /\ <<FALSE, FALSE>> \in BOOLEAN \X BOOLEAN
  BY Zenon DEF Sepc
<1>2. QED
  BY Zenon, <1>1 DEF Frame, FrameType

\* A trap from user space.
LEMMA UsertrapStep ==
  ASSUME TrapInv, NEW c \in Cpu, NEW cause \in {"ecall", "timer", "device"}, usertrap(c, cause)
  PROVE  TrapInv'
<1> DEFINE t == cpu[c].proc
<1> DEFINE u == IF cause = "ecall" THEN After(upc[t]) ELSE upc[t]
<1> DEFINE v == uservec(Trapped(cpu[c], <<t, upc[t]>>), t)
<1> DEFINE r == [v EXCEPT !.stvec = "kernelvec", !.sie = (cause = "ecall")]
<1> DEFINE f == Frame(CASE cause = "ecall" -> "syscall" [] cause = "timer" -> "yield"
                        [] OTHER -> "usertrapret",
                      IF cause = "ecall" THEN "syscall" ELSE "usertrapret")
<1>1. Types /\ Alone /\ CpuOK(c) /\ cpu[c].user
  BY Zenon DEF TrapInv, usertrap
<1>2. /\ t # None /\ cpu[c].noff = 0 /\ cpu[c].stvec = "uservec" /\ frame[On(c)].kernel_hartid = c
  BY Zenon, <1>1 DEF CpuOK, Runs, UserOK
<1>3. t \in Proc /\ t \in Thread /\ On(c) = t /\ cpu[c] \in CpuType /\ upc[t] \in UserPc
  BY Zenon, <1>1, <1>2, OnIs DEF Thread, Types
<1>4. <<t, upc[t]>> \in Sepc /\ u \in UserPc
  <2>1. <<t, upc[t]>> \in Sepc
    BY Zenon, <1>3 DEF Sepc, Epc
  <2>2. QED
    BY Zenon, <1>3, <2>1 DEF UserPc, After
<1>5. v \in CpuType /\ ~v.spp /\ v.stvec = "uservec" /\ v.tp = c /\ v.noff = 0 /\ v.proc = t /\ ~v.user
  <2> DEFINE w == Trapped(cpu[c], <<t, upc[t]>>)
  <2>1. /\ w \in CpuType /\ ~w.spp /\ w.stvec = "uservec" /\ w.noff = 0 /\ w.proc = t /\ ~w.user
    <3> DEFINE at == <<t, upc[t]>>
    <3>1. at \in Sepc
      BY Zenon, <1>4
    <3> HIDE DEF at
    <3>2. /\ Trapped(cpu[c], at) \in CpuType /\ ~Trapped(cpu[c], at).user
          /\ (Trapped(cpu[c], at).spp <=> ~cpu[c].user) /\ Trapped(cpu[c], at).stvec = cpu[c].stvec
          /\ Trapped(cpu[c], at).proc = cpu[c].proc /\ Trapped(cpu[c], at).noff = cpu[c].noff
      BY Zenon, <1>3, <3>1, TrappedIs
    <3>3. QED
      BY Zenon, <1>1, <1>2, <3>2 DEF at
  <2> HIDE DEF w
  <2>2. v = [w EXCEPT !.tp = c]
    BY Zenon, <1>2, <1>3 DEF uservec, w
  <2> HIDE DEF v
  <2>3. QED
    BY Zenon, <2>1, <2>2 DEF CpuType
<1>6. stack' = [stack EXCEPT ![On(c)] = <<f>>] /\ cpu' = [cpu EXCEPT ![c] = r] /\ UNCHANGED state
  BY Zenon, <1>3 DEF usertrap, Is
<1>7. fault' = ""
  <2> DEFINE bad == v.spp \/ v.stvec # "uservec"
  <2>1. bad = FALSE
    BY Zenon, <1>5
  <2>2. Faults(<< <<bad, "usertrap: not from user mode">> >>)
    BY Zenon DEF usertrap
  <2> HIDE DEF bad
  <2>3. QED
    BY Zenon, <2>1, <2>2, NoFault
<1> HIDE DEF v
<1>8. /\ r \in CpuType /\ r.stvec = "kernelvec" /\ r.tp = c /\ r.noff = 0 /\ r.proc = t /\ ~r.user
      /\ r.sie = (cause = "ecall")
  BY ZenonT(30), <1>5 DEF CpuType
<1>9. /\ f \in FrameType /\ (cause = "ecall" => f.pc = "syscall" /\ f.then = "syscall")
      /\ cause # "ecall" => f.pc \in {"yield", "usertrapret"} /\ f.then = "usertrapret"
  <2>1. /\ Frame("syscall", "syscall") \in FrameType
        /\ Frame("syscall", "syscall").pc = "syscall" /\ Frame("syscall", "syscall").then = "syscall"
    BY Zenon, FrameIs DEF ProcPc
  <2>2. \A pc \in {"yield", "usertrapret"} : Frame(pc, "usertrapret") \in FrameType
          /\ Frame(pc, "usertrapret").pc = pc /\ Frame(pc, "usertrapret").then = "usertrapret"
    BY Zenon, FrameIs DEF ProcPc
  <2>3. CASE cause = "ecall"
    BY Zenon, <2>1, <2>3
  <2>4. CASE cause = "timer"
    <3>1. f = Frame("yield", "usertrapret")
      BY Zenon, <2>4
    <3>2. QED
      BY Zenon, <2>2, <2>4, <3>1
  <2>5. CASE cause = "device"
    <3>1. f = Frame("usertrapret", "usertrapret")
      BY Zenon, <2>5
    <3>2. QED
      BY Zenon, <2>2, <2>5, <3>1
  <2>6. QED
    BY Zenon, <2>3, <2>4, <2>5
<1>10. /\ frame' = [frame EXCEPT ![t].epc = <<t, u>>] /\ upc' = [upc EXCEPT ![t] = u]
  BY Zenon DEF usertrap
<1> HIDE DEF r, f, u
<1>11. StackOK(t, <<f>>) /\ <<f>> \in Seq(FrameType) /\ Len(<<f>>) = 1 /\ <<f>>[1] = f /\ <<f>> # <<>>
  <2>1. <<f>> \in Seq(FrameType) /\ Len(<<f>>) = 1 /\ <<f>>[1] = f /\ <<f>> # <<>>
    BY Zenon, <1>9, OneFrame
  <2>2. Len(<<f>>) <= 2 /\ Len(<<f>>) # 2
    BY <2>1
  <2>3. QED
    BY Zenon, <1>3, <1>9, <2>1, <2>2 DEF StackOK, ProcPc, Calling
<1>12. /\ frame' \in [Proc -> [epc : Epc, kernel_hartid : Cpu \cup {None}]]
       /\ frame'[t].epc = <<t, u>> /\ upc'[t] = u /\ upc' \in [Proc -> UserPc]
       /\ \A p \in Proc : p # t => frame'[p] = frame[p] /\ upc'[p] = upc[p]
  <2> DEFINE x == <<t, u>>
  <2>1. x \in Epc
    BY Zenon, <1>3, <1>4 DEF Epc
  <2> HIDE DEF x
  <2>2. frame' = [frame EXCEPT ![t].epc = x]
    BY Zenon, <1>10 DEF x
  <2>3. /\ frame' \in [Proc -> [epc : Epc, kernel_hartid : Cpu \cup {None}]]
        /\ frame'[t].epc = x /\ \A p \in Proc : p # t => frame'[p] = frame[p]
    BY <1>1, <1>3, <2>1, <2>2 DEF Types
  <2>4. upc'[t] = u /\ upc' \in [Proc -> UserPc] /\ \A p \in Proc : p # t => upc'[p] = upc[p]
    BY Zenon, <1>1, <1>3, <1>4, <1>10 DEF Types
  <2>5. QED
    BY Zenon, <2>3, <2>4 DEF x
<1>13. Types'
  BY Zenon, <1>1, <1>3, <1>6, <1>8, <1>11, <1>12, TypesKept DEF Types
<1>14. Runs(c, r, t, <<f>>, frame'[t], upc'[t])
  <2>1. KernelOK(c, r, f, 1) /\ f.pc # "userret"
    BY Zenon, <1>8, <1>9, OneOrTwo DEF KernelOK, Locked
  <2>2. QED
    BY Zenon, <1>8, <1>11, <2>1 DEF Runs
<1>15. QED
  BY Zenon, <1>3, <1>6, <1>7, <1>8, <1>11, <1>12, <1>13, <1>14, Local

\* An interrupt comes in the kernel: only where no lock is held and kerneltrap does not run.
LEMMA KerneltrapStep ==
  ASSUME TrapInv, NEW c \in Cpu, NEW cause \in {"timer", "device"}, kerneltrap(c, cause)
  PROVE  TrapInv'
<1> DEFINE t == On(c)
<1> DEFINE b == Top(stack[t])
<1> DEFINE at == <<t, Len(stack[t]), Pc(t)>>
<1> DEFINE r == Trapped(cpu[c], at)
<1> DEFINE yields == cause = "timer" /\ cpu[c].proc # None /\ state[t] = "RUNNING"
<1> DEFINE h == Frame(IF yields THEN "yield" ELSE "restore", "restore")
<1> DEFINE f == [h EXCEPT !.sepc = r.sepc, !.tp = r.tp, !.sstatus = <<r.spp, r.spie>>]
<1> DEFINE s == Append(stack[t], f)
<1>1. /\ ~cpu[c].user /\ cpu[c].sie /\ t \in Thread /\ stack[t] \in Seq(FrameType) /\ stack[t] # <<>>
      /\ StackOK(t, stack[t]) /\ b \in FrameType /\ b = stack[t][Len(stack[t])] /\ cpu[c] \in CpuType
      /\ KernelOK(c, cpu[c], b, Len(stack[t])) /\ (Len(stack[t]) = 1 \/ Len(stack[t]) = 2)
      /\ Pc(t) = b.pc /\ Types /\ Alone
  BY Zenon, AtIs DEF kerneltrap, Pc, TrapInv
<1>2. /\ Len(stack[t]) = 1 /\ b = stack[t][1] /\ b.pc \in Open
      /\ cpu[c].noff = 0 /\ cpu[c].tp = c /\ cpu[c].stvec = "kernelvec"
  <2>1. Len(stack[t]) = 1 /\ b = stack[t][1] /\ b.pc \notin Locked \cup {"restore", "userret"}
    BY Zenon, <1>1 DEF KernelOK
  <2>2. Len(stack[t]) > 0
    BY <2>1
  <2>3. b.pc \in ProcPc \cup CpuPc
    BY Zenon, <1>1, <2>1, <2>2 DEF StackOK
  <2>4. b.pc \in Open
    BY Zenon, <2>1, <2>3 DEF ProcPc, CpuPc, Locked, Open
  <2>5. QED
    BY Zenon, <1>1, <2>1, <2>4 DEF KernelOK, Locked, Open
<1>3. at = <<t, 1, b.pc>> /\ at \in Sepc
  <2>1. at = <<t, 1, b.pc>>
    BY Zenon, <1>1, <1>2
  <2>2. 1 \in Nat /\ b.pc \in ProcPc \cup CpuPc \cup TrapPc
    BY Zenon, <1>1 DEF FrameType
  <2>3. QED
    BY Zenon, <1>1, <2>1, <2>2 DEF Sepc
<1> HIDE DEF at
<1>4. /\ r \in CpuType /\ r.sepc = at /\ r.sie = FALSE /\ ~r.user /\ r.spp = TRUE /\ r.spie = TRUE
      /\ r.stvec = "kernelvec" /\ r.tp = c /\ r.proc = cpu[c].proc /\ r.noff = 0
  <2>0. cpu[c] \in CpuType /\ at \in Sepc
    BY Zenon, <1>1, <1>3
  <2>1. /\ r \in CpuType /\ r.sepc = at /\ ~r.sie /\ ~r.user
        /\ (r.spp <=> ~cpu[c].user) /\ r.spie = cpu[c].sie
        /\ r.stvec = cpu[c].stvec /\ r.tp = cpu[c].tp /\ r.proc = cpu[c].proc /\ r.noff = cpu[c].noff
    BY Zenon, <2>0, TrappedIs
  <2> HIDE DEF r
  <2>2. r.spp \in BOOLEAN /\ r.spie \in BOOLEAN /\ r.sie \in BOOLEAN
    BY Zenon, <2>1 DEF CpuType
  <2>3. QED
    BY Zenon, <1>1, <1>2, <2>1, <2>2
<1>5. stack' = [stack EXCEPT ![t] = s] /\ cpu' = [cpu EXCEPT ![c] = r] /\ UNCHANGED <<upc, frame, state>>
  BY Zenon DEF kerneltrap, Is, Place, at
<1>6. fault' = ""
  <2> DEFINE x == r.stvec # "kernelvec"
  <2> DEFINE y == ~r.spp
  <2> DEFINE z == r.sie
  <2>1. x = FALSE /\ y = FALSE /\ z = FALSE
    BY Zenon, <1>4
  <2>2. Faults(<< <<x, "usertrap: not from user mode">>,
                  <<y, "kerneltrap: not from supervisor mode">>,
                  <<z, "kerneltrap: interrupts enabled">> >>)
    BY Zenon DEF kerneltrap, Place, at
  <2> HIDE DEF x, y, z
  <2>3. QED
    BY Zenon, <2>1, <2>2, NoFault3
<1> HIDE DEF r
<1>7. /\ f \in FrameType /\ f.pc \in {"yield", "restore"} /\ f.then = "restore"
      /\ f.sepc = at /\ f.sstatus = <<TRUE, TRUE>> /\ (t \in Cpu => f.pc = "restore")
  <2>1. \A pc \in {"yield", "restore"} : /\ Frame(pc, "restore") \in FrameType
          /\ Frame(pc, "restore").pc = pc /\ Frame(pc, "restore").then = "restore"
    BY Zenon, FrameIs DEF TrapPc
  <2>2. (IF yields THEN "yield" ELSE "restore") \in {"yield", "restore"}
    BY Zenon
  <2>3. t \in Cpu => ~yields
    BY Zenon, <1>1, OnIs
  <2>4. /\ h \in FrameType /\ h.pc \in {"yield", "restore"} /\ h.then = "restore"
        /\ t \in Cpu => h.pc = "restore"
    BY Zenon, <2>1, <2>2, <2>3
  <2> HIDE DEF h
  <2> DEFINE x == <<r.spp, r.spie>>
  <2>5. x = <<TRUE, TRUE>> /\ x \in BOOLEAN \X BOOLEAN
    BY Zenon, <1>4
  <2> HIDE DEF x
  <2>6. f = [h EXCEPT !.sepc = r.sepc, !.tp = r.tp, !.sstatus = x]
    BY Zenon DEF x
  <2> HIDE DEF f
  <2>7. r.tp \in Cpu \cup {None}
    BY Zenon, <1>4
  <2>8. DOMAIN h = {"pc", "then", "sepc", "sstatus", "tp", "intena"}
    BY Zenon, <2>4 DEF FrameType
  <2>9. f.pc = h.pc /\ f.then = h.then /\ f.sepc = at /\ f.sstatus = x
    BY Zenon, <1>4, <2>6, <2>8
  <2>10. f \in FrameType
    <3>1. \A y \in Sepc, z \in BOOLEAN \X BOOLEAN, w \in Cpu \cup {None} :
            [h EXCEPT !.sepc = y, !.tp = w, !.sstatus = z] \in FrameType
      BY Zenon, <2>4 DEF FrameType
    <3>2. QED
      BY Zenon, <1>3, <1>4, <2>5, <2>6, <2>7, <3>1
  <2>11. QED
    BY Zenon, <2>4, <2>5, <2>9, <2>10
<1> HIDE DEF f, b
<1>8. /\ s \in Seq(FrameType) /\ Len(s) = 2 /\ s[1] = b /\ s[2] = f /\ s # <<>>
  <2>1. stack[t] \in Seq(FrameType) /\ Len(stack[t]) = 1 /\ f \in FrameType
    BY Zenon, <1>1, <1>2, <1>7
  <2>2. QED
    BY Zenon, <1>2, <2>1, Pushed
<1> HIDE DEF s
<1>9. StackOK(t, s)
  <2>1. Len(s) <= 2 /\ Len(stack[t]) > 0
    BY <1>2, <1>8
  <2>2. Interrupted(t, s)
    BY Zenon, <1>3, <1>7, <1>8 DEF Interrupted
  <2>3. /\ s[1].pc \in (IF t \in Proc THEN ProcPc ELSE CpuPc)
        /\ s[1].pc \in Calling => s[1].then \in {"syscall", "usertrapret"}
        /\ s[1].pc = "sched" /\ s[1].then = "syscall" => s[1].intena
    BY Zenon, <1>1, <1>2, <1>8, <2>1 DEF StackOK
  <2>4. QED
    BY Zenon, <1>2, <1>7, <1>8, <2>1, <2>2, <2>3 DEF StackOK, TrapPc
<1>10. Types'
  BY Zenon, <1>1, <1>4, <1>5, <1>8, TypesKept DEF Types
<1>11. KernelOK(c, r, f, 2) /\ f.pc # "userret"
  BY Zenon, <1>4, <1>7 DEF KernelOK, Locked
<1>12. Runs(c, r, t, s, frame'[t], upc'[t])
  BY Zenon, <1>4, <1>8, <1>11 DEF Runs
<1>13. cpu[c].proc # None => frame'[cpu[c].proc].epc = <<cpu[c].proc, upc'[cpu[c].proc]>>
  BY Zenon, <1>1, <1>5, OnIs DEF TrapInv
<1>14. QED
  BY Zenon, <1>4, <1>5, <1>6, <1>8, <1>9, <1>10, <1>12, <1>13, Local

\* kernelvec returns to where it came from, with interrupts on again.
LEMMA RestoreStep ==
  ASSUME TrapInv, NEW c \in Cpu, restore(c)
  PROVE  TrapInv'
<1> DEFINE t == On(c)
<1> DEFINE f == Top(stack[t])
<1> DEFINE g == stack[t][1]
<1> DEFINE s == Below(stack[t])
<1> DEFINE w == [cpu[c] EXCEPT !.sepc = f.sepc, !.spp = f.sstatus[1], !.spie = f.sstatus[2]]
<1> DEFINE r == Returned(w)
<1>1. /\ ~cpu[c].user /\ f.pc = "restore" /\ t \in Thread /\ stack[t] \in Seq(FrameType)
      /\ StackOK(t, stack[t]) /\ f \in FrameType /\ f = stack[t][Len(stack[t])] /\ cpu[c] \in CpuType
      /\ KernelOK(c, cpu[c], f, Len(stack[t])) /\ (Len(stack[t]) = 1 \/ Len(stack[t]) = 2)
      /\ Types /\ Alone
  BY Zenon, AtIs DEF restore, restore_in, At, Pc, TrapInv
<1>2. cpu[c].noff = 0 /\ cpu[c].tp = c /\ cpu[c].stvec = "kernelvec"
  BY Zenon, <1>1 DEF KernelOK, Locked
<1>3. Len(stack[t]) = 2
  <2>1. SUFFICES ASSUME Len(stack[t]) = 1 PROVE FALSE
    BY Zenon, <1>1
  <2>2. Len(stack[t]) > 0
    BY <2>1
  <2>3. QED
    BY Zenon, <1>1, <2>1, <2>2 DEF StackOK, ProcPc, CpuPc
<1>4. /\ g.pc \in Open /\ f.sepc = <<t, 1, g.pc>> /\ f.sstatus = <<TRUE, TRUE>>
      /\ g.pc \in (IF t \in Proc THEN ProcPc ELSE CpuPc)
      /\ g.pc \in Calling => g.then \in {"syscall", "usertrapret"}
  <2>1. Len(stack[t]) > 0 /\ f = stack[t][2]
    BY <1>1, <1>3
  <2>2. QED
    BY Zenon, <1>1, <1>3, <2>1 DEF StackOK, Interrupted
<1>5. s \in Seq(FrameType) /\ Len(s) = 1 /\ s[1] = g /\ s # <<>> /\ g \in FrameType
  <2>1. Len(stack[t]) - 1 = 1 /\ 1 \in 1..Len(stack[t])
    BY <1>3
  <2>2. g \in FrameType
    BY Zenon, <1>1, <2>1, ElementOfSeq
  <2>3. s = SubSeq(stack[t], 1, 1)
    BY Zenon, <2>1 DEF Below
  <2>4. s \in Seq(FrameType) /\ Len(s) = 1 /\ s[1] = g
    BY <1>1, <1>3, <2>3
  <2> HIDE DEF s
  <2>5. s # <<>>
    BY <2>4
  <2>6. QED
    BY Zenon, <2>2, <2>4, <2>5
<1>6. StackOK(t, s)
  <2> HIDE DEF s, g
  <2>1. Len(s) <= 2 /\ Len(s) # 2
    BY <1>5
  <2>2. s[1].pc # "sched"
    BY Zenon, <1>4, <1>5 DEF Open
  <2>3. QED
    BY Zenon, <1>4, <1>5, <2>1, <2>2 DEF StackOK
<1>7. stack' = [stack EXCEPT ![t] = s] /\ cpu' = [cpu EXCEPT ![c] = r] /\ UNCHANGED <<upc, frame, state>>
  BY Zenon DEF restore, restore_in, Saved, Is
<1>8. f.sstatus[1] = TRUE /\ f.sstatus[2] = TRUE
  <2>1. <<TRUE, TRUE>>[1] = TRUE /\ <<TRUE, TRUE>>[2] = TRUE
    BY Zenon
  <2>2. QED
    BY Zenon, <1>4, <2>1
<1>9. fault' = ""
  <2> DEFINE lost == w.sepc # <<t, Len(s), Top(s).pc>> \/ ~w.spp
  <2>1. w.sepc = f.sepc /\ w.spp = f.sstatus[1]
    <3>1. DOMAIN cpu[c] = {"sie", "spp", "spie", "sepc", "stvec", "tp", "user", "proc", "noff", "intena"}
      BY Zenon, <1>1 DEF CpuType
    <3>2. QED
      BY Zenon, <3>1
  <2>2. Faults(<< <<lost, "lost">> >>)
    BY Zenon DEF restore, restore_in, Saved
  <2>3. lost = FALSE
    <3> HIDE DEF w, f, g, s
    <3>1. <<t, Len(s), Top(s).pc>> = <<t, 1, g.pc>>
      BY Zenon, <1>5 DEF Top
    <3>2. QED
      BY Zenon, <1>4, <1>8, <2>1, <3>1
  <2> HIDE DEF lost
  <2>4. QED
    BY Zenon, <2>2, <2>3, NoFault
<1>10. /\ r \in CpuType /\ r.sie = TRUE /\ ~r.user /\ r.tp = c /\ r.noff = 0 /\ r.stvec = "kernelvec"
       /\ r.proc = cpu[c].proc
  <2>1. f.sepc \in Sepc
    BY Zenon, <1>1 DEF FrameType
  <2>2. w = [cpu[c] EXCEPT !.sepc = f.sepc, !.spp = TRUE, !.spie = TRUE]
    BY Zenon, <1>8
  <2> HIDE DEF f
  <2>3. /\ w \in CpuType /\ w.spp = TRUE /\ w.spie = TRUE /\ w.tp = c /\ w.noff = 0
        /\ w.stvec = "kernelvec" /\ w.proc = cpu[c].proc
    <3> HIDE DEF w
    <3>1. QED
      BY Zenon, <1>1, <1>2, <2>1, <2>2 DEF CpuType
  <2> HIDE DEF w
  <2>4. QED
    BY Zenon, <2>3 DEF Returned, CpuType
<1> HIDE DEF r, s, g
<1>11. Types'
  BY Zenon, <1>1, <1>5, <1>7, <1>10, TypesKept DEF Types
<1>12. KernelOK(c, r, g, 1) /\ g.pc # "userret"
  BY Zenon, <1>4, <1>10, OneOrTwo DEF KernelOK, Locked, Open
<1>13. Runs(c, r, t, s, frame'[t], upc'[t])
  BY Zenon, <1>5, <1>10, <1>12 DEF Runs
<1>14. cpu[c].proc # None => frame'[cpu[c].proc].epc = <<cpu[c].proc, upc'[cpu[c].proc]>>
  BY Zenon, <1>1, <1>7, OnIs DEF TrapInv
<1>15. QED
  BY Zenon, <1>5, <1>6, <1>7, <1>9, <1>10, <1>11, <1>13, <1>14, Local

\* A switch between the scheduler of CPU c and process p disturbs no other CPU.
LEMMA Switch ==
  ASSUME TrapInv, NEW c \in Cpu, NEW r \in CpuType, NEW s \in Seq(FrameType), NEW p \in Proc,
         NEW z \in {"RUNNABLE", "RUNNING"},
         cpu' = [cpu EXCEPT ![c] = r], r.proc \in {p, None}, On(c) \in {p, c},
         stack' = [stack EXCEPT ![On(c)] = s], StackOK(On(c), s),
         state' = [state EXCEPT ![p] = z], UNCHANGED <<upc, frame>>, fault' = "",
         \A d \in Cpu : d # c => cpu[d].proc # p,
         CpuOK(c)', Waiting(p)'
  PROVE  TrapInv'
<1>1. Types /\ Alone
  BY Zenon DEF TrapInv
<1>2. cpu'[c] = r /\ \A d \in Cpu : d # c => cpu'[d] = cpu[d]
  BY Zenon, <1>1 DEF Types
<1>3. On(c) \in Thread /\ stack'[On(c)] = s /\ \A t \in Thread : t # On(c) => stack'[t] = stack[t]
  BY Zenon, <1>1, OnIs DEF Types
<1>4. \A q \in Proc : q # p => state'[q] = state[q]
  BY Zenon, <1>1 DEF Types
<1>5. Types'
  <2>1. cpu' \in [Cpu -> CpuType] /\ stack' \in [Thread -> Seq(FrameType)]
    BY Zenon, <1>1, <1>3, TypesKept
  <2>2. state' \in [Proc -> {"RUNNABLE", "RUNNING"}]
    BY Zenon, <1>1 DEF Types
  <2>3. QED
    BY Zenon, <1>1, <2>1, <2>2 DEF Types
<1>6. \A t \in Thread : StackOK(t, stack[t])'
  <2> SUFFICES ASSUME NEW t \in Thread PROVE StackOK(t, stack'[t])
    BY Zenon DEF StackOK
  <2>1. StackOK(t, stack[t])
    BY Zenon DEF TrapInv
  <2>2. QED
    BY Zenon, <1>3, <2>1
<1>7. ASSUME NEW d \in Cpu, d # c PROVE CpuOK(d)'
  <2>1. CpuOK(d) /\ On(d) \in Thread /\ On(d) # On(c) /\ d # On(c) /\ d \in Thread
    BY Zenon, <1>1, <1>7, OnIs DEF TrapInv, Thread
  <2>2. cpu'[d] = cpu[d] /\ On(d)' = On(d)
    <3>1. cpu'[d] = cpu[d]
      BY Zenon, <1>2, <1>7
    <3>2. cpu'[d].proc = cpu[d].proc
      BY Zenon, <3>1
    <3>3. On(d)' = On(d)
      BY Zenon, <3>2 DEF On
    <3>4. QED
      BY Zenon, <3>1, <3>3
  <2>3. stack'[On(d)] = stack[On(d)] /\ stack'[d] = stack[d]
    BY Zenon, <1>3, <2>1
  <2>4. cpu[d].proc # None => cpu[d].proc \in Proc /\ state'[cpu[d].proc] = state[cpu[d].proc]
    BY Zenon, <1>1, <1>4, <1>7, OnIs
  <2>5. Gone(d)'
    BY Zenon, <2>1, <2>2, <2>3, <2>4 DEF CpuOK, Gone
  <2>6. QED
    BY Zenon, <2>1, <2>2, <2>3, <2>5 DEF CpuOK
<1>8. ASSUME NEW q \in Proc PROVE Waiting(q)' /\ (frame[q].epc = <<q, upc[q]>>)'
  <2>1. Waiting(q) /\ frame[q].epc = <<q, upc[q]>> /\ q \in Thread /\ q # c
    BY Zenon DEF TrapInv, Thread
  <2>2. q # p => Waiting(q)'
    BY Zenon, <1>3, <1>4, <2>1 DEF Waiting
  <2>3. QED
    BY Zenon, <2>1, <2>2
<1>9. Alone'
  <2> SUFFICES ASSUME NEW d \in Cpu, NEW e \in Cpu, d # e, cpu'[d].proc = cpu'[e].proc
               PROVE  cpu'[d].proc = None
    BY Zenon DEF Alone
  <2>1. QED
    BY Zenon, <1>1, <1>2 DEF Alone
<1>10. QED
  BY Zenon, <1>5, <1>6, <1>7, <1>8, <1>9 DEF TrapInv

\* Two fields of the frame on top are set.
LEMMA SchedIs ==
  ASSUME Types, NEW t \in Thread, stack[t] # <<>>, NEW i \in BOOLEAN
  PROVE  LET f == [stack[t][Len(stack[t])] EXCEPT !.pc = "sched", !.intena = i]
         IN  [stack EXCEPT ![t][Len(stack[t])].pc = "sched", ![t][Len(stack[t])].intena = i]
               = [stack EXCEPT ![t] = PutTop(stack[t], f)]
<1>1. stack \in [Thread -> Seq(FrameType)] /\ stack[t] \in Seq(FrameType) /\ Len(stack[t]) \in 1..Len(stack[t])
  BY DEF Types
<1>2. QED
  BY Zenon, <1>1 DEF PutTop

\* yield and sleep: the process gives up its CPU to the scheduler, which holds its lock.
LEMMA YieldStep ==
  ASSUME TrapInv, NEW c \in Cpu, NEW t \in Proc, On(c) = t, yield(c)
  PROVE  TrapInv'
<1> DEFINE f == Top(stack[t])
<1> DEFINE w == push_off(cpu[c])
<1> DEFINE r == [w EXCEPT !.proc = None]
<1> DEFINE g == [f EXCEPT !.pc = "sched", !.intena = w.intena]
<1> DEFINE s == PutTop(stack[t], g)
<1>1. /\ ~cpu[c].user /\ f.pc = "yield" /\ t = cpu[c].proc /\ cpu[c].proc # None /\ t \in Proc
      /\ t \in Thread /\ stack[t] \in Seq(FrameType) /\ stack[t] # <<>> /\ StackOK(t, stack[t])
      /\ f \in FrameType /\ f = stack[t][Len(stack[t])] /\ cpu[c] \in CpuType
      /\ KernelOK(c, cpu[c], f, Len(stack[t])) /\ (Len(stack[t]) = 1 \/ Len(stack[t]) = 2)
      /\ Len(stack[t]) = 1 => f.then \in {"syscall", "usertrapret"}
      /\ Types /\ Alone /\ CpuOK(c)
  BY Zenon, AtIs DEF yield, At, Pc, ProcPc, Calling, TrapInv
<1>2. /\ cpu[c].noff = 0 /\ cpu[c].tp = c /\ cpu[c].stvec = "kernelvec"
      /\ (Len(stack[t]) = 2 => ~cpu[c].sie) /\ (f.then = "syscall" => cpu[c].sie)
  BY Zenon, <1>1 DEF KernelOK, Locked
<1>3. /\ w \in CpuType /\ w.noff = 1 /\ w.intena = cpu[c].sie /\ w.sie = FALSE /\ w.tp = c
      /\ w.stvec = "kernelvec" /\ ~w.user
  BY Zenon, <1>1, <1>2, Counts
<1>4. /\ stack' = [stack EXCEPT ![t] = s] /\ cpu' = [cpu EXCEPT ![c] = r]
      /\ state' = [state EXCEPT ![t] = "RUNNABLE"] /\ UNCHANGED <<upc, frame>>
  <2>1. /\ stack' = [stack EXCEPT ![t][Len(stack[t])].pc = "sched",
                                  ![t][Len(stack[t])].intena = w.intena]
        /\ cpu' = [cpu EXCEPT ![c] = r]
        /\ state' = [state EXCEPT ![t] = "RUNNABLE"] /\ UNCHANGED <<upc, frame>>
    BY Zenon, <1>1 DEF yield, Is
  <2>0. w.intena \in BOOLEAN
    BY Zenon, <1>3 DEF CpuType
  <2> HIDE DEF w
  <2>2. stack' = [stack EXCEPT ![t] = s]
    BY Zenon, <1>1, <2>0, <2>1, SchedIs
  <2>3. QED
    BY Zenon, <2>1, <2>2
<1>5. fault' = ""
  <2> DEFINE x == w.noff # 1
  <2> DEFINE y == w.sie
  <2>1. x = FALSE /\ y = FALSE
    BY Zenon, <1>3
  <2>2. Faults(<< <<x, "sched locks">>, <<y, "sched interruptible">> >>)
    BY Zenon DEF yield
  <2> HIDE DEF x, y
  <2>3. QED
    BY Zenon, <2>1, <2>2, NoFault2
<1> HIDE DEF w, f
<1>6. /\ r \in CpuType /\ r.noff = 1 /\ ~r.sie /\ r.tp = c /\ r.stvec = "kernelvec" /\ ~r.user
      /\ r.proc = None
  BY Zenon, <1>3 DEF CpuType
<1>7. g \in FrameType /\ g.pc = "sched" /\ g.then = f.then /\ g.intena = cpu[c].sie
      /\ g.sepc = f.sepc /\ g.sstatus = f.sstatus
  <2>1. w.intena \in BOOLEAN /\ "sched" \in ProcPc \cup CpuPc \cup TrapPc
    BY Zenon, <1>3 DEF CpuType, ProcPc
  <2>2. QED
    BY Zenon, <1>1, <1>3, <2>1 DEF FrameType
<1> HIDE DEF r, g
<1>8. s \in Seq(FrameType) /\ s # <<>> /\ s[Len(stack[t])] = g /\ Len(s) = Len(stack[t])
  BY Zenon, <1>1, <1>7, PutTopIs
<1>9. StackOK(t, s)
  <2>1. CASE Len(stack[t]) = 1
    <3>1. Len(stack[t]) # 2
      BY Zenon, <2>1, OneOrTwo
    <3>2. /\ g.pc \in (IF t \in Proc THEN ProcPc ELSE CpuPc)
          /\ g.then \in {"syscall", "usertrapret"} /\ (g.then = "syscall" => g.intena)
      BY Zenon, <1>1, <1>2, <1>7, <2>1 DEF ProcPc
    <3>3. QED
      BY Zenon, <1>1, <1>7, <3>1, <3>2, PutOK
  <2>2. CASE Len(stack[t]) = 2
    <3>1. Len(stack[t]) # 1
      BY Zenon, <2>2, OneOrTwo
    <3>2. /\ g.pc \in TrapPc /\ t \notin Cpu /\ ~g.intena
          /\ g.then = stack[t][2].then /\ g.sepc = stack[t][2].sepc /\ g.sstatus = stack[t][2].sstatus
      BY Zenon, <1>1, <1>2, <1>7, <2>2 DEF TrapPc
    <3>3. QED
      BY Zenon, <1>1, <1>7, <3>1, <3>2, PutOK
  <2>3. QED
    BY Zenon, <1>1, <2>1, <2>2
<1> HIDE DEF s
<1>10. /\ cpu'[c] = r /\ stack'[t] = s /\ stack'[c] = stack[c]
  <2>1. c \in Thread /\ c # t
    BY Zenon, <1>1 DEF Thread
  <2>2. QED
    BY Zenon, <1>1, <1>4, <2>1 DEF Types
<1>11. CpuOK(c)'
  <2>1. Len(stack[c]) = 1 /\ stack[c][1].pc = "swtch"
    BY Zenon, <1>1 DEF CpuOK, Gone
  <2>2. KernelOK(c, r, stack[c][1], 1) /\ stack[c] # <<>>
    <3>1. stack[c] # <<>>
      <4>1. Len(<<>>) = 0 /\ 0 # 1
        BY Zenon, EmptySeq, SMT
      <4>2. QED
        BY Zenon, <2>1, <4>1
    <3>2. QED
      BY Zenon, <1>6, <2>1, <3>1 DEF KernelOK, Locked
  <2>3. On(c)' = c /\ Gone(c)'
    BY Zenon, <1>6, <1>10 DEF On, Gone
  <2>4. Runs(c, r, c, stack[c], frame'[c], upc'[c])
    BY Zenon, <1>6, <2>1, <2>2 DEF Runs
  <2>5. QED
    BY Zenon, <1>10, <2>3, <2>4 DEF CpuOK
<1>12. Waiting(t)'
  <2>1. stack'[t] # <<>> /\ stack'[t][Len(stack'[t])].pc = "sched"
    BY Zenon, <1>7, <1>8, <1>10
  <2>2. QED
    BY Zenon, <2>1 DEF Waiting
<1>13. \A d \in Cpu : d # c => cpu[d].proc # t
  BY Zenon, <1>1 DEF Alone
<1>14. QED
  BY Zenon, <1>1, <1>4, <1>5, <1>6, <1>8, <1>9, <1>11, <1>12, <1>13, Switch

\* The scheduler runs process p, which it has found RUNNABLE.
LEMMA PickStep ==
  ASSUME TrapInv, NEW c \in Cpu, NEW p \in Proc, At(c, "scan"), state[p] = "RUNNABLE",
         state' = [state EXCEPT ![p] = "RUNNING"], Is([push_off(cpu[c]) EXCEPT !.proc = p], c),
         stack' = Goto(c, "swtch"), UNCHANGED <<upc, frame, fault>>
  PROVE  TrapInv'
<1> DEFINE f == Top(stack[c])
<1> DEFINE w == push_off(cpu[c])
<1> DEFINE r == [w EXCEPT !.proc = p]
<1> DEFINE g == [f EXCEPT !.pc = "swtch"]
<1> DEFINE s == PutTop(stack[c], g)
<1>1. /\ ~cpu[c].user /\ On(c) = c /\ f.pc = "scan" /\ cpu[c] \in CpuType /\ f \in FrameType
      /\ stack[c] \in Seq(FrameType) /\ stack[c] # <<>> /\ StackOK(c, stack[c]) /\ c \in Thread
      /\ KernelOK(c, cpu[c], f, Len(stack[c])) /\ Len(stack[c]) = 1 /\ c \notin Proc
      /\ f = stack[c][Len(stack[c])]
  BY Zenon, AtIs DEF At, Pc, CpuPc, TrapPc
<1>2. cpu[c].noff = 0 /\ cpu[c].tp = c /\ cpu[c].stvec = "kernelvec"
  BY Zenon, <1>1 DEF KernelOK, Locked
<1>3. w \in CpuType /\ w.noff = 1 /\ w.sie = FALSE /\ w.tp = c /\ w.stvec = "kernelvec" /\ ~w.user
  BY Zenon, <1>1, <1>2, Counts
<1>4. Types /\ Alone /\ fault' = "" /\ Waiting(p)
  BY Zenon DEF TrapInv
<1>5. g \in FrameType /\ g.pc = "swtch" /\ stack' = [stack EXCEPT ![c] = s]
  <2>1. "swtch" \in ProcPc \cup CpuPc \cup TrapPc
    BY Zenon DEF CpuPc
  <2>2. g \in FrameType /\ g.pc = "swtch"
    BY Zenon, <1>1, <2>1 DEF FrameType
  <2>3. QED
    BY Zenon, <1>1, <1>4, <2>1, <2>2, GotoIs
<1>6. cpu' = [cpu EXCEPT ![c] = r]
  BY Zenon DEF Is
<1> HIDE DEF f, g, w
<1>7. /\ r \in CpuType /\ r.noff = 1 /\ ~r.sie /\ r.tp = c /\ r.stvec = "kernelvec" /\ ~r.user
      /\ r.proc = p
  BY Zenon, <1>3 DEF CpuType
<1> HIDE DEF r
<1>8. s \in Seq(FrameType) /\ s[1] = g /\ Len(s) = 1
  <2>1. s \in Seq(FrameType) /\ s[Len(stack[c])] = g /\ Len(s) = Len(stack[c])
    BY Zenon, <1>1, <1>5, PutTopIs
  <2> HIDE DEF s
  <2>2. QED
    BY Zenon, <1>1, <2>1
<1>9. StackOK(c, s)
  <2>1. Len(stack[c]) # 2
    BY Zenon, <1>1, OneOrTwo
  <2>2. QED
    BY Zenon, <1>1, <1>5, <2>1, PutOK DEF CpuPc, Calling
<1> HIDE DEF s
<1>10. cpu'[c] = r /\ stack'[c] = s /\ stack'[p] = stack[p] /\ state'[p] = "RUNNING"
  <2>1. p \in Thread /\ c # p
    BY Zenon, <1>1 DEF Thread
  <2>2. QED
    BY Zenon, <1>1, <1>4, <1>5, <1>6, <2>1 DEF Types
<1>11. CpuOK(c)'
  <2>1. p # None
    BY Zenon
  <2>2. Gone(c)'
    BY Zenon, <1>5, <1>7, <1>8, <1>10 DEF Gone
  <2>3. On(c)' = p
    <3>1. cpu'[c].proc = p
      BY Zenon, <1>7, <1>10
    <3>2. QED
      BY Zenon, <2>1, <3>1 DEF On
  <2>4. stack[p] # <<>> /\ stack[p][Len(stack[p])].pc \in {"forkret", "sched"}
    BY Zenon, <1>4 DEF Waiting
  <2>5. KernelOK(c, r, stack[p][Len(stack[p])], Len(stack[p]))
    BY Zenon, <1>7, <2>4 DEF KernelOK, Locked
  <2>6. Runs(c, r, p, stack[p], frame'[p], upc'[p])
    BY Zenon, <1>7, <2>4, <2>5 DEF Runs
  <2>7. QED
    BY Zenon, <1>10, <2>2, <2>3, <2>6 DEF CpuOK
<1>12. Waiting(p)'
  BY Zenon, <1>10 DEF Waiting
<1>13. \A d \in Cpu : d # c => cpu[d].proc # p
  <2> SUFFICES ASSUME NEW d \in Cpu, cpu[d].proc = p PROVE FALSE
    BY Zenon
  <2>1. Gone(d)
    BY Zenon DEF TrapInv, CpuOK
  <2>2. QED
    BY Zenon, <2>1 DEF Gone
<1>14. /\ On(c) \in {p, c} /\ r.proc \in {p, None} /\ stack' = [stack EXCEPT ![On(c)] = s]
       /\ StackOK(On(c), s)
  BY Zenon, <1>1, <1>5, <1>7, <1>9
<1>15. QED
  BY Zenon, <1>4, <1>6, <1>7, <1>8, <1>11, <1>12, <1>13, <1>14, Switch

\* The loop of scheduler.
LEMMA SchedulerStep ==
  ASSUME TrapInv, NEW c \in Cpu, scheduler(c)
  PROVE  TrapInv'
<1>1. UNCHANGED <<upc, frame, fault>> /\ cpu[c] \in CpuType /\ Types
  BY Zenon, OnIs DEF scheduler, TrapInv
<1>2. [cpu[c] EXCEPT !.sie = TRUE] \in CpuType
  BY Zenon, <1>1 DEF CpuType
<1>3. CASE At(c, "loop") /\ Is([cpu[c] EXCEPT !.sie = TRUE], c) /\ stack' = Goto(c, "scan") /\ UNCHANGED state
  BY Zenon, <1>1, <1>2, <1>3, LoopStep DEF Is
<1>4. CASE At(c, "scan") /\ stack' = Goto(c, "loop") /\ UNCHANGED <<cpu, state>>
  <2>1. cpu' = [cpu EXCEPT ![c] = cpu[c]]
    BY Zenon, <1>1, <1>4 DEF Types
  <2>2. QED
    BY Zenon, <1>1, <1>4, <2>1, LoopStep
<1>5. ASSUME At(c, "scan"), stack' = Goto(c, "swtch"), NEW p \in Proc,
             state[p] = "RUNNABLE", state' = [state EXCEPT ![p] = "RUNNING"],
             Is([push_off(cpu[c]) EXCEPT !.proc = p], c)
      PROVE  TrapInv'
  BY Zenon, <1>1, <1>5, PickStep
<1>6. QED
  BY Zenon, <1>3, <1>4, <1>5 DEF scheduler
-------------------------------------------------------------------------------
\* The stacks at boot.
LEMMA InitFrames ==
  ASSUME NEW t \in Thread
  PROVE  LET s == <<Frame(IF t \in Proc THEN "forkret" ELSE "loop", None)>>
         IN  /\ s \in Seq(FrameType) /\ StackOK(t, s) /\ Len(s) = 1 /\ s # <<>>
             /\ s[1].pc = IF t \in Proc THEN "forkret" ELSE "loop"
<1> DEFINE pc == IF t \in Proc THEN "forkret" ELSE "loop"
<1> DEFINE f == Frame(pc, None)
<1>1. pc \in (IF t \in Proc THEN ProcPc ELSE CpuPc) /\ pc \notin Calling
  BY Zenon DEF ProcPc, CpuPc, Calling
<1>2. f \in FrameType /\ f.pc = pc
  <2>1. None \in Sepc /\ <<FALSE, FALSE>> \in BOOLEAN \X BOOLEAN /\ pc \in ProcPc \cup CpuPc \cup TrapPc
    BY Zenon, <1>1 DEF Sepc
  <2> HIDE DEF pc
  <2>2. QED
    BY Zenon, <2>1 DEF Frame, FrameType
<1> HIDE DEF f
<1>3. <<f>> \in Seq(FrameType) /\ Len(<<f>>) = 1 /\ <<f>>[1] = f /\ <<f>> # <<>>
  BY Zenon, <1>2, OneFrame
<1>4. Len(<<f>>) <= 2 /\ Len(<<f>>) # 2
  BY <1>3
<1>5. StackOK(t, <<f>>)
  <2>1. f.pc \notin Calling /\ f.pc # "sched"
    BY Zenon, <1>1, <1>2 DEF Calling
  <2>2. QED
    BY Zenon, <1>1, <1>2, <1>3, <1>4, <2>1 DEF StackOK
<1>6. QED
  BY Zenon, <1>2, <1>3, <1>5 DEF f

\* At boot every CPU is in scheduler and every process has been made by fork.
LEMMA TrapInit == Init => TrapInv
<1> SUFFICES ASSUME Init PROVE TrapInv
  BY Zenon
<1>1. Types
  <2>1. cpu \in [Cpu -> CpuType]
    <3>1. None \in Sepc
      BY Zenon DEF Sepc
    <3>2. \A c \in Cpu :
            [sie |-> FALSE, spp |-> FALSE, spie |-> FALSE, sepc |-> None,
             stvec |-> "kernelvec", tp |-> c, user |-> FALSE, proc |-> None, noff |-> 0,
             intena |-> FALSE] \in CpuType
      BY <3>1 DEF CpuType
    <3>3. QED
      BY Zenon, <3>2 DEF Init
  <2>2. stack \in [Thread -> Seq(FrameType)]
    <3>1. \A t \in Thread : <<Frame(IF t \in Proc THEN "forkret" ELSE "loop", None)>> \in Seq(FrameType)
      BY Zenon, InitFrames
    <3>2. QED
      BY Zenon, <3>1 DEF Init, Thread
  <2>3. upc \in [Proc -> UserPc] /\ state \in [Proc -> {"RUNNABLE", "RUNNING"}]
    BY Zenon DEF Init, UserPc
  <2>4. frame \in [Proc -> [epc : Epc, kernel_hartid : Cpu \cup {None}]]
    <3>1. \A p \in Proc : [epc |-> <<p, "u0">>, kernel_hartid |-> None]
                            \in [epc : Epc, kernel_hartid : Cpu \cup {None}]
      BY Zenon DEF Epc, UserPc
    <3>2. QED
      BY Zenon, <3>1 DEF Init
  <2>5. QED
    BY Zenon, <2>1, <2>2, <2>3, <2>4 DEF Types
<1>2. \A c \in Cpu : cpu[c].proc = None /\ cpu[c].noff = 0 /\ cpu[c].tp = c /\ cpu[c].sie = FALSE
        /\ cpu[c].stvec = "kernelvec" /\ cpu[c].user = FALSE
  BY Zenon DEF Init
<1>3. Alone
  BY Zenon, <1>2 DEF Alone
<1>4. \A t \in Thread : stack[t] = <<Frame(IF t \in Proc THEN "forkret" ELSE "loop", None)>>
  BY Zenon DEF Init, Thread
<1>5. \A t \in Thread : /\ StackOK(t, stack[t]) /\ Len(stack[t]) = 1 /\ stack[t] # <<>>
                        /\ stack[t][1].pc = IF t \in Proc THEN "forkret" ELSE "loop"
  BY Zenon, <1>4, InitFrames
<1>6. ASSUME NEW c \in Cpu PROVE CpuOK(c)
  <2>1. On(c) = c /\ Gone(c) /\ c \in Thread /\ c \notin Proc
    BY Zenon, <1>2 DEF On, Gone, Thread
  <2>2. Len(stack[c]) = 1 /\ stack[c] # <<>> /\ stack[c][1].pc = "loop"
    BY Zenon, <1>5, <2>1
  <2>3. KernelOK(c, cpu[c], stack[c][1], 1)
    BY Zenon, <1>2, <2>2, OneOrTwo DEF KernelOK, Locked
  <2>4. Runs(c, cpu[c], c, stack[c], frame[c], upc[c])
    BY Zenon, <1>2, <2>2, <2>3 DEF Runs
  <2>5. QED
    BY Zenon, <2>1, <2>4 DEF CpuOK
<1>7. ASSUME NEW p \in Proc PROVE Waiting(p) /\ frame[p].epc = <<p, upc[p]>>
  <2>1. Len(stack[p]) = 1 /\ stack[p] # <<>> /\ stack[p][1].pc = "forkret"
    BY Zenon, <1>5 DEF Thread
  <2>2. frame[p].epc = <<p, "u0">> /\ upc[p] = "u0"
    BY Zenon DEF Init
  <2>3. QED
    BY Zenon, <2>1, <2>2 DEF Waiting
<1>8. fault = ""
  BY Zenon DEF Init
<1>9. QED
  BY Zenon, <1>1, <1>3, <1>5, <1>6, <1>7, <1>8 DEF TrapInv

\* Every step of every CPU keeps the invariant.
LEMMA TrapNext == TrapInv /\ [Next]_vars => TrapInv'
<1> SUFFICES ASSUME TrapInv, [Next]_vars PROVE TrapInv'
  BY Zenon
<1>1. CASE UNCHANGED vars
  <2>1. cpu' = cpu /\ stack' = stack /\ upc' = upc /\ frame' = frame /\ state' = state /\ fault' = fault
    BY Zenon, <1>1 DEF vars
  <2>2. QED
    BY Zenon, <2>1 DEF TrapInv, Types, Alone, StackOK, CpuOK, Gone, Waiting, On
<1>2. ASSUME NEW c \in Cpu, NEW cause \in {"ecall", "timer", "device"}, usertrap(c, cause)
      PROVE  TrapInv'
  BY Zenon, <1>2, UsertrapStep
<1>3. ASSUME NEW c \in Cpu, NEW cause \in {"timer", "device"}, kerneltrap(c, cause)
      PROVE  TrapInv'
  BY Zenon, <1>3, KerneltrapStep
<1>4. ASSUME NEW c \in Cpu, syscall(c) \/ usertrapret(c) \/ userret(c) \/ restore(c) \/ scheduler(c)
      PROVE  TrapInv'
  BY Zenon, <1>4, SyscallStep, UsertrapretStep, UserretStep, RestoreStep, SchedulerStep
<1>5. ASSUME NEW c \in Cpu, release(c) \/ forkret(c) \/ switched(c) \/ sched(c) PROVE TrapInv'
  BY Zenon, <1>5, ReleaseStep
<1>6. ASSUME NEW c \in Cpu, yield(c) PROVE TrapInv'
  <2>1. On(c) \in Proc
    BY Zenon, <1>6, AtIs DEF yield, At, ProcPc
  <2>2. QED
    BY Zenon, <1>6, <2>1, YieldStep
<1>7. QED
  BY Zenon, <1>1, <1>2, <1>3, <1>4, <1>5, <1>6 DEF Next

\* No trap or switch of threads panics in usertrap, kerneltrap, sched or pop_off (kernel/trap.c,
\* kernel/proc.c, kernel/spinlock.c), for any number of processes and CPUs.
THEOREM TrapsDoNotPanic == Spec => []NoPanic
<1>1. TrapInv => NoPanic
  BY Zenon DEF TrapInv, NoPanic
<1>2. QED
  BY <1>1, TrapInit, TrapNext, PTL DEF Spec

\* A thread does not notice that it was interrupted: a trap returns to where it came from on
\* whatever CPU (usertrapret, kerneltrap's sepc and sstatus), with tp that CPU's number, at most
\* one interrupted place is on a kernel stack, and a system call runs with interrupts on exactly
\* while it holds no lock; for any number of processes and CPUs.
THEOREM TrapsResume == Spec => []Resumes
<1>1. TrapInv => Resumes
  <2> SUFFICES ASSUME TrapInv PROVE Resumes
    BY Zenon
  <2>1. TypeOK
    <3>1. ASSUME NEW c \in Cpu
          PROVE  /\ cpu[c].proc \in Proc \cup {None} /\ cpu[c].noff \in 0..1
                 /\ cpu[c].stvec \in {"kernelvec", "uservec"} /\ cpu[c].sie \in BOOLEAN
                 /\ cpu[c].spp \in BOOLEAN /\ cpu[c].spie \in BOOLEAN /\ cpu[c].user \in BOOLEAN
      BY Zenon DEF TrapInv, Types, CpuType
    <3>2. QED
      BY Zenon, <3>1 DEF TypeOK, TrapInv, Types
  <2>2. Returns
    BY Zenon DEF Returns, TrapInv
  <2>3. NotNested
    BY Zenon DEF NotNested, TrapInv, StackOK, Thread
  <2>4. OwnCpu
    <3>1. ASSUME NEW c \in Cpu, ~cpu[c].user PROVE cpu[c].tp = c
      BY Zenon, <3>1, AtIs DEF KernelOK
    <3>2. QED
      BY Zenon, <3>1 DEF OwnCpu, TrapInv, Alone
  <2>5. InterruptsOn
    <3> SUFFICES ASSUME NEW c \in Cpu, ~cpu[c].user, Pc(On(c)) \in {"syscall", "locked"}
                 PROVE  cpu[c].sie = (cpu[c].noff = 0)
      BY Zenon DEF InterruptsOn
    <3>1. KernelOK(c, cpu[c], Top(stack[On(c)]), Len(stack[On(c)])) /\ cpu[c] \in CpuType
      BY Zenon, AtIs
    <3>2. cpu[c].sie \in BOOLEAN /\ 0 # 1
      BY <3>1 DEF CpuType
    <3>3. CASE Pc(On(c)) = "syscall"
      <4>1. cpu[c].sie /\ cpu[c].noff = 0
        BY Zenon, <3>1, <3>3 DEF KernelOK, Locked, Pc
      <4>2. QED
        BY Zenon, <3>2, <4>1
    <3>4. CASE Pc(On(c)) = "locked"
      <4>1. ~cpu[c].sie /\ cpu[c].noff = 1
        BY Zenon, <3>1, <3>4 DEF KernelOK, Locked, Pc
      <4>2. QED
        BY Zenon, <3>2, <4>1
    <3>5. QED
      BY Zenon, <3>3, <3>4
  <2>6. QED
    BY Zenon, <2>1, <2>2, <2>3, <2>4, <2>5 DEF Resumes
<1>2. QED
  BY <1>1, TrapInit, TrapNext, PTL DEF Spec
===============================================================================
