--------------------------------- MODULE Shell --------------------------------
(***************************************************************************)
(* The shell at work (user/sh.c): main and runcmd as processes that fork,  *)
(* pipe, dup, close, exec, wait and exit.  A step of a process ends where  *)
(* it forks, blocks or starts a program.  Commands are those ShellParse    *)
(* makes; a program reads its input to the end ("cat") or does not read.   *)
(***************************************************************************)
EXTENDS Integers, FiniteSets, FiniteSetsExt

CONSTANTS Pid,      \* slots for processes; 1 is the shell, 0 stands for init
          Fd,       \* 0..NOFILE-1
          Cmds,     \* the lines that are typed
          Lines     \* bound: how many

VARIABLES proc,     \* of each slot: state, cmd, pc, parent, descriptors; history: bg, under "&"
          lines,    \* how many lines have been read
          panicked  \* history: a fork has failed

vars == <<proc, lines, panicked>>

Closed == <<"closed", 0>>
Tty == [f \in Fd |-> IF f <= 2 THEN <<"tty", 0>> ELSE Closed]
NoCmd == [type |-> "NONE"]
Free == [state |-> "UNUSED", cmd |-> NoCmd, pc |-> "", parent |-> 0,
         fd |-> [f \in Fd |-> Closed], p |-> <<0, 0>>, bg |-> FALSE]

\* The descriptor calls; what is open is <<kind, pipe>>.
close(fd, f) == [fd EXCEPT ![f] = Closed]
Lowest(fd) == Min({f \in Fd : fd[f] = Closed})
Open(fd, what) == [fd EXCEPT ![Lowest(fd)] = what]
dup(fd, f) == Open(fd, fd[f])
-------------------------------------------------------------------------------
\* exit: the descriptors are closed, children go to init, which reaps them at once.
Exited_in(i, ps, fd) ==
  [j \in Pid |->
     IF j = i THEN IF ps[i].parent = 0 THEN Free
                   ELSE [Free EXCEPT !.state = "ZOMBIE", !.parent = ps[i].parent,
                                     !.bg = ps[i].bg, !.fd = fd]
     ELSE IF ps[j].parent # i \/ ps[j].state = "UNUSED" THEN ps[j]
     ELSE IF ps[j].state = "ZOMBIE" THEN Free ELSE [ps[j] EXCEPT !.parent = 0]]
\* Mutant: the descriptors stay open until the zombie is reaped.
ExitedOpen(i, ps) == Exited_in(i, ps, ps[i].fd)
Exited(i, ps) == Exited_in(i, ps, Free.fd)
exit(i) == proc' = Exited(i, proc) /\ UNCHANGED <<lines, panicked>>

\* fork1: the child runs c with the descriptors fd; the parent goes on as me.
fork1(i, me, c, fd, bg) ==
  LET slots == {j \in Pid : proc[j].state = "UNUSED"}
      child == [Free EXCEPT !.state = "RUN", !.cmd = c, !.pc = "runcmd", !.parent = i,
                            !.fd = fd, !.bg = me.bg \/ bg]
  IN  IF slots = {} THEN proc' = Exited(i, proc) /\ panicked' = TRUE
      ELSE /\ proc' = [proc EXCEPT ![i] = me, ![Min(slots)] = child]
           /\ UNCHANGED panicked

Children(i) == {j \in Pid : proc[j].state # "UNUSED" /\ proc[j].parent = i}
\* wait(0) takes any zombie; without children it returns at once.
wait(i, me) ==
  /\ \/ Children(i) = {} /\ proc' = [proc EXCEPT ![i] = me]
     \/ \E j \in Children(i) : /\ proc[j].state = "ZOMBIE"
                               /\ proc' = [proc EXCEPT ![i] = me, ![j] = Free]
  /\ UNCHANGED <<lines, panicked>>
CanWait(i) == Children(i) = {} \/ \E j \in Children(i) : proc[j].state = "ZOMBIE"
-------------------------------------------------------------------------------
At(i, pc) == proc[i].state = "RUN" /\ proc[i].pc = pc
Runs(i, type) == At(i, "runcmd") /\ proc[i].cmd.type = type
Goto(i, pc) == [proc[i] EXCEPT !.pc = pc]

\* exec works, or "exec failed" and exit.
EXEC(i) ==
  /\ Runs(i, "EXEC")
  /\ \/ proc[i].cmd.argv # <<>> /\ proc' = [proc EXCEPT ![i].pc = "program"]
     \/ proc' = Exited(i, proc)
  /\ UNCHANGED <<lines, panicked>>

\* A program exits; one that reads a pipe, when there is no writer any more.
Writers(k) == {j \in Pid : \E f \in Fd : proc[j].fd[f] = <<"w", k>>}
CanExit(i) ==
  LET in == proc[i].fd[0]
  IN  proc[i].cmd.argv = <<"cat">> /\ in[1] = "r" => Writers(in[2]) = {}
program(i) == At(i, "program") /\ CanExit(i) /\ exit(i)

REDIR(i) ==
  LET me == proc[i]
      fd == Open(close(me.fd, IF me.cmd.mode = "<" THEN 0 ELSE 1), <<"file", 0>>)
  IN  /\ Runs(i, "REDIR")
      /\ \/ proc' = [proc EXCEPT ![i] = [me EXCEPT !.fd = fd, !.cmd = me.cmd.cmd]]
         \/ proc' = Exited(i, proc)
      /\ UNCHANGED <<lines, panicked>>

LIST(i) ==
  /\ Runs(i, "LIST") /\ fork1(i, Goto(i, "list"), proc[i].cmd.left, proc[i].fd, FALSE)
  /\ UNCHANGED lines
list_wait(i) ==
  /\ At(i, "list")
  /\ wait(i, [Goto(i, "runcmd") EXCEPT !.cmd = proc[i].cmd.right])

\* The child's close, dup, close, close before it runs its half.
Half(fd, p, out) ==
  LET std == IF out THEN 1 ELSE 0
      end == IF out THEN p[2] ELSE p[1]
  IN  close(close(dup(close(fd, std), end), p[1]), p[2])
pipe_left(i) ==
  LET me == proc[i]
      p1 == Lowest(me.fd)
      new == Min(Pid \ {proc[j].fd[f][2] : j \in Pid, f \in Fd})
      p2 == Lowest(Open(me.fd, <<"r", new>>))
      fd == [me.fd EXCEPT ![p1] = <<"r", new>>, ![p2] = <<"w", new>>]
  IN  /\ Runs(i, "PIPE")
      /\ fork1(i, [Goto(i, "pipe") EXCEPT !.fd = fd, !.p = <<p1, p2>>], me.cmd.left,
               Half(fd, <<p1, p2>>, TRUE), FALSE)
      /\ UNCHANGED lines
\* Mutants of HalfRight and of Closes: a write end stays open.
HalfRightOpen(fd, p) == close(dup(close(fd, 0), p[1]), p[1])
HalfRight(fd, p) == Half(fd, p, FALSE)
ClosesOne(fd, p) == close(fd, p[1])
Closes(fd, p) == close(close(fd, p[1]), p[2])
pipe_right(i) ==
  LET me == proc[i]
  IN  /\ At(i, "pipe")
      /\ fork1(i, [Goto(i, "wait2") EXCEPT !.fd = Closes(me.fd, me.p), !.p = <<0, 0>>],
               me.cmd.right, HalfRight(me.fd, me.p), FALSE)
      /\ UNCHANGED lines
\* Mutant of pipe_wait: one wait for two children.
waitOnce(i) == At(i, "wait2") /\ wait(i, Goto(i, "exit"))
pipe_wait(i) == At(i, "wait2") /\ wait(i, Goto(i, "wait1"))
pipe_wait2(i) == At(i, "wait1") /\ wait(i, Goto(i, "exit"))

BACK(i) ==
  /\ Runs(i, "BACK") /\ fork1(i, Goto(i, "exit"), proc[i].cmd.cmd, proc[i].fd, TRUE)
  /\ UNCHANGED lines

leaves(i) == At(i, "exit") /\ exit(i)
-------------------------------------------------------------------------------
\* getcmd; then fork1 of a process that parses and runs the line, or cd, which the
\* shell does itself; at the end of the input it exits.
main(i) ==
  /\ At(i, "main") /\ lines < Lines /\ lines' = lines + 1
  /\ \/ \E c \in Cmds : fork1(i, Goto(i, "main_wait"), c, proc[i].fd, FALSE)
     \/ UNCHANGED <<proc, panicked>>
     \/ proc' = Exited(i, proc) /\ UNCHANGED panicked
main_wait(i) == At(i, "main_wait") /\ wait(i, Goto(i, "main"))

Init ==
  /\ proc = [j \in Pid |-> IF j = 1 THEN [Free EXCEPT !.state = "RUN", !.pc = "main", !.fd = Tty]
                           ELSE Free]
  /\ lines = 0 /\ panicked = FALSE

Next ==
  \E i \in Pid :
    \/ EXEC(i) \/ program(i) \/ REDIR(i) \/ LIST(i) \/ list_wait(i) \/ pipe_left(i)
    \/ pipe_right(i) \/ pipe_wait(i) \/ pipe_wait2(i) \/ BACK(i) \/ leaves(i)
    \/ main(i) \/ main_wait(i)

Spec == Init /\ [][Next]_vars
-------------------------------------------------------------------------------
\* The type invariant; only a running process holds descriptors (exit closes them).
TypeOK ==
  /\ lines \in 0..Lines /\ panicked \in BOOLEAN
  /\ \A i \in Pid :
       /\ proc[i].state \in {"UNUSED", "RUN", "ZOMBIE"} /\ proc[i].parent \in Pid \cup {0}
       /\ proc[i].state # "RUN" => \A f \in Fd : proc[i].fd[f] = Closed

\* A program starts with descriptors 0, 1 and 2 and no other: every end of every pipe
\* that fork handed down has been closed (runcmd, PIPE).
NoLeak ==
  \A i \in Pid : At(i, "program") =>
    {f \in Fd : proc[i].fd[f] # Closed} = {0, 1, 2}

\* Whatever commands are typed, some process can go on until the shell is back at its
\* prompt: no reader waits for the end of a pipe whose write end is held by a process
\* that waits for it.
NeverStuck ==
  \/ \E i \in Pid :
       /\ proc[i].state = "RUN"
       /\ CASE proc[i].pc = "program" -> CanExit(i)
            [] proc[i].pc \in {"list", "wait1", "wait2", "main_wait"} -> CanWait(i)
            [] proc[i].pc = "main" -> lines < Lines
            [] OTHER -> TRUE
  \/ At(1, "main") \/ proc[1].state # "RUN"

\* At the prompt everything that was typed without "&" has ended, unless a fork failed.
ForegroundDone ==
  At(1, "main") /\ ~panicked => \A i \in Pid \ {1} : proc[i].state # "UNUSED" => proc[i].bg
===============================================================================
