------------------------------- MODULE FileTable -------------------------------
(***************************************************************************)
(* The system-wide file table (kernel/file.c) and the descriptor tables of *)
(* the processes: open, pipe, dup, close (kernel/sysfile.c), pipealloc and *)
(* pipeclose (kernel/pipe.c), and what fork and exit do with descriptors.  *)
(*                                                                         *)
(* A step is what one lock protects: a look at ftable, a pipe or the inode *)
(* table.  p->ofile is touched by its own process only, so that what a     *)
(* call does to it joins the step before.  The work a call still has to do *)
(* before it returns is the list todo[p]: one fileclose, pipeclose or iput *)
(* at a time.  Inodes are counts of references here; Inode has the rest.   *)
(***************************************************************************)
EXTENDS Integers, Sequences, FiniteSets, FiniteSetsExt, SequencesExt, Functions

CONSTANTS Proc, Inode,
          Pipe,      \* pages kalloc can give to pipes
          None,      \* a null pointer
          NFILE, NOFILE

File == 1..NFILE
Fd == 0..(NOFILE - 1)
Obj == Pipe \cup Inode \cup {None}

VARIABLES file,   \* struct file: ref, type, obj (its pipe or inode), writable
          ofile,  \* p->ofile
          cwd,    \* p->cwd; None for a process slot that is not in use
          open,   \* of each pipe, the ends that are open (FALSE read, TRUE write)
          iref,   \* ip->ref
          pc,     \* where each process is
          held,   \* the file or inode pointers a call has in local variables
          todo    \* what the call still does before it returns

vars == <<file, ofile, cwd, open, iref, pc, held, todo>>

\* An entry that is not in use; only ref and type of it are ever looked at.
Unused == [ref |-> 0, type |-> "FD_NONE", obj |-> None, writable |-> FALSE]
\* The entries of todo.
close(f) == [do |-> "fileclose", f |-> f]
put(ip) == [do |-> "iput", ip |-> ip]
pclose(pi, w) == [do |-> "pipeclose", pi |-> pi, writable |-> w]

\* userinit: one process, with a working directory and no descriptor.
Init ==
  /\ file = [f \in File |-> Unused]
  /\ ofile = [p \in Proc |-> [fd \in Fd |-> None]]
  /\ \E p \in Proc, ip \in Inode :
       /\ cwd = [q \in Proc |-> IF q = p THEN ip ELSE None]
       /\ iref = [j \in Inode |-> IF j = ip THEN 1 ELSE 0]
  /\ open = [pi \in Pipe |-> {}]
  /\ pc = [p \in Proc |-> IF cwd[p] = None THEN "unused" ELSE "user"]
  /\ held = [p \in Proc |-> <<>>]
  /\ todo = [p \in Proc |-> <<>>]

\* The call of p goes on at l, holding h, or works off the list w and returns.
at(p, l, h, w) ==
  /\ pc' = [pc EXCEPT ![p] = IF l = "return" /\ w = <<>> THEN "user" ELSE l]
  /\ held' = [held EXCEPT ![p] = h]
  /\ todo' = [todo EXCEPT ![p] = w]

\* filealloc: the first entry without references.
filealloc == LET free == {f \in File : file[f].ref = 0}
             IN  IF free = {} THEN None ELSE Min(free)

\* fdalloc: the lowest descriptors that are free.
freefds(p) == SetToSortSeq({fd \in Fd : ofile[p][fd] = None}, <)
-------------------------------------------------------------------------------
(***************************************************************************)
(* open                                                                    *)
(***************************************************************************)
\* namei or create: a locked inode with one more reference.
open_namei(p, ip) ==
  /\ pc[p] = "user"
  /\ iref' = [iref EXCEPT ![ip] = @ + 1]
  /\ at(p, "open", <<ip>>, <<>>)
  /\ UNCHANGED <<file, ofile, cwd, open>>

\* Mutant of open_alloc: when fdalloc fails, f is not closed.
open_allocLeak(p, w) ==
  LET f == filealloc  ip == held[p][1]  fds == freefds(p)
  IN
  /\ pc[p] = "open"
  /\ \/ /\ f = None \/ fds = <<>>
        /\ file' = IF f = None THEN file ELSE [file EXCEPT ![f].ref = 1]
        /\ at(p, "return", <<>>, <<put(ip)>>)
        /\ UNCHANGED ofile
     \/ /\ f # None /\ fds # <<>>
        /\ file' = [file EXCEPT ![f] = [ref |-> 1, type |-> "FD_INODE",
                                        obj |-> ip, writable |-> w]]
        /\ ofile' = [ofile EXCEPT ![p][fds[1]] = f]
        /\ at(p, "return", <<>>, <<>>)
  /\ UNCHANGED <<cwd, open, iref>>

\* filealloc and fdalloc; a device without a driver, or no descriptor, and the
\* references are given back.
open_alloc(p, w) ==
  LET f == filealloc  ip == held[p][1]  fds == freefds(p)
  IN
  /\ pc[p] = "open"
  /\ \/ /\ at(p, "return", <<>>, <<put(ip)>>)
        /\ UNCHANGED <<file, ofile>>
     \/ /\ f # None /\ fds = <<>>
        /\ file' = [file EXCEPT ![f].ref = 1]
        /\ at(p, "return", <<>>, <<close(f), put(ip)>>)
        /\ UNCHANGED ofile
     \/ /\ f # None /\ fds # <<>>
        /\ file' = [file EXCEPT ![f] = [ref |-> 1, type |-> "FD_INODE",
                                        obj |-> ip, writable |-> w]]
        /\ ofile' = [ofile EXCEPT ![p][fds[1]] = f]
        /\ at(p, "return", <<>>, <<>>)
  /\ UNCHANGED <<cwd, open, iref>>

(***************************************************************************)
(* pipe: pipealloc takes two table entries and a page one after the other. *)
(***************************************************************************)
pipe_filealloc(p) ==
  LET f == filealloc
      w == [k \in DOMAIN held[p] |-> close(held[p][k])]
  IN
  /\ \/ pc[p] = "user"
     \/ pc[p] = "pipe" /\ Len(held[p]) = 1
  /\ IF f = None
     THEN /\ at(p, "return", <<>>, w)
          /\ UNCHANGED file
     ELSE /\ file' = [file EXCEPT ![f].ref = 1]
          /\ at(p, "pipe", Append(held[p], f), <<>>)
  /\ UNCHANGED <<ofile, cwd, open, iref>>

\* kalloc fails: both entries are closed, which have no type yet.
pipe_nopage(p) ==
  /\ pc[p] = "pipe" /\ Len(held[p]) = 2
  /\ at(p, "return", <<>>, <<close(held[p][1]), close(held[p][2])>>)
  /\ UNCHANGED <<file, ofile, cwd, open, iref>>

\* The pipe is set up; the descriptors may run out, or copyout may fail.
pipe_fds(p, pi) ==
  LET rf == held[p][1]  wf == held[p][2]  fds == freefds(p)
  IN
  /\ pc[p] = "pipe" /\ Len(held[p]) = 2 /\ open[pi] = {}
  /\ open' = [open EXCEPT ![pi] = BOOLEAN]
  /\ file' = [file EXCEPT ![rf] = [@ EXCEPT !.type = "FD_PIPE", !.obj = pi,
                                            !.writable = FALSE],
                          ![wf] = [@ EXCEPT !.type = "FD_PIPE", !.obj = pi,
                                            !.writable = TRUE]]
  /\ \/ /\ at(p, "return", <<>>, <<close(rf), close(wf)>>)
        /\ UNCHANGED ofile
     \/ /\ Len(fds) >= 2
        /\ ofile' = [ofile EXCEPT ![p][fds[1]] = rf, ![p][fds[2]] = wf]
        /\ at(p, "return", <<>>, <<>>)
  /\ UNCHANGED <<cwd, iref>>
-------------------------------------------------------------------------------
(***************************************************************************)
(* dup, close and the work list                                            *)
(***************************************************************************)
\* argfd, fdalloc and filedup.
sys_dup(p, fd) ==
  LET f == ofile[p][fd]  fds == freefds(p)
  IN
  /\ pc[p] = "user" /\ f # None /\ fds # <<>>
  /\ ofile' = [ofile EXCEPT ![p][fds[1]] = f]
  /\ file' = [file EXCEPT ![f].ref = @ + 1]
  /\ UNCHANGED <<cwd, open, iref, pc, held, todo>>

sys_close(p, fd) ==
  /\ pc[p] = "user" /\ ofile[p][fd] # None
  /\ ofile' = [ofile EXCEPT ![p][fd] = None]
  /\ at(p, "return", <<>>, <<close(ofile[p][fd])>>)
  /\ UNCHANGED <<file, cwd, open, iref>>

\* The next entry of the work list is done, and replaced by the list w.
done(p, w) ==
  LET rest == w \o Tail(todo[p])
  IN  /\ todo' = [todo EXCEPT ![p] = rest]
      /\ pc' = [pc EXCEPT ![p] = IF rest = <<>> /\ @ = "return" THEN "user" ELSE @]
      /\ UNCHANGED <<ofile, cwd, held>>

doing(p, what) == todo[p] # <<>> /\ todo[p][1].do = what

\* What is left to do for the file whose last reference went away.
finish(f) == CASE file[f].type = "FD_PIPE" -> <<pclose(file[f].obj, file[f].writable)>>
               [] file[f].type = "FD_INODE" -> <<put(file[f].obj)>>
               [] OTHER -> <<>>

\* Mutant of fileclose: f->type = FD_NONE is left out.
filecloseType(p) ==
  LET f == todo[p][1].f
  IN
  /\ doing(p, "fileclose")
  /\ file' = [file EXCEPT ![f].ref = @ - 1]
  /\ done(p, IF file[f].ref > 1 THEN <<>> ELSE finish(f))
  /\ UNCHANGED <<open, iref>>

fileclose(p) ==
  LET f == todo[p][1].f
  IN
  /\ doing(p, "fileclose")
  /\ file' = [file EXCEPT ![f] = IF @.ref > 1 THEN [@ EXCEPT !.ref = @ - 1]
                                 ELSE Unused]
  /\ done(p, IF file[f].ref > 1 THEN <<>> ELSE finish(f))
  /\ UNCHANGED <<open, iref>>

\* Mutant of pipeclose: the wrong end is closed.
pipecloseSwap(p) ==
  /\ doing(p, "pipeclose")
  /\ open' = [open EXCEPT ![todo[p][1].pi] = @ \ {~ todo[p][1].writable}]
  /\ done(p, <<>>)
  /\ UNCHANGED <<file, iref>>
\* The page is given back when both ends are closed.
pipeclose(p) ==
  /\ doing(p, "pipeclose")
  /\ open' = [open EXCEPT ![todo[p][1].pi] = @ \ {todo[p][1].writable}]
  /\ done(p, <<>>)
  /\ UNCHANGED <<file, iref>>

iput(p) ==
  /\ doing(p, "iput")
  /\ iref' = [iref EXCEPT ![todo[p][1].ip] = @ - 1]
  /\ done(p, <<>>)
  /\ UNCHANGED <<file, open>>
-------------------------------------------------------------------------------
(***************************************************************************)
(* fork and exit                                                           *)
(***************************************************************************)
\* The child gets every descriptor and the working directory of its parent.
\* Mutant of fork: filedup is left out.
forkShare(p, q) ==
  /\ pc[p] = "user" /\ pc[q] = "unused"
  /\ ofile' = [ofile EXCEPT ![q] = ofile[p]]
  /\ cwd' = [cwd EXCEPT ![q] = cwd[p]]
  /\ iref' = [iref EXCEPT ![cwd[p]] = @ + 1]
  /\ pc' = [pc EXCEPT ![q] = "user"]
  /\ UNCHANGED <<file, open, held, todo>>
fork(p, q) ==
  /\ pc[p] = "user" /\ pc[q] = "unused"
  /\ ofile' = [ofile EXCEPT ![q] = ofile[p]]
  /\ file' = [f \in File |->
                [file[f] EXCEPT !.ref = @ + Cardinality({fd \in Fd : ofile[p][fd] = f})]]
  /\ cwd' = [cwd EXCEPT ![q] = cwd[p]]
  /\ iref' = [iref EXCEPT ![cwd[p]] = @ + 1]
  /\ pc' = [pc EXCEPT ![q] = "user"]
  /\ UNCHANGED <<open, held, todo>>

\* exit closes the descriptors from the lowest up, then puts the directory.
exit(p) ==
  LET fds == SetToSortSeq({fd \in Fd : ofile[p][fd] # None}, <)
  IN
  /\ pc[p] = "user" /\ \E q \in Proc \ {p} : cwd[q] # None
  /\ ofile' = [ofile EXCEPT ![p] = [fd \in Fd |-> None]]
  /\ cwd' = [cwd EXCEPT ![p] = None]
  /\ at(p, "exit", <<>>, Append([k \in DOMAIN fds |-> close(ofile[p][fds[k]])],
                                put(cwd[p])))
  /\ UNCHANGED <<file, open, iref>>

\* wait: freeproc
reap(p) ==
  /\ pc[p] = "exit" /\ todo[p] = <<>>
  /\ pc' = [pc EXCEPT ![p] = "unused"]
  /\ UNCHANGED <<file, ofile, cwd, open, iref, held, todo>>

Next ==
  \/ \E p \in Proc, ip \in Inode : open_namei(p, ip)
  \/ \E p \in Proc, w \in BOOLEAN : open_alloc(p, w)
  \/ \E p \in Proc : pipe_filealloc(p)
  \/ \E p \in Proc : pipe_nopage(p)
  \/ \E p \in Proc, pi \in Pipe : pipe_fds(p, pi)
  \/ \E p \in Proc, fd \in Fd : sys_dup(p, fd)
  \/ \E p \in Proc, fd \in Fd : sys_close(p, fd)
  \/ \E p \in Proc : fileclose(p)
  \/ \E p \in Proc : pipeclose(p)
  \/ \E p \in Proc : iput(p)
  \/ \E p, q \in Proc : fork(p, q)
  \/ \E p \in Proc : exit(p)
  \/ \E p \in Proc : reap(p)

Spec == Init /\ [][Next]_vars
-------------------------------------------------------------------------------
(***************************************************************************)
(* Properties                                                              *)
(***************************************************************************)
\* The values the variables take.
TypeOK ==
  /\ file \in [File -> [ref : Nat, type : {"FD_NONE", "FD_PIPE", "FD_INODE"},
                        obj : Obj, writable : BOOLEAN]]
  /\ ofile \in [Proc -> [Fd -> File \cup {None}]]
  /\ cwd \in [Proc -> Inode \cup {None}]
  /\ open \in [Pipe -> SUBSET BOOLEAN]
  /\ iref \in [Inode -> Nat]
  /\ pc \in [Proc -> {"unused", "user", "open", "pipe", "return", "exit"}]
  /\ \A p \in Proc : held[p] \in Seq(File \cup Inode)

\* The entries of the work lists that satisfy P.
Pending(P(_)) ==
  {<<p, k>> \in Proc \X (1..(NOFILE + 2)) : k <= Len(todo[p]) /\ P(todo[p][k])}
Holding(x) ==
  {<<p, k>> \in Proc \X (1..2) : k <= Len(held[p]) /\ held[p][k] = x}

\* f->ref is the number of descriptors of all processes that name f, with the
\* references that calls under way hold or are about to drop: no file is freed
\* under a descriptor, none leaks on an error path, and the panics of filedup
\* and fileclose are out of reach.
RefExact ==
  \A f \in File :
    file[f].ref = Cardinality({<<p, fd>> \in Proc \X Fd : ofile[p][fd] = f})
                  + Cardinality(Holding(f))
                  + Cardinality(Pending(LAMBDA w : w = close(f)))

\* ip->ref is the number of open files, working directories and calls under
\* way that use the inode (what iput relies on to free it).
InodeRefs ==
  \A ip \in Inode :
    iref[ip] = Cardinality({f \in File : file[f].ref > 0 /\ file[f].obj = ip})
               + Cardinality({p \in Proc : cwd[p] = ip})
               + Cardinality(Holding(ip))
               + Cardinality(Pending(LAMBDA w : w = put(ip)))

\* An end of a pipe is open exactly as long as one file in use is that end, or
\* its pipeclose is under way: the other end sees end of file when the last
\* descriptor goes, not before, and the page is freed once.
EndsOpen ==
  \A pi \in Pipe, w \in BOOLEAN :
    LET ends == {f \in File : /\ file[f].ref > 0 /\ file[f].type = "FD_PIPE"
                              /\ file[f].obj = pi /\ file[f].writable = w}
    IN  /\ Cardinality(ends)
             + Cardinality(Pending(LAMBDA t : t = pclose(pi, w))) <= 1
        /\ w \in open[pi] <=> \/ ends # {}
                              \/ Pending(LAMBDA t : t = pclose(pi, w)) # {}

\* A process in user space only has descriptors of files that are set up: the
\* panics at the end of fileread and filewrite are out of reach.
DescriptorsUsable ==
  \A p \in Proc, fd \in Fd :
    pc[p] = "user" /\ ofile[p][fd] # None => file[ofile[p][fd]].type # "FD_NONE"
===============================================================================
