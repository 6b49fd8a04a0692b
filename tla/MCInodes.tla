------------------------------- MODULE MCInodes -------------------------------
(***************************************************************************)
(* Small instances of Trap and Inodes for TLC.  A behaviour is one of the  *)
(* component named by part; the variables of the other one stay as they    *)
(* are.                                                                    *)
(***************************************************************************)
EXTENDS Trap, TLC

CONSTANTS p1, p2, User, Inode, Name, Call, MaxStray    \* Inodes
VARIABLES part,
          disk, saved, ref, valid, lock, cwd, file, at, stray

rooted(op, path) == [op |-> op, abs |-> TRUE, path |-> path]
here(op, path) == [op |-> op, abs |-> FALSE, path |-> path]

\* One process makes and removes directories, the other works in them.
MCCall ==
  p1 :> {rooted("mkdir", <<"a">>), rooted("mkdir", <<"a", "b">>),
         rooted("unlink", <<"a">>), rooted("unlink", <<"a", "b">>),
         [op |-> "link", abs |-> TRUE, path |-> <<"b">>, new |-> <<"a", "b">>]}
  @@ p2 :> {rooted("chdir", <<"a">>), here("create", <<"b">>),
            [op |-> "open", abs |-> FALSE, path |-> <<"b">>, write |-> TRUE]}

I == INSTANCE Inodes WITH Proc <- User

ASSUME InodesAssumption == I!Constants

inodeVars == <<disk, saved, ref, valid, lock, cwd, file, at, stray>>

MCInit == part \in {"trap", "names"} /\ Init /\ I!Init
MCNext ==
  /\ UNCHANGED part
  /\ \/ part = "trap" /\ Next /\ UNCHANGED inodeVars
     \/ part = "names" /\ I!Next /\ UNCHANGED vars
MCSpec == MCInit /\ [][MCNext]_<<part, vars, inodeVars>>
\* Names without crashes.
MCUp ==
  /\ MCInit /\ part = "names"
  /\ [][part = "names" /\ I!Calls /\ UNCHANGED <<part, vars>>]_<<part, vars, inodeVars>>

\* The registers sepc, spp and spie are not told apart between a trap, which sets them,
\* and the return from one.
Seen ==
  <<part,
    IF part = "names" THEN inodeVars
    ELSE <<[c \in Cpu |-> [cpu[c] EXCEPT !.sepc = None, !.spp = FALSE, !.spie = FALSE]],
           stack, upc, frame, state, fault>>>>
Symmetry == Permutations(Cpu) \cup Permutations(Proc)
-------------------------------------------------------------------------------
\* ref is the number of pointers to an inode, on every path through every call (iget,
\* idup, iput, namex), and locks are held only on inodes a call uses.
Pointers == part = "names" => I!TypeOK /\ I!RefsExact

\* At every crash the link count of an inode on the disk is the number of entries that
\* name it, and an inode without links that nobody uses has been freed (iput).
Links == part = "names" => I!LinksExact /\ I!NoGarbage

\* An inode in use is not freed, and the panics of ilock, sys_unlink, dirlookup and sched
\* are not reached.
Safe == part = "names" => I!NoPanic /\ I!InUse

\* The comment of iput: "If that was the last reference and the inode has no links to
\* it, free the inode (and its content) on disk."  An inode without links is in use
\* or free, as long as there is no crash.
Unlinked == I!Unlinked
===============================================================================
