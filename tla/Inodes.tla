-------------------------------- MODULE Inodes --------------------------------
(***************************************************************************)
(* Inodes, directories and the calls on names (kernel/fs.c, kernel/        *)
(* sysfile.c): link, unlink, open, mkdir, mknod, chdir and close by        *)
(* several processes at once, with crashes.                                *)
(*                                                                         *)
(* A step is what a process does while it holds an inode's sleep-lock from *)
(* ilock to the next point where it may wait or where it has let the lock  *)
(* go; an iput is a step of its own.  The log is what AtomicDisk says: the *)
(* writes of the calls that run together reach the disk when the last one  *)
(* ends, all or none.  A directory is a function from names to inodes; its *)
(* blocks are the subject of FileData, and here any new entry may find the *)
(* disk full.  An inode has one slot of the inode table (NINODE is enough).*)
(***************************************************************************)
EXTENDS Naturals, Sequences, FiniteSets, FiniteSetsExt, Functions, TLC

CONSTANTS Proc,
          Inode,    \* inode numbers, 1 to sb.ninodes - 1
          Name,     \* names other than "." and ".."
          Call,     \* of each process, the calls it makes: [op, abs, path] and, for
                    \* link, new (an absolute path), for open, write
          MaxStray, \* bound: no crash when more inodes than this are stray
          None

ROOTINO == 1
AnyName == Name \cup {".", ".."}
\* The type that create is called with.  Mutant: mkdir passes none.
CreatesFree == [create |-> "file", mkdir |-> "free", mknod |-> "device"]
Creates == [create |-> "file", mkdir |-> "dir", mknod |-> "device"]

\* What the sets are like.
Constants ==
  /\ ROOTINO \in Inode /\ Inode \subseteq Nat \ {0} /\ IsFiniteSet(Inode)
  /\ None \notin Proc /\ {".", ".."} \cap Name = {}

VARIABLES disk,   \* type, nlink and entries of every inode, as the buffers have them
          saved,  \* the same, as the last commit left them
          ref, valid, lock,   \* struct inode
          cwd, file,          \* of each process: p->cwd and one open file
          at,     \* of each process: the call and how far it is
          stray   \* unlinked inodes that were in use at a crash, or came to be shared
                  \* with a process that has freed them and not yet dropped them

vars == <<disk, saved, ref, valid, lock, cwd, file, at, stray>>

\* ip is the inode to lock next; dp another that the call has a reference to; puts
\* those to iput before the call goes on; freed, that iput has freed the first.
Idle == [pc |-> "idle", call |-> None, path |-> <<>>, ip |-> 0, dp |-> 0,
         puts |-> <<>>, freed |-> FALSE]
NoEntries == [n \in AnyName |-> 0]

\* An empty file system, as mkfs leaves it, and processes started in it.
Init ==
  /\ disk = [type |-> [i \in Inode |-> IF i = ROOTINO THEN "dir" ELSE "free"],
             nlink |-> [i \in Inode |-> IF i = ROOTINO THEN 1 ELSE 0],
             ents |-> [i \in Inode |-> IF i = ROOTINO
                        THEN [NoEntries EXCEPT !["."] = ROOTINO, ![".."] = ROOTINO]
                        ELSE NoEntries],
             lost |-> [i \in Inode |-> 0]]
  /\ saved = disk
  /\ ref = [i \in Inode |-> IF i = ROOTINO THEN Cardinality(Proc) ELSE 0]
  /\ valid = [i \in Inode |-> i = ROOTINO]
  /\ lock = [i \in Inode |-> None]
  /\ cwd = [p \in Proc |-> ROOTINO]
  /\ file = [p \in Proc |-> 0]
  /\ at = [p \in Proc |-> Idle]
  /\ stray = {}
-------------------------------------------------------------------------------
At(p, pc) == at[p].pc = pc /\ at[p].puts = <<>>
Outstanding == {p \in Proc : at[p].pc # "idle"}

\* The inode with this name in directory d; 0 if there is none.
dirlookup(d, n) == disk.ents[d][n]

\* iput frees the inode.  Mutant: also when others use it.
FreesShared(refs, known, nlink) == known /\ nlink = 0
Frees(refs, known, nlink) == refs = 1 /\ known /\ nlink = 0

\* p goes on with its call: a new reference to got (unless 0), an iput of each of
\* change.puts.  Those that free the inode come later, as steps of their own; the
\* others, and the end_op of a call that has nothing more to do, are part of the
\* step.  An inode in use is valid once it has been locked (ip, in every step that
\* locks one); iget starts afresh.  The last of the calls to end commits what all of them wrote.
Goes(p, got, change) ==
  LET puts == IF "puts" \in DOMAIN change THEN change.puts ELSE <<>>
      known(i) == valid[i] \/ i = at[p].ip
      counted == [i \in Inode |-> IF i = got THEN ref[i] + 1 ELSE ref[i]]
      frees(i) == Frees(counted[i], known(i), disk'.nlink[i])
      new == [puts |-> SelectSeq(puts, frees)] @@ change @@ at[p]
      end == new.pc = "end" /\ new.puts = <<>>
  IN
  /\ ref' = [i \in Inode |-> IF i \in Range(puts) /\ ~frees(i) THEN counted[i] - 1
                             ELSE counted[i]]
  /\ valid' = [i \in Inode |-> known(i) /\ ref'[i] > 0]
  /\ at' = [at EXCEPT ![p] = IF end THEN Idle ELSE new]
  /\ saved' = IF end /\ Outstanding \cup {p} = {p} THEN disk' ELSE saved

Ends(p, puts) == Goes(p, 0, [Idle EXCEPT !.pc = "end", !.puts = puts])

\* What the call does when no inode is found; link must take back its nlink++.
Fails(p, puts) ==
  IF at[p].call.op = "link" /\ at[p].dp # 0
  THEN Goes(p, 0, [pc |-> "link_bad", path |-> <<>>, ip |-> at[p].dp, dp |-> 0, puts |-> puts])
  ELSE Ends(p, puts)

\* acquiresleep, when nobody else has the lock; the inode read has a type.
ilock(p) ==
  LET i == at[p].ip
  IN  /\ lock[i] = None
      /\ valid[i] \/ disk.type[i] # "free"

\* p is at a panic: of ilock, dirlookup, sys_unlink or, with the lock not free, of the
\* acquiresleep in iput (sched: a spin-lock is held).
Panics(p) ==
  IF at[p].puts # <<>>
  THEN ~at[p].freed /\ lock[Head(at[p].puts)] \notin {None, p}
  ELSE /\ at[p].pc \notin {"idle", "unlink_end", "create_fail", "created"}
       /\ lock[at[p].ip] = None
       /\ \/ ~valid[at[p].ip] /\ disk.type[at[p].ip] = "free"
          \/ at[p].pc \in {"link_parent", "unlink", "create"}
               /\ disk.type[at[p].ip] # "dir"
          \/ at[p].pc = "unlink_child" /\ disk.nlink[at[p].ip] = 0

\* iput of the last reference to an inode without links: it is locked,
iput_lock(p) ==
  /\ at[p].puts # <<>> /\ ~at[p].freed
  /\ lock[Head(at[p].puts)] = None
  /\ lock' = [lock EXCEPT ![Head(at[p].puts)] = p]
  /\ UNCHANGED <<disk, saved, ref, valid, cwd, file, at, stray>>

\* truncated and freed (what only a removed directory named keeps its links: lost),
free_in(p, type) ==
  LET i == Head(at[p].puts)
      named(j) == Cardinality({n \in Name : disk.ents[i][n] = j})
  IN
  /\ at[p].puts # <<>> /\ lock[i] = p
  /\ disk' = [disk EXCEPT !.type[i] = type, !.ents[i] = NoEntries,
                          !.lost = [j \in Inode |-> @[j] + named(j)]]
  /\ valid' = [valid EXCEPT ![i] = FALSE]
  /\ lock' = [lock EXCEPT ![i] = None]
  /\ at' = [at EXCEPT ![p].freed = TRUE]
  /\ stray' = stray \ {i}
  /\ UNCHANGED <<saved, ref, cwd, file>>

\* Mutant of iput_free: ip->type keeps its value.
iput_freeTyped(p) == free_in(p, disk.type[Head(at[p].puts)])
iput_free(p) == free_in(p, "free")

\* and dropped, whoever may have a reference to it by now.
iput_drop(p) ==
  LET i == Head(at[p].puts)
      rest == [puts |-> Tail(at[p].puts), freed |-> FALSE] @@ at[p]
      end == rest.pc = "end" /\ rest.puts = <<>>
  IN
  /\ at[p].freed
  /\ ref' = [ref EXCEPT ![i] = @ - 1]
  /\ valid' = [valid EXCEPT ![i] = @ /\ ref[i] > 1]
  /\ at' = [at EXCEPT ![p] = IF end THEN Idle ELSE rest]
  /\ saved' = IF end /\ Outstanding = {p} THEN disk ELSE saved
  /\ UNCHANGED <<disk, lock, cwd, file, stray>>
-------------------------------------------------------------------------------
(***************************************************************************)
(* namex: begin_op and the first inode, then a step per element.  A path   *)
(* without elements has no parent, and such a call does nothing.           *)
(***************************************************************************)
Walked(walk, op, path) == IF walk = "namei" /\ path = <<>> THEN op ELSE walk
FoundParent(op) ==
  CASE op = "link" -> "link_parent" [] op = "unlink" -> "unlink" [] OTHER -> "create"

start(p, c) ==
  LET i == IF c.abs THEN ROOTINO ELSE cwd[p]
      walk == IF c.op \in {"link", "open", "chdir"} THEN "namei" ELSE "nameiparent"
  IN
  /\ At(p, "idle")
  /\ UNCHANGED <<disk, lock, cwd, file, stray>>
  /\ Goes(p, i, [pc |-> Walked(walk, c.op, c.path), path |-> c.path, ip |-> i,
                 call |-> [c EXCEPT !.path = <<>>, !.abs = TRUE]])

\* counts: dirlookup's iget of the next inode counts the reference.
namex_in(p, counts) ==
  LET i == at[p].ip
      next == dirlookup(i, Head(at[p].path))
      parent == at[p].pc = "nameiparent" /\ Len(at[p].path) = 1
  IN
  /\ at[p].pc \in {"namei", "nameiparent"} /\ At(p, at[p].pc)
  /\ UNCHANGED <<disk, lock, cwd, file, stray>>
  /\ ilock(p)
  /\ \/ /\ disk.type[i] # "dir" \/ (~parent /\ next = 0)
        /\ Fails(p, <<i>>)
     \/ /\ disk.type[i] = "dir" /\ parent
        /\ Goes(p, 0, [pc |-> FoundParent(at[p].call.op)])
     \/ /\ disk.type[i] = "dir" /\ ~parent /\ next # 0
        /\ Goes(p, IF counts THEN next ELSE 0,
                [pc |-> Walked(at[p].pc, at[p].call.op, Tail(at[p].path)),
                 path |-> Tail(at[p].path), ip |-> next, puts |-> <<i>>])

\* Mutant of namex: the next inode is found and not counted.
namexUncounted(p) == namex_in(p, FALSE)
namex(p) == namex_in(p, TRUE)
-------------------------------------------------------------------------------
\* dirlink fails when the name is there or, if full, when the entry needs a block.
CanLink(d, n, full) == dirlookup(d, n) = 0 /\ ~full

\* sys_link: the inode gets its link before it gets its name.
link(p) ==
  LET i == at[p].ip
  IN
  /\ At(p, "link") /\ ilock(p)
  /\ UNCHANGED <<lock, cwd, file, stray>>
  /\ IF disk.type[i] = "dir" THEN UNCHANGED disk /\ Fails(p, <<i>>)
     ELSE /\ disk' = [disk EXCEPT !.nlink[i] = @ + 1]
          /\ Goes(p, ROOTINO, [pc |-> "nameiparent", path |-> at[p].call.new, dp |-> i,
                               ip |-> ROOTINO])

link_parent(p, full) ==
  LET d == at[p].ip
      n == at[p].path[1]
  IN
  /\ At(p, "link_parent") /\ disk.type[d] = "dir" /\ ilock(p)
  /\ UNCHANGED <<lock, cwd, file, stray>>
  /\ IF CanLink(d, n, full)
     THEN disk' = [disk EXCEPT !.ents[d][n] = at[p].dp] /\ Ends(p, <<d, at[p].dp>>)
     ELSE UNCHANGED disk /\ Fails(p, <<d>>)

link_bad(p) ==
  /\ At(p, "link_bad") /\ ilock(p)
  /\ disk' = [disk EXCEPT !.nlink[at[p].ip] = @ - 1]
  /\ UNCHANGED <<lock, cwd, file, stray>>
  /\ Ends(p, <<at[p].ip>>)
-------------------------------------------------------------------------------
\* sys_unlink: the parent stays locked while the child is looked up and locked.
unlink(p) ==
  LET d == at[p].ip
      i == dirlookup(d, at[p].path[1])
  IN
  /\ At(p, "unlink") /\ disk.type[d] = "dir" /\ ilock(p)
  /\ UNCHANGED <<disk, cwd, file, stray>>
  /\ IF at[p].path[1] \in {".", ".."} \/ i = 0
     THEN UNCHANGED lock /\ Fails(p, <<d>>)
     ELSE /\ lock' = [lock EXCEPT ![d] = p]
          /\ Goes(p, i, [pc |-> "unlink_child", ip |-> i, dp |-> d])

isdirempty(i) == \A n \in Name : disk.ents[i][n] = 0

\* types: those whose ".." is a link to the parent, which the parent loses.
unlink_in(p, types) ==
  LET i == at[p].ip
      d == at[p].dp
  IN
  /\ At(p, "unlink_child") /\ disk.nlink[i] > 0 /\ ilock(p)
  /\ UNCHANGED <<cwd, file, stray>>
  /\ IF disk.type[i] = "dir" /\ ~isdirempty(i)
     THEN /\ lock' = [lock EXCEPT ![d] = None]
          /\ UNCHANGED disk
          /\ Fails(p, <<i, d>>)
     ELSE /\ disk' = [disk EXCEPT !.ents[d][at[p].path[1]] = 0,
                                  !.nlink[d] = IF disk.type[i] \in types THEN @ - 1 ELSE @]
          /\ lock' = [lock EXCEPT ![d] = None, ![i] = p]
          /\ Goes(p, 0, [pc |-> "unlink_end", path |-> <<>>, dp |-> 0, puts |-> <<d>>])

\* Mutant of unlink_child: it does for a file too.
unlink_childAny(p) == unlink_in(p, {"dir", "file"})
unlink_child(p) == unlink_in(p, {"dir"})

unlink_end(p) ==
  LET i == at[p].ip
  IN
  /\ At(p, "unlink_end")
  /\ disk' = [disk EXCEPT !.nlink[i] = @ - 1]
  /\ lock' = [lock EXCEPT ![i] = None]
  /\ UNCHANGED <<cwd, file, stray>>
  /\ Ends(p, <<i>>)
-------------------------------------------------------------------------------
(***************************************************************************)
(* create, for open(O_CREATE), mkdir and mknod.                            *)
(***************************************************************************)
\* The first inode that is free on the disk; 0 if there is none.
ialloc ==
  LET free == {i \in Inode : disk.type[i] = "free"}
  IN  IF free = {} THEN 0 ELSE Min(free)

\* Look the name up; if it is new, allocate an inode.
create(p) ==
  LET d == at[p].ip
      found == dirlookup(d, at[p].path[1])
      new == ialloc
      shared == \E q \in Proc \ {p} : at[q].freed /\ Head(at[q].puts) = new
  IN
  /\ At(p, "create") /\ disk.type[d] = "dir" /\ ilock(p)
  /\ UNCHANGED <<cwd, file>>
  /\ \/ /\ found # 0
        /\ UNCHANGED <<disk, lock, stray>>
        /\ Goes(p, found, [pc |-> "create_found", path |-> <<>>, ip |-> found, puts |-> <<d>>])
     \/ /\ found = 0 /\ new = 0
        /\ UNCHANGED <<disk, lock, stray>>
        /\ Fails(p, <<d>>)
     \/ /\ found = 0 /\ new # 0
        /\ disk' = [disk EXCEPT !.type[new] = Creates[at[p].call.op]]
        /\ lock' = [lock EXCEPT ![d] = p]
        /\ stray' = IF shared THEN stray \cup {new} ELSE stray
        /\ Goes(p, new, [pc |-> "create_new", ip |-> new, dp |-> d])

\* The rest of sys_open, with ip locked; filealloc and fdalloc fail when p has a file.
Opens(p, i) ==
  IF file[p] = 0 THEN file' = [file EXCEPT ![p] = i] /\ Ends(p, <<>>)
  ELSE UNCHANGED file /\ Fails(p, <<i>>)

create_found(p) ==
  LET i == at[p].ip
  IN
  /\ At(p, "create_found") /\ ilock(p)
  /\ UNCHANGED <<disk, lock, cwd, stray>>
  /\ IF at[p].call.op = "create" /\ disk.type[i] # "dir" THEN Opens(p, i)
     ELSE UNCHANGED file /\ Fails(p, <<i>>)

\* The new inode gets its link, its entries, its name.
create_new(p, full) ==
  LET i == at[p].ip
      d == at[p].dp
      n == at[p].path[1]
      dir == disk.type[i] = "dir"
      dots == IF dir THEN [NoEntries EXCEPT !["."] = i, ![".."] = d] ELSE NoEntries
  IN
  /\ At(p, "create_new") /\ ilock(p)
  /\ UNCHANGED <<cwd, file, stray>>
  /\ IF CanLink(d, n, full)
     THEN /\ disk' = [disk EXCEPT !.nlink[i] = 1, !.ents[i] = dots, !.ents[d][n] = i,
                                  !.nlink[d] = IF dir THEN @ + 1 ELSE @]
          /\ lock' = [lock EXCEPT ![i] = p, ![d] = None]
          /\ Goes(p, 0, [pc |-> "created", path |-> <<>>, dp |-> 0, puts |-> <<d>>])
     ELSE /\ disk' = [disk EXCEPT !.nlink[i] = 0, !.ents[i] = dots]
          /\ UNCHANGED lock
          /\ Goes(p, 0, [pc |-> "create_fail", path |-> <<>>, ip |-> 0, puts |-> <<i>>])

fail_in(p, holder) ==
  /\ At(p, "create_fail")
  /\ lock' = [lock EXCEPT ![at[p].dp] = holder]
  /\ UNCHANGED <<disk, cwd, file, stray>>
  /\ Ends(p, <<at[p].dp>>)

\* Mutant of create_fail: the parent stays locked.
create_failLocked(p) == fail_in(p, p)
create_fail(p) == fail_in(p, None)

\* Back in sys_open, sys_mkdir or sys_mknod, with ip locked.
created(p) ==
  LET i == at[p].ip
  IN
  /\ At(p, "created")
  /\ lock' = [lock EXCEPT ![i] = None]
  /\ UNCHANGED <<disk, cwd, stray>>
  /\ IF at[p].call.op = "create" THEN Opens(p, i) ELSE UNCHANGED file /\ Ends(p, <<i>>)
-------------------------------------------------------------------------------
open(p) ==
  LET i == at[p].ip
  IN
  /\ At(p, "open") /\ ilock(p)
  /\ UNCHANGED <<disk, lock, cwd, stray>>
  /\ IF disk.type[i] = "dir" /\ at[p].call.write THEN UNCHANGED file /\ Fails(p, <<i>>)
     ELSE Opens(p, i)

chdir(p) ==
  LET i == at[p].ip
  IN
  /\ At(p, "chdir") /\ ilock(p)
  /\ UNCHANGED <<disk, lock, file, stray>>
  /\ IF disk.type[i] = "dir" THEN cwd' = [cwd EXCEPT ![p] = i] /\ Ends(p, <<cwd[p]>>)
     ELSE UNCHANGED cwd /\ Fails(p, <<i>>)

\* fileclose of the last reference.
close(p) ==
  /\ At(p, "idle") /\ file[p] # 0
  /\ file' = [file EXCEPT ![p] = 0]
  /\ UNCHANGED <<disk, lock, cwd, stray>>
  /\ Ends(p, <<file[p]>>)

\* Memory is lost; the log brings back what was committed.
crash ==
  /\ Cardinality(stray) <= MaxStray
  /\ disk' = saved
  /\ ref' = [i \in Inode |-> IF i = ROOTINO THEN Cardinality(Proc) ELSE 0]
  /\ valid' = [i \in Inode |-> i = ROOTINO]
  /\ lock' = [i \in Inode |-> None]
  /\ cwd' = [p \in Proc |-> ROOTINO]
  /\ file' = [p \in Proc |-> 0]
  /\ at' = [p \in Proc |-> Idle]
  /\ stray' = {i \in Inode : saved.type[i] # "free" /\ saved.nlink[i] = 0}
  /\ UNCHANGED saved

Calls ==
  \E p \in Proc :
    \/ \E c \in Call[p] : start(p, c)
    \/ namex(p) \/ iput_lock(p) \/ iput_free(p) \/ iput_drop(p)
    \/ link(p) \/ link_bad(p) \/ unlink(p) \/ unlink_child(p) \/ unlink_end(p)
    \/ \E full \in BOOLEAN : link_parent(p, full) \/ create_new(p, full)
    \/ create(p) \/ create_found(p) \/ create_fail(p) \/ created(p)
    \/ open(p) \/ chdir(p) \/ close(p)

Next == Calls \/ crash

Spec == Init /\ [][Next]_vars
\* Without crashes.
Up == Init /\ [][Calls]_vars
-------------------------------------------------------------------------------
(***************************************************************************)
(* Properties                                                              *)
(***************************************************************************)
\* The values the variables take; a lock is held only by a call that uses the inode.
TypeOK ==
  /\ \A d \in {disk, saved} :
       /\ d.type \in [Inode -> {"free", "file", "dir", "device"}]
       /\ d.nlink \in [Inode -> Nat] /\ d.lost \in [Inode -> Nat]
       /\ d.ents \in [Inode -> [AnyName -> Inode \cup {0}]]
  /\ ref \in [Inode -> Nat] /\ valid \in [Inode -> BOOLEAN]
  /\ lock \in [Inode -> Proc \cup {None}]
  /\ cwd \in [Proc -> Inode] /\ file \in [Proc -> Inode \cup {0}]
  /\ stray \subseteq Inode
  /\ \A i \in Inode : lock[i] # None =>
       LET a == at[lock[i]] IN i \in {a.ip, a.dp} \cup Range(a.puts)

\* None of the panics in ilock ("no type"), sys_unlink ("nlink < 1"), dirlookup ("not
\* DIR") and sched (in the acquiresleep of iput, which "won't block") happens.
NoPanic == \A p \in Proc : ~Panics(p)

\* ref is the number of pointers to the inode that processes hold: in calls under
\* way, on every path through them, as working directories and as open files.
RefsExact ==
  \A i \in Inode :
    ref[i] = Cardinality({p \in Proc : at[p].ip = i}) + Cardinality({p \in Proc : at[p].dp = i})
           + Cardinality({p \in Proc : cwd[p] = i}) + Cardinality({p \in Proc : file[p] = i})
           + Cardinality({<<p, k>> \in Proc \X (1..2) :
                            k \in DOMAIN at[p].puts /\ at[p].puts[k] = i})

\* On the disk, whenever a crash may come: an inode's link count is the number of
\* entries that name it (".." of a directory that has a name itself included, and
\* what a removed directory named when it was freed), and no entry names a free
\* inode.
LinksExact ==
  \A i \in Inode :
    LET names(j) == Cardinality({<<d, n>> \in Inode \X Name : saved.ents[d][n] = j})
        children == {d \in Inode : saved.ents[d][".."] = i /\ (d = ROOTINO \/ names(d) > 0)}
    IN  IF saved.type[i] = "free" THEN names(i) = 0
        ELSE saved.nlink[i] = names(i) + Cardinality(children) + saved.lost[i]

\* An inode in use, as a working directory or an open file, is not free, and a
\* working directory is a directory.
InUse ==
  \A p \in Proc : /\ disk.type[cwd[p]] = "dir"
                  /\ file[p] # 0 => disk.type[file[p]] # "free"

\* The comment of iput: "If that was the last reference and the inode has no links to
\* it, free the inode (and its content) on disk."  An inode without links is in use
\* or free, as long as there is no crash.
Unlinked ==
  \A i \in Inode : disk.type[i] # "free" /\ disk.nlink[i] = 0 => ref[i] > 0

\* The same, with crashes, but for inodes that were in use at a crash or have been
\* allocated while the process that freed them had still to drop its reference.
NoGarbage ==
  \A i \in Inode \ stray : disk.type[i] # "free" /\ disk.nlink[i] = 0 => ref[i] > 0
===============================================================================
