------------------------------- MODULE MCUser ---------------------------------
(***************************************************************************)
(* Small instances, for TLC, of what the kernel keeps for a process, its   *)
(* memory (Vm) and its open files (FileTable), and of the user programs    *)
(* and library code.  A behaviour is one of the component named by part;   *)
(* the variables of the others stay as they are.                           *)
(***************************************************************************)
EXTENDS Vm
CONSTANTS Inode, Pipe   \* of FileTable
VARIABLES part,
          file, ofile, cwd, open, iref, pc, held, todo, \* FileTable
          proc, lines, panicked,                        \* Shell
          text,                                         \* ShellParse
          heap, live, gaps, failed,                     \* Malloc
          prog, pattern, input, buf, count, out, done,  \* Filters
          bytes, pt,                                    \* Bytes
          fmt, ap                                       \* Printf
-------------------------------------------------------------------------------
\* Programs: text alone, with arguments that fit and that do not; text and data; a file
\* that ends early; and the headers that exec refuses.
seg(va, memsz, filesz, short) ==
  [vaddr |-> va, memsz |-> memsz, filesz |-> filesz, perm |-> {"X"}, short |-> short]
call(segs, args) == [prog |-> segs, args |-> args]
code == seg(0, 3, 3, FALSE)
MCCall ==
  {call(<<code>>, <<1>>), call(<<code>>, <<0, 2>>), call(<<code>>, <<0, 0, 0>>), call(<<code>>, <<0, -1>>),
   call(<<code, seg(4, 4, 2, FALSE)>>, <<>>),
   call(<<code, seg(4, 4, 4, TRUE)>>, <<>>),
   call(<<code, seg(4, 1, 2, FALSE)>>, <<>>),
   call(<<code, seg(4, 62, 0, FALSE)>>, <<>>),
   call(<<code, seg(5, 1, 1, FALSE)>>, <<>>)}
\* sbrk by these amounts.
MCStep == {-6, 4}
\* Which page is used for what makes no difference; a page that is lost, or in two
\* places, shows in the numbers.
Shape ==
  <<[p \in Proc |-> IF pagetable[p] = None THEN <<>>
                    ELSE <<space[p], Cardinality(Tables(mem, pagetable[p])),
                           [i \in 0..(NPAGES(sz[p]) - 1) |-> pte(mem, pagetable[p], i).perm]>>],
    Cardinality(mem.free), Cardinality(kernel), mem.panic>>

\* Command lines, as the parser gives them to runcmd.
Cat == [type |-> "EXEC", argv |-> <<"cat">>]
Echo == [type |-> "EXEC", argv |-> <<"echo">>]
PipeOf(l, r) == [type |-> "PIPE", left |-> l, right |-> r]
List(l, r) == [type |-> "LIST", left |-> l, right |-> r]
Back(c) == [type |-> "BACK", cmd |-> c]
To(c) == [type |-> "REDIR", cmd |-> c, mode |-> ">"]
From(c) == [type |-> "REDIR", cmd |-> c, mode |-> "<"]
MCCmds ==
  {[type |-> "EXEC", argv |-> <<>>], PipeOf(Echo, PipeOf(Cat, Cat)), Back(PipeOf(Cat, Echo)),
   PipeOf(List(Back(Echo), Echo), To(Cat)), List(From(Cat), PipeOf(Echo, Cat))}

MCPatterns ==
  {<<>>, <<"a">>, <<"^", "a">>, <<"a", "$">>, <<"^", "a", "*", "$">>, <<".", "*", "b">>,
   <<"a", "*", "a", ".">>, <<"b", "*", "a", "*">>, <<"^", "$">>, <<"a", "*", "b", "*", "$">>}

\* Page tables of three pages: in order, out of order, and with a hole.
NoFrame == 99
Table(a, b, c) == [p \in 0..2 |-> CASE p = 0 -> a [] p = 1 -> b [] p = 2 -> c]
MCTables == {Table(0, 1, 2), Table(0, 2, 1), Table(1, NoFrame, 0)}

\* What printf is given to print; <<"null">> is a null pointer.
Arg(n, s) == [int |-> n, str |-> s, chr |-> "!"]
MCArguments ==
  {<<Arg(-128, <<"s">>), Arg(127, <<"null">>), Arg(0, <<>>)>>,
   <<Arg(10, <<>>), Arg(-1, <<"%", "d">>), Arg(100, <<"null">>)>>}
-------------------------------------------------------------------------------
T == INSTANCE FileTable WITH NFILE <- 3, NOFILE <- 2
S == INSTANCE Shell WITH Pid <- 1..6, Fd <- 0..5, Cmds <- MCCmds, Lines <- 2
L == INSTANCE ShellParse WITH MAXARGS <- 3, Length <- 5,
       Alphabet <- {"a", " ", "<", ">", "|", "&", ";", "(", ")"}
M == INSTANCE Malloc WITH HEAP <- 11, CORE <- 3, HEADER <- 2, Requests <- {1, 3, 6}, Gaps <- 1
F == INSTANCE Filters WITH Letters <- {"a", "b"}, BUF <- 4, Patterns <- MCPatterns, Length <- 5
B == INSTANCE Bytes WITH PGSIZE <- 2, DIRSIZ <- 2, Frames <- 3, Filled <- 5, NoPage <- NoFrame,
       PageTables <- MCTables, Characters <- {"a", "b"}, mem <- bytes
P == INSTANCE Printf WITH WORD <- 256, PTRDIGITS <- 2, Length <- 5,
       Letters <- {"%", "d", "x", "s", "p", "l", "c"}, Arguments <- MCArguments

fileVars == <<file, ofile, cwd, open, iref, pc, held, todo>>
shellVars == <<proc, lines, panicked>>
heapVars == <<heap, live, gaps, failed>>
filterVars == <<prog, pattern, input, buf, count, out, done>>
byteVars == <<bytes, pt>>
printVars == <<fmt, ap>>
allVars == <<part, vars, fileVars, shellVars, text, heapVars, filterVars, byteVars, printVars>>

MCInit ==
  /\ part \in {"vm", "file", "shell", "parse", "malloc", "filters", "bytes", "printf"}
  /\ Init /\ T!Init /\ S!Init /\ L!Init /\ M!Init /\ F!Init /\ B!Init /\ P!Init
MCNext ==
  /\ UNCHANGED part
  /\ \/ /\ part = "vm" /\ Next
        /\ UNCHANGED <<fileVars, shellVars, text, heapVars, filterVars, byteVars, printVars>>
     \/ /\ part = "file" /\ T!Next
        /\ UNCHANGED <<vars, shellVars, text, heapVars, filterVars, byteVars, printVars>>
     \/ /\ part = "shell" /\ S!Next
        /\ UNCHANGED <<vars, fileVars, text, heapVars, filterVars, byteVars, printVars>>
     \/ /\ part = "parse" /\ L!Next
        /\ UNCHANGED <<vars, fileVars, shellVars, heapVars, filterVars, byteVars, printVars>>
     \/ /\ part = "malloc" /\ M!Next
        /\ UNCHANGED <<vars, fileVars, shellVars, text, filterVars, byteVars, printVars>>
     \/ /\ part = "filters" /\ F!Next
        /\ UNCHANGED <<vars, fileVars, shellVars, text, heapVars, byteVars, printVars>>
     \/ /\ part = "bytes" /\ B!Next
        /\ UNCHANGED <<vars, fileVars, shellVars, text, heapVars, filterVars, printVars>>
     \/ /\ part = "printf" /\ P!Next
        /\ UNCHANGED <<vars, fileVars, shellVars, text, heapVars, filterVars, byteVars>>
MCSpec == MCInit /\ [][MCNext]_allVars

\* Of the heap, the headers of the blocks: what is inside a block is the program's.
Headers ==
  <<[p \in M!Blocks \cup {M!base} |-> <<heap.size[p], heap.ptr[p]>>], heap.freep, heap.brk, live, gaps, failed>>
\* (The comparison makes TLC evaluate the page tables, which it can then store.)
Seen ==
  <<part, mem.pte = mem.pte,
    CASE part = "vm" -> Shape
      [] part = "file" -> fileVars
      [] part = "shell" -> shellVars
      [] part = "parse" -> text
      [] part = "malloc" -> Headers
      [] part = "filters" -> filterVars
      [] part = "bytes" -> byteVars
      [] part = "printf" -> printVars>>
-------------------------------------------------------------------------------
\* Physical pages: none is lost or in two places at once, whatever fork, exec, sbrk and
\* exit do and wherever memory runs out, and no panic of vm.c and kalloc.c is reached;
\* what exec puts on a new stack is in the stack page, aligned, and does not overlap.
Pages == part = "vm" => TypeOK /\ PagesConserved /\ NoPanic /\ ArgsFit

\* A process changes its own address space only: the steps of Vm are steps of
\* AddressSpace, or change no address space.
OwnSpaces == Isolation!Init /\ [][part = "vm" => [Isolation!Next]_space]_vars

\* The counts of open files and of inodes are the numbers of pointers to them, a pipe has
\* an end open while a descriptor is for it, and a descriptor is for a file in use.
Files ==
  part = "file" => T!TypeOK /\ T!RefExact /\ T!InodeRefs /\ T!EndsOpen /\ T!DescriptorsUsable

\* Pipelines: runcmd leaves no end of a pipe open in a program it starts, so no program
\* waits for an end of file that cannot come, and the prompt comes back when the
\* programs of a foreground pipeline are done and not before.
Pipelines == part = "shell" => S!TypeOK /\ S!NoLeak /\ S!NeverStuck /\ S!ForegroundDone

\* The tree that parsecmd builds from a line is the one the grammar gives it.
Parses == part = "parse" => L!Parses

\* The heap: every unit that sbrk gave is in one block, blocks are as large as asked,
\* neighbours on the free list are merged, and malloc fails only for lack of memory.
Heap == part = "malloc" => M!Accounted /\ M!Fits /\ M!Coalesced /\ M!FailsOnlyWhenFull

\* grep prints the lines its pattern means, cat all it reads, and wc counts lines, words
\* and characters, however read cuts the input into pieces.
Filtered == part = "filters" => F!Filtered /\ F!Counts

\* The copying loops (memmove, copyin, copyout, copyinstr) move the bytes they should
\* and no other, over page boundaries and overlaps, and skipelem finds a path's names.
Copied == part = "bytes" => B!Moved /\ B!Copied /\ B!Fetched /\ B!Named

\* The two printf print every number so that it can be read back, and agree with the
\* meaning of the format.
Printed == part = "printf" => P!PrintsBack /\ P!Formatted
===============================================================================
