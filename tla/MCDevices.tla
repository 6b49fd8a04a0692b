------------------------------ MODULE MCDevices -------------------------------
(***************************************************************************)
(* Small instances of Console and Virtio for TLC.  A behaviour is one of   *)
(* the component named by part; the variables of the other one stay as     *)
(* they are.                                                               *)
(***************************************************************************)
EXTENDS Console, TLC
CONSTANTS Proc, NoProc, Intr    \* Virtio
VARIABLES part,
          free, desc, ops, info, avail, avail_idx, used, used_idx, seen_idx, lock, vpc, write,
          idx, data, disk, media, taken, busy, irq

NUM == 7
RING == 14
\* While one process reads, everything is typed; while one writes, what is echoed.
MCKey == Reader :> {"a", "nl", "^D", "^U", "^H"} @@ Writer :> {"a"}
V == INSTANCE Virtio WITH WORD <- RING, Value <- {0, 1}, pc <- vpc

diskVars == <<free, desc, ops, info, avail, avail_idx, used, used_idx, seen_idx, lock, vpc, write,
              idx, data, disk, media, taken, busy, irq>>

MCInit == part \in {"console", "disk"} /\ Init /\ V!Init
MCNext ==
  /\ UNCHANGED part
  /\ \/ part = "console" /\ Next /\ UNCHANGED diskVars
     \/ part = "disk" /\ V!Next /\ UNCHANGED vars
MCSpec == MCInit /\ [][MCNext]_<<part, vars, diskVars>>

\* Two states that differ only in what nobody will look at again are the same: of the
\* console, the buffers outside the part in use and the handler's last character; of the
\* disk, entries of the rings already consumed, and headers and status of finished chains.
Characters ==
  <<Between(r, e), r, w, tx_r, tx_w,
    [k \in 1..((tx_w - tx_r) % TXWORD) |-> txbuf[(tx_r + k - 1) % UART_TX_BUF_SIZE]],
    uart, plic, pc, sync, calls, lockvars,
    IF \E c \in CPU : pc[<<c, "intr">>] \in
         {"spin_cons", "char", "echo", "echo_write", "store"} THEN ch ELSE "a">>
InFlight ==
  <<free, desc, avail_idx, used_idx, seen_idx, taken, lock, vpc, write, idx, data, disk,
    media, busy, irq,
    [p \in V!Active |-> <<ops[idx[p]], info[idx[p]]>>],
    [k \in 0..(((used_idx - seen_idx) % RING) - 1) |-> used[(seen_idx + k) % NUM]],
    [k \in 0..(((avail_idx - taken) % RING) - 1) |-> avail[(taken + k) % NUM]],
    [p \in {q \in Proc : vpc[q] = "filled"} |-> avail[avail_idx % NUM]]>>
Seen == <<part, pc, IF part = "console" THEN Characters ELSE InFlight>>
Symmetry == Permutations(Proc)
-------------------------------------------------------------------------------
\* A processor takes no interrupt while it holds or waits for a spin-lock, so no handler
\* waits for a lock that the process it interrupted holds.
Locks == part = "console" => TypeOK /\ LocksMaskInterrupts /\ NoSelfDeadlock

\* consoleread does not sleep while there is something to read, output waiting in the
\* buffer is on its way, and a writer sleeps only while the buffer is full.
Awake == part = "console" => ReaderAwake /\ OutputMoves

\* Characters leave in the order of the writes, none is overwritten in the buffer, and
\* the UART is given no more than its FIFO holds.
Output == part = "console" => OutputInOrder /\ NoOverrun

\* The ring of the console with its three wrapping indices, filled by the handler and
\* emptied by consoleread, is the line editor that LineInput specifies.
LineDiscipline == Line!Init /\ [][part = "console" => [Line!Next]_(Line!vars)]_vars

\* virtio_disk_rw returns when the buffer and the block on the disk agree, not before; a
\* request is in one place, not yet taken, in the device, or completed and not yet seen,
\* and when it is completed the interrupt is on its way or being handled.
Transfers == part = "disk" => V!Requests
===============================================================================
