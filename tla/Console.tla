-------------------------------- MODULE Console --------------------------------
(***************************************************************************)
(* The console (kernel/console.c) over the UART driver (kernel/uart.c),    *)
(* from the interrupt (kernel/trap.c, plic.c) to read and write, on        *)
(* several processors that share cons.lock and uart_tx_lock (Spinlock).    *)
(*                                                                         *)
(* Each processor runs one process, or the interrupt handler on top of it. *)
(* The UART is external: it holds received characters in rx, sends the     *)
(* characters in its transmit FIFO, and raises its interrupt when one      *)
(* arrives and when the FIFO has run empty.  uartputc_sync writes the FIFO *)
(* without a lock, so that a look at LSR and the write after it are two    *)
(* steps.  sleep() releases the lock and falls asleep in one step (Proc).  *)
(***************************************************************************)
EXTENDS Spinlock, Sequences, FiniteSetsExt

CONSTANTS Reader, Writer,  \* the processors whose process reads, or writes
          INPUT_BUF_SIZE,
          WORD,            \* cons.r, w and e are counted modulo WORD (uint)
          UART_TX_BUF_SIZE,
          TXWORD,          \* bound: uart_tx_r and uart_tx_w are kept modulo TXWORD
          FIFO,            \* characters the transmit FIFO holds
          BACKSPACE,       \* characters that erase one on the screen (3 in the code)
          RX,              \* bound: characters waiting in the UART's receiver
          MaxN,            \* bound: characters a read asks for
          Sessions,        \* sets of processors whose processes use the console
          Key              \* in each of them, what may be typed: "a", "nl", "^D", "^U", "^H"

ASSUME ConsoleAssumption ==
  /\ Reader \cup Writer = CPU /\ Reader \cap Writer = {}
  /\ Sessions \subseteq SUBSET CPU /\ Lock = {"cons", "tx"}
  /\ INPUT_BUF_SIZE \in Nat \ {0} /\ WORD > INPUT_BUF_SIZE
  /\ WORD % INPUT_BUF_SIZE = 0
  /\ UART_TX_BUF_SIZE \in Nat \ {0} /\ TXWORD > UART_TX_BUF_SIZE
  /\ TXWORD % UART_TX_BUF_SIZE = 0
  /\ FIFO \in Nat /\ BACKSPACE \in Nat \ {0} /\ RX \in Nat /\ MaxN \in Nat \ {0}

Char == {"a", "nl", "^D"}
\* A context: the process of a processor, or the handler that interrupted it.
Ctx == CPU \X {"proc", "intr"}

VARIABLES
  buf, r, w, e,              \* cons
  txbuf, tx_r, tx_w,         \* uart_tx_buf, uart_tx_r, uart_tx_w
  rx, fifo,                  \* the UART: received; number of characters to send
  pending, claimed,          \* the PLIC: interrupt raised; being served
  pc, sync,                  \* of each context: where it is; what it echoes next
  ch,                        \* of the handler, the character it works on
  user,                      \* the processors whose processes use the console
  want, got, killed          \* of each reader: its call, and p->killed

cons == <<buf, r, w, e>>
tx == <<txbuf, tx_r, tx_w>>
uart == <<rx, fifo>>
plic == <<pending, claimed>>
calls == <<user, want, got, killed>>
vars == <<cons, tx, uart, plic, pc, sync, ch, calls, lockvars>>

Init ==
  /\ LockInit
  /\ buf = [k \in 0..(INPUT_BUF_SIZE - 1) |-> "a"] /\ r = 0 /\ w = 0 /\ e = 0
  /\ txbuf = [k \in 0..(UART_TX_BUF_SIZE - 1) |-> 0] /\ tx_r = 0 /\ tx_w = 0
  /\ rx = <<>> /\ fifo = 0
  /\ pending = FALSE /\ claimed = FALSE
  /\ pc = [x \in Ctx |-> IF x[2] = "proc" THEN "user" ELSE "none"]
  /\ sync = 0
  /\ ch = "a"
  /\ user \in Sessions
  /\ want = [p \in Reader |-> 0]
  /\ got = [p \in Reader |-> <<>>]
  /\ killed = [p \in Reader |-> FALSE]

\* The context that its processor executes, at label l.
at(x, l) ==
  /\ pc[x] = l
  /\ x[2] = "proc" => pc[<<x[1], "intr">>] = "none"
goto(x, l) == pc' = [pc EXCEPT ![x] = l]

\* wakeup: the sleepers on the channel go on to take the lock again.
woken(f, chan) ==
  [x \in Ctx |-> IF f[x] = "sleep_" \o chan THEN "wake_" \o chan ELSE f[x]]

Idx(k) == k % INPUT_BUF_SIZE
Used(a, b) == (b - a) % WORD
-------------------------------------------------------------------------------
(***************************************************************************)
(* The UART and the PLIC (external).                                       *)
(***************************************************************************)
receive(c) ==
  /\ Len(rx) < RX
  /\ rx' = Append(rx, c)
  /\ pending' = TRUE
  /\ UNCHANGED <<cons, tx, fifo, claimed, pc, sync, ch, calls, lockvars>>

\* The UART is slow: it has sent all it was given before it says so.
transmit ==
  /\ fifo > 0
  /\ fifo' = 0
  /\ pending' = TRUE
  /\ UNCHANGED <<cons, tx, rx, claimed, pc, sync, ch, calls, lockvars>>

\* An interrupt: SIE is cleared, kernelvec or usertrap calls devintr, which
\* claims it.
interrupt(c) ==
  /\ sie[c] /\ pending /\ ~claimed
  /\ pc[<<c, "intr">>] = "none"
  /\ pending' = FALSE /\ claimed' = TRUE
  /\ sie' = [sie EXCEPT ![c] = FALSE]
  /\ goto(<<c, "intr">>, "getc")
  /\ UNCHANGED <<cons, tx, uart, sync, ch, calls, locked, noff, intena>>

\* plic_complete, and the return from the trap restores SIE.
complete(c) ==
  /\ at(<<c, "intr">>, "complete")
  /\ claimed' = FALSE
  /\ sie' = [sie EXCEPT ![c] = TRUE]
  /\ goto(<<c, "intr">>, "none")
  /\ UNCHANGED <<cons, tx, uart, pending, sync, ch, calls, locked, noff, intena>>
-------------------------------------------------------------------------------
(***************************************************************************)
(* uartstart, in write and in the handler; uart_tx_lock is held.           *)
(***************************************************************************)
TxFull == tx_w = (tx_r + UART_TX_BUF_SIZE) % TXWORD

\* Nothing to send, or the UART is busy and will interrupt: release the lock.
\* Mutant of start_done: it also returns when the UART is idle and one waits.
start_doneEarly(x) ==
  /\ at(x, "start")
  /\ tx_r = tx_w \/ fifo > 0 \/ (tx_r + 1) % TXWORD = tx_w
  /\ release(x[1], "tx")
  /\ goto(x, IF x[2] = "intr" THEN "complete" ELSE "user")
  /\ UNCHANGED <<cons, tx, uart, plic, sync, ch, calls>>
start_done(x) ==
  /\ at(x, "start")
  /\ tx_r = tx_w \/ fifo > 0
  /\ release(x[1], "tx")
  /\ goto(x, IF x[2] = "intr" THEN "complete" ELSE "user")
  /\ UNCHANGED <<cons, tx, uart, plic, sync, ch, calls>>

\* Mutant of start_idle: the look at LSR is left out.
start_idleBusy(x) ==
  /\ at(x, "start")
  /\ tx_r # tx_w
  /\ goto(x, "send")
  /\ UNCHANGED <<cons, tx, uart, plic, sync, ch, calls, lockvars>>
start_idle(x) ==
  /\ at(x, "start")
  /\ tx_r # tx_w /\ fifo = 0
  /\ goto(x, "send")
  /\ UNCHANGED <<cons, tx, uart, plic, sync, ch, calls, lockvars>>

start_send(x) ==
  /\ at(x, "send")
  /\ tx_r' = (tx_r + 1) % TXWORD
  /\ fifo' = fifo + 1
  /\ pc' = [woken(pc, "tx") EXCEPT ![x] = "start"]
  /\ UNCHANGED <<cons, txbuf, tx_w, rx, plic, sync, ch, calls, lockvars>>
-------------------------------------------------------------------------------
(***************************************************************************)
(* consolewrite: one character, through uartputc.                          *)
(***************************************************************************)
consolewrite(c) ==
  /\ c \in Writer \cap user /\ at(<<c, "proc">>, "user")
  /\ spin(c)
  /\ goto(<<c, "proc">>, "spin_tx")
  /\ UNCHANGED <<cons, tx, uart, plic, sync, ch, calls>>

\* uartputc goes to sleep: the scheduler turns interrupts on.
putc_full(c) ==
  /\ at(<<c, "proc">>, "putc") /\ TxFull
  /\ release(c, "tx")
  /\ goto(<<c, "proc">>, "sleep_tx")
  /\ UNCHANGED <<cons, tx, uart, plic, sync, ch, calls>>

\* Mutant of putc: the test for a full buffer is an if that sleep returns to.
putcUnchecked(c) ==
  /\ at(<<c, "proc">>, "putc")
  /\ txbuf' = [txbuf EXCEPT ![tx_w % UART_TX_BUF_SIZE] = tx_w]
  /\ tx_w' = (tx_w + 1) % TXWORD
  /\ goto(<<c, "proc">>, "start")
  /\ UNCHANGED <<cons, tx_r, uart, plic, sync, ch, calls, lockvars>>
\* The characters written are told apart by the place they are to be sent at.
putc(c) ==
  /\ at(<<c, "proc">>, "putc") /\ ~TxFull
  /\ txbuf' = [txbuf EXCEPT ![tx_w % UART_TX_BUF_SIZE] = tx_w]
  /\ tx_w' = (tx_w + 1) % TXWORD
  /\ goto(<<c, "proc">>, "start")
  /\ UNCHANGED <<cons, tx_r, uart, plic, sync, ch, calls, lockvars>>
-------------------------------------------------------------------------------
(***************************************************************************)
(* Taking the locks.                                                       *)
(***************************************************************************)
\* The swap of acquire succeeds, in a call, at the end of sleep, in a handler.
acquired(x) ==
  /\ UNCHANGED <<cons, tx, uart, plic, sync, ch, calls>>
  /\ \/ at(x, "spin_tx") /\ swap(x[1], "tx")
        /\ goto(x, IF x[2] = "intr" THEN "start" ELSE "putc")
     \/ at(x, "spin_cons") /\ swap(x[1], "cons")
        /\ goto(x, IF x[2] = "intr" THEN "char" ELSE "read")

\* A process that was woken up runs again, in sleep().
resume(x, chan) ==
  /\ at(x, "wake_" \o chan)
  /\ spin(x[1])
  /\ goto(x, "spin_" \o chan)
  /\ UNCHANGED <<cons, tx, uart, plic, sync, ch, calls>>
-------------------------------------------------------------------------------
(***************************************************************************)
(* consoleread                                                             *)
(***************************************************************************)
read(c, n) ==
  /\ c \in Reader \cap user /\ at(<<c, "proc">>, "user") /\ ~killed[c]
  /\ want' = [want EXCEPT ![c] = n]
  /\ spin(c)
  /\ goto(<<c, "proc">>, "spin_cons")
  /\ UNCHANGED <<cons, tx, uart, plic, sync, ch, user, got, killed>>

\* The read goes on: it has less than it wants and no whole line.
More(c) == Len(got[c]) < want[c] /\ \A k \in DOMAIN got[c] : got[c][k] # "nl"

return(c, rr) ==
  /\ r' = rr
  /\ want' = [want EXCEPT ![c] = 0]
  /\ got' = [got EXCEPT ![c] = <<>>]
  /\ release(c, "cons")
  /\ goto(<<c, "proc">>, "user")
  /\ UNCHANGED <<buf, w, e, tx, uart, plic, sync, ch, user, killed>>

\* killed() is looked at before sleep(), under another lock.
read_empty(c) ==
  /\ at(<<c, "proc">>, "read") /\ More(c) /\ r = w /\ ~killed[c]
  /\ goto(<<c, "proc">>, "checked")
  /\ UNCHANGED <<cons, tx, uart, plic, sync, ch, calls, lockvars>>
read_sleep(c) ==
  /\ at(<<c, "proc">>, "checked")
  /\ release(c, "cons")
  /\ goto(<<c, "proc">>, "sleep_cons")
  /\ UNCHANGED <<cons, tx, uart, plic, sync, ch, calls>>
read_killed(c) ==
  /\ at(<<c, "proc">>, "read") /\ More(c) /\ r = w /\ killed[c]
  /\ return(c, r)

read_char(c) ==
  /\ at(<<c, "proc">>, "read") /\ More(c) /\ r # w /\ buf[Idx(r)] # "^D"
  /\ got' = [got EXCEPT ![c] = Append(@, buf[Idx(r)])]
  /\ r' = (r + 1) % WORD
  /\ UNCHANGED <<buf, w, e, tx, uart, plic, pc, sync, ch, user, want, killed, lockvars>>

\* either_copyout fails: the character is gone.
read_fault(c) ==
  /\ at(<<c, "proc">>, "read") /\ More(c) /\ r # w /\ buf[Idx(r)] # "^D"
  /\ return(c, (r + 1) % WORD)

\* Mutant of read_eof: the end of file is not saved for the next read.
read_eofLost(c) ==
  /\ at(<<c, "proc">>, "read") /\ More(c) /\ r # w /\ buf[Idx(r)] = "^D"
  /\ return(c, (r + 1) % WORD)
read_eof(c) ==
  /\ at(<<c, "proc">>, "read") /\ More(c) /\ r # w /\ buf[Idx(r)] = "^D"
  /\ return(c, IF got[c] = <<>> THEN (r + 1) % WORD ELSE r)

read_done(c) ==
  /\ at(<<c, "proc">>, "read") /\ ~More(c)
  /\ return(c, r)

\* kill(): the flag, and a sleeper is made runnable.
kill(c) ==
  /\ c \in user /\ ~killed[c]
  /\ killed' = [killed EXCEPT ![c] = TRUE]
  /\ pc' = [pc EXCEPT ![<<c, "proc">>] = IF @ = "sleep_cons" THEN "wake_cons" ELSE @]
  /\ UNCHANGED <<cons, tx, uart, plic, sync, ch, user, want, got, lockvars>>
-------------------------------------------------------------------------------
(***************************************************************************)
(* uartintr and consoleintr, in the handler of c.                          *)
(***************************************************************************)
\* uartgetc has a character: consoleintr takes cons.lock.
intr_getc(c) ==
  /\ at(<<c, "intr">>, "getc") /\ rx # <<>>
  /\ ch' = Head(rx) /\ rx' = Tail(rx)
  /\ spin(c)
  /\ goto(<<c, "intr">>, "spin_cons")
  /\ UNCHANGED <<cons, tx, fifo, plic, sync, calls>>

intr_none(c) ==
  /\ at(<<c, "intr">>, "getc") /\ rx = <<>>
  /\ spin(c)
  /\ goto(<<c, "intr">>, "spin_tx")
  /\ UNCHANGED <<cons, tx, uart, plic, sync, ch, calls>>

\* consputc of k characters, after which the handler goes on.
echo(c, k) ==
  /\ sync' = k
  /\ goto(<<c, "intr">>, "echo")
  /\ UNCHANGED <<buf, r, w, tx, uart, plic, ch, calls, lockvars>>

\* Control-H takes back one character, control-U all of the line, one by one.
erase(c) ==
  /\ at(<<c, "intr">>, "char") /\ ch \in {"^U", "^H"} /\ e # w
  /\ e' = (e - 1) % WORD
  /\ echo(c, BACKSPACE)

Room == Used(r, e) < INPUT_BUF_SIZE

type(c) ==
  /\ at(<<c, "intr">>, "char") /\ ch \in Char /\ Room
  /\ echo(c, 1)
  /\ UNCHANGED e

\* The character goes into the buffer, and the line is handed over, or not.
append(c, commit, wakes) ==
  /\ at(<<c, "intr">>, "store")
  /\ buf' = [buf EXCEPT ![Idx(e)] = ch]
  /\ e' = (e + 1) % WORD
  /\ w' = IF commit THEN e' ELSE w
  /\ release(c, "cons")
  /\ pc' = [(IF wakes THEN woken(pc, "cons") ELSE pc) EXCEPT ![<<c, "intr">>] = "getc"]
  /\ UNCHANGED <<r, tx, uart, plic, sync, ch, calls>>

\* A whole line, an end of file or a full buffer is for the reader.
Commits == ch \in {"nl", "^D"} \/ Used(r, e) = INPUT_BUF_SIZE - 1
\* Mutant of store: the sleeper is not woken.
storeQuiet(c) == append(c, Commits, FALSE)
store(c) == append(c, Commits, Commits)

\* Nothing (more) to erase, or no room: the handler is done with the character.
drop(c) ==
  /\ \/ at(<<c, "intr">>, "char") /\ IF ch \in Char THEN ~Room ELSE e = w
     \/ at(<<c, "intr">>, "erased")
  /\ release(c, "cons")
  /\ goto(<<c, "intr">>, "getc")
  /\ UNCHANGED <<cons, tx, uart, plic, sync, ch, calls>>

\* uartputc_sync: push_off and a spin on LSR, then the write and pop_off.
sync_idle(c) ==
  /\ at(<<c, "intr">>, "echo") /\ fifo = 0
  /\ push_off(c) /\ UNCHANGED locked
  /\ goto(<<c, "intr">>, "echo_write")
  /\ UNCHANGED <<cons, tx, uart, plic, sync, ch, calls>>

\* After the last one consoleintr goes on: control-U looks at the line again.
sync_write(c) ==
  /\ at(<<c, "intr">>, "echo_write")
  /\ fifo' = fifo + 1
  /\ sync' = sync - 1
  /\ pop_off(c) /\ UNCHANGED locked
  /\ goto(<<c, "intr">>, CASE sync > 1 -> "echo"
                           [] sync = 1 /\ ch \in Char -> "store"
                           [] sync = 1 /\ ch = "^U" -> "char"
                           [] OTHER -> "erased")
  /\ UNCHANGED <<cons, tx, rx, plic, ch, calls>>

Next ==
  \/ \E c \in Key[user] : receive(c)
  \/ transmit
  \/ \E c \in CPU : interrupt(c)
  \/ \E c \in CPU : complete(c)
  \/ \E x \in Ctx : start_done(x)
  \/ \E x \in Ctx : start_idle(x)
  \/ \E x \in Ctx : start_send(x)
  \/ \E x \in Ctx : acquired(x)
  \/ \E x \in Ctx, chan \in {"cons", "tx"} : resume(x, chan)
  \/ \E c \in Writer : consolewrite(c)
  \/ \E c \in Writer : putc_full(c)
  \/ \E c \in Writer : putc(c)
  \/ \E c \in Reader, n \in 1..MaxN : read(c, n)
  \/ \E c \in Reader : read_empty(c)
  \/ \E c \in Reader : read_sleep(c)
  \/ \E c \in Reader : read_killed(c)
  \/ \E c \in Reader : read_char(c)
  \/ \E c \in Reader : read_fault(c)
  \/ \E c \in Reader : read_eof(c)
  \/ \E c \in Reader : read_done(c)
  \/ \E c \in Reader : kill(c)
  \/ \E c \in CPU : intr_getc(c)
  \/ \E c \in CPU : intr_none(c)
  \/ \E c \in CPU : erase(c)
  \/ \E c \in CPU : type(c)
  \/ \E c \in CPU : store(c)
  \/ \E c \in CPU : drop(c)
  \/ \E c \in CPU : sync_idle(c)
  \/ \E c \in CPU : sync_write(c)

Spec == Init /\ [][Next]_vars
-------------------------------------------------------------------------------
(***************************************************************************)
(* Properties                                                              *)
(***************************************************************************)
\* The values the variables take.
TypeOK ==
  /\ LockTypeOK
  /\ buf \in [0..(INPUT_BUF_SIZE - 1) -> Char]
  /\ {r, w, e} \subseteq 0..(WORD - 1) /\ {tx_r, tx_w} \subseteq 0..(TXWORD - 1)
  /\ txbuf \in [0..(UART_TX_BUF_SIZE - 1) -> 0..(TXWORD - 1)]
  /\ fifo \in Nat /\ sync \in Nat /\ rx \in Seq(Key[user]) /\ ch \in Key[user]
  /\ pending \in BOOLEAN /\ claimed \in BOOLEAN
  /\ user \subseteq CPU /\ want \in [Reader -> 0..MaxN] /\ got \in [Reader -> Seq(Char)]

\* A processor takes no interrupt while it holds a spin-lock or waits for one,
\* and noff says how many push_offs are open: pop_off never panics, and no
\* handler can find its own processor holding the lock it wants.
LocksMaskInterrupts ==
  \A c \in CPU :
    LET open(x) == Cardinality(HeldBy(c))
                   + (IF \E l \in {"spin_cons", "spin_tx", "echo_write"} : at(x, l)
                      THEN 1 ELSE 0)
        x == <<c, IF pc[<<c, "intr">>] = "none" THEN "proc" ELSE "intr">>
    IN  /\ noff[c] = open(x)
        /\ noff[c] > 0 => ~sie[c]
        /\ noff[c] = 0 => (sie[c] <=> x[2] = "proc")

\* acquire is never called by the processor that holds the lock: its panic, and
\* a deadlock between a process and the handler that interrupted it, are out of
\* reach.
NoSelfDeadlock ==
  \A x \in Ctx :
    /\ at(x, "spin_cons") => ~holding(x[1], "cons")
    /\ at(x, "spin_tx") => ~holding(x[1], "tx")

\* What the ring of the console holds between two of its indices.
Between(a, b) == [k \in 1..Used(a, b) |-> buf[Idx(a + k - 1)]]
Line == INSTANCE LineInput WITH
          line <- Between(w, e), ready <- Between(r, w),
          Newline <- "nl", Eof <- "^D", SIZE <- INPUT_BUF_SIZE

\* consoleread is not asleep while there is something to read (no lost wakeup).
ReaderAwake ==
  \A c \in Reader : pc[<<c, "proc">>] = "sleep_cons" => r = w

\* Whenever output waits in the buffer and uart_tx_lock is free, the UART is at
\* work or its interrupt is on the way to uartstart: output never stops for good,
\* and a writer that sleeps on a full buffer will be woken up.
OutputMoves ==
  /\ locked["tx"] = NoCpu /\ tx_r # tx_w =>
       \/ fifo > 0 \/ pending
       \/ \E c \in CPU : pc[<<c, "intr">>] \notin {"none", "complete"}
  /\ \A c \in Writer : pc[<<c, "proc">>] = "sleep_tx" => TxFull

\* What is sent next was put into the buffer for that place: characters leave in
\* the order of the writes and none is overwritten.
OutputInOrder ==
  \A k \in 0..(UART_TX_BUF_SIZE - 1) :
    LET i == (tx_r + k) % TXWORD
    IN  k < (tx_w - tx_r) % TXWORD => txbuf[i % UART_TX_BUF_SIZE] = i

\* uartputc_sync and uartstart may both find the UART idle and both write: what
\* they give it always fits the FIFO that uartinit enabled.
NoOverrun == fifo <= FIFO
===============================================================================
