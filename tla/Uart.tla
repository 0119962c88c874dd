------------------------------- MODULE Uart -------------------------------
(***************************************************************************)
(* kernel/uart.c, output: writers that fill the transmit ring, uartstart() *)
(* that moves bytes from the ring to the device, the interrupt handler     *)
(* that calls it again, and uartputc_sync(), which printf() and the echo   *)
(* of input use on other CPUs without uart_tx_lock.                        *)
(***************************************************************************)
EXTENDS Words, Sequences

CONSTANTS
    Writers,            \* processes in consolewrite()
    Syncers,            \* CPUs in uartputc_sync()
    Handler,            \* the CPU in uartintr()
    OutBytes, Echo,        \* what writers put; what uartputc_sync() puts
    UART_TX_BUF_SIZE,
    FIFO                \* the device's transmit FIFO, enabled by uartinit(): 16 bytes

ASSUME UartAssumption ==
    /\ UART_TX_BUF_SIZE \in Nat \ {0} /\ FIFO \in Nat
    /\ UART_TX_BUF_SIZE < MODULUS /\ MODULUS % UART_TX_BUF_SIZE = 0
    /\ Handler \notin Writers /\ None \notin Writers \cup OutBytes \cup {Handler}
    /\ Echo \notin OutBytes

VARIABLES
    tx_buf, tx_w, tx_r,     \* uart_tx_buf, uart_tx_w, uart_tx_r
    tx_lock,                \* holder of uart_tx_lock
    at,                     \* where each writer, syncer and the handler is
    inHand,                 \* c of uartstart(), between uart_tx_r += 1 and THR
    fifo, txip              \* the device: bytes to send, transmit interrupt

uartVars == <<tx_buf, tx_w, tx_r, tx_lock, at, inHand, fifo, txip>>

UartInit ==
    /\ tx_buf = [i \in 0..UART_TX_BUF_SIZE-1 |-> None]
    /\ tx_w = 0 /\ tx_r = 0 /\ tx_lock = None /\ inHand = None
    /\ at = [a \in Writers \cup Syncers \cup {Handler} |-> "idle"]
    /\ fifo = <<>> /\ txip = FALSE

Goto(a, l) == at' = [at EXCEPT ![a] = l]
Slot(i) == i % UART_TX_BUF_SIZE

\* LSR_TX_IDLE
Idle == fifo = <<>>

\* WriteReg(THR, c): a byte more than the FIFO takes is lost.
WriteTHR(c) ==
    /\ fifo' = IF Len(fifo) < FIFO THEN Append(fifo, c) ELSE fifo
    /\ txip' = FALSE

-----------------------------------------------------------------------------
(* uartputc().                                                             *)

Write(p) ==
    /\ at[p] = "idle"
    /\ Goto(p, "lock")
    /\ UNCHANGED <<tx_buf, tx_w, tx_r, tx_lock, inHand, fifo, txip>>

Full_OneMore == tx_w = (tx_r + UART_TX_BUF_SIZE + 1) % MODULUS

Full == tx_w = (tx_r + UART_TX_BUF_SIZE) % MODULUS

\* acquire, here and when sleep() returns; full: sleep(&uart_tx_r, &uart_tx_lock).
PutSleep(p) ==
    /\ at[p] = "lock" /\ tx_lock = None /\ Full
    /\ Goto(p, "sleep")
    /\ UNCHANGED <<tx_buf, tx_w, tx_r, tx_lock, inHand, fifo, txip>>

Put(p, c) ==
    /\ at[p] = "lock" /\ tx_lock = None /\ ~Full
    /\ tx_buf' = [tx_buf EXCEPT ![Slot(tx_w)] = c]
    /\ tx_w' = (tx_w + 1) % MODULUS
    /\ tx_lock' = p
    /\ Goto(p, "start")
    /\ UNCHANGED <<tx_r, inHand, fifo, txip>>

-----------------------------------------------------------------------------
(* uartstart(), called by a writer or the handler with uart_tx_lock held.  *)

WakeWriters_None(f) == f

\* wakeup(&uart_tx_r)
WakeWriters(f) == [a \in DOMAIN f |-> IF f[a] = "sleep" THEN "lock" ELSE f[a]]

\* The ring is empty (reading ISR drops the interrupt), or the device is busy
\* and will interrupt: return, and release the lock.
StartReturn(a) ==
    /\ at[a] = "start" /\ (tx_w = tx_r \/ ~Idle)
    /\ txip' = (txip /\ tx_w # tx_r)
    /\ tx_lock' = None
    /\ Goto(a, "idle")
    /\ UNCHANGED <<tx_buf, tx_w, tx_r, inHand, fifo>>

StartTake(a) ==
    /\ at[a] = "start" /\ tx_w # tx_r /\ Idle
    /\ inHand' = tx_buf[Slot(tx_r)]
    /\ tx_r' = (tx_r + 1) % MODULUS
    /\ at' = [WakeWriters(at) EXCEPT ![a] = "send"]
    /\ UNCHANGED <<tx_buf, tx_w, tx_lock, fifo, txip>>

StartSend(a) ==
    /\ at[a] = "send"
    /\ WriteTHR(inHand)
    /\ inHand' = None
    /\ Goto(a, "start")
    /\ UNCHANGED <<tx_buf, tx_w, tx_r, tx_lock>>

-----------------------------------------------------------------------------
\* uartintr(), its input part apart (Console).
Interrupt ==
    /\ txip /\ at[Handler] = "idle" /\ tx_lock = None
    /\ tx_lock' = Handler
    /\ Goto(Handler, "start")
    /\ UNCHANGED <<tx_buf, tx_w, tx_r, inHand, fifo, txip>>

\* uartputc_sync(): LSR says idle; then THR.
SyncWait(a) ==
    /\ at[a] = "idle" /\ Idle
    /\ Goto(a, "sync")
    /\ UNCHANGED <<tx_buf, tx_w, tx_r, tx_lock, inHand, fifo, txip>>

SyncSend(a) ==
    /\ at[a] = "sync"
    /\ WriteTHR(Echo)
    /\ Goto(a, "idle")
    /\ UNCHANGED <<tx_buf, tx_w, tx_r, tx_lock, inHand>>

\* The device sends a byte; with the last one the interrupt is raised.
Transmit ==
    /\ fifo # <<>>
    /\ fifo' = Tail(fifo)
    /\ txip' = (fifo' = <<>>)
    /\ UNCHANGED <<tx_buf, tx_w, tx_r, tx_lock, at, inHand>>

UartNext ==
    \/ \E p \in Writers : Write(p) \/ PutSleep(p) \/ \E c \in OutBytes : Put(p, c)
    \/ \E a \in Writers \cup {Handler} : StartReturn(a) \/ StartTake(a) \/ StartSend(a)
    \/ Interrupt \/ Transmit
    \/ \E a \in Syncers : SyncWait(a) \/ SyncSend(a)

-----------------------------------------------------------------------------
\* A writer sleeps only while the ring is full, and while the ring has bytes
\* somebody will call uartstart(): its caller is at it, or the device is busy
\* or has raised the interrupt.  The bytes are never stuck.
OutputMoves ==
    /\ \A p \in Writers : at[p] = "sleep" => Full
    /\ tx_w # tx_r => tx_lock # None \/ ~Idle \/ txip

Queue == INSTANCE Fifo WITH Bytes <- OutBytes, queue <-
    SelectSeq(fifo, LAMBDA c : c # Echo)
      \o (IF inHand = None THEN <<>> ELSE <<inHand>>)
      \o [k \in 1..Distance(tx_r, tx_w) |-> tx_buf[Slot(tx_r + k - 1)]]

\* OutBytes of write() leave the device in the order they were put, none lost or
\* doubled, although uartputc_sync() writes THR without the lock: the FIFO has
\* room for a byte of every CPU that saw it idle.
ImplementsFifo == Queue!Spec
===========================================================================
