----------------------------- MODULE MCDevices ----------------------------
(***************************************************************************)
(* An instance of the console, the UART, the clock, the interrupt counting *)
(* and the open file table for TLC.  They share no state, so a behaviour   *)
(* is one of one of them, chosen by part, and the others stay as they were *)
(* initialised.                                                            *)
(***************************************************************************)
EXTENDS Console, Uart, Clock, Interrupts, Descriptors, TLC

VARIABLE part

allVars == <<part, consVars, uartVars, clockVars, intrVars, fileVars>>

Init ==
    /\ part \in {"console", "uart", "clock", "interrupts", "files"}
    /\ ConsInit /\ UartInit /\ ClockInit /\ IntrInit /\ FileInit

Next ==
    /\ \/ part = "console" /\ ConsNext /\ UNCHANGED <<uartVars, clockVars, intrVars, fileVars>>
       \/ part = "uart" /\ UartNext /\ UNCHANGED <<consVars, clockVars, intrVars, fileVars>>
       \/ part = "clock" /\ ClockNext /\ UNCHANGED <<consVars, uartVars, intrVars, fileVars>>
       \/ part = "interrupts" /\ IntrNext /\ UNCHANGED <<consVars, uartVars, clockVars, fileVars>>
       \/ part = "files" /\ FileNext /\ UNCHANGED <<consVars, uartVars, clockVars, intrVars>>
    /\ UNCHANGED part

Spec == Init /\ [][Next]_allVars

Symmetry == Permutations(Readers)
===========================================================================
