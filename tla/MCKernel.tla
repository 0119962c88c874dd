----------------------------- MODULE MCKernel -----------------------------
(***************************************************************************)
(* An instance of processes, memory and the directory tree for TLC.  The   *)
(* modules share no state, so a behaviour is one of one of them, chosen by *)
(* part, and the others stay as they were initialised.                     *)
(***************************************************************************)
EXTENDS Proc, Vm, MCFs

VARIABLE part

KernelInit ==
    /\ part \in {"proc", "vm", "fs"}
    /\ Init /\ VmInit /\ FsInit

KernelNext ==
    /\ \/ part = "proc" /\ Next /\ UNCHANGED <<vmVars, fsVars>>
       \/ part = "vm" /\ VmNext /\ UNCHANGED <<vars, fsVars>>
       \/ part = "fs" /\ FsNext /\ UNCHANGED <<vars, vmVars>>
    /\ UNCHANGED part

KernelSpec == KernelInit /\ [][KernelNext]_<<part, vars, vmVars, fsVars>>

\* Slots other than init's and CPUs are interchangeable, for every scan of the
\* process table is an arbitrary choice; so are the clients of the file system.
Symmetry ==
    Permutations(Procs \ {initproc}) \cup Permutations(CPUs) \cup FsSymmetry
===========================================================================
