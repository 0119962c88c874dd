------------------------------- MODULE Proc -------------------------------
(***************************************************************************)
(* kernel/proc.c: the process table, the per-CPU schedulers, sleep and     *)
(* wakeup, fork, exit, wait and kill.                                      *)
(*                                                                         *)
(* Every CPU runs either its scheduler or the kernel thread of one         *)
(* process.  A critical section that begins and ends under p->lock is one  *)
(* step; where p->lock is handed from a thread to the scheduler through    *)
(* swtch() (sleep, yield, exit) and where wait_lock is held over several   *)
(* steps (exit, wait) the locks are variables.  Pids are abstracted to the *)
(* slot they name; files, memory and exit status are left out.             *)
(***************************************************************************)
EXTENDS Integers, FiniteSets

CONSTANTS
    Procs,      \* slots of proc[]
    CPUs,
    initproc,   \* the slot of the first process
    None

ASSUME ProcAssumption == initproc \in Procs /\ None \notin Procs \cup CPUs
                         /\ Procs \cap CPUs = {}

VARIABLES
    state,      \* p->state
    chan,       \* p->chan; wait() sleeps on the process itself
    killed,     \* p->killed
    parent,     \* p->parent
    plock,      \* holder of p->lock: the thread p, a scheduler, or None
    wlock,      \* holder of wait_lock
    pc,         \* where the kernel thread of p is
    insched,    \* p is inside sched()
    child,      \* fork(): the new slot np
    todo,       \* exit()'s wakeup()s: slots still to visit,
    wchans,     \* and the channels they wake
    run         \* run[c]: the thread on CPU c, None in scheduler()

vars == <<state, chan, killed, parent, plock, wlock, pc, insched, child, todo, wchans, run>>

\* userinit(): the first process is ready and will start in forkret().
Init ==
    /\ state = [p \in Procs |-> IF p = initproc THEN "RUNNABLE" ELSE "UNUSED"]
    /\ chan = [p \in Procs |-> None]
    /\ killed = [p \in Procs |-> FALSE]
    /\ parent = [p \in Procs |-> None]
    /\ plock = [p \in Procs |-> None]
    /\ wlock = None
    /\ pc = [p \in Procs |-> "user"]
    /\ insched = [p \in Procs |-> p = initproc]
    /\ child = [p \in Procs |-> None]
    /\ todo = {} /\ wchans = {}
    /\ run = [c \in CPUs |-> None]

\* The thread of p executes: some CPU is on its stack, outside sched().
Runs(p) == ~insched[p] /\ \E c \in CPUs : run[c] = p

Goto(p, l) == pc' = [pc EXCEPT ![p] = l]

-----------------------------------------------------------------------------
(* scheduler(), sched(), yield(), forkret().                               *)

\* scheduler() finds p RUNNABLE and switches to it, handing over p->lock.
SchedPick(c, p) ==
    /\ run[c] = None /\ \A q \in Procs : plock[q] # c
    /\ plock[p] = None /\ state[p] = "RUNNABLE"
    /\ state' = [state EXCEPT ![p] = "RUNNING"]
    /\ plock' = [plock EXCEPT ![p] = p]
    /\ run' = [run EXCEPT ![c] = p]
    /\ UNCHANGED <<chan, killed, parent, wlock, pc, insched, child, todo, wchans>>

\* swtch() in sched(): the scheduler of this CPU now owns p->lock.
Swtch(c, p) ==
    /\ run[c] = p /\ insched[p] /\ state[p] # "RUNNING"
    /\ run' = [run EXCEPT ![c] = None]
    /\ plock' = [plock EXCEPT ![p] = c]
    /\ UNCHANGED <<state, chan, killed, parent, wlock, pc, insched, child, todo, wchans>>

\* scheduler() after swtch() returned: release(&p->lock).
SchedRelease(c, p) ==
    /\ plock[p] = c
    /\ plock' = [plock EXCEPT ![p] = None]
    /\ UNCHANGED <<state, chan, killed, parent, wlock, pc, insched, child, todo, wchans, run>>

\* sched() returned (or forkret() starts): tidy up chan, release(&p->lock).
Resume(p) ==
    /\ insched[p] /\ state[p] = "RUNNING" /\ plock[p] = p
    /\ insched' = [insched EXCEPT ![p] = FALSE]
    /\ chan' = [chan EXCEPT ![p] = None]
    /\ plock' = [plock EXCEPT ![p] = None]
    /\ UNCHANGED <<state, killed, parent, wlock, pc, child, todo, wchans, run>>

\* The code that may be interrupted by the timer: no spinlock is held.
Preemptible == {"user", "call", "fork_parent", "fork_run", "exit", "wait"}

Yield_Unlocked(p) ==
    /\ Runs(p) /\ pc[p] \in Preemptible /\ (pc[p] = "user" => ~killed[p])
    /\ plock[p] = None
    /\ state' = [state EXCEPT ![p] = "RUNNABLE"]
    /\ insched' = [insched EXCEPT ![p] = TRUE]
    /\ UNCHANGED <<plock, chan, killed, parent, wlock, pc, child, todo, wchans, run>>

\* The timer interrupt: usertrap() looks at killed before it yields,
\* kerneltrap() does not.
Yield(p) ==
    /\ Runs(p) /\ pc[p] \in Preemptible /\ (pc[p] = "user" => ~killed[p])
    /\ plock[p] = None
    /\ plock' = [plock EXCEPT ![p] = p]
    /\ state' = [state EXCEPT ![p] = "RUNNABLE"]
    /\ insched' = [insched EXCEPT ![p] = TRUE]
    /\ UNCHANGED <<chan, killed, parent, wlock, pc, child, todo, wchans, run>>

-----------------------------------------------------------------------------
(* System calls, and fork().                                               *)

\* usertrap(): a killed process makes no further call.
Syscall(p) ==
    /\ Runs(p) /\ pc[p] = "user" /\ plock[p] = None /\ ~killed[p]
    /\ Goto(p, "call")
    /\ UNCHANGED <<state, chan, killed, parent, plock, wlock, insched, child, todo, wchans, run>>

\* allocproc() and the copying, up to release(&np->lock).
Fork(p, np) ==
    /\ Runs(p) /\ pc[p] = "call" /\ plock[np] = None /\ state[np] = "UNUSED"
    /\ state' = [state EXCEPT ![np] = "USED"]
    /\ child' = [child EXCEPT ![p] = np]
    /\ Goto(p, "fork_parent")
    /\ UNCHANGED <<chan, killed, parent, plock, wlock, insched, todo, wchans, run>>

\* No memory: freeproc(np).  (No slot: the call returns and changes nothing.)
ForkFail(p, np) ==
    /\ Runs(p) /\ pc[p] = "call" /\ plock[np] = None
    /\ killed' = IF state[np] = "UNUSED" THEN [killed EXCEPT ![np] = FALSE] ELSE killed
    /\ Goto(p, "user")
    /\ UNCHANGED <<state, chan, parent, plock, wlock, insched, child, todo, wchans, run>>

\* np->parent = p under wait_lock.
ForkParent(p) ==
    /\ Runs(p) /\ pc[p] = "fork_parent" /\ wlock = None
    /\ parent' = [parent EXCEPT ![child[p]] = p]
    /\ Goto(p, "fork_run")
    /\ UNCHANGED <<state, chan, killed, plock, wlock, insched, child, todo, wchans, run>>

\* np->state = RUNNABLE under np->lock; np will start in forkret().
ForkRun(p) ==
    /\ Runs(p) /\ pc[p] = "fork_run" /\ plock[child[p]] = None
    /\ state' = [state EXCEPT ![child[p]] = "RUNNABLE"]
    /\ insched' = [insched EXCEPT ![child[p]] = TRUE]
    /\ Goto(p, "user")
    /\ child' = [child EXCEPT ![p] = None]
    /\ UNCHANGED <<chan, killed, parent, plock, wlock, todo, wchans, run>>

-----------------------------------------------------------------------------
(* exit().                                                                 *)

\* The system call, or usertrap() finding killed set.  init does not exit.
Exit(p) ==
    /\ Runs(p) /\ p # initproc /\ plock[p] = None
    /\ pc[p] = "call" \/ (pc[p] = "user" /\ killed[p])
    /\ Goto(p, "exit")
    /\ UNCHANGED <<state, chan, killed, parent, plock, wlock, insched, child, todo, wchans, run>>

Children(p) == {q \in Procs : parent[q] = p}

Reparent_Forgotten(p) == parent

\* reparent(): init adopts the children of p.
Reparent(p) == [q \in Procs |-> IF q \in Children(p) THEN initproc ELSE parent[q]]

\* The channels of reparent()'s wakeup(initproc), one per adopted child, and
\* of wakeup(p->parent).
Wakes(p) == {parent[p]} \cup (IF Children(p) = {} THEN {} ELSE {initproc})

\* acquire(&wait_lock); reparent(p).
ExitLock(p) ==
    /\ Runs(p) /\ pc[p] = "exit" /\ wlock = None
    /\ wlock' = p
    /\ parent' = Reparent(p)
    /\ todo' = Procs \ {p}
    /\ wchans' = Wakes(p)
    /\ Goto(p, "exit_wakeup")
    /\ UNCHANGED <<state, chan, killed, plock, insched, child, run>>

\* wakeup() visits slot q under q->lock.
ExitWakeup(p, q) ==
    /\ Runs(p) /\ pc[p] = "exit_wakeup" /\ q \in todo /\ plock[q] = None
    /\ state' = IF state[q] = "SLEEPING" /\ chan[q] \in wchans
                  THEN [state EXCEPT ![q] = "RUNNABLE"] ELSE state
    /\ todo' = todo \ {q}
    /\ IF todo' = {} THEN wchans' = {} /\ Goto(p, "exit_zombie")
                     ELSE UNCHANGED <<wchans, pc>>
    /\ UNCHANGED <<chan, killed, parent, plock, wlock, insched, child, run>>

\* acquire(&p->lock); ZOMBIE; release(&wait_lock); sched(), never to return.
ExitZombie(p) ==
    /\ Runs(p) /\ pc[p] = "exit_zombie" /\ plock[p] = None
    /\ plock' = [plock EXCEPT ![p] = p]
    /\ state' = [state EXCEPT ![p] = "ZOMBIE"]
    /\ wlock' = None
    /\ insched' = [insched EXCEPT ![p] = TRUE]
    /\ Goto(p, "dead")
    /\ UNCHANGED <<chan, killed, parent, child, todo, wchans, run>>

-----------------------------------------------------------------------------
(* wait() and sleep().                                                     *)

Wait(p) ==
    /\ Runs(p) /\ pc[p] = "call"
    /\ Goto(p, "wait")
    /\ UNCHANGED <<state, chan, killed, parent, plock, wlock, insched, child, todo, wchans, run>>

\* acquire(&wait_lock), on entry and again when sleep() returns.
WaitLock(p) ==
    /\ Runs(p) /\ pc[p] = "wait" /\ wlock = None
    /\ wlock' = p
    /\ Goto(p, "wait_scan")
    /\ UNCHANGED <<state, chan, killed, parent, plock, insched, child, todo, wchans, run>>

\* The scan finds the ZOMBIE q: freeproc(q), both locks released.
WaitReap(p, q) ==
    /\ Runs(p) /\ pc[p] = "wait_scan" /\ q \in Children(p)
    /\ plock[q] = None /\ state[q] = "ZOMBIE"
    /\ state' = [state EXCEPT ![q] = "UNUSED"]
    /\ chan' = [chan EXCEPT ![q] = None]
    /\ killed' = [killed EXCEPT ![q] = FALSE]
    /\ parent' = [parent EXCEPT ![q] = None]
    /\ insched' = [insched EXCEPT ![q] = FALSE]
    /\ pc' = [pc EXCEPT ![p] = "user", ![q] = "user"]
    /\ wlock' = None
    /\ UNCHANGED <<plock, child, todo, wchans, run>>

\* copyout() of the status fails: -1, and q stays a ZOMBIE.  init passes 0.
WaitCopyFail(p, q) ==
    /\ Runs(p) /\ pc[p] = "wait_scan" /\ q \in Children(p) /\ p # initproc
    /\ plock[q] = None /\ state[q] = "ZOMBIE"
    /\ wlock' = None
    /\ Goto(p, "user")
    /\ UNCHANGED <<state, chan, killed, parent, plock, insched, child, todo, wchans, run>>

NoZombie_OneChild(p) == Children(p) = {} \/ \E q \in Children(p) : state[q] # "ZOMBIE"

\* The whole table has been scanned.
NoZombie(p) == \A q \in Children(p) : state[q] # "ZOMBIE"

\* The scan finds no ZOMBIE (none appears meanwhile: exit() needs wait_lock):
\* -1 without children or when killed, else sleep().
WaitNone(p) ==
    /\ Runs(p) /\ pc[p] = "wait_scan" /\ plock[p] = None
    /\ NoZombie(p)
    /\ IF Children(p) = {} \/ killed[p]
         THEN wlock' = None /\ Goto(p, "user")
         ELSE UNCHANGED wlock /\ Goto(p, "sleep")
    /\ UNCHANGED <<state, chan, killed, parent, plock, insched, child, todo, wchans, run>>

SleepLock_Late(p) ==
    /\ Runs(p) /\ pc[p] = "sleep"
    /\ IF wlock = p
         THEN wlock' = None /\ UNCHANGED <<plock, pc>>
         ELSE /\ plock[p] = None /\ plock' = [plock EXCEPT ![p] = p]
              /\ Goto(p, "sleep_commit") /\ UNCHANGED wlock
    /\ UNCHANGED <<state, chan, killed, parent, insched, child, todo, wchans, run>>

\* sleep(): acquire(&p->lock), only then release(lk).
SleepLock(p) ==
    /\ Runs(p) /\ pc[p] = "sleep" /\ plock[p] = None
    /\ plock' = [plock EXCEPT ![p] = p]
    /\ wlock' = None
    /\ Goto(p, "sleep_commit")
    /\ UNCHANGED <<state, chan, killed, parent, insched, child, todo, wchans, run>>

\* sleep(): go to sleep on p; wait() reacquires wait_lock after sched().
SleepCommit(p) ==
    /\ Runs(p) /\ pc[p] = "sleep_commit" /\ plock[p] = p
    /\ chan' = [chan EXCEPT ![p] = p]
    /\ state' = [state EXCEPT ![p] = "SLEEPING"]
    /\ insched' = [insched EXCEPT ![p] = TRUE]
    /\ Goto(p, "wait")
    /\ UNCHANGED <<plock, killed, parent, wlock, child, todo, wchans, run>>

-----------------------------------------------------------------------------
(* kill().  Pid 0 is the pid of the UNUSED slots, so kill(0) reaches one.  *)

KillState_NoWake(q) == state

KillState(q) == IF state[q] = "SLEEPING" THEN [state EXCEPT ![q] = "RUNNABLE"] ELSE state

Kill(p, q) ==
    /\ Runs(p) /\ pc[p] = "call" /\ q # initproc /\ plock[q] = None
    /\ killed' = [killed EXCEPT ![q] = TRUE]
    /\ state' = KillState(q)
    /\ Goto(p, "user")
    /\ UNCHANGED <<chan, parent, plock, wlock, insched, child, todo, wchans, run>>

-----------------------------------------------------------------------------
\* A thread in the kernel has one next step, apart from the timer interrupt
\* and from the call the program chose.
Kernel(p) ==
    \/ ForkParent(p) \/ ForkRun(p) \/ Exit(p) \/ ExitLock(p) \/ ExitZombie(p)
    \/ Wait(p) \/ WaitLock(p) \/ WaitNone(p) \/ SleepLock(p) \/ SleepCommit(p)
    \/ \E q \in Procs : Fork(p, q) \/ ForkFail(p, q) \/ ExitWakeup(p, q)
                        \/ WaitReap(p, q) \/ WaitCopyFail(p, q) \/ Kill(p, q)

\* The rest of a switch on CPU c, with interrupts off.
Handover(c) ==
    \E p \in Procs : Swtch(c, p) \/ SchedRelease(c, p) \/ (run[c] = p /\ Resume(p))

Timer(c) == \E p \in Procs : run[c] = p /\ Yield(p)

Pick(p) == \E c \in CPUs : SchedPick(c, p)

Next ==
    \/ \E p \in Procs : Kernel(p) \/ Syscall(p) \/ Pick(p)
    \/ \E c \in CPUs : Handover(c) \/ Timer(c)

Spec == Init /\ [][Next]_vars

\* A thread that runs again and again in the kernel gets on (spinlocks are
\* fair), a CPU completes its switches, its timer keeps interrupting (the
\* interrupt stays pending while a spinlock is held), the scan of some scheduler
\* comes round to each RUNNABLE slot, and init (user/init.c) keeps calling wait().
Fairness ==
    /\ \A p \in Procs : SF_vars(Kernel(p) \/ (p = initproc /\ Syscall(p)))
    /\ \A p \in Procs : SF_vars(Pick(p))
    /\ \A c \in CPUs : WF_vars(Handover(c)) /\ SF_vars(Timer(c))
    /\ SF_vars(Wait(initproc))

LiveSpec == Spec /\ Fairness

-----------------------------------------------------------------------------
(* Properties.                                                             *)

\* No two CPUs run on one kernel stack, and while a CPU is still on the stack of
\* a process that is no longer RUNNING (yield, sleep or exit on its way into
\* swtch()) that process's lock is held, so no scheduler takes it and no wait()
\* frees it; sched()'s own checks never panic.
OneCpuPerStack ==
    /\ \A c, d \in CPUs : run[c] # None /\ run[c] = run[d] => c = d
    /\ \A c \in CPUs : run[c] # None =>
         LET p == run[c] IN state[p] = "RUNNING" \/ (insched[p] /\ plock[p] = p /\ wlock # p)

\* A started process other than init has a parent that is alive: exit() hands
\* every child on before it becomes a ZOMBIE, so somebody can still reap it.
HasParent ==
    \A p \in Procs \ {initproc} :
        state[p] \in {"RUNNABLE", "RUNNING", "SLEEPING", "ZOMBIE"} =>
            parent[p] # None /\ state[parent[p]] \in {"RUNNABLE", "RUNNING", "SLEEPING"}

\* No lost wakeup: a process asleep in wait() has a child and none of its
\* children is a ZOMBIE, unless an exit() under way is about to wake it.
NoLostWakeup ==
    \A p \in Procs : state[p] = "SLEEPING" =>
        /\ Children(p) # {}
        /\ (\E q \in Children(p) : state[q] = "ZOMBIE") => p \in todo \cap wchans

\* While ZOMBIEs are left to init, init keeps reaping: reparent() and wakeup()
\* never leave it asleep beside them.  (Not one by one: the scan of wait() starts
\* at proc[0], so a ZOMBIE in a high slot may be passed over again and again.)
InitKeepsReaping ==
    <>[](\E q \in Children(initproc) : state[q] = "ZOMBIE")
        => []<><<\E q \in Procs : WaitReap(initproc, q)>>_vars

\* kill() ends its victim: a killed process that is running, ready or asleep in
\* wait() comes to exit().  (On one CPU: on two, a kill() between wait()'s look at
\* killed and its sleep() wakes nobody, and the victim sleeps until a child exits.)
KilledExits ==
    \A q \in Procs \ {initproc} :
        killed[q] /\ state[q] \notin {"UNUSED", "ZOMBIE"}
            ~> state[q] \in {"UNUSED", "ZOMBIE"}
===========================================================================
