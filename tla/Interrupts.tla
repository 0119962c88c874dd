---------------------------- MODULE Interrupts ----------------------------
(***************************************************************************)
(* kernel/spinlock.c with the code that depends on its interrupt counting: *)
(* kerneltrap(), sched() and scheduler(), sleep() and wakeup().  A kernel  *)
(* thread runs with interrupts on, takes a lock lk that an interrupt       *)
(* handler takes too, may sleep with it, and may be interrupted and made   *)
(* to yield.  The scheduler of a CPU is a context named after the CPU.     *)
(***************************************************************************)
EXTENDS Words, FiniteSets

CONSTANTS Threads, CPUs, lk

ASSUME InterruptsAssumption ==
    /\ Threads \cap CPUs = {} /\ lk \notin Threads
    /\ None \notin Threads \cup CPUs

VARIABLES
    cpu,        \* struct cpu: proc, noff, intena; intr is the CPU's SIE bit
    owner,      \* lk->cpu of each spinlock: p->lock is named after the thread
    pos,         \* where each context is
    target,     \* the thread whose lock a scheduler or a wakeup() is at
    state,      \* p->state
    resume,     \* what a thread does when it runs again: forkret, sleep or yield
    saved       \* intena of its sched()

intrVars == <<cpu, owner, pos, target, state, resume, saved>>

Contexts == Threads \cup CPUs

IntrInit ==
    /\ cpu = [c \in CPUs |-> [proc |-> None, noff |-> 0, intena |-> FALSE, intr |-> TRUE]]
    /\ owner = [l \in Threads \cup {lk} |-> None]
    /\ pos = [x \in Contexts |-> IF x \in CPUs THEN "scan" ELSE "off"]
    /\ target = [x \in Contexts |-> None]
    /\ state = [t \in Threads |-> "RUNNABLE"]
    /\ resume = [t \in Threads |-> "forkret"]
    /\ saved = [t \in Threads |-> FALSE]

\* The context that CPU c executes.
Cur(c) == IF cpu[c].proc = None THEN c ELSE cpu[c].proc

push_off_LeavesOn(k) == [k EXCEPT !.noff = @ + 1, !.intena = IF k.noff = 0 THEN k.intr ELSE @]

push_off(k) ==
    [k EXCEPT !.intr = FALSE, !.noff = @ + 1, !.intena = IF k.noff = 0 THEN k.intr ELSE @]

pop_off(k) == [k EXCEPT !.noff = @ - 1, !.intr = (k.noff = 1 /\ k.intena)]

\* acquire(): push_off(), then spin until the swap finds the lock free.
Acquire(c, from, spin) ==
    /\ pos[Cur(c)] = from
    /\ cpu' = [cpu EXCEPT ![c] = push_off(@)]
    /\ pos' = [pos EXCEPT ![Cur(c)] = spin]
    /\ UNCHANGED <<owner, state, resume, saved>>

Acquired(c, l, spin, to) ==
    /\ pos[Cur(c)] = spin /\ owner[l] = None
    /\ owner' = [owner EXCEPT ![l] = c]
    /\ pos' = [pos EXCEPT ![Cur(c)] = to]
    /\ UNCHANGED <<cpu, target, state, resume, saved>>

Release(c, l, from, to) ==
    /\ pos[Cur(c)] = from
    /\ owner' = [owner EXCEPT ![l] = None]
    /\ cpu' = [cpu EXCEPT ![c] = pop_off(@)]
    /\ pos' = [pos EXCEPT ![Cur(c)] = to]

-----------------------------------------------------------------------------
(* A thread in the kernel: a section with lk, or sleep(chan, &lk) in it.   *)

Section(c) ==
    /\ cpu[c].proc # None
    /\ \/ Acquire(c, "run", "lk_spin") /\ UNCHANGED target
       \/ Acquire(c, "woken", "lk_spin") /\ UNCHANGED target
       \/ Acquired(c, lk, "lk_spin", "lk_held")
       \/ Release(c, lk, "lk_held", "run") /\ UNCHANGED <<target, state, resume, saved>>

Sleep(c) ==
    LET t == cpu[c].proc IN
    /\ t # None
    /\ \/ Acquire(c, "lk_held", "sl_spin") /\ UNCHANGED target
       \/ Acquired(c, t, "sl_spin", "sl_held")
       \/ /\ Release(c, lk, "sl_held", "sched")
          /\ state' = [state EXCEPT ![t] = "SLEEPING"]
          /\ resume' = [resume EXCEPT ![t] = "sleep"]
          /\ UNCHANGED <<target, saved>>

-----------------------------------------------------------------------------
(* kerneltrap(): an interrupt, taken by a thread or by the scheduler.      *)

Interruptible == {"run", "scan"}

Trap(c) ==
    /\ cpu[c].intr /\ pos[Cur(c)] \in Interruptible
    /\ cpu' = [cpu EXCEPT ![c].intr = FALSE]
    /\ pos' = [pos EXCEPT ![Cur(c)] = "trap"]
    /\ UNCHANGED <<owner, target, state, resume, saved>>

\* devintr(): a handler takes lk and calls wakeup(), which locks every thread
\* but the one that is running.
Handle(c) ==
    LET x == Cur(c) IN
    \/ Acquire(c, "trap", "h_spin") /\ UNCHANGED target
    \/ Acquired(c, lk, "h_spin", "h_held")
    \/ \E t \in Threads \ {cpu[c].proc} :
          Acquire(c, "h_held", "w_spin") /\ target' = [target EXCEPT ![x] = t]
    \/ target[x] # None /\ Acquired(c, target[x], "w_spin", "w_held")
    \/ /\ target[x] # None /\ Release(c, target[x], "w_held", "h_held")
       /\ state' = [state EXCEPT ![target[x]] = IF @ = "SLEEPING" THEN "RUNNABLE" ELSE @]
       /\ target' = [target EXCEPT ![x] = None]
       /\ UNCHANGED <<resume, saved>>
    \/ Release(c, lk, "h_held", "handled") /\ UNCHANGED <<target, state, resume, saved>>

\* A timer interrupt of a thread: yield().
Yield(c) ==
    LET t == cpu[c].proc IN
    /\ t # None
    /\ \/ Acquire(c, "trap", "y_spin") /\ UNCHANGED target
       \/ Acquire(c, "handled", "y_spin") /\ UNCHANGED target
       \/ Acquired(c, t, "y_spin", "y_held")
       \/ /\ pos[t] = "y_held"
          /\ pos' = [pos EXCEPT ![t] = "sched"]
          /\ state' = [state EXCEPT ![t] = "RUNNABLE"]
          /\ resume' = [resume EXCEPT ![t] = "yield"]
          /\ UNCHANGED <<cpu, owner, target, saved>>

\* sret: back to the interrupted code, or from forkret() to user code and its
\* next system call, with interrupts on.
TrapReturn(c) ==
    /\ pos[Cur(c)] \in {"handled", "yielded", "forked"}
    /\ cpu' = [cpu EXCEPT ![c].intr = TRUE]
    /\ pos' = [pos EXCEPT ![Cur(c)] = IF cpu[c].proc = None THEN "scan" ELSE "run"]
    /\ UNCHANGED <<owner, target, state, resume, saved>>

-----------------------------------------------------------------------------
(* sched() and scheduler().                                                *)

\* mycpu()->intena, kept over swtch().
Sched(c) ==
    LET t == cpu[c].proc IN
    /\ t # None /\ pos[t] = "sched"
    /\ saved' = [saved EXCEPT ![t] = cpu[c].intena]
    /\ cpu' = [cpu EXCEPT ![c].proc = None]
    /\ pos' = [pos EXCEPT ![t] = "off", ![c] = "s_held"]
    /\ UNCHANGED <<owner, target, state, resume>>

Scan(c) ==
    /\ cpu[c].proc = None
    /\ \/ \E t \in Threads :
            Acquire(c, "scan", "s_spin") /\ target' = [target EXCEPT ![c] = t]
       \/ target[c] # None /\ Acquired(c, target[c], "s_spin", "s_looks")
       \/ /\ pos[c] = "s_looks" /\ state[target[c]] # "RUNNABLE"
          /\ pos' = [pos EXCEPT ![c] = "s_held"]
          /\ UNCHANGED <<cpu, owner, target, state, resume, saved>>
       \/ /\ target[c] # None /\ Release(c, target[c], "s_held", "scan")
          /\ target' = [target EXCEPT ![c] = None]
          /\ UNCHANGED <<state, resume, saved>>
       \/ /\ pos[c] = "scan" /\ ~cpu[c].intr     \* intr_on(): the scan is over
          /\ cpu' = [cpu EXCEPT ![c].intr = TRUE]
          /\ UNCHANGED <<owner, pos, target, state, resume, saved>>

Switch(c) ==
    /\ pos[c] = "s_looks" /\ cpu[c].proc = None /\ state[target[c]] = "RUNNABLE"
    /\ state' = [state EXCEPT ![target[c]] = "RUNNING"]
    /\ cpu' = [cpu EXCEPT ![c].proc = target[c]]
    /\ pos' = [pos EXCEPT ![target[c]] = "back", ![c] = "away"]
    /\ UNCHANGED <<owner, target, resume, saved>>

Restored_Cpus(c, t) == cpu[c]

\* mycpu()->intena = intena, on the CPU the thread runs on now.
Restored(c, t) == [cpu[c] EXCEPT !.intena = saved[t]]

\* The thread is back in forkret(), sleep() or yield(): it releases p->lock.
Resume(c) ==
    LET t == cpu[c].proc IN
    /\ t # None /\ pos[t] = "back"
    /\ owner' = [owner EXCEPT ![t] = None]
    /\ cpu' = [cpu EXCEPT ![c] = pop_off(IF resume[t] = "forkret" THEN @ ELSE Restored(c, t))]
    /\ pos' = [pos EXCEPT ![t] = CASE resume[t] = "forkret" -> "forked"
                                 [] resume[t] = "sleep" -> "woken"
                                 [] resume[t] = "yield" -> "yielded"]
    /\ UNCHANGED <<target, state, resume, saved>>

IntrNext == \E c \in CPUs :
    \/ Section(c) \/ Sleep(c) \/ Trap(c) \/ Handle(c) \/ Yield(c) \/ TrapReturn(c)
    \/ Sched(c) \/ Scan(c) \/ Switch(c) \/ Resume(c)

-----------------------------------------------------------------------------
SpinsFor(c) ==
    LET x == Cur(c) IN
    CASE pos[x] \in {"lk_spin", "h_spin"} -> {lk}
      [] pos[x] \in {"sl_spin", "y_spin"} -> {x}
      [] pos[x] \in {"w_spin", "s_spin"} -> {target[x]}
      [] OTHER -> {}

\* noff counts the locks a CPU holds or spins for, and while it is not zero the
\* CPU takes no interrupt: so no handler spins for a lock of its own CPU
\* ("acquire"), no thread gives up the CPU with a lock ("sched locks").
LocksMaskInterrupts ==
    \A c \in CPUs :
        LET held == {l \in DOMAIN owner : owner[l] = c} IN
        /\ cpu[c].noff = Cardinality(held) + Cardinality(SpinsFor(c))
        /\ cpu[c].noff > 0 => ~cpu[c].intr
        /\ SpinsFor(c) \cap held = {}
        /\ pos[Cur(c)] = "sched" => held = {Cur(c)} /\ state[Cur(c)] # "RUNNING"

\* The interrupt state is the thread's, not the CPU's: wherever it resumes, code
\* that ran with interrupts on has them on, and a trap handler has them off
\* until it returns ("kerneltrap: interrupts enabled").
InterruptStateFollows ==
    \A c \in CPUs :
        /\ pos[Cur(c)] \in {"run", "woken"} => cpu[c].intr
        /\ pos[Cur(c)] \in {"trap", "handled", "yielded"} => ~cpu[c].intr
===========================================================================
