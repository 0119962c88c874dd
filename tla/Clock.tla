------------------------------- MODULE Clock ------------------------------
(***************************************************************************)
(* The clock: clockintr() on CPU 0 and processes in sys_sleep().  Both run *)
(* under tickslock; kill() does not take it.  ticks is a C uint.           *)
(***************************************************************************)
EXTENDS Words

CONSTANTS
    Sleepers,
    MAXTICKS,   \* largest n of a sleep(n): INT_MAX in the code
    MAXLAG      \* bound: ticks a process that can run waits for a CPU

ASSUME ClockAssumption ==
    MAXTICKS \in Nat /\ MAXLAG \in Nat /\ MAXTICKS + MAXLAG < MODULUS

VARIABLES
    ticks,
    task,       \* where each process is
    ticks0, want,   \* the locals of its sys_sleep(): ticks0 and n
    passed,     \* ticks since it read ticks0
    dead        \* p->killed

clockVars == <<ticks, task, ticks0, want, passed, dead>>

ClockInit ==
    /\ ticks = 0
    /\ task = [p \in Sleepers |-> "idle"]
    /\ ticks0 = [p \in Sleepers |-> 0]
    /\ want = [p \in Sleepers |-> 0]
    /\ passed = [p \in Sleepers |-> 0]
    /\ dead = [p \in Sleepers |-> FALSE]

\* clockintr(): ticks++, wakeup(&ticks).
Tick ==
    /\ \A p \in Sleepers : task[p] = "check" => passed[p] < want[p] + MAXLAG
    /\ ticks' = (ticks + 1) % MODULUS
    /\ task' = [p \in Sleepers |-> IF task[p] = "asleep" THEN "check" ELSE task[p]]
    /\ passed' = [p \in Sleepers |-> IF task[p] = "idle" THEN 0 ELSE passed[p] + 1]
    /\ UNCHANGED <<ticks0, want, dead>>

SleepCall(p, n) ==
    /\ task[p] = "idle" /\ ~dead[p]
    /\ task' = [task EXCEPT ![p] = "check"]
    /\ want' = [want EXCEPT ![p] = IF n < 0 THEN 0 ELSE n]
    /\ ticks0' = [ticks0 EXCEPT ![p] = ticks]
    /\ UNCHANGED <<ticks, passed, dead>>

Early_Signed(p) == ticks - ticks0[p] < want[p]

\* ticks - ticks0 < n
Early(p) == Distance(ticks0[p], ticks) < want[p]

\* Killed, or the time has come: return.
SleepEnd(p) ==
    /\ task[p] = "check" /\ (dead[p] \/ ~Early(p))
    /\ task' = [task EXCEPT ![p] = "idle"]
    /\ ticks0' = [ticks0 EXCEPT ![p] = 0]
    /\ want' = [want EXCEPT ![p] = 0]
    /\ passed' = [passed EXCEPT ![p] = 0]
    /\ UNCHANGED <<ticks, dead>>

SleepOn(p) ==
    /\ task[p] = "check" /\ Early(p) /\ ~dead[p]
    /\ task' = [task EXCEPT ![p] = "asleep"]
    /\ UNCHANGED <<ticks, ticks0, want, passed, dead>>

\* kill(), and the exit of the killed process, whose slot is used again.
KillSleeper(p) ==
    /\ task[p] # "idle" /\ ~dead[p]
    /\ dead' = [dead EXCEPT ![p] = TRUE]
    /\ task' = [task EXCEPT ![p] = IF @ = "asleep" THEN "check" ELSE @]
    /\ UNCHANGED <<ticks, ticks0, want, passed>>

SleeperExits(p) ==
    /\ task[p] = "idle" /\ dead[p]
    /\ dead' = [dead EXCEPT ![p] = FALSE]
    /\ UNCHANGED <<ticks, task, ticks0, want, passed>>

ClockNext ==
    \/ Tick
    \/ \E p \in Sleepers :
         \/ \E n \in -1..MAXTICKS : SleepCall(p, n)
         \/ SleepEnd(p) \/ SleepOn(p) \/ KillSleeper(p) \/ SleeperExits(p)

\* sleep(n) lasts at least n ticks and does not sleep through the n-th,
\* although ticks wraps: its process sleeps exactly while fewer have passed.
SleepsForN ==
    [][\A p \in Sleepers :
         /\ task[p] = "check" /\ task'[p] = "idle" => dead[p] \/ passed[p] >= want[p]
         /\ task'[p] = "asleep" => passed'[p] < want'[p]]_clockVars
===========================================================================
