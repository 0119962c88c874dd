----------------------------- MODULE ShellRun -----------------------------
(***************************************************************************)
(* The shell at work (user/sh.c): main() forks a child that parses a line  *)
(* and runcmd()s it, with the forks, pipes, redirections and waits of each *)
(* kind of command.  The program that a command names is cat               *)
(* (user/cat.c): it reads descriptor 0 to its end and writes what it reads *)
(* to descriptor 1.  The kernel's side is what the calls promise: fork()   *)
(* copies descriptors, pipe() and dup() take the lowest free ones, a read  *)
(* of a pipe ends only when no descriptor for its write end is left.       *)
(***************************************************************************)
EXTENDS ShellParse

CONSTANTS
    Commands,   \* what the parser built from the lines typed at the prompt
    Jobs,       \* process slots 1 .. Jobs; the shell is 1
    Descs,      \* descriptors per process
    Chunks      \* chunks that one cat gets from the console or a file

VARIABLES
    shp,        \* of each process: what it executes, its descriptors, its parent
    held        \* chunks in each pipe (capacity 1)

runVars == <<shp, held>>

DescNos == 0 .. Descs - 1
Tubes == 1 .. Descs
Closed == <<"closed", 0>>
ConsoleFile == <<"console", 0>>
DiskFile == <<"disk", 0>>
Gone == [pc |-> "unused", cmd |-> execcmd(<<>>), fds |-> [d \in DescNos |-> Closed],
         p |-> <<0, 0>>, parent |-> 0, left |-> 0]

RunStart(cmd) ==
    /\ shp = [j \in 1 .. Jobs |->
                IF j = 1 THEN [Gone EXCEPT !.pc = "prompt", !.cmd = cmd,
                                 !.fds = [d \in DescNos |-> IF d < 3 THEN ConsoleFile ELSE Closed]]
                ELSE Gone]
    /\ held = [k \in Tubes |-> 0]

RunInit == \E cmd \in Commands : RunStart(cmd)

Lowest(fds) == Min({d \in DescNos : fds[d] = Closed})
IsOpen(end) == \E j \in 1 .. Jobs, d \in DescNos : shp[j].fds[d] = end
Kids(j) == {c \in 1 .. Jobs : shp[c].parent = j /\ shp[c].pc # "unused"}
Doing(j, pc) == shp[j].pc = pc
InRun(j, type) == shp[j].pc = "run" /\ shp[j].cmd.type = type

\* exit(): every descriptor is closed, children go to init, which reaps them.
Exited(j) ==
    [c \in 1 .. Jobs |->
        CASE c = j -> IF shp[j].parent = 0 THEN Gone
                      ELSE [Gone EXCEPT !.pc = "zombie", !.parent = shp[j].parent]
          [] c \in Kids(j) -> IF shp[c].pc = "zombie" THEN Gone ELSE [shp[c] EXCEPT !.parent = 0]
          [] OTHER -> shp[c]]

JobExit(j) == shp' = Exited(j) /\ UNCHANGED held

\* fork1(): the child starts at pc with cmd; a failed fork() panics, which exits.
JobFork(j, pc, cmd, next) ==
    LET free == {c \in 1 .. Jobs : shp[c].pc = "unused"} IN
    \/ /\ free # {}
       /\ shp' = [shp EXCEPT ![Min(free)] = [shp[j] EXCEPT !.pc = pc, !.cmd = cmd, !.parent = j],
                             ![j].pc = next]
       /\ UNCHANGED held
    \/ JobExit(j)

\* wait(0): reaps one child, or fails at once if there is none.
JobWait(j, pc, next) ==
    /\ Doing(j, pc)
    /\ \/ Kids(j) = {} /\ shp' = [shp EXCEPT ![j].pc = next]
       \/ \E c \in Kids(j) : /\ shp[c].pc = "zombie"
                             /\ shp' = [shp EXCEPT ![c] = Gone, ![j].pc = next]
    /\ UNCHANGED held

\* main(): the child parses the line, which nothing changes meanwhile, and runs it.
\* A line that does not parse ends the child as an empty command does.
Prompt(j) == Doing(j, "prompt") /\ JobFork(j, "run", shp[j].cmd, "shwait")
---------------------------------------------------------------------------
RunExec(j) ==
    /\ InRun(j, "EXEC")
    /\ \/ JobExit(j)
       \/ /\ shp[j].cmd.argv # <<>>
          /\ shp' = [shp EXCEPT ![j].pc = "read", ![j].left = Chunks]
          /\ UNCHANGED held

RunRedir(j) ==
    LET d == IF shp[j].cmd.op = "<" THEN 0 ELSE 1
        fds == [shp[j].fds EXCEPT ![d] = Closed]
    IN  /\ InRun(j, "REDIR")
        /\ \/ /\ shp' = [shp EXCEPT ![j].fds = [fds EXCEPT ![Lowest(fds)] = DiskFile],
                                    ![j].cmd = shp[j].cmd.cmd]
              /\ UNCHANGED held
           \/ JobExit(j)

RunList(j) == InRun(j, "LIST") /\ JobFork(j, "run", shp[j].cmd.left, "list")

ListNext(j) ==
    /\ Doing(j, "right")
    /\ shp' = [shp EXCEPT ![j].pc = "run", ![j].cmd = shp[j].cmd.right]
    /\ UNCHANGED held

RunBack(j) == InRun(j, "BACK") /\ JobFork(j, "run", shp[j].cmd.cmd, "exit")

RunPipe(j) ==
    LET k == Min({k \in Tubes : ~ IsOpen(<<"r", k>>) /\ ~ IsOpen(<<"w", k>>)})
        r == Lowest(shp[j].fds)
        w == Lowest([shp[j].fds EXCEPT ![r] = <<"r", k>>])
    IN  /\ InRun(j, "PIPE")
        /\ shp' = [shp EXCEPT ![j].pc = "pipe1", ![j].p = <<r, w>>,
                              ![j].fds[r] = <<"r", k>>, ![j].fds[w] = <<"w", k>>]
        /\ held' = [held EXCEPT ![k] = 0]


ForkLeft(j) == Doing(j, "pipe1") /\ JobFork(j, "left", shp[j].cmd.left, "pipe2")
ForkRight(j) == Doing(j, "pipe2") /\ JobFork(j, "right0", shp[j].cmd.right, "pipe3")

\* The child moves its end of the pipe to descriptor d and drops the others.
Wired(j, d, end) ==
    LET fds == [shp[j].fds EXCEPT ![d] = Closed]
        dup == [fds EXCEPT ![Lowest(fds)] = shp[j].fds[end]]
    IN  [dup EXCEPT ![shp[j].p[1]] = Closed, ![shp[j].p[2]] = Closed]

WireLeft(j) ==
    /\ Doing(j, "left")
    /\ shp' = [shp EXCEPT ![j].pc = "run", ![j].fds = Wired(j, 1, shp[j].p[2]), ![j].p = <<0, 0>>]
    /\ UNCHANGED held

WireRight(j) ==
    /\ Doing(j, "right0")
    /\ shp' = [shp EXCEPT ![j].pc = "run", ![j].fds = Wired(j, 0, shp[j].p[1]), ![j].p = <<0, 0>>]
    /\ UNCHANGED held

ClosePipe_ReadEndOnly(j) ==
    /\ Doing(j, "pipe3")
    /\ shp' = [shp EXCEPT ![j].pc = "wait2", ![j].p = <<0, 0>>, ![j].fds[shp[j].p[1]] = Closed]
    /\ UNCHANGED held

ClosePipe(j) ==
    /\ Doing(j, "pipe3")
    /\ shp' = [shp EXCEPT ![j].pc = "wait2", ![j].p = <<0, 0>>,
                          ![j].fds[shp[j].p[1]] = Closed, ![j].fds[shp[j].p[2]] = Closed]
    /\ UNCHANGED held
---------------------------------------------------------------------------
\* cat: a read returns data, or 0 at the end, which ends the program.
CatRead(j) ==
    LET in == shp[j].fds[0] IN
    /\ Doing(j, "read")
    /\ \/ /\ in[1] = "r" /\ held[in[2]] > 0
          /\ held' = [held EXCEPT ![in[2]] = 0]
          /\ shp' = [shp EXCEPT ![j].pc = "write"]
       \/ /\ in[1] = "r" /\ held[in[2]] = 0 /\ ~ IsOpen(<<"w", in[2]>>)
          /\ shp' = Exited(j) /\ UNCHANGED held
       \/ /\ in[1] # "r" /\ shp[j].left > 0
          /\ shp' = [shp EXCEPT ![j].pc = "write", ![j].left = @ - 1]
          /\ UNCHANGED held
       \/ in[1] # "r" /\ shp' = Exited(j) /\ UNCHANGED held

\* A write to a pipe that nobody can read any more fails.
CatWrite(j) ==
    LET out == shp[j].fds[1] IN
    /\ Doing(j, "write")
    /\ \/ /\ out[1] = "w" /\ ~ IsOpen(<<"r", out[2]>>)
          /\ shp' = Exited(j) /\ UNCHANGED held
       \/ /\ out[1] = "w" /\ IsOpen(<<"r", out[2]>>) /\ held[out[2]] = 0
          /\ held' = [held EXCEPT ![out[2]] = 1]
          /\ shp' = [shp EXCEPT ![j].pc = "read"]
       \/ /\ out[1] # "w"
          /\ shp' = [shp EXCEPT ![j].pc = "read"] /\ UNCHANGED held

RunNext ==
    \E j \in 1 .. Jobs :
        \/ Prompt(j) \/ JobWait(j, "shwait", "done")
        \/ RunExec(j) \/ RunRedir(j) \/ RunBack(j)
        \/ RunList(j) \/ JobWait(j, "list", "right") \/ ListNext(j)
        \/ RunPipe(j) \/ ForkLeft(j) \/ ForkRight(j) \/ WireLeft(j) \/ WireRight(j)
        \/ ClosePipe(j) \/ JobWait(j, "wait2", "wait1") \/ JobWait(j, "wait1", "exit")
        \/ (Doing(j, "exit") /\ JobExit(j))
        \/ CatRead(j) \/ CatWrite(j)

RunSpec == RunInit /\ [][RunNext]_runVars
---------------------------------------------------------------------------
\* A command line always comes to its end: the processes of a line never wait for
\* each other for ever.  When nothing can run any more the shell is past its wait()
\* (or has panicked), and no process is left, because each pipeline's reader gets
\* its end-of-file and each writer is drained or fails.
PipelinesEnd ==
    (\A j \in 1 .. Jobs : shp[j].pc \in {"unused", "done"}) \/ ENABLED RunNext
===========================================================================
