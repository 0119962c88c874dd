---------------------------- MODULE MCPrograms ----------------------------
(***************************************************************************)
(* An instance, for TLC, of the contents of files, of the way arguments    *)
(* and names reach the kernel, and of programs.  The modules share no      *)
(* state, so a behaviour is one of one of them, chosen by part, and the    *)
(* others stay at one of their initial states.                             *)
(***************************************************************************)
EXTENDS FileData, ShellRun, Sieve, Heap, UserCopy, PathNames, Grep, MkFs, TLC

CONSTANTS u1, u2    \* users of FileData

VARIABLE part

(* FileData: two users share the open file f, one also has g.              *)
BytesWritten == u1 :> 8 @@ u2 :> 9
InodesOpen == "f" :> "x" @@ "g" :> "y"
FilesHeld == u1 :> {"f", "g"} @@ u2 :> {"f"}

(* The shell: longer lines than all of those of up to MaxLine characters,  *)
(* and commands with pipes, lists, jobs and redirections in each other.    *)
LongCommandLines ==
    {<<"w", "|", "w", ";", "w", "&">>, <<"(", "w", "|", "w", ")", ">", "w", ";", "w">>,
     <<"w", "<", "w", ">", ">", "w", "|", "w">>, <<"(", "w", ";", "w", ")", "|", "(", "w", "&", ")">>,
     <<"w", " ", "w", " ", "w", " ", "w">>, <<"w", "&", "&", ";", "w", "&">>}

Cat == execcmd(<<<<1, 2>>>>)
Into(cmd, op) == redircmd(cmd, [op |-> op, file |-> <<1, 2>>])

CommandTrees ==
    {pipecmd(Cat, pipecmd(Cat, Cat)), listcmd(backcmd(Cat), Cat),
     pipecmd(listcmd(Cat, Cat), Cat), pipecmd(Cat, backcmd(Cat)), execcmd(<<>>),
     pipecmd(Into(Cat, "<"), Into(Into(Cat, "<"), "+"))}

(* grep and mkfs: every text of up to six characters, every list of up to  *)
(* three files around the sizes at which a block or the table is full.     *)
Expressions ==
    {<<"a">>, <<"^", "a", "$">>, <<"a", "*", "b">>, <<"^", ".", "*", "b", "$">>,
     <<"a", ".", "b">>, <<"$">>, <<"^", "b", "*", "a">>}
ShortTexts == UNION {[1 .. n -> {"a", "b", "nl"}] : n \in 0 .. 6}
SizeLists == UNION {[1 .. n -> {0, 1, 3, 4, 6, 7}] : n \in 0 .. 3}

-----------------------------------------------------------------------------
ProgInit ==
    /\ part \in {"data", "parse", "run", "sieve", "heap", "copy", "path", "grep", "mkfs"}
    /\ DataInit /\ SieveInit /\ HeapInit
    /\ IF part = "parse" THEN ParseInit ELSE line = <<>>
    /\ IF part = "run" THEN RunInit ELSE RunStart(Cat)
    /\ IF part = "copy" THEN CopyInit
       ELSE copying = [pages |-> [k \in UserPages |-> "none"], va |-> 0, len |-> 0, nul |-> 0]
    /\ IF part = "path" THEN PathInit ELSE path = <<>>
    /\ IF part = "grep" THEN GrepInit ELSE GrepStart(<<"a">>, <<>>)
    /\ IF part = "mkfs" THEN MkInit ELSE MkStart(<<>>)

\* All but DataNext come to an end, or have one state only.
ProgNext ==
    /\ \/ part = "data" /\ DataNext
       \/ part # "data" /\ UNCHANGED dataVars
    /\ \/ part = "run" /\ RunNext
       \/ UNCHANGED runVars
    /\ \/ part = "sieve" /\ SieveNext
       \/ UNCHANGED sieveVars
    /\ \/ part = "heap" /\ HeapNext
       \/ UNCHANGED heapVars
    /\ \/ part = "grep" /\ GrepNext
       \/ UNCHANGED grepVars
    /\ \/ part = "mkfs" /\ MkNext
       \/ UNCHANGED mkVars
    /\ UNCHANGED <<part, line, copying, path>>

ProgSpec ==
    ProgInit /\ [][ProgNext]_<<part, dataVars, line, runVars, sieveVars, heapVars,
                              copying, path, grepVars, mkVars>>
===========================================================================
