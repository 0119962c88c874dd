---------------------------- MODULE ShellParse ----------------------------
(***************************************************************************)
(* The parser of the shell (user/sh.c): the tokenizer, the recursive       *)
(* descent, and nulterminate(), which cuts the words out of the line in    *)
(* place once it is parsed.  A line is a sequence of characters; "nul"     *)
(* stands for the byte after its end.  A word is the pair <<q, eq>> of its *)
(* first position and the one after its last.                              *)
(***************************************************************************)
EXTENDS Naturals, Sequences, FiniteSets, FiniteSetsExt, SequencesExt

CONSTANTS
    Letters,    \* characters of words
    MaxLine,    \* length up to which all lines are tried
    LongLines,  \* longer lines that are tried too
    MAXARGS

Symbols == {"<", "|", ">", "&", ";", "(", ")"}

VARIABLE line

CharAt(k) == IF k > Len(line) THEN "nul" ELSE line[k]
Panic == [pos |-> 0]
Parsed(cmd, s) == [pos |-> s, cmd |-> cmd]
---------------------------------------------------------------------------
execcmd(argv) == [type |-> "EXEC", argv |-> argv]
redircmd(cmd, redir) == [type |-> "REDIR", cmd |-> cmd, file |-> redir.file, op |-> redir.op]
pipecmd(left, right) == [type |-> "PIPE", left |-> left, right |-> right]
listcmd(left, right) == [type |-> "LIST", left |-> left, right |-> right]
backcmd(cmd) == [type |-> "BACK", cmd |-> cmd]
Wrapped(cmd, redirs) == FoldLeft(redircmd, cmd, redirs)

Skip(s) == Min({k \in s .. Len(line) + 1 : CharAt(k) # " "})
WordEnd(s) == Min({k \in s .. Len(line) + 1 : CharAt(k) \notin Letters})

TokenEnd(q) ==
    CASE CharAt(q) = "nul" -> q
      [] CharAt(q) \in Symbols -> IF CharAt(q) = ">" /\ CharAt(q + 1) = ">" THEN q + 2 ELSE q + 1
      [] OTHER -> WordEnd(q)

gettoken(s) ==
    LET q == Skip(s)
        eq == TokenEnd(q)
    IN  [tok |-> IF CharAt(q) \in Letters THEN "a" ELSE IF eq = q + 2 THEN "+" ELSE CharAt(q),
         word |-> <<q, eq>>,
         next |-> Skip(eq)]

peek(s, toks) == CharAt(Skip(s)) \in toks

\* What follows a part that has been parsed; a panic() ends it all.
Then(r, Rest(_)) == IF r = Panic THEN Panic ELSE Rest(r)

\* The redirections at s, appended to those the command has.
RECURSIVE parseredirs(_, _)
parseredirs(redirs, s) ==
    LET Add(op, file) ==
          IF file.tok # "a" THEN Panic
          ELSE parseredirs(Append(redirs, [op |-> op.tok, file |-> file.word]), file.next)
        From(op) == Add(op, gettoken(op.next))
    IN  IF ~ peek(s, {"<", ">"}) THEN Parsed(redirs, Skip(s)) ELSE From(gettoken(s))

RECURSIVE parseargs(_, _, _)
parseargs(argv, redirs, s) ==
    LET Add(t) ==
          IF t.tok = "nul" THEN Parsed(Wrapped(execcmd(argv), redirs), Skip(s))
          ELSE IF t.tok # "a" \/ Len(argv) + 1 >= MAXARGS THEN Panic
          ELSE Then(parseredirs(redirs, t.next),
                    LAMBDA r : parseargs(Append(argv, t.word), r.cmd, r.pos))
    IN  IF peek(s, {"|", ")", "&", ";"}) THEN Parsed(Wrapped(execcmd(argv), redirs), Skip(s))
        ELSE Add(gettoken(s))

RECURSIVE parseline(_)
parseblock(s) ==
    Then(parseline(gettoken(s).next),
         LAMBDA body : IF ~ peek(body.pos, {")"}) THEN Panic
                       ELSE Then(parseredirs(<<>>, gettoken(body.pos).next),
                                 LAMBDA r : Parsed(Wrapped(body.cmd, r.cmd), r.pos)))

parseexec(s) ==
    IF peek(s, {"("}) THEN parseblock(s)
    ELSE Then(parseredirs(<<>>, s), LAMBDA r : parseargs(<<>>, r.cmd, r.pos))

RECURSIVE parsepipe(_)
parsepipe(s) ==
    Then(parseexec(s),
         LAMBDA left : IF ~ peek(left.pos, {"|"}) THEN left
                       ELSE Then(parsepipe(gettoken(left.pos).next),
                                 LAMBDA right : Parsed(pipecmd(left.cmd, right.cmd), right.pos)))

parseback_Once(r) ==
    IF ~ peek(r.pos, {"&"}) THEN r ELSE Parsed(backcmd(r.cmd), gettoken(r.pos).next)

RECURSIVE parseback(_)
parseback(r) ==
    IF ~ peek(r.pos, {"&"}) THEN r
    ELSE parseback(Parsed(backcmd(r.cmd), gettoken(r.pos).next))

parseline(s) ==
    LET List(left) ==
          IF ~ peek(left.pos, {";"}) THEN left
          ELSE Then(parseline(gettoken(left.pos).next),
                    LAMBDA right : Parsed(listcmd(left.cmd, right.cmd), right.pos))
    IN  Then(parsepipe(s), LAMBDA r : List(parseback(r)))

parsecmd ==
    Then(parseline(1), LAMBDA r : IF Skip(r.pos) # Len(line) + 1 THEN Panic ELSE r)

\* nulterminate(): every byte after a word becomes NUL.
RECURSIVE WordsIn(_)
WordsIn(cmd) ==
    CASE cmd.type = "EXEC" -> ToSet(cmd.argv)
      [] cmd.type = "REDIR" -> WordsIn(cmd.cmd) \union {cmd.file}
      [] cmd.type = "BACK" -> WordsIn(cmd.cmd)
      [] OTHER -> WordsIn(cmd.left) \union WordsIn(cmd.right)

nulterminate(cmd) ==
    [k \in DOMAIN line |-> IF \E w \in WordsIn(cmd) : w[2] = k THEN "nul" ELSE line[k]]

ParseInit ==
    line \in UNION {[1 .. n -> Letters \union Symbols \union {" "}] : n \in 0 .. MaxLine}
             \union LongLines
---------------------------------------------------------------------------
(***************************************************************************)
(* The reference: the tokens of a line, and the set of commands that the   *)
(* grammar derives from tokens a .. b - 1                                   *)
(*    line = pipe {"&"} [";" line]      pipe = exec ["|" pipe]              *)
(*    exec = {word | redirection}  |  "(" line ")" {redirection}            *)
(***************************************************************************)
Arrows(k) == k - 1 - Max({0} \union {j \in 1 .. k - 1 : line[j] # ">"})

StartsToken(k) ==
    CASE line[k] = " " -> FALSE
      [] line[k] = ">" -> Arrows(k) % 2 = 0
      [] line[k] \in Letters -> k = 1 \/ line[k - 1] \notin Letters
      [] OTHER -> TRUE

\* The numbers from a to b - 1 that pass the test, in order.
Those(Test(_), a, b) == SelectSeq([k \in 1 .. b - a |-> a + k - 1], Test)

Starts == Those(StartsToken, 1, Len(line) + 1)

Token(n) ==
    LET q == Starts[n] IN
    IF line[q] \in Letters THEN "a" ELSE IF line[q] = ">" /\ CharAt(q + 1) = ">" THEN "+" ELSE line[q]

Word(n) ==
    <<Starts[n], CHOOSE e \in Starts[n] + 1 .. Len(line) + 1 :
                    /\ \A k \in Starts[n] .. e - 1 : line[k] \in Letters
                    /\ CharAt(e) \notin Letters>>

IsRedir(n) == Token(n) \in {"<", ">", "+"}

Simple(a, b) ==
    LET files == {n \in a .. b - 1 : n > a /\ IsRedir(n - 1)}
        args == Those(LAMBDA n : ~ IsRedir(n) /\ n \notin files, a, b)
        ops == Those(IsRedir, a, b)
    IN  IF /\ \A n \in a .. b - 1 : Token(n) = "a" \/ (IsRedir(n) /\ n \notin files /\ n + 1 < b)
           /\ Len(args) < MAXARGS
        THEN {Wrapped(execcmd([j \in DOMAIN args |-> Word(args[j])]),
                      [j \in DOMAIN ops |-> [op |-> Token(ops[j]), file |-> Word(ops[j] + 1)]])}
        ELSE {}

OnlyRedirs(a, b) ==
    /\ (b - a) % 2 = 0
    /\ \A n \in a .. b - 1 : IF (n - a) % 2 = 0 THEN IsRedir(n) ELSE Token(n) = "a"

RECURSIVE Lines(_, _)
Blocks(a, b) ==
    UNION {{Wrapped(t, [j \in 1 .. (b - m) \div 2 |->
                          [op |-> Token(m + 2 * j - 1), file |-> Word(m + 2 * j)]]) :
              t \in Lines(a + 1, m)} :
           m \in {n \in a + 1 .. b - 1 : /\ Token(a) = "(" /\ Token(n) = ")"
                                         /\ OnlyRedirs(n + 1, b)}}

RECURSIVE Pipes(_, _)
Pipes(a, b) ==
    LET Execs(c, d) == Simple(c, d) \union Blocks(c, d) IN
    Execs(a, b) \union
    UNION {{pipecmd(l, r) : l \in Execs(a, m), r \in Pipes(m + 1, b)} :
           m \in {n \in a .. b - 1 : Token(n) = "|"}}

RECURSIVE Backs(_, _)
Backs(a, b) ==
    Pipes(a, b) \union
    IF a < b /\ Token(b - 1) = "&" THEN {backcmd(t) : t \in Backs(a, b - 1)} ELSE {}

Lines(a, b) ==
    Backs(a, b) \union
    UNION {{listcmd(l, r) : l \in Backs(a, m), r \in Lines(m + 1, b)} :
           m \in {n \in a .. b - 1 : Token(n) = ";"}}

\* The parser accepts exactly the lines of the grammar and builds the one command
\* that the grammar gives them: pipes bind tighter than "&", "&" tighter than ";",
\* and a command's redirections wrap it in the order they are written.
ParsesGrammar ==
    Lines(1, Len(Starts) + 1) = IF parsecmd = Panic THEN {} ELSE {parsecmd.cmd}

\* Cutting words in place loses none: after nulterminate() the C string at each
\* word's start is the word, although the NULs overwrite bytes of the line that
\* other pointers may lead to.
WordsSurvive ==
    parsecmd # Panic =>
        \A w \in WordsIn(parsecmd.cmd) :
            LET text == nulterminate(parsecmd.cmd)
                end == Min({k \in w[1] .. Len(line) + 1 : k > Len(line) \/ text[k] = "nul"})
            IN  SubSeq(text, w[1], end - 1) = SubSeq(line, w[1], w[2] - 1)

\* A line becomes the command it spells, structure and words.
LineUnderstood == ParsesGrammar /\ WordsSurvive
===========================================================================
