------------------------------- MODULE Shell -------------------------------
(***************************************************************************)
(* myshell.c as processes: the shell, the two sub-shells of a `;' line and *)
(* the commands they fork.  A record stands for a process; fork copies it, *)
(* exec replaces the program by an external one, exit leaves a zombie for  *)
(* wait.  SIGINT goes to the whole foreground group, and a forked process  *)
(* keeps the shell's handler until it calls exec.                          *)
(***************************************************************************)
EXTENDS CommandLine, FiniteSets

CONSTANTS
  Pids,        \* the processes the user may have
  Shell,       \* the one that runs main
  Scripts,     \* what may be typed: sequences of lines
  Batch,       \* the lines of the one file executeCommands is given
  Programs,    \* name -> [reads: its input to the end, writes: how much]
  Readable, Writable, Directories,   \* names in the file system
  Pipes,       \* the pipes there can be at a time
  Capacity,    \* how much a pipe holds
  Interrupts   \* how often ^C is typed

Nobody == 0   \* init: the parent of an orphan
ASSUME ShellAssumption ==
  /\ Shell \in Pids /\ Nobody \notin Pids
  /\ Scripts \subseteq Seq(Seq(STRING)) /\ Batch \in Seq(Seq(STRING))
  /\ \A name \in DOMAIN Programs : Programs[name].writes \in Nat
  /\ Capacity \in Nat \ {0} /\ Interrupts \in Nat /\ "home" \in Directories
  /\ Pipes \cap (Readable \cup Writable \cup {"tty", "closed", "files.txt"}) = {}

VARIABLES
  script,   \* the lines the user will have typed
  typed,    \* how many of them have been read
  proc,     \* proc[p]: the live process or zombie p
  content,  \* content[pipe]: how much is in it
  signals   \* how many SIGINTs are still to come

vars == <<script, typed, proc, content, signals>>

\* The parser's results for every text there is, tabulated.
Lines == UNION {ToSet(lines) : lines \in Scripts \cup {Batch}}
PiecesOf == [line \in Lines |-> Pieces(line)]
CommandsOf == [text \in UNION {ToSet(PiecesOf[line]) : line \in Lines} |-> Commands(text)]

\* at: where in the code; text: what it is to execute, lines: what main
\* executes after that; cmds, role: the commands parsed and, in a child, which
\* one it runs; pipe: fdpipes; in, out: descriptors 0 and 1, ends: the others;
\* left: how much the program has to write; ask: pending questions of the
\* SIGINT handler, the running one included.
Boot == [parent |-> Nobody, at |-> "prompt", text |-> Null, lines |-> <<>>,
         cmds |-> <<>>, role |-> "none", pipe |-> "none", in |-> "tty",
         out |-> "tty", ends |-> {}, cwd |-> "home", left |-> 0, ask |-> 0]

Zombie(parent) == [Boot EXCEPT !.parent = parent, !.at = "zombie"]

Init ==
  /\ script \in Scripts
  /\ typed = 0
  /\ proc = [p \in {Shell} |-> Boot]
  /\ content = [pipe \in Pipes |-> 0]
  /\ signals = Interrupts

-----------------------------------------------------------------------------
(* The kernel *)

Alive(P) == {p \in DOMAIN P : P[p].at # "zombie"}
Children(P, p) == {q \in DOMAIN P : P[q].parent = p}

\* The processes of D end.  Their children go to init, which reaps zombies.
Ended(P, D) ==
  LET adopted == D \cup {Nobody}
      reaped  == {q \in DOMAIN P : P[q].parent \in adopted /\ q \notin Alive(P) \ D}
  IN  [q \in DOMAIN P \ reaped |->
         IF q \in D THEN Zombie(P[q].parent)
         ELSE IF P[q].parent \in D THEN [P[q] EXCEPT !.parent = Nobody]
         ELSE P[q]]

\* p forks a child that is to be as given; without a free process number fork
\* fails and p leaves with an error.  The number of Shell is not given again.
Fork(P, p, child) ==
  LET free == Pids \ (DOMAIN P \cup {Shell})
  IN  IF free = {}
        THEN Ended(P, {p})
        ELSE [q \in DOMAIN P \cup {CHOOSE pid \in free : TRUE} |->
                IF q \in DOMAIN P THEN P[q] ELSE [child EXCEPT !.parent = p]]

\* The outcomes of wait(NULL) in p: a dead child is reaped, or there are no
\* children and it fails.
Waited(P, p) ==
  IF Children(P, p) = {}
    THEN {P}
    ELSE {Restrict(P, DOMAIN P \ {q}) : q \in Children(P, p) \ Alive(P)}

Ends(r) == r.ends \cup {<<"read", r.in>>, <<"write", r.out>>}
HasEnd(P, pipe, end) == \E p \in DOMAIN P : <<end, pipe>> \in Ends(P[p])
NewPipe(P) ==
  CHOOSE pipe \in Pipes : ~HasEnd(P, pipe, "read") /\ ~HasEnd(P, pipe, "write")

\* p takes a step of its own: it is not in the handler.
At(p, place) == p \in DOMAIN proc /\ proc[p].at = place /\ proc[p].ask = 0

-----------------------------------------------------------------------------
(* main and commaChecker *)

\* What the shell does after a line: the next one of the file of
\* executeCommands, or the prompt; a sub-shell exits.
Returned(P, p) ==
  IF p # Shell THEN Ended(P, {p})
  ELSE IF P[p].lines = <<>>
    THEN [P EXCEPT ![p] = [Boot EXCEPT !.ends = P[p].ends, !.cwd = P[p].cwd]]
    ELSE [P EXCEPT ![p].at = "line", ![p].text = Head(P[p].lines),
                   ![p].lines = Tail(@), ![p].cmds = <<>>, ![p].pipe = "none"]

\* The lines of the file up to an empty one.
BatchLines(line) == IF Name(Word2(line)) = "batch" THEN UpTo(Batch, Null) ELSE <<>>

\* One turn of main's loop up to the first call of commaChecker.
ReadLine ==
  LET line  == script[typed + 1]
      first == Word1(line)
      lines == IF first = <<"executeCommands">> THEN BatchLines(line) ELSE <<line>>
  IN  /\ At(Shell, "prompt")
      /\ typed < Len(script)
      /\ typed' = typed + 1
      /\ proc' = IF first \in {<<"exit">>, <<Quote, "exit", Quote>>}
                   THEN Ended(proc, {Shell})
                   ELSE IF first = Null THEN proc
                   ELSE Returned([proc EXCEPT ![Shell].lines = lines], Shell)
      /\ UNCHANGED <<script, content, signals>>

\* commaChecker: one string is left to executeCommand, two are given to a
\* sub-shell each.
commaChecker ==
  LET pieces == PiecesOf[proc[Shell].text]
      piece  == [proc[Shell] EXCEPT !.at = "command", !.text = pieces[1]]
  IN  /\ At(Shell, "line")
      /\ proc' = IF Len(pieces) = 1
                   THEN [proc EXCEPT ![Shell] = piece]
                   ELSE Fork([proc EXCEPT ![Shell].at = "fork"], Shell, piece)
      /\ UNCHANGED <<script, typed, content, signals>>

ForkSecond ==
  /\ At(Shell, "fork")
  /\ proc' = Fork([proc EXCEPT ![Shell].at = "waits"], Shell,
                  [proc[Shell] EXCEPT !.at = "command",
                                      !.text = PiecesOf[proc[Shell].text][2]])
  /\ UNCHANGED <<script, typed, content, signals>>

\* Mutation: only one of the sub-shells is waited for.
OneWait ==
  /\ At(Shell, "waits")
  /\ \E P \in Waited(proc, Shell) : proc' = Returned(P, Shell)
  /\ UNCHANGED <<script, typed, content, signals>>

\* The two calls of wait(NULL), whichever sub-shell ends first.
WaitBoth ==
  /\ \/ /\ At(Shell, "waits")
        /\ \E P \in Waited(proc, Shell) : proc' = [P EXCEPT ![Shell].at = "wait"]
     \/ /\ At(Shell, "wait")
        /\ \E P \in Waited(proc, Shell) : proc' = Returned(P, Shell)
  /\ UNCHANGED <<script, typed, content, signals>>

-----------------------------------------------------------------------------
(* executeCommand in the shell or a sub-shell p *)

\* A builtin is run in p; what follows it in a pipe is not looked at.
Builtin(p, command) ==
  IF command.name = "exit" THEN Ended(proc, {p})
  ELSE Returned([proc EXCEPT ![p].cwd =
                   IF command.arg \in Directories THEN command.arg ELSE @], p)

\* The first command is forked, after pipe() if there are two.
Start(p, cmds) ==
  LET pipe  == NewPipe(proc)
      mine  == [proc[p] EXCEPT !.cmds = cmds]
      piped == [mine EXCEPT !.pipe = pipe,
                            !.ends = @ \cup {<<"read", pipe>>, <<"write", pipe>>}]
      Forking(r, role) == Fork([proc EXCEPT ![p] = [r EXCEPT !.at = "wait1"]], p,
                               [r EXCEPT !.at = "child", !.role = role])
  IN  IF Len(cmds) = 1 THEN Forking(mine, "only") ELSE Forking(piped, "first")

\* A file stream of blanks is a NULL dereference, an empty command is illegal.
executeCommand(p) ==
  LET cmds == CommandsOf[proc[p].text]
  IN  /\ At(p, "command")
      /\ \/ /\ \E i \in DOMAIN cmds : cmds[i].fault
            /\ proc' = Ended(proc, {p})
            /\ UNCHANGED content
         \/ /\ \A i \in DOMAIN cmds : ~cmds[i].fault
            /\ \E i \in DOMAIN cmds : cmds[i].empty
            /\ proc' = Returned(proc, p)
            /\ UNCHANGED content
         \/ /\ \A i \in DOMAIN cmds : ~cmds[i].fault /\ ~cmds[i].empty
            /\ cmds[1].name \in Builtins
            /\ proc' = Builtin(p, cmds[1])
            /\ UNCHANGED content
         \/ /\ \A i \in DOMAIN cmds : ~cmds[i].fault /\ ~cmds[i].empty
            /\ cmds[1].name \notin Builtins
            /\ proc' = Start(p, cmds)
            /\ content' = IF Len(cmds) = 1 THEN content
                          ELSE [content EXCEPT ![NewPipe(proc)] = 0]
      /\ UNCHANGED <<script, typed, signals>>

Closed(r) == [r EXCEPT !.ends = @ \ {<<"write", r.pipe>>}]

\* p closes the writing end and forks the second command as a copy of r.
Second(P, p, r) ==
  Fork([P EXCEPT ![p] = [Closed(@) EXCEPT !.at = "wait2"]], p,
       [r EXCEPT !.at = "child", !.role = "second"])

\* The first was the only one, or writes a file: then there is no second.
NoSecond(r) == Len(r.cmds) = 1 \/ r.cmds[1].out # NoFile

\* Mutation: the writing end is closed after the second command is forked.
SecondKeepsWriting(p) ==
  /\ At(p, "wait1")
  /\ \E P \in Waited(proc, p) :
       proc' = IF NoSecond(P[p]) THEN Returned([P EXCEPT ![p] = Closed(@)], p)
               ELSE Second(P, p, P[p])
  /\ UNCHANGED <<script, typed, content, signals>>

\* Mutation: the second command is forked at once.
SecondAtOnce(p) ==
  /\ At(p, "wait1")
  /\ \E P \in IF NoSecond(proc[p]) THEN Waited(proc, p) ELSE {proc} :
       proc' = IF NoSecond(P[p]) THEN Returned([P EXCEPT ![p] = Closed(@)], p)
               ELSE Second(P, p, Closed(P[p]))
  /\ UNCHANGED <<script, typed, content, signals>>

\* The wait for the first command, and what comes after it.
AfterFirst(p) ==
  /\ At(p, "wait1")
  /\ \E P \in Waited(proc, p) :
       proc' = IF NoSecond(P[p]) THEN Returned([P EXCEPT ![p] = Closed(@)], p)
               ELSE Second(P, p, Closed(P[p]))
  /\ UNCHANGED <<script, typed, content, signals>>

\* Mutation: the reading end is not closed.
ReadEndKept(p) ==
  /\ At(p, "wait2")
  /\ \E P \in Waited(proc, p) : proc' = Returned(P, p)
  /\ UNCHANGED <<script, typed, content, signals>>

\* The wait for the second command, after which the reading end is closed.
AfterSecond(p) ==
  /\ At(p, "wait2")
  /\ \E P \in Waited(proc, p) :
       proc' = Returned([P EXCEPT ![p].ends = @ \ {<<"read", P[p].pipe>>}], p)
  /\ UNCHANGED <<script, typed, content, signals>>

-----------------------------------------------------------------------------
(* Between fork and exec in a child p *)

\* Mutation: whether open has worked is not looked at.
OpenedUnchecked(r, command) ==
  [r EXCEPT !.in  = IF command.in # NoFile THEN command.in ELSE @,
            !.out = IF command.out # NoFile THEN command.out ELSE @]

\* Descriptors 0 and 1 after the redirections to files that can be opened.
Opened(r, command) ==
  [r EXCEPT !.in  = IF command.in \in Readable THEN command.in ELSE @,
            !.out = IF command.out \in Writable THEN command.out ELSE @]

\* listFiles writes files.txt if it is not given another file.
Listing(r, command) ==
  IF command.name = "listFiles" /\ command.out = NoFile
    THEN [r EXCEPT !.out = "files.txt"] ELSE r

\* sortFile reads the file that is its argument if it is not given another.
Sorting(r, command) ==
  IF command.name = "sortFile" /\ command.in = NoFile /\ command.arg \in Readable
    THEN [r EXCEPT !.in = command.arg] ELSE r

\* Whether a command reads its argument from its input before it starts.
TakesWord(command) ==
  command.name \in {"checkcpupercentage", "checkresidentmemory"} /\ command.in # NoFile

OnlyChild(r) ==
  LET command == r.cmds[1]
      ready   == Sorting(Listing(Opened(r, command), command), command)
  IN  [ready EXCEPT !.at = IF TakesWord(command) THEN "argument" ELSE "exec"]

\* The first command of a pipe: as above, after dup2 of the writing end.
FirstChild(r) ==
  LET command == r.cmds[1]
      joined  == [r EXCEPT !.out = IF command.out = NoFile THEN r.pipe ELSE @]
      ready   == Sorting(Listing(Opened(joined, command), command), command)
  IN  [ready EXCEPT !.at = IF TakesWord(command) THEN "argument" ELSE "exec"]

\* The second: the reading end becomes its input, and all custom commands but
\* listFiles read a word from there; sortFile takes it for its argument.
SecondChild(r) ==
  LET command == r.cmds[2]
      joined  == [r EXCEPT !.in = r.pipe, !.ends = @ \ {<<"read", r.pipe>>}]
      ready   == Listing(Opened(IF command.in = NoFile THEN joined ELSE r, command),
                         command)
  IN  [ready EXCEPT !.at = IF command.name \in Customs \ {"listFiles"}
                             THEN "argument" ELSE "exec"]

Child(p) ==
  /\ At(p, "child")
  /\ proc' = [proc EXCEPT ![p] = IF @.role = "only" THEN OnlyChild(@)
                                 ELSE IF @.role = "first" THEN FirstChild(@)
                                 ELSE SecondChild(@)]
  /\ UNCHANGED <<script, typed, content, signals>>

AtEnd(p) == content[proc[p].in] = 0 /\ ~HasEnd(proc, proc[p].in, "write")

\* One call of read takes any part of what is there, a buffered one often all.
Taken(pipe) ==
  \E n \in 1..content[pipe] : content' = [content EXCEPT ![pipe] = @ - n]

\* The second checkresidentmemory of a line closes a descriptor whose number
\* was never set: it may be any of its own.
Stray(r) ==
  IF r.role = "second" /\ r.cmds[2].name = "checkresidentmemory" /\ r.cmds[2].in = NoFile
    THEN {r, [r EXCEPT !.in = "closed"], [r EXCEPT !.out = "closed"]}
    ELSE {r}

\* scanf or read: a word of a file or the terminal, the pipe, or its end.
ReadArgument(p) ==
  /\ At(p, "argument")
  /\ LET pipe == proc[p].in
     IN  \/ /\ pipe \in Pipes => AtEnd(p)
            /\ UNCHANGED content
         \/ pipe \in Pipes /\ Taken(pipe)
  /\ \E r \in Stray(proc[p]) : proc' = [proc EXCEPT ![p] = [r EXCEPT !.at = "exec"]]
  /\ UNCHANGED <<script, typed, signals>>

Command(r) == r.cmds[IF r.role = "second" THEN 2 ELSE 1]

\* execvp; checkcpupercentage is called as ./checkcpupercentage.
Found(r) ==
  /\ Command(r).name \in DOMAIN Programs
  /\ Command(r).name = "checkcpupercentage" => r.cwd = "home"

\* When there is no such program the child prints so to its output.
Exec(p) ==
  /\ At(p, "exec")
  /\ proc' = [proc EXCEPT
                ![p].at   = IF Found(proc[p]) THEN "program" ELSE "failed",
                ![p].left = IF Found(proc[p]) THEN Programs[Command(proc[p]).name].writes ELSE 1]
  /\ UNCHANGED <<script, typed, content, signals>>

-----------------------------------------------------------------------------
(* Programs, the terminal and signals *)

Write(p) ==
  LET out == proc[p].out
  IN  /\ At(p, "program") \/ At(p, "failed")
      /\ proc[p].left > 0
      /\ out \in Pipes => content[out] < Capacity
      /\ proc' = [proc EXCEPT ![p].left = @ - 1]
      /\ content' = IF out \in Pipes THEN [content EXCEPT ![out] = @ + 1] ELSE content
      /\ UNCHANGED <<script, typed, signals>>

ReadsPipe(r) ==
  r.at = "program" /\ Programs[Command(r).name].reads /\ r.in \in Pipes

Read(p) ==
  /\ At(p, "program")
  /\ ReadsPipe(proc[p])
  /\ content[proc[p].in] > 0
  /\ content' = [content EXCEPT ![proc[p].in] = @ - 1]
  /\ UNCHANGED <<script, typed, proc, signals>>

\* The end of a program, or exit(1) after the message.
Leave(p) ==
  /\ At(p, "program") \/ At(p, "failed")
  /\ proc[p].left = 0
  /\ ReadsPipe(proc[p]) => AtEnd(p)
  /\ proc' = Ended(proc, {p})
  /\ UNCHANGED <<script, typed, content, signals>>

\* ^C: programs end, everything that is still myshell asks.  A second SIGINT
\* waits for the end of the handler, a third is lost.
Interrupt ==
  LET P == Ended(proc, {p \in DOMAIN proc : proc[p].at = "program"})
  IN  /\ signals > 0
      /\ Shell \in DOMAIN proc
      /\ signals' = signals - 1
      /\ proc' = [q \in DOMAIN P |->
                    IF q \in Alive(P) THEN [P[q] EXCEPT !.ask = Min({2, @ + 1})] ELSE P[q]]
      /\ UNCHANGED <<script, typed, content>>

\* sigint_handler reads from descriptor 0: the line the user types goes to one
\* of those who ask at the terminal, a child that is connected already takes it
\* from its file or pipe, or finds the end.  Y ends the process; after anything
\* else its system call goes on where it was.
sigint_handler(p) ==
  /\ p \in DOMAIN proc
  /\ proc[p].ask > 0
  /\ LET input  == proc[p].in
         goesOn == [proc EXCEPT ![p].ask = @ - 1]
     IN  \/ /\ input = "closed" \/ (input \in Pipes /\ AtEnd(p))
            /\ proc' = goesOn
            /\ UNCHANGED content
         \/ /\ input # "closed"
            /\ proc' \in {Ended(proc, {p}), goesOn}
            /\ IF input \in Pipes THEN Taken(input) ELSE UNCHANGED content
  /\ UNCHANGED <<script, typed, signals>>

\* kill of the shell; its handler leaves at once.
sigterm_handler ==
  /\ Shell \in DOMAIN proc
  /\ proc' = Ended(proc, {Shell})
  /\ UNCHANGED <<script, typed, content, signals>>

-----------------------------------------------------------------------------

Step(p) ==
  \/ executeCommand(p) \/ AfterFirst(p) \/ AfterSecond(p)
  \/ Child(p) \/ ReadArgument(p) \/ Exec(p)
  \/ Write(p) \/ Read(p) \/ Leave(p) \/ sigint_handler(p)

Main == commaChecker \/ ForkSecond \/ WaitBoth

Next ==
  \/ ReadLine \/ Main \/ Interrupt \/ sigterm_handler
  \/ \E p \in Pids : Step(p)

\* Every process is scheduled, and the user answers the questions.
Spec ==
  /\ Init
  /\ [][Next]_vars
  /\ WF_vars(Main)
  /\ \A p \in Pids : WF_vars(Step(p))

-----------------------------------------------------------------------------
(* Properties *)

Places == {"prompt", "line", "fork", "waits", "wait", "command", "wait1", "wait2",
           "child", "argument", "exec", "program", "failed", "zombie"}

TypeOK ==
  /\ script \in Scripts /\ typed \in 0..Len(script)
  /\ DOMAIN proc \subseteq Pids
  /\ \A p \in DOMAIN proc :
       LET r == proc[p]
       IN  /\ r.parent \in DOMAIN proc \cup {Nobody} /\ r.parent # p
           /\ r.at \in Places /\ r.ask \in 0..2 /\ r.left \in Nat
           /\ r.cwd \in Directories
           /\ r.in \in Readable \cup Pipes \cup {"tty", "closed"}
           /\ r.out \in Writable \cup Pipes \cup {"tty", "closed", "files.txt"}
           /\ r.ends \subseteq {"read", "write"} \X Pipes
  /\ content \in [Pipes -> 0..Capacity]
  /\ signals \in 0..Interrupts

\* When the shell asks for a line, takes the next of a file or begins a
\* command, nothing it started before is running or waits to be reaped: the
\* calls of wait(NULL), which take any child, count right in every order of
\* endings and interrupts.
NoChildLeft ==
  \A p \in DOMAIN proc :
    proc[p].at \in {"prompt", "line", "command"} => Children(proc, p) = {}

\* What a command is connected to, said of the text as it is written: the file
\* behind its sign wherever that stands, or else the pipe, the terminal, or
\* the file its name implies.
Written(text, role) ==
  UpTo(IF role = "second"
         THEN SubSeq(text, 2 + Len(UpTo(text, "|")), Len(text)) ELSE text, "|")

Behind(segment, sign) ==
  LET n == SelectInSeq(segment, LAMBDA token : token = sign)
  IN  IF n = 0 THEN NoFile
      ELSE segment[SelectInSubSeq(segment, n + 1, Len(segment),
                                  LAMBDA token : token \notin {Blank, Quote})]

WrittenName(segment) == Name(Word1(UpTo(UpTo(segment, "<"), ">")))

WrittenIn(r) ==
  LET file == Behind(Written(r.text, r.role), "<")
  IN  IF file \in Readable THEN file
      ELSE IF file # NoFile THEN "tty"
      ELSE IF r.role = "second" THEN r.pipe
      ELSE IF Command(r).name = "sortFile" /\ Command(r).arg \in Readable
        THEN Command(r).arg
      ELSE "tty"

WrittenOut(r) ==
  LET file == Behind(Written(r.text, r.role), ">")
  IN  IF file \in Writable THEN file
      ELSE IF file # NoFile THEN "tty"
      ELSE IF Command(r).name = "listFiles" THEN "files.txt"
      ELSE IF r.role = "first" THEN r.pipe
      ELSE "tty"

\* Every program reads and writes what the line says, whatever order the
\* redirections are typed in and however far the other half of the line is;
\* the second checkresidentmemory of a line may have lost one of the two.
ConnectedAsWritten ==
  \A p \in DOMAIN proc :
    LET r == proc[p]
    IN  r.at \in {"program", "failed"} =>
          \/ r.in = WrittenIn(r) /\ r.out = WrittenOut(r)
          \/ /\ r.role = "second" /\ Command(r).name = "checkresidentmemory"
             /\ Behind(Written(r.text, r.role), "<") = NoFile
             /\ <<r.in, r.out>> \in {<<"closed", WrittenOut(r)>>, <<WrittenIn(r), "closed">>}

\* The commands the shell has been given one by one, and those among them that
\* cost it a descriptor: a pipe whose first command writes a file.
Given == FlattenSeq([n \in 1..typed |->
           IF Word1(script[n]) = <<"executeCommands">>
             THEN BatchLines(script[n]) ELSE <<script[n]>>])

CostsDescriptor(line) ==
  /\ ~Contains(line, ";")
  /\ Contains(line, "|")
  /\ Behind(Written(line, "first"), ">") # NoFile
  /\ WrittenName(Written(line, "first")) \notin Builtins
  /\ Word1(Written(line, "second")) # Null

\* At the prompt the shell has its standard descriptors, and one reading end
\* without a writer for each such command; nothing else is ever left open.
DescriptorsKept ==
  At(Shell, "prompt") =>
    LET ends == proc[Shell].ends
    IN  /\ \A end \in ends : end[1] = "read" /\ ~HasEnd(proc, end[2], "write")
        /\ Cardinality(ends) =
             Cardinality({n \in DOMAIN Given : CostsDescriptor(Given[n])})

Busy == Shell \in DOMAIN proc /\ proc[Shell].at # "prompt"

\* The first command of a pipe writes no more than the pipe holds.
Fits(text) ==
  LET first == Written(text, "first")
  IN  /\ Contains(text, "|")
      /\ Behind(first, ">") = NoFile
      /\ WrittenName(first) \in DOMAIN Programs
      => Programs[WrittenName(first)].writes <= Capacity

CurrentFits ==
  \A n \in DOMAIN Given : \A text \in ToSet(PiecesOf[Given[n]]) : Fits(text)

\* The prompt comes back, or the shell is left, after every line in which no
\* first command of a pipe writes more than the pipe holds.
LineEnds == Busy /\ CurrentFits ~> ~Busy

\* A runner whose first command waits for room in the pipe.
Hung(p) ==
  /\ p \in DOMAIN proc /\ proc[p].at = "wait1"
  /\ \E q \in Children(proc, p) :
       /\ proc[q].at = "program" /\ proc[q].left > 0
       /\ proc[q].out \in Pipes /\ content[proc[q].out] = Capacity

\* Because the second command is forked only when the first has ended, nothing
\* but a signal gets a runner out of this: it hangs.
HangsForGood ==
  [][\A p \in Pids :
       Hung(p) /\ signals' = signals /\ p \in Alive(proc') => Hung(p)']_vars

=============================================================================
