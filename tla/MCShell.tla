------------------------------ MODULE MCShell ------------------------------
(***************************************************************************)
(* Lines for Shell: every combination of redirections with every kind of   *)
(* command, and short sessions with pipes, `;', a file of commands and ^C. *)
(***************************************************************************)
EXTENDS Shell

MCPrograms ==
  [cat  |-> [reads |-> TRUE,  writes |-> 1],
   ls   |-> [reads |-> FALSE, writes |-> 1],
   find |-> [reads |-> FALSE, writes |-> 3],   \* more than a pipe holds
   checkcpupercentage  |-> [reads |-> FALSE, writes |-> 1],
   checkresidentmemory |-> [reads |-> FALSE, writes |-> 1],
   listFiles           |-> [reads |-> FALSE, writes |-> 1],
   sortFile            |-> [reads |-> FALSE, writes |-> 1]]

MCBatch == << <<"cat", "<", "input.txt", "|", "ls">>, <<"ls", ">", "output.txt", "|", "cat">>,
              <<>>, <<"find">> >>

Inputs  == {<<>>, <<"<", "input.txt">>, <<"<", " ", "missing">>,
            <<"<", Quote, "input.txt", Quote>>}
Outputs == {<<>>, <<">", "output.txt", " ">>, <<">", " ", "directory">>}

Redirected(words) ==
  {words \o in \o out : in \in Inputs, out \in Outputs} \cup
  {words \o out \o in : in \in Inputs, out \in Outputs}

\* One command, alone or on either side of a pipe.
Redirections ==
  UNION {Redirected(words) : words \in
    {<<"cat", " ">>, <<"listFiles">>, <<"sortFile", " ", "input.txt", " ">>, <<"nope">>,
     <<"checkcpupercentage", " ", "1">>, <<" ", "checkresidentmemory">>}}

Alone == {<<line>> : line \in Redirections}
AsFirst == {<<line \o <<"|", "cat">> >> : line \in Redirections}
AsSecond == {<< <<"ls", "|", " ">> \o line>> : line \in Redirections}

Sessions ==
  { \* both halves of a `;' line fork, one of them twice; then another line
    << <<"find", "|", "cat", ";", "cd", " ", "home">>, <<"ls">> >>,
    << <<"ls", "|", "cat", ";", "ls">>, <<"cd", " ", "directory">>,
       <<"checkcpupercentage", " ", "1">> >>,
    \* what a sub-shell does to itself stays there
    << <<"cd", " ", "directory", ";", "exit">>, <<"checkcpupercentage">> >>,
    \* descriptors: lost, lost again, and closed
    << <<"ls", ">", "output.txt", "|", "cat">>, <<"ls", "|", "cat">>,
       <<"find", ">", "output.txt", "|", "cat">> >>,
    << <<"executeCommands", " ", "batch">>, <<"executeCommands", " ", "other">> >>,
    \* illegal, empty and unfinished commands, a third one, the end
    << <<>>, <<" ">>, <<"ls", "|", " ">>, <<"cat", "<", " ", ";", "ls">>,
       <<"cd", "|", "ls", "|", "cat">>, <<"ls", ";">>, <<"cat", "<", " ">> >>,
    << <<"ls", "|", "cat", "|", "find">>, <<"exit", "|", "cat">> >>,
    << <<"ls", ";", "cat", ";", "find">>, <<Quote, "exit", Quote>>, <<"ls">> >> }

MCScripts == Alone \cup AsFirst \cup AsSecond \cup Sessions

=============================================================================
