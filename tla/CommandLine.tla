---------------------------- MODULE CommandLine ----------------------------
(***************************************************************************)
(* The parser of myshell.c.  A text is a sequence of tokens: the signs     *)
(* ; | < > and the double quote, blanks, and runs of other characters.     *)
(* strtok never returns an empty string, so the empty sequence is NULL.    *)
(***************************************************************************)
EXTENDS Naturals, SequencesExt

Null == <<>>
Blank == " "
Quote == "\""
NoFile == "NULL"   \* an entry of the file array that is NULL

UpTo(s, sign) ==
  LET n == SelectInSeq(s, LAMBDA token : token = sign)
  IN  IF n = 0 THEN s ELSE SubSeq(s, 1, n - 1)

\* How many tokens of s strtok skips: the signs it starts with.
Leading(s, sign) ==
  LET n == SelectInSeq(s, LAMBDA token : token # sign)
  IN  IF n = 0 THEN Len(s) ELSE n - 1

\* strtok(s, sign), and what is left for strtok(NULL, ...).
Strtok(s, sign) == UpTo(SubSeq(s, Leading(s, sign) + 1, Len(s)), sign)

Rest(s, sign) ==
  SubSeq(s, Leading(s, sign) + Len(Strtok(s, sign)) + 2, Len(s))

\* The string s itself after strtok has put a '\0' in it.
Cut(s, sign) == SubSeq(s, 1, Leading(s, sign) + Len(Strtok(s, sign)))

\* Words are separated by blanks; NULL when there are fewer than two.
Word1(s) == Strtok(s, Blank)
Word2(s) == Strtok(Rest(s, Blank), Blank)

\* The loops over a token that starts with a double quote: the quote goes,
\* and everything from the next one on.
Unquoted(word) ==
  IF word # Null /\ Head(word) = Quote
    THEN <<word[2]>> \o UpTo(SubSeq(word, 3, Len(word)), Quote)
    ELSE word

\* The string a word is; one of several tokens names nothing that exists.
Name(word) == IF Len(word) = 1 THEN word[1] ELSE "other"

\* A file stream without its blanks and quotes.
FileName(stream) ==
  IF stream = Null THEN NoFile ELSE Name(Unquoted(Word1(stream)))

\* A stream of blanks only: strtok returns NULL, which strcmp then reads.
IsBlank(stream) == stream # Null /\ Word1(stream) = Null

\* Mutation: the files are taken in the order `<' then `>', whatever was typed.
IOParserInFirst(s) ==
  LET target == Rest(s, "<")
      near   == Strtok(Strtok(target, "<"), ">")
      far    == Strtok(Rest(Strtok(target, "<"), ">"), ">")
      words  == Strtok(s, "<")
  IN  [name |-> Name(Unquoted(Word1(words))), empty |-> Word1(words) = Null,
       arg |-> Name(Unquoted(Word2(words))),
       in |-> FileName(near), out |-> FileName(far),
       fault |-> IsBlank(near) \/ IsBlank(far)]

\* checkIOParser, the tokenizer and the removal of quotes.  The text is split
\* at the sign whose last occurrence comes first, what follows at the other.
checkIOParser(s) ==
  LET in_checker  == SelectLastInSeq(s, LAMBDA token : token = "<")
      out_checker == SelectLastInSeq(s, LAMBDA token : token = ">")
      outFirst == out_checker # 0 /\ (in_checker = 0 \/ out_checker < in_checker)
      sign     == IF outFirst THEN ">" ELSE "<"
      other    == IF outFirst THEN "<" ELSE ">"
      temp     == Strtok(Rest(s, sign), sign)
      near     == Strtok(temp, other)
      far      == Strtok(Rest(temp, other), other)
      words    == Strtok(s, sign)
  IN  [name  |-> Name(Unquoted(Word1(words))),
       empty |-> Word1(words) = Null,
       arg   |-> Name(Unquoted(Word2(words))),
       in    |-> FileName(IF outFirst THEN far ELSE near),
       out   |-> FileName(IF outFirst THEN near ELSE far),
       fault |-> IsBlank(near) \/ IsBlank(far)]

\* CommandsChecker.
Builtins == {"cd", "exit"}
Customs == {"checkcpupercentage", "checkresidentmemory", "listFiles", "sortFile"}

\* The strings executeCommand finds around the `|'; a third one is dropped.
Piped(text) == Strtok(Rest(text, "|"), "|")
Commands(text) ==
  IF Piped(text) = Null
    THEN <<checkIOParser(Strtok(text, "|"))>>
    ELSE <<checkIOParser(Strtok(text, "|")), checkIOParser(Piped(text))>>

\* The strings commaChecker finds around the `;'; a third one is dropped.
Pieces(line) ==
  LET second == Strtok(Rest(line, ";"), ";")
  IN  IF second = Null THEN <<Cut(line, ";")>> ELSE <<Strtok(line, ";"), second>>

=============================================================================
