---------------------------- MODULE Shell_proofs ----------------------------
(***************************************************************************)
(* For every number of processes, every script and every program: the      *)
(* calls of wait(NULL) of myshell.c reap what the shell has forked, so     *)
(* nothing it started before is left when it goes on; the processes keep   *)
(* their types; and a runner whose first command waits for room in the     *)
(* pipe hangs, because nobody but the command it has yet to fork would     *)
(* ever read from it.                                                      *)
(***************************************************************************)
EXTENDS Shell, FiniteSetTheorems, TLAPS

-----------------------------------------------------------------------------
(* Who has how many children                                               *)

\* At most n elements.
Few(S, n) == IsFiniteSet(S) /\ Cardinality(S) <= n

\* The children a process may have at a place: those it has yet to wait for.
MayHave(at) == IF at = "waits" THEN 2
               ELSE IF at \in {"fork", "wait", "wait1", "wait2"} THEN 1
               ELSE 0

\* A table of processes: every parent is in it or init, and nobody has more
\* children than calls of wait to come.
Fields == DOMAIN Boot

Family(P, p) ==
  /\ DOMAIN P[p] = Fields
  /\ P[p].parent \in DOMAIN P \cup {Nobody}
  /\ Few(Children(P, p), MayHave(P[p].at))

Table(P) ==
  /\ DOMAIN P \subseteq Pids
  /\ \A p \in DOMAIN P : Family(P, p)
  /\ Shell \in DOMAIN P => P[Shell].parent = Nobody

LEMMA FewSubset ==
  ASSUME NEW S, NEW n \in Nat, Few(S, n), NEW T \in SUBSET S
  PROVE  Few(T, n)
BY FS_Subset, FS_CardinalityType DEF Few

LEMMA FewMore ==
  ASSUME NEW S, NEW n \in Nat, NEW m \in Nat, Few(S, n), n <= m
  PROVE  Few(S, m)
BY FS_CardinalityType DEF Few

LEMMA FewNone ==
  /\ \A n \in Nat : Few({}, n)
  /\ \A S : Few(S, 0) => S = {}
BY FS_EmptySet, FS_CardinalityType DEF Few

LEMMA FewAdd ==
  ASSUME NEW S, NEW n \in Nat, Few(S, n), NEW x
  PROVE  Few(S \cup {x}, n + 1)
<1>1. IsFiniteSet(S) /\ Cardinality(S) \in Nat /\ Cardinality(S) <= n
  BY FS_CardinalityType DEF Few
<1>2. /\ IsFiniteSet(S \cup {x})
      /\ Cardinality(S \cup {x}) = IF x \in S THEN Cardinality(S) ELSE Cardinality(S) + 1
  BY <1>1, FS_AddElement
<1> QED
  BY <1>1, <1>2 DEF Few

LEMMA FewRemove ==
  ASSUME NEW S, NEW n \in Nat, Few(S, n + 1), NEW x \in S
  PROVE  Few(S \ {x}, n)
<1>1. IsFiniteSet(S) /\ Cardinality(S) \in Nat /\ Cardinality(S) <= n + 1
  BY FS_CardinalityType DEF Few
<1>2. /\ IsFiniteSet(S \ {x})
      /\ Cardinality(S \ {x}) = IF x \in S THEN Cardinality(S) - 1 ELSE Cardinality(S)
  BY <1>1, FS_RemoveElement
<1> QED
  BY <1>1, <1>2 DEF Few

LEMMA MayHaveNat == \A at : MayHave(at) \in Nat
BY DEF MayHave

\* The fields the arguments below look at are there.
LEMMA BootFields ==
  /\ "parent" \in Fields /\ "at" \in Fields /\ "text" \in Fields /\ "lines" \in Fields
  /\ "cmds" \in Fields /\ "role" \in Fields /\ "pipe" \in Fields /\ "in" \in Fields
  /\ "out" \in Fields /\ "ends" \in Fields /\ "cwd" \in Fields /\ "left" \in Fields
  /\ "ask" \in Fields
BY DEF Fields, Boot

\* A process that may have no child has none.
LEMMA Childless ==
  ASSUME NEW P, Table(P), NEW p \in DOMAIN P, MayHave(P[p].at) = 0
  PROVE  Children(P, p) = {}
BY FewNone DEF Table, Family

-----------------------------------------------------------------------------
(* What the kernel does to a table                                         *)

\* Processes end: their children are handed to init, and nobody gets more.
LEMMA EndedTable ==
  ASSUME NEW P, Table(P), NEW D \in SUBSET DOMAIN P
  PROVE  /\ Table(Ended(P, D))
         /\ DOMAIN Ended(P, D) \subseteq DOMAIN P
<1> DEFINE adopted == D \cup {Nobody}
           reaped == {q \in DOMAIN P : P[q].parent \in adopted /\ q \notin Alive(P) \ D}
           Q == Ended(P, D)
<1> USE ShellAssumption, BootFields
<1>1. DOMAIN Q = DOMAIN P \ reaped
  BY DEF Ended
<1>2. \A q \in DOMAIN Q :
        /\ DOMAIN Q[q] = Fields
        /\ Q[q].parent = IF q \notin D /\ P[q].parent \in D THEN Nobody ELSE P[q].parent
        /\ Q[q].at = IF q \in D THEN "zombie" ELSE P[q].at
  BY <1>1 DEF Ended, Zombie, Table, Family, Fields
<1> HIDE DEF Q
<1>3. ASSUME NEW q \in DOMAIN Q PROVE Q[q].parent \in DOMAIN Q \cup {Nobody}
  <2>1. CASE P[q].parent \in adopted
    <3>1. q \in Alive(P) \ D
      BY <1>1, <1>3, <2>1
    <3> QED
      BY <1>2, <1>3, <2>1, <3>1
  <2>2. CASE P[q].parent \notin adopted
    <3>1. P[q].parent \in DOMAIN P
      BY <1>1, <1>3, <2>2 DEF Table, Family
    <3>2. P[q].parent \in Alive(P)
      BY <1>1, <1>3, <3>1, Childless DEF Alive, Children, MayHave
    <3> QED
      BY <1>1, <1>2, <1>3, <2>2, <3>1, <3>2
  <2> QED
    BY <2>1, <2>2
<1>4. ASSUME NEW q \in DOMAIN Q PROVE Few(Children(Q, q), MayHave(Q[q].at))
  <2>1. CASE q \in D
    <3>1. \A x \in DOMAIN Q : Q[x].parent # q
      <4> SUFFICES ASSUME NEW x \in DOMAIN Q, Q[x].parent = q
                   PROVE  FALSE
        OBVIOUS
      <4>1. q # Nobody
        BY <1>1, <1>4 DEF Table
      <4> QED
        BY <1>1, <1>2, <2>1, <4>1
    <3> QED
      BY <3>1, FewNone, MayHaveNat DEF Children
  <2>2. CASE q \notin D
    <3>1. Children(Q, q) \in SUBSET Children(P, q)
      <4>1. q # Nobody
        BY <1>1, <1>4 DEF Table
      <4> QED
        BY <1>1, <1>2, <4>1 DEF Children
    <3> QED
      BY <1>1, <1>2, <1>4, <2>2, <3>1, FewSubset, MayHaveNat DEF Table, Family
  <2> QED
    BY <2>1, <2>2
<1> QED
  BY <1>1, <1>2, <1>3, <1>4 DEF Table, Family, Q

\* A process changes what is its own.
LEMMA ChangedTable ==
  ASSUME NEW P, Table(P), NEW p \in DOMAIN P, NEW r,
         DOMAIN r = Fields, r.parent = P[p].parent,
         Few(Children(P, p), MayHave(r.at))
  PROVE  /\ Table([P EXCEPT ![p] = r])
         /\ \A q, n : Few(Children(P, q), n) => Few(Children([P EXCEPT ![p] = r], q), n)
<1> DEFINE Q == [P EXCEPT ![p] = r]
<1>1. /\ DOMAIN Q = DOMAIN P
      /\ \A q \in DOMAIN P : Q[q] = IF q = p THEN r ELSE P[q]
  OBVIOUS
<1> HIDE DEF Q
<1>2. \A q : Children(Q, q) = Children(P, q)
  BY <1>1 DEF Children
<1>3. Table(Q)
  BY <1>1, <1>2 DEF Table, Family
<1>4. \A q, n : Few(Children(P, q), n) => Few(Children(Q, q), n)
  BY <1>2, Zenon
<1> QED
  BY <1>3, <1>4 DEF Q

\* A child more, or the end of the process that tried.
LEMMA ForkedTable ==
  ASSUME NEW P, Table(P), NEW p \in DOMAIN P, NEW n \in Nat,
         Few(Children(P, p), n), n + 1 = MayHave(P[p].at),
         NEW child, DOMAIN child = Fields, MayHave(child.at) = 0
  PROVE  Table(Fork(P, p, child))
<1> DEFINE free == Pids \ (DOMAIN P \cup {Shell})
           new == CHOOSE pid \in free : TRUE
           born == [child EXCEPT !.parent = p]
           Q == [q \in DOMAIN P \cup {new} |-> IF q \in DOMAIN P THEN P[q] ELSE born]
<1>1. CASE free = {}
  BY <1>1, EndedTable DEF Fork
<1>2. CASE free # {}
  <2>1. Fork(P, p, child) = Q
    BY <1>2 DEF Fork
  <2>2. new \in Pids /\ new \notin DOMAIN P /\ new # Shell
    BY <1>2
  <2>3. DOMAIN born = Fields /\ born.parent = p /\ born.at = child.at
    BY BootFields
  <2> HIDE DEF new, born
  <2>4. /\ DOMAIN Q = DOMAIN P \cup {new}
        /\ \A q \in DOMAIN P : Q[q] = P[q]
        /\ Q[new] = born
    BY <2>2
  <2> HIDE DEF Q
  <2>5. /\ Children(Q, p) = Children(P, p) \cup {new}
        /\ \A q : q # p => Children(Q, q) = Children(P, q)
    BY <2>2, <2>3, <2>4 DEF Children
  <2>6. Few(Children(Q, p), n + 1)
    <3>1. Few(Children(P, p) \cup {new}, n + 1)
      BY FewAdd
    <3> QED
      BY <2>5, <3>1
  <2>7. Children(Q, new) = {}
    <3>1. Children(Q, new) = Children(P, new)
      BY <2>2, <2>5
    <3>2. \A x \in DOMAIN P : P[x].parent # new
      BY <2>2, ShellAssumption DEF Table, Family
    <3> QED
      BY <3>1, <3>2 DEF Children
  <2>8. \A q \in DOMAIN P : Family(Q, q)
    BY <2>4, <2>5, <2>6 DEF Table, Family
  <2>9. Family(Q, new)
    BY <2>3, <2>4, <2>7, FewNone DEF Family
  <2> QED
    BY <2>1, <2>2, <2>4, <2>8, <2>9 DEF Table
<1> QED
  BY <1>1, <1>2

\* wait takes a child away, unless there is none.
LEMMA WaitedTable ==
  ASSUME NEW P, Table(P), NEW p \in DOMAIN P, NEW n \in Nat, MayHave(P[p].at) = n + 1,
         NEW Q \in Waited(P, p)
  PROVE  /\ Table(Q) /\ p \in DOMAIN Q /\ Q[p] = P[p]
         /\ Few(Children(Q, p), n)
         /\ DOMAIN Q \subseteq DOMAIN P
<1>1. CASE Children(P, p) = {}
  BY <1>1, FewNone DEF Waited
<1>2. CASE Children(P, p) # {}
  <2>1. PICK q \in Children(P, p) \ Alive(P) : Q = Restrict(P, DOMAIN P \ {q})
    BY <1>2 DEF Waited
  <2>2. /\ DOMAIN Q = DOMAIN P \ {q}
        /\ \A x \in DOMAIN Q : Q[x] = P[x]
    BY <2>1 DEF Restrict
  <2>3. q \in DOMAIN P /\ P[q].at = "zombie" /\ P[q].parent = p
    BY <2>1 DEF Children, Alive
  <2>4. q # p
    BY <2>3 DEF MayHave
  <2>5. \A x : Children(Q, x) = Children(P, x) \ {q}
    BY <2>2 DEF Children
  <2>6. Children(P, q) = {}
    BY <2>3, Childless DEF MayHave
  <2>7. \A x \in DOMAIN Q : Q[x].parent \in DOMAIN Q \cup {Nobody}
    BY <2>2, <2>6 DEF Table, Family, Children
  <2>8. \A x \in DOMAIN Q : Few(Children(Q, x), MayHave(Q[x].at))
    BY <2>2, <2>5, FewSubset, MayHaveNat DEF Table, Family
  <2>9. Few(Children(Q, p), n)
    <3>1. Few(Children(P, p), n + 1)
      BY DEF Table, Family
    <3>2. Few(Children(P, p) \ {q}, n)
      BY <2>1, <3>1, FewRemove
    <3> QED
      BY <2>5, <3>2
  <2> QED
    BY <2>2, <2>4, <2>7, <2>8, <2>9 DEF Table, Family
<1> QED
  BY <1>1, <1>2

\* The shell goes on, or the sub-shell exits, when it has no children.
LEMMA ReturnedTable ==
  ASSUME NEW P, Table(P), NEW p \in DOMAIN P, Few(Children(P, p), 0)
  PROVE  Table(Returned(P, p))
<1> USE BootFields
<1>1. CASE p # Shell
  BY <1>1, EndedTable DEF Returned
<1>2. CASE p = Shell /\ P[p].lines = <<>>
  <2> DEFINE r == [Boot EXCEPT !.ends = P[p].ends, !.cwd = P[p].cwd]
  <2>1. Returned(P, p) = [P EXCEPT ![p] = r]
    BY <1>2 DEF Returned
  <2>2. DOMAIN r = Fields /\ r.parent = P[p].parent
    BY <1>2 DEF Fields, Boot, Table
  <2> HIDE DEF r
  <2>3. Few(Children(P, p), MayHave(r.at))
    BY FewMore, MayHaveNat DEF MayHave
  <2>4. Table([P EXCEPT ![p] = r])
    BY <2>2, <2>3, ChangedTable
  <2> QED
    BY <2>1, <2>4
<1>3. CASE p = Shell /\ P[p].lines # <<>>
  <2> DEFINE r == [P[p] EXCEPT !.at = "line", !.text = Head(P[p].lines),
                               !.lines = Tail(@), !.cmds = <<>>, !.pipe = "none"]
  <2>1. Returned(P, p) = [P EXCEPT ![p] = r]
    BY <1>3 DEF Returned
  <2>2. DOMAIN r = Fields /\ r.parent = P[p].parent
    BY DEF Table, Family
  <2> HIDE DEF r
  <2>3. Few(Children(P, p), MayHave(r.at))
    BY FewMore, MayHaveNat DEF MayHave
  <2>4. Table([P EXCEPT ![p] = r])
    BY <2>2, <2>3, ChangedTable
  <2> QED
    BY <2>1, <2>4
<1> QED
  BY <1>1, <1>2, <1>3

\* A process goes to another place.
LEMMA MovedTable ==
  ASSUME NEW P, Table(P), NEW p \in DOMAIN P, NEW place,
         Few(Children(P, p), MayHave(place))
  PROVE  /\ Table([P EXCEPT ![p].at = place])
         /\ \A q, n : Few(Children(P, q), n) => Few(Children([P EXCEPT ![p].at = place], q), n)
<1> DEFINE r == [P[p] EXCEPT !.at = place]
<1>1. DOMAIN r = Fields /\ r.parent = P[p].parent /\ r.at = place
  BY BootFields DEF Table, Family
<1>2. [P EXCEPT ![p].at = place] = [P EXCEPT ![p] = r]
  OBVIOUS
<1> HIDE DEF r
<1>3. /\ Table([P EXCEPT ![p] = r])
      /\ \A q, n : Few(Children(P, q), n) => Few(Children([P EXCEPT ![p] = r], q), n)
  BY <1>1, ChangedTable
<1> QED
  BY <1>2, <1>3

-----------------------------------------------------------------------------
(* The steps of main                                                       *)

LEMMA AtPlace ==
  ASSUME Table(proc), NEW p, NEW place, At(p, place)
  PROVE  /\ p \in DOMAIN proc /\ proc[p].at = place
         /\ DOMAIN proc[p] = Fields
         /\ Few(Children(proc, p), MayHave(place))
BY DEF At, Table, Family

LEMMA ReadLineTable ==
  ASSUME Table(proc), ReadLine
  PROVE  Table(proc')
<1> DEFINE line  == script[typed + 1]
           first == Word1(line)
           lines == IF first = <<"executeCommands">> THEN BatchLines(line) ELSE <<line>>
           r == [proc[Shell] EXCEPT !.lines = lines]
<1>1. At(Shell, "prompt")
  BY DEF ReadLine
<1>2. /\ Shell \in DOMAIN proc /\ proc[Shell].at = "prompt"
      /\ DOMAIN proc[Shell] = Fields
      /\ Few(Children(proc, Shell), 0)
  BY <1>1, AtPlace DEF MayHave
<1>3. Table(Ended(proc, {Shell}))
  BY <1>2, EndedTable
<1>4. Table(Returned([proc EXCEPT ![Shell] = r], Shell))
  <2>1. DOMAIN r = Fields /\ r.parent = proc[Shell].parent /\ r.at = "prompt"
    BY <1>2, BootFields
  <2> HIDE DEF r
  <2>2. Few(Children(proc, Shell), MayHave(r.at))
    BY <1>2, <2>1 DEF MayHave
  <2>3. /\ Table([proc EXCEPT ![Shell] = r])
        /\ Few(Children([proc EXCEPT ![Shell] = r], Shell), 0)
    BY <1>2, <2>1, <2>2, ChangedTable
  <2> QED
    BY <1>2, <2>3, ReturnedTable
<1>5. \/ proc' = Ended(proc, {Shell})
      \/ proc' = proc
      \/ proc' = Returned([proc EXCEPT ![Shell] = r], Shell)
  BY DEF ReadLine
<1> QED
  BY <1>3, <1>4, <1>5

LEMMA commaCheckerTable ==
  ASSUME Table(proc), commaChecker
  PROVE  Table(proc')
<1> DEFINE pieces == PiecesOf[proc[Shell].text]
           piece == [proc[Shell] EXCEPT !.at = "command", !.text = pieces[1]]
           P == [proc EXCEPT ![Shell].at = "fork"]
<1>1. At(Shell, "line")
  BY DEF commaChecker
<1>2. /\ Shell \in DOMAIN proc /\ DOMAIN proc[Shell] = Fields
      /\ Few(Children(proc, Shell), 0)
  BY <1>1, AtPlace DEF MayHave
<1>3. /\ DOMAIN piece = Fields /\ piece.parent = proc[Shell].parent
      /\ piece.at = "command"
  BY <1>2, BootFields
<1>4. proc' = [proc EXCEPT ![Shell] = piece] \/ proc' = Fork(P, Shell, piece)
  BY DEF commaChecker
<1> HIDE DEF piece
<1>5. Table([proc EXCEPT ![Shell] = piece])
  <2>1. Few(Children(proc, Shell), MayHave(piece.at))
    BY <1>2, <1>3 DEF MayHave
  <2> QED
    BY <1>2, <1>3, <2>1, ChangedTable
<1>6. Table(Fork(P, Shell, piece))
  <2>0. Few(Children(proc, Shell), MayHave("fork"))
    BY <1>2, FewMore DEF MayHave
  <2>1. Table(P) /\ Few(Children(P, Shell), 0)
    BY <1>2, <2>0, MovedTable
  <2>2. Shell \in DOMAIN P /\ P[Shell].at = "fork"
    BY <1>2, BootFields
  <2>3. 0 + 1 = MayHave(P[Shell].at)
    BY <2>2 DEF MayHave
  <2>4. MayHave(piece.at) = 0
    BY <1>3 DEF MayHave
  <2> HIDE DEF P
  <2> QED
    BY <1>3, <2>1, <2>2, <2>3, <2>4, ForkedTable
<1> QED
  BY <1>4, <1>5, <1>6

LEMMA ForkSecondTable ==
  ASSUME Table(proc), ForkSecond
  PROVE  Table(proc')
<1> DEFINE piece == [proc[Shell] EXCEPT !.at = "command",
                                        !.text = PiecesOf[proc[Shell].text][2]]
           P == [proc EXCEPT ![Shell].at = "waits"]
<1>1. At(Shell, "fork") /\ proc' = Fork(P, Shell, piece)
  BY DEF ForkSecond
<1>2. /\ Shell \in DOMAIN proc /\ DOMAIN proc[Shell] = Fields
      /\ Few(Children(proc, Shell), 1)
  BY <1>1, AtPlace DEF MayHave
<1>3. DOMAIN piece = Fields /\ MayHave(piece.at) = 0
  BY <1>2, BootFields DEF MayHave
<1>4. Few(Children(proc, Shell), MayHave("waits"))
  BY <1>2, FewMore DEF MayHave
<1>5. Table(P) /\ Few(Children(P, Shell), 1)
  BY <1>2, <1>4, MovedTable
<1>6. Shell \in DOMAIN P /\ 1 + 1 = MayHave(P[Shell].at)
  BY <1>2, BootFields DEF MayHave
<1> HIDE DEF P, piece
<1> QED
  BY <1>1, <1>3, <1>5, <1>6, ForkedTable

LEMMA WaitBothTable ==
  ASSUME Table(proc), WaitBoth
  PROVE  Table(proc')
<1>1. ASSUME At(Shell, "waits"), NEW P \in Waited(proc, Shell),
             proc' = [P EXCEPT ![Shell].at = "wait"]
      PROVE  Table(proc')
  <2>1. /\ Shell \in DOMAIN proc /\ proc[Shell].at = "waits"
        /\ MayHave(proc[Shell].at) = 1 + 1
    BY <1>1, AtPlace DEF MayHave
  <2>2. Table(P) /\ Shell \in DOMAIN P /\ Few(Children(P, Shell), 1)
    BY <2>1, WaitedTable
  <2>3. MayHave("wait") = 1
    BY DEF MayHave
  <2> QED
    BY <1>1, <2>2, <2>3, MovedTable
<1>2. ASSUME At(Shell, "wait"), NEW P \in Waited(proc, Shell),
             proc' = Returned(P, Shell)
      PROVE  Table(proc')
  <2>1. /\ Shell \in DOMAIN proc /\ proc[Shell].at = "wait"
        /\ MayHave(proc[Shell].at) = 0 + 1
    BY <1>2, AtPlace DEF MayHave
  <2>2. Table(P) /\ Shell \in DOMAIN P /\ Few(Children(P, Shell), 0)
    BY <2>1, WaitedTable
  <2> QED
    BY <1>2, <2>2, ReturnedTable
<1> QED
  BY <1>1, <1>2 DEF WaitBoth

-----------------------------------------------------------------------------
(* The steps of one who executes a command                                 *)

\* A process that stays where as many children may be.
LEMMA KeptTable ==
  ASSUME NEW P, Table(P), NEW p \in DOMAIN P, NEW r,
         DOMAIN r = Fields, r.parent = P[p].parent,
         MayHave(r.at) = MayHave(P[p].at)
  PROVE  Table([P EXCEPT ![p] = r])
<1>1. Few(Children(P, p), MayHave(r.at))
  BY DEF Table, Family
<1> QED
  BY <1>1, ChangedTable

\* A command is forked, and the next thing its parent does is wait for it.
LEMMA StartedTable ==
  ASSUME NEW P, Table(P), NEW p \in DOMAIN P, Few(Children(P, p), 0),
         NEW r, DOMAIN r = Fields, r.parent = P[p].parent,
         MayHave(r.at) = 1,
         NEW child, DOMAIN child = Fields, MayHave(child.at) = 0
  PROVE  Table(Fork([P EXCEPT ![p] = r], p, child))
<1> DEFINE Q == [P EXCEPT ![p] = r]
<1>1. Few(Children(P, p), MayHave(r.at))
  BY FewMore
<1>2. Table(Q) /\ Few(Children(Q, p), 0)
  BY <1>1, ChangedTable
<1>3. p \in DOMAIN Q /\ 0 + 1 = MayHave(Q[p].at)
  OBVIOUS
<1> HIDE DEF Q
<1>4. Table(Fork(Q, p, child))
  BY <1>2, <1>3, ForkedTable
<1> QED
  BY <1>4 DEF Q

LEMMA BuiltinTable ==
  ASSUME Table(proc), NEW p \in DOMAIN proc, Few(Children(proc, p), 0), NEW command
  PROVE  Table(Builtin(p, command))
<1> DEFINE r == [proc[p] EXCEPT !.cwd = IF command.arg \in Directories
                                          THEN command.arg ELSE @]
           Q == [proc EXCEPT ![p] = r]
<1>1. DOMAIN r = Fields /\ r.parent = proc[p].parent /\ r.at = proc[p].at
  BY BootFields DEF Table, Family
<1>2. Builtin(p, command) = Ended(proc, {p}) \/ Builtin(p, command) = Returned(Q, p)
  BY DEF Builtin
<1> HIDE DEF r
<1>3. Few(Children(proc, p), MayHave(r.at))
  BY <1>1 DEF Table, Family
<1>4. Table(Q) /\ Few(Children(Q, p), 0) /\ p \in DOMAIN Q
  BY <1>1, <1>3, ChangedTable
<1> HIDE DEF Q
<1> QED
  BY <1>2, <1>4, EndedTable, ReturnedTable

LEMMA StartTable ==
  ASSUME Table(proc), NEW p \in DOMAIN proc, Few(Children(proc, p), 0), NEW cmds
  PROVE  Table(Start(p, cmds))
<1> DEFINE pipe  == NewPipe(proc)
           mine  == [proc[p] EXCEPT !.cmds = cmds]
           piped == [mine EXCEPT !.pipe = pipe,
                            !.ends = @ \cup {<<"read", pipe>>, <<"write", pipe>>}]
           waiting(r) == [r EXCEPT !.at = "wait1"]
           child(r, role) == [r EXCEPT !.at = "child", !.role = role]
           Forking(r, role) == Fork([proc EXCEPT ![p] = waiting(r)], p, child(r, role))
<1>1. Start(p, cmds) = Forking(mine, "only") \/ Start(p, cmds) = Forking(piped, "first")
  BY DEF Start
<1>2. ASSUME NEW r, DOMAIN r = Fields, r.parent = proc[p].parent, NEW role
      PROVE  Table(Forking(r, role))
  <2>1. /\ DOMAIN waiting(r) = Fields /\ waiting(r).parent = proc[p].parent
        /\ DOMAIN child(r, role) = Fields
        /\ MayHave(waiting(r).at) = 1 /\ MayHave(child(r, role).at) = 0
    BY <1>2, BootFields DEF MayHave
  <2> HIDE DEF waiting, child
  <2> QED
    BY <2>1, StartedTable
<1>3. /\ DOMAIN mine = Fields /\ mine.parent = proc[p].parent
      /\ DOMAIN piped = Fields /\ piped.parent = proc[p].parent
  BY BootFields DEF Table, Family
<1> HIDE DEF mine, piped, Forking
<1> QED
  BY <1>1, <1>2, <1>3

LEMMA executeCommandTable ==
  ASSUME Table(proc), NEW p, executeCommand(p)
  PROVE  Table(proc')
<1>1. p \in DOMAIN proc /\ Few(Children(proc, p), 0)
  <2>1. At(p, "command") /\ MayHave("command") = 0
    BY DEF executeCommand, MayHave
  <2> QED
    BY <2>1, AtPlace
<1>2. \/ proc' = Ended(proc, {p})
      \/ proc' = Returned(proc, p)
      \/ proc' = Builtin(p, CommandsOf[proc[p].text][1])
      \/ proc' = Start(p, CommandsOf[proc[p].text])
  BY DEF executeCommand
<1> QED
  BY <1>1, <1>2, EndedTable, ReturnedTable, BuiltinTable, StartTable

LEMMA SecondTable ==
  ASSUME NEW P, Table(P), NEW p \in DOMAIN P, Few(Children(P, p), 0)
  PROVE  Table(Second(P, p, Closed(P[p])))
<1> DEFINE r == [Closed(P[p]) EXCEPT !.at = "wait2"]
           child == [Closed(P[p]) EXCEPT !.at = "child", !.role = "second"]
<1>1. /\ DOMAIN r = Fields /\ r.parent = P[p].parent /\ MayHave(r.at) = 1
      /\ DOMAIN child = Fields /\ MayHave(child.at) = 0
  BY BootFields DEF Closed, Table, Family, MayHave
<1>2. Second(P, p, Closed(P[p])) = Fork([P EXCEPT ![p] = r], p, child)
  BY DEF Second
<1> HIDE DEF r, child
<1> QED
  BY <1>1, <1>2, StartedTable

LEMMA AfterFirstTable ==
  ASSUME Table(proc), NEW p, AfterFirst(p)
  PROVE  Table(proc')
<1>1. PICK P \in Waited(proc, p) :
        \/ proc' = Returned([P EXCEPT ![p] = Closed(@)], p)
        \/ proc' = Second(P, p, Closed(P[p]))
  BY DEF AfterFirst
<1>2. p \in DOMAIN proc /\ MayHave(proc[p].at) = 0 + 1
  BY AtPlace DEF AfterFirst, MayHave
<1>3. Table(P) /\ p \in DOMAIN P /\ Few(Children(P, p), 0)
  BY <1>2, WaitedTable
<1>4. Table(Returned([P EXCEPT ![p] = Closed(@)], p))
  <2> DEFINE r == Closed(P[p])
             Q == [P EXCEPT ![p] = r]
  <2>1. DOMAIN r = Fields /\ r.parent = P[p].parent /\ r.at = P[p].at
    BY <1>3, BootFields DEF Closed, Table, Family
  <2>2. Few(Children(P, p), MayHave(r.at))
    BY <1>3, <2>1 DEF Table, Family
  <2> HIDE DEF r
  <2>3. Table(Q) /\ Few(Children(Q, p), 0) /\ p \in DOMAIN Q
    BY <1>3, <2>1, <2>2, ChangedTable
  <2> HIDE DEF Q
  <2>4. Table(Returned(Q, p))
    BY <2>3, ReturnedTable
  <2> QED
    BY <2>4 DEF Q, r
<1> QED
  BY <1>1, <1>3, <1>4, SecondTable

LEMMA AfterSecondTable ==
  ASSUME Table(proc), NEW p, AfterSecond(p)
  PROVE  Table(proc')
<1>1. PICK P \in Waited(proc, p) :
        proc' = Returned([P EXCEPT ![p].ends = @ \ {<<"read", P[p].pipe>>}], p)
  BY DEF AfterSecond
<1>2. p \in DOMAIN proc /\ MayHave(proc[p].at) = 0 + 1
  BY AtPlace DEF AfterSecond, MayHave
<1>3. Table(P) /\ p \in DOMAIN P /\ Few(Children(P, p), 0)
  BY <1>2, WaitedTable
<1> DEFINE r == [P[p] EXCEPT !.ends = @ \ {<<"read", P[p].pipe>>}]
           Q == [P EXCEPT ![p] = r]
<1>4. proc' = Returned(Q, p)
  BY <1>1
<1>5. DOMAIN r = Fields /\ r.parent = P[p].parent /\ r.at = P[p].at
  BY <1>3, BootFields DEF Table, Family
<1>6. Few(Children(P, p), MayHave(r.at))
  BY <1>3, <1>5 DEF Table, Family
<1> HIDE DEF r
<1>7. Table(Q) /\ Few(Children(Q, p), 0) /\ p \in DOMAIN Q
  BY <1>3, <1>5, <1>6, ChangedTable
<1> HIDE DEF Q
<1> QED
  BY <1>4, <1>7, ReturnedTable


-----------------------------------------------------------------------------
(* The steps of a child and of its program, and signals                    *)

\* What a child does to itself before exec moves it on, and nothing else that
\* a table is about.
LEMMA OpenedFields ==
  ASSUME NEW r, DOMAIN r = Fields, NEW command
  PROVE  /\ DOMAIN Sorting(Listing(Opened(r, command), command), command) = Fields
         /\ Sorting(Listing(Opened(r, command), command), command).parent = r.parent
         /\ DOMAIN Listing(Opened(r, command), command) = Fields
         /\ Listing(Opened(r, command), command).parent = r.parent
<1>1. DOMAIN Opened(r, command) = Fields /\ Opened(r, command).parent = r.parent
  BY BootFields DEF Opened
<1> HIDE DEF Opened
<1>2. ASSUME NEW s, DOMAIN s = Fields
      PROVE  DOMAIN Listing(s, command) = Fields /\ Listing(s, command).parent = s.parent
  BY <1>2, BootFields DEF Listing
<1>3. ASSUME NEW s, DOMAIN s = Fields
      PROVE  DOMAIN Sorting(s, command) = Fields /\ Sorting(s, command).parent = s.parent
  BY <1>3, BootFields DEF Sorting
<1> QED
  BY <1>1, <1>2, <1>3

LEMMA ChildFields ==
  ASSUME NEW r, DOMAIN r = Fields,
         NEW s \in {OnlyChild(r), FirstChild(r), SecondChild(r)}
  PROVE  DOMAIN s = Fields /\ s.parent = r.parent /\ s.at \in {"argument", "exec"}
<1> USE BootFields
<1>1. CASE s = OnlyChild(r)
  BY <1>1, OpenedFields DEF OnlyChild
<1>2. CASE s = FirstChild(r)
  <2> DEFINE command == r.cmds[1]
             joined == [r EXCEPT !.out = IF command.out = NoFile THEN r.pipe ELSE @]
             ready == Sorting(Listing(Opened(joined, command), command), command)
  <2>1. DOMAIN joined = Fields /\ joined.parent = r.parent
    OBVIOUS
  <2> HIDE DEF joined
  <2>2. DOMAIN ready = Fields /\ ready.parent = r.parent
    BY <2>1, OpenedFields
  <2>3. s = [ready EXCEPT !.at = IF TakesWord(command) THEN "argument" ELSE "exec"]
    BY <1>2 DEF FirstChild, joined
  <2> HIDE DEF ready
  <2> QED
    BY <2>2, <2>3
<1>3. CASE s = SecondChild(r)
  <2> DEFINE command == r.cmds[2]
             joined == [r EXCEPT !.in = r.pipe, !.ends = @ \ {<<"read", r.pipe>>}]
             before == IF command.in = NoFile THEN joined ELSE r
             ready == Listing(Opened(before, command), command)
  <2>1. DOMAIN before = Fields /\ before.parent = r.parent
    OBVIOUS
  <2>2. s = [ready EXCEPT !.at = IF command.name \in Customs \ {"listFiles"}
                                   THEN "argument" ELSE "exec"]
    BY <1>3 DEF SecondChild
  <2> HIDE DEF before
  <2>3. DOMAIN ready = Fields /\ ready.parent = r.parent
    BY <2>1, OpenedFields
  <2> HIDE DEF ready
  <2> QED
    BY <2>2, <2>3
<1> QED
  BY <1>1, <1>2, <1>3

LEMMA ChildTable ==
  ASSUME Table(proc), NEW p, Child(p)
  PROVE  Table(proc')
<1>1. p \in DOMAIN proc /\ DOMAIN proc[p] = Fields /\ MayHave(proc[p].at) = 0
  BY AtPlace DEF Child, MayHave
<1>2. PICK s \in {OnlyChild(proc[p]), FirstChild(proc[p]), SecondChild(proc[p])} :
        proc' = [proc EXCEPT ![p] = s]
  BY DEF Child
<1>3. /\ DOMAIN s = Fields /\ s.parent = proc[p].parent
      /\ MayHave(s.at) = MayHave(proc[p].at)
  BY <1>1, ChildFields DEF MayHave
<1> QED
  BY <1>1, <1>2, <1>3, KeptTable

LEMMA ReadArgumentTable ==
  ASSUME Table(proc), NEW p, ReadArgument(p)
  PROVE  Table(proc')
<1>1. p \in DOMAIN proc /\ DOMAIN proc[p] = Fields /\ MayHave(proc[p].at) = 0
  BY AtPlace DEF ReadArgument, MayHave
<1>2. PICK r \in Stray(proc[p]) : proc' = [proc EXCEPT ![p] = [r EXCEPT !.at = "exec"]]
  BY DEF ReadArgument
<1>3. DOMAIN r = Fields /\ r.parent = proc[p].parent
  BY <1>1, BootFields DEF Stray
<1> DEFINE s == [r EXCEPT !.at = "exec"]
<1>4. DOMAIN s = Fields /\ s.parent = proc[p].parent /\ MayHave(s.at) = MayHave(proc[p].at)
  BY <1>1, <1>3, BootFields DEF MayHave
<1> HIDE DEF s
<1>5. Table([proc EXCEPT ![p] = s])
  BY <1>1, <1>4, KeptTable
<1> QED
  BY <1>2, <1>5 DEF s

LEMMA ExecTable ==
  ASSUME Table(proc), NEW p, Exec(p)
  PROVE  Table(proc')
<1>1. p \in DOMAIN proc /\ DOMAIN proc[p] = Fields /\ MayHave(proc[p].at) = 0
  BY AtPlace DEF Exec, MayHave
<1> DEFINE place == IF Found(proc[p]) THEN "program" ELSE "failed"
           much == IF Found(proc[p]) THEN Programs[Command(proc[p]).name].writes ELSE 1
           s == [proc[p] EXCEPT !.at = place, !.left = much]
<1>2. proc' = [proc EXCEPT ![p] = s]
  BY <1>1 DEF Exec
<1>3. DOMAIN s = Fields /\ s.parent = proc[p].parent /\ MayHave(s.at) = MayHave(proc[p].at)
  BY <1>1, BootFields DEF MayHave
<1> HIDE DEF s
<1> QED
  BY <1>1, <1>2, <1>3, KeptTable

LEMMA WriteTable ==
  ASSUME Table(proc), NEW p, Write(p)
  PROVE  Table(proc')
<1>1. p \in DOMAIN proc /\ DOMAIN proc[p] = Fields
  BY AtPlace DEF Write
<1> DEFINE s == [proc[p] EXCEPT !.left = @ - 1]
<1>2. proc' = [proc EXCEPT ![p] = s]
  BY DEF Write
<1>3. DOMAIN s = Fields /\ s.parent = proc[p].parent /\ s.at = proc[p].at
  BY <1>1, BootFields
<1> HIDE DEF s
<1> QED
  BY <1>1, <1>2, <1>3, KeptTable

LEMMA HandlerTable ==
  ASSUME Table(proc), NEW p, sigint_handler(p)
  PROVE  Table(proc')
<1>1. p \in DOMAIN proc /\ DOMAIN proc[p] = Fields
  BY DEF sigint_handler, Table, Family
<1> DEFINE s == [proc[p] EXCEPT !.ask = @ - 1]
<1>2. proc' = Ended(proc, {p}) \/ proc' = [proc EXCEPT ![p] = s]
  BY DEF sigint_handler
<1>3. DOMAIN s = Fields /\ s.parent = proc[p].parent /\ s.at = proc[p].at
  BY <1>1, BootFields
<1> HIDE DEF s
<1> QED
  BY <1>1, <1>2, <1>3, KeptTable, EndedTable

LEMMA InterruptTable ==
  ASSUME Table(proc), Interrupt
  PROVE  Table(proc')
<1> DEFINE D == {p \in DOMAIN proc : proc[p].at = "program"}
           P == Ended(proc, D)
           Q == [q \in DOMAIN P |->
                   IF q \in Alive(P) THEN [P[q] EXCEPT !.ask = Min({2, @ + 1})] ELSE P[q]]
<1>1. proc' = Q
  BY DEF Interrupt
<1>2. Table(P)
  <2>1. D \in SUBSET DOMAIN proc
    OBVIOUS
  <2> HIDE DEF D
  <2> QED
    BY <2>1, EndedTable
<1> HIDE DEF P
<1>3. /\ DOMAIN Q = DOMAIN P
      /\ \A q \in DOMAIN P : /\ DOMAIN Q[q] = Fields /\ Q[q].parent = P[q].parent
                             /\ Q[q].at = P[q].at
  BY <1>2, BootFields DEF Table, Family
<1> HIDE DEF Q
<1>4. \A q : Children(Q, q) = Children(P, q)
  BY <1>3 DEF Children
<1>5. Table(Q)
  BY <1>2, <1>3, <1>4 DEF Table, Family
<1> QED
  BY <1>1, <1>5

-----------------------------------------------------------------------------

LEMMA InitTable == Init => Table(proc)
<1> SUFFICES ASSUME Init
             PROVE  Table(proc)
  OBVIOUS
<1>1. DOMAIN proc = {Shell} /\ proc[Shell] = Boot
  BY DEF Init
<1>2. DOMAIN Boot = Fields /\ Boot.parent = Nobody /\ Boot.at = "prompt"
  BY DEF Fields, Boot
<1>3. \A q \in DOMAIN proc : proc[q].parent # Shell
  BY <1>1, <1>2, ShellAssumption
<1>4. Few(Children(proc, Shell), MayHave("prompt"))
  BY <1>3, FewNone, MayHaveNat DEF Children
<1> QED
  BY <1>1, <1>2, <1>4, ShellAssumption DEF Table, Family

LEMMA NextTable == Table(proc) /\ [Next]_vars => Table(proc)'
<1> SUFFICES ASSUME Table(proc), [Next]_vars
             PROVE  Table(proc')
  OBVIOUS
<1>1. CASE ReadLine
  BY <1>1, ReadLineTable
<1>2. CASE Main
  BY <1>2, commaCheckerTable, ForkSecondTable, WaitBothTable DEF Main
<1>3. CASE Interrupt
  BY <1>3, InterruptTable
<1>4. CASE sigterm_handler
  BY <1>4, EndedTable DEF sigterm_handler
<1>5. ASSUME NEW p \in Pids, Step(p)
      PROVE  Table(proc')
  <2>1. CASE executeCommand(p)
    BY <2>1, executeCommandTable
  <2>2. CASE AfterFirst(p) \/ AfterSecond(p)
    BY <2>2, AfterFirstTable, AfterSecondTable
  <2>3. CASE Child(p) \/ ReadArgument(p) \/ Exec(p)
    BY <2>3, ChildTable, ReadArgumentTable, ExecTable
  <2>4. CASE Write(p)
    BY <2>4, WriteTable
  <2>5. CASE Read(p)
    BY <2>5 DEF Read
  <2>6. CASE Leave(p)
    <3>1. p \in DOMAIN proc /\ proc' = Ended(proc, {p})
      BY <2>6 DEF Leave, At
    <3> QED
      BY <3>1, EndedTable
  <2>7. CASE sigint_handler(p)
    BY <2>7, HandlerTable
  <2> QED
    BY <1>5, <2>1, <2>2, <2>3, <2>4, <2>5, <2>6, <2>7 DEF Step
<1>6. CASE UNCHANGED vars
  BY <1>6 DEF vars
<1> QED
  BY <1>1, <1>2, <1>3, <1>4, <1>5, <1>6 DEF Next

\* The parent of every process is alive or init, and nobody ever has more
\* children than calls of wait(NULL) to come: two sub-shells, or one command.
THEOREM ChildrenCounted == Spec => []Table(proc)
BY InitTable, NextTable, PTL DEF Spec

\* When the shell asks for a line, takes the next of a file or begins a
\* command, nothing it started before is running or waits to be reaped, with
\* however many processes and whatever signals come.
THEOREM NoChildLeftHolds == Spec => []NoChildLeft
<1>1. Table(proc) => NoChildLeft
  BY FewNone DEF Table, Family, NoChildLeft, MayHave
<1> QED
  BY <1>1, ChildrenCounted, PTL

-----------------------------------------------------------------------------
(* Who is at which end of which pipe                                       *)

\* pipe() has a descriptor to give; what myshell.c does without is not modelled.
Unused(P, pipe) == ~HasEnd(P, pipe, "read") /\ ~HasEnd(P, pipe, "write")
PipeLeft == \E pipe \in Pipes : Unused(proc, pipe)

-----------------------------------------------------------------------------
(* The inductive invariant                                                 *)

ChildPlaces == {"child", "argument", "exec", "program", "failed"}

\* A runner that has a pipe for the two commands, and waits for the first.
Piping(r) == r.at = "wait1" /\ Len(r.cmds) # 1

\* A finite number of ends of pipes.
Ports(ends) == IsFiniteSet(ends) /\ ends \subseteq {"read", "write"} \X Pipes

Typed(r) ==
  /\ DOMAIN r = Fields
  /\ r.at \in Places /\ r.ask \in 0..2 /\ r.left \in Nat
  /\ r.cwd \in Directories
  /\ r.in \in Readable \cup Pipes \cup {"tty", "closed"}
  /\ r.out \in Writable \cup Pipes \cup {"tty", "closed", "files.txt"}
  /\ Ports(r.ends)

\* Only a second command reads from a pipe and only a first one writes to one,
\* and it is the pipe of the line.  Who has yet to use the reading end holds it.
Good(r) ==
  /\ Typed(r)
  /\ r.at \notin ChildPlaces \ {"child"} => r.in = "tty" /\ r.out = "tty"
  /\ Piping(r) => r.pipe \in Pipes /\ <<"read", r.pipe>> \in r.ends
  /\ r.at = "child" =>
       /\ r.role \in {"only", "first", "second"}
       /\ r.role # "only" => r.pipe \in Pipes
       /\ r.role = "second" => <<"read", r.pipe>> \in r.ends
  /\ r.in \in Pipes => r.role = "second" /\ r.in = r.pipe
  /\ r.out \in Pipes => r.role = "first" /\ r.out = r.pipe
  /\ r.at = "program" => r.ask = 0

\* A process that reads from a pipe, or will.
Reads(r, pipe) == (r.at = "child" /\ r.role = "second" /\ r.pipe = pipe) \/ r.in = pipe

\* While a runner waits for its first command nobody else uses its pipe, and
\* nobody at all reads from it.
Apart(P, p, q) ==
  Piping(P[p]) =>
    /\ q # p /\ Piping(P[q]) => P[q].pipe # P[p].pipe
    /\ ~Reads(P[q], P[p].pipe)

\* The child it waits for is its only or its first command.
Paired(P, p, q) ==
  P[q].parent = p /\ P[p].at = "wait1" /\ P[q].at # "zombie" =>
    /\ P[q].at \in ChildPlaces
    /\ P[q].role \in {"only", "first"}
    /\ P[q].role = "first" => Piping(P[p]) /\ P[q].pipe = P[p].pipe

Fine(P) ==
  /\ IsFiniteSet(DOMAIN P)
  /\ \A p \in DOMAIN P : Good(P[p]) /\ P[p].parent # p
  /\ \A p, q \in DOMAIN P : Apart(P, p, q) /\ Paired(P, p, q)

LEMMA PortsAre ==
  /\ Ports({})
  /\ \A ends : Ports(ends) => \A S \in SUBSET ends : Ports(S)
  /\ \A ends : Ports(ends) =>
       \A pipe \in Pipes : Ports(ends \cup {<<"read", pipe>>, <<"write", pipe>>})
<1>1. Ports({})
  BY FS_EmptySet DEF Ports
<1>2. ASSUME NEW ends, Ports(ends), NEW S \in SUBSET ends
      PROVE  Ports(S)
  BY <1>2, FS_Subset DEF Ports
<1>3. ASSUME NEW ends, Ports(ends), NEW pipe \in Pipes
      PROVE  Ports(ends \cup {<<"read", pipe>>, <<"write", pipe>>})
  <2>1. IsFiniteSet(ends \cup {<<"read", pipe>>})
    BY <1>3, FS_AddElement DEF Ports
  <2>2. IsFiniteSet((ends \cup {<<"read", pipe>>}) \cup {<<"write", pipe>>})
    BY <2>1, FS_AddElement
  <2>3. (ends \cup {<<"read", pipe>>}) \cup {<<"write", pipe>>}
          = ends \cup {<<"read", pipe>>, <<"write", pipe>>}
    OBVIOUS
  <2> QED
    BY <1>3, <2>2, <2>3 DEF Ports
<1> QED
  BY <1>1, <1>2, <1>3

LEMMA PipesApart ==
  \A pipe \in Pipes : pipe \notin Readable \cup Writable \cup {"tty", "closed", "files.txt"}
BY ShellAssumption

-----------------------------------------------------------------------------
(* What the kernel does                                                    *)

LEMMA ZombieGood == \A parent : Good(Zombie(parent)) /\ Zombie(parent).parent = parent
                                /\ Zombie(parent).at = "zombie"
<1> SUFFICES ASSUME NEW parent
             PROVE  /\ Good(Zombie(parent)) /\ Zombie(parent).parent = parent
                    /\ Zombie(parent).at = "zombie"
  OBVIOUS
<1> DEFINE z == Zombie(parent)
<1>1. /\ DOMAIN z = Fields /\ z.parent = parent /\ z.at = "zombie"
      /\ z.in = "tty" /\ z.out = "tty" /\ z.ends = {} /\ z.cwd = "home"
      /\ z.left = 0 /\ z.ask = 0
  BY DEF Zombie, Boot, Fields
<1> HIDE DEF z
<1>2. Typed(z)
  BY <1>1, PortsAre, ShellAssumption DEF Typed, Places
<1>3. Good(z)
  BY <1>1, <1>2, PipesApart DEF Good, Piping, ChildPlaces
<1> QED
  BY <1>1, <1>3 DEF z

\* Goodness is not about the parent.
LEMMA OrphanGood ==
  ASSUME NEW r, Good(r), NEW parent
  PROVE  LET s == [r EXCEPT !.parent = parent]
         IN  /\ Good(s) /\ s.parent = parent /\ s.at = r.at /\ s.role = r.role
             /\ s.pipe = r.pipe /\ s.cmds = r.cmds /\ s.in = r.in
<1> DEFINE s == [r EXCEPT !.parent = parent]
<1>1. /\ DOMAIN s = Fields /\ s.parent = parent
      /\ \A f \in Fields : f # "parent" => s[f] = r[f]
  BY BootFields DEF Good, Typed
<1> HIDE DEF s
<1>2. /\ s.at = r.at /\ s.role = r.role /\ s.pipe = r.pipe /\ s.cmds = r.cmds
      /\ s.in = r.in /\ s.out = r.out /\ s.ends = r.ends /\ s.cwd = r.cwd
      /\ s.left = r.left /\ s.ask = r.ask
  BY <1>1, BootFields
<1>3. Typed(s)
  BY <1>1, <1>2 DEF Good, Typed
<1>4. Good(s)
  BY <1>2, <1>3 DEF Good, Piping
<1> QED
  BY <1>1, <1>2, <1>4 DEF s

\* Of the processes that are left each is as before, an orphan, or a zombie.
LEMMA EndedFine ==
  ASSUME NEW P, Fine(P), DOMAIN P \subseteq Pids, NEW D \in SUBSET DOMAIN P
  PROVE  Fine(Ended(P, D))
<1> DEFINE Q == Ended(P, D)
<1>1. /\ DOMAIN Q \subseteq DOMAIN P
      /\ \A q \in DOMAIN Q :
           Q[q] = IF q \in D THEN Zombie(P[q].parent)
                  ELSE IF P[q].parent \in D THEN [P[q] EXCEPT !.parent = Nobody]
                  ELSE P[q]
  BY DEF Ended
<1> HIDE DEF Q
<1>2. ASSUME NEW q \in DOMAIN Q
      PROVE  /\ Good(Q[q]) /\ Q[q].parent # q
             /\ \/ q \in D /\ Q[q].at = "zombie"
                \/ /\ q \notin D
                   /\ Q[q].at = P[q].at /\ Q[q].role = P[q].role
                   /\ Q[q].pipe = P[q].pipe /\ Q[q].cmds = P[q].cmds
                   /\ Q[q].in = P[q].in
             /\ Q[q].parent \in {P[q].parent, Nobody}
  <2>1. Good(P[q]) /\ P[q].parent # q /\ q # Nobody
    BY <1>1, ShellAssumption DEF Fine
  <2>2. CASE q \in D
    BY <1>1, <2>1, <2>2, ZombieGood
  <2>3. CASE q \notin D /\ P[q].parent \in D
    <3>1. Q[q] = [P[q] EXCEPT !.parent = Nobody]
      BY <1>1, <2>3
    <3> QED
      BY <2>1, <2>3, <3>1, OrphanGood
  <2>4. CASE q \notin D /\ P[q].parent \notin D
    BY <1>1, <2>1, <2>4
  <2> QED
    BY <2>2, <2>3, <2>4
<1>3. ASSUME NEW p \in DOMAIN Q, NEW q \in DOMAIN Q
      PROVE  Apart(Q, p, q) /\ Paired(Q, p, q)
  <2>1. Apart(P, p, q) /\ Paired(P, p, q)
    BY <1>1 DEF Fine
  <2>2. Apart(Q, p, q)
    <3>1. SUFFICES ASSUME Piping(Q[p])
                   PROVE  /\ q # p /\ Piping(Q[q]) => Q[q].pipe # Q[p].pipe
                          /\ ~Reads(Q[q], Q[p].pipe)
      BY DEF Apart
    <3>2. Piping(P[p]) /\ Q[p].pipe = P[p].pipe /\ P[p].pipe \in Pipes
      BY <1>1, <1>2, <3>1 DEF Piping, Fine, Good
    <3>3. CASE q \in D
      <4>1. Q[q].at = "zombie" /\ Q[q].in = "tty"
        BY <1>2, <3>3 DEF Good, ChildPlaces
      <4> QED
        BY <3>2, <4>1, PipesApart DEF Piping, Reads
    <3>4. CASE q \notin D
      BY <1>2, <2>1, <3>2, <3>4 DEF Apart, Piping, Reads
    <3> QED
      BY <3>3, <3>4
  <2>3. Paired(Q, p, q)
    <3>1. SUFFICES ASSUME Q[q].parent = p, Q[p].at = "wait1", Q[q].at # "zombie"
                   PROVE  /\ Q[q].at \in ChildPlaces
                          /\ Q[q].role \in {"only", "first"}
                          /\ Q[q].role = "first" => Piping(Q[p]) /\ Q[q].pipe = Q[p].pipe
      BY DEF Paired
    <3>2. P[q].parent = p
      BY <1>1, <1>2, <3>1, ShellAssumption
    <3> QED
      BY <1>2, <2>1, <3>1, <3>2 DEF Paired, Piping
  <2> QED
    BY <2>2, <2>3
<1>4. Fine(Q)
  BY <1>1, <1>2, <1>3, FS_Subset DEF Fine
<1> QED
  BY <1>4 DEF Q

\* wait takes a process out of the table.
LEMMA WaitedFine ==
  ASSUME NEW P, Fine(P), NEW p, NEW Q \in Waited(P, p)
  PROVE  Fine(Q)
<1>1. DOMAIN Q \subseteq DOMAIN P /\ \A q \in DOMAIN Q : Q[q] = P[q]
  BY DEF Waited, Restrict
<1> QED
  BY <1>1, FS_Subset DEF Fine, Apart, Paired

\* A process changes what is its own, and takes up no pipe.
LEMMA ChangedFine ==
  ASSUME NEW P, Fine(P), NEW p \in DOMAIN P, NEW r, Good(r), r.parent = P[p].parent,
         r.at = "wait1" => P[p].at = "wait1" /\ r.cmds = P[p].cmds /\ r.pipe = P[p].pipe,
         \A pipe \in Pipes : Reads(r, pipe) => Reads(P[p], pipe),
         P[p].at \in ChildPlaces \cup {"zombie"} =>
           r.at \in ChildPlaces \cup {"zombie"} /\ r.role = P[p].role /\ r.pipe = P[p].pipe,
         P[p].at = "zombie" => r.at = "zombie"
  PROVE  Fine([P EXCEPT ![p] = r])
<1> DEFINE Q == [P EXCEPT ![p] = r]
<1>1. DOMAIN Q = DOMAIN P /\ \A q \in DOMAIN P : Q[q] = IF q = p THEN r ELSE P[q]
  OBVIOUS
<1> HIDE DEF Q
<1>2. \A q \in DOMAIN Q : Good(Q[q]) /\ Q[q].parent = P[q].parent /\ Q[q].parent # q
  BY <1>1 DEF Fine
<1>3. \A q \in DOMAIN Q :
        Q[q].at = "wait1" =>
          P[q].at = "wait1" /\ Q[q].cmds = P[q].cmds /\ Q[q].pipe = P[q].pipe
  BY <1>1
<1>4. \A q \in DOMAIN Q : \A pipe \in Pipes : Reads(Q[q], pipe) => Reads(P[q], pipe)
  BY <1>1
<1>5. ASSUME NEW x \in DOMAIN Q, NEW y \in DOMAIN Q
      PROVE  Apart(Q, x, y) /\ Paired(Q, x, y)
  <2>1. Apart(P, x, y) /\ Paired(P, x, y)
    BY <1>1 DEF Fine
  <2>2. Apart(Q, x, y)
    BY <1>2, <1>3, <1>4, <2>1 DEF Apart, Piping, Good
  <2>3. Paired(Q, x, y)
    BY <1>1, <1>2, <1>3, <2>1 DEF Paired, Piping
  <2> QED
    BY <2>2, <2>3
<1>6. Fine(Q)
  BY <1>1, <1>2, <1>5 DEF Fine
<1> QED
  BY <1>6 DEF Q

\* ... or, without a child, the pipe that is new.
LEMMA PipedFine ==
  ASSUME NEW P, Fine(P), NEW p \in DOMAIN P, NEW r, Good(r), r.parent = P[p].parent,
         P[p].at = "command", r.at = "wait1", Children(P, p) = {},
         Piping(r) => Unused(P, r.pipe)
  PROVE  Fine([P EXCEPT ![p] = r])
<1> DEFINE Q == [P EXCEPT ![p] = r]
<1>1. DOMAIN Q = DOMAIN P /\ \A q \in DOMAIN P : Q[q] = IF q = p THEN r ELSE P[q]
  OBVIOUS
<1> HIDE DEF Q
<1>2. \A q \in DOMAIN Q : Good(Q[q]) /\ Q[q].parent = P[q].parent /\ Q[q].parent # q
  BY <1>1 DEF Fine
<1>3. ASSUME Piping(r), NEW q \in DOMAIN P
      PROVE  /\ Piping(P[q]) => P[q].pipe # r.pipe
             /\ ~Reads(P[q], r.pipe)
  <2>1. Good(P[q]) /\ ~HasEnd(P, r.pipe, "read")
    BY <1>3 DEF Fine, Unused
  <2>2. <<"read", r.pipe>> \notin P[q].ends /\ r.pipe # P[q].in
    BY <2>1 DEF HasEnd, Ends
  <2> QED
    BY <2>1, <2>2 DEF Good, Reads
<1>4. \A pipe \in Pipes : ~Reads(r, pipe)
  BY PipesApart DEF Good, Reads, ChildPlaces
<1>5. ASSUME NEW x \in DOMAIN Q, NEW y \in DOMAIN Q
      PROVE  Apart(Q, x, y) /\ Paired(Q, x, y)
  <2>1. Apart(P, x, y) /\ Paired(P, x, y)
    BY <1>1 DEF Fine
  <2>2. Apart(Q, x, y)
    <3>1. CASE x = p
      BY <1>1, <1>2, <1>3, <1>4, <3>1 DEF Apart, Good
    <3>2. CASE x # p /\ y = p
      <4>1. Q[x] = P[x] /\ Q[y] = r /\ x \in DOMAIN P /\ Good(P[x])
        BY <1>1, <3>2 DEF Fine
      <4>2. Piping(P[x]) => P[x].pipe \in Pipes
        BY <4>1 DEF Good
      <4> QED
        BY <1>3, <1>4, <4>1, <4>2 DEF Apart
    <3>3. CASE x # p /\ y # p
      BY <1>1, <2>1, <3>3 DEF Apart
    <3> QED
      BY <3>1, <3>2, <3>3
  <2>3. Paired(Q, x, y)
    <3>1. CASE x = p
      BY <1>1, <1>2, <3>1 DEF Paired, Children
    <3>2. CASE x # p
      BY <1>1, <1>2, <2>1, <3>2 DEF Paired, ChildPlaces
    <3> QED
      BY <3>1, <3>2
  <2> QED
    BY <2>2, <2>3
<1>6. Fine(Q)
  BY <1>1, <1>2, <1>5 DEF Fine
<1> QED
  BY <1>6 DEF Q

\* A child more, or the end of the process that tried.
LEMMA ForkedFine ==
  ASSUME NEW P, Fine(P), Table(P), NEW p \in DOMAIN P, NEW child, Good(child),
         child.at \in {"command", "child"},
         P[p].at = "wait1" =>
           /\ child.at = "child" /\ child.role \in {"only", "first"}
           /\ child.role = "first" => Piping(P[p]) /\ child.pipe = P[p].pipe,
         \A q \in DOMAIN P : Piping(P[q]) => ~Reads(child, P[q].pipe)
  PROVE  Fine(Fork(P, p, child))
<1> DEFINE free == Pids \ (DOMAIN P \cup {Shell})
           new == CHOOSE pid \in free : TRUE
           born == [child EXCEPT !.parent = p]
           Q == [q \in DOMAIN P \cup {new} |-> IF q \in DOMAIN P THEN P[q] ELSE born]
<1>1. CASE free = {}
  BY <1>1, EndedFine DEF Fork, Table
<1>2. CASE free # {}
  <2>1. Fork(P, p, child) = Q
    BY <1>2 DEF Fork
  <2>2. new \in Pids /\ new \notin DOMAIN P /\ new # Nobody
    BY <1>2, ShellAssumption
  <2>3. /\ Good(born) /\ born.parent = p /\ born.at = child.at /\ born.role = child.role
        /\ born.pipe = child.pipe /\ born.in = child.in
    BY OrphanGood
  <2> HIDE DEF new, born
  <2>4. /\ DOMAIN Q = DOMAIN P \cup {new}
        /\ \A q \in DOMAIN P : Q[q] = P[q]
        /\ Q[new] = born
    BY <2>2
  <2> HIDE DEF Q
  <2>5. \A q \in DOMAIN Q : Good(Q[q]) /\ Q[q].parent # q
    BY <2>2, <2>3, <2>4 DEF Fine
  <2>6. ASSUME NEW x \in DOMAIN Q, NEW y \in DOMAIN Q
        PROVE  Apart(Q, x, y) /\ Paired(Q, x, y)
    <3>1. CASE x = new
      <4>1. ~Piping(Q[x]) /\ Q[x].at # "wait1"
        BY <2>3, <2>4, <3>1 DEF Piping
      <4> QED
        BY <4>1 DEF Apart, Paired
    <3>2. CASE x # new /\ y = new
      <4>1. Q[x] = P[x] /\ Q[y] = born /\ x \in DOMAIN P
        BY <2>4, <3>2
      <4>2. Apart(Q, x, y)
        BY <2>3, <4>1 DEF Apart, Reads, Piping
      <4>3. Paired(Q, x, y)
        BY <2>3, <4>1 DEF Paired, ChildPlaces
      <4> QED
        BY <4>2, <4>3
    <3>3. CASE x # new /\ y # new
      BY <2>4, <3>3 DEF Fine, Apart, Paired
    <3> QED
      BY <3>1, <3>2, <3>3
  <2> QED
    BY <2>1, <2>4, <2>5, <2>6, FS_AddElement DEF Fine
<1> QED
  BY <1>1, <1>2

\* Where a process of the shell goes without taking up a pipe.
LEMMA MovedFine ==
  ASSUME NEW P, Fine(P), NEW p \in DOMAIN P, NEW r, Good(r), r.parent = P[p].parent,
         P[p].at \notin ChildPlaces \cup {"zombie"},
         r.at \notin ChildPlaces \cup {"wait1"}
  PROVE  Fine([P EXCEPT ![p] = r])
<1>1. \A pipe \in Pipes : ~Reads(r, pipe)
  BY PipesApart DEF Good, Reads, ChildPlaces
<1> QED
  BY <1>1, ChangedFine

LEMMA BootGood ==
  ASSUME NEW ends, NEW cwd \in Directories, Ports(ends)
  PROVE  LET r == [Boot EXCEPT !.ends = ends, !.cwd = cwd]
         IN  Good(r) /\ r.parent = Nobody /\ r.at = "prompt"
<1> DEFINE r == [Boot EXCEPT !.ends = ends, !.cwd = cwd]
<1>1. /\ DOMAIN r = Fields /\ r.parent = Nobody /\ r.at = "prompt"
      /\ r.in = "tty" /\ r.out = "tty" /\ r.ends = ends /\ r.cwd = cwd
      /\ r.left = 0 /\ r.ask = 0
  BY DEF Boot, Fields
<1> HIDE DEF r
<1>2. Typed(r)
  BY <1>1 DEF Typed, Places
<1>3. Good(r)
  BY <1>1, <1>2, PipesApart DEF Good, Piping, ChildPlaces
<1> QED
  BY <1>1, <1>3 DEF r

\* The shell goes on, or the sub-shell exits.
LEMMA ReturnedFine ==
  ASSUME NEW P, Fine(P), Table(P), NEW p \in DOMAIN P,
         P[p].at \notin ChildPlaces \cup {"zombie"}
  PROVE  Fine(Returned(P, p))
<1>1. Good(P[p]) /\ DOMAIN P[p] = Fields
  BY DEF Fine, Good, Typed
<1>2. CASE p # Shell
  BY <1>2, EndedFine DEF Returned, Table
<1>3. CASE p = Shell /\ P[p].lines = <<>>
  <2> DEFINE r == [Boot EXCEPT !.ends = P[p].ends, !.cwd = P[p].cwd]
  <2>1. Returned(P, p) = [P EXCEPT ![p] = r]
    BY <1>3 DEF Returned
  <2>2. P[p].cwd \in Directories /\ Ports(P[p].ends)
    BY <1>1 DEF Good, Typed
  <2>3. Good(r) /\ r.parent = Nobody /\ r.at = "prompt"
    BY <2>2, BootGood
  <2>4. P[p].parent = Nobody
    BY <1>3 DEF Table
  <2>5. r.at \notin ChildPlaces \cup {"wait1"}
    BY <2>3 DEF ChildPlaces
  <2> HIDE DEF r
  <2>6. Fine([P EXCEPT ![p] = r])
    BY <2>3, <2>4, <2>5, MovedFine
  <2> QED
    BY <2>1, <2>6
<1>4. CASE p = Shell /\ P[p].lines # <<>>
  <2> DEFINE r == [P[p] EXCEPT !.at = "line", !.text = Head(P[p].lines),
                               !.lines = Tail(@), !.cmds = <<>>, !.pipe = "none"]
  <2>1. Returned(P, p) = [P EXCEPT ![p] = r]
    BY <1>4 DEF Returned
  <2>2. /\ DOMAIN r = Fields /\ r.parent = P[p].parent /\ r.at = "line"
        /\ r.in = P[p].in /\ r.out = P[p].out /\ r.ends = P[p].ends /\ r.cwd = P[p].cwd
        /\ r.left = P[p].left /\ r.ask = P[p].ask
    BY <1>1, BootFields
  <2> HIDE DEF r
  <2>3. Typed(r)
    BY <1>1, <2>2 DEF Good, Typed, Places
  <2>4. Good(r)
    BY <1>1, <2>2, <2>3, PipesApart DEF Good, Piping, ChildPlaces
  <2>5. r.at \notin ChildPlaces \cup {"wait1"}
    BY <2>2 DEF ChildPlaces
  <2>6. Fine([P EXCEPT ![p] = r])
    BY <2>2, <2>4, <2>5, MovedFine
  <2> QED
    BY <2>1, <2>6
<1> QED
  BY <1>2, <1>3, <1>4

-----------------------------------------------------------------------------
(* The steps of main                                                       *)

\* Changes of the fields that Good does not look at, and of the place.
LEMMA PlacedGood ==
  ASSUME NEW r, Good(r), r.at \notin ChildPlaces,
         NEW s, DOMAIN s = Fields, s.in = r.in, s.out = r.out, s.ends = r.ends,
         s.cwd = r.cwd, s.left = r.left, s.ask = r.ask,
         s.at \in Places \ (ChildPlaces \cup {"wait1", "zombie"})
  PROVE  Good(s)
<1>1. s.in = "tty" /\ s.out = "tty"
  BY DEF Good
<1>2. Typed(s)
  BY DEF Good, Typed
<1> QED
  BY <1>1, <1>2, PipesApart DEF Good, Piping, ChildPlaces

LEMMA PlaceIs ==
  ASSUME Table(proc), Fine(proc), NEW p, NEW place, At(p, place)
  PROVE  /\ p \in DOMAIN proc /\ proc[p].at = place /\ DOMAIN proc[p] = Fields
         /\ Good(proc[p]) /\ proc[p].ask = 0
BY AtPlace DEF At, Fine

LEMMA ReadLineFine ==
  ASSUME Table(proc), Fine(proc), ReadLine
  PROVE  Fine(proc')
<1> DEFINE line  == script[typed + 1]
           first == Word1(line)
           lines == IF first = <<"executeCommands">> THEN BatchLines(line) ELSE <<line>>
           r == [proc[Shell] EXCEPT !.lines = lines]
<1>1. At(Shell, "prompt")
  BY DEF ReadLine
<1>2. /\ Shell \in DOMAIN proc /\ proc[Shell].at = "prompt"
      /\ DOMAIN proc[Shell] = Fields /\ Good(proc[Shell])
  BY <1>1, PlaceIs
<1>3. Fine(Ended(proc, {Shell}))
  BY <1>2, EndedFine DEF Table
<1>4. Fine(Returned([proc EXCEPT ![Shell] = r], Shell))
  <2>1. /\ DOMAIN r = Fields /\ r.parent = proc[Shell].parent /\ r.at = "prompt"
        /\ r.in = proc[Shell].in /\ r.out = proc[Shell].out /\ r.ends = proc[Shell].ends
        /\ r.cwd = proc[Shell].cwd /\ r.left = proc[Shell].left /\ r.ask = proc[Shell].ask
    BY <1>2, BootFields
  <2> HIDE DEF r
  <2>2. Good(r)
    BY <1>2, <2>1, PlacedGood DEF Places, ChildPlaces
  <2>3. /\ proc[Shell].at \notin ChildPlaces \cup {"zombie"}
        /\ r.at \notin ChildPlaces \cup {"wait1"}
    BY <1>2, <2>1 DEF ChildPlaces
  <2> DEFINE Q == [proc EXCEPT ![Shell] = r]
  <2>4. Fine(Q)
    BY <1>2, <2>1, <2>2, <2>3, MovedFine
  <2>5. Table(Q)
    BY <1>2, <2>1, KeptTable
  <2>6. Shell \in DOMAIN Q /\ Q[Shell].at = "prompt"
    BY <1>2, <2>1
  <2>7. Q[Shell].at \notin ChildPlaces \cup {"zombie"}
    BY <2>6 DEF ChildPlaces
  <2> HIDE DEF Q
  <2>8. Fine(Returned(Q, Shell))
    BY <2>4, <2>5, <2>6, <2>7, ReturnedFine
  <2> QED
    BY <2>8 DEF Q
<1>5. \/ proc' = Ended(proc, {Shell})
      \/ proc' = proc
      \/ proc' = Returned([proc EXCEPT ![Shell] = r], Shell)
  BY DEF ReadLine
<1> QED
  BY <1>3, <1>4, <1>5

\* The shell moves on to where its sub-shells are forked or waited for.
LEMMA StepFine ==
  ASSUME NEW P, Table(P), Fine(P), NEW p \in DOMAIN P, NEW place,
         P[p].at \notin ChildPlaces \cup {"zombie"},
         place \in Places \ (ChildPlaces \cup {"wait1", "zombie"})
  PROVE  Fine([P EXCEPT ![p].at = place])
<1> DEFINE r == [P[p] EXCEPT !.at = place]
<1>1. Good(P[p]) /\ DOMAIN P[p] = Fields
  BY DEF Fine, Good, Typed
<1>2. /\ DOMAIN r = Fields /\ r.parent = P[p].parent /\ r.at = place
      /\ r.in = P[p].in /\ r.out = P[p].out /\ r.ends = P[p].ends
      /\ r.cwd = P[p].cwd /\ r.left = P[p].left /\ r.ask = P[p].ask
  BY <1>1, BootFields
<1>3. [P EXCEPT ![p].at = place] = [P EXCEPT ![p] = r]
  OBVIOUS
<1> HIDE DEF r
<1>4. Good(r)
  BY <1>1, <1>2, PlacedGood
<1>5. Fine([P EXCEPT ![p] = r])
  BY <1>2, <1>4, MovedFine
<1> QED
  BY <1>3, <1>5

\* A sub-shell is as the shell was, with a piece of the line to execute.
LEMMA PieceGood ==
  ASSUME NEW r, Good(r), r.at \notin ChildPlaces, NEW text
  PROVE  LET piece == [r EXCEPT !.at = "command", !.text = text]
         IN  /\ Good(piece) /\ DOMAIN piece = Fields
             /\ piece.at = "command" /\ piece.parent = r.parent
             /\ \A pipe \in Pipes : ~Reads(piece, pipe)
<1> DEFINE piece == [r EXCEPT !.at = "command", !.text = text]
<1>1. /\ DOMAIN piece = Fields /\ piece.parent = r.parent /\ piece.at = "command"
      /\ piece.in = r.in /\ piece.out = r.out /\ piece.ends = r.ends
      /\ piece.cwd = r.cwd /\ piece.left = r.left /\ piece.ask = r.ask
  BY BootFields DEF Good, Typed
<1> HIDE DEF piece
<1>2. Good(piece)
  BY <1>1, PlacedGood DEF Places, ChildPlaces
<1>3. \A pipe \in Pipes : ~Reads(piece, pipe)
  BY <1>1, <1>2, PipesApart DEF Good, Reads, ChildPlaces
<1> QED
  BY <1>1, <1>2, <1>3 DEF piece

\* A sub-shell is forked once the shell is where it waits for it.
LEMMA SubshellFine ==
  ASSUME NEW P, Table(P), Fine(P), NEW p \in DOMAIN P, P[p].at \in {"fork", "waits"},
         NEW child, Good(child), child.at = "command",
         \A pipe \in Pipes : ~Reads(child, pipe)
  PROVE  Fine(Fork(P, p, child))
<1>1. \A q \in DOMAIN P : Piping(P[q]) => P[q].pipe \in Pipes
  BY DEF Fine, Good
<1> QED
  BY <1>1, ForkedFine

LEMMA commaCheckerFine ==
  ASSUME Table(proc), Fine(proc), commaChecker
  PROVE  Fine(proc')
<1> DEFINE pieces == PiecesOf[proc[Shell].text]
           piece == [proc[Shell] EXCEPT !.at = "command", !.text = pieces[1]]
           P == [proc EXCEPT ![Shell].at = "fork"]
<1>1. At(Shell, "line")
  BY DEF commaChecker
<1>2. /\ Shell \in DOMAIN proc /\ proc[Shell].at = "line"
      /\ DOMAIN proc[Shell] = Fields /\ Good(proc[Shell])
      /\ Few(Children(proc, Shell), 0)
  BY <1>1, PlaceIs, AtPlace DEF MayHave
<1>3. proc[Shell].at \notin ChildPlaces \cup {"zombie"}
  BY <1>2 DEF ChildPlaces
<1>4. /\ Good(piece) /\ piece.parent = proc[Shell].parent /\ piece.at = "command"
      /\ \A pipe \in Pipes : ~Reads(piece, pipe)
  BY <1>2, <1>3, PieceGood
<1>5. proc' = [proc EXCEPT ![Shell] = piece] \/ proc' = Fork(P, Shell, piece)
  BY DEF commaChecker
<1> HIDE DEF piece
<1>6. Fine([proc EXCEPT ![Shell] = piece])
  <2>1. piece.at \notin ChildPlaces \cup {"wait1"}
    BY <1>4 DEF ChildPlaces
  <2> QED
    BY <1>2, <1>3, <1>4, <2>1, MovedFine
<1>7. Table(P)
  <2>1. Few(Children(proc, Shell), MayHave("fork"))
    BY <1>2, FewMore DEF MayHave
  <2> QED
    BY <1>2, <2>1, MovedTable
<1>8. Fine(P)
  <2>1. "fork" \in Places \ (ChildPlaces \cup {"wait1", "zombie"})
    BY DEF Places, ChildPlaces
  <2> QED
    BY <1>2, <1>3, <2>1, StepFine
<1>9. Shell \in DOMAIN P /\ P[Shell].at = "fork"
  BY <1>2, BootFields
<1> HIDE DEF P
<1>10. Fine(Fork(P, Shell, piece))
  BY <1>4, <1>7, <1>8, <1>9, SubshellFine
<1> QED
  BY <1>5, <1>6, <1>10

LEMMA ForkSecondFine ==
  ASSUME Table(proc), Fine(proc), ForkSecond
  PROVE  Fine(proc')
<1> DEFINE piece == [proc[Shell] EXCEPT !.at = "command",
                                        !.text = PiecesOf[proc[Shell].text][2]]
           P == [proc EXCEPT ![Shell].at = "waits"]
<1>1. At(Shell, "fork") /\ proc' = Fork(P, Shell, piece)
  BY DEF ForkSecond
<1>2. /\ Shell \in DOMAIN proc /\ proc[Shell].at = "fork"
      /\ DOMAIN proc[Shell] = Fields /\ Good(proc[Shell])
      /\ Few(Children(proc, Shell), 1)
  BY <1>1, PlaceIs, AtPlace DEF MayHave
<1>3. proc[Shell].at \notin ChildPlaces \cup {"zombie"}
  BY <1>2 DEF ChildPlaces
<1>4. /\ Good(piece) /\ piece.at = "command"
      /\ \A pipe \in Pipes : ~Reads(piece, pipe)
  BY <1>2, <1>3, PieceGood
<1>5. Table(P)
  <2>1. Few(Children(proc, Shell), MayHave("waits"))
    BY <1>2, FewMore DEF MayHave
  <2> QED
    BY <1>2, <2>1, MovedTable
<1>6. Fine(P)
  <2>1. "waits" \in Places \ (ChildPlaces \cup {"wait1", "zombie"})
    BY DEF Places, ChildPlaces
  <2> QED
    BY <1>2, <1>3, <2>1, StepFine
<1>7. Shell \in DOMAIN P /\ P[Shell].at = "waits"
  BY <1>2, BootFields
<1> HIDE DEF P, piece
<1> QED
  BY <1>1, <1>4, <1>5, <1>6, <1>7, SubshellFine

LEMMA WaitBothFine ==
  ASSUME Table(proc), Fine(proc), WaitBoth
  PROVE  Fine(proc')
<1>1. \/ At(Shell, "waits") /\ \E P \in Waited(proc, Shell) : proc' = [P EXCEPT ![Shell].at = "wait"]
      \/ At(Shell, "wait") /\ \E P \in Waited(proc, Shell) : proc' = Returned(P, Shell)
  BY DEF WaitBoth
<1>2. PICK n \in {0, 1} : MayHave(proc[Shell].at) = n + 1
  BY <1>1 DEF At, MayHave
<1>3. Shell \in DOMAIN proc /\ proc[Shell].at \in {"waits", "wait"}
  BY <1>1 DEF At
<1>4. PICK P \in Waited(proc, Shell) :
        proc' = [P EXCEPT ![Shell].at = "wait"] \/ proc' = Returned(P, Shell)
  BY <1>1
<1>5. Table(P) /\ Shell \in DOMAIN P /\ P[Shell] = proc[Shell]
  BY <1>2, <1>3, WaitedTable
<1>6. Fine(P)
  BY WaitedFine
<1>7. P[Shell].at \notin ChildPlaces \cup {"zombie"}
  BY <1>3, <1>5 DEF ChildPlaces
<1>8. "wait" \in Places \ (ChildPlaces \cup {"wait1", "zombie"})
  BY DEF Places, ChildPlaces
<1>9. Fine([P EXCEPT ![Shell].at = "wait"])
  BY <1>5, <1>6, <1>7, <1>8, StepFine
<1>10. Fine(Returned(P, Shell))
  BY <1>5, <1>6, <1>7, ReturnedFine
<1> QED
  BY <1>4, <1>9, <1>10

-----------------------------------------------------------------------------
(* The steps of one who executes a command                                 *)

\* What is true of a process of the shell's own, whatever descriptors it has.
LEMMA SettledGood ==
  ASSUME NEW s, DOMAIN s = Fields, s.in = "tty", s.out = "tty",
         Ports(s.ends),
         s.cwd \in Directories, s.left \in Nat, s.ask \in 0..2,
         s.at \in Places \ (ChildPlaces \cup {"zombie"}),
         Piping(s) => s.pipe \in Pipes /\ <<"read", s.pipe>> \in s.ends
  PROVE  Good(s)
<1>1. Typed(s)
  BY DEF Typed
<1> QED
  BY <1>1, PipesApart DEF Good, ChildPlaces

LEMMA BuiltinFine ==
  ASSUME Table(proc), Fine(proc), NEW p, At(p, "command"), NEW command
  PROVE  Fine(Builtin(p, command))
<1> DEFINE r == [proc[p] EXCEPT !.cwd = IF command.arg \in Directories
                                          THEN command.arg ELSE @]
           Q == [proc EXCEPT ![p] = r]
<1>1. /\ p \in DOMAIN proc /\ proc[p].at = "command" /\ DOMAIN proc[p] = Fields
      /\ Good(proc[p])
  BY PlaceIs
<1>2. Builtin(p, command) = Ended(proc, {p}) \/ Builtin(p, command) = Returned(Q, p)
  BY DEF Builtin
<1>3. Fine(Ended(proc, {p}))
  BY <1>1, EndedFine DEF Table
<1>4. /\ DOMAIN r = Fields /\ r.parent = proc[p].parent /\ r.at = "command"
      /\ r.in = proc[p].in /\ r.out = proc[p].out /\ r.ends = proc[p].ends
      /\ r.left = proc[p].left /\ r.ask = proc[p].ask /\ r.cwd \in Directories
  BY <1>1, BootFields DEF Good, Typed
<1> HIDE DEF r
<1>5. Good(r)
  <2>1. /\ r.in = "tty" /\ r.out = "tty" /\ Ports(r.ends)
        /\ r.left \in Nat /\ r.ask \in 0..2
    BY <1>1, <1>4 DEF Good, Typed, ChildPlaces
  <2>2. r.at \in Places \ (ChildPlaces \cup {"zombie"}) /\ ~Piping(r)
    BY <1>4 DEF Places, ChildPlaces, Piping
  <2> QED
    BY <1>4, <2>1, <2>2, SettledGood
<1>6. /\ proc[p].at \notin ChildPlaces \cup {"zombie"}
      /\ r.at \notin ChildPlaces \cup {"wait1"}
  BY <1>1, <1>4 DEF ChildPlaces
<1>7. Fine(Q)
  BY <1>1, <1>4, <1>5, <1>6, MovedFine
<1>8. Table(Q)
  BY <1>1, <1>4, KeptTable
<1>9. p \in DOMAIN Q /\ Q[p].at \notin ChildPlaces \cup {"zombie"}
  BY <1>1, <1>4, <1>6
<1> HIDE DEF Q
<1>10. Fine(Returned(Q, p))
  BY <1>7, <1>8, <1>9, ReturnedFine
<1> QED
  BY <1>2, <1>3, <1>10

\* The only or the first command is forked by a runner that has r besides.
LEMMA StartedFine ==
  ASSUME Table(proc), Fine(proc), NEW p, At(p, "command"),
         NEW r, DOMAIN r = Fields, r.parent = proc[p].parent,
         r.in = proc[p].in, r.out = proc[p].out, r.cwd = proc[p].cwd,
         r.left = proc[p].left, r.ask = proc[p].ask,
         Ports(r.ends),
         NEW role \in {"only", "first"},
         role = "only" => Len(r.cmds) = 1,
         role = "first" => /\ Len(r.cmds) # 1 /\ r.pipe \in Pipes /\ Unused(proc, r.pipe)
                           /\ <<"read", r.pipe>> \in r.ends
  PROVE  Fine(Fork([proc EXCEPT ![p] = [r EXCEPT !.at = "wait1"]], p,
                   [r EXCEPT !.at = "child", !.role = role]))
<1> DEFINE waiter == [r EXCEPT !.at = "wait1"]
           child == [r EXCEPT !.at = "child", !.role = role]
           Q == [proc EXCEPT ![p] = waiter]
<1>1. /\ p \in DOMAIN proc /\ proc[p].at = "command" /\ Good(proc[p])
      /\ Few(Children(proc, p), 0)
  BY PlaceIs, AtPlace DEF MayHave
<1>2. /\ r.in = "tty" /\ r.out = "tty" /\ r.cwd \in Directories
      /\ r.left \in Nat /\ r.ask \in 0..2
  BY <1>1 DEF Good, Typed, ChildPlaces
<1>3. /\ DOMAIN waiter = Fields /\ waiter.at = "wait1"
      /\ \A f \in Fields \ {"at"} : waiter[f] = r[f]
  BY BootFields
<1>4. /\ DOMAIN child = Fields /\ child.at = "child" /\ child.role = role
      /\ \A f \in Fields \ {"at", "role"} : child[f] = r[f]
  BY BootFields
<1> HIDE DEF waiter, child
<1>5. /\ waiter.parent = proc[p].parent /\ waiter.cmds = r.cmds /\ waiter.pipe = r.pipe
      /\ waiter.in = r.in /\ waiter.out = r.out /\ waiter.ends = r.ends
      /\ waiter.cwd = r.cwd /\ waiter.left = r.left /\ waiter.ask = r.ask
  BY <1>3, BootFields
<1>6. /\ child.pipe = r.pipe /\ child.in = r.in /\ child.out = r.out
      /\ child.ends = r.ends /\ child.cwd = r.cwd /\ child.left = r.left
      /\ child.ask = r.ask
  BY <1>4, BootFields
<1>7. Piping(waiter) <=> role = "first"
  BY <1>3, <1>5 DEF Piping
<1>8. Good(waiter)
  <2>1. waiter.at \in Places \ (ChildPlaces \cup {"zombie"})
    BY <1>3 DEF Places, ChildPlaces
  <2>2. Piping(waiter) => waiter.pipe \in Pipes /\ <<"read", waiter.pipe>> \in waiter.ends
    BY <1>5, <1>7
  <2> QED
    BY <1>2, <1>3, <1>5, <2>1, <2>2, SettledGood
<1>9. Good(child)
  <2>1. Typed(child)
    BY <1>2, <1>4, <1>6 DEF Typed, Places
  <2>2. child.in = "tty" /\ child.out = "tty"
    BY <1>2, <1>6
  <2> QED
    BY <1>4, <1>6, <2>1, <2>2, PipesApart DEF Good, Piping
<1>10. Table(Q)
  <2>1. Few(Children(proc, p), MayHave(waiter.at))
    BY <1>1, <1>3, FewMore DEF MayHave
  <2> QED
    BY <1>1, <1>3, <1>5, <2>1, ChangedTable
<1>11. Fine(Q)
  <2>1. Children(proc, p) = {}
    BY <1>1, FewNone
  <2>2. Piping(waiter) => Unused(proc, waiter.pipe)
    BY <1>5, <1>7
  <2> QED
    BY <1>1, <1>3, <1>5, <1>8, <2>1, <2>2, PipedFine
<1>12. p \in DOMAIN Q /\ Q[p] = waiter
  BY <1>1
<1> HIDE DEF Q
<1>13. \A q \in DOMAIN Q : Piping(Q[q]) => ~Reads(child, Q[q].pipe)
  <2>1. \A q \in DOMAIN Q : Piping(Q[q]) => Q[q].pipe \in Pipes
    BY <1>11 DEF Fine, Good
  <2> QED
    BY <1>2, <1>4, <1>6, <2>1, PipesApart DEF Reads
<1>14. Fine(Fork(Q, p, child))
  BY <1>4, <1>5, <1>6, <1>7, <1>9, <1>10, <1>11, <1>12, <1>13, ForkedFine
<1> QED
  BY <1>14 DEF Q, waiter, child

LEMMA StartFine ==
  ASSUME Table(proc), Fine(proc), PipeLeft, NEW p, At(p, "command"), NEW cmds
  PROVE  Fine(Start(p, cmds))
<1> DEFINE pipe  == NewPipe(proc)
           mine  == [proc[p] EXCEPT !.cmds = cmds]
           piped == [mine EXCEPT !.pipe = pipe,
                            !.ends = @ \cup {<<"read", pipe>>, <<"write", pipe>>}]
           Forking(r, role) == Fork([proc EXCEPT ![p] = [r EXCEPT !.at = "wait1"]], p,
                                    [r EXCEPT !.at = "child", !.role = role])
<1>1. Start(p, cmds) = IF Len(cmds) = 1 THEN Forking(mine, "only") ELSE Forking(piped, "first")
  BY DEF Start
<1>2. pipe \in Pipes /\ Unused(proc, pipe)
  BY DEF PipeLeft, NewPipe, Unused
<1>3. /\ DOMAIN proc[p] = Fields
      /\ Ports(proc[p].ends)
  BY PlaceIs DEF Good, Typed
<1> HIDE DEF pipe
<1>4. /\ DOMAIN mine = Fields /\ mine.parent = proc[p].parent
      /\ mine.in = proc[p].in /\ mine.out = proc[p].out /\ mine.cwd = proc[p].cwd
      /\ mine.left = proc[p].left /\ mine.ask = proc[p].ask
      /\ mine.ends = proc[p].ends /\ mine.cmds = cmds
  BY <1>3, BootFields
<1> HIDE DEF mine
<1>5. /\ DOMAIN piped = Fields /\ piped.parent = proc[p].parent
      /\ piped.in = proc[p].in /\ piped.out = proc[p].out /\ piped.cwd = proc[p].cwd
      /\ piped.left = proc[p].left /\ piped.ask = proc[p].ask
      /\ piped.ends = proc[p].ends \cup {<<"read", pipe>>, <<"write", pipe>>}
      /\ piped.cmds = cmds /\ piped.pipe = pipe
  BY <1>4, BootFields
<1> HIDE DEF piped
<1>6. CASE Len(cmds) = 1
  <2>1. Fine(Forking(mine, "only"))
    BY <1>3, <1>4, <1>6, StartedFine
  <2> QED
    BY <1>1, <1>6, <2>1
<1>7. CASE Len(cmds) # 1
  <2>1. Ports(piped.ends) /\ <<"read", piped.pipe>> \in piped.ends
    BY <1>2, <1>3, <1>5, PortsAre
  <2>2. Fine(Forking(piped, "first"))
    BY <1>2, <1>5, <1>7, <2>1, StartedFine
  <2> QED
    BY <1>1, <1>7, <2>2
<1> QED
  BY <1>6, <1>7

LEMMA executeCommandFine ==
  ASSUME Table(proc), Fine(proc), PipeLeft, NEW p, executeCommand(p)
  PROVE  Fine(proc')
<1>1. At(p, "command")
  BY DEF executeCommand
<1>2. \/ proc' = Ended(proc, {p})
      \/ proc' = Returned(proc, p)
      \/ proc' = Builtin(p, CommandsOf[proc[p].text][1])
      \/ proc' = Start(p, CommandsOf[proc[p].text])
  BY DEF executeCommand
<1>3. p \in DOMAIN proc /\ proc[p].at \notin ChildPlaces \cup {"zombie"}
  BY <1>1, PlaceIs DEF ChildPlaces
<1>4. Fine(Ended(proc, {p})) /\ Fine(Returned(proc, p))
  BY <1>3, EndedFine, ReturnedFine DEF Table
<1> QED
  BY <1>1, <1>2, <1>4, BuiltinFine, StartFine

\* The reading end is the second command's, once the runner is past the first.
LEMMA SecondFine ==
  ASSUME NEW P, Table(P), Fine(P), NEW p \in DOMAIN P, Piping(P[p]),
         Few(Children(P, p), 0)
  PROVE  Fine(Second(P, p, Closed(P[p])))
<1> DEFINE closed == Closed(P[p])
           r == [closed EXCEPT !.at = "wait2"]
           child == [closed EXCEPT !.at = "child", !.role = "second"]
           Q == [P EXCEPT ![p] = r]
<1>1. /\ P[p].at = "wait1" /\ Good(P[p]) /\ DOMAIN P[p] = Fields
      /\ P[p].in = "tty" /\ P[p].out = "tty"
      /\ P[p].pipe \in Pipes /\ <<"read", P[p].pipe>> \in P[p].ends
  BY DEF Fine, Good, Typed, Piping, ChildPlaces
<1>2. /\ DOMAIN closed = Fields /\ closed.ends = P[p].ends \ {<<"write", P[p].pipe>>}
      /\ \A f \in Fields \ {"ends"} : closed[f] = P[p][f]
  BY <1>1, BootFields DEF Closed
<1>3. Second(P, p, closed) = Fork(Q, p, child)
  BY DEF Second
<1> HIDE DEF closed
<1>4. /\ closed.parent = P[p].parent /\ closed.pipe = P[p].pipe
      /\ closed.in = "tty" /\ closed.out = "tty"
      /\ closed.cwd \in Directories /\ closed.left \in Nat /\ closed.ask \in 0..2
      /\ Ports(closed.ends)
      /\ <<"read", P[p].pipe>> \in closed.ends
  BY <1>1, <1>2, BootFields, PortsAre DEF Good, Typed
<1>5. /\ DOMAIN r = Fields /\ r.at = "wait2"
      /\ r.parent = closed.parent /\ r.in = closed.in /\ r.out = closed.out
      /\ r.ends = closed.ends /\ r.cwd = closed.cwd /\ r.left = closed.left
      /\ r.ask = closed.ask
  BY <1>2, BootFields
<1>6. /\ DOMAIN child = Fields /\ child.at = "child" /\ child.role = "second"
      /\ child.pipe = closed.pipe /\ child.in = closed.in /\ child.out = closed.out
      /\ child.ends = closed.ends /\ child.cwd = closed.cwd /\ child.left = closed.left
      /\ child.ask = closed.ask
  BY <1>2, BootFields
<1> HIDE DEF r, child
<1>7. Good(r)
  <2>1. r.at \in Places \ (ChildPlaces \cup {"zombie"}) /\ ~Piping(r)
    BY <1>5 DEF Places, ChildPlaces, Piping
  <2> QED
    BY <1>4, <1>5, <2>1, SettledGood
<1>8. Good(child)
  <2>1. Typed(child)
    BY <1>4, <1>6 DEF Typed, Places
  <2> QED
    BY <1>1, <1>4, <1>6, <2>1, PipesApart DEF Good, Piping
<1>9. Table(Q)
  <2>1. MayHave(r.at) = MayHave(P[p].at)
    BY <1>1, <1>5 DEF MayHave
  <2> QED
    BY <1>4, <1>5, <2>1, KeptTable
<1>10. Fine(Q)
  <2>1. /\ P[p].at \notin ChildPlaces \cup {"zombie"}
        /\ r.at \notin ChildPlaces \cup {"wait1"}
    BY <1>1, <1>5 DEF ChildPlaces
  <2> QED
    BY <1>4, <1>5, <1>7, <2>1, MovedFine
<1>11. p \in DOMAIN Q /\ Q[p] = r
  OBVIOUS
<1>12. \A q \in DOMAIN Q : Piping(Q[q]) => ~Reads(child, Q[q].pipe)
  <2> SUFFICES ASSUME NEW q \in DOMAIN Q, Piping(Q[q])
               PROVE  ~Reads(child, Q[q].pipe)
    OBVIOUS
  <2>1. q # p
    BY <1>5 DEF Piping
  <2>2. Q[q] = P[q] /\ P[q].pipe \in Pipes
    BY <2>1 DEF Fine, Good
  <2>3. P[q].pipe # P[p].pipe
    BY <2>1, <2>2 DEF Fine, Apart
  <2> QED
    BY <1>4, <1>6, <2>2, <2>3, PipesApart DEF Reads
<1> HIDE DEF Q
<1>13. Fine(Fork(Q, p, child))
  BY <1>5, <1>6, <1>8, <1>9, <1>10, <1>11, <1>12, ForkedFine
<1> QED
  BY <1>3, <1>13 DEF closed

LEMMA AfterFirstFine ==
  ASSUME Table(proc), Fine(proc), NEW p, AfterFirst(p)
  PROVE  Fine(proc')
<1>1. PICK P \in Waited(proc, p) :
        proc' = IF NoSecond(P[p]) THEN Returned([P EXCEPT ![p] = Closed(@)], p)
                ELSE Second(P, p, Closed(P[p]))
  BY DEF AfterFirst
<1>2. p \in DOMAIN proc /\ proc[p].at = "wait1" /\ MayHave(proc[p].at) = 0 + 1
  BY AtPlace DEF AfterFirst, MayHave
<1>3. /\ Table(P) /\ p \in DOMAIN P /\ P[p] = proc[p]
      /\ Few(Children(P, p), 0)
  BY <1>2, WaitedTable
<1>4. Fine(P)
  BY WaitedFine
<1>5. CASE NoSecond(P[p])
  <2> DEFINE r == Closed(P[p])
             Q == [P EXCEPT ![p] = r]
  <2>1. Good(P[p]) /\ DOMAIN P[p] = Fields /\ P[p].at = "wait1"
    BY <1>2, <1>3, <1>4 DEF Fine, Good, Typed
  <2>2. /\ DOMAIN r = Fields /\ r.parent = P[p].parent /\ r.at = P[p].at
        /\ r.cmds = P[p].cmds /\ r.pipe = P[p].pipe /\ r.in = P[p].in /\ r.out = P[p].out
        /\ r.cwd = P[p].cwd /\ r.left = P[p].left /\ r.ask = P[p].ask
        /\ r.ends = P[p].ends \ {<<"write", P[p].pipe>>}
    BY <2>1, BootFields DEF Closed
  <2> HIDE DEF r
  <2>3. Good(r)
    <3>1. r.at \in Places \ (ChildPlaces \cup {"zombie"})
      BY <2>1, <2>2 DEF Places, ChildPlaces
    <3>2. Piping(r) => r.pipe \in Pipes /\ <<"read", r.pipe>> \in r.ends
      BY <2>1, <2>2 DEF Piping, Good
    <3>3. /\ r.in = "tty" /\ r.out = "tty" /\ r.cwd \in Directories
          /\ r.left \in Nat /\ r.ask \in 0..2
          /\ Ports(r.ends)
      BY <2>1, <2>2, PortsAre DEF Good, Typed, ChildPlaces
    <3> QED
      BY <2>2, <3>1, <3>2, <3>3, SettledGood
  <2>4. Fine(Q)
    <3>1. \A pipe \in Pipes : ~Reads(r, pipe)
      BY <2>1, <2>2, <2>3, PipesApart DEF Good, Reads, ChildPlaces
    <3>2. P[p].at \notin ChildPlaces \cup {"zombie"}
      BY <2>1 DEF ChildPlaces
    <3> QED
      BY <1>3, <1>4, <2>2, <2>3, <3>1, <3>2, ChangedFine
  <2>5. Table(Q)
    BY <1>3, <2>2, KeptTable
  <2>6. p \in DOMAIN Q /\ Q[p].at \notin ChildPlaces \cup {"zombie"}
    BY <1>3, <2>1, <2>2 DEF ChildPlaces
  <2>7. proc' = Returned(Q, p)
    BY <1>1, <1>5 DEF r
  <2> HIDE DEF Q
  <2> QED
    BY <2>4, <2>5, <2>6, <2>7, ReturnedFine
<1>6. CASE ~NoSecond(P[p])
  <2>1. Piping(P[p])
    BY <1>2, <1>3, <1>6 DEF Piping, NoSecond
  <2> QED
    BY <1>1, <1>3, <1>4, <1>6, <2>1, SecondFine
<1> QED
  BY <1>5, <1>6

LEMMA AfterSecondFine ==
  ASSUME Table(proc), Fine(proc), NEW p, AfterSecond(p)
  PROVE  Fine(proc')
<1>1. PICK P \in Waited(proc, p) :
        proc' = Returned([P EXCEPT ![p].ends = @ \ {<<"read", P[p].pipe>>}], p)
  BY DEF AfterSecond
<1>2. p \in DOMAIN proc /\ proc[p].at = "wait2" /\ MayHave(proc[p].at) = 0 + 1
  BY AtPlace DEF AfterSecond, MayHave
<1>3. Table(P) /\ p \in DOMAIN P /\ P[p] = proc[p]
  BY <1>2, WaitedTable
<1>4. Fine(P)
  BY WaitedFine
<1> DEFINE r == [P[p] EXCEPT !.ends = @ \ {<<"read", P[p].pipe>>}]
           Q == [P EXCEPT ![p] = r]
<1>5. proc' = Returned(Q, p)
  BY <1>1
<1>6. Good(P[p]) /\ DOMAIN P[p] = Fields /\ P[p].at = "wait2"
  BY <1>2, <1>3, <1>4 DEF Fine, Good, Typed
<1>7. /\ DOMAIN r = Fields /\ r.parent = P[p].parent /\ r.at = P[p].at
      /\ r.in = P[p].in /\ r.out = P[p].out
      /\ r.cwd = P[p].cwd /\ r.left = P[p].left /\ r.ask = P[p].ask
      /\ r.ends \subseteq P[p].ends
  BY <1>6, BootFields
<1> HIDE DEF r
<1>8. Good(r)
  <2>1. r.at \in Places \ (ChildPlaces \cup {"zombie"}) /\ ~Piping(r)
    BY <1>6, <1>7 DEF Places, ChildPlaces, Piping
  <2>2. /\ r.in = "tty" /\ r.out = "tty" /\ r.cwd \in Directories
        /\ r.left \in Nat /\ r.ask \in 0..2
        /\ Ports(r.ends)
    BY <1>6, <1>7, PortsAre DEF Good, Typed, ChildPlaces
  <2> QED
    BY <1>7, <2>1, <2>2, SettledGood
<1>9. Fine(Q) /\ p \in DOMAIN Q /\ Q[p].at \notin ChildPlaces \cup {"zombie"}
  <2>1. /\ P[p].at \notin ChildPlaces \cup {"zombie"}
        /\ r.at \notin ChildPlaces \cup {"wait1"}
    BY <1>6, <1>7 DEF ChildPlaces
  <2> QED
    BY <1>3, <1>4, <1>7, <1>8, <2>1, MovedFine
<1>10. Table(Q)
  BY <1>3, <1>7, KeptTable
<1> HIDE DEF Q
<1> QED
  BY <1>5, <1>9, <1>10, ReturnedFine

-----------------------------------------------------------------------------
(* The steps of a child and of its program, and signals                    *)

\* What the redirections to files leave of the descriptors.
LEMMA ReadyIs ==
  ASSUME NEW r, DOMAIN r = Fields, NEW command,
         NEW s \in {Listing(Opened(r, command), command),
                    Sorting(Listing(Opened(r, command), command), command)}
  PROVE  /\ DOMAIN s = Fields
         /\ s.in \in Readable \cup {r.in}
         /\ s.out \in Writable \cup {"files.txt", r.out}
         /\ \A f \in Fields \ {"in", "out"} : s[f] = r[f]
<1> DEFINE opened == Opened(r, command)
           listing == Listing(opened, command)
<1>1. /\ DOMAIN opened = Fields
      /\ opened.in \in Readable \cup {r.in} /\ opened.out \in Writable \cup {r.out}
      /\ \A f \in Fields \ {"in", "out"} : opened[f] = r[f]
  BY BootFields DEF Opened
<1> HIDE DEF opened
<1>2. /\ DOMAIN listing = Fields
      /\ listing.in = opened.in /\ listing.out \in {"files.txt", opened.out}
      /\ \A f \in Fields \ {"in", "out"} : listing[f] = opened[f]
  BY <1>1, BootFields DEF Listing
<1> HIDE DEF listing
<1>3. s \in {listing, Sorting(listing, command)}
  BY DEF listing, opened
<1>4. /\ DOMAIN s = Fields
      /\ s.in \in Readable \cup {listing.in} /\ s.out = listing.out
      /\ \A f \in Fields \ {"in", "out"} : s[f] = listing[f]
  BY <1>2, <1>3, BootFields DEF Sorting
<1> QED
  BY <1>1, <1>2, <1>4

\* A child takes the end of the pipe that its role gives it, and no other.
LEMMA ReadyGood ==
  ASSUME NEW r, Good(r), r.at = "child", r.ask = 0,
         NEW s, DOMAIN s = Fields, s.at \in {"argument", "exec"},
         \/ s.in \in Readable \cup {r.in}
         \/ r.role = "second" /\ s.in = r.pipe,
         \/ s.out \in Writable \cup {"files.txt", r.out}
         \/ r.role = "first" /\ s.out = r.pipe,
         s.ends \subseteq r.ends,
         s.role = r.role, s.pipe = r.pipe, s.cwd = r.cwd, s.left = r.left, s.ask = r.ask
  PROVE  /\ Good(s)
         /\ \A pipe \in Pipes : Reads(s, pipe) => Reads(r, pipe)
<1>1. Typed(s)
  BY PortsAre DEF Good, Typed, Places
<1>2. /\ s.in \in Pipes => s.role = "second" /\ s.in = s.pipe
      /\ s.out \in Pipes => s.role = "first" /\ s.out = s.pipe
  BY PipesApart DEF Good
<1>3. Good(s)
  BY <1>1, <1>2 DEF Good, Piping, ChildPlaces
<1>4. \A pipe \in Pipes : Reads(s, pipe) => Reads(r, pipe)
  BY <1>2 DEF Reads
<1> QED
  BY <1>3, <1>4

LEMMA ChildFine ==
  ASSUME Table(proc), Fine(proc), NEW p, Child(p)
  PROVE  Fine(proc')
<1> DEFINE r == proc[p]
<1>1. /\ p \in DOMAIN proc /\ r.at = "child" /\ DOMAIN r = Fields
      /\ Good(r) /\ r.ask = 0
  BY PlaceIs DEF Child
<1>2. proc' = [proc EXCEPT ![p] = IF r.role = "only" THEN OnlyChild(r)
                                  ELSE IF r.role = "first" THEN FirstChild(r)
                                  ELSE SecondChild(r)]
  BY DEF Child
<1>3. r.role \in {"only", "first", "second"}
  BY <1>1 DEF Good
<1>4. ASSUME NEW s, DOMAIN s = Fields, s.at \in {"argument", "exec"},
             \/ s.in \in Readable \cup {r.in}
             \/ r.role = "second" /\ s.in = r.pipe,
             \/ s.out \in Writable \cup {"files.txt", r.out}
             \/ r.role = "first" /\ s.out = r.pipe,
             s.ends \subseteq r.ends,
             \A f \in Fields \ {"at", "in", "out", "ends"} : s[f] = r[f]
      PROVE  Fine([proc EXCEPT ![p] = s])
  <2>1. /\ s.parent = r.parent /\ s.role = r.role /\ s.pipe = r.pipe
        /\ s.cwd = r.cwd /\ s.left = r.left /\ s.ask = r.ask
    BY <1>4, BootFields
  <2>2. /\ Good(s)
        /\ \A pipe \in Pipes : Reads(s, pipe) => Reads(r, pipe)
    BY <1>1, <1>4, <2>1, ReadyGood
  <2> QED
    BY <1>1, <1>4, <2>1, <2>2, ChangedFine DEF ChildPlaces
<1>5. CASE r.role = "only"
  <2> DEFINE command == r.cmds[1]
             ready == Sorting(Listing(Opened(r, command), command), command)
             s == [ready EXCEPT !.at = IF TakesWord(command) THEN "argument" ELSE "exec"]
  <2>1. proc' = [proc EXCEPT ![p] = s]
    BY <1>2, <1>5 DEF OnlyChild
  <2>2. /\ DOMAIN ready = Fields
        /\ ready.in \in Readable \cup {r.in}
        /\ ready.out \in Writable \cup {"files.txt", r.out}
        /\ \A f \in Fields \ {"in", "out"} : ready[f] = r[f]
    BY <1>1, ReadyIs
  <2> HIDE DEF ready
  <2>3. /\ DOMAIN s = Fields /\ s.at \in {"argument", "exec"}
        /\ \A f \in Fields \ {"at"} : s[f] = ready[f]
    BY <2>2, BootFields
  <2> HIDE DEF s
  <2>4. s.in = ready.in /\ s.out = ready.out /\ s.ends = r.ends
    BY <2>2, <2>3, BootFields
  <2> QED
    BY <1>4, <2>1, <2>2, <2>3, <2>4
<1>6. CASE r.role = "first"
  <2> DEFINE command == r.cmds[1]
             before == [r EXCEPT !.out = IF command.out = NoFile THEN r.pipe ELSE @]
             ready == Sorting(Listing(Opened(before, command), command), command)
             s == [ready EXCEPT !.at = IF TakesWord(command) THEN "argument" ELSE "exec"]
  <2>1. proc' = [proc EXCEPT ![p] = s]
    BY <1>2, <1>6 DEF FirstChild
  <2>2. /\ DOMAIN before = Fields /\ before.out \in {r.out, r.pipe}
        /\ \A f \in Fields \ {"out"} : before[f] = r[f]
    BY <1>1, BootFields
  <2> HIDE DEF before
  <2>3. /\ DOMAIN ready = Fields
        /\ ready.in \in Readable \cup {before.in}
        /\ ready.out \in Writable \cup {"files.txt", before.out}
        /\ \A f \in Fields \ {"in", "out"} : ready[f] = before[f]
    BY <2>2, ReadyIs
  <2> HIDE DEF ready
  <2>4. /\ DOMAIN s = Fields /\ s.at \in {"argument", "exec"}
        /\ \A f \in Fields \ {"at"} : s[f] = ready[f]
    BY <2>3, BootFields
  <2> HIDE DEF s
  <2>5. s.in \in Readable \cup {r.in} /\ s.out = ready.out /\ s.ends = r.ends
    BY <2>2, <2>3, <2>4, BootFields
  <2> QED
    BY <1>4, <1>6, <2>1, <2>2, <2>3, <2>4, <2>5
<1>7. CASE r.role = "second"
  <2> DEFINE command == r.cmds[2]
             joined == [r EXCEPT !.in = r.pipe, !.ends = @ \ {<<"read", r.pipe>>}]
             before == IF command.in = NoFile THEN joined ELSE r
             ready == Listing(Opened(before, command), command)
             s == [ready EXCEPT !.at = IF command.name \in Customs \ {"listFiles"}
                                         THEN "argument" ELSE "exec"]
  <2>1. proc' = [proc EXCEPT ![p] = s]
    BY <1>2, <1>7 DEF SecondChild
  <2>2. /\ DOMAIN joined = Fields /\ joined.in = r.pipe /\ joined.ends \subseteq r.ends
        /\ \A f \in Fields \ {"in", "ends"} : joined[f] = r[f]
    BY <1>1, BootFields
  <2> HIDE DEF joined
  <2>3. /\ DOMAIN before = Fields /\ before.in \in {r.in, r.pipe}
        /\ before.ends \subseteq r.ends
        /\ \A f \in Fields \ {"in", "ends"} : before[f] = r[f]
    BY <1>1, <2>2
  <2> HIDE DEF before
  <2>4. /\ DOMAIN ready = Fields
        /\ ready.in \in Readable \cup {before.in}
        /\ ready.out \in Writable \cup {"files.txt", before.out}
        /\ \A f \in Fields \ {"in", "out"} : ready[f] = before[f]
    BY <2>3, ReadyIs
  <2> HIDE DEF ready
  <2>5. /\ DOMAIN s = Fields /\ s.at \in {"argument", "exec"}
        /\ \A f \in Fields \ {"at"} : s[f] = ready[f]
    BY <2>4, BootFields
  <2> HIDE DEF s
  <2>6. s.in = ready.in /\ s.out \in Writable \cup {"files.txt", r.out} /\ s.ends = before.ends
    BY <2>3, <2>4, <2>5, BootFields
  <2> QED
    BY <1>4, <1>7, <2>1, <2>3, <2>4, <2>5, <2>6
<1> QED
  BY <1>3, <1>5, <1>6, <1>7

LEMMA ReadArgumentFine ==
  ASSUME Table(proc), Fine(proc), NEW p, ReadArgument(p)
  PROVE  Fine(proc')
<1>1. /\ p \in DOMAIN proc /\ proc[p].at = "argument" /\ DOMAIN proc[p] = Fields
      /\ Good(proc[p]) /\ proc[p].ask = 0
  BY PlaceIs DEF ReadArgument
<1>2. PICK r \in Stray(proc[p]) : proc' = [proc EXCEPT ![p] = [r EXCEPT !.at = "exec"]]
  BY DEF ReadArgument
<1>3. /\ DOMAIN r = Fields
      /\ r.in \in {proc[p].in, "closed"} /\ r.out \in {proc[p].out, "closed"}
      /\ \A f \in Fields \ {"in", "out"} : r[f] = proc[p][f]
  BY <1>1, BootFields DEF Stray
<1> DEFINE s == [r EXCEPT !.at = "exec"]
<1>4. /\ DOMAIN s = Fields /\ s.at = "exec"
      /\ \A f \in Fields \ {"at"} : s[f] = r[f]
  BY <1>3, BootFields
<1> HIDE DEF s
<1>5. /\ s.in = r.in /\ s.out = r.out
      /\ s.parent = proc[p].parent /\ s.role = proc[p].role /\ s.pipe = proc[p].pipe
      /\ s.ends = proc[p].ends /\ s.cwd = proc[p].cwd
      /\ s.left = proc[p].left /\ s.ask = proc[p].ask
  BY <1>3, <1>4, BootFields
<1>6. Typed(s)
  BY <1>1, <1>3, <1>4, <1>5 DEF Good, Typed, Places
<1>7. Good(s)
  BY <1>1, <1>3, <1>4, <1>5, <1>6, PipesApart DEF Good, Piping, ChildPlaces
<1>8. \A pipe \in Pipes : Reads(s, pipe) => Reads(proc[p], pipe)
  BY <1>3, <1>4, <1>5, PipesApart DEF Reads
<1>9. Fine([proc EXCEPT ![p] = s])
  BY <1>1, <1>4, <1>5, <1>7, <1>8, ChangedFine DEF ChildPlaces
<1> QED
  BY <1>2, <1>9 DEF s

LEMMA ExecFine ==
  ASSUME Table(proc), Fine(proc), NEW p, Exec(p)
  PROVE  Fine(proc')
<1> DEFINE place == IF Found(proc[p]) THEN "program" ELSE "failed"
           much == IF Found(proc[p]) THEN Programs[Command(proc[p]).name].writes ELSE 1
           s == [proc[p] EXCEPT !.at = place, !.left = much]
<1>1. /\ p \in DOMAIN proc /\ proc[p].at = "exec" /\ DOMAIN proc[p] = Fields
      /\ Good(proc[p]) /\ proc[p].ask = 0
  BY PlaceIs DEF Exec
<1>2. proc' = [proc EXCEPT ![p] = s]
  BY <1>1 DEF Exec
<1>3. place \in {"program", "failed"} /\ much \in Nat
  BY ShellAssumption DEF Found
<1> HIDE DEF place, much
<1>4. /\ DOMAIN s = Fields /\ s.at = place /\ s.left = much
      /\ \A f \in Fields \ {"at", "left"} : s[f] = proc[p][f]
  BY <1>1, BootFields
<1> HIDE DEF s
<1>5. /\ s.in = proc[p].in /\ s.out = proc[p].out
      /\ s.parent = proc[p].parent /\ s.role = proc[p].role /\ s.pipe = proc[p].pipe
      /\ s.ends = proc[p].ends /\ s.cwd = proc[p].cwd /\ s.ask = proc[p].ask
  BY <1>4, BootFields
<1>6. Typed(s)
  BY <1>1, <1>3, <1>4, <1>5 DEF Good, Typed, Places
<1>7. Good(s)
  BY <1>1, <1>3, <1>4, <1>5, <1>6 DEF Good, Piping, ChildPlaces
<1>8. \A pipe \in Pipes : Reads(s, pipe) => Reads(proc[p], pipe)
  BY <1>3, <1>4, <1>5 DEF Reads
<1> QED
  BY <1>1, <1>2, <1>3, <1>4, <1>5, <1>7, <1>8, ChangedFine DEF ChildPlaces

\* A count goes down, and everything else is as it was.
LEMMA CountedFine ==
  ASSUME NEW P, Fine(P), NEW p \in DOMAIN P, NEW s, DOMAIN s = Fields,
         s.left \in Nat, s.ask \in 0..2, s.at = "program" => s.ask = 0,
         \A f \in Fields \ {"left", "ask"} : s[f] = P[p][f]
  PROVE  Fine([P EXCEPT ![p] = s])
<1>1. /\ s.in = P[p].in /\ s.out = P[p].out /\ s.at = P[p].at /\ s.cmds = P[p].cmds
      /\ s.parent = P[p].parent /\ s.role = P[p].role /\ s.pipe = P[p].pipe
      /\ s.ends = P[p].ends /\ s.cwd = P[p].cwd
  BY BootFields
<1>2. Good(P[p])
  BY DEF Fine
<1>3. Typed(s)
  BY <1>1, <1>2 DEF Good, Typed
<1>4. Good(s)
  BY <1>1, <1>2, <1>3 DEF Good, Piping
<1>5. \A pipe \in Pipes : Reads(s, pipe) => Reads(P[p], pipe)
  BY <1>1 DEF Reads
<1> QED
  BY <1>1, <1>4, <1>5, ChangedFine

LEMMA WriteFine ==
  ASSUME Table(proc), Fine(proc), NEW p, Write(p)
  PROVE  Fine(proc')
<1> DEFINE s == [proc[p] EXCEPT !.left = @ - 1]
<1>1. /\ p \in DOMAIN proc /\ DOMAIN proc[p] = Fields /\ Good(proc[p])
      /\ proc[p].ask = 0 /\ proc[p].left > 0
  BY PlaceIs DEF Write
<1>2. proc' = [proc EXCEPT ![p] = s]
  BY DEF Write
<1>3. /\ DOMAIN s = Fields /\ s.left = proc[p].left - 1 /\ s.ask = 0
      /\ \A f \in Fields \ {"left", "ask"} : s[f] = proc[p][f]
  BY <1>1, BootFields
<1> HIDE DEF s
<1>4. s.left \in Nat /\ s.ask \in 0..2
  BY <1>1, <1>3 DEF Good, Typed
<1> QED
  BY <1>1, <1>2, <1>3, <1>4, CountedFine

LEMMA HandlerFine ==
  ASSUME Table(proc), Fine(proc), NEW p, sigint_handler(p)
  PROVE  Fine(proc')
<1> DEFINE s == [proc[p] EXCEPT !.ask = @ - 1]
<1>1. /\ p \in DOMAIN proc /\ proc[p].ask > 0
      /\ Good(proc[p]) /\ DOMAIN proc[p] = Fields
  BY DEF sigint_handler, Fine, Good, Typed
<1>2. proc' = Ended(proc, {p}) \/ proc' = [proc EXCEPT ![p] = s]
  BY DEF sigint_handler
<1>3. /\ DOMAIN s = Fields /\ s.ask = proc[p].ask - 1 /\ s.left = proc[p].left
      /\ s.at = proc[p].at
      /\ \A f \in Fields \ {"left", "ask"} : s[f] = proc[p][f]
  BY <1>1, BootFields
<1> HIDE DEF s
<1>4. s.left \in Nat /\ s.ask \in 0..2 /\ s.at # "program"
  BY <1>1, <1>3 DEF Good, Typed
<1>5. Fine([proc EXCEPT ![p] = s])
  BY <1>1, <1>3, <1>4, CountedFine
<1>6. Fine(Ended(proc, {p}))
  BY <1>1, EndedFine DEF Table
<1> QED
  BY <1>2, <1>5, <1>6

\* Everybody who is left alive asks once more.
LEMMA InterruptFine ==
  ASSUME Table(proc), Fine(proc), Interrupt
  PROVE  Fine(proc')
<1> DEFINE D == {p \in DOMAIN proc : proc[p].at = "program"}
           P == Ended(proc, D)
           Q == [q \in DOMAIN P |->
                   IF q \in Alive(P) THEN [P[q] EXCEPT !.ask = Min({2, @ + 1})] ELSE P[q]]
<1>1. proc' = Q
  BY DEF Interrupt
<1>2. \A q \in DOMAIN P : P[q].at # "program"
  <2> SUFFICES ASSUME NEW q \in DOMAIN P
               PROVE  P[q].at # "program"
    OBVIOUS
  <2>1. /\ q \in DOMAIN proc
        /\ P[q] = IF q \in D THEN Zombie(proc[q].parent)
                  ELSE IF proc[q].parent \in D THEN [proc[q] EXCEPT !.parent = Nobody]
                  ELSE proc[q]
    BY DEF Ended
  <2>2. CASE q \in D
    BY <2>1, <2>2, ZombieGood
  <2>3. CASE q \notin D
    <3>1. proc[q].at # "program" /\ Good(proc[q])
      BY <2>1, <2>3 DEF Fine
    <3>2. [proc[q] EXCEPT !.parent = Nobody].at = proc[q].at
      BY <3>1, OrphanGood
    <3> QED
      BY <2>1, <2>3, <3>1, <3>2
  <2> QED
    BY <2>2, <2>3
<1>3. Fine(P)
  <2>1. D \in SUBSET DOMAIN proc
    OBVIOUS
  <2> HIDE DEF D
  <2> QED
    BY <2>1, EndedFine DEF Table
<1> HIDE DEF P
<1>4. \A n \in 0..2 : Min({2, n + 1}) \in 0..2
  BY DEF Min
<1>5. ASSUME NEW q \in DOMAIN P
      PROVE  /\ DOMAIN Q[q] = Fields /\ Q[q].ask \in 0..2
             /\ \A f \in Fields \ {"ask"} : Q[q][f] = P[q][f]
  <2>1. DOMAIN P[q] = Fields /\ P[q].ask \in 0..2
    BY <1>3 DEF Fine, Good, Typed
  <2>2. Q[q] = [P[q] EXCEPT !.ask = Min({2, P[q].ask + 1})] \/ Q[q] = P[q]
    OBVIOUS
  <2>3. Min({2, P[q].ask + 1}) \in 0..2
    BY <1>4, <2>1
  <2> HIDE DEF Q
  <2> QED
    BY <2>1, <2>2, <2>3, BootFields
<1>6. DOMAIN Q = DOMAIN P
  OBVIOUS
<1> HIDE DEF Q
<1>7. ASSUME NEW q \in DOMAIN P
      PROVE  /\ Good(Q[q])
             /\ Q[q].parent = P[q].parent /\ Q[q].at = P[q].at /\ Q[q].role = P[q].role
             /\ Q[q].pipe = P[q].pipe /\ Q[q].cmds = P[q].cmds /\ Q[q].in = P[q].in
  <2>1. /\ Q[q].in = P[q].in /\ Q[q].out = P[q].out /\ Q[q].at = P[q].at
        /\ Q[q].cmds = P[q].cmds /\ Q[q].parent = P[q].parent /\ Q[q].role = P[q].role
        /\ Q[q].pipe = P[q].pipe /\ Q[q].ends = P[q].ends /\ Q[q].cwd = P[q].cwd
        /\ Q[q].left = P[q].left
    BY <1>5, BootFields
  <2>2. Good(P[q]) /\ P[q].at # "program"
    BY <1>2, <1>3 DEF Fine
  <2>3. Typed(Q[q])
    BY <1>5, <2>1, <2>2 DEF Good, Typed
  <2>4. Good(Q[q])
    BY <2>1, <2>2, <2>3 DEF Good, Piping
  <2> QED
    BY <2>1, <2>4
<1>8. ASSUME NEW x \in DOMAIN P, NEW y \in DOMAIN P
      PROVE  Apart(Q, x, y) /\ Paired(Q, x, y)
  <2>1. Apart(P, x, y) /\ Paired(P, x, y)
    BY <1>3 DEF Fine
  <2>2. Apart(Q, x, y)
    BY <1>7, <2>1 DEF Apart, Piping, Reads
  <2>3. Paired(Q, x, y)
    BY <1>7, <2>1 DEF Paired, Piping
  <2> QED
    BY <2>2, <2>3
<1>9. Fine(Q)
  BY <1>3, <1>6, <1>7, <1>8 DEF Fine
<1> QED
  BY <1>1, <1>9

-----------------------------------------------------------------------------

LEMMA InitFine == Init => Fine(proc)
<1> SUFFICES ASSUME Init
             PROVE  Fine(proc)
  OBVIOUS
<1>1. DOMAIN proc = {Shell} /\ proc[Shell] = Boot
  BY DEF Init
<1>2. /\ DOMAIN Boot = Fields /\ Boot.parent = Nobody /\ Boot.at = "prompt"
      /\ Boot.in = "tty" /\ Boot.out = "tty" /\ Boot.ends = {} /\ Boot.cwd = "home"
      /\ Boot.left = 0 /\ Boot.ask = 0
  BY DEF Fields, Boot
<1>3. Good(Boot)
  <2>1. Typed(Boot)
    BY <1>2, PortsAre, ShellAssumption DEF Typed, Places
  <2> QED
    BY <1>2, <2>1, PipesApart DEF Good, Piping, ChildPlaces
<1>4. IsFiniteSet(DOMAIN proc)
  <2>1. IsFiniteSet({Shell})
    BY FS_Singleton
  <2> QED
    BY <1>1, <2>1
<1> QED
  BY <1>1, <1>2, <1>3, <1>4, ShellAssumption DEF Fine, Apart, Paired, Piping

LEMMA NextFine == Table(proc) /\ Fine(proc) /\ PipeLeft /\ [Next]_vars => Fine(proc)'
<1> SUFFICES ASSUME Table(proc), Fine(proc), PipeLeft, [Next]_vars
             PROVE  Fine(proc')
  OBVIOUS
<1>1. CASE ReadLine
  BY <1>1, ReadLineFine
<1>2. CASE Main
  BY <1>2, commaCheckerFine, ForkSecondFine, WaitBothFine DEF Main
<1>3. CASE Interrupt
  BY <1>3, InterruptFine
<1>4. CASE sigterm_handler
  BY <1>4, EndedFine DEF sigterm_handler, Table
<1>5. ASSUME NEW p \in Pids, Step(p)
      PROVE  Fine(proc')
  <2>1. CASE executeCommand(p)
    BY <2>1, executeCommandFine
  <2>2. CASE AfterFirst(p) \/ AfterSecond(p)
    BY <2>2, AfterFirstFine, AfterSecondFine
  <2>3. CASE Child(p) \/ ReadArgument(p) \/ Exec(p)
    BY <2>3, ChildFine, ReadArgumentFine, ExecFine
  <2>4. CASE Write(p)
    BY <2>4, WriteFine
  <2>5. CASE Read(p)
    BY <2>5 DEF Read
  <2>6. CASE Leave(p)
    <3>1. p \in DOMAIN proc /\ proc' = Ended(proc, {p})
      BY <2>6 DEF Leave, At
    <3> QED
      BY <3>1, EndedFine DEF Table
  <2>7. CASE sigint_handler(p)
    BY <2>7, HandlerFine
  <2> QED
    BY <1>5, <2>1, <2>2, <2>3, <2>4, <2>5, <2>6, <2>7 DEF Step
<1>6. CASE UNCHANGED vars
  BY <1>6 DEF vars
<1> QED
  BY <1>1, <1>2, <1>3, <1>4, <1>5, <1>6 DEF Next

-----------------------------------------------------------------------------
(* Types                                                                   *)

TypeData ==
  /\ script \in Scripts /\ typed \in 0..Len(script)
  /\ content \in [Pipes -> 0..Capacity]
  /\ signals \in 0..Interrupts

Sound == Table(proc) /\ Fine(proc) /\ TypeData

\* A read leaves in its pipe no more than there was, and the others as they are.
LEMMA TakenLess ==
  ASSUME content \in [Pipes -> 0..Capacity], NEW pipe \in Pipes, Taken(pipe)
  PROVE  /\ content' \in [Pipes -> 0..Capacity]
         /\ \A other \in Pipes : other # pipe => content'[other] = content[other]
<1>1. PICK n \in 1..content[pipe] : content' = [content EXCEPT ![pipe] = @ - n]
  BY DEF Taken
<1>2. content[pipe] \in 0..Capacity /\ content[pipe] - n \in 0..Capacity
  BY <1>1, ShellAssumption
<1> QED
  BY <1>1, <1>2

\* A pipe never holds less than nothing or more than it can.
LEMMA ContentCounts ==
  ASSUME Sound, [Next]_vars
  PROVE  content' \in [Pipes -> 0..Capacity]
<1> USE ShellAssumption
<1>1. content \in [Pipes -> 0..Capacity]
  BY DEF Sound, TypeData
<1>2. ASSUME NEW p \in Pids, executeCommand(p)
      PROVE  content' \in [Pipes -> 0..Capacity]
  <2>1. content' = content \/ content' = [content EXCEPT ![NewPipe(proc)] = 0]
    BY <1>2 DEF executeCommand
  <2> QED
    BY <1>1, <2>1
<1>3. ASSUME NEW p \in Pids, ReadArgument(p) \/ sigint_handler(p)
      PROVE  content' \in [Pipes -> 0..Capacity]
  <2>1. content' = content \/ (proc[p].in \in Pipes /\ Taken(proc[p].in))
    BY <1>3 DEF ReadArgument, sigint_handler
  <2> QED
    BY <1>1, <2>1, TakenLess
<1>4. ASSUME NEW p \in Pids, Write(p)
      PROVE  content' \in [Pipes -> 0..Capacity]
  <2> DEFINE pipe == proc[p].out
  <2>1. \/ content' = content
        \/ /\ pipe \in Pipes /\ content[pipe] < Capacity
           /\ content' = [content EXCEPT ![pipe] = @ + 1]
    BY <1>4 DEF Write
  <2> HIDE DEF pipe
  <2> QED
    BY <1>1, <2>1
<1>5. ASSUME NEW p \in Pids, Read(p)
      PROVE  content' \in [Pipes -> 0..Capacity]
  <2> DEFINE pipe == proc[p].in
  <2>1. pipe \in Pipes /\ content[pipe] > 0 /\ content' = [content EXCEPT ![pipe] = @ - 1]
    BY <1>5 DEF Read, ReadsPipe
  <2> HIDE DEF pipe
  <2> QED
    BY <1>1, <2>1
<1>6. \/ content' = content
      \/ \E p \in Pids : \/ executeCommand(p) \/ ReadArgument(p) \/ Write(p)
                          \/ Read(p) \/ sigint_handler(p)
  BY DEF Next, vars, ReadLine, Main, commaChecker, ForkSecond, WaitBoth, Interrupt,
         sigterm_handler, Step, AfterFirst, AfterSecond, Child, Exec, Leave
<1> QED
  BY <1>1, <1>2, <1>3, <1>4, <1>5, <1>6

\* Only a line that is there is read, and only a ^C that is to come arrives.
LEMMA InputCounts ==
  ASSUME Sound, [Next]_vars
  PROVE  /\ script' \in Scripts /\ typed' \in 0..Len(script')
         /\ signals' \in 0..Interrupts
<1>1. script \in Scripts /\ typed \in 0..Len(script) /\ signals \in 0..Interrupts
  BY DEF Sound, TypeData
<1>2. Len(script) \in Nat
  BY <1>1, ShellAssumption
<1>3. /\ script' = script
      /\ typed' = typed \/ (typed < Len(script) /\ typed' = typed + 1)
      /\ signals' = signals \/ (signals > 0 /\ signals' = signals - 1)
  <2>1. CASE ReadLine
    BY <2>1 DEF ReadLine
  <2>2. CASE Interrupt
    BY <2>2 DEF Interrupt
  <2>3. CASE Main \/ sigterm_handler \/ UNCHANGED vars
    BY <2>3 DEF Main, commaChecker, ForkSecond, WaitBoth, sigterm_handler, vars
  <2>4. ASSUME NEW p \in Pids, Step(p)
        PROVE  UNCHANGED <<script, typed, signals>>
    BY <2>4 DEF Step, executeCommand, AfterFirst, AfterSecond, Child, ReadArgument,
                Exec, Write, Read, Leave, sigint_handler
  <2> QED
    BY <2>1, <2>2, <2>3, <2>4 DEF Next
<1> QED
  BY <1>1, <1>2, <1>3, ShellAssumption

LEMMA InitSound == Init => Sound
<1> SUFFICES ASSUME Init
             PROVE  TypeData
  BY InitTable, InitFine DEF Sound
<1>1. Len(script) \in Nat
  BY ShellAssumption DEF Init
<1> QED
  BY <1>1, ShellAssumption DEF Init, TypeData

LEMMA NextSound == Sound /\ PipeLeft /\ [Next]_vars => Sound'
<1> SUFFICES ASSUME Sound, PipeLeft, [Next]_vars
             PROVE  Sound'
  OBVIOUS
<1>1. Table(proc') /\ Fine(proc')
  BY NextTable, NextFine DEF Sound
<1>2. TypeData'
  BY ContentCounts, InputCounts DEF TypeData
<1> QED
  BY <1>1, <1>2 DEF Sound

\* Finitely many processes have finitely many ends, of finitely many pipes.
LEMMA PipesUsed ==
  ASSUME Fine(proc), ~IsFiniteSet(Pipes)
  PROVE  PipeLeft
<1> SUFFICES ASSUME ~PipeLeft
             PROVE  FALSE
  OBVIOUS
<1> DEFINE EndsOf == [p \in DOMAIN proc |-> Ends(proc[p])]
           Sets == {EndsOf[p] : p \in DOMAIN proc}
           All == UNION Sets
           PipeOf == [end \in All |-> end[2]]
           Used == {PipeOf[end] : end \in All}
<1>1. IsFiniteSet(Sets)
  <2>1. EndsOf \in Surjection(DOMAIN proc, Sets)
    BY DEF Surjection
  <2>2. IsFiniteSet(DOMAIN proc)
    BY DEF Fine
  <2> HIDE DEF EndsOf, Sets
  <2> QED
    BY <2>1, <2>2, FS_Surjection
<1>2. \A S \in Sets : IsFiniteSet(S)
  <2> SUFFICES ASSUME NEW p \in DOMAIN proc
               PROVE  IsFiniteSet(Ends(proc[p]))
    OBVIOUS
  <2> DEFINE r == proc[p]
  <2>1. IsFiniteSet(r.ends)
    BY DEF Fine, Good, Typed, Ports
  <2> HIDE DEF r
  <2>2. IsFiniteSet(r.ends \cup {<<"read", r.in>>})
    BY <2>1, FS_AddElement
  <2>3. IsFiniteSet((r.ends \cup {<<"read", r.in>>}) \cup {<<"write", r.out>>})
    BY <2>2, FS_AddElement
  <2>4. Ends(r) = (r.ends \cup {<<"read", r.in>>}) \cup {<<"write", r.out>>}
    BY DEF Ends
  <2> QED
    BY <2>3, <2>4 DEF r
<1>3. IsFiniteSet(All)
  <2> HIDE DEF Sets
  <2> QED
    BY <1>1, <1>2, FS_UNION
<1>4. IsFiniteSet(Used)
  <2> HIDE DEF All
  <2>1. PipeOf \in Surjection(All, Used)
    BY DEF Surjection
  <2> HIDE DEF PipeOf, Used
  <2> QED
    BY <1>3, <2>1, FS_Surjection
<1>5. Pipes \in SUBSET Used
  <2> SUFFICES ASSUME NEW pipe \in Pipes
               PROVE  pipe \in Used
    OBVIOUS
  <2>1. PICK way \in {"read", "write"} : HasEnd(proc, pipe, way)
    BY DEF PipeLeft, Unused
  <2>2. <<way, pipe>> \in All
    BY <2>1 DEF HasEnd
  <2> HIDE DEF All
  <2> QED
    BY <2>2
<1> QED
  BY <1>4, <1>5, FS_Subset

\* However often a pipe has been left behind, there is one, if their number is
\* not bounded: the hypothesis of the theorems below is about that bound only.
THEOREM PipesSuffice == ~IsFiniteSet(Pipes) => (Spec => []PipeLeft)
<1> SUFFICES ASSUME ~IsFiniteSet(Pipes)
             PROVE  Spec => []PipeLeft
  OBVIOUS
<1>1. Sound => PipeLeft
  BY PipesUsed DEF Sound
<1>2. Sound /\ [Next]_vars => Sound'
  BY <1>1, NextSound
<1> QED
  BY <1>1, <1>2, InitSound, PTL DEF Spec

\* With a pipe left whenever one is asked for: the parent of a process is
\* another one or init, its descriptors are files, pipes or the terminal, it
\* has one question open and one pending at most, and a pipe never holds more
\* than it can.
THEOREM TypeCorrect == Spec /\ []PipeLeft => []TypeOK
<1>1. Sound => TypeOK
  BY DEF Sound, TypeData, Table, Family, Fine, Good, Typed, Ports, TypeOK
<1> QED
  BY <1>1, InitSound, NextSound, PTL DEF Spec

-----------------------------------------------------------------------------
(* A first command that waits for room in the pipe                         *)

\* p waits for q, which has something to write to the pipe.
Blocked(P, p, q, pipe) ==
  /\ p \in DOMAIN P /\ p \in Pids /\ P[p].at = "wait1"
  /\ q \in DOMAIN P /\ P[q].parent = p
  /\ P[q].at = "program" /\ P[q].left > 0 /\ P[q].out = pipe

\* That is so, unless p is no more.
Stays(P, p, q, pipe) == Blocked(P, p, q, pipe) \/ p \notin Alive(P)

\* Nobody else who ends, forks, waits or goes on puts an end to it.
LEMMA BlockedEnded ==
  ASSUME NEW P, NEW D \in SUBSET DOMAIN P, NEW p, NEW q, q \notin D, NEW pipe,
         Blocked(P, p, q, pipe), DOMAIN P[p] = Fields
  PROVE  Stays(Ended(P, D), p, q, pipe)
<1> DEFINE adopted == D \cup {Nobody}
           reaped == {x \in DOMAIN P : P[x].parent \in adopted /\ x \notin Alive(P) \ D}
           Q == Ended(P, D)
<1>1. /\ DOMAIN Q = DOMAIN P \ reaped
      /\ \A x \in DOMAIN Q :
           Q[x] = IF x \in D THEN Zombie(P[x].parent)
                  ELSE IF P[x].parent \in D THEN [P[x] EXCEPT !.parent = Nobody]
                  ELSE P[x]
  BY DEF Ended
<1> HIDE DEF Q
<1>2. CASE p \in D
  <2>1. p \in DOMAIN Q => Q[p].at = "zombie"
    BY <1>1, <1>2, ZombieGood
  <2> QED
    BY <2>1 DEF Alive, Stays, Q
<1>3. CASE p \notin D
  <2>1. p \in Alive(P) /\ q \in Alive(P) /\ p # Nobody
    BY ShellAssumption DEF Blocked, Alive
  <2>2. p \in DOMAIN Q /\ q \in DOMAIN Q
    BY <1>1, <1>3, <2>1 DEF Blocked
  <2>3. Q[q] = P[q]
    BY <1>1, <1>3, <2>2 DEF Blocked
  <2>4. Q[p].at = P[p].at
    BY <1>1, <1>3, <2>2, BootFields
  <2> QED
    BY <2>2, <2>3, <2>4 DEF Blocked, Stays, Q
<1> QED
  BY <1>2, <1>3 DEF Q

LEMMA BlockedForked ==
  ASSUME NEW P, NEW p, NEW q, NEW pipe, Blocked(P, p, q, pipe), DOMAIN P[p] = Fields,
         NEW z \in DOMAIN P, z \notin {p, q}, NEW child
  PROVE  Stays(Fork(P, z, child), p, q, pipe)
<1> DEFINE free == Pids \ (DOMAIN P \cup {Shell})
<1>1. CASE free = {}
  BY <1>1, BlockedEnded DEF Fork
<1>2. CASE free # {}
  BY <1>2 DEF Fork, Blocked, Stays
<1> QED
  BY <1>1, <1>2

LEMMA BlockedWaited ==
  ASSUME NEW P, NEW p, NEW q, NEW pipe, Blocked(P, p, q, pipe), NEW z,
         NEW Q \in Waited(P, z)
  PROVE  Blocked(Q, p, q, pipe) /\ Q[p] = P[p]
BY DEF Blocked, Waited, Restrict, Alive

LEMMA BlockedReturned ==
  ASSUME NEW P, NEW p, NEW q, NEW pipe, Blocked(P, p, q, pipe), DOMAIN P[p] = Fields,
         NEW z \in DOMAIN P, z \notin {p, q}
  PROVE  Stays(Returned(P, z), p, q, pipe)
<1>1. CASE z # Shell
  BY <1>1, BlockedEnded DEF Returned
<1>2. CASE z = Shell
  <2>1. /\ DOMAIN Returned(P, z) = DOMAIN P
        /\ \A y \in DOMAIN P : y # z => Returned(P, z)[y] = P[y]
    BY <1>2 DEF Returned
  <2> QED
    BY <2>1 DEF Blocked, Stays
<1> QED
  BY <1>1, <1>2

\* One of the others changes, and then forks or goes on.
LEMMA BlockedMoved ==
  ASSUME NEW P, NEW p, NEW q, NEW pipe, Blocked(P, p, q, pipe), DOMAIN P[p] = Fields,
         NEW z \in DOMAIN P, z \notin {p, q}, NEW r
  PROVE  LET Q == [P EXCEPT ![z] = r]
         IN  /\ Blocked(Q, p, q, pipe)
             /\ Stays(Returned(Q, z), p, q, pipe)
             /\ \A child : Stays(Fork(Q, z, child), p, q, pipe)
<1> DEFINE Q == [P EXCEPT ![z] = r]
<1>1. Blocked(Q, p, q, pipe) /\ DOMAIN Q[p] = Fields /\ z \in DOMAIN Q
  BY DEF Blocked
<1> HIDE DEF Q
<1>2. Stays(Returned(Q, z), p, q, pipe)
  BY <1>1, BlockedReturned
<1>3. \A child : Stays(Fork(Q, z, child), p, q, pipe)
  BY <1>1, BlockedForked
<1> QED
  BY <1>1, <1>2, <1>3 DEF Q

\* What is known of a runner that hangs, its first command and their pipe.
Stuck(p, q, pipe) ==
  /\ Blocked(proc, p, q, pipe) /\ DOMAIN proc[p] = Fields
  /\ pipe \in Pipes /\ content[pipe] = Capacity
  /\ proc[q].ask = 0
  /\ q # Shell
  /\ HasEnd(proc, pipe, "read")
  /\ \A z \in DOMAIN proc : proc[z].in # pipe
  /\ Waited(proc, p) = {}

LEMMA HungStuck ==
  ASSUME Sound, NEW p \in Pids, Hung(p)
  PROVE  \E q : Stuck(p, q, proc[p].pipe)
<1>1. PICK q \in Children(proc, p) :
        /\ proc[q].at = "program" /\ proc[q].left > 0
        /\ proc[q].out \in Pipes /\ content[proc[q].out] = Capacity
  BY DEF Hung
<1>2. /\ p \in DOMAIN proc /\ proc[p].at = "wait1"
      /\ q \in DOMAIN proc /\ proc[q].parent = p
  BY <1>1 DEF Hung, Children
<1>3. Good(proc[p]) /\ Good(proc[q]) /\ Paired(proc, p, q) /\ Table(proc)
  BY <1>2 DEF Sound, Fine
<1>4. Piping(proc[p]) /\ proc[q].out = proc[p].pipe
  BY <1>1, <1>2, <1>3 DEF Good, Paired
<1>5. \A z \in DOMAIN proc : proc[z].in # proc[p].pipe
  BY <1>2, <1>4 DEF Sound, Fine, Apart, Reads
<1>6. HasEnd(proc, proc[p].pipe, "read")
  BY <1>2, <1>3, <1>4 DEF Good, HasEnd, Ends
<1>7. q # Shell
  BY <1>2, <1>3, ShellAssumption DEF Table
<1>8. Waited(proc, p) = {}
  <2>1. Few(Children(proc, p), 0 + 1)
    BY <1>2, <1>3 DEF Table, Family, MayHave
  <2>2. Few(Children(proc, p) \ {q}, 0)
    BY <1>1, <2>1, FewRemove
  <2>3. Children(proc, p) \ {q} = {}
    BY <2>2, FewNone
  <2>4. q \in Alive(proc)
    BY <1>1, <1>2 DEF Alive
  <2> QED
    BY <1>1, <2>3, <2>4 DEF Waited
<1>9. proc[q].ask = 0
  BY <1>1, <1>3 DEF Good
<1> QED
  BY <1>1, <1>2, <1>3, <1>4, <1>5, <1>6, <1>7, <1>8, <1>9
     DEF Stuck, Blocked, Good, Typed

\* The two of them take no step but to answer the handler.
LEMMA StuckActor ==
  ASSUME NEW p, NEW q, NEW pipe, Stuck(p, q, pipe), NEW z, NEW place, At(z, place),
         place \notin {"wait1", "program"}
  PROVE  z \in DOMAIN proc /\ z \notin {p, q}
BY DEF Stuck, Blocked, At

LEMMA MainStays ==
  ASSUME NEW p, NEW q, NEW pipe, Stuck(p, q, pipe), ReadLine \/ Main
  PROVE  Stays(proc', p, q, pipe)
<1>1. Blocked(proc, p, q, pipe) /\ DOMAIN proc[p] = Fields
  BY DEF Stuck
<1>2. CASE ReadLine
  <2>1. Shell \in DOMAIN proc /\ Shell \notin {p, q}
    BY <1>2, StuckActor DEF ReadLine
  <2>2. PICK r :
          \/ proc' = Ended(proc, {Shell})
          \/ proc' = proc
          \/ proc' = Returned([proc EXCEPT ![Shell] = r], Shell)
    BY <1>2 DEF ReadLine
  <2>3. Stays(Ended(proc, {Shell}), p, q, pipe)
    BY <1>1, <2>1, BlockedEnded
  <2>4. Stays(Returned([proc EXCEPT ![Shell] = r], Shell), p, q, pipe)
    BY <1>1, <2>1, BlockedMoved
  <2> QED
    BY <1>1, <2>2, <2>3, <2>4 DEF Stays
<1>3. CASE commaChecker
  <2>1. Shell \in DOMAIN proc /\ Shell \notin {p, q}
    BY <1>3, StuckActor DEF commaChecker
  <2>2. PICK r, child : proc' = [proc EXCEPT ![Shell] = r]
                        \/ proc' = Fork([proc EXCEPT ![Shell] = r], Shell, child)
    <3> DEFINE piece == [proc[Shell] EXCEPT !.at = "command",
                                            !.text = PiecesOf[proc[Shell].text][1]]
               forks == [proc[Shell] EXCEPT !.at = "fork"]
    <3>1. \/ proc' = [proc EXCEPT ![Shell] = piece]
          \/ proc' = Fork([proc EXCEPT ![Shell] = forks], Shell, piece)
      BY <1>3 DEF commaChecker
    <3> HIDE DEF piece, forks
    <3> QED
      BY <3>1
  <2>3. /\ Blocked([proc EXCEPT ![Shell] = r], p, q, pipe)
        /\ Stays(Fork([proc EXCEPT ![Shell] = r], Shell, child), p, q, pipe)
    BY <1>1, <2>1, BlockedMoved
  <2> QED
    BY <2>2, <2>3 DEF Stays
<1>4. CASE ForkSecond
  <2>1. Shell \in DOMAIN proc /\ Shell \notin {p, q}
    BY <1>4, StuckActor DEF ForkSecond
  <2>2. PICK r, child : proc' = Fork([proc EXCEPT ![Shell] = r], Shell, child)
    <3> DEFINE piece == [proc[Shell] EXCEPT !.at = "command",
                                            !.text = PiecesOf[proc[Shell].text][2]]
               waits == [proc[Shell] EXCEPT !.at = "waits"]
    <3>1. proc' = Fork([proc EXCEPT ![Shell] = waits], Shell, piece)
      BY <1>4 DEF ForkSecond
    <3> HIDE DEF piece, waits
    <3> QED
      BY <3>1
  <2> QED
    BY <1>1, <2>1, <2>2, BlockedMoved
<1>5. CASE WaitBoth
  <2>1. Shell \in DOMAIN proc /\ Shell \notin {p, q} /\ proc[Shell].at \in {"waits", "wait"}
    BY <1>5, StuckActor DEF WaitBoth, At
  <2>2. PICK P \in Waited(proc, Shell) :
          proc' = [P EXCEPT ![Shell].at = "wait"] \/ proc' = Returned(P, Shell)
    BY <1>5 DEF WaitBoth
  <2>3. Blocked(P, p, q, pipe) /\ DOMAIN P[p] = Fields
    BY <1>1, BlockedWaited
  <2>4. Shell \in DOMAIN P
    BY <2>1 DEF Waited, Restrict, Alive
  <2>5. Blocked([P EXCEPT ![Shell].at = "wait"], p, q, pipe)
    BY <2>1, <2>3 DEF Blocked
  <2>6. Stays(Returned(P, Shell), p, q, pipe)
    BY <2>1, <2>3, <2>4, BlockedReturned
  <2> QED
    BY <2>2, <2>5, <2>6 DEF Stays
<1> QED
  BY <1>2, <1>3, <1>4, <1>5 DEF Main

LEMMA executeCommandStays ==
  ASSUME NEW p, NEW q, NEW pipe, Stuck(p, q, pipe), NEW z, executeCommand(z)
  PROVE  Stays(proc', p, q, pipe)
<1>1. Blocked(proc, p, q, pipe) /\ DOMAIN proc[p] = Fields
  BY DEF Stuck
<1>2. z \in DOMAIN proc /\ z \notin {p, q}
  BY StuckActor DEF executeCommand
<1>3. Stays(Ended(proc, {z}), p, q, pipe) /\ Stays(Returned(proc, z), p, q, pipe)
  BY <1>1, <1>2, BlockedEnded, BlockedReturned
<1>4. ASSUME NEW command
      PROVE  Stays(Builtin(z, command), p, q, pipe)
  <2> DEFINE r == [proc[z] EXCEPT !.cwd = IF command.arg \in Directories
                                            THEN command.arg ELSE @]
  <2>1. Builtin(z, command) \in {Ended(proc, {z}), Returned([proc EXCEPT ![z] = r], z)}
    BY DEF Builtin
  <2> HIDE DEF r
  <2>2. Stays(Returned([proc EXCEPT ![z] = r], z), p, q, pipe)
    BY <1>1, <1>2, BlockedMoved
  <2> QED
    BY <1>3, <2>1, <2>2
<1>5. ASSUME NEW cmds
      PROVE  Stays(Start(z, cmds), p, q, pipe)
  <2>1. PICK r, child : Start(z, cmds) = Fork([proc EXCEPT ![z] = r], z, child)
    <3> DEFINE mine  == [proc[z] EXCEPT !.cmds = cmds]
               piped == [mine EXCEPT !.pipe = NewPipe(proc),
                            !.ends = @ \cup {<<"read", NewPipe(proc)>>,
                                             <<"write", NewPipe(proc)>>}]
               waiting(r) == [r EXCEPT !.at = "wait1"]
               child(r, role) == [r EXCEPT !.at = "child", !.role = role]
               Forking(r, role) == Fork([proc EXCEPT ![z] = waiting(r)], z, child(r, role))
    <3>1. Start(z, cmds) \in {Forking(mine, "only"), Forking(piped, "first")}
      BY DEF Start
    <3> HIDE DEF mine, piped, waiting, child
    <3> QED
      BY <3>1
  <2> QED
    BY <1>1, <1>2, <2>1, BlockedMoved
<1> QED
  BY <1>3, <1>4, <1>5 DEF executeCommand

LEMMA AfterStays ==
  ASSUME NEW p, NEW q, NEW pipe, Stuck(p, q, pipe), NEW z, AfterFirst(z) \/ AfterSecond(z)
  PROVE  Stays(proc', p, q, pipe)
<1>1. Blocked(proc, p, q, pipe) /\ DOMAIN proc[p] = Fields
  BY DEF Stuck
<1>2. z \in DOMAIN proc /\ proc[z].at \in {"wait1", "wait2"} /\ Waited(proc, z) # {}
  BY DEF AfterFirst, AfterSecond, At
<1>3. z \notin {p, q}
  BY <1>1, <1>2 DEF Stuck, Blocked
<1>4. PICK P \in Waited(proc, z) : \E r, child :
        \/ proc' = Returned([P EXCEPT ![z] = r], z)
        \/ proc' = Fork([P EXCEPT ![z] = r], z, child)
  <2>1. CASE AfterFirst(z)
    <3>1. PICK P \in Waited(proc, z) :
            \/ proc' = Returned([P EXCEPT ![z] = Closed(P[z])], z)
            \/ proc' = Second(P, z, Closed(P[z]))
      BY <2>1 DEF AfterFirst
    <3> DEFINE closed == Closed(P[z])
               r == [closed EXCEPT !.at = "wait2"]
               child == [closed EXCEPT !.at = "child", !.role = "second"]
    <3>2. Second(P, z, closed) = Fork([P EXCEPT ![z] = r], z, child)
      BY DEF Second
    <3> HIDE DEF closed, r, child
    <3>3. \/ proc' = Returned([P EXCEPT ![z] = closed], z)
          \/ proc' = Fork([P EXCEPT ![z] = r], z, child)
      BY <3>1, <3>2 DEF closed
    <3> QED
      BY <3>3
  <2>2. CASE AfterSecond(z)
    <3>1. PICK P \in Waited(proc, z) :
            proc' = Returned([P EXCEPT ![z].ends = @ \ {<<"read", P[z].pipe>>}], z)
      BY <2>2 DEF AfterSecond
    <3> DEFINE r == [P[z] EXCEPT !.ends = @ \ {<<"read", P[z].pipe>>}]
    <3>2. proc' = Returned([P EXCEPT ![z] = r], z)
      BY <3>1
    <3> HIDE DEF r
    <3> QED
      BY <3>2
  <2> QED
    BY <2>1, <2>2
<1>5. Blocked(P, p, q, pipe) /\ DOMAIN P[p] = Fields
  BY <1>1, BlockedWaited
<1>6. z \in DOMAIN P
  BY <1>2, <1>4 DEF Waited, Restrict, Alive
<1> QED
  BY <1>3, <1>4, <1>5, <1>6, BlockedMoved

\* What the others' commands do; q itself has no room to write.
LEMMA ChildStays ==
  ASSUME NEW p, NEW q, NEW pipe, Stuck(p, q, pipe), NEW z,
         Child(z) \/ ReadArgument(z) \/ Exec(z) \/ Write(z) \/ Read(z)
  PROVE  Stays(proc', p, q, pipe)
<1>1. Blocked(proc, p, q, pipe)
  BY DEF Stuck
<1>2. CASE Read(z)
  BY <1>1, <1>2 DEF Read, Stays
<1>3. CASE Child(z) \/ ReadArgument(z) \/ Exec(z) \/ Write(z)
  <2>1. z \notin {p, q}
    <3>1. CASE Child(z) \/ ReadArgument(z) \/ Exec(z)
      BY <3>1, StuckActor DEF Child, ReadArgument, Exec
    <3>2. CASE Write(z)
      BY <3>2, ShellAssumption DEF Stuck, Blocked, Write, At
    <3> QED
      BY <1>3, <3>1, <3>2
  <2>2. DOMAIN proc' = DOMAIN proc /\ proc'[p] = proc[p] /\ proc'[q] = proc[q]
    BY <1>1, <1>3, <2>1 DEF Child, ReadArgument, Exec, Write, Blocked
  <2> QED
    BY <1>1, <2>2 DEF Blocked, Stays
<1> QED
  BY <1>2, <1>3

LEMMA LeaveStays ==
  ASSUME NEW p, NEW q, NEW pipe, Stuck(p, q, pipe),
         NEW z, Leave(z) \/ sigint_handler(z) \/ sigterm_handler
  PROVE  Stays(proc', p, q, pipe)
<1>1. Blocked(proc, p, q, pipe) /\ DOMAIN proc[p] = Fields
  BY DEF Stuck
<1>2. ASSUME NEW x \in DOMAIN proc, x # q, proc' = Ended(proc, {x})
      PROVE  Stays(proc', p, q, pipe)
  BY <1>1, <1>2, BlockedEnded
<1>3. CASE Leave(z)
  BY <1>1, <1>2, <1>3 DEF Leave, At, Blocked
<1>4. CASE sigterm_handler
  BY <1>2, <1>4 DEF sigterm_handler, Stuck
<1>5. CASE sigint_handler(z)
  <2>1. z \in DOMAIN proc /\ z # q
    BY <1>5 DEF sigint_handler, Stuck
  <2>2. ASSUME proc' = [proc EXCEPT ![z].ask = @ - 1]
        PROVE  Stays(proc', p, q, pipe)
    <3>1. DOMAIN proc' = DOMAIN proc /\ proc'[q] = proc[q]
      BY <2>1, <2>2
    <3>2. proc'[p].at = proc[p].at
      BY <1>1, <2>1, <2>2, BootFields DEF Blocked
    <3> QED
      BY <1>1, <3>1, <3>2 DEF Blocked, Stays
  <2> QED
    BY <1>2, <1>5, <2>1, <2>2 DEF sigint_handler
<1> QED
  BY <1>3, <1>4, <1>5

\* What is in the pipe stays there: nobody reads from it, and it is not new.
LEMMA StaysFull ==
  ASSUME NEW p, NEW q, NEW pipe, Stuck(p, q, pipe), PipeLeft, Sound, [Next]_vars
  PROVE  content'[pipe] = Capacity
<1>1. /\ content \in [Pipes -> 0..Capacity] /\ pipe \in Pipes /\ content[pipe] = Capacity
      /\ \A z \in DOMAIN proc : proc[z].in # pipe
  BY DEF Stuck, Sound, TypeData
<1>2. ASSUME NEW z \in Pids, executeCommand(z)
      PROVE  content'[pipe] = Capacity
  <2>1. NewPipe(proc) # pipe
    BY DEF NewPipe, PipeLeft, Unused, Stuck
  <2>2. content' = content \/ content' = [content EXCEPT ![NewPipe(proc)] = 0]
    BY <1>2 DEF executeCommand
  <2> QED
    BY <1>1, <2>1, <2>2
<1>3. ASSUME NEW z \in Pids, ReadArgument(z) \/ Read(z) \/ sigint_handler(z)
      PROVE  content'[pipe] = Capacity
  <2> DEFINE other == proc[z].in
  <2>1. other # pipe
    BY <1>1, <1>3 DEF ReadArgument, Read, sigint_handler, At
  <2>2. \/ content' = content \/ content' = [content EXCEPT ![other] = @ - 1]
        \/ other \in Pipes /\ Taken(other)
    BY <1>3 DEF ReadArgument, Read, sigint_handler
  <2> HIDE DEF other
  <2> QED
    BY <1>1, <2>1, <2>2, TakenLess
<1>4. ASSUME NEW z \in Pids, Write(z)
      PROVE  content'[pipe] = Capacity
  <2> DEFINE other == proc[z].out
  <2>1. other # pipe
    BY <1>1, <1>4, ShellAssumption DEF Write
  <2>2. content' = content \/ content' = [content EXCEPT ![other] = @ + 1]
    BY <1>4 DEF Write
  <2> HIDE DEF other
  <2> QED
    BY <1>1, <2>1, <2>2
<1>5. \/ content' = content
      \/ \E z \in Pids : \/ executeCommand(z) \/ ReadArgument(z) \/ Write(z)
                          \/ Read(z) \/ sigint_handler(z)
  BY DEF Next, vars, ReadLine, Main, commaChecker, ForkSecond, WaitBoth, Interrupt,
         sigterm_handler, Step, AfterFirst, AfterSecond, Child, Exec, Leave
<1> QED
  BY <1>1, <1>2, <1>3, <1>4, <1>5

LEMMA HungStays ==
  ASSUME Sound, PipeLeft, [Next]_vars, NEW p \in Pids, Hung(p), signals' = signals,
         p \in Alive(proc')
  PROVE  Hung(p)'
<1>1. PICK q : Stuck(p, q, proc[p].pipe)
  BY HungStuck
<1> DEFINE pipe == proc[p].pipe
<1>2. Stuck(p, q, pipe)
  BY <1>1
<1> HIDE DEF pipe
<1>3. Stays(proc', p, q, pipe)
  <2>1. CASE ReadLine \/ Main
    BY <1>2, <2>1, MainStays
  <2>2. CASE Interrupt
    BY <2>2 DEF Interrupt, Sound, TypeData
  <2>3. CASE sigterm_handler
    BY <1>2, <2>3, LeaveStays
  <2>4. ASSUME NEW z \in Pids, Step(z)
        PROVE  Stays(proc', p, q, pipe)
    <3>1. CASE executeCommand(z)
      BY <1>2, <3>1, executeCommandStays
    <3>2. CASE AfterFirst(z) \/ AfterSecond(z)
      BY <1>2, <3>2, AfterStays
    <3>3. CASE Child(z) \/ ReadArgument(z) \/ Exec(z) \/ Write(z) \/ Read(z)
      BY <1>2, <3>3, ChildStays
    <3>4. CASE Leave(z) \/ sigint_handler(z)
      BY <1>2, <3>4, LeaveStays
    <3> QED
      BY <2>4, <3>1, <3>2, <3>3, <3>4 DEF Step
  <2>5. CASE UNCHANGED vars
    BY <1>2, <2>5 DEF Stuck, Stays, vars
  <2> QED
    BY <2>1, <2>2, <2>3, <2>4, <2>5 DEF Next
<1>4. content'[pipe] = Capacity /\ pipe \in Pipes
  BY <1>2, StaysFull DEF Stuck
<1>5. Blocked(proc', p, q, pipe)
  BY <1>3 DEF Stays
<1> QED
  BY <1>4, <1>5 DEF Hung, Blocked, Children

\* With a pipe left whenever one is asked for: once the first command of a
\* pipe waits for room, nothing but a signal gets its runner out of the wait
\* that comes before the second command is forked.
THEOREM HangsForGoodHolds == Spec /\ []PipeLeft => HangsForGood
<1>1. Sound /\ PipeLeft /\ [Next]_vars =>
        [\A p \in Pids :
           Hung(p) /\ signals' = signals /\ p \in Alive(proc') => Hung(p)']_vars
  BY HungStays
<1> QED
  BY <1>1, InitSound, NextSound, PTL DEF Spec, HangsForGood

=============================================================================
