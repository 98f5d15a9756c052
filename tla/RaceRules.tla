----------------------------- MODULE RaceRules -----------------------------
(***************************************************************************)
(* The rules of the race of 3_race/hare_tortoise.c, without its threads:   *)
(* what the Randomizer, the Turtle and the Hare do with the shared data    *)
(* when the Reporter lets each of them act once per tick of the clock, in  *)
(* this order.  Module Race shows when the threads follow these rules.     *)
(***************************************************************************)
EXTENDS Integers, Sequences

CONSTANT Races  \* the races that may be run: the input files

Players == {"T", "H"}
Workers == {"randomizer", "turtle", "hare"}

Repositioning == [player : Players, time : Int, distance : Int]

RaceType == [tortoise_speed : Nat, hare_speed : Nat, hare_sleep_time : Nat,
             hare_turtle_distance_for_sleep : Int, finish_distance : Nat \ {0},
             reposition : Seq(Repositioning),
             expected : Players]

ASSUME RacesAssumption == Races \subseteq RaceType

VARIABLES
  race,               \* the struct race handed to init, and the winner its file names
  clock_tick,
  distance,           \* distance["T"], distance["H"]: turtle_ and hare_distance
  hare_sleep_counter,
  array_index,        \* the Randomizer's position in the array, from 0
  no_winner,          \* 0: somebody has won
  overall_winner,
  turn                \* whose part of the tick is next (not in the code)

data == <<distance, hare_sleep_counter, array_index, no_winner, overall_winner>>
rulesVars == <<race, clock_tick, data, turn>>

RulesInit ==
  /\ race \in Races
  /\ clock_tick = -1
  /\ distance = [p \in Players |-> 0]
  /\ hare_sleep_counter = race.hare_sleep_time
  /\ array_index = 0
  /\ no_winner = 1
  /\ overall_winner = "-"
  /\ turn = "reporter"

\* Mutation: the winner is announced past the finish line only.
PlaceLate(p, d) ==
  /\ distance' = [distance EXCEPT
                    ![p] = IF d > race.finish_distance THEN race.finish_distance
                           ELSE IF d < 0 THEN 0 ELSE d]
  /\ IF d > race.finish_distance
     THEN overall_winner' = p /\ no_winner' = 0
     ELSE UNCHANGED <<overall_winner, no_winner>>

\* Mutation: nobody is kept from going back past the start.
PlaceBehindStart(p, d) ==
  /\ distance' = [distance EXCEPT
                    ![p] = IF d >= race.finish_distance THEN race.finish_distance
                           ELSE d]
  /\ IF d >= race.finish_distance
     THEN overall_winner' = p /\ no_winner' = 0
     ELSE UNCHANGED <<overall_winner, no_winner>>

\* Player p gets to d: not behind the start, and the first at the finish wins.
Place(p, d) ==
  /\ distance' = [distance EXCEPT
                    ![p] = IF d >= race.finish_distance THEN race.finish_distance
                           ELSE IF d < 0 THEN 0 ELSE d]
  /\ IF d >= race.finish_distance
     THEN overall_winner' = p /\ no_winner' = 0
     ELSE UNCHANGED <<overall_winner, no_winner>>

\* The entry of the array the Randomizer is at has the time it has read.
Due(curr_time) ==
  /\ array_index < Len(race.reposition)
  /\ race.reposition[array_index + 1].time = curr_time

\* Mutation: the Randomizer stays at the entry it has applied.
RandomizerStays(curr_time) ==
  IF no_winner = 1 /\ Due(curr_time)
  THEN LET god == race.reposition[array_index + 1]
       IN  /\ Place(god.player, distance[god.player] + god.distance)
           /\ UNCHANGED <<array_index, hare_sleep_counter>>
  ELSE UNCHANGED data

\* The Randomizer applies the entry it is at if its time has come: one entry
\* per tick.
RandomizerActs(curr_time) ==
  IF no_winner = 1 /\ Due(curr_time)
  THEN LET god == race.reposition[array_index + 1]
       IN  /\ Place(god.player, distance[god.player] + god.distance)
           /\ array_index' = array_index + 1
           /\ UNCHANGED hare_sleep_counter
  ELSE UNCHANGED data

\* The Turtle moves, or claims a tie that the Hare has won.
TurtleActs ==
  \/ /\ no_winner = 1
     /\ Place("T", distance["T"] + race.tortoise_speed)
     /\ UNCHANGED <<array_index, hare_sleep_counter>>
  \/ /\ no_winner = 0
     /\ overall_winner' = IF overall_winner = "H" /\ distance["H"] = distance["T"]
                          THEN "T" ELSE overall_winner
     /\ UNCHANGED <<distance, array_index, hare_sleep_counter, no_winner>>

Awake == hare_sleep_counter = race.hare_sleep_time

\* The Hare is not too far ahead to care about the Turtle.
Close == distance["H"] - distance["T"] <= race.hare_turtle_distance_for_sleep

\* Mutation: the tick in which the Hare falls asleep counts as its first
\* asleep.
HareCountsAtOnce ==
  \/ /\ no_winner = 1 /\ Awake
     /\ IF Close
        THEN Place("H", distance["H"] + race.hare_speed)
        ELSE UNCHANGED <<distance, no_winner, overall_winner>>
     /\ hare_sleep_counter' = IF race.hare_sleep_time = 0 THEN 0 ELSE 1
     /\ UNCHANGED array_index
  \/ /\ no_winner = 1 /\ ~Awake
     /\ hare_sleep_counter' = hare_sleep_counter + 1
     /\ UNCHANGED <<distance, array_index, no_winner, overall_winner>>
  \/ no_winner = 0 /\ UNCHANGED data

\* The Hare, once awake, moves unless it is too far ahead; in both cases it
\* sleeps afterwards.
HareActs ==
  \/ /\ no_winner = 1 /\ Awake
     /\ IF Close
        THEN Place("H", distance["H"] + race.hare_speed)
        ELSE UNCHANGED <<distance, no_winner, overall_winner>>
     /\ hare_sleep_counter' = 0
     /\ UNCHANGED array_index
  \/ /\ no_winner = 1 /\ ~Awake
     /\ hare_sleep_counter' = hare_sleep_counter + 1
     /\ UNCHANGED <<distance, array_index, no_winner, overall_winner>>
  \/ no_winner = 0 /\ UNCHANGED data

Act(w, curr_time) ==
  \/ w = "randomizer" /\ RandomizerActs(curr_time)
  \/ w = "turtle" /\ TurtleActs
  \/ w = "hare" /\ HareActs

\* Mutation: the Reporter calls the Randomizer again in place of the Hare.
HareForgotten == [reporter |-> "randomizer", randomizer |-> "turtle",
                  turtle |-> "randomizer", hare |-> "reporter"]

\* After the Hare the Reporter looks for a winner and begins the next tick.
Turns == [reporter |-> "randomizer", randomizer |-> "turtle",
          turtle |-> "hare", hare |-> "reporter"]

\* The Reporter's while (no_winner), and the tick it begins with.
Tick ==
  /\ turn = "reporter"
  /\ no_winner = 1
  /\ clock_tick' = clock_tick + 1
  /\ turn' = Turns[turn]
  /\ UNCHANGED <<race, data>>

WorkerTurn(w) ==
  /\ turn = w
  /\ Act(w, clock_tick)
  /\ turn' = Turns[w]
  /\ UNCHANGED <<race, clock_tick>>

Over == turn = "reporter" /\ no_winner = 0

\* The race is over: init returns overall_winner.
RaceEnds == Over /\ UNCHANGED rulesVars

RulesNext ==
  \/ Tick
  \/ \E w \in Workers : WorkerTurn(w)
  \/ RaceEnds

RulesSafeSpec == RulesInit /\ [][RulesNext]_rulesVars

-----------------------------------------------------------------------------
(* Properties *)

RulesTypeOK ==
  /\ race \in RaceType
  /\ clock_tick \in Nat \cup {-1}
  /\ distance \in [Players -> 0..race.finish_distance]
  /\ hare_sleep_counter \in 0..race.hare_sleep_time
  /\ array_index \in 0..Len(race.reposition)
  /\ no_winner \in {0, 1}
  /\ overall_winner \in Players \cup {"-"}
  /\ turn \in DOMAIN Turns

\* There is a winner exactly when one player is at the finish line, and the
\* other is then behind it: whoever of the three workers puts a player there,
\* nobody can catch up in the rest of the tick, and the Turtle's claim to a
\* tie (hare_tortoise.c:113) never succeeds.
WinnerAtFinish ==
  /\ \A p \in Players :
       overall_winner = p <=> distance[p] = race.finish_distance
  /\ no_winner = 0 <=> overall_winner \in Players

\* The first i entries of r are in order of time, from the first tick on.
InOrder(r, i) ==
  /\ \A k \in 1..i : r[k].time >= 0
  /\ \A j, k \in 1..i : j < k => r[j].time < r[k].time

\* What the Randomizer has done once it has had its turn, for every array:
\* the entries whose time has come, as far as the array is in order, and no
\* others.  An entry with the time of the one before it, or with an earlier
\* one, is never applied, nor is anything behind it.
AppliedInOrder ==
  no_winner = 1 /\ turn # "randomizer" =>
    \A i \in 1..Len(race.reposition) :
      i <= array_index <=>
        race.reposition[i].time <= clock_tick /\ InOrder(race.reposition, i)

\* The winner is the one the input file names, which is what the runner
\* compares overall_winner with (hare_tortoise_runner.c:86).  It depends on when
\* the Hare falls asleep: by the comments (hare_tortoise.c:20-22) only when its
\* lead is too large, by the code after every look.
ExpectedWinner == Over => overall_winner = race.expected

\* Somebody wins when the Turtle moves at all, however long the Hare sleeps
\* and wherever the Randomizer puts the two.
SomebodyWins == race.tortoise_speed > 0 ~> Over

=============================================================================
