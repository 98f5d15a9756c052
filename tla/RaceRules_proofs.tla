-------------------------- MODULE RaceRules_proofs --------------------------
(***************************************************************************)
(* For every race with a finish line in front of the start: the winner is  *)
(* the one at the finish, repositionings are applied when they are due as  *)
(* far as they are in order, and the hare's naps are as long as they are   *)
(* to be.                                                                  *)
(***************************************************************************)
EXTENDS RaceNaps, TLAPS

-----------------------------------------------------------------------------
(* One part of a tick                                                      *)

\* Moving a player keeps the types, and makes a winner of who gets to the
\* finish and of nobody else.
LEMMA PlaceCorrect ==
  ASSUME RulesTypeOK, WinnerAtFinish, no_winner = 1,
         NEW p \in Players, NEW d \in Int, Place(p, d)
  PROVE  /\ distance' \in [Players -> 0..race.finish_distance]
         /\ no_winner' \in {0, 1}
         /\ overall_winner' \in Players \cup {"-"}
         /\ \A q \in Players :
              overall_winner' = q <=> distance'[q] = race.finish_distance
         /\ no_winner' = 0 <=> overall_winner' \in Players
<1> USE DEF RulesTypeOK, Players
<1>1. race.finish_distance \in Nat \ {0}
  BY DEF RaceType
<1>2. overall_winner = "-" /\ \A q \in Players : distance[q] < race.finish_distance
  BY <1>1 DEF WinnerAtFinish
<1>3. CASE d >= race.finish_distance
  BY <1>1, <1>2, <1>3 DEF Place
<1>4. CASE d < race.finish_distance
  BY <1>1, <1>2, <1>4 DEF Place
<1> QED
  BY <1>1, <1>3, <1>4

\* The entry the Randomizer is at is one of the array.
LEMMA DueEntry ==
  ASSUME RulesTypeOK, NEW curr_time, Due(curr_time)
  PROVE  /\ array_index + 1 \in 1..Len(race.reposition)
         /\ race.reposition[array_index + 1] \in Repositioning
<1>1. race.reposition \in Seq(Repositioning)
  BY DEF RulesTypeOK, RaceType
<1>2. array_index + 1 \in 1..Len(race.reposition)
  BY <1>1 DEF RulesTypeOK, Due
<1> QED
  BY <1>1, <1>2

\* Once there is a winner the workers change nothing: the Turtle's claim to
\* a tie fails.
LEMMA ActAfterWinner ==
  ASSUME WinnerAtFinish, NEW w \in Workers, NEW curr_time, Act(w, curr_time),
         no_winner = 0
  PROVE  UNCHANGED data
<1>1. CASE w = "turtle"
  <2>1. ~(overall_winner = "H" /\ distance["H"] = distance["T"])
    BY DEF WinnerAtFinish, Players
  <2> QED
    BY <1>1, <2>1 DEF Act, TurtleActs, data
<1> QED
  BY <1>1 DEF Act, RandomizerActs, HareActs, Workers

\* A worker's part of a tick, whatever time it has read, keeps the types and
\* the meaning of the winner.
LEMMA ActCorrect ==
  ASSUME RulesTypeOK, WinnerAtFinish,
         NEW w \in Workers, NEW curr_time, Act(w, curr_time), UNCHANGED race
  PROVE  /\ distance' \in [Players -> 0..race.finish_distance]
         /\ hare_sleep_counter' \in 0..race.hare_sleep_time
         /\ array_index' \in 0..Len(race.reposition)
         /\ no_winner' \in {0, 1}
         /\ overall_winner' \in Players \cup {"-"}
         /\ WinnerAtFinish'
<1>1. /\ race.tortoise_speed \in Nat
      /\ race.hare_speed \in Nat
      /\ race.hare_sleep_time \in Nat
      /\ distance["T"] \in Int
      /\ distance["H"] \in Int
      /\ \A p \in Players : distance[p] \in Int
      /\ race.finish_distance \in Nat \ {0}
      /\ Len(race.reposition) \in Nat
  BY DEF RulesTypeOK, RaceType, Players
<1>2. CASE UNCHANGED data
  BY <1>2 DEF data, RulesTypeOK, WinnerAtFinish
<1>3. CASE w = "randomizer"
  <2>1. CASE no_winner = 1 /\ Due(curr_time)
    <3> DEFINE god == race.reposition[array_index + 1]
    <3>1. god.player \in Players /\ god.distance \in Int
      BY <2>1, DueEntry DEF Repositioning
    <3>2. distance[god.player] + god.distance \in Int
      BY <1>1, <3>1
    <3>3. Place(god.player, distance[god.player] + god.distance)
      BY <1>3, <2>1 DEF Act, RandomizerActs
    <3>4. array_index' = array_index + 1 /\ hare_sleep_counter' = hare_sleep_counter
      BY <1>3, <2>1 DEF Act, RandomizerActs
    <3> HIDE DEF god
    <3>5. /\ distance' \in [Players -> 0..race.finish_distance]
          /\ no_winner' \in {0, 1}
          /\ overall_winner' \in Players \cup {"-"}
          /\ WinnerAtFinish'
      BY <2>1, <3>1, <3>2, <3>3, PlaceCorrect DEF WinnerAtFinish
    <3>6. array_index' \in 0..Len(race.reposition)
      BY <1>1, <2>1, <3>4, DueEntry DEF RulesTypeOK
    <3> QED
      BY <3>4, <3>5, <3>6 DEF RulesTypeOK
  <2>2. CASE ~(no_winner = 1 /\ Due(curr_time))
    BY <1>2, <1>3, <2>2 DEF Act, RandomizerActs
  <2> QED
    BY <2>1, <2>2
<1>4. CASE w = "turtle"
  <2>1. CASE no_winner = 1
    <3>1. /\ Place("T", distance["T"] + race.tortoise_speed)
          /\ UNCHANGED <<array_index, hare_sleep_counter>>
      BY <1>4, <2>1 DEF Act, TurtleActs
    <3>2. distance["T"] + race.tortoise_speed \in Int /\ "T" \in Players
      BY <1>1 DEF Players
    <3> QED
      BY <2>1, <3>1, <3>2, PlaceCorrect DEF WinnerAtFinish, RulesTypeOK
  <2>2. CASE no_winner = 0
    BY <1>2, <2>2, ActAfterWinner
  <2> QED
    BY <2>1, <2>2 DEF RulesTypeOK
<1>5. CASE w = "hare"
  <2>1. CASE no_winner = 1 /\ Awake
    <3>1. /\ hare_sleep_counter' = 0
          /\ array_index' = array_index
          /\ IF Close THEN Place("H", distance["H"] + race.hare_speed)
                      ELSE UNCHANGED <<distance, no_winner, overall_winner>>
      BY <1>5, <2>1 DEF Act, HareActs
    <3>2. distance["H"] + race.hare_speed \in Int /\ "H" \in Players
      BY <1>1 DEF Players
    <3>3. CASE Close
      BY <1>1, <2>1, <3>1, <3>2, <3>3, PlaceCorrect DEF WinnerAtFinish, RulesTypeOK
    <3>4. CASE ~Close
      BY <1>1, <3>1, <3>4 DEF WinnerAtFinish, RulesTypeOK
    <3> QED
      BY <3>3, <3>4
  <2>2. CASE no_winner = 1 /\ ~Awake
    <3>1. /\ hare_sleep_counter' = hare_sleep_counter + 1
          /\ UNCHANGED <<distance, array_index, no_winner, overall_winner>>
      BY <1>5, <2>2 DEF Act, HareActs
    <3> QED
      BY <1>1, <2>2, <3>1 DEF Awake, WinnerAtFinish, RulesTypeOK
  <2>3. CASE no_winner = 0
    BY <1>2, <1>5, <2>3 DEF Act, HareActs
  <2> QED
    BY <2>1, <2>2, <2>3 DEF RulesTypeOK
<1> QED
  BY <1>3, <1>4, <1>5 DEF Workers

-----------------------------------------------------------------------------
(* Types and winner                                                        *)

LEMMA RulesInitCorrect == RulesInit => RulesTypeOK /\ WinnerAtFinish
<1> SUFFICES ASSUME RulesInit PROVE RulesTypeOK /\ WinnerAtFinish
  OBVIOUS
<1>1. race \in RaceType
  BY RacesAssumption DEF RulesInit
<1>2. /\ race.finish_distance \in Nat \ {0}
      /\ race.hare_sleep_time \in Nat
      /\ Len(race.reposition) \in Nat
  BY <1>1 DEF RaceType
<1> QED
  BY <1>1, <1>2 DEF RulesInit, RulesTypeOK, WinnerAtFinish, Players, Turns

\* The types of the variables, for every race of RaceType: nobody leaves the
\* course, the sleep counter and the array index stay in their ranges.  And
\* who wins is at the finish, alone.
THEOREM WinnerCorrect == RulesSafeSpec => [](RulesTypeOK /\ WinnerAtFinish)
<1>1. RulesInit => RulesTypeOK /\ WinnerAtFinish
  BY RulesInitCorrect
<1>2. RulesTypeOK /\ WinnerAtFinish /\ [RulesNext]_rulesVars
      => (RulesTypeOK /\ WinnerAtFinish)'
  <2> SUFFICES ASSUME RulesTypeOK, WinnerAtFinish, [RulesNext]_rulesVars
               PROVE  RulesTypeOK' /\ WinnerAtFinish'
    OBVIOUS
  <2>1. CASE Tick
    BY <2>1 DEF Tick, data, RulesTypeOK, WinnerAtFinish, Turns
  <2>2. CASE \E w \in Workers : WorkerTurn(w)
    <3>1. PICK w \in Workers : WorkerTurn(w)
      BY <2>2
    <3>2. turn' \in DOMAIN Turns
      BY <3>1 DEF WorkerTurn, Turns, Workers
    <3> QED
      BY <3>1, <3>2, ActCorrect DEF WorkerTurn, RulesTypeOK
  <2>3. CASE RaceEnds \/ UNCHANGED rulesVars
    BY <2>3 DEF RaceEnds, rulesVars, data, RulesTypeOK, WinnerAtFinish
  <2> QED
    BY <2>1, <2>2, <2>3 DEF RulesNext
<1> QED
  BY <1>1, <1>2, PTL DEF RulesSafeSpec

THEOREM WinnerAtFinishHolds == RulesSafeSpec => []WinnerAtFinish
BY WinnerCorrect, PTL

THEOREM RulesTypeCorrect == RulesSafeSpec => []RulesTypeOK
BY WinnerCorrect, PTL

-----------------------------------------------------------------------------
(* Repositionings in order of time                                         *)

\* The last tick in which the Randomizer has had its turn.
RandomizedTick == IF turn = "randomizer" THEN clock_tick - 1 ELSE clock_tick

\* Exactly the entries up to that tick have been applied, as far as they are
\* in order.
AppliedSoFar ==
  /\ turn # "reporter" => clock_tick >= 0
  /\ no_winner = 1 =>
       \A i \in 1..Len(race.reposition) :
         i <= array_index <=> /\ race.reposition[i].time <= RandomizedTick
                             /\ InOrder(race.reposition, i)

\* Every entry of an array has an integer time.
LEMMA EntryTime ==
  ASSUME NEW r \in Seq(Repositioning), NEW i \in 1..Len(r)
  PROVE  r[i].time \in Int
<1>1. r[i] \in Repositioning
  OBVIOUS
<1> QED
  BY <1>1 DEF Repositioning

LEMMA TimesInt ==
  ASSUME RulesTypeOK
  PROVE  \A i \in 1..Len(race.reposition) : race.reposition[i].time \in Int
<1>1. race.reposition \in Seq(Repositioning)
  BY DEF RulesTypeOK, RaceType
<1> QED
  BY <1>1, EntryTime

\* The Randomizer's turn: the entry it is at is the only one that can be due,
\* since those before it are over and those behind it come later or never.
LEMMA RandomizerApplies ==
  ASSUME RulesTypeOK, AppliedSoFar, WorkerTurn("randomizer")
  PROVE  AppliedSoFar'
<1> DEFINE r == race.reposition
           e == array_index + 1
<1>1. /\ turn = "randomizer" /\ turn' = "turtle"
      /\ race' = race /\ clock_tick' = clock_tick
      /\ RandomizerActs(clock_tick)
  BY DEF WorkerTurn, Act, Turns
<1>2. clock_tick >= 0 /\ clock_tick' >= 0
  BY <1>1 DEF AppliedSoFar
<1> SUFFICES ASSUME no_winner' = 1, NEW i \in 1..Len(r)
             PROVE  i <= array_index' <=> r[i].time <= clock_tick /\ InOrder(r, i)
  BY <1>1, <1>2 DEF AppliedSoFar, RandomizedTick, InOrder
<1>3. no_winner = 1
  BY <1>1 DEF RandomizerActs, data, RulesTypeOK
<1>4. /\ clock_tick \in Int /\ array_index \in 0..Len(r) /\ Len(r) \in Nat
      /\ \A k \in 1..Len(r) : r[k].time \in Int
  BY TimesInt DEF RulesTypeOK, RaceType
<1>5. \A k \in 1..Len(r) :
        k <= array_index <=> r[k].time <= clock_tick - 1 /\ InOrder(r, k)
  BY <1>1, <1>3 DEF AppliedSoFar, RandomizedTick
<1>6. CASE Due(clock_tick)
  <2>1. array_index' = e
    BY <1>1, <1>3, <1>6 DEF RandomizerActs
  <2>2. e \in 1..Len(r) /\ r[e].time = clock_tick
    BY <1>4, <1>6 DEF Due
  <2> HIDE DEF r
  <2>3. InOrder(r, e)
    <3>1. \A k \in 1..array_index : k \in 1..Len(r) /\ r[k].time < r[e].time
      BY <1>4, <1>5, <2>2
    <3>2. \A k \in 1..e : k = e \/ k \in 1..array_index
      BY <1>4
    <3>3. \A k \in 1..array_index : InOrder(r, k)
      BY <1>4, <1>5
    <3>4. ASSUME NEW k \in 1..e
          PROVE  r[k].time >= 0
      <4>1. CASE k = e
        BY <1>2, <2>2, <4>1
      <4>2. CASE k \in 1..array_index
        BY <3>3, <4>2, k \in 1..k DEF InOrder
      <4> QED
        BY <3>2, <4>1, <4>2
    <3>5. ASSUME NEW j \in 1..e, NEW k \in 1..e, j < k
          PROVE  r[j].time < r[k].time
      <4>1. j \in 1..array_index
        BY <1>4, <3>5
      <4>2. CASE k = e
        BY <3>1, <4>1, <4>2
      <4>3. CASE k # e
        BY <1>4, <3>2, <3>3, <3>5, <4>3 DEF InOrder
      <4> QED
        BY <4>2, <4>3
    <3> QED
      BY <3>4, <3>5 DEF InOrder
  <2>4. CASE i <= array_index
    BY <1>4, <1>5, <2>1, <2>4
  <2>5. CASE i = e
    BY <1>4, <2>1, <2>2, <2>3, <2>5
  <2>6. CASE i > e
    <3>1. InOrder(r, i) => r[e].time < r[i].time
      BY <1>4, <2>2, <2>6 DEF InOrder
    <3> QED
      BY <1>4, <2>1, <2>2, <2>6, <3>1
  <2> QED
    BY <1>4, <2>4, <2>5, <2>6
<1>7. CASE ~Due(clock_tick)
  <2>1. array_index' = array_index
    BY <1>1, <1>7 DEF RandomizerActs, data
  <2>2. e \in 1..Len(r) => r[e].time # clock_tick
    BY <1>4, <1>7 DEF Due
  <2> HIDE DEF r
  <2>3. e \in 1..Len(r) => ~(r[e].time <= clock_tick /\ InOrder(r, e))
    BY <1>4, <1>5, <2>2
  <2>4. CASE i <= array_index
    BY <1>4, <1>5, <2>1, <2>4
  <2>5. CASE i = e
    BY <1>4, <2>1, <2>3, <2>5
  <2>6. CASE i > e
    <3>1. e \in 1..Len(r) /\ e \in 1..i
      BY <1>4, <2>6
    <3>2. InOrder(r, i) => r[e].time < r[i].time /\ InOrder(r, e)
      BY <1>4, <2>6, <3>1 DEF InOrder
    <3> QED
      BY <1>4, <2>1, <2>3, <2>6, <3>1, <3>2
  <2> QED
    BY <1>4, <2>4, <2>5, <2>6
<1> QED
  BY <1>6, <1>7

\* The turns of the other two leave the array alone and end no race that was
\* over before.
LEMMA OthersKeepApplied ==
  ASSUME RulesTypeOK, AppliedSoFar, NEW w \in {"turtle", "hare"}, WorkerTurn(w)
  PROVE  AppliedSoFar'
<1>1. /\ turn = w /\ turn' \in {"hare", "reporter"}
      /\ race' = race /\ clock_tick' = clock_tick
  BY DEF WorkerTurn, Turns
<1>2. array_index' = array_index
  BY DEF WorkerTurn, Act, TurtleActs, HareActs, data
<1>3. no_winner' = 1 => no_winner = 1
  BY DEF WorkerTurn, Act, TurtleActs, HareActs, data, RulesTypeOK
<1>4. turn' # "reporter" => clock_tick' >= 0
  BY <1>1 DEF AppliedSoFar
<1> QED
  BY <1>1, <1>2, <1>3, <1>4 DEF AppliedSoFar, RandomizedTick, InOrder

\* The Randomizer applies every entry in its tick as far as the array is in
\* order, and nothing behind the first that is not, for every array and as
\* long as nobody has won.
THEOREM AppliedInOrderHolds == RulesSafeSpec => []AppliedInOrder
<1>1. RulesInit => AppliedSoFar
  <2> SUFFICES ASSUME RulesInit, NEW i \in 1..Len(race.reposition)
               PROVE  ~(/\ race.reposition[i].time <= RandomizedTick
                        /\ InOrder(race.reposition, i))
    BY DEF AppliedSoFar, RulesInit
  <2>1. race.reposition \in Seq(Repositioning)
    BY RacesAssumption DEF RulesInit, RaceType
  <2>2. race.reposition[i].time \in Int /\ i \in 1..i
    BY <2>1, EntryTime
  <2> QED
    BY <2>1, <2>2 DEF RulesInit, RandomizedTick, InOrder
<1>2. RulesTypeOK /\ AppliedSoFar /\ [RulesNext]_rulesVars => AppliedSoFar'
  <2> SUFFICES ASSUME RulesTypeOK, AppliedSoFar, [RulesNext]_rulesVars
               PROVE  AppliedSoFar'
    OBVIOUS
  <2>1. CASE Tick
    <3>1. /\ turn = "reporter" /\ turn' = "randomizer" /\ clock_tick' >= 0
          /\ RandomizedTick' = RandomizedTick
          /\ UNCHANGED <<race, array_index, no_winner>>
      BY <2>1 DEF Tick, data, Turns, RandomizedTick, RulesTypeOK
    <3> QED
      BY <3>1 DEF AppliedSoFar, InOrder
  <2>2. CASE \E w \in Workers : WorkerTurn(w)
    BY <2>2, RandomizerApplies, OthersKeepApplied DEF Workers
  <2>3. CASE RaceEnds \/ UNCHANGED rulesVars
    BY <2>3 DEF RaceEnds, rulesVars, data, AppliedSoFar, RandomizedTick, InOrder
  <2> QED
    BY <2>1, <2>2, <2>3 DEF RulesNext
<1>3. RulesTypeOK /\ AppliedSoFar => AppliedInOrder
  BY DEF AppliedSoFar, AppliedInOrder, RandomizedTick
<1> QED
  BY <1>1, <1>2, <1>3, RulesTypeCorrect, PTL DEF RulesSafeSpec

-----------------------------------------------------------------------------
(* The hare's naps                                                         *)

\* The last tick in which the Hare has had its turn.
HareTick == IF turn = "reporter" THEN clock_tick ELSE clock_tick - 1

\* The counter tells how long the Hare has been asleep; before the first tick
\* it is as if it had just slept long enough.
NapSoFar ==
  no_winner = 1 =>
    \/ /\ HareTick = -1
       /\ Awake
    \/ /\ HareTick >= 0
       /\ fell_asleep \in Int
       /\ hare_sleep_counter = HareTick - fell_asleep

\* The Hare's turn: it falls asleep, or has been asleep for a tick more.
LEMMA HareNaps ==
  ASSUME RulesTypeOK, NapSoFar, NapsNext, WorkerTurn("hare")
  PROVE  NapSoFar'
<1>1. /\ turn = "hare" /\ turn' = "reporter"
      /\ race' = race /\ clock_tick' = clock_tick
      /\ HareActs
  BY DEF WorkerTurn, Act, Turns
<1> SUFFICES ASSUME no_winner' = 1
             PROVE  NapSoFar'
  BY DEF NapSoFar
<1>2. no_winner = 1
  BY <1>1 DEF HareActs, data, RulesTypeOK
<1>3. /\ HareTick \in Int /\ HareTick' = HareTick + 1 /\ HareTick' = clock_tick
      /\ HareTick >= -1
  BY <1>1, <1>2 DEF HareTick, RulesTypeOK, NapSoFar
<1>4. CASE Awake
  <2>1. fell_asleep' = clock_tick /\ hare_sleep_counter' = 0
    BY <1>1, <1>2, <1>4 DEF NapsNext, FallsAsleep, HareActs
  <2> QED
    BY <1>3, <2>1 DEF NapSoFar
<1>5. CASE ~Awake
  <2>1. /\ fell_asleep' = fell_asleep
        /\ hare_sleep_counter' = hare_sleep_counter + 1
    BY <1>1, <1>2, <1>5 DEF NapsNext, FallsAsleep, HareActs
  <2> QED
    BY <1>2, <1>3, <1>5, <2>1 DEF NapSoFar
<1> QED
  BY <1>4, <1>5

\* Every other step leaves the Hare as it is.
LEMMA OthersKeepNap ==
  ASSUME RulesTypeOK, NapSoFar, NapsNext, ~WorkerTurn("hare")
  PROVE  NapSoFar'
<1>1. fell_asleep' = fell_asleep
  BY DEF NapsNext, FallsAsleep
<1>2. CASE Tick
  <2>1. /\ HareTick' = HareTick
        /\ UNCHANGED <<race, no_winner, hare_sleep_counter>>
    BY <1>2 DEF Tick, Turns, HareTick, RulesTypeOK, data
  <2> QED
    BY <1>1, <2>1 DEF NapSoFar, Awake
<1>3. ASSUME NEW w \in {"randomizer", "turtle"}, WorkerTurn(w)
      PROVE  NapSoFar'
  <2>1. /\ turn = w /\ turn' \in {"turtle", "hare"}
        /\ race' = race /\ clock_tick' = clock_tick
    BY <1>3 DEF WorkerTurn, Turns
  <2>2. hare_sleep_counter' = hare_sleep_counter
    BY <1>3 DEF WorkerTurn, Act, RandomizerActs, TurtleActs, data
  <2>3. no_winner' = 1 => no_winner = 1
    BY <1>3 DEF WorkerTurn, Act, RandomizerActs, TurtleActs, data, RulesTypeOK
  <2>4. HareTick' = HareTick
    BY <2>1 DEF HareTick
  <2> QED
    BY <1>1, <2>1, <2>2, <2>3, <2>4 DEF NapSoFar, Awake
<1>4. CASE RaceEnds
  BY <1>1, <1>4 DEF RaceEnds, rulesVars, data, NapSoFar, HareTick, Awake
<1> QED
  BY <1>2, <1>3, <1>4 DEF NapsNext, RulesNext, Workers

\* Every nap takes hare_sleep_time ticks, for every sleep time and for as long
\* as the race takes.
THEOREM NapLengthHolds == NapsSafeSpec => []NapLength
<1>1. NapsInit => RulesInit /\ NapSoFar
  BY DEF NapsInit, RulesInit, NapSoFar, HareTick, Awake
<1>2. [NapsNext]_napsVars => [RulesNext]_rulesVars
  BY DEF NapsNext, napsVars
<1>3. NapsSafeSpec => []RulesTypeOK
  BY <1>1, <1>2, RulesTypeCorrect, PTL DEF NapsSafeSpec, RulesSafeSpec
<1>4. RulesTypeOK /\ NapSoFar /\ [NapsNext]_napsVars => NapSoFar'
  <2>1. UNCHANGED napsVars => (NapSoFar => NapSoFar')
    BY DEF napsVars, rulesVars, data, NapSoFar, HareTick, Awake
  <2> QED
    BY <2>1, HareNaps, OthersKeepNap
<1>5. RulesTypeOK /\ NapSoFar => NapLength
  BY DEF NapSoFar, NapLength, HareTick, Awake, RulesTypeOK, RaceType
<1> QED
  BY <1>1, <1>3, <1>4, <1>5, PTL DEF NapsSafeSpec

=============================================================================
