------------------------------ MODULE RaceNaps ------------------------------
(***************************************************************************)
(* RaceRules with a history variable: the tick in which the Hare last fell *)
(* asleep.  The program does not keep it; it says how long a nap is.       *)
(***************************************************************************)
EXTENDS RaceRules

VARIABLE fell_asleep  \* -1: it has not been asleep yet

napsVars == <<rulesVars, fell_asleep>>

NapsInit == RulesInit /\ fell_asleep = -1

\* The Hare has looked at the race, moved or not, and put itself to sleep.
FallsAsleep == WorkerTurn("hare") /\ no_winner = 1 /\ Awake

NapsNext ==
  /\ RulesNext
  /\ fell_asleep' = IF FallsAsleep THEN clock_tick ELSE fell_asleep

NapsSafeSpec == NapsInit /\ [][NapsNext]_napsVars

\* The next part of the tick does come.
NapsSpec == NapsSafeSpec /\ WF_napsVars(NapsNext)

-----------------------------------------------------------------------------
(* Properties *)

\* A nap takes hare_sleep_time ticks, neither one more nor one less, and the
\* Hare does not oversleep: the counter that is set to zero in one tick and
\* compared before it is incremented in the next makes it look again exactly
\* in the tick after them.  When it may fall asleep is another matter, see
\* ExpectedWinner.
NapLength ==
  turn = "reporter" /\ no_winner = 1 /\ clock_tick >= 0 =>
    /\ clock_tick \in fell_asleep .. fell_asleep + race.hare_sleep_time
    /\ Awake <=> clock_tick = fell_asleep + race.hare_sleep_time

=============================================================================
