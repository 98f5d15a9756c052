---------------------------- MODULE MCRaceRules ----------------------------
(* The input files and the small races TLC runs.                           *)
EXTENDS RaceNaps, SequencesExt

God(player, time, d) == [player |-> player, time |-> time, distance |-> d]

\* tortoise_speed, hare_speed, hare_sleep_time, lead, finish, array, winner.
RaceOf(t, h, s, l, f, r, w) ==
  [tortoise_speed |-> t, hare_speed |-> h, hare_sleep_time |-> s,
   hare_turtle_distance_for_sleep |-> l, finish_distance |-> f,
   reposition |-> r, expected |-> w]

\* 3_race/Testcases/test1.txt, test2.txt and test3.txt.
MCTestFiles ==
  LET gods == <<God("T", 20, 1000), God("H", 30, -100), God("T", 40, 2000)>>
  IN  { RaceOf(100, 200, 200, 1000, 10000, gods, "T"),
        RaceOf(10, 20, 200, 1000, 10000, gods, "T"),
        RaceOf(200, 200, 0, 100000, 1000, <<>>, "T") }

\* With them the race that 3_race/Testcases/test_format.txt gives as a sample.
MCInputFiles ==
  MCTestFiles \cup
    { RaceOf(10, 200, 2, 1, 1000,
             <<God("T", 2, 100), God("H", 3, -10), God("T", 4, 200)>>, "H") }

\* Every array of at most two repositionings over few times and distances:
\* small steps, one past the finish and one back past the start, in order,
\* out of order, and two at the same time.
MCGods == {God(p, time, d) : p \in Players, time \in {0, 1, 3}, d \in {-9, 2, 9}}
MCArrays == BoundedSeq(MCGods, 2)

MCSmallRaces ==
  { RaceOf(t, h, s, l, 5, r, "T") :
      t \in {1, 2}, h \in {0, 1, 3}, s \in {0, 1, 2}, l \in {0, 2},
      r \in MCArrays }

MCRaces == MCTestFiles \cup MCSmallRaces

=============================================================================
