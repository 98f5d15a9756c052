------------------------------- MODULE MCRace -------------------------------
(* Races for the threads: each of the three workers gets to make the       *)
(* winning move, in the first tick or in a later one.                      *)
EXTENDS Race

RaceTo(f, t, h, s, r) ==
  [tortoise_speed |-> t, hare_speed |-> h, hare_sleep_time |-> s,
   hare_turtle_distance_for_sleep |-> 1, finish_distance |-> f,
   reposition |-> r, expected |-> "T"]

God(player, time, d) == [player |-> player, time |-> time, distance |-> d]

MCRaces ==
  { RaceTo(3, 1, 1, 1, <<>>),                                  \* the Turtle
    RaceTo(3, 1, 2, 0, <<>>),                                  \* the Hare
    RaceTo(4, 1, 1, 1, <<God("H", 2, 9)>>),                    \* the Randomizer
    RaceTo(3, 1, 1, 2, <<God("T", 0, 9)>>),                    \* it, at once
    RaceTo(3, 1, 2, 1, <<God("H", 1, -9), God("T", 2, -2)>>),  \* put back
    RaceTo(3, 1, 1, 0, <<God("H", 1, 1), God("H", 1, 9)>>) }   \* one tick

MCOneRace == { RaceTo(2, 1, 1, 1, <<God("H", 1, -1)>>) }

=============================================================================
