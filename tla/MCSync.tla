------------------------------- MODULE MCSync ------------------------------
(***************************************************************************)
(* Two devices of one player, two kinds of games.                          *)
(***************************************************************************)
EXTENDS Sync, TLC

CONSTANTS d1, d2

MCDevices == {d1, d2}
Symmetry  == Permutations(MCDevices)

MCAchievements == {"first_win", "on_a_roll", "lightning"}
MCGoals == {"weekly_5_wins", "weekly_draw_three"}

Quick == [score |-> 100, time |-> 80, draw_mode |-> "DrawThree", mode |-> "Challenge",
          used_undo |-> FALSE, recycles |-> 0, hour |-> 12, daily |-> TRUE]
Slow  == [score |-> 300, time |-> 250, draw_mode |-> "DrawOne", mode |-> "Classic",
          used_undo |-> TRUE, recycles |-> 0, hour |-> 12, daily |-> FALSE]
MCWins == {Quick, Slow}
=============================================================================
