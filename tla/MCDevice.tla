------------------------------ MODULE MCDevice -----------------------------
(***************************************************************************)
(* A device over the Sunday and Monday that end one week and begin the     *)
(* next: a new player, and one who has completed the daily challenge of    *)
(* the six days before.                                                    *)
(***************************************************************************)
EXTENDS Device

MCAchievements == {"first_win", "no_undo", "daily_devotee", "comeback", "cinephile"}
MCGoals == {"weekly_5_wins", "weekly_draw_three"}

NewPlayer == [stats |-> DefaultStats, achievements |-> NoAchievements, progress |-> DefaultProgress]

(* Four wins this week, six daily challenges, a fifth win due.              *)
SixDays ==
  [stats |-> [DefaultStats EXCEPT
     !.games_played = 7, !.games_won = 6, !.games_lost = 1,
     !.win_streak_current = 2, !.win_streak_best = 4, !.avg_time_seconds = 150,
     !.fastest_win_seconds = 110, !.lifetime_score = 900, !.best_single_score = 300,
     !.draw_one_wins = 6, !.mode_best["Classic"] = 300, !.mode_fastest["Classic"] = 110],
   achievements |-> Unlock(NoAchievements, {"first_win"}, 1),
   progress |-> [DefaultProgress EXCEPT
     !.total_xp = 950, !.level = 1, !.last_daily = 6, !.daily_streak = 6,
     !.week = 1, !.weekly["weekly_5_wins"] = 4, !.history = 1 .. 6, !.longest_streak = 6]]

(* What another device of the same player pushed: on Sunday, games of       *)
(* another draw mode and an older unlock; on Monday, that day's challenge.  *)
Sunday ==
  [stats |-> [DefaultStats EXCEPT
     !.games_played = 8, !.games_won = 2, !.games_lost = 6, !.win_streak_best = 1,
     !.avg_time_seconds = 90, !.fastest_win_seconds = 80, !.lifetime_score = 500,
     !.best_single_score = 400, !.draw_three_wins = 2,
     !.mode_best["Challenge"] = 400, !.mode_fastest["Challenge"] = 80],
   achievements |-> Unlock(NoAchievements, {"comeback"}, 2),
   progress |-> [DefaultProgress EXCEPT
     !.total_xp = 400, !.week = 1, !.weekly["weekly_draw_three"] = 1, !.designs = {0, 14},
     !.challenge_index = 2]]
Monday ==
  [Sunday EXCEPT
     !.progress.week = 2, !.progress.last_daily = 8, !.progress.daily_streak = 1,
     !.progress.longest_streak = 1, !.progress.history = {8},
     !.progress.total_xp = 550, !.progress.level = 1]

DailyWin ==
  [score |-> 200, time |-> 100, draw_mode |-> "DrawThree", mode |-> "Classic",
   used_undo |-> FALSE, recycles |-> 3, hour |-> 12, daily |-> TRUE]
OtherWin ==
  [DailyWin EXCEPT !.score = 350, !.time = 200, !.mode = "Challenge",
                   !.draw_mode = "DrawOne", !.used_undo = TRUE, !.daily = FALSE]

AllSaved == {NewPlayer, SixDays}
AllWins  == {DailyWin, OtherWin}
AllAnswers == {Sunday, Monday}
=============================================================================
