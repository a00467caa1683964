------------------------------ MODULE Profile ------------------------------
(***************************************************************************)
(* The player's profile (solitaire_sync: StatsSnapshot, AchievementRecord, *)
(* PlayerProgress) and what a finished game does to each of its parts.     *)
(*                                                                         *)
(* A profile is [stats, achievements, progress], the three files on disk.  *)
(* A date and a week are numbers, 0 when there is none; last_modified, that *)
(* nothing reads, is left out; the two lists of unlocked designs are one    *)
(* set, the date list (sorted, without duplicates) is a set too.  Each      *)
(* known achievement has a record: one that is missing from a file is the   *)
(* locked record AchievementPlugin::build adds for it.                      *)
(***************************************************************************)
EXTENDS Integers, FiniteSets

CONSTANTS
  Achievements,  (* the achievement ids this build knows                  *)
  Goals,         (* the weekly goals played for, of the code's five       *)
  Never,         (* u64::MAX, the fastest win of a player without a win   *)
  HistoryCap     (* DAILY_CHALLENGE_HISTORY_CAP, 365 in the code          *)

(* WEEKLY_GOALS and the wins each asks for.                                *)
GoalTarget ==
  [weekly_5_wins |-> 5, weekly_3_no_undo |-> 3, weekly_3_fast |-> 3,
   weekly_1_under_five |-> 1, weekly_draw_three |-> 1]

ASSUME GoalsAssumption == Goals \subseteq DOMAIN GoalTarget
ASSUME NeverAssumption == Never \in Nat
ASSUME CapAssumption   == HistoryCap \in Nat \ {0}

Higher(a, b) == IF a >= b THEN a ELSE b
Lower(a, b)  == IF a <= b THEN a ELSE b

(* Modes that keep a best of their own; Difficulty counts as Classic, Time  *)
(* Attack keeps none.                                                       *)
BestModes == {"Classic", "Zen", "Challenge"}

Stats == [games_played : Nat, games_won : Nat, games_lost : Nat,
          win_streak_current : Nat, win_streak_best : Nat,
          avg_time_seconds : Nat, fastest_win_seconds : Nat,
          lifetime_score : Nat, best_single_score : Nat,
          draw_one_wins : Nat, draw_three_wins : Nat,
          mode_best : [BestModes -> Nat], mode_fastest : [BestModes -> Nat]]

AchievementRecord == [unlocked : BOOLEAN, unlock_date : Nat, reward_granted : BOOLEAN]

Progress == [total_xp : Nat, level : Nat, last_daily : Nat, daily_streak : Nat,
             week : Nat, weekly : [Goals -> Nat], designs : SUBSET Nat,
             challenge_index : Nat, history : SUBSET Nat, longest_streak : Nat]

Profiles == [stats : Stats, achievements : [Achievements -> AchievementRecord],
             progress : Progress]

(* A won game, as the systems that read GameWonEvent see it.  daily: its    *)
(* seed is the daily challenge's and the challenge's goals are met.         *)
Win == [score : Nat, time : Nat, draw_mode : {"DrawOne", "DrawThree"},
        mode : BestModes \cup {"TimeAttack"}, used_undo : BOOLEAN,
        recycles : Nat, hour : 0 .. 23, daily : BOOLEAN]

---------------------------------------------------------------------------
(* Statistics.                                                             *)

DefaultStats ==
  [games_played |-> 0, games_won |-> 0, games_lost |-> 0,
   win_streak_current |-> 0, win_streak_best |-> 0,
   avg_time_seconds |-> 0, fastest_win_seconds |-> Never,
   lifetime_score |-> 0, best_single_score |-> 0,
   draw_one_wins |-> 0, draw_three_wins |-> 0,
   mode_best |-> [m \in BestModes |-> 0],
   mode_fastest |-> [m \in BestModes |-> 0]]

RecordAbandoned(s) ==
  [s EXCEPT !.games_played = @ + 1, !.games_lost = @ + 1,
            !.win_streak_current = 0]

(* Mutant: the sum of the times divided by the wins before this one.       *)
AverageOfWinsBefore(s, time) ==
  IF s.games_won = 0 THEN time
  ELSE (s.avg_time_seconds * (s.games_won - 1) + time) \div (s.games_won + 1)

AverageWith(s, time) ==
  IF s.games_won = 0 THEN time
  ELSE (s.avg_time_seconds * s.games_won + time) \div (s.games_won + 1)

UpdateOnWin(s, w) ==
  [s EXCEPT !.games_played = @ + 1, !.games_won = @ + 1,
            !.win_streak_current = @ + 1,
            !.win_streak_best = Higher(@, s.win_streak_current + 1),
            !.lifetime_score = @ + w.score,
            !.best_single_score = Higher(@, w.score),
            !.fastest_win_seconds = Lower(@, w.time),
            !.avg_time_seconds = AverageWith(s, w.time),
            !.draw_one_wins = @ + (IF w.draw_mode = "DrawOne" THEN 1 ELSE 0),
            !.draw_three_wins = @ + (IF w.draw_mode = "DrawThree" THEN 1 ELSE 0)]

MinIgnoreZero(a, b) ==
  IF a = 0 THEN b ELSE IF b = 0 THEN a ELSE Lower(a, b)

UpdatePerModeBests(s, w) ==
  IF w.mode \in BestModes
  THEN [s EXCEPT !.mode_best[w.mode] = Higher(@, w.score),
                 !.mode_fastest[w.mode] = MinIgnoreZero(@, w.time)]
  ELSE s

---------------------------------------------------------------------------
(* Progress.                                                               *)

LevelForXp(xp) ==
  IF xp < 5000 THEN xp \div 500 ELSE 10 + (xp - 5000) \div 1000

DefaultProgress ==
  [total_xp |-> 0, level |-> 0, last_daily |-> 0, daily_streak |-> 0,
   week |-> 0, weekly |-> [g \in Goals |-> 0], designs |-> {0},
   challenge_index |-> 0, history |-> {}, longest_streak |-> 0]

AddXp(p, amount) ==
  [p EXCEPT !.total_xp = @ + amount, !.level = LevelForXp(p.total_xp + amount)]

XpForWin(w) ==
  50 + (IF w.time >= 120 THEN 0 ELSE Higher(50 - (w.time * 40) \div 120, 10))
     + (IF w.used_undo THEN 0 ELSE 25)

(* Mutant: the counters are cleared away, not set to zero.                 *)
RollWeekForgetsGoals(p, current) ==
  IF p.week = current THEN p
  ELSE [p EXCEPT !.week = current, !.weekly = [g \in {} |-> 0]]

RollWeek(p, current) ==
  IF p.week = current THEN p
  ELSE [p EXCEPT !.week = current, !.weekly = [g \in Goals |-> 0]]

GoalMatches(g, w) ==
  CASE g = "weekly_5_wins"       -> TRUE
    [] g = "weekly_3_no_undo"    -> ~ w.used_undo
    [] g = "weekly_3_fast"       -> w.time < 180
    [] g = "weekly_1_under_five" -> w.time < 300
    [] g = "weekly_draw_three"   -> w.draw_mode = "DrawThree"

WeeklyGoalXp == 75
DailyBonusXp == 100

(* evaluate_weekly_goals: roll the week, tick every goal the win matches,  *)
(* and give the bonus of the goals just completed.                         *)
EvaluateWeeklyGoals(p, w, current) ==
  LET rolled == RollWeek(p, current)
      ticked == {g \in Goals : /\ GoalMatches(g, w)
                               /\ rolled.weekly[g] < GoalTarget[g]}
      done   == {g \in ticked : rolled.weekly[g] + 1 >= GoalTarget[g]}
  IN  AddXp([rolled EXCEPT !.weekly =
               [g \in Goals |-> IF g \in ticked THEN rolled.weekly[g] + 1
                                                ELSE rolled.weekly[g]]],
            WeeklyGoalXp * Cardinality(done))

(* The dates that stay when a history is cut to its cap: the newest.       *)
Newest(dates) ==
  {d \in dates : Cardinality({e \in dates : e > d}) < HistoryCap}

RecordDailyCompletion(p, date) ==
  IF p.last_daily = date THEN p
  ELSE LET streak == IF p.last_daily # 0 /\ p.last_daily + 1 = date
                     THEN p.daily_streak + 1 ELSE 1
       IN  [p EXCEPT !.daily_streak = streak, !.last_daily = date,
                     !.history = Newest(@ \cup {date}),
                     !.longest_streak = Higher(@, streak)]

HandleDailyCompletion(p, w, date) ==
  IF w.daily /\ p.last_daily # date
  THEN AddXp(RecordDailyCompletion(p, date), DailyBonusXp) ELSE p

AdvanceOnChallengeWin(p, w) ==
  IF w.mode = "Challenge" THEN [p EXCEPT !.challenge_index = @ + 1] ELSE p

---------------------------------------------------------------------------
(* Achievements.                                                           *)

Locked == [unlocked |-> FALSE, unlock_date |-> 0, reward_granted |-> FALSE]

(* The predicates of ALL_ACHIEVEMENTS; cinephile is unlocked by a replay.   *)
UnlockedBy(id, s, p, w) ==
  CASE id = "first_win"         -> s.games_won >= 1
    [] id = "on_a_roll"         -> s.win_streak_current >= 3
    [] id = "unstoppable"       -> s.win_streak_current >= 10
    [] id = "century"           -> s.games_played >= 100
    [] id = "veteran"           -> s.games_played >= 500
    [] id = "speed_demon"       -> w.time < 180
    [] id = "lightning"         -> w.time < 90
    [] id = "high_scorer"       -> s.best_single_score >= 5000
    [] id = "point_machine"     -> s.lifetime_score >= 50000
    [] id = "no_undo"           -> ~ w.used_undo
    [] id = "draw_three_master" -> s.draw_three_wins >= 10
    [] id = "night_owl"         -> w.hour \notin 3 .. 21
    [] id = "early_bird"        -> w.hour \in 5 .. 6
    [] id = "speed_and_skill"   -> w.time < 90 /\ ~ w.used_undo
    [] id = "daily_devotee"     -> p.daily_streak >= 7
    [] id = "perfectionist"     -> ~ w.used_undo /\ w.score >= 5000
    [] id = "comeback"          -> w.recycles >= 3
    [] id = "zen_winner"        -> w.mode = "Zen"
    [] OTHER                    -> FALSE

(* Card backs keep their index, backgrounds follow them from 10 on.        *)
DesignReward(id) ==
  CASE id = "on_a_roll"         -> {1}
    [] id = "lightning"         -> {2}
    [] id = "draw_three_master" -> {3}
    [] id = "speed_and_skill"   -> {4}
    [] id = "unstoppable"       -> {11}
    [] id = "point_machine"     -> {12}
    [] id = "daily_devotee"     -> {13}
    [] id = "comeback"          -> {14}
    [] OTHER                    -> {}

XpReward(id) == IF id = "no_undo" THEN 25 ELSE 0

NoAchievements == [id \in Achievements |-> Locked]

NewlyUnlocked(records, s, p, w) ==
  {id \in Achievements : UnlockedBy(id, s, p, w) /\ ~ records[id].unlocked}

Unlock(records, ids, now) ==
  [id \in Achievements |->
     IF id \in ids
     THEN [unlocked |-> TRUE, unlock_date |-> now, reward_granted |-> TRUE]
     ELSE records[id]]

(* The rewards of the records that were never granted one.                 *)
Rewarded(p, records, ids) ==
  LET fresh == {id \in ids : ~ records[id].reward_granted}
  IN  AddXp([p EXCEPT !.designs = @ \cup UNION {DesignReward(id) : id \in fresh}],
            IF "no_undo" \in fresh THEN XpReward("no_undo") ELSE 0)

---------------------------------------------------------------------------
(* A week is numbered by its days, the days from 1.                        *)
WeekOf(day) == 1 + (day - 1) \div 7

(* The profiles a won game may leave: the systems that read GameWonEvent   *)
(* in their order, of which only the daily challenge's place relative to   *)
(* the achievements is open.  date is the daily challenge's, day today's.  *)
FinishGame(p, w, date, day) ==
  LET s      == UpdatePerModeBests(UpdateOnWin(p.stats, w), w)
      earned == AdvanceOnChallengeWin(
                  EvaluateWeeklyGoals(AddXp(p.progress, XpForWin(w)), w, WeekOf(day)), w)
      Unlocking(q) == NewlyUnlocked(p.achievements, s, q, w)
      Outcome(q, r) == [stats |-> s, achievements |-> Unlock(p.achievements, Unlocking(q), day),
                        progress |-> r]
      daily  == HandleDailyCompletion(earned, w, date)
  IN  { Outcome(daily, Rewarded(daily, p.achievements, Unlocking(daily))),
        Outcome(earned, HandleDailyCompletion(
                          Rewarded(earned, p.achievements, Unlocking(earned)), w, date)) }

---------------------------------------------------------------------------
(* What every profile satisfies, whatever was played, merged and reloaded.  *)

SoundStats(s) ==
  /\ s.games_played = s.games_won + s.games_lost
  /\ s.games_won = s.draw_one_wins + s.draw_three_wins
  /\ s.win_streak_current <= s.win_streak_best
  /\ s.win_streak_best <= s.games_won
  /\ s.best_single_score <= s.lifetime_score
  /\ \A m \in BestModes : s.mode_best[m] <= s.best_single_score

(* The fastest win is no slower than the average one.                      *)
SoundTimes(s) ==
  IF s.games_won = 0 THEN s.fastest_win_seconds = Never
  ELSE s.fastest_win_seconds <= s.avg_time_seconds

SoundProgress(p) ==
  /\ p.level = LevelForXp(p.total_xp)
  /\ p.daily_streak <= p.longest_streak
  /\ 0 \in p.designs
  /\ \A g \in Goals : p.weekly[g] <= GoalTarget[g]

(* The history is cut at its cap, and there is a streak once there is a     *)
(* completion.                                                              *)
SoundDates(p) ==
  /\ IsFiniteSet(p.history) /\ Cardinality(p.history) <= HistoryCap
  /\ p.last_daily = 0 <=> p.daily_streak = 0

SoundRecords(records) ==
  \A id \in Achievements :
    /\ records[id].reward_granted => records[id].unlocked
    /\ records[id].unlocked <=> records[id].unlock_date # 0

SoundProfile(p) ==
  /\ SoundStats(p.stats) /\ SoundTimes(p.stats)
  /\ SoundProgress(p.progress) /\ SoundDates(p.progress)
  /\ SoundRecords(p.achievements)
=============================================================================
