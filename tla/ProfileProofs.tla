--------------------------- MODULE ProfileProofs ---------------------------
(***************************************************************************)
(* What the operators on profiles preserve: every one of them takes sound  *)
(* parts to sound parts, for every set of achievements and goals and every *)
(* cap of the history.  DeviceProofs and SyncProofs build on these lemmas.  *)
(***************************************************************************)
EXTENDS Merge, FiniteSetTheorems, WellFoundedInduction, TLAPS

GoodStats(s)    == s \in Stats /\ SoundStats(s) /\ SoundTimes(s)
GoodProgress(p) == p \in Progress /\ SoundProgress(p) /\ SoundDates(p)
GoodRecords(r)  == r \in [Achievements -> AchievementRecord] /\ SoundRecords(r)

GoodProfile(p) ==
  /\ p \in Profiles
  /\ GoodStats(p.stats) /\ GoodProgress(p.progress) /\ GoodRecords(p.achievements)

(* A good profile is a sound one, with its types.                          *)
LEMMA GoodIsSound ==
  ASSUME NEW p
  PROVE  GoodProfile(p) <=> p \in Profiles /\ SoundProfile(p)
BY DEF GoodProfile, GoodStats, GoodProgress, GoodRecords, SoundProfile, Profiles

---------------------------------------------------------------------------
(* Statistics.                                                             *)

(* The integer quotient of at least m times k by k is at least m.           *)
LEMMA QuotientAtLeast ==
  ASSUME NEW x \in Nat, NEW k \in Nat \ {0}, NEW m \in Nat, x >= m * k
  PROVE  x \div k \in Nat /\ x \div k >= m
<1>1. x = k * (x \div k) + (x % k) /\ x % k \in 0 .. k - 1 /\ x \div k \in Int
  OBVIOUS
<1>2. SUFFICES ASSUME x \div k < m
               PROVE  FALSE
  BY <1>1
<1>3. x \div k <= m - 1
  BY <1>1, <1>2
<1>4. k * (x \div k) <= k * (m - 1)
  BY <1>1, <1>3
<1> QED
  BY <1>1, <1>4

(* The new average is no less than the fastest win (update_on_win).         *)
LEMMA AverageAboveFastest ==
  ASSUME NEW s \in Stats, NEW t \in Nat,
         s.games_won # 0 => s.fastest_win_seconds <= s.avg_time_seconds
  PROVE  /\ AverageWith(s, t) \in Nat
         /\ s.games_won # 0 => Lower(s.fastest_win_seconds, t) <= AverageWith(s, t)
<1> DEFINE n == s.games_won
           a == s.avg_time_seconds
           m == Lower(s.fastest_win_seconds, t)
<1>1. n \in Nat /\ a \in Nat /\ m \in Nat /\ m <= t
  BY DEF Stats, Lower
<1>2. CASE n = 0
  BY <1>1, <1>2 DEF AverageWith
<1>3. CASE n # 0
  <2>1. m <= a
    BY <1>1, <1>3 DEF Lower, Stats
  <2>2. a * n >= m * n /\ a * n + t \in Nat
    BY <1>1, <2>1
  <2>3. a * n + t >= m * (n + 1)
    BY <1>1, <2>2
  <2>4. n + 1 \in Nat \ {0}
    BY <1>1
  <2>5. (a * n + t) \div (n + 1) \in Nat /\ (a * n + t) \div (n + 1) >= m
    <3> HIDE DEF n, a, m
    <3> QED BY <1>1, <2>2, <2>3, <2>4, QuotientAtLeast
  <2> QED
    BY <1>3, <2>5 DEF AverageWith
<1> QED
  BY <1>2, <1>3

LEMMA MinIgnoreZeroType ==
  ASSUME NEW a \in Nat, NEW b \in Nat
  PROVE  MinIgnoreZero(a, b) \in Nat
BY DEF MinIgnoreZero, Lower

(* update_on_win keeps the statistics sound; the score of the win is no     *)
(* more than the best one after it.                                         *)
LEMMA UpdateOnWinGood ==
  ASSUME NEW s, GoodStats(s), NEW w \in Win
  PROVE  GoodStats(UpdateOnWin(s, w)) /\ w.score <= UpdateOnWin(s, w).best_single_score
<1> DEFINE u == UpdateOnWin(s, w)
<1>1. /\ s \in Stats /\ w.score \in Nat /\ w.time \in Nat
      /\ w.draw_mode \in {"DrawOne", "DrawThree"}
  BY DEF GoodStats, Win
<1>2. s.games_won # 0 => s.fastest_win_seconds <= s.avg_time_seconds
  BY DEF GoodStats, SoundTimes
<1>3. /\ AverageWith(s, w.time) \in Nat
      /\ s.games_won # 0 => Lower(s.fastest_win_seconds, w.time) <= AverageWith(s, w.time)
  BY <1>1, <1>2, AverageAboveFastest
<1>4. u \in Stats
  <2>1. /\ s.games_played + 1 \in Nat /\ s.games_won + 1 \in Nat
        /\ s.win_streak_current + 1 \in Nat
        /\ Higher(s.win_streak_best, s.win_streak_current + 1) \in Nat
        /\ s.lifetime_score + w.score \in Nat
        /\ Higher(s.best_single_score, w.score) \in Nat
        /\ Lower(s.fastest_win_seconds, w.time) \in Nat
        /\ s.draw_one_wins + (IF w.draw_mode = "DrawOne" THEN 1 ELSE 0) \in Nat
        /\ s.draw_three_wins + (IF w.draw_mode = "DrawThree" THEN 1 ELSE 0) \in Nat
    BY <1>1 DEF Stats, Higher, Lower
  <2> QED
    BY <1>1, <1>3, <2>1 DEF UpdateOnWin, Stats
<1>5. SoundStats(u)
  <2>1. /\ u.games_played = s.games_played + 1 /\ u.games_won = s.games_won + 1
        /\ u.games_lost = s.games_lost
        /\ u.win_streak_current = s.win_streak_current + 1
        /\ u.win_streak_best = Higher(s.win_streak_best, s.win_streak_current + 1)
    BY <1>1 DEF UpdateOnWin, Stats
  <2>2. /\ u.lifetime_score = s.lifetime_score + w.score
        /\ u.best_single_score = Higher(s.best_single_score, w.score)
        /\ u.mode_best = s.mode_best
    BY <1>1 DEF UpdateOnWin, Stats
  <2>3. u.draw_one_wins + u.draw_three_wins = s.draw_one_wins + s.draw_three_wins + 1
    BY <1>1 DEF UpdateOnWin, Stats
  <2>4. /\ s.games_played \in Nat /\ s.games_won \in Nat /\ s.games_lost \in Nat
        /\ s.win_streak_current \in Nat /\ s.win_streak_best \in Nat
        /\ s.lifetime_score \in Nat /\ s.best_single_score \in Nat
        /\ s.mode_best \in [BestModes -> Nat]
    BY <1>1 DEF Stats
  <2>5. /\ s.games_played = s.games_won + s.games_lost
        /\ s.games_won = s.draw_one_wins + s.draw_three_wins
        /\ s.win_streak_current <= s.win_streak_best
        /\ s.win_streak_best <= s.games_won
        /\ s.best_single_score <= s.lifetime_score
        /\ \A m \in BestModes : s.mode_best[m] <= s.best_single_score
    BY DEF GoodStats, SoundStats
  <2> HIDE DEF u
  <2>6. /\ u.games_played = u.games_won + u.games_lost
        /\ u.games_won = u.draw_one_wins + u.draw_three_wins
    BY <2>1, <2>3, <2>4, <2>5
  <2>7. /\ u.win_streak_current <= u.win_streak_best
        /\ u.win_streak_best <= u.games_won
    BY <2>1, <2>4, <2>5 DEF Higher
  <2>8. u.best_single_score <= u.lifetime_score
    BY <1>1, <2>2, <2>4, <2>5 DEF Higher
  <2>9. s.best_single_score <= u.best_single_score /\ u.best_single_score \in Nat
    BY <1>1, <2>2, <2>4 DEF Higher
  <2>10. \A m \in BestModes : u.mode_best[m] <= u.best_single_score
    BY <2>2, <2>4, <2>5, <2>9
  <2> QED
    BY <2>6, <2>7, <2>8, <2>10 DEF SoundStats
<1>6. SoundTimes(u)
  <2>1. u.games_won = s.games_won + 1 /\ u.avg_time_seconds = AverageWith(s, w.time)
        /\ u.fastest_win_seconds = Lower(s.fastest_win_seconds, w.time)
    BY <1>1 DEF UpdateOnWin, Stats
  <2>2. s.games_won = 0 => AverageWith(s, w.time) = w.time
    BY DEF AverageWith
  <2>3. s.fastest_win_seconds \in Nat /\ s.games_won \in Nat
    BY <1>1 DEF Stats
  <2>4. u.fastest_win_seconds <= u.avg_time_seconds
    <3>1. CASE s.games_won = 0
      BY <1>1, <2>1, <2>2, <2>3, <3>1 DEF Lower
    <3>2. CASE s.games_won # 0
      BY <1>3, <2>1, <3>2
    <3> QED
      BY <3>1, <3>2
  <2> QED
    BY <2>1, <2>3, <2>4 DEF SoundTimes
<1>7. w.score <= u.best_single_score
  BY <1>1 DEF UpdateOnWin, Stats, Higher
<1> QED
  BY <1>4, <1>5, <1>6, <1>7 DEF GoodStats

(* The records of one mode stay within the records of all.                 *)
LEMMA PerModeBestsGood ==
  ASSUME NEW s, GoodStats(s), NEW w \in Win, w.score <= s.best_single_score
  PROVE  GoodStats(UpdatePerModeBests(s, w))
<1> DEFINE u == UpdatePerModeBests(s, w)
<1>1. s \in Stats /\ w.score \in Nat /\ w.time \in Nat
  BY DEF GoodStats, Win
<1>2. CASE w.mode \in BestModes
  <2>1. /\ s.mode_best[w.mode] \in Nat /\ s.mode_fastest[w.mode] \in Nat
    BY <1>1, <1>2 DEF Stats
  <2>2. u = [s EXCEPT !.mode_best[w.mode] = Higher(s.mode_best[w.mode], w.score),
                      !.mode_fastest[w.mode] =
                         MinIgnoreZero(s.mode_fastest[w.mode], w.time)]
    BY <1>2 DEF UpdatePerModeBests
  <2>3. /\ Higher(s.mode_best[w.mode], w.score) \in Nat
        /\ MinIgnoreZero(s.mode_fastest[w.mode], w.time) \in Nat
    BY <1>1, <2>1, MinIgnoreZeroType DEF Higher
  <2>4. u \in Stats
    <3> DEFINE f == [s.mode_best EXCEPT ![w.mode] = Higher(s.mode_best[w.mode], w.score)]
               g == [s.mode_fastest EXCEPT ![w.mode] =
                       MinIgnoreZero(s.mode_fastest[w.mode], w.time)]
    <3>1. f \in [BestModes -> Nat] /\ g \in [BestModes -> Nat]
      BY <1>1, <2>3 DEF Stats
    <3>2. u = [s EXCEPT !.mode_best = f, !.mode_fastest = g]
      BY <1>1, <2>2 DEF Stats
    <3> HIDE DEF f, g, u
    <3> QED
      BY <1>1, <3>1, <3>2 DEF Stats
  <2>5. \A m \in BestModes : u.mode_best[m] =
          IF m = w.mode THEN Higher(s.mode_best[w.mode], w.score) ELSE s.mode_best[m]
    BY <1>1, <2>2 DEF Stats
  <2>6. \A m \in BestModes : u.mode_best[m] <= s.best_single_score
    BY <1>1, <2>1, <2>5 DEF GoodStats, SoundStats, Higher
  <2>7. /\ u.games_played = s.games_played /\ u.games_won = s.games_won
        /\ u.games_lost = s.games_lost
        /\ u.win_streak_current = s.win_streak_current
        /\ u.win_streak_best = s.win_streak_best
        /\ u.avg_time_seconds = s.avg_time_seconds
        /\ u.fastest_win_seconds = s.fastest_win_seconds
        /\ u.lifetime_score = s.lifetime_score
        /\ u.best_single_score = s.best_single_score
        /\ u.draw_one_wins = s.draw_one_wins /\ u.draw_three_wins = s.draw_three_wins
    BY <1>1, <2>2 DEF Stats
  <2> HIDE DEF u
  <2>8. SoundTimes(u)
    BY <2>7 DEF GoodStats, SoundTimes
  <2>9. SoundStats(u)
    BY <2>6, <2>7 DEF GoodStats, SoundStats
  <2> QED
    BY <2>4, <2>8, <2>9 DEF GoodStats, u
<1>3. CASE w.mode \notin BestModes
  BY <1>3 DEF UpdatePerModeBests
<1> QED
  BY <1>2, <1>3

LEMMA RecordAbandonedGood ==
  ASSUME NEW s, GoodStats(s)
  PROVE  GoodStats(RecordAbandoned(s))
<1> DEFINE u == RecordAbandoned(s)
<1>1. s \in Stats
  BY DEF GoodStats
<1>2. u \in Stats
  <2>1. s.games_played + 1 \in Nat /\ s.games_lost + 1 \in Nat
    BY <1>1 DEF Stats
  <2> QED
    BY <1>1, <2>1 DEF RecordAbandoned, Stats
<1>3. /\ u.games_played = s.games_played + 1 /\ u.games_lost = s.games_lost + 1
      /\ u.games_won = s.games_won /\ u.win_streak_current = 0
      /\ u.win_streak_best = s.win_streak_best
      /\ u.avg_time_seconds = s.avg_time_seconds
      /\ u.fastest_win_seconds = s.fastest_win_seconds
      /\ u.lifetime_score = s.lifetime_score
      /\ u.best_single_score = s.best_single_score
      /\ u.draw_one_wins = s.draw_one_wins /\ u.draw_three_wins = s.draw_three_wins
      /\ u.mode_best = s.mode_best
  BY <1>1 DEF RecordAbandoned, Stats
<1>4. /\ s.games_played \in Nat /\ s.games_won \in Nat /\ s.games_lost \in Nat
      /\ s.win_streak_best \in Nat
  BY <1>1 DEF Stats
<1> HIDE DEF u
<1>5. SoundTimes(u)
  BY <1>3 DEF GoodStats, SoundTimes
<1>6. u.games_played = u.games_won + u.games_lost /\ u.win_streak_current <= u.win_streak_best
  BY <1>3, <1>4 DEF GoodStats, SoundStats
<1>7. SoundStats(u)
  BY <1>3, <1>6 DEF GoodStats, SoundStats
<1> QED
  BY <1>2, <1>5, <1>7 DEF GoodStats, u

(* Merged statistics are sound: the wins of each draw mode and the average  *)
(* come from the side whose wins are counted.                              *)
LEMMA MergeStatsGood ==
  ASSUME NEW l, GoodStats(l), NEW r, GoodStats(r)
  PROVE  GoodStats(MergeStats(l, r))
<1> DEFINE m == MergeStats(l, r)
           k == MoreWins(l, r)
<1>1. l \in Stats /\ r \in Stats
  BY DEF GoodStats
<1>2. k \in {l, r} /\ k.games_won = Higher(l.games_won, r.games_won)
  BY DEF MoreWins, Higher
<1>3. GoodStats(k) /\ k \in Stats
  BY <1>1, <1>2
<1>4. /\ m.games_played = Higher(l.games_played, r.games_played)
      /\ m.games_won = k.games_won
      /\ m.games_lost = Higher(m.games_played - m.games_won, 0)
      /\ m.win_streak_current = Higher(l.win_streak_current, r.win_streak_current)
      /\ m.win_streak_best = Higher(l.win_streak_best, r.win_streak_best)
      /\ m.draw_one_wins = k.draw_one_wins /\ m.draw_three_wins = k.draw_three_wins
  BY <1>2 DEF MergeStats
<1>5. /\ m.avg_time_seconds = IF m.games_won = 0 THEN 0 ELSE k.avg_time_seconds
      /\ m.fastest_win_seconds = Lower(l.fastest_win_seconds, r.fastest_win_seconds)
      /\ m.lifetime_score = Higher(l.lifetime_score, r.lifetime_score)
      /\ m.best_single_score = Higher(l.best_single_score, r.best_single_score)
      /\ \A b \in BestModes : m.mode_best[b] = Higher(l.mode_best[b], r.mode_best[b])
  BY DEF MergeStats
<1>6. ASSUME NEW s \in {l, r}
      PROVE  /\ s.games_played \in Nat /\ s.games_won \in Nat /\ s.games_lost \in Nat
             /\ s.win_streak_current \in Nat /\ s.win_streak_best \in Nat
             /\ s.avg_time_seconds \in Nat /\ s.fastest_win_seconds \in Nat
             /\ s.lifetime_score \in Nat /\ s.best_single_score \in Nat
             /\ s.draw_one_wins \in Nat /\ s.draw_three_wins \in Nat
             /\ \A b \in BestModes : s.mode_best[b] \in Nat /\ s.mode_fastest[b] \in Nat
  BY <1>1 DEF Stats
<1>7. ASSUME NEW s \in {l, r}
      PROVE  /\ s.games_played = s.games_won + s.games_lost
             /\ s.games_won = s.draw_one_wins + s.draw_three_wins
             /\ s.win_streak_current <= s.win_streak_best
             /\ s.win_streak_best <= s.games_won
             /\ s.best_single_score <= s.lifetime_score
             /\ \A b \in BestModes : s.mode_best[b] <= s.best_single_score
  BY DEF GoodStats, SoundStats
<1>8. ASSUME NEW s \in {l, r}
      PROVE  IF s.games_won = 0 THEN s.fastest_win_seconds = Never
                                ELSE s.fastest_win_seconds <= s.avg_time_seconds
  BY DEF GoodStats, SoundTimes
<1>9. m \in Stats
  <2>1. /\ m.games_played \in Nat /\ m.games_won \in Nat /\ m.games_lost \in Nat
        /\ m.win_streak_current \in Nat /\ m.win_streak_best \in Nat
    BY <1>2, <1>4, <1>6 DEF Higher
  <2>2. /\ m.draw_one_wins \in Nat /\ m.draw_three_wins \in Nat
        /\ m.avg_time_seconds \in Nat /\ m.fastest_win_seconds \in Nat
        /\ m.lifetime_score \in Nat /\ m.best_single_score \in Nat
    BY <1>2, <1>4, <1>5, <1>6 DEF Higher, Lower
  <2>3. /\ \A b \in BestModes : Higher(l.mode_best[b], r.mode_best[b]) \in Nat
        /\ \A b \in BestModes : MinIgnoreZero(l.mode_fastest[b], r.mode_fastest[b]) \in Nat
    BY <1>6, MinIgnoreZeroType DEF Higher
  <2>4. /\ m.mode_best \in [BestModes -> Nat] /\ m.mode_fastest \in [BestModes -> Nat]
    BY <2>3 DEF MergeStats
  <2> QED
    BY <2>1, <2>2, <2>4 DEF MergeStats, Stats
<1> HIDE DEF m, k
<1>10. SoundStats(m)
  <2>1. m.games_played >= m.games_won
    BY <1>2, <1>4, <1>6, <1>7 DEF Higher
  <2>2. m.games_played = m.games_won + m.games_lost
    BY <1>4, <1>9, <2>1 DEF Higher, Stats
  <2>3. m.games_won = m.draw_one_wins + m.draw_three_wins
    BY <1>2, <1>4, <1>7
  <2>4. m.win_streak_current <= m.win_streak_best /\ m.win_streak_best <= m.games_won
    BY <1>2, <1>4, <1>6, <1>7 DEF Higher
  <2>5. m.best_single_score <= m.lifetime_score
    BY <1>5, <1>6, <1>7 DEF Higher
  <2>6. \A b \in BestModes : m.mode_best[b] <= m.best_single_score
    BY <1>5, <1>6, <1>7 DEF Higher
  <2> QED
    BY <2>2, <2>3, <2>4, <2>5, <2>6 DEF SoundStats
<1>11. SoundTimes(m)
  <2>1. CASE m.games_won = 0
    <3>1. l.games_won = 0 /\ r.games_won = 0
      BY <1>2, <1>4, <1>6, <2>1 DEF Higher
    <3>2. m.fastest_win_seconds = Never
      BY <1>5, <1>8, <3>1 DEF Lower
    <3> QED
      BY <2>1, <3>2 DEF SoundTimes
  <2>2. CASE m.games_won # 0
    <3>1. k.fastest_win_seconds <= k.avg_time_seconds
      BY <1>2, <1>4, <1>8, <2>2
    <3>2. m.fastest_win_seconds <= k.fastest_win_seconds
      BY <1>2, <1>5, <1>6 DEF Lower
    <3>3. m.fastest_win_seconds <= k.avg_time_seconds
      BY <1>2, <1>6, <1>9, <3>1, <3>2 DEF Stats
    <3> QED
      BY <1>5, <2>2, <3>3 DEF SoundTimes
  <2> QED
    BY <2>1, <2>2
<1> QED
  BY <1>9, <1>10, <1>11 DEF GoodStats, m

---------------------------------------------------------------------------
(* Progress.                                                               *)

LEMMA LevelForXpType ==
  ASSUME NEW xp \in Nat
  PROVE  LevelForXp(xp) \in Nat
<1>1. CASE xp < 5000
  <2>1. xp \div 500 \in Nat
    BY <1>1
  <2> QED
    BY <1>1, <2>1 DEF LevelForXp
<1>2. CASE ~ (xp < 5000)
  <2>1. (xp - 5000) \div 1000 \in Nat
    BY <1>2
  <2> QED
    BY <1>2, <2>1 DEF LevelForXp
<1> QED
  BY <1>1, <1>2

(* add_xp recomputes the level from the new total.                         *)
LEMMA AddXpGood ==
  ASSUME NEW p, GoodProgress(p), NEW n \in Nat
  PROVE  GoodProgress(AddXp(p, n))
<1> DEFINE q == AddXp(p, n)
<1>1. p \in Progress /\ p.total_xp + n \in Nat
  BY DEF GoodProgress, Progress
<1>2. LevelForXp(p.total_xp + n) \in Nat
  BY <1>1, LevelForXpType
<1>3. q \in Progress
  BY <1>1, <1>2 DEF AddXp, Progress
<1>4. /\ q.level = LevelForXp(q.total_xp)
      /\ q.last_daily = p.last_daily /\ q.daily_streak = p.daily_streak
      /\ q.weekly = p.weekly /\ q.designs = p.designs
      /\ q.history = p.history /\ q.longest_streak = p.longest_streak
  BY <1>1 DEF AddXp, Progress
<1> HIDE DEF q
<1>5. SoundProgress(q) /\ SoundDates(q)
  BY <1>4 DEF GoodProgress, SoundProgress, SoundDates
<1> QED
  BY <1>3, <1>5 DEF GoodProgress, q

LEMMA WeekOfType ==
  ASSUME NEW day \in Nat \ {0}
  PROVE  WeekOf(day) \in Nat
<1>1. (day - 1) \div 7 \in Nat
  OBVIOUS
<1> QED
  BY <1>1 DEF WeekOf

(* The targets of the goals in play are positive, and the goals are finite. *)
LEMMA GoalsFacts ==
  /\ IsFiniteSet(Goals)
  /\ \A g \in Goals : GoalTarget[g] \in Nat \ {0}
<1> DEFINE D == {"weekly_5_wins", "weekly_3_no_undo", "weekly_3_fast",
                 "weekly_1_under_five", "weekly_draw_three"}
<1>1. DOMAIN GoalTarget = D
  BY DEF GoalTarget
<1>2. \A g \in D : GoalTarget[g] \in Nat \ {0}
  BY DEF GoalTarget
<1>3. IsFiniteSet(D)
  <2>1. IsFiniteSet({"weekly_5_wins"})
    BY FS_Singleton
  <2>2. IsFiniteSet({"weekly_5_wins"} \cup {"weekly_3_no_undo"})
    BY <2>1, FS_AddElement
  <2>3. IsFiniteSet({"weekly_5_wins"} \cup {"weekly_3_no_undo"} \cup {"weekly_3_fast"})
    BY <2>2, FS_AddElement
  <2>4. IsFiniteSet({"weekly_5_wins"} \cup {"weekly_3_no_undo"} \cup {"weekly_3_fast"}
                      \cup {"weekly_1_under_five"})
    BY <2>3, FS_AddElement
  <2>5. IsFiniteSet({"weekly_5_wins"} \cup {"weekly_3_no_undo"} \cup {"weekly_3_fast"}
                      \cup {"weekly_1_under_five"} \cup {"weekly_draw_three"})
    BY <2>4, FS_AddElement
  <2>6. D = {"weekly_5_wins"} \cup {"weekly_3_no_undo"} \cup {"weekly_3_fast"}
              \cup {"weekly_1_under_five"} \cup {"weekly_draw_three"}
    OBVIOUS
  <2> QED
    BY <2>5, <2>6
<1> HIDE DEF D
<1>4. Goals \subseteq D
  BY <1>1, GoalsAssumption
<1> QED
  BY <1>2, <1>3, <1>4, FS_Subset

LEMMA RollWeekGood ==
  ASSUME NEW p, GoodProgress(p), NEW week \in Nat
  PROVE  GoodProgress(RollWeek(p, week))
<1> DEFINE q == RollWeek(p, week)
<1>1. CASE p.week = week
  BY <1>1 DEF RollWeek
<1>2. CASE p.week # week
  <2>1. p \in Progress
    BY DEF GoodProgress
  <2>2. q = [p EXCEPT !.week = week, !.weekly = [g \in Goals |-> 0]]
    BY <1>2 DEF RollWeek
  <2>3. q \in Progress
    <3>1. [g \in Goals |-> 0] \in [Goals -> Nat]
      OBVIOUS
    <3> QED
      BY <2>1, <2>2, <3>1 DEF Progress
  <2>4. /\ q.total_xp = p.total_xp /\ q.level = p.level
        /\ q.last_daily = p.last_daily /\ q.daily_streak = p.daily_streak
        /\ q.weekly = [g \in Goals |-> 0] /\ q.designs = p.designs
        /\ q.history = p.history /\ q.longest_streak = p.longest_streak
    BY <2>1, <2>2 DEF Progress
  <2> HIDE DEF q
  <2>5. \A g \in Goals : q.weekly[g] <= GoalTarget[g]
    BY <2>4, GoalsFacts
  <2>6. SoundProgress(q) /\ SoundDates(q)
    BY <2>4, <2>5 DEF GoodProgress, SoundProgress, SoundDates
  <2> QED
    BY <2>3, <2>6 DEF GoodProgress, q
<1> QED
  BY <1>1, <1>2

(* No counter passes its target.                                           *)
LEMMA EvaluateWeeklyGoalsGood ==
  ASSUME NEW p, GoodProgress(p), NEW w, NEW week \in Nat
  PROVE  GoodProgress(EvaluateWeeklyGoals(p, w, week))
<1> DEFINE rolled == RollWeek(p, week)
           ticked == {g \in Goals : /\ GoalMatches(g, w)
                                    /\ rolled.weekly[g] < GoalTarget[g]}
           done   == {g \in ticked : rolled.weekly[g] + 1 >= GoalTarget[g]}
           f      == [g \in Goals |-> IF g \in ticked THEN rolled.weekly[g] + 1
                                                      ELSE rolled.weekly[g]]
           q      == [rolled EXCEPT !.weekly = f]
<1>1. GoodProgress(rolled)
  BY RollWeekGood
<1>2. Cardinality(done) \in Nat
  <2>1. done \subseteq Goals
    OBVIOUS
  <2> HIDE DEF done
  <2> QED
    BY <2>1, GoalsFacts, FS_Subset, FS_CardinalityType
<1>3. WeeklyGoalXp * Cardinality(done) \in Nat
  <2> HIDE DEF done
  <2> QED
    BY <1>2 DEF WeeklyGoalXp
<1>4. EvaluateWeeklyGoals(p, w, week) = AddXp(q, WeeklyGoalXp * Cardinality(done))
  BY DEF EvaluateWeeklyGoals
<1>5. \A g \in ticked : rolled.weekly[g] < GoalTarget[g]
  OBVIOUS
<1> HIDE DEF rolled, done
<1>6. rolled \in Progress /\ \A g \in Goals : rolled.weekly[g] \in Nat
  BY <1>1 DEF GoodProgress, Progress
<1> HIDE DEF ticked
<1>7. f \in [Goals -> Nat]
  BY <1>6
<1>8. \A g \in Goals : f[g] <= GoalTarget[g]
  BY <1>1, <1>5, <1>6, GoalsFacts DEF GoodProgress, SoundProgress
<1> HIDE DEF f
<1>9. q \in Progress
  BY <1>6, <1>7 DEF Progress
<1>10. /\ q.total_xp = rolled.total_xp /\ q.level = rolled.level
       /\ q.last_daily = rolled.last_daily /\ q.daily_streak = rolled.daily_streak
       /\ q.weekly = f /\ q.designs = rolled.designs
       /\ q.history = rolled.history /\ q.longest_streak = rolled.longest_streak
  BY <1>6 DEF Progress
<1> HIDE DEF q
<1>11. SoundProgress(q) /\ SoundDates(q)
  BY <1>1, <1>8, <1>10 DEF GoodProgress, SoundProgress, SoundDates
<1>12. GoodProgress(q)
  BY <1>9, <1>11 DEF GoodProgress
<1> QED
  BY <1>3, <1>4, <1>12, AddXpGood

(* A history that is cut to its newest dates fits its cap: all of those but *)
(* the oldest are newer than the oldest.                                    *)
LEMMA NewestFits ==
  ASSUME NEW dates \in SUBSET Nat, IsFiniteSet(dates)
  PROVE  /\ Newest(dates) \in SUBSET Nat
         /\ IsFiniteSet(Newest(dates))
         /\ Cardinality(Newest(dates)) <= HistoryCap
<1> DEFINE N        == Newest(dates)
           Newer(d) == {e \in dates : e > d}
<1>1. N \subseteq dates /\ \A d \in N : Cardinality(Newer(d)) < HistoryCap
  BY DEF Newest
<1>2. IsFiniteSet(N) /\ Cardinality(N) \in Nat
  BY <1>1, FS_Subset, FS_CardinalityType
<1>3. CASE N = {}
  BY <1>2, <1>3, FS_EmptySet, CapAssumption
<1>4. CASE N # {}
  <2>1. PICK d \in N : \A e \in N : ~ (<<e, d>> \in OpToRel(<, Nat))
    <3>1. N \subseteq Nat
      BY <1>1
    <3> HIDE DEF N
    <3> QED
      BY <1>4, <3>1, WFMin, NatLessThanWellFounded
  <2>2. \A e \in N : ~ (e < d)
    <3> SUFFICES ASSUME NEW e \in N, e < d
                 PROVE  FALSE
      OBVIOUS
    <3>1. <<e, d>> \in Nat \X Nat
      BY <1>1
    <3>2. <<e, d>> \in OpToRel(<, Nat)
      BY <3>1 DEF OpToRel
    <3> QED
      BY <2>1, <3>2
  <2>3. N \ {d} \subseteq Newer(d)
    <3> SUFFICES ASSUME NEW e \in N, e # d
                 PROVE  e \in dates /\ e > d
      OBVIOUS
    <3>1. e \in dates /\ e \in Nat /\ d \in Nat
      BY <1>1
    <3> HIDE DEF N, Newer
    <3> QED
      BY <2>2, <3>1
  <2>4. IsFiniteSet(Newer(d))
    BY FS_Subset
  <2>5. Cardinality(N \ {d}) <= Cardinality(Newer(d)) /\ Cardinality(Newer(d)) \in Nat
    BY <2>3, <2>4, FS_Subset, FS_CardinalityType
  <2>6. Cardinality(N \ {d}) = Cardinality(N) - 1
    BY <1>2, <2>1, FS_RemoveElement
  <2>7. Cardinality(Newer(d)) < HistoryCap
    BY <1>1, <2>1
  <2> HIDE DEF N, Newer
  <2>8. Cardinality(N) <= HistoryCap
    BY <1>2, <2>5, <2>6, <2>7, CapAssumption
  <2> QED
    BY <1>1, <1>2, <2>8 DEF N
<1> QED
  BY <1>3, <1>4

LEMMA RecordDailyCompletionGood ==
  ASSUME NEW p, GoodProgress(p), NEW date \in Nat \ {0}
  PROVE  GoodProgress(RecordDailyCompletion(p, date))
<1> DEFINE q == RecordDailyCompletion(p, date)
           streak == IF p.last_daily # 0 /\ p.last_daily + 1 = date
                     THEN p.daily_streak + 1 ELSE 1
           h == Newest(p.history \cup {date})
<1>1. CASE p.last_daily = date
  BY <1>1 DEF RecordDailyCompletion
<1>2. CASE p.last_daily # date
  <2>1. p \in Progress
    BY DEF GoodProgress
  <2>2. streak \in Nat \ {0}
    BY <2>1 DEF Progress
  <2>3. h \in SUBSET Nat /\ IsFiniteSet(h) /\ Cardinality(h) <= HistoryCap
    <3>1. p.history \cup {date} \in SUBSET Nat
      BY <2>1 DEF Progress
    <3>2. IsFiniteSet(p.history \cup {date})
      BY FS_AddElement DEF GoodProgress, SoundDates
    <3> QED
      BY <3>1, <3>2, NewestFits
  <2>4. q = [p EXCEPT !.daily_streak = streak, !.last_daily = date, !.history = h,
                      !.longest_streak = Higher(p.longest_streak, streak)]
    BY <1>2 DEF RecordDailyCompletion
  <2> HIDE DEF streak, h
  <2>5. /\ Higher(p.longest_streak, streak) \in Nat
        /\ streak <= Higher(p.longest_streak, streak)
    BY <2>1, <2>2 DEF Progress, Higher
  <2>6. q \in Progress
    BY <2>1, <2>2, <2>3, <2>4, <2>5 DEF Progress
  <2>7. /\ q.total_xp = p.total_xp /\ q.level = p.level
        /\ q.last_daily = date /\ q.daily_streak = streak
        /\ q.weekly = p.weekly /\ q.designs = p.designs
        /\ q.history = h /\ q.longest_streak = Higher(p.longest_streak, streak)
    BY <2>1, <2>4 DEF Progress
  <2> HIDE DEF q
  <2>8. SoundProgress(q)
    BY <2>5, <2>7 DEF GoodProgress, SoundProgress
  <2>9. SoundDates(q)
    BY <2>2, <2>3, <2>7 DEF SoundDates
  <2> QED
    BY <2>6, <2>8, <2>9 DEF GoodProgress, q
<1> QED
  BY <1>1, <1>2

LEMMA HandleDailyCompletionGood ==
  ASSUME NEW p, GoodProgress(p), NEW w, NEW date \in Nat \ {0}
  PROVE  GoodProgress(HandleDailyCompletion(p, w, date))
<1>1. DailyBonusXp \in Nat
  BY DEF DailyBonusXp
<1> QED
  BY <1>1, RecordDailyCompletionGood, AddXpGood DEF HandleDailyCompletion

LEMMA AdvanceOnChallengeWinGood ==
  ASSUME NEW p, GoodProgress(p), NEW w
  PROVE  GoodProgress(AdvanceOnChallengeWin(p, w))
<1> DEFINE q == [p EXCEPT !.challenge_index = p.challenge_index + 1]
<1>1. p \in Progress /\ p.challenge_index + 1 \in Nat
  BY DEF GoodProgress, Progress
<1>2. q \in Progress
  BY <1>1 DEF Progress
<1>3. /\ q.total_xp = p.total_xp /\ q.level = p.level
      /\ q.last_daily = p.last_daily /\ q.daily_streak = p.daily_streak
      /\ q.weekly = p.weekly /\ q.designs = p.designs
      /\ q.history = p.history /\ q.longest_streak = p.longest_streak
  BY <1>1 DEF Progress
<1> HIDE DEF q
<1>4. SoundProgress(q) /\ SoundDates(q)
  BY <1>3 DEF GoodProgress, SoundProgress, SoundDates
<1>5. GoodProgress(q)
  BY <1>2, <1>4 DEF GoodProgress
<1> QED
  BY <1>5 DEF AdvanceOnChallengeWin, q

LEMMA RewardedGood ==
  ASSUME NEW p, GoodProgress(p), NEW records, NEW ids
  PROVE  GoodProgress(Rewarded(p, records, ids))
<1> DEFINE fresh == {id \in ids : ~ records[id].reward_granted}
           new   == p.designs \cup UNION {DesignReward(id) : id \in fresh}
           n     == IF "no_undo" \in fresh THEN XpReward("no_undo") ELSE 0
           q     == [p EXCEPT !.designs = new]
<1>1. Rewarded(p, records, ids) = AddXp(q, n)
  BY DEF Rewarded
<1>2. n \in Nat
  BY DEF XpReward
<1>3. p \in Progress /\ 0 \in p.designs
  BY DEF GoodProgress, SoundProgress
<1>4. \A id : DesignReward(id) \subseteq Nat
  BY DEF DesignReward
<1>5. new \in SUBSET Nat /\ 0 \in new
  BY <1>3, <1>4 DEF Progress
<1> HIDE DEF new, n
<1>6. q \in Progress
  BY <1>3, <1>5 DEF Progress
<1>7. /\ q.total_xp = p.total_xp /\ q.level = p.level
      /\ q.last_daily = p.last_daily /\ q.daily_streak = p.daily_streak
      /\ q.weekly = p.weekly /\ q.designs = new
      /\ q.history = p.history /\ q.longest_streak = p.longest_streak
  BY <1>3 DEF Progress
<1> HIDE DEF q
<1>8. SoundProgress(q) /\ SoundDates(q)
  BY <1>5, <1>7 DEF GoodProgress, SoundProgress, SoundDates
<1>9. GoodProgress(q)
  BY <1>6, <1>8 DEF GoodProgress
<1> QED
  BY <1>1, <1>2, <1>9, AddXpGood

(* Merged progress is sound: the level follows the merged total, a counter  *)
(* stays within its target, the history within its cap.                     *)
LEMMA MergeProgressGood ==
  ASSUME NEW l, GoodProgress(l), NEW r, GoodProgress(r)
  PROVE  GoodProgress(MergeProgress(l, r))
<1> DEFINE m  == MergeProgress(l, r)
           xp == Higher(l.total_xp, r.total_xp)
           h  == Newest(l.history \cup r.history)
<1>1. l \in Progress /\ r \in Progress
  BY DEF GoodProgress
<1>2. ASSUME NEW p \in {l, r}
      PROVE  /\ p.total_xp \in Nat /\ p.last_daily \in Nat /\ p.daily_streak \in Nat
             /\ p.week \in Nat /\ p.weekly \in [Goals -> Nat]
             /\ p.designs \in SUBSET Nat /\ p.challenge_index \in Nat
             /\ p.history \in SUBSET Nat /\ p.longest_streak \in Nat
  BY <1>1 DEF Progress
<1>3. ASSUME NEW p \in {l, r}
      PROVE  /\ p.daily_streak <= p.longest_streak
             /\ 0 \in p.designs
             /\ \A g \in Goals : p.weekly[g] <= GoalTarget[g]
             /\ IsFiniteSet(p.history)
             /\ p.last_daily = 0 <=> p.daily_streak = 0
  BY DEF GoodProgress, SoundProgress, SoundDates
<1>4. /\ m.total_xp = xp /\ m.level = LevelForXp(xp)
      /\ m.last_daily = Higher(l.last_daily, r.last_daily)
      /\ m.daily_streak = Higher(l.daily_streak, r.daily_streak)
      /\ m.weekly = MergeWeekly(l, r) /\ m.designs = l.designs \cup r.designs
      /\ m.history = h
      /\ m.longest_streak = Higher(Higher(l.longest_streak, r.longest_streak),
                                   Higher(l.daily_streak, r.daily_streak))
  BY DEF MergeProgress
<1>5. h \in SUBSET Nat /\ IsFiniteSet(h) /\ Cardinality(h) <= HistoryCap
  <2>1. l.history \cup r.history \in SUBSET Nat
    BY <1>2
  <2>2. IsFiniteSet(l.history \cup r.history)
    BY <1>3, FS_Union
  <2> QED
    BY <2>1, <2>2, NewestFits
<1>6. /\ MergeWeekly(l, r) \in [Goals -> Nat]
      /\ \A g \in Goals : MergeWeekly(l, r)[g] <= GoalTarget[g]
  <2>1. CASE l.week = r.week
    <3>1. MergeWeekly(l, r) = [g \in Goals |-> Higher(l.weekly[g], r.weekly[g])]
      BY <2>1 DEF MergeWeekly
    <3>2. \A g \in Goals : Higher(l.weekly[g], r.weekly[g]) \in {l.weekly[g], r.weekly[g]}
      BY DEF Higher
    <3>3. \A g \in Goals : /\ Higher(l.weekly[g], r.weekly[g]) \in Nat
                           /\ Higher(l.weekly[g], r.weekly[g]) <= GoalTarget[g]
      BY <1>2, <1>3, <3>2
    <3> QED
      BY <3>1, <3>3
  <2>2. CASE l.week # r.week
    <3>1. MergeWeekly(l, r) \in {l.weekly, r.weekly}
      BY <2>2 DEF MergeWeekly
    <3> QED
      BY <1>2, <1>3, <3>1
  <2> QED
    BY <2>1, <2>2
<1>7. xp \in Nat /\ LevelForXp(xp) \in Nat
  <2>1. xp \in Nat
    BY <1>2 DEF Higher
  <2> QED
    BY <2>1, LevelForXpType
<1>8. /\ Higher(l.last_daily, r.last_daily) \in Nat
      /\ Higher(l.daily_streak, r.daily_streak) \in Nat
      /\ Higher(l.week, r.week) \in Nat
      /\ Higher(l.challenge_index, r.challenge_index) \in Nat
      /\ Higher(Higher(l.longest_streak, r.longest_streak),
                Higher(l.daily_streak, r.daily_streak)) \in Nat
  BY <1>2 DEF Higher
<1>9. m \in Progress
  <2> HIDE DEF xp, h
  <2> QED
    BY <1>2, <1>5, <1>6, <1>7, <1>8 DEF MergeProgress, Progress, xp, h
<1> HIDE DEF m, xp, h
<1>10. SoundProgress(m)
  <2>1. m.daily_streak <= m.longest_streak
    BY <1>2, <1>4 DEF Higher
  <2> QED
    BY <1>3, <1>4, <1>6, <2>1 DEF SoundProgress
<1>11. SoundDates(m)
  <2>1. m.last_daily = 0 <=> m.daily_streak = 0
    BY <1>2, <1>3, <1>4 DEF Higher
  <2> QED
    BY <1>4, <1>5, <2>1 DEF SoundDates
<1> QED
  BY <1>9, <1>10, <1>11 DEF GoodProgress, m

---------------------------------------------------------------------------
(* Achievements.                                                           *)

LEMMA UnlockGood ==
  ASSUME NEW records, GoodRecords(records), NEW ids, NEW now \in Nat \ {0}
  PROVE  GoodRecords(Unlock(records, ids, now))
<1> DEFINE new == [unlocked |-> TRUE, unlock_date |-> now, reward_granted |-> TRUE]
           u   == Unlock(records, ids, now)
<1>1. new \in AchievementRecord
  BY DEF AchievementRecord
<1>2. \A id \in Achievements : u[id] = new \/ u[id] = records[id]
  BY DEF Unlock
<1>3. \A id \in Achievements : records[id] \in AchievementRecord
  BY DEF GoodRecords
<1>4. u \in [Achievements -> AchievementRecord]
  BY <1>1, <1>3 DEF Unlock
<1>5. SoundRecords(u)
  <2> SUFFICES ASSUME NEW id \in Achievements
               PROVE  /\ u[id].reward_granted => u[id].unlocked
                      /\ u[id].unlocked <=> u[id].unlock_date # 0
    BY DEF SoundRecords
  <2>1. CASE u[id] = new
    BY <2>1
  <2>2. CASE u[id] = records[id]
    BY <2>2 DEF GoodRecords, SoundRecords
  <2> QED
    BY <1>2, <2>1, <2>2
<1> QED
  BY <1>4, <1>5 DEF GoodRecords

LEMMA MergeAchievementsGood ==
  ASSUME NEW l, GoodRecords(l), NEW r, GoodRecords(r)
  PROVE  GoodRecords(MergeAchievements(l, r))
<1> DEFINE m == MergeAchievements(l, r)
<1>1. ASSUME NEW id \in Achievements
      PROVE  /\ MergeRecord(l[id], r[id]) \in AchievementRecord
             /\ MergeRecord(l[id], r[id]).reward_granted
                  => MergeRecord(l[id], r[id]).unlocked
             /\ MergeRecord(l[id], r[id]).unlocked
                  <=> MergeRecord(l[id], r[id]).unlock_date # 0
  <2> DEFINE a == l[id]
             b == r[id]
             c == MergeRecord(a, b)
  <2>1. a \in AchievementRecord /\ b \in AchievementRecord
    BY DEF GoodRecords
  <2>2. /\ a.reward_granted => a.unlocked
        /\ b.reward_granted => b.unlocked
        /\ a.unlocked <=> a.unlock_date # 0
        /\ b.unlocked <=> b.unlock_date # 0
    BY DEF GoodRecords, SoundRecords
  <2> HIDE DEF a, b
  <2>3. CASE a.unlocked /\ b.unlocked
    <3>1. c = [a EXCEPT !.unlock_date = Lower(a.unlock_date, b.unlock_date),
                        !.reward_granted = a.reward_granted \/ b.reward_granted]
      BY <2>3 DEF MergeRecord
    <3>2. /\ Lower(a.unlock_date, b.unlock_date) \in Nat
          /\ Lower(a.unlock_date, b.unlock_date) # 0
      BY <2>1, <2>2, <2>3 DEF AchievementRecord, Lower
    <3>3. (a.reward_granted \/ b.reward_granted) \in BOOLEAN
      OBVIOUS
    <3>4. c \in AchievementRecord
      BY <2>1, <3>1, <3>2, <3>3 DEF AchievementRecord
    <3>5. c.unlocked = a.unlocked /\ c.unlock_date = Lower(a.unlock_date, b.unlock_date)
      BY <2>1, <3>1 DEF AchievementRecord
    <3> HIDE DEF c
    <3> QED
      BY <2>3, <3>2, <3>4, <3>5 DEF c, a, b
  <2>4. CASE ~ (a.unlocked /\ b.unlocked)
    <3>1. c = a \/ c = b
      BY <2>4 DEF MergeRecord
    <3> QED
      BY <2>1, <2>2, <3>1 DEF a, b
  <2> QED
    BY <2>3, <2>4
<1>2. m \in [Achievements -> AchievementRecord]
  BY <1>1 DEF MergeAchievements
<1>3. SoundRecords(m)
  BY <1>1 DEF MergeAchievements, SoundRecords
<1> QED
  BY <1>2, <1>3 DEF GoodRecords

---------------------------------------------------------------------------
(* Whole profiles.                                                         *)

LEMMA MergeProfilesGood ==
  ASSUME NEW l, GoodProfile(l), NEW r, GoodProfile(r)
  PROVE  GoodProfile(MergeProfiles(l, r))
<1>1. /\ GoodStats(MergeStats(l.stats, r.stats))
      /\ GoodRecords(MergeAchievements(l.achievements, r.achievements))
      /\ GoodProgress(MergeProgress(l.progress, r.progress))
  BY MergeStatsGood, MergeAchievementsGood, MergeProgressGood DEF GoodProfile
<1> QED
  BY <1>1 DEF MergeProfiles, GoodProfile, GoodStats, GoodProgress, GoodRecords, Profiles

(* So are merged payloads, whoever they belong to.                         *)
LEMMA MergeAtGood ==
  ASSUME NEW u, NEW v, NEW l, GoodProfile(l), NEW r, GoodProfile(r)
  PROVE  LET m == MergeAt([user |-> u, profile |-> l], [user |-> v, profile |-> r])
         IN  m = [user |-> u, profile |-> m.profile] /\ GoodProfile(m.profile)
<1>1. GoodProfile(MergeProfiles(l, r))
  BY MergeProfilesGood
<1> QED
  BY <1>1 DEF MergeAt

(* XP for a win is a natural number.                                        *)
LEMMA XpForWinType ==
  ASSUME NEW w \in Win
  PROVE  XpForWin(w) \in Nat
<1>1. w.time \in Nat
  BY DEF Win
<1>2. (w.time * 40) \div 120 \in Nat
  BY <1>1
<1>3. Higher(50 - (w.time * 40) \div 120, 10) \in Nat
  BY <1>2 DEF Higher
<1> QED
  BY <1>3 DEF XpForWin

(* A fresh profile is sound (the Default impls).                            *)
LEMMA DefaultGood ==
  GoodProfile([stats |-> DefaultStats, achievements |-> NoAchievements,
               progress |-> DefaultProgress])
<1>1. GoodStats(DefaultStats)
  <2>1. DefaultStats \in Stats
    BY NeverAssumption DEF DefaultStats, Stats
  <2>2. SoundStats(DefaultStats) /\ SoundTimes(DefaultStats)
    BY DEF DefaultStats, SoundStats, SoundTimes
  <2> QED
    BY <2>1, <2>2 DEF GoodStats
<1>2. GoodProgress(DefaultProgress)
  <2>1. DefaultProgress \in Progress
    BY DEF DefaultProgress, Progress
  <2>2. LevelForXp(0) = 0
    BY DEF LevelForXp
  <2>3. SoundProgress(DefaultProgress)
    BY <2>2, GoalsFacts DEF DefaultProgress, SoundProgress
  <2>4. SoundDates(DefaultProgress)
    BY FS_EmptySet, CapAssumption DEF DefaultProgress, SoundDates
  <2> QED
    BY <2>1, <2>3, <2>4 DEF GoodProgress
<1>3. GoodRecords(NoAchievements)
  BY DEF GoodRecords, NoAchievements, Locked, AchievementRecord, SoundRecords
<1> QED
  BY <1>1, <1>2, <1>3
     DEF GoodProfile, Profiles, GoodStats, GoodProgress, GoodRecords

(* Changing one part of a good profile for a good part.                     *)
LEMMA PartsGood ==
  ASSUME NEW p, GoodProfile(p)
  PROVE  /\ \A s : GoodStats(s) => GoodProfile([p EXCEPT !.stats = s])
         /\ \A a : GoodRecords(a) => GoodProfile([p EXCEPT !.achievements = a])
         /\ \A q : GoodProgress(q) => GoodProfile([p EXCEPT !.progress = q])
BY DEF GoodProfile, Profiles, GoodStats, GoodProgress, GoodRecords

(* Whatever order the systems of a won game take, it leaves a good profile. *)
LEMMA FinishGameGood ==
  ASSUME NEW p, GoodProfile(p), NEW w \in Win,
         NEW date \in Nat \ {0}, NEW day \in Nat \ {0}
  PROVE  \A q \in FinishGame(p, w, date, day) : GoodProfile(q)
<1> DEFINE s      == UpdatePerModeBests(UpdateOnWin(p.stats, w), w)
           earned == AdvanceOnChallengeWin(
                       EvaluateWeeklyGoals(AddXp(p.progress, XpForWin(w)), w, WeekOf(day)), w)
           daily  == HandleDailyCompletion(earned, w, date)
           Ids(q) == NewlyUnlocked(p.achievements, s, q, w)
           first  == [stats |-> s,
                      achievements |-> Unlock(p.achievements, Ids(daily), day),
                      progress |-> Rewarded(daily, p.achievements, Ids(daily))]
           second == [stats |-> s,
                      achievements |-> Unlock(p.achievements, Ids(earned), day),
                      progress |-> HandleDailyCompletion(
                        Rewarded(earned, p.achievements, Ids(earned)), w, date)]
<1>1. FinishGame(p, w, date, day) = {first, second}
  BY DEF FinishGame
<1>2. GoodStats(s)
  BY UpdateOnWinGood, PerModeBestsGood DEF GoodProfile
<1>3. GoodProgress(earned)
  <2>1. GoodProgress(AddXp(p.progress, XpForWin(w)))
    BY XpForWinType, AddXpGood DEF GoodProfile
  <2>2. GoodProgress(
          EvaluateWeeklyGoals(AddXp(p.progress, XpForWin(w)), w, WeekOf(day)))
    BY <2>1, WeekOfType, EvaluateWeeklyGoalsGood
  <2> QED
    BY <2>2, AdvanceOnChallengeWinGood
<1>4. GoodProgress(daily)
  <2> HIDE DEF earned
  <2> QED
    BY <1>3, HandleDailyCompletionGood
<1> HIDE DEF s, earned, daily, Ids
<1>5. GoodRecords(first.achievements) /\ GoodRecords(second.achievements)
  BY UnlockGood DEF GoodProfile
<1>6. GoodProgress(first.progress) /\ GoodProgress(second.progress)
  BY <1>3, <1>4, RewardedGood, HandleDailyCompletionGood
<1>7. GoodProfile(first) /\ GoodProfile(second)
  BY <1>2, <1>5, <1>6
     DEF GoodProfile, Profiles, GoodStats, GoodProgress, GoodRecords
<1> QED
  BY <1>1, <1>7

---------------------------------------------------------------------------
(* The order NoLess.  It is reflexive and transitive on each part of a      *)
(* profile, and everything that happens to a part goes up in it.            *)

LEMMA StatsOrder ==
  ASSUME NEW a \in Stats
  PROVE  /\ NoLessStats(a, a)
         /\ \A b, c \in Stats : NoLessStats(a, b) /\ NoLessStats(b, c) => NoLessStats(a, c)
<1>1. \A s \in Stats :
        /\ s.games_played \in Nat /\ s.games_won \in Nat /\ s.win_streak_best \in Nat
        /\ s.lifetime_score \in Nat /\ s.best_single_score \in Nat
        /\ s.fastest_win_seconds \in Nat
        /\ \A m \in BestModes : s.mode_best[m] \in Nat /\ s.mode_fastest[m] \in Nat
  BY DEF Stats
<1>2. NoLessStats(a, a)
  BY <1>1 DEF NoLessStats
<1>3. ASSUME NEW b \in Stats, NEW c \in Stats, NoLessStats(a, b), NoLessStats(b, c)
      PROVE  NoLessStats(a, c)
  <2>1. ASSUME NEW m \in BestModes
        PROVE  /\ a.mode_best[m] <= c.mode_best[m]
               /\ a.mode_fastest[m] # 0 => c.mode_fastest[m] \in 1 .. a.mode_fastest[m]
    <3> DEFINE x == a.mode_fastest[m]
               y == b.mode_fastest[m]
               z == c.mode_fastest[m]
    <3>1. x \in Nat /\ y \in Nat /\ z \in Nat
      BY <1>1
    <3>2. (x # 0 => y \in 1 .. x) /\ (y # 0 => z \in 1 .. y)
      BY <1>3 DEF NoLessStats
    <3> HIDE DEF x, y, z
    <3>3. x # 0 => z \in 1 .. x
      BY <3>1, <3>2
    <3>4. a.mode_best[m] <= c.mode_best[m]
      <4>1. a.mode_best[m] <= b.mode_best[m] /\ b.mode_best[m] <= c.mode_best[m]
        BY <1>3 DEF NoLessStats
      <4> QED
        BY <1>1, <4>1
    <3> QED
      BY <3>3, <3>4 DEF x, z
  <2> QED
    BY <1>1, <1>3, <2>1 DEF NoLessStats
<1> QED
  BY <1>2, <1>3

LEMMA RecordsOrder ==
  ASSUME NEW a, GoodRecords(a)
  PROVE  /\ NoLessAchievements(a, a)
         /\ \A b, c : /\ GoodRecords(b) /\ GoodRecords(c)
                      /\ NoLessAchievements(a, b) /\ NoLessAchievements(b, c)
                      => NoLessAchievements(a, c)
<1>1. \A r : GoodRecords(r) => \A id \in Achievements : r[id].unlock_date \in Nat
  BY DEF GoodRecords, AchievementRecord
<1>2. NoLessAchievements(a, a)
  BY <1>1 DEF NoLessAchievements
<1>3. ASSUME NEW b, NEW c, GoodRecords(b), GoodRecords(c),
             NoLessAchievements(a, b), NoLessAchievements(b, c)
      PROVE  NoLessAchievements(a, c)
  <2> SUFFICES ASSUME NEW id \in Achievements, a[id].unlocked
               PROVE  /\ c[id].unlocked
                      /\ c[id].unlock_date <= a[id].unlock_date
                      /\ a[id].reward_granted => c[id].reward_granted
    BY DEF NoLessAchievements
  <2>1. /\ b[id].unlocked /\ b[id].unlock_date <= a[id].unlock_date
        /\ a[id].reward_granted => b[id].reward_granted
    BY <1>3 DEF NoLessAchievements
  <2>2. /\ c[id].unlocked /\ c[id].unlock_date <= b[id].unlock_date
        /\ b[id].reward_granted => c[id].reward_granted
    BY <1>3, <2>1 DEF NoLessAchievements
  <2>3. c[id].unlock_date <= a[id].unlock_date
    BY <1>1, <1>3, <2>1, <2>2
  <2> QED
    BY <2>1, <2>2, <2>3
<1> QED
  BY <1>2, <1>3

LEMMA ProgressOrder ==
  ASSUME NEW a \in Progress
  PROVE  /\ NoLessProgress(a, a)
         /\ \A b, c \in Progress :
              NoLessProgress(a, b) /\ NoLessProgress(b, c) => NoLessProgress(a, c)
<1>1. \A p \in Progress :
        /\ p.total_xp \in Nat /\ p.level \in Nat /\ p.challenge_index \in Nat
        /\ p.longest_streak \in Nat /\ p.week \in Nat
        /\ \A g \in Goals : p.weekly[g] \in Nat
  BY DEF Progress
<1>2. NoLessProgress(a, a)
  BY <1>1 DEF NoLessProgress
<1>3. ASSUME NEW b \in Progress, NEW c \in Progress,
             NoLessProgress(a, b), NoLessProgress(b, c)
      PROVE  NoLessProgress(a, c)
  <2>1. ASSUME a.week = c.week, NEW g \in Goals
        PROVE  a.weekly[g] <= c.weekly[g]
    <3>1. a.week = b.week /\ b.week = c.week
      BY <1>1, <1>3, <2>1 DEF NoLessProgress
    <3>2. a.weekly[g] <= b.weekly[g] /\ b.weekly[g] <= c.weekly[g]
      BY <1>3, <3>1 DEF NoLessProgress
    <3> QED
      BY <1>1, <3>2
  <2> QED
    BY <1>1, <1>3, <2>1 DEF NoLessProgress
<1> QED
  BY <1>2, <1>3

LEMMA ProfileOrder ==
  ASSUME NEW a, GoodProfile(a)
  PROVE  /\ NoLess(a, a)
         /\ \A b, c : /\ GoodProfile(b) /\ GoodProfile(c)
                      /\ NoLess(a, b) /\ NoLess(b, c)
                      => NoLess(a, c)
BY StatsOrder, RecordsOrder, ProgressOrder
   DEF NoLess, GoodProfile, GoodStats, GoodProgress

---------------------------------------------------------------------------
(* Games.                                                                  *)

LEMMA UpdateOnWinGrows ==
  ASSUME NEW s, GoodStats(s), NEW w \in Win
  PROVE  NoLessStats(s, UpdateOnWin(s, w))
<1> DEFINE u == UpdateOnWin(s, w)
<1>1. /\ s \in Stats /\ w.score \in Nat /\ w.time \in Nat
      /\ s.games_played \in Nat /\ s.games_won \in Nat /\ s.win_streak_best \in Nat
      /\ s.win_streak_current \in Nat
      /\ s.lifetime_score \in Nat /\ s.best_single_score \in Nat
      /\ s.fastest_win_seconds \in Nat
      /\ \A m \in BestModes : s.mode_best[m] \in Nat /\ s.mode_fastest[m] \in Nat
  BY DEF GoodStats, Stats, Win
<1>2. /\ u.games_played = s.games_played + 1 /\ u.games_won = s.games_won + 1
      /\ u.win_streak_best = Higher(s.win_streak_best, s.win_streak_current + 1)
      /\ u.lifetime_score = s.lifetime_score + w.score
      /\ u.best_single_score = Higher(s.best_single_score, w.score)
      /\ u.fastest_win_seconds = Lower(s.fastest_win_seconds, w.time)
      /\ u.mode_best = s.mode_best /\ u.mode_fastest = s.mode_fastest
  BY <1>1 DEF UpdateOnWin, Stats
<1> HIDE DEF u
<1>3. NoLessStats(s, u)
  BY <1>1, <1>2 DEF NoLessStats, Higher, Lower
<1> QED
  BY <1>3 DEF u

LEMMA PerModeBestsGrows ==
  ASSUME NEW s \in Stats, NEW w \in Win
  PROVE  NoLessStats(s, UpdatePerModeBests(s, w))
<1> DEFINE u == UpdatePerModeBests(s, w)
<1>1. /\ w.score \in Nat /\ w.time \in Nat
      /\ s.games_played \in Nat /\ s.games_won \in Nat /\ s.win_streak_best \in Nat
      /\ s.lifetime_score \in Nat /\ s.best_single_score \in Nat
      /\ s.fastest_win_seconds \in Nat
      /\ \A m \in BestModes : s.mode_best[m] \in Nat /\ s.mode_fastest[m] \in Nat
  BY DEF Stats, Win
<1>2. CASE w.mode \notin BestModes
  BY <1>2, StatsOrder DEF UpdatePerModeBests
<1>3. CASE w.mode \in BestModes
  <2>1. /\ u.games_played = s.games_played /\ u.games_won = s.games_won
        /\ u.win_streak_best = s.win_streak_best
        /\ u.lifetime_score = s.lifetime_score
        /\ u.best_single_score = s.best_single_score
        /\ u.fastest_win_seconds = s.fastest_win_seconds
        /\ u.mode_best = [s.mode_best EXCEPT ![w.mode] = Higher(@, w.score)]
        /\ u.mode_fastest = [s.mode_fastest EXCEPT ![w.mode] = MinIgnoreZero(@, w.time)]
    BY <1>3 DEF UpdatePerModeBests, Stats
  <2> HIDE DEF u
  <2>2. ASSUME NEW m \in BestModes
        PROVE  /\ s.mode_best[m] <= u.mode_best[m]
               /\ s.mode_fastest[m] # 0 => u.mode_fastest[m] \in 1 .. s.mode_fastest[m]
    <3> DEFINE x == s.mode_fastest[m]
               y == s.mode_best[m]
    <3>1. x \in Nat /\ y \in Nat
      BY <1>1
    <3>2. /\ u.mode_best[m] = y \/ u.mode_best[m] = Higher(y, w.score)
          /\ u.mode_fastest[m] = x \/ u.mode_fastest[m] = MinIgnoreZero(x, w.time)
      BY <2>1 DEF Stats
    <3> HIDE DEF x, y
    <3>3. y <= u.mode_best[m] /\ (x # 0 => u.mode_fastest[m] \in 1 .. x)
      BY <1>1, <3>1, <3>2 DEF Higher, MinIgnoreZero, Lower
    <3> QED
      BY <3>3 DEF x, y
  <2>3. NoLessStats(s, u)
    BY <1>1, <2>1, <2>2 DEF NoLessStats
  <2> QED
    BY <2>3 DEF u
<1> QED
  BY <1>2, <1>3

LEMMA WinGrows ==
  ASSUME NEW s, GoodStats(s), NEW w \in Win
  PROVE  NoLessStats(s, UpdatePerModeBests(UpdateOnWin(s, w), w))
<1> DEFINE u == UpdateOnWin(s, w)
           v == UpdatePerModeBests(u, w)
<1>1. /\ GoodStats(u) /\ w.score <= u.best_single_score
      /\ NoLessStats(s, u)
  BY UpdateOnWinGood, UpdateOnWinGrows
<1>2. u \in Stats /\ s \in Stats
  BY <1>1 DEF GoodStats
<1> HIDE DEF u
<1>3. GoodStats(v) /\ NoLessStats(u, v)
  BY <1>1, <1>2, PerModeBestsGood, PerModeBestsGrows
<1>4. v \in Stats
  BY <1>3 DEF GoodStats
<1> HIDE DEF v
<1>5. NoLessStats(s, v)
  BY <1>1, <1>2, <1>3, <1>4, StatsOrder
<1> QED
  BY <1>5 DEF u, v

LEMMA RecordAbandonedGrows ==
  ASSUME NEW s \in Stats
  PROVE  NoLessStats(s, RecordAbandoned(s))
<1> DEFINE u == RecordAbandoned(s)
<1>1. /\ s.games_played \in Nat /\ s.games_won \in Nat /\ s.win_streak_best \in Nat
      /\ s.lifetime_score \in Nat /\ s.best_single_score \in Nat
      /\ s.fastest_win_seconds \in Nat
      /\ \A m \in BestModes : s.mode_best[m] \in Nat /\ s.mode_fastest[m] \in Nat
  BY DEF Stats
<1>2. /\ u.games_played = s.games_played + 1 /\ u.games_won = s.games_won
      /\ u.win_streak_best = s.win_streak_best
      /\ u.lifetime_score = s.lifetime_score
      /\ u.best_single_score = s.best_single_score
      /\ u.fastest_win_seconds = s.fastest_win_seconds
      /\ u.mode_best = s.mode_best /\ u.mode_fastest = s.mode_fastest
  BY DEF RecordAbandoned, Stats
<1> HIDE DEF u
<1>3. NoLessStats(s, u)
  BY <1>1, <1>2 DEF NoLessStats
<1> QED
  BY <1>3 DEF u

LEMMA LevelGrows ==
  ASSUME NEW x \in Nat, NEW y \in Nat, x <= y
  PROVE  LevelForXp(x) <= LevelForXp(y)
<1>1. CASE y < 5000
  <2>1. x \div 500 <= y \div 500
    OBVIOUS
  <2> QED
    BY <1>1, <2>1 DEF LevelForXp
<1>2. CASE x < 5000 /\ ~ (y < 5000)
  <2>1. x \div 500 <= 10 /\ (y - 5000) \div 1000 >= 0
    BY <1>2
  <2> QED
    BY <1>2, <2>1 DEF LevelForXp
<1>3. CASE ~ (x < 5000)
  <2>1. (x - 5000) \div 1000 <= (y - 5000) \div 1000
    BY <1>3
  <2> QED
    BY <1>3, <2>1 DEF LevelForXp
<1> QED
  BY <1>1, <1>2, <1>3

(* What the progress must keep for its XP, designs and records to grow; its *)
(* level follows.                                                          *)
LEMMA ProgressGrows ==
  ASSUME NEW p, GoodProgress(p), NEW q, GoodProgress(q),
         p.total_xp <= q.total_xp, p.designs \subseteq q.designs,
         p.challenge_index <= q.challenge_index, p.longest_streak <= q.longest_streak,
         p.week <= q.week,
         p.week = q.week => \A g \in Goals : p.weekly[g] <= q.weekly[g]
  PROVE  NoLessProgress(p, q)
<1>1. p.total_xp \in Nat /\ q.total_xp \in Nat
  BY DEF GoodProgress, Progress
<1>2. p.level <= q.level
  BY <1>1, LevelGrows DEF GoodProgress, SoundProgress
<1> QED
  BY <1>2 DEF NoLessProgress

LEMMA AddXpGrows ==
  ASSUME NEW p, GoodProgress(p), NEW n \in Nat
  PROVE  NoLessProgress(p, AddXp(p, n)) /\ AddXp(p, n).week = p.week
<1> DEFINE q == AddXp(p, n)
<1>1. /\ p \in Progress /\ p.total_xp \in Nat /\ p.challenge_index \in Nat
      /\ p.longest_streak \in Nat /\ p.week \in Nat
      /\ \A g \in Goals : p.weekly[g] \in Nat
  BY DEF GoodProgress, Progress
<1>2. /\ q.total_xp = p.total_xp + n /\ q.designs = p.designs
      /\ q.challenge_index = p.challenge_index /\ q.longest_streak = p.longest_streak
      /\ q.week = p.week /\ q.weekly = p.weekly
  BY <1>1 DEF AddXp, Progress
<1>3. GoodProgress(q)
  BY AddXpGood
<1> HIDE DEF q
<1>4. NoLessProgress(p, q)
  BY <1>1, <1>2, <1>3, ProgressGrows
<1> QED
  BY <1>2, <1>4 DEF q

LEMMA RollWeekGrows ==
  ASSUME NEW p, GoodProgress(p), NEW week \in Nat, p.week <= week
  PROVE  NoLessProgress(p, RollWeek(p, week)) /\ RollWeek(p, week).week = week
<1> DEFINE q == RollWeek(p, week)
<1>1. /\ p \in Progress /\ p.total_xp \in Nat /\ p.challenge_index \in Nat
      /\ p.longest_streak \in Nat /\ p.week \in Nat
  BY DEF GoodProgress, Progress
<1>2. CASE p.week = week
  BY <1>1, <1>2, ProgressOrder DEF RollWeek
<1>3. CASE p.week # week
  <2>1. /\ q.total_xp = p.total_xp /\ q.designs = p.designs
        /\ q.challenge_index = p.challenge_index /\ q.longest_streak = p.longest_streak
        /\ q.week = week
    BY <1>1, <1>3 DEF RollWeek, Progress
  <2>2. GoodProgress(q)
    BY RollWeekGood
  <2> HIDE DEF q
  <2>3. NoLessProgress(p, q)
    BY <1>1, <1>3, <2>1, <2>2, ProgressGrows
  <2> QED
    BY <2>1, <2>3 DEF q
<1> QED
  BY <1>2, <1>3

LEMMA EvaluateWeeklyGoalsGrows ==
  ASSUME NEW p, GoodProgress(p), NEW w, NEW week \in Nat, p.week <= week
  PROVE  /\ NoLessProgress(p, EvaluateWeeklyGoals(p, w, week))
         /\ EvaluateWeeklyGoals(p, w, week).week = week
<1> DEFINE rolled == RollWeek(p, week)
           ticked == {g \in Goals : /\ GoalMatches(g, w)
                                    /\ rolled.weekly[g] < GoalTarget[g]}
           done   == {g \in ticked : rolled.weekly[g] + 1 >= GoalTarget[g]}
           f      == [g \in Goals |-> IF g \in ticked THEN rolled.weekly[g] + 1
                                                      ELSE rolled.weekly[g]]
           n      == WeeklyGoalXp * Cardinality(done)
           q      == EvaluateWeeklyGoals(p, w, week)
<1>1. /\ GoodProgress(rolled) /\ NoLessProgress(p, rolled) /\ rolled.week = week
  BY RollWeekGood, RollWeekGrows
<1>2. q = AddXp([rolled EXCEPT !.weekly = f], n)
  BY DEF EvaluateWeeklyGoals
<1>3. GoodProgress(q)
  BY EvaluateWeeklyGoalsGood
<1>4. n \in Nat
  <2>1. IsFiniteSet(done)
    BY GoalsFacts, FS_Subset
  <2>2. Cardinality(done) \in Nat
    BY <2>1, FS_CardinalityType
  <2> HIDE DEF done
  <2> QED
    BY <2>2 DEF WeeklyGoalXp
<1> HIDE DEF rolled, n, q
<1>5. /\ rolled \in Progress /\ rolled.total_xp \in Nat /\ rolled.challenge_index \in Nat
      /\ rolled.longest_streak \in Nat /\ rolled.week \in Nat
      /\ \A g \in Goals : rolled.weekly[g] \in Nat
  BY <1>1 DEF GoodProgress, Progress
<1>6. /\ q.total_xp = rolled.total_xp + n /\ q.designs = rolled.designs
      /\ q.challenge_index = rolled.challenge_index
      /\ q.longest_streak = rolled.longest_streak
      /\ q.week = rolled.week /\ q.weekly = f
  <2> HIDE DEF f
  <2> QED
    BY <1>2, <1>5 DEF AddXp, Progress
<1>7. \A g \in Goals : rolled.weekly[g] <= q.weekly[g]
  <2>1. \A g \in Goals : f[g] = rolled.weekly[g] + 1 \/ f[g] = rolled.weekly[g]
    OBVIOUS
  <2> HIDE DEF f
  <2> QED
    BY <1>5, <1>6, <2>1
<1>8. NoLessProgress(rolled, q)
  BY <1>1, <1>3, <1>4, <1>5, <1>6, <1>7, ProgressGrows
<1>9. p \in Progress /\ q \in Progress
  BY <1>3 DEF GoodProgress
<1>10. NoLessProgress(p, q)
  BY <1>1, <1>5, <1>8, <1>9, ProgressOrder
<1> QED
  BY <1>1, <1>6, <1>10 DEF q

LEMMA HandleDailyCompletionGrows ==
  ASSUME NEW p, GoodProgress(p), NEW w, NEW date \in Nat \ {0}
  PROVE  /\ NoLessProgress(p, HandleDailyCompletion(p, w, date))
         /\ HandleDailyCompletion(p, w, date).week = p.week
<1> DEFINE q == RecordDailyCompletion(p, date)
<1>1. /\ p \in Progress /\ p.total_xp \in Nat /\ p.challenge_index \in Nat
      /\ p.longest_streak \in Nat /\ p.week \in Nat /\ p.daily_streak \in Nat
      /\ \A g \in Goals : p.weekly[g] \in Nat
  BY DEF GoodProgress, Progress
<1>2. GoodProgress(q)
  BY RecordDailyCompletionGood
<1>3. NoLessProgress(p, q) /\ q.week = p.week
  <2>1. CASE p.last_daily = date
    BY <1>1, <2>1, ProgressOrder DEF RecordDailyCompletion
  <2>2. CASE p.last_daily # date
    <3>1. PICK streak \in Nat :
            /\ q.total_xp = p.total_xp /\ q.designs = p.designs
            /\ q.challenge_index = p.challenge_index
            /\ q.longest_streak = Higher(p.longest_streak, streak)
            /\ q.week = p.week /\ q.weekly = p.weekly
      <4> DEFINE k == IF p.last_daily # 0 /\ p.last_daily + 1 = date
                      THEN p.daily_streak + 1 ELSE 1
                 h == Newest(p.history \cup {date})
      <4>1. k \in Nat
        BY <1>1
      <4>2. q = [p EXCEPT !.daily_streak = k, !.last_daily = date, !.history = h,
                          !.longest_streak = Higher(p.longest_streak, k)]
        BY <2>2 DEF RecordDailyCompletion
      <4> HIDE DEF q, k, h
      <4> QED
        BY <1>1, <4>1, <4>2 DEF Progress
    <3> HIDE DEF q
    <3>2. p.longest_streak <= q.longest_streak
      BY <1>1, <3>1 DEF Higher
    <3> QED
      BY <1>1, <1>2, <3>1, <3>2, ProgressGrows
  <2> QED
    BY <2>1, <2>2
<1>4. /\ GoodProgress(AddXp(q, DailyBonusXp))
      /\ NoLessProgress(q, AddXp(q, DailyBonusXp)) /\ AddXp(q, DailyBonusXp).week = q.week
  BY <1>2, AddXpGood, AddXpGrows DEF DailyBonusXp
<1> HIDE DEF q
<1>5. NoLessProgress(p, AddXp(q, DailyBonusXp))
  <2>1. q \in Progress /\ AddXp(q, DailyBonusXp) \in Progress
    BY <1>2, <1>4 DEF GoodProgress
  <2> QED
    BY <1>1, <1>3, <1>4, <2>1, ProgressOrder
<1>6. NoLessProgress(p, p)
  BY <1>1, ProgressOrder
<1> QED
  BY <1>3, <1>4, <1>5, <1>6 DEF HandleDailyCompletion, q

LEMMA AdvanceOnChallengeWinGrows ==
  ASSUME NEW p, GoodProgress(p), NEW w
  PROVE  /\ NoLessProgress(p, AdvanceOnChallengeWin(p, w))
         /\ AdvanceOnChallengeWin(p, w).week = p.week
<1> DEFINE q == [p EXCEPT !.challenge_index = p.challenge_index + 1]
<1>1. /\ p \in Progress /\ p.total_xp \in Nat /\ p.challenge_index \in Nat
      /\ p.longest_streak \in Nat /\ p.week \in Nat /\ p.level \in Nat
      /\ \A g \in Goals : p.weekly[g] \in Nat
  BY DEF GoodProgress, Progress
<1>2. /\ q.total_xp = p.total_xp /\ q.designs = p.designs /\ q.level = p.level
      /\ q.challenge_index = p.challenge_index + 1
      /\ q.longest_streak = p.longest_streak
      /\ q.week = p.week /\ q.weekly = p.weekly
  BY <1>1 DEF Progress
<1> HIDE DEF q
<1>3. NoLessProgress(p, q)
  BY <1>1, <1>2 DEF NoLessProgress
<1>4. NoLessProgress(p, p)
  BY <1>1, ProgressOrder
<1> QED
  BY <1>2, <1>3, <1>4 DEF AdvanceOnChallengeWin, q

LEMMA RewardedGrows ==
  ASSUME NEW p, GoodProgress(p), NEW records, NEW ids
  PROVE  NoLessProgress(p, Rewarded(p, records, ids)) /\ Rewarded(p, records, ids).week = p.week
<1> DEFINE fresh == {id \in ids : ~ records[id].reward_granted}
           new   == p.designs \cup UNION {DesignReward(id) : id \in fresh}
           n     == IF "no_undo" \in fresh THEN XpReward("no_undo") ELSE 0
           q     == Rewarded(p, records, ids)
<1>1. /\ p \in Progress /\ p.total_xp \in Nat /\ p.challenge_index \in Nat
      /\ p.longest_streak \in Nat /\ p.week \in Nat
      /\ \A g \in Goals : p.weekly[g] \in Nat
  BY DEF GoodProgress, Progress
<1>2. q = AddXp([p EXCEPT !.designs = new], n)
  BY DEF Rewarded
<1>3. n \in Nat /\ p.designs \subseteq new
  BY DEF XpReward
<1>4. GoodProgress(q)
  BY RewardedGood
<1> HIDE DEF new, n, q
<1>5. /\ q.total_xp = p.total_xp + n /\ q.designs = new
      /\ q.challenge_index = p.challenge_index
      /\ q.longest_streak = p.longest_streak
      /\ q.week = p.week /\ q.weekly = p.weekly
  BY <1>1, <1>2 DEF AddXp, Progress
<1>6. NoLessProgress(p, q)
  BY <1>1, <1>3, <1>4, <1>5, ProgressGrows
<1> QED
  BY <1>5, <1>6 DEF q

(* Only what is locked is unlocked: no date moves.                          *)
LEMMA UnlockGrows ==
  ASSUME NEW records, GoodRecords(records), NEW ids, NEW now,
         \A id \in ids : ~ records[id].unlocked
  PROVE  NoLessAchievements(records, Unlock(records, ids, now))
<1>1. \A id \in Achievements : records[id].unlock_date \in Nat
  BY DEF GoodRecords, AchievementRecord
<1>2. \A id \in Achievements : records[id].unlocked => Unlock(records, ids, now)[id] = records[id]
  BY DEF Unlock
<1> QED
  BY <1>1, <1>2 DEF NoLessAchievements

---------------------------------------------------------------------------
(* Merging: neither side loses.                                            *)

LEMMA MergeStatsGrows ==
  ASSUME NEW l \in Stats, NEW r \in Stats
  PROVE  NoLessStats(l, MergeStats(l, r)) /\ NoLessStats(r, MergeStats(l, r))
<1> DEFINE m == MergeStats(l, r)
<1>1. \A s \in {l, r} :
        /\ s.games_played \in Nat /\ s.games_won \in Nat /\ s.win_streak_best \in Nat
        /\ s.lifetime_score \in Nat /\ s.best_single_score \in Nat
        /\ s.fastest_win_seconds \in Nat
        /\ \A b \in BestModes : s.mode_best[b] \in Nat /\ s.mode_fastest[b] \in Nat
  BY DEF Stats
<1>2. /\ m.games_played = Higher(l.games_played, r.games_played)
      /\ m.games_won = Higher(l.games_won, r.games_won)
      /\ m.win_streak_best = Higher(l.win_streak_best, r.win_streak_best)
      /\ m.lifetime_score = Higher(l.lifetime_score, r.lifetime_score)
      /\ m.best_single_score = Higher(l.best_single_score, r.best_single_score)
      /\ m.fastest_win_seconds = Lower(l.fastest_win_seconds, r.fastest_win_seconds)
      /\ \A b \in BestModes :
           /\ m.mode_best[b] = Higher(l.mode_best[b], r.mode_best[b])
           /\ m.mode_fastest[b] = MinIgnoreZero(l.mode_fastest[b], r.mode_fastest[b])
  BY DEF MergeStats
<1> HIDE DEF m
<1>3. ASSUME NEW s \in {l, r}
      PROVE  NoLessStats(s, m)
  <2>1. ASSUME NEW b \in BestModes
        PROVE  /\ s.mode_best[b] <= m.mode_best[b]
               /\ s.mode_fastest[b] # 0 => m.mode_fastest[b] \in 1 .. s.mode_fastest[b]
    <3> DEFINE x == l.mode_fastest[b]
               y == r.mode_fastest[b]
    <3>1. x \in Nat /\ y \in Nat
      BY <1>1
    <3>2. m.mode_fastest[b] = MinIgnoreZero(x, y)
      BY <1>2
    <3>3. s.mode_fastest[b] \in {x, y}
      OBVIOUS
    <3> HIDE DEF x, y
    <3>4. s.mode_fastest[b] # 0 => m.mode_fastest[b] \in 1 .. s.mode_fastest[b]
      BY <3>1, <3>2, <3>3 DEF MinIgnoreZero, Lower
    <3>5. s.mode_best[b] <= m.mode_best[b]
      BY <1>1, <1>2 DEF Higher
    <3> QED
      BY <3>4, <3>5
  <2>2. /\ s.games_played <= m.games_played /\ s.games_won <= m.games_won
        /\ s.win_streak_best <= m.win_streak_best
        /\ s.lifetime_score <= m.lifetime_score
        /\ s.best_single_score <= m.best_single_score
        /\ m.fastest_win_seconds <= s.fastest_win_seconds
    BY <1>1, <1>2 DEF Higher, Lower
  <2> QED
    BY <2>1, <2>2 DEF NoLessStats
<1>4. NoLessStats(l, m) /\ NoLessStats(r, m)
  BY <1>3
<1> QED
  BY <1>4 DEF m

LEMMA MergeAchievementsGrows ==
  ASSUME NEW l, GoodRecords(l), NEW r, GoodRecords(r)
  PROVE  /\ NoLessAchievements(l, MergeAchievements(l, r))
         /\ NoLessAchievements(r, MergeAchievements(l, r))
<1>1. ASSUME NEW id \in Achievements, NEW a \in {l[id], r[id]}, a.unlocked
      PROVE  LET m == MergeAchievements(l, r)[id]
             IN  /\ m.unlocked /\ m.unlock_date <= a.unlock_date
                 /\ a.reward_granted => m.reward_granted
  <2> DEFINE x == l[id]
             y == r[id]
             m == MergeRecord(x, y)
  <2>1. /\ x \in AchievementRecord /\ y \in AchievementRecord
        /\ MergeAchievements(l, r)[id] = m /\ a \in {x, y}
    BY <1>1 DEF GoodRecords, MergeAchievements
  <2>2. /\ x.unlock_date \in Nat /\ y.unlock_date \in Nat
        /\ x.unlocked \in BOOLEAN /\ y.unlocked \in BOOLEAN
        /\ x.reward_granted \in BOOLEAN /\ y.reward_granted \in BOOLEAN
        /\ x.reward_granted => x.unlocked
    <3>1. x.reward_granted => x.unlocked
      BY DEF GoodRecords, SoundRecords
    <3> QED
      BY <2>1, <3>1 DEF AchievementRecord
  <2> HIDE DEF x, y
  <2>3. CASE y.unlocked /\ ~ x.unlocked
    BY <1>1, <2>1, <2>2, <2>3 DEF MergeRecord
  <2>4. CASE ~ y.unlocked
    BY <1>1, <2>1, <2>2, <2>4 DEF MergeRecord
  <2>5. CASE y.unlocked /\ x.unlocked
    <3>1. /\ m.unlocked
          /\ m.unlock_date = Lower(x.unlock_date, y.unlock_date)
          /\ m.reward_granted = (x.reward_granted \/ y.reward_granted)
      BY <2>1, <2>5 DEF MergeRecord, AchievementRecord
    <3>2. m.unlock_date <= x.unlock_date /\ m.unlock_date <= y.unlock_date
      BY <2>2, <3>1 DEF Lower
    <3> HIDE DEF m
    <3> QED
      BY <2>1, <3>1, <3>2
  <2> QED
    BY <2>2, <2>3, <2>4, <2>5
<1> QED
  BY <1>1 DEF NoLessAchievements

LEMMA MergeProgressGrows ==
  ASSUME NEW l, GoodProgress(l), NEW r, GoodProgress(r)
  PROVE  /\ NoLessProgress(l, MergeProgress(l, r))
         /\ NoLessProgress(r, MergeProgress(l, r))
         /\ MergeProgress(l, r).week = Higher(l.week, r.week)
<1> DEFINE m == MergeProgress(l, r)
<1>1. \A p \in {l, r} :
        /\ GoodProgress(p)
        /\ p.total_xp \in Nat /\ p.challenge_index \in Nat
        /\ p.longest_streak \in Nat /\ p.week \in Nat /\ p.daily_streak \in Nat
        /\ \A g \in Goals : p.weekly[g] \in Nat
  BY DEF GoodProgress, Progress
<1>2. /\ m.total_xp = Higher(l.total_xp, r.total_xp)
      /\ m.designs = l.designs \cup r.designs
      /\ m.challenge_index = Higher(l.challenge_index, r.challenge_index)
      /\ m.longest_streak = Higher(Higher(l.longest_streak, r.longest_streak),
                                   Higher(l.daily_streak, r.daily_streak))
      /\ m.week = Higher(l.week, r.week) /\ m.weekly = MergeWeekly(l, r)
  BY DEF MergeProgress
<1>3. GoodProgress(m)
  BY MergeProgressGood
<1> HIDE DEF m
<1>4. ASSUME NEW p \in {l, r}
      PROVE  NoLessProgress(p, m)
  <2>1. /\ p.total_xp <= m.total_xp /\ p.designs \subseteq m.designs
        /\ p.challenge_index <= m.challenge_index /\ p.week <= m.week
    BY <1>1, <1>2 DEF Higher
  <2>2. p.longest_streak <= m.longest_streak
    <3>1. /\ l.longest_streak \in Nat /\ r.longest_streak \in Nat
          /\ l.daily_streak \in Nat /\ r.daily_streak \in Nat
      BY <1>1
    <3> QED
      BY <1>2, <3>1 DEF Higher
  <2>3. ASSUME p.week = m.week, NEW g \in Goals
        PROVE  p.weekly[g] <= m.weekly[g]
    <3>1. CASE l.week = r.week
      <4>1. m.weekly[g] = Higher(l.weekly[g], r.weekly[g])
        BY <1>2, <3>1 DEF MergeWeekly
      <4> QED
        BY <1>1, <4>1 DEF Higher
    <3>2. CASE l.week # r.week
      <4>1. m.weekly = p.weekly
        BY <1>1, <1>2, <2>3, <3>2 DEF MergeWeekly, Higher
      <4> QED
        BY <1>1, <4>1
    <3> QED
      BY <3>1, <3>2
  <2> QED
    BY <1>1, <1>3, <2>1, <2>2, <2>3, ProgressGrows
<1>5. NoLessProgress(l, m) /\ NoLessProgress(r, m)
  BY <1>4
<1> QED
  BY <1>2, <1>5 DEF m

LEMMA MergeProfilesGrows ==
  ASSUME NEW l, GoodProfile(l), NEW r, GoodProfile(r)
  PROVE  /\ NoLess(l, MergeProfiles(l, r)) /\ NoLess(r, MergeProfiles(l, r))
         /\ MergeProfiles(l, r).progress.week = Higher(l.progress.week, r.progress.week)
<1> DEFINE m == MergeProfiles(l, r)
<1>1. /\ m.stats = MergeStats(l.stats, r.stats)
      /\ m.achievements = MergeAchievements(l.achievements, r.achievements)
      /\ m.progress = MergeProgress(l.progress, r.progress)
  BY DEF MergeProfiles
<1>2. \A p \in {l, r} :
        p.stats \in Stats /\ GoodRecords(p.achievements) /\ GoodProgress(p.progress)
  BY DEF GoodProfile, GoodStats
<1> HIDE DEF m
<1>3. NoLess(l, m) /\ NoLess(r, m)
  BY <1>1, <1>2, MergeStatsGrows, MergeAchievementsGrows, MergeProgressGrows DEF NoLess
<1>4. m.progress.week = Higher(l.progress.week, r.progress.week)
  BY <1>1, <1>2, MergeProgressGrows
<1> QED
  BY <1>3, <1>4 DEF m

LEMMA WeeksGrow ==
  ASSUME NEW a \in Nat \ {0}, NEW b \in Nat \ {0}, a <= b
  PROVE  WeekOf(a) <= WeekOf(b)
<1>1. (a - 1) \div 7 <= (b - 1) \div 7
  OBVIOUS
<1>2. (a - 1) \div 7 \in Int /\ (b - 1) \div 7 \in Int
  OBVIOUS
<1> QED
  BY <1>1, <1>2 DEF WeekOf

(* Whatever order the systems of a won game take, it takes nothing from the *)
(* profile, unless its week is one that has not come yet.                   *)
LEMMA FinishGameGrows ==
  ASSUME NEW p, GoodProfile(p), NEW w \in Win,
         NEW date \in Nat \ {0}, NEW day \in Nat \ {0},
         p.progress.week <= WeekOf(day)
  PROVE  \A q \in FinishGame(p, w, date, day) :
           NoLess(p, q) /\ q.progress.week = WeekOf(day)
<1> DEFINE s      == UpdatePerModeBests(UpdateOnWin(p.stats, w), w)
           gained == AddXp(p.progress, XpForWin(w))
           weekly == EvaluateWeeklyGoals(gained, w, WeekOf(day))
           earned == AdvanceOnChallengeWin(weekly, w)
           daily  == HandleDailyCompletion(earned, w, date)
           Ids(q) == NewlyUnlocked(p.achievements, s, q, w)
           rewardedLast  == Rewarded(daily, p.achievements, Ids(daily))
           rewardedFirst == Rewarded(earned, p.achievements, Ids(earned))
           completed     == HandleDailyCompletion(rewardedFirst, w, date)
           first  == [stats |-> s, achievements |-> Unlock(p.achievements, Ids(daily), day),
                      progress |-> rewardedLast]
           second == [stats |-> s, achievements |-> Unlock(p.achievements, Ids(earned), day),
                      progress |-> completed]
<1>1. FinishGame(p, w, date, day) = {first, second}
  BY DEF FinishGame
<1>2. GoodStats(p.stats) /\ GoodRecords(p.achievements) /\ GoodProgress(p.progress)
  BY DEF GoodProfile
<1>3. WeekOf(day) \in Nat /\ XpForWin(w) \in Nat
  BY WeekOfType, XpForWinType
<1>4. NoLessStats(p.stats, s)
  BY <1>2, WinGrows
<1>5. \A q : \A id \in Ids(q) : ~ p.achievements[id].unlocked
  BY DEF NewlyUnlocked
<1>6. /\ NoLessAchievements(p.achievements, Unlock(p.achievements, Ids(daily), day))
      /\ NoLessAchievements(p.achievements, Unlock(p.achievements, Ids(earned), day))
  <2> HIDE DEF Ids, daily, earned
  <2> QED
    BY <1>2, <1>5, UnlockGrows
<1>7. GoodProgress(gained) /\ NoLessProgress(p.progress, gained)
      /\ gained.week = p.progress.week
  BY <1>2, <1>3, AddXpGood, AddXpGrows
<1>8. GoodProgress(weekly) /\ NoLessProgress(gained, weekly) /\ weekly.week = WeekOf(day)
  <2> HIDE DEF gained
  <2> QED
    BY <1>3, <1>7, EvaluateWeeklyGoalsGood, EvaluateWeeklyGoalsGrows
<1>9. GoodProgress(earned) /\ NoLessProgress(weekly, earned) /\ earned.week = WeekOf(day)
  <2> HIDE DEF weekly
  <2> QED
    BY <1>8, AdvanceOnChallengeWinGood, AdvanceOnChallengeWinGrows
<1> HIDE DEF earned, Ids
<1>10. GoodProgress(daily) /\ NoLessProgress(earned, daily) /\ daily.week = WeekOf(day)
  BY <1>9, HandleDailyCompletionGood, HandleDailyCompletionGrows
<1>11. /\ GoodProgress(rewardedFirst) /\ NoLessProgress(earned, rewardedFirst)
       /\ rewardedFirst.week = WeekOf(day)
  BY <1>9, RewardedGood, RewardedGrows
<1> HIDE DEF gained, weekly, daily
<1>12. /\ GoodProgress(rewardedLast) /\ NoLessProgress(daily, rewardedLast)
       /\ rewardedLast.week = WeekOf(day)
  BY <1>10, RewardedGood, RewardedGrows
<1> HIDE DEF rewardedFirst, rewardedLast
<1>13. /\ GoodProgress(completed) /\ NoLessProgress(rewardedFirst, completed)
       /\ completed.week = WeekOf(day)
  BY <1>11, HandleDailyCompletionGood, HandleDailyCompletionGrows
<1> HIDE DEF completed
<1>14. NoLessProgress(p.progress, earned)
  BY <1>2, <1>7, <1>8, <1>9, ProgressOrder DEF GoodProgress
<1>15. NoLessProgress(p.progress, rewardedLast)
  BY <1>2, <1>9, <1>10, <1>12, <1>14, ProgressOrder DEF GoodProgress
<1>16. NoLessProgress(p.progress, completed)
  BY <1>2, <1>9, <1>11, <1>13, <1>14, ProgressOrder DEF GoodProgress
<1> HIDE DEF s
<1>17. \A q \in {first, second} : NoLess(p, q) /\ q.progress.week = WeekOf(day)
  BY <1>4, <1>6, <1>12, <1>13, <1>15, <1>16 DEF NoLess
<1> QED
  BY <1>1, <1>17

---------------------------------------------------------------------------
(* What exactly a won game adds, and where the records come from.           *)
ChallengeStep(w) == IF w.mode = "Challenge" THEN 1 ELSE 0

LEMMA ChallengeCounted ==
  ASSUME NEW p, GoodProgress(p), NEW w, NEW week \in Nat
  PROVE  /\ \A n : AddXp(p, n).challenge_index = p.challenge_index
         /\ EvaluateWeeklyGoals(p, w, week).challenge_index = p.challenge_index
         /\ AdvanceOnChallengeWin(p, w).challenge_index = p.challenge_index + ChallengeStep(w)
         /\ \A date : HandleDailyCompletion(p, w, date).challenge_index = p.challenge_index
         /\ \A records, ids : Rewarded(p, records, ids).challenge_index = p.challenge_index
<1>1. p \in Progress /\ p.challenge_index \in Nat
  BY DEF GoodProgress, Progress
<1>2. ASSUME NEW q, DOMAIN q = DOMAIN p, q.challenge_index = p.challenge_index
      PROVE  \A n : AddXp(q, n).challenge_index = p.challenge_index
  BY <1>1, <1>2 DEF AddXp, Progress
<1>3. EvaluateWeeklyGoals(p, w, week).challenge_index = p.challenge_index
  <2>1. \A f : /\ DOMAIN [RollWeek(p, week) EXCEPT !.weekly = f] = DOMAIN p
               /\ [RollWeek(p, week) EXCEPT !.weekly = f].challenge_index = p.challenge_index
    BY <1>1 DEF RollWeek, Progress
  <2> QED
    BY <1>2, <2>1 DEF EvaluateWeeklyGoals
<1>4. \A date : HandleDailyCompletion(p, w, date).challenge_index = p.challenge_index
  <2>1. \A date : /\ DOMAIN RecordDailyCompletion(p, date) = DOMAIN p
                  /\ RecordDailyCompletion(p, date).challenge_index = p.challenge_index
    BY <1>1 DEF RecordDailyCompletion, Progress
  <2> QED
    BY <1>2, <2>1 DEF HandleDailyCompletion
<1>5. \A records, ids : Rewarded(p, records, ids).challenge_index = p.challenge_index
  <2>1. \A d : /\ DOMAIN [p EXCEPT !.designs = d] = DOMAIN p
               /\ [p EXCEPT !.designs = d].challenge_index = p.challenge_index
    BY <1>1 DEF Progress
  <2> QED
    BY <1>2, <2>1 DEF Rewarded
<1>6. AdvanceOnChallengeWin(p, w).challenge_index = p.challenge_index + ChallengeStep(w)
  BY <1>1 DEF AdvanceOnChallengeWin, ChallengeStep, Progress
<1> QED
  BY <1>2, <1>3, <1>4, <1>5, <1>6

LEMMA WinCounted ==
  ASSUME NEW s \in Stats, NEW w \in Win
  PROVE  LET t == UpdatePerModeBests(UpdateOnWin(s, w), w)
         IN  /\ t.games_won = s.games_won + 1 /\ t.games_played = s.games_played + 1
             /\ t.lifetime_score = s.lifetime_score + w.score
             /\ t.best_single_score \in {s.best_single_score, w.score}
             /\ t.fastest_win_seconds \in {s.fastest_win_seconds, w.time}
<1> DEFINE u == UpdateOnWin(s, w)
           t == UpdatePerModeBests(u, w)
<1>1. /\ u.games_won = s.games_won + 1 /\ u.games_played = s.games_played + 1
      /\ u.lifetime_score = s.lifetime_score + w.score
      /\ u.best_single_score \in {s.best_single_score, w.score}
      /\ u.fastest_win_seconds \in {s.fastest_win_seconds, w.time}
      /\ DOMAIN u = DOMAIN s
  BY DEF UpdateOnWin, Stats, Higher, Lower
<1> HIDE DEF u
<1>2. /\ t.games_won = u.games_won /\ t.games_played = u.games_played
      /\ t.lifetime_score = u.lifetime_score
      /\ t.best_single_score = u.best_single_score
      /\ t.fastest_win_seconds = u.fastest_win_seconds
  BY <1>1 DEF UpdatePerModeBests, Stats
<1> QED
  BY <1>1, <1>2 DEF u

LEMMA FinishGameCounts ==
  ASSUME NEW p, GoodProfile(p), NEW w \in Win,
         NEW date \in Nat \ {0}, NEW day \in Nat \ {0}
  PROVE  \A q \in FinishGame(p, w, date, day) :
           /\ q.stats = UpdatePerModeBests(UpdateOnWin(p.stats, w), w)
           /\ q.progress.challenge_index = p.progress.challenge_index + ChallengeStep(w)
<1> DEFINE s      == UpdatePerModeBests(UpdateOnWin(p.stats, w), w)
           gained == AddXp(p.progress, XpForWin(w))
           weekly == EvaluateWeeklyGoals(gained, w, WeekOf(day))
           earned == AdvanceOnChallengeWin(weekly, w)
           daily  == HandleDailyCompletion(earned, w, date)
           Ids(q) == NewlyUnlocked(p.achievements, s, q, w)
           rewardedLast  == Rewarded(daily, p.achievements, Ids(daily))
           rewardedFirst == Rewarded(earned, p.achievements, Ids(earned))
           completed     == HandleDailyCompletion(rewardedFirst, w, date)
           n == p.progress.challenge_index
<1>1. FinishGame(p, w, date, day) =
        { [stats |-> s, achievements |-> Unlock(p.achievements, Ids(daily), day),
           progress |-> rewardedLast],
          [stats |-> s, achievements |-> Unlock(p.achievements, Ids(earned), day),
           progress |-> completed] }
  BY DEF FinishGame
<1>2. GoodProgress(p.progress) /\ WeekOf(day) \in Nat /\ XpForWin(w) \in Nat
  BY WeekOfType, XpForWinType DEF GoodProfile
<1>3. GoodProgress(gained) /\ gained.challenge_index = n
  BY <1>2, AddXpGood, ChallengeCounted
<1>4. GoodProgress(weekly) /\ weekly.challenge_index = n
  <2> HIDE DEF gained
  <2> QED
    BY <1>2, <1>3, EvaluateWeeklyGoalsGood, ChallengeCounted
<1>5. GoodProgress(earned) /\ earned.challenge_index = n + ChallengeStep(w)
  <2> HIDE DEF weekly
  <2> QED
    BY <1>2, <1>4, AdvanceOnChallengeWinGood, ChallengeCounted
<1> HIDE DEF earned, Ids
<1>6. GoodProgress(daily) /\ daily.challenge_index = n + ChallengeStep(w)
  BY <1>2, <1>5, HandleDailyCompletionGood, ChallengeCounted
<1>7. GoodProgress(rewardedFirst) /\ rewardedFirst.challenge_index = n + ChallengeStep(w)
  BY <1>2, <1>5, RewardedGood, ChallengeCounted
<1> HIDE DEF daily
<1>8. rewardedLast.challenge_index = n + ChallengeStep(w)
  BY <1>2, <1>6, ChallengeCounted
<1> HIDE DEF rewardedFirst, rewardedLast
<1>9. completed.challenge_index = n + ChallengeStep(w)
  BY <1>2, <1>7, ChallengeCounted
<1> HIDE DEF completed, s
<1> QED
  BY <1>1, <1>8, <1>9 DEF s

(* Each counter and record of a merge is one of its two sides'.             *)
LEMMA MergeOfEither ==
  ASSUME NEW l, GoodProfile(l), NEW r, GoodProfile(r)
  PROVE  LET m == MergeProfiles(l, r)
         IN  /\ m.stats.games_won \in {l.stats.games_won, r.stats.games_won}
             /\ m.stats.games_played \in {l.stats.games_played, r.stats.games_played}
             /\ m.stats.lifetime_score \in {l.stats.lifetime_score, r.stats.lifetime_score}
             /\ m.stats.best_single_score \in
                  {l.stats.best_single_score, r.stats.best_single_score}
             /\ m.stats.fastest_win_seconds \in
                  {l.stats.fastest_win_seconds, r.stats.fastest_win_seconds}
             /\ m.progress.total_xp \in {l.progress.total_xp, r.progress.total_xp}
             /\ m.progress.challenge_index \in
                  {l.progress.challenge_index, r.progress.challenge_index}
BY DEF MergeProfiles, MergeStats, MergeProgress, Higher, Lower
=============================================================================
