------------------------------- MODULE Merge -------------------------------
(***************************************************************************)
(* solitaire_sync::merge: how two copies of one player's profile become    *)
(* one, on the device that pulls and on the server that is pushed to.      *)
(*                                                                         *)
(* A SyncPayload is [user, profile].                                       *)
(***************************************************************************)
EXTENDS Profile

CONSTANTS
  Player,    (* the id of the account                                      *)
  Stamp      (* the id the client stamps its payloads with: Uuid::nil() in  *)
             (* sync_plugin's build_payload                                *)

BuildPayload(p) == [user |-> Stamp, profile |-> p]

(* Mutant: always the side that merges.                                    *)
LocalSide(l, r) == l

(* The side that has won more; the local one when neither has.             *)
MoreWins(l, r) == IF l.games_won >= r.games_won THEN l ELSE r

MergeStats(l, r) ==
  LET won    == Higher(l.games_won, r.games_won)
      played == Higher(l.games_played, r.games_played)
  IN  [games_played |-> played, games_won |-> won,
       games_lost |-> Higher(played - won, 0),
       win_streak_current |-> Higher(l.win_streak_current, r.win_streak_current),
       win_streak_best |-> Higher(l.win_streak_best, r.win_streak_best),
       avg_time_seconds |-> IF won = 0 THEN 0 ELSE MoreWins(l, r).avg_time_seconds,
       fastest_win_seconds |-> Lower(l.fastest_win_seconds, r.fastest_win_seconds),
       lifetime_score |-> Higher(l.lifetime_score, r.lifetime_score),
       best_single_score |-> Higher(l.best_single_score, r.best_single_score),
       draw_one_wins |-> MoreWins(l, r).draw_one_wins,
       draw_three_wins |-> MoreWins(l, r).draw_three_wins,
       mode_best |-> [m \in BestModes |-> Higher(l.mode_best[m], r.mode_best[m])],
       mode_fastest |->
         [m \in BestModes |-> MinIgnoreZero(l.mode_fastest[m], r.mode_fastest[m])]]

---------------------------------------------------------------------------
MergeRecord(l, r) ==
  IF r.unlocked /\ ~ l.unlocked THEN r
  ELSE IF r.unlocked
       THEN [l EXCEPT !.unlock_date = Lower(@, r.unlock_date),
                      !.reward_granted = @ \/ r.reward_granted]
       ELSE l

MergeAchievements(l, r) == [id \in Achievements |-> MergeRecord(l[id], r[id])]

---------------------------------------------------------------------------
(* Mutant: the counters of the other side.                                 *)
MergeWeeklyRemote(l, r) == r.weekly

(* The counters of the later week; per goal the higher within one week (a   *)
(* profile without a week has no counters either).                         *)
MergeWeekly(l, r) ==
  IF l.week = r.week
  THEN [g \in Goals |-> Higher(l.weekly[g], r.weekly[g])]
  ELSE IF r.week > l.week THEN r.weekly ELSE l.weekly

MergeProgress(l, r) ==
  LET streak == Higher(l.daily_streak, r.daily_streak)
      xp     == Higher(l.total_xp, r.total_xp)
  IN  [total_xp |-> xp, level |-> LevelForXp(xp),
       last_daily |-> Higher(l.last_daily, r.last_daily),
       daily_streak |-> streak,
       week |-> Higher(l.week, r.week), weekly |-> MergeWeekly(l, r),
       designs |-> l.designs \cup r.designs,
       challenge_index |-> Higher(l.challenge_index, r.challenge_index),
       history |-> Newest(l.history \cup r.history),
       longest_streak |-> Higher(Higher(l.longest_streak, r.longest_streak), streak)]

---------------------------------------------------------------------------
MergeProfiles(l, r) ==
  [stats        |-> MergeStats(l.stats, r.stats),
   achievements |-> MergeAchievements(l.achievements, r.achievements),
   progress     |-> MergeProgress(l.progress, r.progress)]

(* Mutants: the server's profile replaces the local one; games are added    *)
(* up instead of taking the higher count.                                   *)
MergeAtRemoteWins(local, remote) ==
  IF local.user # remote.user THEN local
  ELSE [local EXCEPT !.profile = remote.profile]

MergeAtAddsGames(local, remote) ==
  IF local.user # remote.user THEN local
  ELSE [local EXCEPT !.profile = [MergeProfiles(@, remote.profile) EXCEPT
          !.stats.games_played = local.profile.stats.games_played
                                   + remote.profile.stats.games_played]]

(* merge_at: payloads of two users are not merged.  The conflict reports,   *)
(* that no system of the engine reads, are left out.                      *)
MergeAt(local, remote) ==
  IF local.user # remote.user THEN local
  ELSE [local EXCEPT !.profile = MergeProfiles(@, remote.profile)]

---------------------------------------------------------------------------
(* Orders on profiles: what q holds at least as much of as p does.  The    *)
(* streaks that run, the average, the games lost, the wins of each draw    *)
(* mode and the week's counters are not in it: they may go down.           *)

NoLessStats(p, q) ==
  /\ p.games_played <= q.games_played
  /\ p.games_won <= q.games_won
  /\ p.win_streak_best <= q.win_streak_best
  /\ p.lifetime_score <= q.lifetime_score
  /\ p.best_single_score <= q.best_single_score
  /\ q.fastest_win_seconds <= p.fastest_win_seconds
  /\ \A m \in BestModes :
       /\ p.mode_best[m] <= q.mode_best[m]
       /\ p.mode_fastest[m] # 0 => q.mode_fastest[m] \in 1 .. p.mode_fastest[m]

NoLessAchievements(p, q) ==
  \A id \in Achievements :
    p[id].unlocked => /\ q[id].unlocked
                      /\ q[id].unlock_date <= p[id].unlock_date
                      /\ p[id].reward_granted => q[id].reward_granted

NoLessProgress(p, q) ==
  /\ p.total_xp <= q.total_xp
  /\ p.level <= q.level
  /\ p.designs \subseteq q.designs
  /\ p.challenge_index <= q.challenge_index
  /\ p.longest_streak <= q.longest_streak
  /\ p.week <= q.week
  /\ p.week = q.week => \A g \in Goals : p.weekly[g] <= q.weekly[g]

NoLess(p, q) ==
  /\ NoLessStats(p.stats, q.stats)
  /\ NoLessAchievements(p.achievements, q.achievements)
  /\ NoLessProgress(p.progress, q.progress)
=============================================================================
