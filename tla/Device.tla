------------------------------- MODULE Device ------------------------------
(***************************************************************************)
(* The player's profile on one device: in memory (the Bevy resources), in  *)
(* three files, and what a session does to both.  A won game is handled    *)
(* by six systems of one frame, each of which changes its own part of the  *)
(* profile and saves it; an answered pull merges a remote payload in       *)
(* between.  The process may die anywhere, even between two files.         *)
(*                                                                         *)
(* A file is written atomically (a temporary file renamed over it), so a   *)
(* system that saves one file is one step here.  Two systems write more    *)
(* than one file: they leave the rest in `saving', and nothing else runs   *)
(* until it is written.                                                    *)
(***************************************************************************)
EXTENDS Merge, Sequences

CONSTANTS
  Saved,      (* profiles that may be on disk when the story begins        *)
  Wins,       (* games that may be won                                     *)
  Answers,    (* profiles that other devices may have left on the server   *)
  FirstDay,   (* bounds: the days, the games finished and the              *)
  LastDay,    (*         process starts                                    *)
  MaxGames,
  MaxStarts,
  MayCrash    (* whether the process may be killed                         *)

ASSUME DaysAssumption == FirstDay \in Nat \ {0} /\ LastDay \in Nat
ASSUME SavedAssumption ==
  \A p \in Saved \cup Answers : p \in Profiles /\ SoundProfile(p)
(* The clock has not gone back since the profiles were saved.              *)
ASSUME WeeksAssumption == \A p \in Saved : p.progress.week <= WeekOf(FirstDay)
ASSUME WinsAssumption == Wins # {} /\ Wins \subseteq Win

VARIABLES
  mem,      (* StatsResource, AchievementsResource, ProgressResource       *)
  disk,     (* stats.json, achievements.json, progress.json                *)
  running,
  date,     (* DailyChallengeResource.date                                 *)
  pulling,  (* PullTask is Some                                            *)
  frame,    (* the last won game: the systems still to run for it, the     *)
            (* profile before it, and whether nothing else has changed the *)
            (* profile (or the day) since                                  *)
  saving,   (* the files a system has yet to write, in order               *)
  day, games, starts

vars == <<mem, disk, running, date, pulling, frame, saving, day, games, starts>>

(* The systems that read GameWonEvent, and those each is ordered after      *)
(* (mutant: the achievements only after the XP).                            *)
Systems == {"stats", "xp", "weekly", "daily", "challenge", "achievements"}

AfterWithoutStats ==
  [s \in Systems |-> IF s \in {"stats", "xp"} THEN {} ELSE {"xp"}]

After ==
  [s \in Systems |-> CASE s = "stats"        -> {}
                       [] s = "xp"           -> {}
                       [] s = "achievements" -> {"stats", "xp"}
                       [] OTHER              -> {"xp"}]

Idle == running /\ frame.todo = {} /\ saving = <<>>

(* System s runs now for the won game.                                     *)
RunsNow(s) ==
  /\ running /\ saving = <<>>
  /\ s \in frame.todo
  /\ After[s] \cap frame.todo = {}
  /\ frame' = [frame EXCEPT !.todo = @ \ {s}]

NoFrame(p) ==
  [todo |-> {}, win |-> CHOOSE w \in Wins : TRUE, before |-> p, only |-> FALSE]

Init ==
  /\ disk \in Saved
  /\ mem = disk
  /\ frame = NoFrame(disk)
  /\ running = FALSE /\ pulling = FALSE /\ saving = <<>>
  /\ day = FirstDay /\ date = FirstDay
  /\ games = 0 /\ starts = 0

---------------------------------------------------------------------------
(* Launch: load the files, roll the week (and save it when it did), start   *)
(* a pull.                                                                  *)
Start ==
  LET rolled == RollWeek(disk.progress, WeekOf(day))
  IN  /\ ~ running /\ starts < MaxStarts
      /\ mem' = [disk EXCEPT !.progress = rolled] /\ disk' = mem'
      /\ frame' = NoFrame(mem')
      /\ running' = TRUE /\ pulling' = TRUE
      /\ date' = day
      /\ starts' = starts + 1
      /\ UNCHANGED <<saving, day, games>>

ManualSync ==
  /\ Idle /\ ~ pulling
  /\ pulling' = TRUE
  /\ UNCHANGED <<mem, disk, running, date, frame, saving, day, games, starts>>

(* poll_pull_result with an answer: it is not ordered with the systems of a *)
(* won game.                                                                *)
PollPull(remote) ==
  /\ running /\ pulling /\ saving = <<>>
  /\ remote.progress.last_daily <= day
  /\ remote.progress.week <= WeekOf(day)
  /\ mem' = MergeAt(BuildPayload(mem), [user |-> Player, profile |-> remote]).profile
  /\ frame' = [frame EXCEPT !.only = FALSE]
  /\ saving' = <<"stats", "achievements", "progress">>
  /\ pulling' = FALSE
  /\ UNCHANGED <<disk, running, date, day, games, starts>>

(* poll_pull_result with an error.                                          *)
PullFails ==
  /\ running /\ pulling
  /\ pulling' = FALSE
  /\ UNCHANGED <<mem, disk, running, date, frame, saving, day, games, starts>>

(* The next file of the system that is saving.                             *)
Save ==
  /\ saving # <<>>
  /\ disk' = [disk EXCEPT ![Head(saving)] = mem[Head(saving)]]
  /\ saving' = Tail(saving)
  /\ UNCHANGED <<mem, running, date, pulling, frame, day, games, starts>>
---------------------------------------------------------------------------
(* A won game: GameWonEvent is written, the systems of the frame run.       *)
WinGame(w) ==
  /\ Idle /\ games < MaxGames
  /\ frame' = [todo |-> Systems, win |-> w, before |-> mem, only |-> TRUE]
  /\ games' = games + 1
  /\ UNCHANGED <<mem, disk, running, date, pulling, saving, day, starts>>

(* A system that changes one part of the profile and saves it.             *)
WritePart(part, value) ==
  /\ mem' = [mem EXCEPT ![part] = value]
  /\ disk' = [disk EXCEPT ![part] = value]
  /\ UNCHANGED <<running, date, pulling, saving, day, games, starts>>

UpdateStatsOnWin ==
  /\ RunsNow("stats")
  /\ WritePart("stats", UpdatePerModeBests(UpdateOnWin(mem.stats, frame.win), frame.win))

AwardXpOnWin ==
  /\ RunsNow("xp")
  /\ WritePart("progress", AddXp(mem.progress, XpForWin(frame.win)))

WeeklyGoalsOnWin ==
  /\ RunsNow("weekly")
  /\ WritePart("progress", EvaluateWeeklyGoals(mem.progress, frame.win, WeekOf(day)))

DailyOnWin ==
  /\ RunsNow("daily")
  /\ WritePart("progress", HandleDailyCompletion(mem.progress, frame.win, date))

ChallengeOnWin ==
  /\ RunsNow("challenge")
  /\ WritePart("progress", AdvanceOnChallengeWin(mem.progress, frame.win))

(* Mutant: the reward is saved only with the next win.                     *)
FilesChangedUnlocksOnly(old, new) ==
  IF old.achievements # new.achievements THEN <<"achievements">> ELSE <<>>

(* The files evaluate_on_win writes, in order.                             *)
FilesChanged(old, new) ==
  (IF old.achievements # new.achievements THEN <<"achievements">> ELSE <<>>)
    \o (IF old.progress # new.progress THEN <<"progress">> ELSE <<>>)

(* evaluate_on_win: unlock, reward, then save the achievements, and the     *)
(* progress when a reward changed it.                                       *)
EvaluateOnWin ==
  LET ids == NewlyUnlocked(mem.achievements, mem.stats, mem.progress, frame.win)
  IN  /\ RunsNow("achievements")
      /\ mem' = [mem EXCEPT !.achievements = Unlock(@, ids, day),
                            !.progress = Rewarded(@, mem.achievements, ids)]
      /\ saving' = FilesChanged(mem, mem')
      /\ UNCHANGED <<disk, running, date, pulling, day, games, starts>>

(* A replay watched to its end unlocks cinephile: like poll_pull_result,    *)
(* evaluate_cinephile_on_replay_completion is not ordered with the systems  *)
(* of a won game.                                                           *)
WatchReplay ==
  /\ running /\ saving = <<>>
  /\ "cinephile" \in Achievements
  /\ ~ mem.achievements["cinephile"].unlocked
  /\ frame' = [frame EXCEPT !.only = FALSE]
  /\ WritePart("achievements", Unlock(mem.achievements, {"cinephile"}, day))

(* A game begun and left: update_stats_on_new_game, once per request.  A    *)
(* forfeit is counted twice, by handle_forfeit and for the request it       *)
(* writes: two of these steps.                                              *)
AbandonGame ==
  /\ Idle /\ games < MaxGames
  /\ games' = games + 1
  /\ mem' = [mem EXCEPT !.stats = RecordAbandoned(@)]
  /\ disk' = [disk EXCEPT !.stats = RecordAbandoned(mem.stats)]
  /\ frame' = [frame EXCEPT !.only = FALSE]
  /\ UNCHANGED <<running, date, pulling, saving, day, starts>>

Exit ==
  /\ Idle
  /\ running' = FALSE /\ pulling' = FALSE
  /\ UNCHANGED <<mem, disk, date, frame, saving, day, games, starts>>

(* The process is killed: memory is lost, files keep what was renamed.     *)
Crash ==
  /\ MayCrash /\ running
  /\ running' = FALSE /\ pulling' = FALSE /\ saving' = <<>>
  /\ mem' = disk
  /\ frame' = NoFrame(disk)
  /\ UNCHANGED <<disk, date, day, games, starts>>

(* Midnight, between two frames.                                           *)
NextDay ==
  /\ frame.todo = {} /\ saving = <<>> /\ day < LastDay
  /\ day' = day + 1
  /\ frame' = [frame EXCEPT !.only = FALSE]
  /\ UNCHANGED <<mem, disk, running, date, pulling, saving, games, starts>>

Next ==
  \/ Start \/ ManualSync \/ PullFails \/ Save \/ Exit \/ Crash \/ NextDay
  \/ \E remote \in Answers : PollPull(remote)
  \/ \E w \in Wins : WinGame(w)
  \/ UpdateStatsOnWin \/ AwardXpOnWin \/ WeeklyGoalsOnWin \/ DailyOnWin
  \/ ChallengeOnWin \/ EvaluateOnWin \/ WatchReplay \/ AbandonGame

Spec == Init /\ [][Next]_vars

---------------------------------------------------------------------------
(* Every variable keeps its type (the profile of lib.rs SyncPayload, the    *)
(* resources of the plugins).                                               *)
TypeOK ==
  /\ mem \in Profiles /\ disk \in Profiles
  /\ running \in BOOLEAN /\ pulling \in BOOLEAN
  /\ frame.todo \subseteq Systems /\ frame.win \in Wins
  /\ saving \in Seq({"stats", "achievements", "progress"})
  /\ day \in FirstDay .. Higher(FirstDay, LastDay) /\ date <= day

(* Profile soundness: in memory and on disk, after any order of wins,       *)
(* merges, saves and kills, the counters of update_on_win, add_xp,          *)
(* record_daily_completion and merge_at agree with one another and no       *)
(* unlock is half recorded.                                                 *)
ProfilesSound == SoundProfile(mem) /\ SoundProfile(disk)

(* A won game is credited once and whole: the six systems, in whatever     *)
(* order the schedule picks, leave the profile one of the two ways          *)
(* FinishGame says, when no pull was merged and no replay ended on the way. *)
FrameCreditsOneWin ==
  frame.todo = {} /\ frame.only =>
    mem \in FinishGame(frame.before, frame.win, date, day)

(* Between two frames the files hold what memory holds: no system changes   *)
(* the profile without saving the part it changed.                          *)
SavedAtRest == Idle => disk = mem

(* Neither wins, merges, restarts nor kills take anything from the files:   *)
(* ARCHITECTURE.md, the local file is the source of truth.                  *)
DiskNeverLoses == [][NoLess(disk, disk')]_vars
=============================================================================
