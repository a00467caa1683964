---------------------------- MODULE DeviceProofs ---------------------------
(***************************************************************************)
(* The profile in memory and the profile on disk stay sound, whatever is   *)
(* played, merged, saved and killed in whatever order: for every set of    *)
(* achievements, goals, saved profiles, won games and answers.             *)
(*                                                                         *)
(* SoundProfile is a conjunction of facts about one part each, so a profile *)
(* of which some parts are older than others is sound when the parts are:  *)
(* that is why a kill between two files does no harm to it.  And a won game *)
(* is credited once and whole, whatever the order of the systems.          *)
(***************************************************************************)
EXTENDS Device, ProfileProofs, SequenceTheorems

Parts  == {"stats", "achievements", "progress"}
Frames == [todo : SUBSET Systems, win : Wins, before : Profiles, only : BOOLEAN]

(* The inductive invariant: TypeOK says nothing of the profile a frame     *)
(* began with, nor that a date is one.                                     *)
IInv ==
  /\ GoodProfile(mem) /\ GoodProfile(disk)
  /\ running \in BOOLEAN /\ pulling \in BOOLEAN
  /\ frame \in Frames
  /\ saving \in Seq(Parts)
  /\ day \in FirstDay .. Higher(FirstDay, LastDay)
  /\ date \in Nat \ {0} /\ date <= day

---------------------------------------------------------------------------
LEMMA DaysPositive == IInv => day \in Nat \ {0} /\ date \in Nat \ {0}
BY DaysAssumption DEF IInv, Higher

LEMMA NoFrameType ==
  ASSUME NEW p, GoodProfile(p)
  PROVE  NoFrame(p) \in Frames
<1>1. (CHOOSE w \in Wins : TRUE) \in Wins
  BY WinsAssumption
<1> QED
  BY <1>1 DEF NoFrame, Frames, GoodProfile

(* A frame of which the systems or the mark change is a frame.             *)
LEMMA FrameChanges ==
  ASSUME NEW f \in Frames
  PROVE  /\ \A t \in SUBSET Systems : [f EXCEPT !.todo = t] \in Frames
         /\ \A b \in BOOLEAN : [f EXCEPT !.only = b] \in Frames
         /\ f.win \in Win /\ f.todo \subseteq Systems
BY WinsAssumption DEF Frames

LEMMA InitInv == Init => IInv
<1> SUFFICES ASSUME Init
             PROVE  IInv
  OBVIOUS
<1>1. GoodProfile(disk)
  BY SavedAssumption, GoodIsSound DEF Init
<1>2. frame \in Frames
  BY <1>1, NoFrameType DEF Init
<1>3. day \in FirstDay .. Higher(FirstDay, LastDay) /\ date \in Nat \ {0} /\ date <= day
  BY DaysAssumption DEF Init, Higher
<1>4. saving \in Seq(Parts)
  BY DEF Init
<1> QED
  BY <1>1, <1>2, <1>3, <1>4 DEF Init, IInv

(* A system of a won game that leaves a good part leaves good profiles.    *)
LEMMA WriteGood ==
  ASSUME IInv, NEW part, NEW v, WritePart(part, v),
         \/ part = "stats" /\ GoodStats(v)
         \/ part = "achievements" /\ GoodRecords(v)
         \/ part = "progress" /\ GoodProgress(v),
         frame' \in Frames
  PROVE  IInv'
<1>1. GoodProfile(mem') /\ GoodProfile(disk')
  BY PartsGood DEF IInv, WritePart
<1> QED
  BY <1>1 DEF IInv, WritePart

LEMMA RunsNowFrame ==
  ASSUME IInv, NEW s, RunsNow(s)
  PROVE  frame' \in Frames
BY FrameChanges DEF IInv, RunsNow

---------------------------------------------------------------------------
(* One step per action; an action that leaves the profile alone needs only  *)
(* the types of what it changes.                                           *)
LEMMA StepInv == IInv /\ [Next]_vars => IInv'
<1> SUFFICES ASSUME IInv, [Next]_vars
             PROVE  IInv'
  OBVIOUS
<1>1. /\ GoodProfile(mem) /\ GoodProfile(disk) /\ frame \in Frames
      /\ saving \in Seq(Parts) /\ frame.win \in Win
      /\ GoodStats(mem.stats) /\ GoodRecords(mem.achievements)
      /\ GoodProgress(mem.progress)
  BY FrameChanges DEF IInv, GoodProfile
<1>2. day \in Nat \ {0} /\ date \in Nat \ {0} /\ WeekOf(day) \in Nat
  BY DaysPositive, WeekOfType
<1>3. CASE Start
  <2>1. GoodProgress(RollWeek(disk.progress, WeekOf(day)))
    BY <1>1, <1>2, RollWeekGood DEF GoodProfile
  <2>2. GoodProfile(mem')
    BY <1>1, <1>3, <2>1, PartsGood DEF Start
  <2>3. frame' \in Frames
    BY <1>3, <2>2, NoFrameType DEF Start
  <2>4. date' = day
    BY <1>3 DEF Start
  <2> QED
    BY <1>2, <1>3, <2>2, <2>3, <2>4 DEF Start, IInv
<1>4. CASE ManualSync
  BY <1>4 DEF ManualSync, IInv
<1>5. CASE PullFails
  BY <1>5 DEF PullFails, IInv
<1>6. CASE Save
  <2>1. Head(saving) \in Parts /\ Tail(saving) \in Seq(Parts)
    BY <1>1, <1>6 DEF Save
  <2>2. GoodProfile(disk')
    <3>1. CASE Head(saving) = "stats"
      <4>1. disk' = [disk EXCEPT !.stats = mem.stats]
        BY <1>6, <3>1 DEF Save
      <4> QED
        BY <1>1, <4>1, PartsGood
    <3>2. CASE Head(saving) = "achievements"
      <4>1. disk' = [disk EXCEPT !.achievements = mem.achievements]
        BY <1>6, <3>2 DEF Save
      <4> QED
        BY <1>1, <4>1, PartsGood
    <3>3. CASE Head(saving) = "progress"
      <4>1. disk' = [disk EXCEPT !.progress = mem.progress]
        BY <1>6, <3>3 DEF Save
      <4> QED
        BY <1>1, <4>1, PartsGood
    <3> QED
      BY <2>1, <3>1, <3>2, <3>3 DEF Parts
  <2> QED
    BY <1>6, <2>1, <2>2 DEF Save, IInv
<1>7. CASE Exit
  BY <1>7 DEF Exit, IInv
<1>8. CASE Crash
  <2>1. frame' \in Frames
    BY <1>1, <1>8, NoFrameType DEF Crash
  <2>2. saving' \in Seq(Parts)
    BY <1>8 DEF Crash
  <2> QED
    BY <1>8, <2>1, <2>2 DEF Crash, IInv
<1>9. CASE NextDay
  <2>1. frame' \in Frames
    BY <1>1, <1>9, FrameChanges DEF NextDay
  <2>2. day' \in FirstDay .. Higher(FirstDay, LastDay) /\ date <= day'
    BY <1>9, DaysAssumption DEF NextDay, IInv, Higher
  <2> QED
    BY <1>9, <2>1, <2>2 DEF NextDay, IInv
<1>10. ASSUME NEW remote \in Answers, PollPull(remote)
       PROVE  IInv'
  <2>1. GoodProfile(mem')
    BY <1>1, <1>10, SavedAssumption, GoodIsSound, MergeAtGood DEF PollPull, BuildPayload
  <2>2. frame' \in Frames
    BY <1>1, <1>10, FrameChanges DEF PollPull
  <2>3. saving' \in Seq(Parts)
    BY <1>10 DEF PollPull, Parts
  <2> QED
    BY <1>10, <2>1, <2>2, <2>3 DEF PollPull, IInv
<1>11. ASSUME NEW w \in Wins, WinGame(w)
       PROVE  IInv'
  <2>1. frame' \in Frames
    BY <1>1, <1>11 DEF WinGame, Frames, GoodProfile
  <2> QED
    BY <1>11, <2>1 DEF WinGame, IInv
<1>12. CASE UpdateStatsOnWin
  <2>1. GoodStats(UpdatePerModeBests(UpdateOnWin(mem.stats, frame.win), frame.win))
    BY <1>1, UpdateOnWinGood, PerModeBestsGood
  <2> QED
    BY <1>12, <2>1, RunsNowFrame, WriteGood DEF UpdateStatsOnWin
<1>13. CASE AwardXpOnWin
  <2>1. GoodProgress(AddXp(mem.progress, XpForWin(frame.win)))
    BY <1>1, XpForWinType, AddXpGood
  <2> QED
    BY <1>13, <2>1, RunsNowFrame, WriteGood DEF AwardXpOnWin
<1>14. CASE WeeklyGoalsOnWin
  <2>1. GoodProgress(EvaluateWeeklyGoals(mem.progress, frame.win, WeekOf(day)))
    BY <1>1, <1>2, EvaluateWeeklyGoalsGood
  <2> QED
    BY <1>14, <2>1, RunsNowFrame, WriteGood DEF WeeklyGoalsOnWin
<1>15. CASE DailyOnWin
  <2>1. GoodProgress(HandleDailyCompletion(mem.progress, frame.win, date))
    BY <1>1, <1>2, HandleDailyCompletionGood
  <2> QED
    BY <1>15, <2>1, RunsNowFrame, WriteGood DEF DailyOnWin
<1>16. CASE ChallengeOnWin
  <2>1. GoodProgress(AdvanceOnChallengeWin(mem.progress, frame.win))
    BY <1>1, AdvanceOnChallengeWinGood
  <2> QED
    BY <1>16, <2>1, RunsNowFrame, WriteGood DEF ChallengeOnWin
<1>17. CASE EvaluateOnWin
  <2> DEFINE ids == NewlyUnlocked(mem.achievements, mem.stats, mem.progress, frame.win)
             a   == Unlock(mem.achievements, ids, day)
             q   == Rewarded(mem.progress, mem.achievements, ids)
  <2>1. GoodRecords(a) /\ GoodProgress(q)
    BY <1>1, <1>2, UnlockGood, RewardedGood
  <2>2. mem' = [mem EXCEPT !.achievements = a, !.progress = q]
    BY <1>17 DEF EvaluateOnWin
  <2>3. GoodProfile(mem')
    <3> HIDE DEF a, q
    <3>1. GoodProfile([mem EXCEPT !.achievements = a])
      BY <1>1, <2>1, PartsGood
    <3>2. mem' = [[mem EXCEPT !.achievements = a] EXCEPT !.progress = q]
      BY <1>1, <2>2 DEF GoodProfile, Profiles
    <3> QED
      BY <2>1, <3>1, <3>2, PartsGood
  <2>4. frame' \in Frames
    BY <1>17, RunsNowFrame DEF EvaluateOnWin
  <2>5. saving' \in Seq(Parts)
    <3> DEFINE f == IF mem.achievements # mem'.achievements
                    THEN <<"achievements">> ELSE <<>>
               g == IF mem.progress # mem'.progress THEN <<"progress">> ELSE <<>>
    <3>1. f \in Seq(Parts) /\ g \in Seq(Parts)
      <4>1. /\ <<>> \in Seq(Parts)
            /\ <<"achievements">> \in Seq(Parts)
            /\ <<"progress">> \in Seq(Parts)
        BY DEF Parts
      <4> QED
        BY <4>1, Zenon
    <3>2. FilesChanged(mem, mem') \in Seq(Parts)
      <4>1. FilesChanged(mem, mem') = f \o g
        BY DEF FilesChanged
      <4> HIDE DEF f, g
      <4> QED
        BY <3>1, <4>1, ConcatProperties
    <3> QED
      BY <1>17, <3>2 DEF EvaluateOnWin
  <2> QED
    BY <1>17, <2>3, <2>4, <2>5 DEF EvaluateOnWin, IInv
<1>18. CASE WatchReplay
  <2>1. GoodRecords(Unlock(mem.achievements, {"cinephile"}, day))
    BY <1>1, <1>2, UnlockGood
  <2>2. frame' \in Frames
    BY <1>1, <1>18, FrameChanges DEF WatchReplay
  <2> QED
    BY <1>18, <2>1, <2>2, WriteGood DEF WatchReplay
<1>19. CASE AbandonGame
  <2>1. GoodStats(RecordAbandoned(mem.stats))
    BY <1>1, RecordAbandonedGood
  <2>2. GoodProfile(mem') /\ GoodProfile(disk')
    BY <1>1, <1>19, <2>1, PartsGood DEF AbandonGame
  <2>3. frame' \in Frames
    BY <1>1, <1>19, FrameChanges DEF AbandonGame
  <2> QED
    BY <1>19, <2>2, <2>3 DEF AbandonGame, IInv
<1>20. CASE UNCHANGED vars
  BY <1>20 DEF vars, IInv
<1> QED
  BY <1>3, <1>4, <1>5, <1>6, <1>7, <1>8, <1>9, <1>10, <1>11, <1>12, <1>13, <1>14,
     <1>15, <1>16, <1>17, <1>18, <1>19, <1>20 DEF Next

(* Every history of the device stays within the inductive invariant.       *)
THEOREM InductiveInvariant == Spec => []IInv
BY InitInv, StepInv, PTL DEF Spec

(* TypeOK: the profile in memory and the one on disk keep their types.      *)
THEOREM TypeCorrect == Spec => []TypeOK
<1>1. IInv => TypeOK
  BY DEF IInv, TypeOK, GoodProfile, Frames, Parts
<1> QED
  BY <1>1, InductiveInvariant, PTL

(* ProfilesSound: the counters, records and dates of the profile agree with *)
(* one another in memory and on disk, whatever order wins, merges, saves    *)
(* and kills take.                                                          *)
THEOREM ProfilesSoundCorrect == Spec => []ProfilesSound
<1>1. IInv => ProfilesSound
  BY GoodIsSound DEF IInv, ProfilesSound
<1> QED
  BY <1>1, InductiveInvariant, PTL

---------------------------------------------------------------------------
(* Memory and files.                                                       *)

(* A file differs from memory only while it waits to be written.           *)
RestInv ==
  \A part \in Parts :
    (\A k \in 1 .. Len(saving) : saving[k] # part) => disk[part] = mem[part]

LEMMA PartsOfProfile ==
  ASSUME NEW p \in Profiles, NEW q \in Profiles,
         \A part \in Parts : p[part] = q[part]
  PROVE  p = q
<1>1. p.stats = q.stats /\ p.achievements = q.achievements /\ p.progress = q.progress
  BY DEF Parts
<1> QED
  BY <1>1 DEF Profiles

LEMMA WriteRests ==
  ASSUME IInv, RestInv, NEW part \in Parts, NEW v, WritePart(part, v)
  PROVE  RestInv'
<1>1. mem \in Profiles /\ disk \in Profiles
  BY DEF IInv, GoodProfile
<1>2. \A x \in Parts : /\ mem'[x] = IF x = part THEN v ELSE mem[x]
                       /\ disk'[x] = IF x = part THEN v ELSE disk[x]
  BY <1>1 DEF WritePart, Profiles, Parts
<1>3. saving' = saving
  BY DEF WritePart
<1> QED
  BY <1>2, <1>3 DEF RestInv

LEMMA NextRests == IInv /\ RestInv /\ [Next]_vars => RestInv'
<1> SUFFICES ASSUME IInv, RestInv, [Next]_vars
             PROVE  RestInv'
  OBVIOUS
<1>1. /\ mem \in Profiles /\ disk \in Profiles /\ saving \in Seq(Parts)
      /\ \A part \in Parts :
           (\A k \in 1 .. Len(saving) : saving[k] # part) => disk[part] = mem[part]
  BY DEF IInv, GoodProfile, RestInv
<1>2. ASSUME disk' = mem'
      PROVE  RestInv'
  BY <1>2 DEF RestInv
<1>3. ASSUME UNCHANGED <<mem, disk, saving>>
      PROVE  RestInv'
  BY <1>1, <1>3 DEF RestInv
<1>4. ASSUME NEW remote, PollPull(remote)
      PROVE  RestInv'
  <2>1. saving' = <<"stats", "achievements", "progress">>
    BY <1>4 DEF PollPull
  <2>2. ASSUME NEW part \in Parts
        PROVE  \E k \in 1 .. Len(saving') : saving'[k] = part
    <3>1. /\ Len(saving') = 3 /\ saving'[1] = "stats"
          /\ saving'[2] = "achievements" /\ saving'[3] = "progress"
      BY <2>1
    <3>2. 1 \in 1 .. Len(saving') /\ 2 \in 1 .. Len(saving') /\ 3 \in 1 .. Len(saving')
      BY <3>1
    <3> QED
      BY <3>1, <3>2 DEF Parts
  <2> QED
    BY <2>2 DEF RestInv
<1>5. CASE Save
  <2> DEFINE h == Head(saving)
  <2>1. /\ saving # <<>> /\ mem' = mem /\ saving' = Tail(saving)
        /\ disk' = [disk EXCEPT ![h] = mem[h]]
    BY <1>5 DEF Save
  <2>2. /\ h \in Parts /\ h = saving[1] /\ Len(saving) \in Nat /\ Len(saving) >= 1
        /\ Len(saving') = Len(saving) - 1
        /\ \A k \in 1 .. Len(saving') : saving'[k] = saving[k + 1]
    BY <1>1, <2>1, HeadTailProperties, LenProperties, EmptySeq
  <2>3. \A x \in Parts : disk'[x] = IF x = h THEN mem[h] ELSE disk[x]
    BY <1>1, <2>1, <2>2 DEF Profiles, Parts
  <2> HIDE DEF h
  <2>4. ASSUME NEW part \in Parts, \A k \in 1 .. Len(saving') : saving'[k] # part
        PROVE  disk'[part] = mem'[part]
    <3>1. CASE part = h
      BY <2>1, <2>3, <3>1
    <3>2. CASE part # h
      <4>1. ASSUME NEW k \in 1 .. Len(saving)
            PROVE  saving[k] # part
        <5>1. CASE k = 1
          BY <2>2, <3>2, <5>1
        <5>2. CASE k # 1
          <6>1. k - 1 \in 1 .. Len(saving') /\ (k - 1) + 1 = k
            BY <2>2, <5>2
          <6>2. saving'[k - 1] = saving[k]
            BY <2>2, <6>1
          <6> QED
            BY <2>4, <6>1, <6>2
        <5> QED
          BY <5>1, <5>2
      <4> QED
        BY <1>1, <2>1, <2>3, <3>2, <4>1
    <3> QED
      BY <3>1, <3>2
  <2> QED
    BY <2>4 DEF RestInv
<1>6. CASE \/ UpdateStatsOnWin \/ AwardXpOnWin \/ WeeklyGoalsOnWin \/ DailyOnWin
           \/ ChallengeOnWin \/ WatchReplay
  BY <1>6, WriteRests DEF UpdateStatsOnWin, AwardXpOnWin, WeeklyGoalsOnWin, DailyOnWin,
                          ChallengeOnWin, WatchReplay, Parts
(* The achievements and, when it changed, the progress wait to be written:  *)
(* nothing did before, so the files held all of memory.                     *)
<1>7. CASE EvaluateOnWin
  <2>1. /\ saving = <<>> /\ disk' = disk /\ saving' = FilesChanged(mem, mem')
        /\ mem' = [[mem EXCEPT !.achievements = mem'.achievements]
                          EXCEPT !.progress = mem'.progress]
    BY <1>1, <1>7 DEF EvaluateOnWin, RunsNow, Profiles
  <2>2. \A part \in Parts : disk[part] = mem[part]
    BY <1>1, <2>1, EmptySeq
  <2>3. mem'.stats = mem.stats
    BY <1>1, <2>1 DEF Profiles
  <2> DEFINE f == IF mem.achievements # mem'.achievements
                  THEN <<"achievements">> ELSE <<>>
             g == IF mem.progress # mem'.progress THEN <<"progress">> ELSE <<>>
  <2>4. /\ f \in Seq(Parts) /\ g \in Seq(Parts)
        /\ mem.achievements # mem'.achievements => Len(f) = 1 /\ f[1] = "achievements"
        /\ mem.progress # mem'.progress => Len(g) = 1 /\ g[1] = "progress"
    <3>1. /\ <<>> \in Seq(Parts)
          /\ <<"achievements">> \in Seq(Parts) /\ Len(<<"achievements">>) = 1
          /\ <<"achievements">>[1] = "achievements"
          /\ <<"progress">> \in Seq(Parts) /\ Len(<<"progress">>) = 1
          /\ <<"progress">>[1] = "progress"
      BY DEF Parts
    <3>2. f \in Seq(Parts) /\ g \in Seq(Parts)
      BY <3>1, Zenon
    <3> QED
      BY <3>1, <3>2
  <2>5. saving' = f \o g
    BY <2>1 DEF FilesChanged
  <2> HIDE DEF f, g
  <2>6. /\ Len(f) \in Nat /\ Len(g) \in Nat
        /\ Len(saving') = Len(f) + Len(g)
        /\ \A k \in 1 .. Len(f) + Len(g) :
             saving'[k] = IF k <= Len(f) THEN f[k] ELSE g[k - Len(f)]
    BY <2>4, <2>5, ConcatProperties, LenProperties
  <2>7. ASSUME mem.achievements # mem'.achievements
        PROVE  \E k \in 1 .. Len(saving') : saving'[k] = "achievements"
    <3> DEFINE G == Len(g)
    <3>1. Len(f) = 1 /\ f[1] = "achievements" /\ G \in Nat
      BY <2>4, <2>6, <2>7
    <3>2. Len(saving') = 1 + G
      BY <2>6, <3>1
    <3> HIDE DEF G
    <3>3. 1 \in 1 .. 1 + G
      BY <3>1
    <3> QED
      BY <2>6, <3>1, <3>2, <3>3 DEF G
  <2>8. ASSUME mem.progress # mem'.progress
        PROVE  \E k \in 1 .. Len(saving') : saving'[k] = "progress"
    <3> DEFINE F == Len(f)
    <3>1. Len(g) = 1 /\ g[1] = "progress" /\ F \in Nat
      BY <2>4, <2>6, <2>8
    <3>2. /\ Len(saving') = F + 1
          /\ \A k \in 1 .. F + 1 : saving'[k] = IF k <= F THEN f[k] ELSE g[k - F]
      BY <2>6, <3>1
    <3> HIDE DEF F
    <3>3. PICK T \in 1 .. F + 1 : T = F + 1
      BY <3>1
    <3>4. T \in 1 .. F + 1 /\ ~ (T <= F) /\ T - F = 1
      BY <3>1, <3>3
    <3>5. saving'[T] = IF T <= F THEN f[T] ELSE g[T - F]
      BY <3>2, <3>4, Zenon
    <3>6. saving'[T] = g[T - F]
      BY <3>4, <3>5, Zenon
    <3>7. saving'[T] = "progress"
      BY <3>1, <3>4, <3>6, Zenon
    <3> QED
      BY <3>2, <3>4, <3>7, Zenon
  <2>9. ASSUME NEW part \in Parts, \A k \in 1 .. Len(saving') : saving'[k] # part
        PROVE  disk'[part] = mem'[part]
    <3>1. part = "stats" \/ part = "achievements" \/ part = "progress"
      BY DEF Parts
    <3> QED
      BY <2>1, <2>2, <2>3, <2>7, <2>8, <2>9, <3>1
  <2> QED
    BY <2>9 DEF RestInv
<1>8. CASE AbandonGame
  <2>1. /\ saving = <<>> /\ saving' = saving
        /\ mem' = [mem EXCEPT !.stats = RecordAbandoned(mem.stats)]
        /\ disk' = [disk EXCEPT !.stats = RecordAbandoned(mem.stats)]
    BY <1>8 DEF AbandonGame, Idle
  <2>2. \A x \in Parts :
          /\ mem'[x] = IF x = "stats" THEN RecordAbandoned(mem.stats) ELSE mem[x]
          /\ disk'[x] = IF x = "stats" THEN RecordAbandoned(mem.stats) ELSE disk[x]
    BY <1>1, <2>1 DEF Profiles, Parts
  <2> QED
    BY <1>1, <2>1, <2>2 DEF RestInv
<1>9. CASE Start
  BY <1>2, <1>9 DEF Start
<1>10. CASE Crash
  BY <1>2, <1>10 DEF Crash
<1>11. CASE \/ ManualSync \/ PullFails \/ Exit \/ NextDay \/ (\E w \in Wins : WinGame(w))
            \/ UNCHANGED vars
  BY <1>3, <1>11 DEF ManualSync, PullFails, Exit, NextDay, WinGame, vars
<1> QED
  BY <1>4, <1>5, <1>6, <1>7, <1>8, <1>9, <1>10, <1>11 DEF Next

(* SavedAtRest: between two frames the files hold what memory holds, in     *)
(* whatever order the systems of a won game, pulls and games left changed   *)
(* and saved their parts of the profile.                                    *)
THEOREM SavedAtRestCorrect == Spec => []SavedAtRest
<1>1. Init => RestInv
  BY DEF Init, RestInv
<1>2. IInv /\ RestInv => SavedAtRest
  <2> SUFFICES ASSUME IInv, RestInv, Idle
               PROVE  disk = mem
    BY DEF SavedAtRest
  <2>1. \A part \in Parts : disk[part] = mem[part]
    BY EmptySeq DEF Idle, RestInv
  <2> QED
    BY <2>1, PartsOfProfile DEF IInv, GoodProfile
<1> QED
  BY <1>1, <1>2, NextRests, InductiveInvariant, PTL DEF Spec

---------------------------------------------------------------------------
(* Files only gain.                                                        *)

(* Memory holds at least what the files hold, and neither is ahead of the   *)
(* calendar: RollWeek would take a later week back.                         *)
GainInv ==
  /\ NoLess(disk, mem)
  /\ mem.progress.week <= WeekOf(day) /\ disk.progress.week <= WeekOf(day)

(* A step in which memory gains and each file is left alone or written from *)
(* memory.                                                                 *)
LEMMA GainStep ==
  ASSUME IInv, IInv', GainInv, NoLess(mem, mem'),
         mem'.progress.week <= WeekOf(day'), disk.progress.week <= WeekOf(day'),
         \A part \in Parts : disk'[part] = disk[part] \/ disk'[part] = mem'[part]
  PROVE  NoLess(disk, disk') /\ GainInv'
<1>1. /\ GoodProfile(mem) /\ GoodProfile(disk) /\ GoodProfile(mem') /\ GoodProfile(disk')
  BY DEF IInv
<1>2. NoLess(disk, mem')
  BY <1>1, ProfileOrder DEF GainInv
<1>3. NoLessStats(disk.stats, disk'.stats) /\ NoLessStats(disk'.stats, mem'.stats)
  <2>1. disk'.stats = disk.stats \/ disk'.stats = mem'.stats
    BY DEF Parts
  <2>2. disk.stats \in Stats /\ mem'.stats \in Stats
    BY <1>1 DEF GoodProfile, GoodStats
  <2> QED
    BY <1>2, <2>1, <2>2, StatsOrder DEF NoLess
<1>4. /\ NoLessAchievements(disk.achievements, disk'.achievements)
      /\ NoLessAchievements(disk'.achievements, mem'.achievements)
  <2>1. \/ disk'.achievements = disk.achievements
        \/ disk'.achievements = mem'.achievements
    BY DEF Parts
  <2>2. GoodRecords(disk.achievements) /\ GoodRecords(mem'.achievements)
    BY <1>1 DEF GoodProfile
  <2> QED
    BY <1>2, <2>1, <2>2, RecordsOrder DEF NoLess
<1>5. /\ NoLessProgress(disk.progress, disk'.progress)
      /\ NoLessProgress(disk'.progress, mem'.progress)
      /\ disk'.progress.week <= WeekOf(day')
  <2>1. disk'.progress = disk.progress \/ disk'.progress = mem'.progress
    BY DEF Parts
  <2>2. disk.progress \in Progress /\ mem'.progress \in Progress
    BY <1>1 DEF GoodProfile, GoodProgress
  <2> QED
    BY <1>2, <2>1, <2>2, ProgressOrder DEF NoLess
<1> QED
  BY <1>3, <1>4, <1>5 DEF NoLess, GainInv

(* A system that changes one part of the profile for more.                 *)
LEMMA WriteGains ==
  ASSUME IInv, IInv', GainInv, NEW part \in Parts, NEW v, WritePart(part, v),
         part = "stats" => NoLessStats(mem.stats, v),
         part = "achievements" => NoLessAchievements(mem.achievements, v),
         part = "progress" => /\ NoLessProgress(mem.progress, v)
                              /\ v.week <= WeekOf(day)
  PROVE  NoLess(disk, disk') /\ GainInv'
<1>1. /\ GoodProfile(mem) /\ mem \in Profiles /\ disk \in Profiles
      /\ mem.stats \in Stats /\ GoodRecords(mem.achievements) /\ mem.progress \in Progress
  BY DEF IInv, GoodProfile, GoodStats, GoodProgress
<1>2. \A x \in Parts : /\ mem'[x] = IF x = part THEN v ELSE mem[x]
                       /\ disk'[x] = IF x = part THEN v ELSE disk[x]
  BY <1>1 DEF WritePart, Profiles, Parts
<1>3. day' = day
  BY DEF WritePart
<1>4. /\ mem'.stats = IF part = "stats" THEN v ELSE mem.stats
      /\ mem'.achievements = IF part = "achievements" THEN v ELSE mem.achievements
      /\ mem'.progress = IF part = "progress" THEN v ELSE mem.progress
  BY <1>2 DEF Parts
<1>5. NoLess(mem, mem')
  BY <1>1, <1>4, StatsOrder, RecordsOrder, ProgressOrder DEF NoLess
<1>6. mem'.progress.week <= WeekOf(day') /\ disk.progress.week <= WeekOf(day')
  BY <1>3, <1>4 DEF GainInv
<1>7. \A x \in Parts : disk'[x] = disk[x] \/ disk'[x] = mem'[x]
  BY <1>2
<1> QED
  BY <1>5, <1>6, <1>7, GainStep

LEMMA InitGains == Init => GainInv
<1> SUFFICES ASSUME Init
             PROVE  GainInv
  OBVIOUS
<1>1. disk \in Saved /\ mem = disk /\ day = FirstDay
  BY DEF Init
<1>2. GoodProfile(disk)
  BY <1>1, SavedAssumption, GoodIsSound
<1> QED
  BY <1>1, <1>2, WeeksAssumption, ProfileOrder DEF GainInv

LEMMA NextGains == IInv /\ IInv' /\ GainInv /\ [Next]_vars => NoLess(disk, disk') /\ GainInv'
<1> SUFFICES ASSUME IInv, IInv', GainInv, [Next]_vars
             PROVE  NoLess(disk, disk') /\ GainInv'
  OBVIOUS
<1>1. /\ GoodProfile(mem) /\ GoodProfile(disk) /\ GoodProfile(mem') /\ GoodProfile(disk')
      /\ mem \in Profiles /\ disk \in Profiles /\ frame.win \in Win
      /\ GoodStats(mem.stats) /\ GoodRecords(mem.achievements)
      /\ GoodProgress(mem.progress)
  BY FrameChanges DEF IInv, GoodProfile
<1>2. /\ day \in Nat \ {0} /\ date \in Nat \ {0} /\ WeekOf(day) \in Nat
      /\ mem.progress.week <= WeekOf(day) /\ disk.progress.week <= WeekOf(day)
  BY DaysPositive, WeekOfType DEF GainInv
<1>3. ASSUME UNCHANGED <<mem, disk, day>>
      PROVE  NoLess(disk, disk') /\ GainInv'
  BY <1>1, <1>3, ProfileOrder DEF GainInv
<1>4. CASE Start
  <2> DEFINE rolled == RollWeek(disk.progress, WeekOf(day))
  <2>1. /\ mem' = [disk EXCEPT !.progress = rolled] /\ disk' = mem' /\ day' = day
    BY <1>4 DEF Start
  <2>2. NoLessProgress(disk.progress, rolled) /\ rolled.week = WeekOf(day)
    BY <1>1, <1>2, RollWeekGrows DEF GoodProfile
  <2> HIDE DEF rolled
  <2>3. /\ disk'.stats = disk.stats /\ disk'.achievements = disk.achievements
        /\ disk'.progress = rolled
    BY <1>1, <2>1 DEF Profiles
  <2>4. NoLess(disk, disk')
    BY <1>1, <2>2, <2>3, StatsOrder, RecordsOrder DEF NoLess, GoodProfile, GoodStats
  <2>5. NoLess(disk', mem')
    BY <1>1, <2>1, ProfileOrder
  <2>6. /\ mem'.progress.week = WeekOf(day') /\ disk'.progress.week = WeekOf(day')
        /\ WeekOf(day') \in Nat
    BY <1>2, <2>1, <2>2, <2>3
  <2>7. mem'.progress.week <= WeekOf(day') /\ disk'.progress.week <= WeekOf(day')
    BY <2>6
  <2> QED
    BY <2>4, <2>5, <2>7 DEF GainInv
<1>5. ASSUME NEW remote \in Answers, PollPull(remote)
      PROVE  NoLess(disk, disk') /\ GainInv'
  <2> DEFINE m == MergeProfiles(mem, remote)
  <2>1. GoodProfile(remote)
    BY SavedAssumption, GoodIsSound
  <2>2. /\ remote.progress.week <= WeekOf(day) /\ disk' = disk /\ day' = day
        /\ mem' = mem \/ mem' = m
    BY <1>5 DEF PollPull, MergeAt, BuildPayload
  <2>3. NoLess(mem, m) /\ m.progress.week = Higher(mem.progress.week, remote.progress.week)
    BY <1>1, <2>1, MergeProfilesGrows
  <2> HIDE DEF m
  <2>4. NoLess(mem, mem') /\ mem'.progress.week <= WeekOf(day')
    BY <1>1, <1>2, <2>2, <2>3, ProfileOrder DEF Higher
  <2> QED
    BY <1>2, <2>2, <2>4, GainStep
<1>6. CASE Save
  <2>1. /\ mem' = mem /\ day' = day
        /\ disk' = [disk EXCEPT ![Head(saving)] = mem[Head(saving)]]
    BY <1>6 DEF Save
  <2>2. \A x \in Parts : disk'[x] = disk[x] \/ disk'[x] = mem'[x]
    BY <1>1, <2>1 DEF Profiles, Parts
  <2>3. NoLess(mem, mem')
    BY <1>1, <2>1, ProfileOrder
  <2> QED
    BY <1>2, <2>1, <2>2, <2>3, GainStep
<1>7. CASE UpdateStatsOnWin
  BY <1>1, <1>7, WinGrows, WriteGains DEF UpdateStatsOnWin, Parts
<1>8. CASE AwardXpOnWin
  <2> DEFINE v == AddXp(mem.progress, XpForWin(frame.win))
  <2>1. NoLessProgress(mem.progress, v) /\ v.week <= WeekOf(day)
    BY <1>1, <1>2, XpForWinType, AddXpGrows
  <2>2. WritePart("progress", v) /\ "progress" \in Parts
    BY <1>8 DEF AwardXpOnWin, Parts
  <2> HIDE DEF v
  <2> QED
    BY <2>1, <2>2, WriteGains
<1>9. CASE WeeklyGoalsOnWin
  <2> DEFINE v == EvaluateWeeklyGoals(mem.progress, frame.win, WeekOf(day))
  <2>1. NoLessProgress(mem.progress, v) /\ v.week <= WeekOf(day)
    BY <1>1, <1>2, EvaluateWeeklyGoalsGrows
  <2>2. WritePart("progress", v) /\ "progress" \in Parts
    BY <1>9 DEF WeeklyGoalsOnWin, Parts
  <2> HIDE DEF v
  <2> QED
    BY <2>1, <2>2, WriteGains
<1>10. CASE DailyOnWin
  <2> DEFINE v == HandleDailyCompletion(mem.progress, frame.win, date)
  <2>1. NoLessProgress(mem.progress, v) /\ v.week <= WeekOf(day)
    BY <1>1, <1>2, HandleDailyCompletionGrows
  <2>2. WritePart("progress", v) /\ "progress" \in Parts
    BY <1>10 DEF DailyOnWin, Parts
  <2> HIDE DEF v
  <2> QED
    BY <2>1, <2>2, WriteGains
<1>11. CASE ChallengeOnWin
  <2> DEFINE v == AdvanceOnChallengeWin(mem.progress, frame.win)
  <2>1. NoLessProgress(mem.progress, v) /\ v.week <= WeekOf(day)
    BY <1>1, <1>2, AdvanceOnChallengeWinGrows
  <2>2. WritePart("progress", v) /\ "progress" \in Parts
    BY <1>11 DEF ChallengeOnWin, Parts
  <2> HIDE DEF v
  <2> QED
    BY <2>1, <2>2, WriteGains
<1>12. CASE EvaluateOnWin
  <2> DEFINE ids == NewlyUnlocked(mem.achievements, mem.stats, mem.progress, frame.win)
             a   == Unlock(mem.achievements, ids, day)
             q   == Rewarded(mem.progress, mem.achievements, ids)
  <2>1. /\ disk' = disk /\ day' = day
        /\ mem'.stats = mem.stats /\ mem'.achievements = a /\ mem'.progress = q
    BY <1>1, <1>12 DEF EvaluateOnWin, Profiles
  <2>2. NoLessAchievements(mem.achievements, a)
    BY <1>1, UnlockGrows DEF NewlyUnlocked
  <2>3. NoLessProgress(mem.progress, q) /\ q.week = mem.progress.week
    BY <1>1, RewardedGrows
  <2> HIDE DEF ids, a, q
  <2>4. NoLess(mem, mem')
    BY <1>1, <2>1, <2>2, <2>3, StatsOrder DEF NoLess, GoodStats
  <2>5. mem'.progress.week <= WeekOf(day')
    BY <1>2, <2>1, <2>3
  <2> QED
    BY <1>2, <2>1, <2>4, <2>5, GainStep
<1>13. CASE WatchReplay
  <2> DEFINE a == Unlock(mem.achievements, {"cinephile"}, day)
  <2>1. NoLessAchievements(mem.achievements, a)
    BY <1>1, <1>13, UnlockGrows DEF WatchReplay
  <2>2. WritePart("achievements", a) /\ "achievements" \in Parts
    BY <1>13 DEF WatchReplay, Parts
  <2> HIDE DEF a
  <2> QED
    BY <2>1, <2>2, WriteGains
<1>14. CASE AbandonGame
  <2> DEFINE s == RecordAbandoned(mem.stats)
  <2>1. /\ mem' = [mem EXCEPT !.stats = s] /\ disk' = [disk EXCEPT !.stats = s] /\ day' = day
    BY <1>14 DEF AbandonGame
  <2>2. NoLessStats(mem.stats, s)
    BY <1>1, RecordAbandonedGrows DEF GoodStats
  <2> HIDE DEF s
  <2>3. /\ mem'.stats = s /\ mem'.achievements = mem.achievements
        /\ mem'.progress = mem.progress
        /\ \A x \in Parts : disk'[x] = disk[x] \/ disk'[x] = mem'[x]
    BY <1>1, <2>1 DEF Profiles, Parts
  <2>4. NoLess(mem, mem')
    BY <1>1, <2>2, <2>3, RecordsOrder, ProgressOrder DEF NoLess, GoodProgress
  <2> QED
    BY <1>2, <2>1, <2>3, <2>4, GainStep
<1>15. CASE Crash
  BY <1>1, <1>2, <1>15, ProfileOrder DEF Crash, GainInv
<1>16. CASE NextDay
  <2>1. /\ mem' = mem /\ disk' = disk /\ day' = day + 1
    BY <1>16 DEF NextDay
  <2>2. /\ WeekOf(day) <= WeekOf(day') /\ WeekOf(day') \in Nat
        /\ mem.progress.week \in Nat /\ disk.progress.week \in Nat
    BY <1>1, <1>2, <2>1, WeeksGrow, WeekOfType DEF GoodProfile, GoodProgress, Progress
  <2>3. mem'.progress.week <= WeekOf(day') /\ disk'.progress.week <= WeekOf(day')
    BY <1>2, <2>1, <2>2
  <2> QED
    BY <1>1, <2>1, <2>3, ProfileOrder DEF GainInv
<1>17. CASE \/ ManualSync \/ PullFails \/ Exit \/ (\E w \in Wins : WinGame(w))
            \/ UNCHANGED vars
  BY <1>3, <1>17 DEF ManualSync, PullFails, Exit, WinGame, vars
<1> QED
  BY <1>4, <1>5, <1>6, <1>7, <1>8, <1>9, <1>10, <1>11, <1>12, <1>13, <1>14, <1>15, <1>16,
     <1>17 DEF Next

(* DiskNeverLoses: no win, merge, restart or kill takes anything from the   *)
(* files (ARCHITECTURE.md: the local file is the source of truth), for all  *)
(* profiles another device may have left on the server.                     *)
THEOREM DiskNeverLosesCorrect == Spec => DiskNeverLoses
<1>1. IInv /\ IInv' /\ GainInv /\ [Next]_vars => [NoLess(disk, disk')]_vars
  BY NextGains
<1>2. IInv /\ IInv' /\ GainInv /\ [Next]_vars => GainInv'
  BY NextGains
<1> QED
  BY <1>1, <1>2, InitGains, InductiveInvariant, PTL DEF Spec, DiskNeverLoses

---------------------------------------------------------------------------
(* A won game is credited once and whole.  The systems of the frame write   *)
(* different fields of the progress, or add to the same XP, and none reads  *)
(* what another writes but the streak: so the progress is known from the    *)
(* profile before the win and from which systems have run, in any order.    *)

(* The weekly counters that count in a week.                               *)
Weeks(b, week) == IF b.week = week THEN b.weekly ELSE [g \in Goals |-> 0]

Ticked(b, w, week) ==
  {g \in Goals : GoalMatches(g, w) /\ Weeks(b, week)[g] < GoalTarget[g]}

Counts(b, w, week) ==
  [g \in Goals |-> IF g \in Ticked(b, w, week) THEN Weeks(b, week)[g] + 1
                                               ELSE Weeks(b, week)[g]]

GoalsXp(b, w, week) ==
  WeeklyGoalXp * Cardinality({g \in Ticked(b, w, week) :
                                Weeks(b, week)[g] + 1 >= GoalTarget[g]})

DailyDue(b, w, on) == w.daily /\ b.last_daily # on

Fresh(records, ids)    == {id \in ids : ~ records[id].reward_granted}
RewardXp(records, ids) ==
  IF "no_undo" \in Fresh(records, ids) THEN XpReward("no_undo") ELSE 0

(* The XP that one system gives.                                            *)
Gift(f, week, on, s, ids) ==
  CASE s = "xp"           -> XpForWin(f.win)
    [] s = "weekly"       -> GoalsXp(f.before.progress, f.win, week)
    [] s = "daily"        -> (IF DailyDue(f.before.progress, f.win, on)
                              THEN DailyBonusXp ELSE 0)
    [] s = "achievements" -> RewardXp(f.before.achievements, ids)
    [] OTHER              -> 0

(* The XP the systems in done have given, and what the unlocks ids gave.    *)
Given(f, week, on, done, ids) ==
  LET b == f.before.progress
  IN  (IF "xp" \in done THEN XpForWin(f.win) ELSE 0)
      + ((IF "weekly" \in done THEN GoalsXp(b, f.win, week) ELSE 0)
      + ((IF "daily" \in done /\ DailyDue(b, f.win, on) THEN DailyBonusXp ELSE 0)
      + (IF "achievements" \in done THEN RewardXp(f.before.achievements, ids) ELSE 0)))

(* The dates of p are those of q.                                          *)
SameDates(p, q) ==
  /\ p.last_daily = q.last_daily /\ p.daily_streak = q.daily_streak
  /\ p.history = q.history /\ p.longest_streak = q.longest_streak

(* p is the progress when the systems in done have run for the win of f.    *)
Credited(p, f, week, on, done, ids) ==
  LET b == f.before.progress
  IN  /\ GoodProgress(p)
      /\ p.total_xp = b.total_xp + Given(f, week, on, done, ids)
      /\ p.week = (IF "weekly" \in done THEN week ELSE b.week)
      /\ p.weekly = (IF "weekly" \in done THEN Counts(b, f.win, week) ELSE b.weekly)
      /\ SameDates(p, IF "daily" \in done /\ DailyDue(b, f.win, on)
                      THEN RecordDailyCompletion(b, on) ELSE b)
      /\ p.challenge_index =
           (IF "challenge" \in done /\ f.win.mode = "Challenge"
            THEN b.challenge_index + 1 ELSE b.challenge_index)
      /\ p.designs =
           (IF "achievements" \in done
            THEN b.designs \cup UNION {DesignReward(id) :
                                         id \in Fresh(f.before.achievements, ids)}
            ELSE b.designs)

(* The fields of a progress, and what adding XP does to them.               *)
LEMMA ProgressSame ==
  ASSUME NEW p, GoodProgress(p), NEW q, GoodProgress(q),
         p.total_xp = q.total_xp, p.week = q.week, p.weekly = q.weekly,
         SameDates(p, q), p.challenge_index = q.challenge_index,
         p.designs = q.designs
  PROVE  p = q
<1>1. p \in Progress /\ q \in Progress /\ p.level = q.level
  BY DEF GoodProgress, SoundProgress
<1> QED
  BY <1>1 DEF Progress, SameDates

LEMMA CreditedOnce ==
  ASSUME NEW p, NEW q, NEW f, NEW week, NEW on, NEW done, NEW ids,
         Credited(p, f, week, on, done, ids), Credited(q, f, week, on, done, ids)
  PROVE  p = q
<1>1. SameDates(p, q)
  BY DEF Credited, SameDates
<1> QED
  BY <1>1, ProgressSame DEF Credited

LEMMA AddXpFields ==
  ASSUME NEW p \in Progress, NEW n \in Nat
  PROVE  /\ AddXp(p, n).total_xp = p.total_xp + n
         /\ AddXp(p, n).week = p.week /\ AddXp(p, n).weekly = p.weekly
         /\ SameDates(AddXp(p, n), p)
         /\ AddXp(p, n).challenge_index = p.challenge_index
         /\ AddXp(p, n).designs = p.designs
BY DEF AddXp, Progress, SameDates

(* What a frame's systems add is a number.                                  *)
LEMMA GiftTypes ==
  ASSUME NEW f \in Frames, GoodProfile(f.before), NEW week \in Nat, NEW on, NEW ids
  PROVE  /\ XpForWin(f.win) \in Nat
         /\ GoalsXp(f.before.progress, f.win, week) \in Nat
         /\ DailyBonusXp \in Nat
         /\ RewardXp(f.before.achievements, ids) \in Nat
         /\ f.before.progress.total_xp \in Nat
<1>1. f.win \in Win
  BY FrameChanges
<1>2. GoalsXp(f.before.progress, f.win, week) \in Nat
  <2> DEFINE full == {g \in Ticked(f.before.progress, f.win, week) :
                        Weeks(f.before.progress, week)[g] + 1 >= GoalTarget[g]}
  <2>1. full \in SUBSET Goals
    BY DEF Ticked
  <2>2. GoalsXp(f.before.progress, f.win, week) = WeeklyGoalXp * Cardinality(full)
    BY DEF GoalsXp
  <2> HIDE DEF full
  <2>3. Cardinality(full) \in Nat
    BY <2>1, GoalsFacts, FS_Subset, FS_CardinalityType
  <2> QED
    BY <2>2, <2>3 DEF WeeklyGoalXp
<1>3. f.before.progress.total_xp \in Nat
  BY DEF GoodProfile, GoodProgress, Progress
<1> QED
  BY <1>1, <1>2, <1>3, XpForWinType DEF DailyBonusXp, RewardXp, XpReward

(* One more system, one more part of the sum.                               *)
LEMMA GivenMore ==
  ASSUME NEW f \in Frames, GoodProfile(f.before), NEW week \in Nat, NEW on, NEW ids,
         NEW done, NEW s \in Systems, s \notin done
  PROVE  /\ Given(f, week, on, done, ids) \in Nat
         /\ Given(f, week, on, done \cup {s}, ids) =
              Given(f, week, on, done, ids) + Gift(f, week, on, s, ids)
<1> DEFINE x == XpForWin(f.win)
           g == GoalsXp(f.before.progress, f.win, week)
           d == IF DailyDue(f.before.progress, f.win, on) THEN DailyBonusXp ELSE 0
           r == RewardXp(f.before.achievements, ids)
           a(t) == IF "xp" \in t THEN x ELSE 0
           b(t) == IF "weekly" \in t THEN g ELSE 0
           c(t) == IF "daily" \in t THEN d ELSE 0
           e(t) == IF "achievements" \in t THEN r ELSE 0
<1>1. x \in Nat /\ g \in Nat /\ d \in Nat /\ r \in Nat
  BY GiftTypes
<1>2. ASSUME NEW t
      PROVE  Given(f, week, on, t, ids) = a(t) + (b(t) + (c(t) + e(t)))
  BY Zenon DEF Given
<1>3. s \in {"stats", "xp", "weekly", "daily", "challenge", "achievements"}
  BY DEF Systems
<1> HIDE DEF x, g, d, r
<1>4. a(done) + (b(done) + (c(done) + e(done))) \in Nat
  BY <1>1
<1>5. a(done \cup {s}) + (b(done \cup {s}) + (c(done \cup {s}) + e(done \cup {s}))) =
        a(done) + (b(done) + (c(done) + e(done)))
        + (CASE s = "xp" -> x [] s = "weekly" -> g [] s = "daily" -> d
             [] s = "achievements" -> r [] OTHER -> 0)
  BY <1>1, <1>3
<1> QED
  BY <1>2, <1>4, <1>5 DEF x, g, d, r, Gift

(* Nothing has run: the progress is that of before.                        *)
LEMMA CreditedNone ==
  ASSUME NEW f \in Frames, GoodProfile(f.before), NEW week, NEW on, NEW ids
  PROVE  Credited(f.before.progress, f, week, on, {}, ids)
<1>1. GoodProgress(f.before.progress) /\ f.before.progress.total_xp \in Nat
  BY DEF GoodProfile, GoodProgress, Progress
<1>2. Given(f, week, on, {}, ids) = 0
  BY DEF Given
<1> QED
  BY <1>1, <1>2 DEF Credited, SameDates

(* One more system has run, and wrote its own fields only.                  *)
LEMMA CreditMore ==
  ASSUME NEW f \in Frames, GoodProfile(f.before), NEW week \in Nat, NEW on, NEW ids,
         NEW done, NEW s \in Systems, s \notin done,
         NEW p, Credited(p, f, week, on, done, ids), NEW q, GoodProgress(q),
         q.total_xp = p.total_xp + Gift(f, week, on, s, ids),
         q.week = (IF s = "weekly" THEN week ELSE p.week),
         q.weekly = (IF s = "weekly" THEN Counts(f.before.progress, f.win, week)
                     ELSE p.weekly),
         SameDates(q, IF s = "daily" /\ DailyDue(f.before.progress, f.win, on)
                      THEN RecordDailyCompletion(f.before.progress, on) ELSE p),
         q.challenge_index = (IF s = "challenge" /\ f.win.mode = "Challenge"
                              THEN p.challenge_index + 1 ELSE p.challenge_index),
         q.designs = (IF s = "achievements"
                      THEN p.designs \cup UNION {DesignReward(id) :
                                         id \in Fresh(f.before.achievements, ids)}
                      ELSE p.designs)
  PROVE  Credited(q, f, week, on, done \cup {s}, ids)
<1> DEFINE b == f.before.progress
           t == done \cup {s}
<1>1. q.total_xp = b.total_xp + Given(f, week, on, t, ids)
  <2>1. Gift(f, week, on, s, ids) \in Nat
    BY GiftTypes DEF Gift
  <2>2. p.total_xp = b.total_xp + Given(f, week, on, done, ids)
    BY DEF Credited
  <2>3. b.total_xp \in Nat /\ Given(f, week, on, done, ids) \in Nat
    BY GiftTypes, GivenMore
  <2>4. Given(f, week, on, t, ids) =
          Given(f, week, on, done, ids) + Gift(f, week, on, s, ids)
    BY GivenMore
  <2> QED
    BY <2>1, <2>2, <2>3, <2>4
<1>2. q.week = (IF "weekly" \in t THEN week ELSE b.week)
  BY DEF Credited
<1>3. q.weekly = (IF "weekly" \in t THEN Counts(b, f.win, week) ELSE b.weekly)
  BY DEF Credited
<1>4. SameDates(q, IF "daily" \in t /\ DailyDue(b, f.win, on)
                   THEN RecordDailyCompletion(b, on) ELSE b)
  <2>1. SameDates(p, IF "daily" \in done /\ DailyDue(b, f.win, on)
                     THEN RecordDailyCompletion(b, on) ELSE b)
    BY DEF Credited
  <2>2. CASE s = "daily" /\ DailyDue(b, f.win, on)
    BY <2>2
  <2>3. CASE ~ (s = "daily" /\ DailyDue(b, f.win, on))
    <3>1. SameDates(q, p)
      BY <2>3
    <3>2. ("daily" \in t /\ DailyDue(b, f.win, on)) <=>
            ("daily" \in done /\ DailyDue(b, f.win, on))
      BY <2>3
    <3> QED
      BY <2>1, <3>1, <3>2 DEF SameDates
  <2> QED
    BY <2>2, <2>3
<1>5. q.challenge_index = (IF "challenge" \in t /\ f.win.mode = "Challenge"
                           THEN b.challenge_index + 1 ELSE b.challenge_index)
  BY DEF Credited
<1>6. q.designs = (IF "achievements" \in t
                   THEN b.designs \cup UNION {DesignReward(id) :
                                         id \in Fresh(f.before.achievements, ids)}
                   ELSE b.designs)
  BY DEF Credited
<1> QED
  BY <1>1, <1>2, <1>3, <1>4, <1>5, <1>6 DEF Credited

(* Which unlocks the rewards are for matters once they are given.          *)
LEMMA CreditedBefore ==
  ASSUME NEW p, NEW f, NEW week, NEW on, NEW done, NEW ids, NEW other,
         "achievements" \notin done, Credited(p, f, week, on, done, ids)
  PROVE  Credited(p, f, week, on, done, other)
<1>1. Given(f, week, on, done, ids) = Given(f, week, on, done, other)
  BY DEF Given
<1> QED
  BY <1>1 DEF Credited

---------------------------------------------------------------------------
(* The systems, one by one.                                                *)
LEMMA CreditXp ==
  ASSUME NEW f \in Frames, GoodProfile(f.before), NEW week \in Nat, NEW on, NEW ids,
         NEW done, "xp" \notin done, NEW p, Credited(p, f, week, on, done, ids)
  PROVE  Credited(AddXp(p, XpForWin(f.win)), f, week, on, done \cup {"xp"}, ids)
<1> DEFINE n == XpForWin(f.win)
           q == AddXp(p, n)
<1>1. n \in Nat /\ n = Gift(f, week, on, "xp", ids)
  BY GiftTypes DEF Gift
<1>2. GoodProgress(p) /\ p \in Progress
  BY DEF Credited, GoodProgress
<1> HIDE DEF n
<1>3. GoodProgress(q)
  BY <1>1, <1>2, AddXpGood
<1>4. /\ q.total_xp = p.total_xp + n /\ q.week = p.week /\ q.weekly = p.weekly
      /\ SameDates(q, p) /\ q.challenge_index = p.challenge_index
      /\ q.designs = p.designs
  BY <1>1, <1>2, AddXpFields
<1> HIDE DEF q
<1>5. Credited(q, f, week, on, done \cup {"xp"}, ids)
  BY <1>1, <1>3, <1>4, CreditMore DEF Systems
<1> QED
  BY <1>5 DEF q, n

LEMMA CreditStats ==
  ASSUME NEW f \in Frames, GoodProfile(f.before), NEW week \in Nat, NEW on, NEW ids,
         NEW done, "stats" \notin done, NEW p, Credited(p, f, week, on, done, ids)
  PROVE  Credited(p, f, week, on, done \cup {"stats"}, ids)
<1>1. Gift(f, week, on, "stats", ids) = 0
  BY DEF Gift
<1>2. GoodProgress(p) /\ p.total_xp + 0 = p.total_xp
  BY DEF Credited, GoodProgress, Progress
<1>3. SameDates(p, p)
  BY DEF SameDates
<1> QED
  BY <1>1, <1>2, <1>3, CreditMore DEF Systems

LEMMA CreditWeekly ==
  ASSUME NEW f \in Frames, GoodProfile(f.before), NEW week \in Nat, NEW on, NEW ids,
         NEW done, "weekly" \notin done, NEW p, Credited(p, f, week, on, done, ids)
  PROVE  Credited(EvaluateWeeklyGoals(p, f.win, week), f, week, on,
                  done \cup {"weekly"}, ids)
<1> DEFINE b      == f.before.progress
           rolled == RollWeek(p, week)
           ticked == {g \in Goals : /\ GoalMatches(g, f.win)
                                    /\ rolled.weekly[g] < GoalTarget[g]}
           full   == {g \in ticked : rolled.weekly[g] + 1 >= GoalTarget[g]}
           counts == [g \in Goals |-> IF g \in ticked THEN rolled.weekly[g] + 1
                                                       ELSE rolled.weekly[g]]
           r      == [rolled EXCEPT !.weekly = counts]
           n      == WeeklyGoalXp * Cardinality(full)
           q      == AddXp(r, n)
<1>1. GoodProgress(p) /\ p \in Progress /\ p.week = b.week /\ p.weekly = b.weekly
  BY DEF Credited, GoodProgress
<1>2. rolled.weekly = Weeks(b, week)
  BY <1>1 DEF RollWeek, Weeks, Progress
<1>3. /\ rolled \in Progress /\ rolled.week = week
      /\ rolled.total_xp = p.total_xp /\ SameDates(rolled, p)
      /\ rolled.challenge_index = p.challenge_index /\ rolled.designs = p.designs
  <2>1. rolled \in Progress
    BY <1>1, RollWeekGood DEF GoodProgress
  <2> QED
    BY <1>1, <2>1 DEF RollWeek, SameDates, Progress
<1>4. ticked = Ticked(b, f.win, week)
  BY <1>2 DEF Ticked
<1>5. counts = Counts(b, f.win, week)
  BY <1>2, <1>4, Zenon DEF Counts
<1>6. n = Gift(f, week, on, "weekly", ids) /\ n \in Nat
  <2>1. full = {g \in Ticked(b, f.win, week) : Weeks(b, week)[g] + 1 >= GoalTarget[g]}
    BY <1>2, <1>4
  <2>2. n = GoalsXp(b, f.win, week)
    BY <2>1 DEF GoalsXp
  <2> HIDE DEF n, full
  <2> QED
    BY <2>2, GiftTypes DEF Gift
<1>7. EvaluateWeeklyGoals(p, f.win, week) = q
  BY DEF EvaluateWeeklyGoals
<1>8. GoodProgress(q)
  BY <1>1, <1>7, EvaluateWeeklyGoalsGood
<1> HIDE DEF rolled, ticked, full, n
<1>9. /\ r.week = week /\ r.weekly = counts /\ r.total_xp = p.total_xp
      /\ SameDates(r, p) /\ r.challenge_index = p.challenge_index
      /\ r.designs = p.designs
  BY <1>3 DEF Progress, SameDates
<1>10. r \in Progress
  <2>1. counts \in [Goals -> Nat]
    BY <1>3 DEF Progress
  <2> QED
    BY <1>3, <2>1 DEF Progress
<1> HIDE DEF counts, r
<1>11. /\ q.total_xp = r.total_xp + n /\ q.week = r.week /\ q.weekly = r.weekly
       /\ SameDates(q, r) /\ q.challenge_index = r.challenge_index
       /\ q.designs = r.designs
  BY <1>6, <1>10, AddXpFields
<1>12. SameDates(q, p)
  BY <1>9, <1>11 DEF SameDates
<1> HIDE DEF q
<1>13. Credited(q, f, week, on, done \cup {"weekly"}, ids)
  BY <1>5, <1>6, <1>8, <1>9, <1>11, <1>12, CreditMore DEF Systems
<1> QED
  BY <1>7, <1>13

LEMMA CreditChallenge ==
  ASSUME NEW f \in Frames, GoodProfile(f.before), NEW week \in Nat, NEW on, NEW ids,
         NEW done, "challenge" \notin done, NEW p, Credited(p, f, week, on, done, ids)
  PROVE  Credited(AdvanceOnChallengeWin(p, f.win), f, week, on,
                  done \cup {"challenge"}, ids)
<1> DEFINE q == AdvanceOnChallengeWin(p, f.win)
<1>1. GoodProgress(p) /\ p \in Progress /\ p.total_xp + 0 = p.total_xp
  BY DEF Credited, GoodProgress, Progress
<1>2. GoodProgress(q)
  BY <1>1, AdvanceOnChallengeWinGood
<1>3. /\ q.total_xp = p.total_xp /\ q.week = p.week /\ q.weekly = p.weekly
      /\ SameDates(q, p) /\ q.designs = p.designs
      /\ q.challenge_index = (IF f.win.mode = "Challenge" THEN p.challenge_index + 1
                              ELSE p.challenge_index)
  BY <1>1 DEF AdvanceOnChallengeWin, SameDates, Progress
<1>4. Gift(f, week, on, "challenge", ids) = 0
  BY DEF Gift
<1> HIDE DEF q
<1>5. Credited(q, f, week, on, done \cup {"challenge"}, ids)
  BY <1>1, <1>2, <1>3, <1>4, CreditMore DEF Systems
<1> QED
  BY <1>5 DEF q

LEMMA CreditDaily ==
  ASSUME NEW f \in Frames, GoodProfile(f.before), NEW week \in Nat,
         NEW on \in Nat \ {0}, NEW ids,
         NEW done, "daily" \notin done, NEW p, Credited(p, f, week, on, done, ids)
  PROVE  Credited(HandleDailyCompletion(p, f.win, on), f, week, on,
                  done \cup {"daily"}, ids)
<1> DEFINE b == f.before.progress
           r == RecordDailyCompletion(p, on)
           q == HandleDailyCompletion(p, f.win, on)
<1>1. /\ GoodProgress(p) /\ p \in Progress /\ p.total_xp + 0 = p.total_xp
      /\ SameDates(p, b)
  BY DEF Credited, GoodProgress, Progress
<1>2. GoodProgress(q) /\ r \in Progress
  BY <1>1, HandleDailyCompletionGood, RecordDailyCompletionGood DEF GoodProgress
<1>3. b \in Progress
  BY DEF GoodProfile, GoodProgress
<1>4. CASE DailyDue(b, f.win, on)
  <2>1. q = AddXp(r, DailyBonusXp) /\ p.last_daily # on /\ b.last_daily # on
    BY <1>1, <1>4 DEF DailyDue, HandleDailyCompletion, SameDates
  <2>2. /\ r.total_xp = p.total_xp /\ r.week = p.week /\ r.weekly = p.weekly
        /\ r.designs = p.designs /\ r.challenge_index = p.challenge_index
    BY <1>1, <2>1 DEF RecordDailyCompletion, Progress
  <2>3. SameDates(r, RecordDailyCompletion(b, on))
    BY <1>1, <1>3, <2>1 DEF RecordDailyCompletion, Progress, SameDates
  <2> HIDE DEF r, q
  <2>4. /\ q.total_xp = r.total_xp + DailyBonusXp /\ q.week = r.week
        /\ q.weekly = r.weekly /\ SameDates(q, r)
        /\ q.challenge_index = r.challenge_index /\ q.designs = r.designs
    BY <1>2, <2>1, AddXpFields, GiftTypes
  <2>5. SameDates(q, RecordDailyCompletion(b, on))
    BY <2>3, <2>4 DEF SameDates
  <2>6. Gift(f, week, on, "daily", ids) = DailyBonusXp
    BY <1>4 DEF Gift
  <2>7. Credited(q, f, week, on, done \cup {"daily"}, ids)
    BY <1>2, <1>4, <2>2, <2>4, <2>5, <2>6, CreditMore DEF Systems
  <2> QED
    BY <2>7 DEF q
<1>5. CASE ~ DailyDue(b, f.win, on)
  <2>1. q = p
    BY <1>1, <1>5 DEF DailyDue, HandleDailyCompletion, SameDates
  <2>2. Gift(f, week, on, "daily", ids) = 0 /\ SameDates(p, p)
    BY <1>5 DEF Gift, SameDates
  <2> HIDE DEF q
  <2>3. Credited(p, f, week, on, done \cup {"daily"}, ids)
    BY <1>1, <1>5, <2>2, CreditMore DEF Systems
  <2> QED
    BY <2>1, <2>3 DEF q
<1> QED
  BY <1>4, <1>5

LEMMA CreditUnlocks ==
  ASSUME NEW f \in Frames, GoodProfile(f.before), NEW week \in Nat, NEW on, NEW ids,
         NEW done, "achievements" \notin done,
         NEW p, Credited(p, f, week, on, done, ids)
  PROVE  Credited(Rewarded(p, f.before.achievements, ids), f, week, on,
                  done \cup {"achievements"}, ids)
<1> DEFINE a     == f.before.achievements
           fresh == {id \in ids : ~ a[id].reward_granted}
           new   == p.designs \cup UNION {DesignReward(id) : id \in fresh}
           r     == [p EXCEPT !.designs = new]
           n     == IF "no_undo" \in fresh THEN XpReward("no_undo") ELSE 0
           q     == Rewarded(p, a, ids)
<1>1. GoodProgress(p) /\ p \in Progress
  BY DEF Credited, GoodProgress
<1>2. q = AddXp(r, n)
  BY DEF Rewarded
<1>3. fresh = Fresh(a, ids)
  BY DEF Fresh
<1>4. GoodProgress(q)
  BY <1>1, RewardedGood
<1>5. n = Gift(f, week, on, "achievements", ids) /\ n \in Nat
  BY <1>3, GiftTypes DEF Gift, RewardXp
<1>6. /\ r.total_xp = p.total_xp /\ r.week = p.week /\ r.weekly = p.weekly
      /\ r.challenge_index = p.challenge_index /\ SameDates(r, p) /\ r.designs = new
  BY <1>1 DEF Progress, SameDates
<1>7. r \in Progress
  <2>1. new \subseteq Nat
    BY <1>1 DEF Progress, DesignReward
  <2> HIDE DEF new
  <2> QED
    BY <1>1, <2>1 DEF Progress
<1>8. new = p.designs \cup UNION {DesignReward(id) : id \in Fresh(a, ids)}
  BY <1>3
<1> HIDE DEF fresh, new, r, n, q
<1>9. /\ q.total_xp = r.total_xp + n /\ q.week = r.week /\ q.weekly = r.weekly
      /\ SameDates(q, r) /\ q.challenge_index = r.challenge_index
      /\ q.designs = r.designs
  BY <1>2, <1>5, <1>7, AddXpFields
<1>10. SameDates(q, p)
  BY <1>6, <1>9 DEF SameDates
<1>11. Credited(q, f, week, on, done \cup {"achievements"}, ids)
  BY <1>4, <1>5, <1>6, <1>8, <1>9, <1>10, CreditMore DEF Systems
<1> QED
  BY <1>11 DEF q

---------------------------------------------------------------------------
(* The statistics after the win, and what it unlocks when the progress is q: *)
(* of the progress only the streak counts.                                  *)
Scored(f) == UpdatePerModeBests(UpdateOnWin(f.before.stats, f.win), f.win)
Opened(f, q) == NewlyUnlocked(f.before.achievements, Scored(f), q, f.win)

(* What the achievements may have unlocked: they see the streak before the  *)
(* daily challenge or, when it has run, after it.                           *)
MayOpen(f, on, done) ==
  {Opened(f, f.before.progress)}
    \cup (IF "daily" \in done
          THEN {Opened(f, HandleDailyCompletion(f.before.progress, f.win, on))} ELSE {})

(* Where the profile m of the frame f is, when the systems in done have run *)
(* and ids is what the achievements unlocked.                               *)
Stage(m, f, on, today, done, ids) ==
  /\ m.stats = (IF "stats" \in done THEN Scored(f) ELSE f.before.stats)
  /\ m.achievements = (IF "achievements" \in done
                       THEN Unlock(f.before.achievements, ids, today)
                       ELSE f.before.achievements)
  /\ Credited(m.progress, f, WeekOf(today), on, done, ids)
  /\ "achievements" \in done => ids \in MayOpen(f, on, done)

(* What holds while a won game is credited and nothing else touches the     *)
(* profile.                                                                *)
Underway(m, f, on, today) ==
  /\ GoodProfile(f.before)
  /\ \E ids \in SUBSET Achievements : Stage(m, f, on, today, Systems \ f.todo, ids)

FrameInv == frame.only => Underway(mem, frame, date, day)

LEMMA SameOpened ==
  ASSUME NEW f, NEW p, NEW q, p.daily_streak = q.daily_streak
  PROVE  Opened(f, p) = Opened(f, q)
<1>1. ASSUME NEW id \in Achievements
      PROVE  UnlockedBy(id, Scored(f), p, f.win) <=> UnlockedBy(id, Scored(f), q, f.win)
  BY DEF UnlockedBy
<1> QED
  BY <1>1 DEF Opened, NewlyUnlocked

LEMMA CreditedStreak ==
  ASSUME NEW p, NEW f, NEW week, NEW on, NEW done, NEW ids,
         Credited(p, f, week, on, done, ids)
  PROVE  p.daily_streak =
           (IF "daily" \in done /\ DailyDue(f.before.progress, f.win, on)
            THEN RecordDailyCompletion(f.before.progress, on).daily_streak
            ELSE f.before.progress.daily_streak)
BY DEF Credited, SameDates

(* What the win unlocks depends on whether the daily challenge has run.     *)
LEMMA CreditedOpens ==
  ASSUME NEW f \in Frames, GoodProfile(f.before), NEW week \in Nat,
         NEW on \in Nat \ {0}, NEW done, NEW ids,
         NEW p, Credited(p, f, week, on, done, ids)
  PROVE  /\ Opened(f, p) \in MayOpen(f, on, done)
         /\ "daily" \notin done => Opened(f, p) = Opened(f, f.before.progress)
         /\ "daily" \in done =>
              Opened(f, p) = Opened(f, HandleDailyCompletion(f.before.progress, f.win, on))
<1> DEFINE b == f.before.progress
           h == HandleDailyCompletion(b, f.win, on)
<1>1. Credited(h, f, week, on, {} \cup {"daily"}, ids)
  BY CreditedNone, CreditDaily
<1>2. h.daily_streak = (IF DailyDue(b, f.win, on)
                        THEN RecordDailyCompletion(b, on).daily_streak
                        ELSE b.daily_streak)
  BY <1>1, CreditedStreak
<1>3. p.daily_streak = (IF "daily" \in done /\ DailyDue(b, f.win, on)
                        THEN RecordDailyCompletion(b, on).daily_streak
                        ELSE b.daily_streak)
  BY CreditedStreak
<1> HIDE DEF h
<1>4. CASE "daily" \in done
  <2>1. p.daily_streak = h.daily_streak
    BY <1>2, <1>3, <1>4
  <2>2. Opened(f, p) = Opened(f, h)
    BY <2>1, SameOpened
  <2> QED
    BY <1>4, <2>2 DEF MayOpen, h
<1>5. CASE "daily" \notin done
  <2>1. p.daily_streak = b.daily_streak
    BY <1>3, <1>5
  <2>2. Opened(f, p) = Opened(f, b)
    BY <2>1, SameOpened
  <2> QED
    BY <1>5, <2>2 DEF MayOpen
<1> QED
  BY <1>4, <1>5

(* All have run: the profile is one of the two FinishGame tells.            *)
LEMMA WholeCredit ==
  ASSUME NEW m \in Profiles, NEW f \in Frames, NEW on \in Nat \ {0},
         NEW today \in Nat \ {0}, Underway(m, f, on, today), f.todo = {}
  PROVE  m \in FinishGame(f.before, f.win, on, today)
<1> DEFINE b      == f.before.progress
           a      == f.before.achievements
           w      == f.win
           week   == WeekOf(today)
           e1     == AddXp(b, XpForWin(w))
           e2     == EvaluateWeeklyGoals(e1, w, week)
           earned == AdvanceOnChallengeWin(e2, w)
           daily  == HandleDailyCompletion(earned, w, on)
<1>1. GoodProfile(f.before) /\ week \in Nat
  BY WeekOfType DEF Underway
<1>2. m.stats = Scored(f)
  BY DEF Underway, Stage, Systems
<1>3. PICK ids \in SUBSET Achievements :
        /\ m.achievements = Unlock(a, ids, today)
        /\ Credited(m.progress, f, week, on, Systems, ids)
        /\ ids \in MayOpen(f, on, Systems)
  BY DEF Underway, Stage, Systems
<1> DEFINE t == {"stats", "xp", "weekly", "challenge"}
<1> HIDE DEF week
<1>4. Credited(earned, f, week, on, t, ids)
  <2>1. Credited(e1, f, week, on, {} \cup {"xp"}, ids)
    BY <1>1, CreditedNone, CreditXp
  <2> HIDE DEF e1
  <2>2. Credited(e2, f, week, on, {"xp"} \cup {"weekly"}, ids)
    <3>1. {} \cup {"xp"} = {"xp"}
      OBVIOUS
    <3> QED
      BY <1>1, <2>1, <3>1, CreditWeekly
  <2> HIDE DEF e2
  <2>3. Credited(earned, f, week, on, {"xp", "weekly"} \cup {"challenge"}, ids)
    <3>1. {"xp"} \cup {"weekly"} = {"xp", "weekly"}
      OBVIOUS
    <3> QED
      BY <1>1, <2>2, <3>1, CreditChallenge
  <2> HIDE DEF earned
  <2>4. Credited(earned, f, week, on, {"xp", "weekly", "challenge"} \cup {"stats"}, ids)
    <3>1. {"xp", "weekly"} \cup {"challenge"} = {"xp", "weekly", "challenge"}
      OBVIOUS
    <3> QED
      BY <1>1, <2>3, <3>1, CreditStats
  <2>5. {"xp", "weekly", "challenge"} \cup {"stats"} = t
    OBVIOUS
  <2> QED
    BY <2>4, <2>5
<1>5. FinishGame(f.before, w, on, today) =
        {[stats |-> Scored(f), achievements |-> Unlock(a, Opened(f, daily), today),
          progress |-> Rewarded(daily, a, Opened(f, daily))],
         [stats |-> Scored(f), achievements |-> Unlock(a, Opened(f, earned), today),
          progress |-> HandleDailyCompletion(Rewarded(earned, a, Opened(f, earned)), w, on)]}
  BY DEF FinishGame, Scored, Opened, week
<1> HIDE DEF earned
<1>6. Credited(daily, f, week, on, t \cup {"daily"}, ids)
  BY <1>1, <1>4, CreditDaily
<1>7. /\ Opened(f, earned) = Opened(f, b)
      /\ Opened(f, daily) = Opened(f, HandleDailyCompletion(b, w, on))
  <2>1. Opened(f, earned) = Opened(f, b)
    BY <1>1, <1>4, CreditedOpens
  <2> HIDE DEF daily
  <2>2. Opened(f, daily) = Opened(f, HandleDailyCompletion(b, w, on))
    BY <1>1, <1>6, CreditedOpens
  <2> QED
    BY <2>1, <2>2
<1>8. m = [stats |-> m.stats, achievements |-> m.achievements, progress |-> m.progress]
  BY DEF Profiles
<1>9. ids = Opened(f, earned) \/ ids = Opened(f, daily)
  BY <1>3, <1>7, Zenon DEF MayOpen
<1>10. ASSUME ids = Opened(f, daily)
       PROVE  m.progress = Rewarded(daily, a, ids)
  <2> DEFINE q == Rewarded(daily, a, ids)
  <2> HIDE DEF daily
  <2>1. Credited(q, f, week, on, (t \cup {"daily"}) \cup {"achievements"}, ids)
    BY <1>1, <1>6, CreditUnlocks
  <2>2. (t \cup {"daily"}) \cup {"achievements"} = Systems
    BY DEF Systems
  <2> HIDE DEF q
  <2>3. m.progress = q
    BY <1>3, <2>1, <2>2, CreditedOnce
  <2> QED
    BY <2>3 DEF q
<1>11. ASSUME ids = Opened(f, earned)
       PROVE  m.progress = HandleDailyCompletion(Rewarded(earned, a, ids), w, on)
  <2> DEFINE r == Rewarded(earned, a, ids)
             q == HandleDailyCompletion(r, w, on)
  <2>1. Credited(r, f, week, on, t \cup {"achievements"}, ids)
    BY <1>1, <1>4, CreditUnlocks
  <2> HIDE DEF r
  <2>2. Credited(q, f, week, on, (t \cup {"achievements"}) \cup {"daily"}, ids)
    BY <1>1, <2>1, CreditDaily
  <2>3. (t \cup {"achievements"}) \cup {"daily"} = Systems
    BY DEF Systems
  <2> HIDE DEF q
  <2>4. m.progress = q
    BY <1>3, <2>2, <2>3, CreditedOnce
  <2> QED
    BY <2>4 DEF q, r
<1> HIDE DEF daily
<1>12. CASE ids = Opened(f, daily)
  BY <1>2, <1>3, <1>5, <1>8, <1>10, <1>12, Zenon
<1>13. CASE ids = Opened(f, earned)
  BY <1>2, <1>3, <1>5, <1>8, <1>11, <1>13, Zenon
<1> QED
  BY <1>9, <1>12, <1>13

---------------------------------------------------------------------------
(* Which systems are still to run is all that changes in a frame.           *)
LEMMA SameStage ==
  ASSUME NEW f, NEW g, g.before = f.before, g.win = f.win,
         NEW m, NEW on, NEW today, NEW done, NEW ids
  PROVE  Stage(m, f, on, today, done, ids) <=> Stage(m, g, on, today, done, ids)
<1>1. Given(f, WeekOf(today), on, done, ids) = Given(g, WeekOf(today), on, done, ids)
  BY Zenon DEF Given
<1>2. Scored(f) = Scored(g) /\ MayOpen(f, on, done) = MayOpen(g, on, done)
  BY Zenon DEF Scored, Opened, MayOpen
<1>3. Credited(m.progress, f, WeekOf(today), on, done, ids) <=>
        Credited(m.progress, g, WeekOf(today), on, done, ids)
  BY <1>1, Zenon DEF Credited
<1> QED
  BY <1>2, <1>3, Zenon DEF Stage

(* A system that runs for a frame nothing else touched finds the profile    *)
(* underway, and needs only to bring it one stage further.                  *)
LEMMA RunStage ==
  ASSUME IInv, FrameInv, NEW s \in Systems, RunsNow(s), UNCHANGED <<date, day>>,
         ASSUME NEW ids \in SUBSET Achievements, GoodProfile(frame.before),
                s \notin Systems \ frame.todo,
                Stage(mem, frame, date, day, Systems \ frame.todo, ids)
         PROVE  \E new \in SUBSET Achievements :
                  Stage(mem', frame, date, day, (Systems \ frame.todo) \cup {s}, new)
  PROVE  FrameInv'
<1> SUFFICES ASSUME frame'.only
             PROVE  Underway(mem', frame', date, day)
  BY DEF FrameInv
<1>1. frame \in Frames /\ frame' = [frame EXCEPT !.todo = frame.todo \ {s}]
  BY DEF IInv, RunsNow
<1>2. /\ frame.only /\ frame'.before = frame.before /\ frame'.win = frame.win
      /\ frame'.todo = frame.todo \ {s} /\ s \in frame.todo
  BY <1>1 DEF Frames, RunsNow
<1>3. Systems \ frame'.todo = (Systems \ frame.todo) \cup {s}
  BY <1>2
<1>4. GoodProfile(frame.before)
  BY <1>2 DEF FrameInv, Underway
<1>5. PICK ids \in SUBSET Achievements :
        Stage(mem, frame, date, day, Systems \ frame.todo, ids)
  BY <1>2 DEF FrameInv, Underway
<1>6. PICK new \in SUBSET Achievements :
        Stage(mem', frame, date, day, (Systems \ frame.todo) \cup {s}, new)
  BY <1>2, <1>4, <1>5
<1>7. Stage(mem', frame', date, day, Systems \ frame'.todo, new)
  BY <1>2, <1>3, <1>6, SameStage
<1> QED
  BY <1>2, <1>4, <1>7 DEF Underway

(* More systems, no fewer unlocks.                                         *)
LEMMA MayOpenMore ==
  ASSUME NEW f, NEW on, NEW done, NEW s
  PROVE  MayOpen(f, on, done) \subseteq MayOpen(f, on, done \cup {s})
BY DEF MayOpen

(* A system that writes the progress only.                                  *)
LEMMA ProgressStage ==
  ASSUME IInv, FrameInv, NEW s \in {"xp", "weekly", "daily", "challenge"}, RunsNow(s),
         NEW v, WritePart("progress", v),
         ASSUME NEW ids, GoodProfile(frame.before), s \notin Systems \ frame.todo,
                Credited(mem.progress, frame, WeekOf(day), date,
                         Systems \ frame.todo, ids)
         PROVE  Credited(v, frame, WeekOf(day), date,
                         (Systems \ frame.todo) \cup {s}, ids)
  PROVE  FrameInv'
<1> DEFINE done == Systems \ frame.todo
<1>1. s \in Systems /\ UNCHANGED <<date, day>>
  BY DEF Systems, WritePart
<1>2. /\ mem'.stats = mem.stats /\ mem'.achievements = mem.achievements
      /\ mem'.progress = v
  BY DEF WritePart, IInv, GoodProfile, Profiles
<1>3. ASSUME NEW ids \in SUBSET Achievements, GoodProfile(frame.before), s \notin done,
             Stage(mem, frame, date, day, done, ids)
      PROVE  Stage(mem', frame, date, day, done \cup {s}, ids)
  <2>1. Credited(v, frame, WeekOf(day), date, done \cup {s}, ids)
    BY <1>3 DEF Stage
  <2>2. /\ "stats" \in done \cup {s} <=> "stats" \in done
        /\ "achievements" \in done \cup {s} <=> "achievements" \in done
    OBVIOUS
  <2>3. "achievements" \in done \cup {s} => ids \in MayOpen(frame, date, done \cup {s})
    BY <1>3, <2>2, MayOpenMore DEF Stage
  <2> HIDE DEF done
  <2> QED
    BY <1>2, <1>3, <2>1, <2>2, <2>3, Zenon DEF Stage
<1> QED
  BY <1>1, <1>3, RunStage

LEMMA NextFrame == IInv /\ FrameInv /\ [Next]_vars => FrameInv'
<1> SUFFICES ASSUME IInv, FrameInv, [Next]_vars
             PROVE  FrameInv'
  OBVIOUS
<1> DEFINE done == Systems \ frame.todo
           week == WeekOf(day)
<1>1. /\ GoodProfile(mem) /\ mem \in Profiles /\ frame \in Frames
      /\ date \in Nat \ {0} /\ day \in Nat \ {0} /\ week \in Nat
  BY DaysPositive, WeekOfType DEF IInv, GoodProfile
<1> HIDE DEF week
<1>2. ASSUME ~ frame'.only
      PROVE  FrameInv'
  BY <1>2 DEF FrameInv
<1>3. ASSUME UNCHANGED <<mem, frame, date, day>>
      PROVE  FrameInv'
  BY <1>3 DEF FrameInv
<1>4. ASSUME NEW w \in Wins, WinGame(w)
      PROVE  FrameInv'
  <2>1. /\ frame'.before = mem /\ frame'.todo = Systems /\ mem' = mem
        /\ UNCHANGED <<date, day>>
    BY <1>4 DEF WinGame
  <2>2. frame' \in Frames
    BY <1>1, <1>4 DEF WinGame, Frames
  <2>3. Credited(mem.progress, frame', week, date, {}, {})
    BY <1>1, <2>1, <2>2, CreditedNone
  <2>4. Stage(mem', frame', date, day, {}, {})
    BY <2>1, <2>3 DEF Stage, week
  <2>5. Systems \ frame'.todo = {} /\ {} \in SUBSET Achievements
    BY <2>1
  <2>6. Underway(mem', frame', date, day)
    BY <1>1, <2>1, <2>4, <2>5 DEF Underway
  <2> QED
    BY <2>1, <2>6 DEF FrameInv
<1>5. CASE UpdateStatsOnWin
  <2>1. RunsNow("stats") /\ "stats" \in Systems /\ UNCHANGED <<date, day>>
    BY <1>5 DEF UpdateStatsOnWin, WritePart, Systems
  <2>2. /\ mem'.stats = UpdatePerModeBests(UpdateOnWin(mem.stats, frame.win), frame.win)
        /\ mem'.achievements = mem.achievements /\ mem'.progress = mem.progress
    BY <1>1, <1>5 DEF UpdateStatsOnWin, WritePart, Profiles
  <2>3. ASSUME NEW ids \in SUBSET Achievements, GoodProfile(frame.before),
               "stats" \notin done, Stage(mem, frame, date, day, done, ids)
        PROVE  Stage(mem', frame, date, day, done \cup {"stats"}, ids)
    <3>1. mem'.stats = Scored(frame)
      BY <2>2, <2>3 DEF Stage, Scored
    <3>2. Credited(mem.progress, frame, week, date, done \cup {"stats"}, ids)
      BY <1>1, <2>3, CreditStats DEF Stage, week
    <3>3. "achievements" \in done \cup {"stats"} <=> "achievements" \in done
      OBVIOUS
    <3>4. "achievements" \in done => ids \in MayOpen(frame, date, done \cup {"stats"})
      BY <2>3, MayOpenMore DEF Stage
    <3> QED
      BY <2>2, <2>3, <3>1, <3>2, <3>3, <3>4 DEF Stage, week
  <2> QED
    BY <2>1, <2>3, RunStage
<1>6. CASE AwardXpOnWin
  <2>1. RunsNow("xp") /\ WritePart("progress", AddXp(mem.progress, XpForWin(frame.win)))
    BY <1>6 DEF AwardXpOnWin
  <2> QED
    BY <1>1, <2>1, CreditXp, ProgressStage DEF week
<1>7. CASE WeeklyGoalsOnWin
  <2>1. /\ RunsNow("weekly")
        /\ WritePart("progress", EvaluateWeeklyGoals(mem.progress, frame.win, WeekOf(day)))
    BY <1>7 DEF WeeklyGoalsOnWin
  <2> QED
    BY <1>1, <2>1, CreditWeekly, ProgressStage DEF week
<1>8. CASE DailyOnWin
  <2>1. /\ RunsNow("daily")
        /\ WritePart("progress", HandleDailyCompletion(mem.progress, frame.win, date))
    BY <1>8 DEF DailyOnWin
  <2> QED
    BY <1>1, <2>1, CreditDaily, ProgressStage DEF week
<1>9. CASE ChallengeOnWin
  <2>1. /\ RunsNow("challenge")
        /\ WritePart("progress", AdvanceOnChallengeWin(mem.progress, frame.win))
    BY <1>9 DEF ChallengeOnWin
  <2> QED
    BY <1>1, <2>1, CreditChallenge, ProgressStage DEF week
(* The statistics have run: the unlocks are those of the win.               *)
<1>10. CASE EvaluateOnWin
  <2> DEFINE new == NewlyUnlocked(mem.achievements, mem.stats, mem.progress, frame.win)
             a   == Unlock(mem.achievements, new, day)
             q   == Rewarded(mem.progress, mem.achievements, new)
  <2>1. /\ RunsNow("achievements") /\ "achievements" \in Systems
        /\ UNCHANGED <<date, day>>
    BY <1>10 DEF EvaluateOnWin, Systems
  <2>2. mem'.stats = mem.stats /\ mem'.achievements = a /\ mem'.progress = q
    BY <1>1, <1>10 DEF EvaluateOnWin, Profiles
  <2>3. "stats" \in done
    BY <2>1 DEF RunsNow, After, Systems
  <2>4. ASSUME NEW ids \in SUBSET Achievements, GoodProfile(frame.before),
               "achievements" \notin done, Stage(mem, frame, date, day, done, ids)
        PROVE  /\ Stage(mem', frame, date, day, done \cup {"achievements"}, new)
               /\ new \in SUBSET Achievements
    <3>1. /\ mem.stats = Scored(frame)
          /\ mem.achievements = frame.before.achievements
          /\ Credited(mem.progress, frame, week, date, done, ids)
      BY <2>3, <2>4 DEF Stage, week
    <3>2. new = Opened(frame, mem.progress) /\ new \in SUBSET Achievements
      BY <3>1 DEF Opened, NewlyUnlocked
    <3>3. Credited(mem.progress, frame, week, date, done, new)
      BY <2>4, <3>1, CreditedBefore
    <3>4. new \in MayOpen(frame, date, done)
      BY <1>1, <2>4, <3>1, <3>2, CreditedOpens
    <3>5. new \in MayOpen(frame, date, done \cup {"achievements"})
      BY <3>4, MayOpenMore
    <3> HIDE DEF new
    <3>6. Credited(q, frame, week, date, done \cup {"achievements"}, new)
      BY <1>1, <2>4, <3>1, <3>3, CreditUnlocks
    <3> HIDE DEF q, a, done
    <3>7. mem'.stats = Scored(frame) /\ "stats" \in done \cup {"achievements"}
      BY <2>2, <2>3, <3>1
    <3>8. mem'.achievements = Unlock(frame.before.achievements, new, day)
      BY <2>2, <3>1 DEF a
    <3> QED
      BY <2>2, <3>2, <3>5, <3>6, <3>7, <3>8 DEF Stage, week
  <2> QED
    BY <2>1, <2>4, RunStage
<1>11. CASE Start \/ Crash \/ NextDay \/ WatchReplay \/ AbandonGame
  <2>1. ~ frame'.only
    BY <1>1, <1>11 DEF Start, Crash, NextDay, WatchReplay, AbandonGame, NoFrame, Frames
  <2> QED
    BY <1>2, <2>1
<1>12. ASSUME NEW remote, PollPull(remote)
       PROVE  FrameInv'
  <2>1. ~ frame'.only
    BY <1>1, <1>12 DEF PollPull, Frames
  <2> QED
    BY <1>2, <2>1
<1>13. CASE ManualSync \/ PullFails \/ Save \/ Exit \/ UNCHANGED vars
  BY <1>3, <1>13 DEF ManualSync, PullFails, Save, Exit, vars
<1> QED
  BY <1>4, <1>5, <1>6, <1>7, <1>8, <1>9, <1>10, <1>11, <1>12, <1>13 DEF Next

(* FrameCreditsOneWin: in every order the six systems of a won game can run *)
(* in, with kills, midnights, saves and pulls between any two, the profile  *)
(* ends as one of the two FinishGame tells, each reward given once; for     *)
(* every win, every set of achievements and goals and every saved profile.  *)
THEOREM FrameCreditsCorrect == Spec => []FrameCreditsOneWin
<1>1. Init => FrameInv
  BY DEF Init, NoFrame, FrameInv
<1>2. IInv /\ FrameInv => FrameCreditsOneWin
  <2> SUFFICES ASSUME IInv, FrameInv, frame.todo = {}, frame.only
               PROVE  mem \in FinishGame(frame.before, frame.win, date, day)
    BY DEF FrameCreditsOneWin
  <2>1. mem \in Profiles /\ frame \in Frames
    BY DEF IInv, GoodProfile
  <2> QED
    BY <2>1, DaysPositive, WholeCredit DEF FrameInv
<1> QED
  BY <1>1, <1>2, NextFrame, InductiveInvariant, PTL DEF Spec
=============================================================================
