-------------------------------- MODULE Sync -------------------------------
(***************************************************************************)
(* One player's devices and the sync server: pull at launch, merge, play,   *)
(* push at exit; the server's row, its leaderboard entry and opt-in.        *)
(*                                                                         *)
(* A won game is one step here, the profile it leaves one of FinishGame's:  *)
(* module Device shows that the frame of a won game does leave one of them. *)
(* Every change of a profile is saved at once (Device again), so a device   *)
(* has one profile, and a kill keeps it.  The server's handlers are         *)
(* asynchronous and use no transaction: a push loads the row, stores the    *)
(* merged one and updates the leaderboard in three steps of their own.      *)
(***************************************************************************)
EXTENDS Merge

CONSTANTS
  Devices,
  Wins,
  FirstDay, LastDay, MaxGames, MaxStarts     (* bounds                      *)

ASSUME DaysAssumption == FirstDay \in Nat \ {0} /\ LastDay \in Nat
ASSUME WinsAssumption == Wins \subseteq Win

VARIABLES
  profile, open, date,   (* per device: its profile, whether the game runs, *)
                         (* the date of its daily challenge                 *)
  pulling, answer,       (* per device: a pull is in flight; its answer     *)
  push,                  (* per device: how far its last push has come      *)
  row,                   (* sync_state: the player's payload, if any        *)
  opted, optingIn,       (* users.leaderboard_opt_in; opt_in between its    *)
  board,                 (* two statements; the player's leaderboard row    *)
  earned,                (* history: all that was played on any device      *)
  day, games, starts

devs  == <<profile, open, date, pulling, answer>>
cloud == <<row, opted, optingIn, board>>
rest  == <<earned, day, games, starts>>
vars  == <<devs, push, cloud, rest>>

DefaultProfile ==
  [stats |-> DefaultStats, achievements |-> NoAchievements, progress |-> DefaultProgress]
DefaultPayload == [user |-> Player, profile |-> DefaultProfile]

NoPush == [stage |-> "none", payload |-> DefaultPayload, base |-> {}]

Init ==
  /\ profile = [d \in Devices |-> DefaultProfile]
  /\ open = [d \in Devices |-> FALSE]
  /\ date = [d \in Devices |-> FirstDay]
  /\ pulling = [d \in Devices |-> FALSE]
  /\ answer = [d \in Devices |-> {}]
  /\ push = [d \in Devices |-> NoPush]
  /\ row = {}
  /\ opted = FALSE /\ optingIn = FALSE
  /\ board = [listed |-> FALSE, score |-> 0, time |-> Never]
  /\ earned = [wins |-> {}, played |-> 0, won |-> 0, score |-> 0, xp |-> 0, challenges |-> 0]
  /\ day = FirstDay /\ games = 0 /\ starts = 0

---------------------------------------------------------------------------
(* Devices.                                                                *)

Start(d) ==
  /\ ~ open[d] /\ starts < MaxStarts
  /\ open' = [open EXCEPT ![d] = TRUE]
  /\ profile' = [profile EXCEPT ![d].progress = RollWeek(@, WeekOf(day))]
  /\ date' = [date EXCEPT ![d] = day]
  /\ pulling' = [pulling EXCEPT ![d] = TRUE]
  /\ starts' = starts + 1
  /\ UNCHANGED <<answer, push, cloud, earned, day, games>>

ManualSync(d) ==
  /\ open[d] /\ ~ pulling[d]
  /\ pulling' = [pulling EXCEPT ![d] = TRUE]
  /\ UNCHANGED <<profile, open, date, answer, push, cloud, rest>>

(* poll_pull_result merges with the profile of now, not of the request.     *)
PollPull(d) ==
  /\ open[d]
  /\ \E remote \in answer[d] :
       profile' = [profile EXCEPT ![d] = MergeAt(BuildPayload(@), remote).profile]
  /\ pulling' = [pulling EXCEPT ![d] = FALSE]
  /\ answer' = [answer EXCEPT ![d] = {}]
  /\ UNCHANGED <<open, date, push, cloud, rest>>

PullFails(d) ==
  /\ open[d] /\ pulling[d] /\ answer[d] = {}
  /\ pulling' = [pulling EXCEPT ![d] = FALSE]
  /\ UNCHANGED <<profile, open, date, answer, push, cloud, rest>>

WinGame(d, w) ==
  /\ open[d] /\ games < MaxGames
  /\ \E p \in FinishGame(profile[d], w, date[d], day) :
       /\ profile' = [profile EXCEPT ![d] = p]
       /\ earned' = [wins |-> earned.wins \cup {w},
                     played |-> earned.played + 1, won |-> earned.won + 1,
                     score |-> earned.score + w.score,
                     xp |-> earned.xp + (p.progress.total_xp - profile[d].progress.total_xp),
                     challenges |-> earned.challenges + (IF w.mode = "Challenge" THEN 1 ELSE 0)]
  /\ games' = games + 1
  /\ UNCHANGED <<open, date, pulling, answer, push, cloud, day, starts>>

AbandonGame(d) ==
  /\ open[d] /\ games < MaxGames
  /\ profile' = [profile EXCEPT ![d].stats = RecordAbandoned(@)]
  /\ earned' = [earned EXCEPT !.played = @ + 1]
  /\ games' = games + 1
  /\ UNCHANGED <<open, date, pulling, answer, push, cloud, day, starts>>

Closed(d) ==
  /\ open[d]
  /\ open' = [open EXCEPT ![d] = FALSE]
  /\ pulling' = [pulling EXCEPT ![d] = FALSE]
  /\ answer' = [answer EXCEPT ![d] = {}]
  /\ UNCHANGED <<profile, date, cloud, rest>>

(* push_on_exit; the process may be killed while it waits for the reply,    *)
(* which it does nothing with.  Bound: one push of a device under way.      *)
Exit(d) ==
  /\ Closed(d)
  /\ push[d].stage \in {"none", "refused"}
  /\ push' = [push EXCEPT ![d] = [stage |-> "sent", payload |-> BuildPayload(profile[d]),
                                  base |-> {}]]

Crash(d) == Closed(d) /\ UNCHANGED push

---------------------------------------------------------------------------
(* The server: GET pull, POST push, POST and DELETE leaderboard/opt-in.     *)

AnswerPull(d) ==
  /\ pulling[d] /\ answer[d] = {}
  /\ answer' = [answer EXCEPT ![d] = IF row = {} THEN {DefaultPayload} ELSE row]
  /\ UNCHANGED <<profile, open, date, pulling, push, cloud, rest>>

PushLost(d) ==
  /\ push[d].stage = "sent"
  /\ push' = [push EXCEPT ![d] = NoPush]
  /\ UNCHANGED <<devs, cloud, rest>>

(* The user id is checked, then the stored row is read.                     *)
LoadRow(d) ==
  /\ push[d].stage = "sent"
  /\ push' = [push EXCEPT ![d] =
                IF @.payload.user # Player THEN [NoPush EXCEPT !.stage = "refused"]
                ELSE [@ EXCEPT !.stage = "loaded", !.base = row]]
  /\ UNCHANGED <<devs, cloud, rest>>

(* What push stores: the payload itself if there was no row.  Mutant: the   *)
(* payload in any case.                                                     *)
MergedOverwrites(q) == q.payload

Merged(q) ==
  IF q.base = {} THEN q.payload
  ELSE CHOOSE m \in {MergeAt(q.payload, r) : r \in q.base} : TRUE

StoreRow(d) ==
  /\ push[d].stage = "loaded"
  /\ row' = {Merged(push[d])}
  /\ push' = [push EXCEPT ![d].stage = "stored"]
  /\ UNCHANGED <<devs, opted, optingIn, board, rest>>

(* update_leaderboard_if_opted_in, and the reply.  Mutants: the row takes   *)
(* the values of the push; the sentinel of no win is stored as an i64.      *)
RankedLast(b, s) ==
  [b EXCEPT !.score = s.best_single_score, !.time = s.fastest_win_seconds]

RankedSentinel(b, s) ==
  [b EXCEPT !.score = Higher(@, s.best_single_score),
            !.time = IF s.fastest_win_seconds = Never THEN -1
                     ELSE Lower(@, s.fastest_win_seconds)]

Ranked(b, s) ==
  [b EXCEPT !.score = Higher(@, s.best_single_score),
            !.time = Lower(@, s.fastest_win_seconds)]

Rank(d) ==
  /\ push[d].stage = "stored"
  /\ board' = IF opted /\ board.listed
              THEN Ranked(board, Merged(push[d]).profile.stats) ELSE board
  /\ push' = [push EXCEPT ![d] = NoPush]
  /\ UNCHANGED <<devs, row, opted, optingIn, rest>>

OptIn ==
  /\ ~ optingIn
  /\ opted' = TRUE /\ optingIn' = TRUE
  /\ UNCHANGED <<devs, push, row, board, rest>>

(* The upsert of opt_in keeps the values of a row that exists.              *)
OptInRow ==
  /\ optingIn
  /\ optingIn' = FALSE
  /\ board' = [board EXCEPT !.listed = TRUE]
  /\ UNCHANGED <<devs, push, row, opted, rest>>

OptOut ==
  /\ opted
  /\ opted' = FALSE
  /\ UNCHANGED <<devs, push, row, optingIn, board, rest>>

NextDay ==
  /\ day < LastDay
  /\ day' = day + 1
  /\ UNCHANGED <<devs, push, cloud, earned, games, starts>>

Next ==
  \/ \E d \in Devices :
       \/ Start(d) \/ ManualSync(d) \/ PollPull(d) \/ PullFails(d)
       \/ \E w \in Wins : WinGame(d, w)
       \/ AbandonGame(d) \/ Exit(d) \/ Crash(d)
       \/ AnswerPull(d) \/ PushLost(d) \/ LoadRow(d) \/ StoreRow(d) \/ Rank(d)
  \/ OptIn \/ OptInRow \/ OptOut \/ NextDay

Spec == Init /\ [][Next]_vars

---------------------------------------------------------------------------
(* Every copy of the profile there is: on the devices, on the server and on *)
(* the way between them.                                                    *)
Payloads == row \cup {push[d].payload : d \in Devices}
                \cup (UNION {answer[d] \cup push[d].base : d \in Devices})
Copies == {profile[d] : d \in Devices} \cup {m.profile : m \in Payloads}

(* Every variable keeps its type (migrations/001_initial.sql, SyncPayload). *)
TypeOK ==
  /\ Copies \subseteq Profiles
  /\ open \in [Devices -> BOOLEAN] /\ pulling \in [Devices -> BOOLEAN]
  /\ Cardinality(row) <= 1 /\ \A d \in Devices : Cardinality(answer[d]) <= 1
  /\ \A d \in Devices :
       push[d].stage \in {"none", "sent", "loaded", "stored", "refused"}
  /\ {opted, optingIn, board.listed} \subseteq BOOLEAN
  /\ board.score \in Nat /\ board.time \in Nat

(* Every copy is sound, whatever was merged with what in which order.       *)
CopiesSound == \A p \in Copies : SoundProfile(p)

(* No merge counts a game, a point or a unit of XP twice, however often and *)
(* in whatever order the copies meet, and every record in a copy or on the  *)
(* leaderboard was played on some device.                                   *)
NothingCountedTwice ==
  LET Times  == {w.time : w \in earned.wins} \cup {Never}
      Scores == {w.score : w \in earned.wins} \cup {0}
  IN  /\ \A p \in Copies :
           /\ p.stats.games_won <= earned.won
           /\ p.stats.games_played <= earned.played
           /\ p.stats.lifetime_score <= earned.score
           /\ p.progress.total_xp <= earned.xp
           /\ p.progress.challenge_index <= earned.challenges
           /\ p.stats.fastest_win_seconds \in Times
           /\ p.stats.best_single_score \in Scores
      /\ board.time \in Times /\ board.score \in Scores

(* A device loses nothing it had, and when it takes up an answer, nothing   *)
(* the answer had (sync_plugin.rs: merges the remote payload with local     *)
(* data).                                                                   *)
DevicesAbsorb ==
  [][ \A d \in Devices :
        /\ NoLess(profile[d], profile'[d])
        /\ \A remote \in answer[d] :
             open'[d] /\ answer'[d] = {} => NoLess(remote.profile, profile'[d]) ]_vars

(* Storing a push loses nothing of the row, unless the row has changed      *)
(* since this push read it.                                                 *)
AdditiveUnlessOverlapping ==
  [][ \A d \in Devices :
        (push[d].stage = "loaded" /\ push'[d].stage = "stored" /\ push[d].base = row)
          => \A old \in row, new \in row' : NoLess(old.profile, new.profile) ]_vars

(* The leaderboard never falls behind a value it showed, although the row   *)
(* it is computed from may (server sync.rs: the database never regresses a  *)
(* score even if the client sends stale data).                              *)
BoardNeverRegresses ==
  [][board.score <= board'.score /\ board'.time <= board.time]_vars

(* sync_plugin.rs on build_payload: the server replaces the nil user id, so *)
(* a push that arrives is not refused.                                      *)
PushNeverRefused == \A d \in Devices : push[d].stage # "refused"
=============================================================================
