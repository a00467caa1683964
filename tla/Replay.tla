------------------------------- MODULE Replay -------------------------------
(***************************************************************************)
(* The recording of a game, the history of recorded wins and the playback  *)
(* of one of them: RecordingReplay, record_replay_on_win and ReplayHistory,*)
(* ReplayPlaybackState with its tick, pause, step, step back and stop, and *)
(* the guard that keeps playback out of the recording.                     *)
(*                                                                         *)
(* A board is the sequence of the moves that led to it; a move that is the *)
(* same as the last one does not fit it (some rule must refuse some move), *)
(* and the game is won after WinAt moves.  Requests are events: a system   *)
(* that writes one behind GameMutation is heard in the next frame.         *)
(***************************************************************************)
EXTENDS Naturals, Sequences, SequencesExt

CONSTANTS
  Moves,       (* the moves there are                                      *)
  WinAt,       (* the moves a won game takes                               *)
  UndoCap,     (* MAX_UNDO_STACK, 64 in the code                           *)
  HistoryCap,  (* REPLAY_HISTORY_CAP, 8 in the code                        *)
  MaxRecorded, (* bound: moves are asked for, and a playback begun, below it *)
  MaxInbox     (* bound on requests in flight                              *)

ASSUME SizesAssumption ==
  /\ WinAt \in Nat \ {0} /\ UndoCap \in Nat \ {0} /\ HistoryCap \in Nat \ {0}
  /\ MaxRecorded \in Nat /\ MaxInbox \in Nat

VARIABLES
  pc,                (* the phase of the frame                             *)
  board, undoable,   (* the live game and how much of it can be undone     *)
  own,               (* it was dealt here and only played since            *)
  recording,         (* RecordingReplay::moves                             *)
  baseline,          (* RecordingSnapshot: the length to keep, or NoBaseline *)
  history,           (* ReplayHistory, most recent first                   *)
  phase,             (* ReplayPlaybackState                                *)
  tape, cursor, held,(* of Playing: its replay, its cursor, is it paused   *)
  back_pending,      (* a step back waits for a StateChangedEvent          *)
  inbox, undos,      (* move and draw requests, undo requests, not handled *)
  changed, won       (* StateChangedEvent and GameWonEvent not read        *)

game     == <<board, undoable, own>>
player   == <<phase, tape, cursor, held>>
requests == <<inbox, undos>>
signals  == <<changed, won>>
replayVars == <<pc, game, recording, baseline, history, player, back_pending, requests,
          signals>>

(* A playback may leave what is in flight at its two ends in the recording. *)
Longest    == MaxRecorded + 2 * MaxInbox
NoBaseline == Longest + 1

IsWon(b)   == Len(b) = WinAt
Fits(b, m) == ~ IsWon(b) /\ (b = << >> \/ Last(b) # m)

(* The game at hand when the player begins: a fresh deal, or one restored  *)
(* (handle_restore_prompt) without its undo stack and its recording.       *)
Dealt ==
  \/ board = << >> /\ own = TRUE
  \/ own = FALSE /\ \E m \in Moves : board = <<m>>

ReplayInit ==
  /\ pc = "input"
  /\ Dealt /\ undoable = 0
  /\ recording = << >> /\ baseline = NoBaseline /\ history = << >>
  /\ phase = "Inactive" /\ tape = << >> /\ cursor = 0 /\ held = FALSE
  /\ back_pending = FALSE
  /\ inbox = << >> /\ undos = 0
  /\ changed = FALSE /\ won = FALSE

(* Systems without an order run ahead of GameMutation or behind it, which  *)
(* is ahead of it in the next frame unless the guard of the recording runs *)
(* in between.                                                             *)
Unordered == pc \in {"input", "after"}

---------------------------------------------------------------------------
(* The live game.                                                          *)

Request(m) ==
  /\ Len(inbox) < MaxInbox
  /\ inbox' = Append(inbox, m)

(* There is room for another move (the bound of this module).              *)
Room == Len(recording) + Len(inbox) < MaxRecorded

(* A move by mouse or touch: nothing stops it during playback.             *)
PlayerMove ==
  /\ pc = "input" /\ Room
  /\ \E m \in Moves : Request(m)
  /\ UNCHANGED <<pc, game, recording, baseline, history, player, back_pending, undos,
                 signals>>

(* handle_keyboard_core: the keys are dead during playback.                *)
PlayerUndo ==
  /\ pc = "input"
  /\ phase = "Inactive"
  /\ undos < MaxInbox
  /\ undos' = undos + 1
  /\ UNCHANGED <<pc, game, recording, baseline, history, player, back_pending, inbox,
                 signals>>

(* handle_new_game: the recording is cleared with the fresh deal.          *)
NewGame ==
  /\ pc = "input"
  /\ board' = << >> /\ undoable' = 0
  /\ own' = (phase = "Inactive")
  /\ recording' = << >>
  /\ changed' = TRUE
  /\ UNCHANGED <<pc, baseline, history, player, back_pending, requests, won>>

---------------------------------------------------------------------------
(* GameMutation: every draw and move request, then every undo request,     *)
(* whatever the order in which they were written.                          *)

BeginMutation ==
  /\ pc = "input"
  /\ pc' = "mutate"
  /\ UNCHANGED <<game, recording, baseline, history, player, back_pending, requests,
                 signals>>

(* handle_draw and handle_move record what the game accepts.               *)
Recorded(m) == Append(recording, m)

Accept(m) ==
  /\ board' = Append(board, m)
  /\ undoable' = IF undoable < UndoCap THEN undoable + 1 ELSE undoable
  /\ recording' = Recorded(m)
  /\ won' = (won \/ IsWon(board'))
  /\ changed' = TRUE

HandleMove ==
  /\ pc = "mutate" /\ inbox # << >>
  /\ IF Fits(board, Head(inbox)) THEN Accept(Head(inbox))
     ELSE UNCHANGED <<board, undoable, recording, signals>>
  /\ inbox' = Tail(inbox)
  /\ UNCHANGED <<pc, own, baseline, history, player, back_pending, undos>>

(* handle_undo: the recording is not told.                                 *)
HandleUndo ==
  /\ pc = "mutate" /\ inbox = << >> /\ undos > 0
  /\ IF undoable > 0 /\ ~ IsWon(board)
     THEN board' = Front(board) /\ undoable' = undoable - 1 /\ changed' = TRUE
     ELSE UNCHANGED <<board, undoable, changed>>
  /\ undos' = undos - 1
  /\ UNCHANGED <<pc, own, recording, baseline, history, player, back_pending,
                 inbox, won>>

EndOfMutation ==
  /\ pc = "mutate" /\ inbox = << >> /\ undos = 0
  /\ pc' = "after"
  /\ UNCHANGED <<game, recording, baseline, history, player, back_pending, requests,
                 signals>>

---------------------------------------------------------------------------
(* Behind GameMutation, in either order.                                   *)

(* Mutant: the history is never cut to its cap.                            *)
WithReplayUncapped(replays, moves) == <<moves>> \o replays

(* append_replay_to_history.                                               *)
WithReplay(replays, moves) ==
  SubSeq(<<moves>> \o replays, 1,
         IF Len(replays) < HistoryCap THEN Len(replays) + 1 ELSE HistoryCap)

(* record_replay_on_win.                                                   *)
RecordWin ==
  /\ pc \in {"after", "settled"}
  /\ won
  /\ won' = FALSE
  /\ history' = IF recording = << >> THEN history ELSE WithReplay(history, recording)
  /\ UNCHANGED <<pc, game, recording, baseline, player, back_pending, requests, changed>>

(* Mutant: the guard never lets go of the length it keeps.                 *)
KeepRecordingForGood ==
  /\ baseline' = IF baseline = NoBaseline /\ phase # "Inactive"
                 THEN Len(recording) ELSE baseline
  /\ recording' = IF Len(recording) > baseline'
                  THEN SubSeq(recording, 1, baseline') ELSE recording

(* record_replay_skip_during_playback: what playback has recorded is cut   *)
(* off again, in every frame.                                              *)
KeepRecording ==
  IF phase = "Inactive" THEN baseline' = NoBaseline /\ UNCHANGED recording
  ELSE /\ baseline' = IF baseline = NoBaseline THEN Len(recording) ELSE baseline
       /\ recording' = IF Len(recording) > baseline'
                       THEN SubSeq(recording, 1, baseline') ELSE recording

SkipDuringPlayback ==
  /\ pc = "after"
  /\ KeepRecording
  /\ pc' = "settled"
  /\ UNCHANGED <<game, history, player, back_pending, requests, signals>>

(* A change of the board is news to handle_arrow_keyboard: the step back   *)
(* has been taken.                                                         *)
EndOfFrame ==
  /\ pc = "settled" /\ ~ won
  /\ pc' = "input"
  /\ changed' = FALSE
  /\ back_pending' = (back_pending /\ ~ changed)
  /\ UNCHANGED <<game, recording, baseline, history, player, requests, won>>

---------------------------------------------------------------------------
(* Playback.                                                               *)

(* start_replay_playback: a fresh deal takes the live game's place.        *)
WatchReplay ==
  /\ pc = "input" /\ Room
  /\ \E r \in Range(history) : tape' = r
  /\ phase' = "Playing" /\ cursor' = 0 /\ held' = FALSE
  /\ board' = << >> /\ undoable' = 0
  /\ own' = FALSE
  /\ UNCHANGED <<pc, recording, baseline, history, back_pending, requests, signals>>

StopReplay ==
  /\ Unordered
  /\ phase = "Playing"
  /\ phase' = "Inactive" /\ tape' = << >> /\ cursor' = 0 /\ held' = FALSE
  /\ UNCHANGED <<pc, game, recording, baseline, history, back_pending, requests, signals>>

TogglePausePlayback ==
  /\ pc = "input"
  /\ phase = "Playing"
  /\ held' = ~ held
  /\ UNCHANGED <<pc, game, recording, baseline, history, phase, tape, cursor,
                 back_pending, requests, signals>>

(* Mutant: the last move is fired and the playback never ends.             *)
PhaseNeverCompleted(next) == phase

(* The end of the tape ends the playback, in the tick that reaches it.     *)
PhaseAt(next) == IF next >= Len(tape) THEN "Completed" ELSE phase

(* tick_replay_playback with its time run out, and at the tape's end.      *)
Advance ==
  /\ pc = "input"
  /\ phase = "Playing" /\ ~ held
  /\ cursor < Len(tape)
  /\ Request(tape[cursor + 1])
  /\ cursor' = cursor + 1
  /\ phase' = PhaseAt(cursor')
  /\ UNCHANGED <<pc, game, recording, baseline, history, tape, held, back_pending,
                 undos, signals>>

Complete ==
  /\ pc = "input"
  /\ phase = "Playing" /\ ~ held
  /\ cursor >= Len(tape)
  /\ phase' = PhaseAt(cursor)
  /\ UNCHANGED <<pc, game, recording, baseline, history, tape, cursor, held,
                 back_pending, requests, signals>>

(* auto_clear_completed_replay, when the linger is over.                   *)
AutoClear ==
  /\ Unordered
  /\ phase = "Completed"
  /\ phase' = "Inactive" /\ tape' = << >> /\ cursor' = 0 /\ held' = FALSE
  /\ UNCHANGED <<pc, game, recording, baseline, history, back_pending, requests, signals>>

(* handle_step_button and the right arrow.                                 *)
Step ==
  /\ pc = "input"
  /\ phase = "Playing" /\ held
  /\ cursor < Len(tape)
  /\ Request(tape[cursor + 1])
  /\ cursor' = cursor + 1
  /\ UNCHANGED <<pc, game, recording, baseline, history, phase, tape, held,
                 back_pending, undos, signals>>

(* handle_arrow_keyboard, the left arrow: unless a step back is in flight. *)
StepBack ==
  /\ pc = "input"
  /\ phase = "Playing" /\ held
  /\ cursor > 0
  /\ ~ back_pending
  /\ undos < MaxInbox
  /\ undos' = undos + 1
  /\ cursor' = cursor - 1
  /\ back_pending' = TRUE
  /\ UNCHANGED <<pc, game, recording, baseline, history, phase, tape, held, inbox, signals>>

---------------------------------------------------------------------------
Frame ==
  \/ BeginMutation \/ HandleMove \/ HandleUndo \/ EndOfMutation
  \/ RecordWin \/ SkipDuringPlayback \/ EndOfFrame

ReplayNext ==
  \/ Frame
  \/ PlayerMove \/ PlayerUndo \/ NewGame
  \/ WatchReplay \/ StopReplay \/ TogglePausePlayback
  \/ Advance \/ Complete \/ AutoClear \/ Step \/ StepBack

(* Frames go on; time passes in each of them, so that a tick whose chance  *)
(* comes again and again is not put off for ever.                          *)
Fairness ==
  /\ WF_replayVars(Frame)
  /\ SF_replayVars(Advance) /\ SF_replayVars(Complete) /\ SF_replayVars(AutoClear)

ReplaySpec == ReplayInit /\ [][ReplayNext]_replayVars /\ Fairness

---------------------------------------------------------------------------
Recordings == UNION {[1 .. n -> Moves] : n \in 0 .. Longest}

ReplayTypeOK ==
  /\ pc \in {"input", "mutate", "after", "settled"}
  /\ board \in Seq(Moves) /\ Len(board) <= WinAt
  /\ undoable \in 0 .. UndoCap /\ undoable <= Len(board)
  /\ own \in BOOLEAN
  /\ recording \in Recordings
  /\ baseline \in 0 .. NoBaseline
  /\ history \in Seq(Recordings) /\ Len(history) <= HistoryCap
  /\ phase \in {"Inactive", "Playing", "Completed"}
  /\ tape \in Recordings
  /\ cursor \in 0 .. Len(tape)
  /\ held \in BOOLEAN /\ back_pending \in BOOLEAN
  /\ inbox \in Seq(Moves) /\ Len(inbox) <= MaxInbox
  /\ undos \in 0 .. MaxInbox
  /\ changed \in BOOLEAN /\ won \in BOOLEAN

IsSubSequence(s, t) ==
  \E f \in [1 .. Len(s) -> 1 .. Len(t)] :
    /\ \A i, j \in 1 .. Len(s) : i < j => f[i] < f[j]
    /\ \A i \in 1 .. Len(s) : s[i] = t[f[i]]

(* Every variable has its type, and nothing that led to the board of a     *)
(* game dealt and played in this run is missing from its recording,        *)
(* whatever was undone and watched before; the guard of an earlier         *)
(* playback has let go of it.                                              *)
NothingMissing == ReplayTypeOK /\ (own => IsSubSequence(board, recording))

(* Unless the player starts it over and over, a playback that is not paused *)
(* comes to an end, though its moves may be refused and others be played   *)
(* in between.                                                             *)
PlaybackEnds ==
  \/ []<><<WatchReplay>>_replayVars
  \/ (phase = "Playing" /\ ~ held) ~> (phase # "Playing" \/ held)
=============================================================================
