------------------------------ MODULE Session ------------------------------
(***************************************************************************)
(* The life of games in one run of the engine and across runs: requests    *)
(* for a new game and the dialog that guards a played one, the search for  *)
(* a winnable deal, the game restored at launch, the game-over screen,     *)
(* pause, forfeit, the saved game and the losses that statistics count.    *)
(*                                                                         *)
(* A frame runs through the phases of pc.  "before": systems ahead of the  *)
(* statistics' reader of the requests, and those behind GameMutation in    *)
(* the frame that has just ended; "between": systems behind that reader    *)
(* and ahead of GameMutation; "mutate": handle_new_game; "play": draws,    *)
(* moves and undos.  A board is reduced to what the systems ask of it: has *)
(* it moves, is it won, has it a legal move left.                          *)
(***************************************************************************)
EXTENDS Integers, Sequences, SequencesExt, FiniteSets

CONSTANTS
  None,       (* no game, no search                                        *)
  MaxDeals,   (* deals are numbered 1 .. MaxDeals in the order they are dealt *)
  MaxQueue    (* bound on requests that wait for handle_new_game, or for   *)
              (* the statistics                                            *)

ASSUME BoundsAssumption == MaxDeals \in Nat \ {0} /\ MaxQueue \in Nat
ASSUME NoneAssumption == /\ None \notin [deal : 1 .. MaxDeals, moved : BOOLEAN]
                         /\ None \notin BOOLEAN

VARIABLES
  pc,        (* the phase of the frame                                     *)
  live,      (* GameStateResource                                          *)
  pending,   (* PendingRestoredGame                                        *)
  disk,      (* the saved game, game_state.json                            *)
  requests,  (* NewGameRequestEvents handle_new_game has not read          *)
  unread,    (* how many of them update_stats_on_new_game has not read     *)
  forfeits,  (* a ForfeitEvent nobody has read                             *)
  confirm,   (* how many ConfirmNewGameScreens are open                    *)
  opening, closing,  (* handle_new_game's deferred spawns and despawns     *)
  screens,   (* the other open screens with a ModalScrim                   *)
  spawning,  (* those whose spawn is a command not yet carried out         *)
  paused,    (* PausedResource                                             *)
  search,    (* PendingNewGameSeed: is the request it serves a confirmed one *)
  changed,   (* a StateChangedEvent check_no_moves has not read            *)
  dealt,     (* deals made so far                                          *)
  ended,     (* deals won or replaced by handle_new_game                   *)
  counted    (* the live game: "yes" if record_abandoned has counted it,    *)
             (* "swapped" if it was restored while the dialog's Yes for     *)
             (* another one waited                                          *)

boards  == <<live, pending, disk, ended, dealt>>
queue   == <<requests, unread, forfeits>>
dialogs == <<confirm, opening, closing, spawning>>

vars == <<pc, boards, queue, dialogs, screens, paused, search, changed,
          counted>>

Deals == 1 .. MaxDeals

Game == [deal : Deals, moved : BOOLEAN, won : BOOLEAN, stuck : BOOLEAN]

(* What a file keeps: a won game is never written, and whether there is a  *)
(* move left is seen when it is loaded.                                    *)
SavedGame == [deal : Deals, moved : BOOLEAN]

(* Where a request comes from: the player, without and with consent        *)
(* (Shift+N, a seed typed in, the restore prompt), the dialog's Yes, or a  *)
(* search that has ended.  Seed and mode are left out: whether a request   *)
(* is searched for a winnable deal or dealt at once is a choice, except    *)
(* that a seed found is dealt.                                             *)
Kinds == {"player", "sure", "dialog", "found", "foundSure"}
Confirmed(kind) == kind \in {"sure", "dialog", "foundSure"}
HasSeed(kind)   == kind \in {"found", "foundSure"}

Screens == {"gameover", "restore", "pause", "forfeit", "other"}

Saved(g) == [deal |-> g.deal, moved |-> g.moved]

Loaded(file, stuck) ==
  [deal |-> file.deal, moved |-> file.moved, won |-> FALSE, stuck |-> stuck]

NewGame(d) == [deal |-> d, moved |-> FALSE, won |-> FALSE, stuck |-> FALSE]

InProgress(g) == g.moved /\ ~ g.won

NoScrims == screens = {} /\ confirm = 0

---------------------------------------------------------------------------
(* GamePlugin::build: a saved game with moves waits for the player's       *)
(* answer behind a fresh deal.                                             *)
Launched(file, n) ==
  IF file # None /\ file.moved THEN [live |-> NewGame(n), pending |-> file]
  ELSE [live    |-> IF file = None THEN NewGame(n) ELSE Loaded(file, FALSE),
        pending |-> None]

Launch(file) ==
  /\ dealt < MaxDeals
  /\ dealt' = dealt + 1
  /\ live' = Launched(file, dealt').live
  /\ pending' = Launched(file, dealt').pending
  /\ disk' = file
  /\ pc' = "before"
  /\ requests' = << >> /\ unread' = 0 /\ forfeits' = FALSE
  /\ confirm' = 0 /\ opening' = 0 /\ closing' = FALSE
  /\ screens' = {} /\ spawning' = {}
  /\ paused' = FALSE /\ search' = None /\ changed' = FALSE
  /\ counted' = "no"
  /\ UNCHANGED ended

Init ==
  /\ pc = "before"
  /\ live = NewGame(1) /\ pending = None /\ disk = None
  /\ dealt = 1 /\ ended = {} /\ counted = "no"
  /\ requests = << >> /\ unread = 0 /\ forfeits = FALSE
  /\ confirm = 0 /\ opening = 0 /\ closing = FALSE
  /\ screens = {} /\ spawning = {}
  /\ paused = FALSE /\ search = None /\ changed = FALSE

---------------------------------------------------------------------------
(* Requests.                                                               *)

Enqueue(kind) ==
  /\ Len(requests) < MaxQueue /\ unread < MaxQueue
  /\ requests' = Append(requests, kind)
  /\ unread' = unread + 1

(* The systems that a request may come from at any point of the frame: the *)
(* mode keys, the home screen's cards, the HUD's menu, the win summary.    *)
AskNewGame ==
  /\ pc \in {"before", "between"}
  /\ Enqueue("player")
  /\ UNCHANGED <<pc, boards, forfeits, dialogs, screens, paused, search,
                 changed, counted>>

(* handle_keyboard_core: N, with Shift for consent.                        *)
PressN ==
  /\ pc \in {"before", "between"}
  /\ ~ paused
  /\ confirm = 0 /\ "restore" \notin screens
  /\ \E kind \in {"player", "sure"} : Enqueue(kind)
  /\ UNCHANGED <<pc, boards, forfeits, dialogs, screens, paused, search,
                 changed, counted>>

(* poll_pending_new_game_seed: the search has ended, its seed is asked for *)
(* in a request of its own.                                                *)
PollSearch ==
  /\ pc \in {"before", "between"}
  /\ search # None
  /\ Enqueue(IF search THEN "foundSure" ELSE "found")
  /\ search' = None
  /\ UNCHANGED <<pc, boards, forfeits, dialogs, screens, paused, changed,
                 counted>>

(* record_abandoned, n times: each adds a loss to the statistics.          *)
Count(n) == counted' = (IF InProgress(live) /\ n > 0 THEN "yes" ELSE counted)

(* handle_forfeit: ahead of the reader below, in every frame.              *)
HandleForfeit ==
  /\ pc = "before"
  /\ forfeits
  /\ Count(1)
  /\ Enqueue("player")
  /\ forfeits' = FALSE
  /\ UNCHANGED <<pc, boards, dialogs, screens, paused, search, changed>>

(* Mutant: the dialog's Yes is not counted, the request it confirms was.   *)
CountAskedOnly ==
  /\ pc = "before"
  /\ ~ forfeits
  /\ Count(IF "dialog" \in Range(requests) THEN 0 ELSE unread)
  /\ unread' = 0
  /\ pc' = "between"
  /\ UNCHANGED <<boards, requests, forfeits, dialogs, screens, paused, search, changed>>

(* update_stats_on_new_game: one loss per unread request.                  *)
CountAbandoned ==
  /\ pc = "before"
  /\ ~ forfeits
  /\ Count(unread)
  /\ unread' = 0
  /\ pc' = "between"
  /\ UNCHANGED <<boards, requests, forfeits, dialogs, screens, paused, search,
                 changed>>

BeginMutation ==
  /\ pc = "between"
  /\ pc' = "mutate"
  /\ UNCHANGED <<boards, queue, dialogs, screens, paused, search, changed, counted>>

---------------------------------------------------------------------------
(* handle_new_game, one request after the other.  The dialogs and screens  *)
(* it looks at are those of the start of the system: its own spawns and    *)
(* despawns are commands, carried out when the system has ended, with those *)
(* of the systems that ran before.                                         *)

NeedsConfirm == InProgress(live)

Asks(kind) == NeedsConfirm /\ confirm = 0 /\ ~ Confirmed(kind)

(* Mutant: one dialog is despawned, open or not.                           *)
CarryOutOnOne ==
  /\ confirm' = confirm + opening - (IF closing THEN 1 ELSE 0)
  /\ screens' = (IF closing THEN screens \ {"gameover"} ELSE screens) \cup spawning
  /\ spawning' = {}
  /\ opening' = 0
  /\ closing' = FALSE

CarryOutCommands ==
  /\ confirm' = (IF closing THEN 0 ELSE confirm) + opening
  /\ screens' = (IF closing THEN screens \ {"gameover"} ELSE screens) \cup spawning
  /\ spawning' = {}
  /\ opening' = 0
  /\ closing' = FALSE

(* Some screen is open: the request is dropped, and the loop left.         *)
RefuseRequest ==
  /\ pc = "mutate" /\ requests # << >>
  /\ Asks(Head(requests))
  /\ ~ NoScrims
  /\ requests' = Tail(requests)
  /\ CarryOutCommands
  /\ pc' = "play"
  /\ UNCHANGED <<boards, unread, forfeits, paused, search, changed, counted>>

OpenDialog ==
  /\ pc = "mutate" /\ requests # << >>
  /\ Asks(Head(requests))
  /\ NoScrims
  /\ opening' = opening + 1
  /\ requests' = Tail(requests)
  /\ UNCHANGED <<pc, boards, unread, forfeits, confirm, closing, screens,
                 spawning, paused, search, changed, counted>>

StartSearch ==
  /\ pc = "mutate" /\ requests # << >>
  /\ ~ Asks(Head(requests))
  /\ ~ HasSeed(Head(requests))
  /\ closing' = TRUE
  /\ search' = Confirmed(Head(requests))
  /\ requests' = Tail(requests)
  /\ UNCHANGED <<pc, boards, unread, forfeits, confirm, opening, screens, spawning,
                 paused, changed, counted>>

(* Mutant: the saved game is left behind.                                  *)
DealKeepsFile ==
  /\ dealt < MaxDeals
  /\ dealt' = dealt + 1
  /\ live' = NewGame(dealt')
  /\ ended' = ended \cup {live.deal}
  /\ UNCHANGED <<disk, pending>>

(* A fresh deal; the saved game is deleted.                                *)
DealAnew ==
  /\ dealt < MaxDeals
  /\ dealt' = dealt + 1
  /\ live' = NewGame(dealt')
  /\ ended' = ended \cup {live.deal}
  /\ disk' = None
  /\ UNCHANGED pending

Deal ==
  /\ pc = "mutate" /\ requests # << >>
  /\ ~ Asks(Head(requests))
  /\ closing' = TRUE
  /\ search' = None
  /\ DealAnew
  /\ changed' = TRUE
  /\ counted' = "no"
  /\ requests' = Tail(requests)
  /\ UNCHANGED <<pc, unread, forfeits, confirm, opening, screens, spawning, paused>>

EndOfRequests ==
  /\ pc = "mutate" /\ requests = << >>
  /\ CarryOutCommands
  /\ pc' = "play"
  /\ UNCHANGED <<boards, queue, paused, search, changed, counted>>

---------------------------------------------------------------------------
(* Play: handle_draw, handle_move and handle_undo.                         *)

(* handle_move deletes the saved game with the winning move.               *)
FileAfterMove(won) == IF won THEN None ELSE disk

Move ==
  /\ pc = "play"
  /\ ~ live.won
  /\ \E won, stuck \in BOOLEAN :
       /\ ~ (won /\ stuck)
       /\ live' = [live EXCEPT !.moved = TRUE, !.won = won, !.stuck = stuck]
       /\ disk' = FileAfterMove(won)
       /\ ended' = IF won THEN ended \cup {live.deal} ELSE ended
  /\ changed' = TRUE
  /\ UNCHANGED <<pc, pending, dealt, queue, dialogs, screens, paused, search,
                 counted>>

Undo ==
  /\ pc = "play"
  /\ InProgress(live)
  /\ \E moved, stuck \in BOOLEAN :
       /\ stuck => moved    (* a deal's stock can be drawn *)
       /\ live' = [live EXCEPT !.moved = moved, !.stuck = stuck]
  /\ changed' = TRUE
  /\ UNCHANGED <<pc, pending, disk, ended, dealt, queue, dialogs, screens, paused,
                 search, counted>>

(* A screen without a dialog of its own is spawned: it is there, with its   *)
(* scrim, when the commands have been carried out.                         *)
Spawn(screen) ==
  /\ screen \notin spawning
  /\ spawning' = spawning \cup {screen}
  /\ UNCHANGED <<confirm, opening, closing>>

DeadEnd == live.stuck /\ ~ live.won

(* check_no_moves: on a change, the game-over screen goes when there is a  *)
(* move again, and comes at a dead end when nothing else is open.  Mutant:  *)
(* it is never taken down.                                                 *)
GameOverScreenKept ==
  /\ UNCHANGED screens
  /\ IF DeadEnd /\ NoScrims THEN Spawn("gameover") ELSE UNCHANGED dialogs

GameOverScreen ==
  /\ screens' = IF DeadEnd THEN screens ELSE screens \ {"gameover"}
  /\ IF DeadEnd /\ NoScrims THEN Spawn("gameover") ELSE UNCHANGED dialogs

EndOfPlay ==
  /\ pc = "play"
  /\ IF changed THEN GameOverScreen ELSE UNCHANGED <<screens, dialogs>>
  /\ changed' = FALSE
  /\ pc' = "before"
  /\ UNCHANGED <<boards, queue, paused, search, counted>>

(* Bevy carries the commands out at the sync points of the schedule, at the *)
(* latest when handle_new_game's are, ahead of check_no_moves.             *)
SyncPoint ==
  /\ pc = "before" /\ spawning # {}
  /\ screens' = screens \cup spawning /\ spawning' = {}
  /\ UNCHANGED <<pc, boards, queue, confirm, opening, closing, paused, search, changed,
                 counted>>

---------------------------------------------------------------------------
(* Behind GameMutation: the dialog's and the game-over screen's answers.   *)

(* handle_confirm_input and its button: both ask for the only dialog       *)
(* (screens.single()), so that of two dialogs neither can be answered.     *)
ConfirmYes ==
  /\ pc = "before"
  /\ confirm = 1
  /\ Enqueue("dialog")
  /\ confirm' = 0
  /\ UNCHANGED <<pc, boards, forfeits, opening, closing, spawning, screens, paused,
                 search, changed, counted>>

ConfirmNo ==
  /\ pc = "before"
  /\ confirm = 1
  /\ confirm' = 0
  /\ UNCHANGED <<pc, boards, queue, opening, closing, spawning, screens, paused,
                 search, changed, counted>>

GameOverNewGame ==
  /\ pc = "before"
  /\ "gameover" \in screens
  /\ Enqueue("player")
  /\ UNCHANGED <<pc, boards, forfeits, dialogs, screens, paused, search, changed,
                 counted>>

(* The undo it asks for is an Undo of the next frame, or refused.          *)
GameOverUndo ==
  /\ pc = "before"
  /\ "gameover" \in screens
  /\ screens' = screens \ {"gameover"}
  /\ UNCHANGED <<pc, boards, queue, dialogs, paused, search, changed, counted>>

---------------------------------------------------------------------------
(* Screens.  Their systems are unordered: a step of theirs counts as one   *)
(* ahead of GameMutation, or as one behind handle_new_game whose commands  *)
(* wait to be carried out, so that it does not see the dialog they open.   *)
(* Nor do two of them in a frame see each other's screens.  What they       *)
(* despawn is gone at once.                                                *)
Unordered == pc = "before" \/ (pc = "mutate" /\ requests = << >>)

(* Bound: of the screens the player opens himself on top of another, only  *)
(* those on top of the pause screen, which they close.                     *)
OnTop == screens \cup spawning \subseteq {"pause"}

(* spawn_restore_prompt_if_pending.                                        *)
SpawnRestorePrompt ==
  /\ Unordered
  /\ pending # None
  /\ NoScrims
  /\ Spawn("restore")
  /\ UNCHANGED <<pc, boards, queue, screens, paused, search, changed, counted>>

(* handle_restore_prompt.                                                  *)
RestoreContinue ==
  /\ pc \in {"before", "between"}
  /\ "restore" \in screens
  /\ screens' = screens \ {"restore"}
  /\ IF pending # None
     THEN /\ \E stuck \in BOOLEAN : live' = Loaded(pending, stuck)
          /\ pending' = None /\ changed' = TRUE
          /\ counted' = (IF "dialog" \in Range(requests) THEN "swapped" ELSE "no")
     ELSE UNCHANGED <<live, pending, changed, counted>>
  /\ UNCHANGED <<pc, disk, ended, dealt, queue, dialogs, paused, search>>

RestoreNewGame ==
  /\ pc \in {"before", "between"}
  /\ "restore" \in screens
  /\ screens' = screens \ {"restore"}
  /\ pending' = None
  /\ Enqueue("sure")
  /\ UNCHANGED <<pc, live, disk, ended, dealt, forfeits, dialogs, paused, search,
                 changed, counted>>

(* toggle_pause: opening it saves the live game, whatever waits.           *)
Pause ==
  /\ Unordered
  /\ NoScrims
  /\ Spawn("pause")
  /\ paused' = TRUE
  /\ disk' = IF live.won THEN disk ELSE Saved(live)
  /\ UNCHANGED <<pc, live, pending, ended, dealt, queue, screens, search, changed,
                 counted>>

Resume ==
  /\ Unordered
  /\ screens = {"pause"} /\ confirm = 0
  /\ screens' = {}
  /\ paused' = FALSE
  /\ UNCHANGED <<pc, boards, queue, dialogs, search, changed, counted>>

(* Mutant: the overlay closes the pause screen and leaves the game paused. *)
AutoResumeKeepsFlag == screens' = screens \ {"pause"} /\ UNCHANGED paused

ClosePause == screens' = screens \ {"pause"} /\ paused' = FALSE

(* auto_resume_on_overlay.                                                 *)
AutoResume ==
  /\ Unordered
  /\ "pause" \in screens
  /\ screens \ {"pause", "forfeit"} # {} \/ confirm # 0
  /\ ClosePause
  /\ UNCHANGED <<pc, boards, queue, dialogs, search, changed, counted>>

(* handle_forfeit_request and the answers to its modal.                    *)
RequestForfeit ==
  /\ Unordered
  /\ "forfeit" \notin screens
  /\ ~ live.won
  /\ OnTop
  /\ Spawn("forfeit")
  /\ UNCHANGED <<pc, boards, queue, screens, paused, search, changed, counted>>

ForfeitYes ==
  /\ Unordered
  /\ "forfeit" \in screens
  /\ screens' = screens \ {"forfeit", "pause"}
  /\ paused' = FALSE
  /\ forfeits' = TRUE
  /\ UNCHANGED <<pc, boards, requests, unread, dialogs, search, changed, counted>>

ForfeitNo ==
  /\ Unordered
  /\ "forfeit" \in screens
  /\ screens' = screens \ {"forfeit"}
  /\ UNCHANGED <<pc, boards, queue, dialogs, paused, search, changed, counted>>

(* The screens of the other plugins: home, statistics, settings, ...       *)
OpenOther ==
  /\ Unordered
  /\ "other" \notin screens
  /\ OnTop
  /\ Spawn("other")
  /\ UNCHANGED <<pc, boards, queue, screens, paused, search, changed, counted>>

CloseOther ==
  /\ Unordered
  /\ "other" \in screens
  /\ screens' = screens \ {"other"}
  /\ UNCHANGED <<pc, boards, queue, dialogs, paused, search, changed, counted>>

---------------------------------------------------------------------------
(* Saving, quitting and dying.                                             *)

(* auto_save_game_state.                                                   *)
AutoSave ==
  /\ Unordered
  /\ ~ paused /\ InProgress(live) /\ pending = None
  /\ disk' = Saved(live)
  /\ UNCHANGED <<pc, live, pending, ended, dealt, queue, dialogs, screens, paused,
                 search, changed, counted>>

(* save_game_state_on_exit, in the Last schedule, and the next launch.     *)
SavedOnExit ==
  IF pending # None THEN pending ELSE IF live.won THEN disk ELSE Saved(live)

Exit == pc = "before" /\ Launch(SavedOnExit)

Kill == Launch(disk)

---------------------------------------------------------------------------
Frame ==
  \/ CountAbandoned \/ BeginMutation
  \/ RefuseRequest \/ OpenDialog \/ StartSearch \/ Deal \/ EndOfRequests
  \/ EndOfPlay \/ SyncPoint

Next ==
  \/ Frame
  \/ AskNewGame \/ PressN \/ PollSearch \/ HandleForfeit
  \/ Move \/ Undo
  \/ ConfirmYes \/ ConfirmNo \/ GameOverNewGame \/ GameOverUndo
  \/ SpawnRestorePrompt \/ RestoreContinue \/ RestoreNewGame
  \/ Pause \/ Resume \/ AutoResume
  \/ RequestForfeit \/ ForfeitYes \/ ForfeitNo
  \/ OpenOther \/ CloseOther
  \/ AutoSave \/ Exit \/ Kill

Spec == Init /\ [][Next]_vars

---------------------------------------------------------------------------
TypeOK ==
  /\ pc \in {"before", "between", "mutate", "play"}
  /\ live \in Game
  /\ pending \in SavedGame \cup {None}
  /\ disk \in SavedGame \cup {None}
  /\ requests \in Seq(Kinds)
  /\ Len(requests) <= MaxQueue
  /\ unread \in 0 .. MaxQueue
  /\ forfeits \in BOOLEAN
  /\ confirm \in Nat
  /\ opening \in Nat
  /\ closing \in BOOLEAN
  /\ screens \subseteq Screens /\ spawning \subseteq Screens
  /\ paused \in BOOLEAN
  /\ search \in BOOLEAN \cup {None}
  /\ changed \in BOOLEAN
  /\ dealt \in Deals
  /\ ended \subseteq Deals
  /\ counted \in {"no", "yes", "swapped"}

(* A game that was won, or replaced by a new one, never comes back: not as *)
(* the saved game, not as the one offered at launch, whatever mixture of   *)
(* auto-save, pause, exit and kill came between.                           *)
EndedNeverReturns ==
  \A g \in {pending, disk} \ {None} : g.deal \notin ended

(* The game is never paused behind the player's back: the flag that stops  *)
(* input, clock and auto-save is set only while its screen is open, or is   *)
(* about to be when the commands of the frame are carried out.             *)
PausedIsVisible == paused => "pause" \in screens \cup spawning

(* Every variable has its type, and the game-over screen never outlives    *)
(* the dead end it announces.                                              *)
GameOverTrue ==
  /\ TypeOK
  /\ pc = "before" /\ ~ changed /\ "gameover" \in screens => DeadEnd

(* A played game that the dialog's Yes replaces has been counted lost: the *)
(* answer is written behind GameMutation, so that the statistics read it   *)
(* at the start of the next frame, while the game is still there.  The     *)
(* request may be carried out frames later, when one ahead of it has been  *)
(* refused.  (A game restored meanwhile is replaced uncounted.)            *)
DialogAbandonsCounted ==
  [][(pc = "mutate" /\ pc' = "mutate" /\ dealt' # dealt
      /\ Head(requests) = "dialog" /\ NeedsConfirm)
       => counted # "no"]_vars
=============================================================================
