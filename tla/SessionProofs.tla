--------------------------- MODULE SessionProofs ---------------------------
(***************************************************************************)
(* The safety of Session for any number of deals and of waiting requests:  *)
(* its types, and what a player is owed about ended, paused, stuck and     *)
(* abandoned games.                                                        *)
(***************************************************************************)
EXTENDS Session, TLAPS

LEMMA GameFields ==
  ASSUME NEW d \in Deals, NEW moved \in BOOLEAN, NEW won \in BOOLEAN, NEW stuck \in BOOLEAN
  PROVE  [deal |-> d, moved |-> moved, won |-> won, stuck |-> stuck] \in Game
BY DEF Game

LEMMA SavedType ==
  ASSUME NEW g \in Game PROVE Saved(g) \in SavedGame /\ Saved(g) # None
<1>1. Saved(g) \in SavedGame
  BY DEF Saved, Game, SavedGame
<1>2. QED
  BY <1>1, NoneAssumption DEF SavedGame, Deals

LEMMA LoadedType ==
  ASSUME NEW f \in SavedGame, NEW stuck \in BOOLEAN PROVE Loaded(f, stuck) \in Game
BY DEF Loaded, Game, SavedGame

LEMMA NewGameType == ASSUME NEW d \in Deals PROVE NewGame(d) \in Game
BY DEF NewGame, Game

(* What a launch makes of the saved game.                                  *)
LEMMA LaunchedType ==
  ASSUME NEW f \in SavedGame \cup {None}, NEW d \in Deals
  PROVE  /\ Launched(f, d).live \in Game
         /\ Launched(f, d).pending \in SavedGame \cup {None}
<1>1. CASE f # None /\ f.moved
  BY <1>1, NewGameType DEF Launched
<1>2. CASE ~ (f # None /\ f.moved)
  <2>1. (IF f = None THEN NewGame(d) ELSE Loaded(f, FALSE)) \in Game
    BY NewGameType, LoadedType
  <2>2. QED
    BY <1>2, <2>1 DEF Launched
<1>3. QED
  BY <1>1, <1>2

LEMMA LaunchType ==
  ASSUME TypeOK, NEW f \in SavedGame \cup {None}, Launch(f) PROVE TypeOK'
<1>1. dealt' \in Deals
  BY BoundsAssumption DEF Launch, TypeOK, Deals
<1>2. live' \in Game /\ pending' \in SavedGame \cup {None}
  BY <1>1, LaunchedType DEF Launch
<1>3. requests' \in Seq(Kinds) /\ Len(requests') <= MaxQueue /\ unread' \in 0 .. MaxQueue
  BY BoundsAssumption DEF Launch
<1>4. QED
  BY <1>1, <1>2, <1>3 DEF Launch, TypeOK

LEMMA InitType == Init => TypeOK
<1>1. 1 \in Deals /\ NewGame(1) \in Game
  BY BoundsAssumption, NewGameType DEF Deals
<1>2. 0 \in 0 .. MaxQueue /\ << >> \in Seq(Kinds) /\ Len(<< >>) <= MaxQueue
  BY BoundsAssumption
<1>3. ASSUME Init PROVE TypeOK
  <2>1. /\ live \in Game /\ pending \in SavedGame \cup {None} /\ disk \in SavedGame \cup {None}
        /\ dealt \in Deals /\ ended \subseteq Deals
    BY <1>1, <1>3 DEF Init
  <2>2. requests \in Seq(Kinds) /\ Len(requests) <= MaxQueue /\ unread \in 0 .. MaxQueue
    BY <1>2, <1>3 DEF Init
  <2>3. QED
    BY <1>3, <2>1, <2>2 DEF Init, TypeOK
<1>4. QED
  BY <1>3

LEMMA EnqueueType ==
  ASSUME TypeOK, NEW kind \in Kinds, Enqueue(kind)
  PROVE  requests' \in Seq(Kinds) /\ Len(requests') <= MaxQueue /\ unread' \in 0 .. MaxQueue
BY BoundsAssumption DEF TypeOK, Enqueue

LEMMA TailType ==
  ASSUME TypeOK, requests # << >>, requests' = Tail(requests)
  PROVE  requests' \in Seq(Kinds) /\ Len(requests') <= MaxQueue
BY BoundsAssumption DEF TypeOK

LEMMA CarryOutType ==
  ASSUME TypeOK, CarryOutCommands
  PROVE  /\ confirm' \in Nat /\ opening' \in Nat /\ closing' \in BOOLEAN
         /\ screens' \subseteq Screens /\ spawning' \subseteq Screens
<1> DEFINE kept == IF closing THEN 0 ELSE confirm
<1>1. kept \in Nat
  BY Zenon DEF TypeOK
<1>2. confirm' = kept + opening /\ opening \in Nat
  BY DEF TypeOK, CarryOutCommands
<1>3. /\ screens' \subseteq Screens /\ spawning' \subseteq Screens
      /\ opening' = 0 /\ closing' = FALSE
  BY DEF TypeOK, CarryOutCommands
<1> HIDE DEF kept
<1>4. confirm' \in Nat
  BY <1>1, <1>2
<1>5. opening' \in Nat
  BY <1>3
<1>6. QED
  BY <1>3, <1>4, <1>5, Zenon

LEMMA CountType ==
  ASSUME TypeOK, NEW n, Count(n) PROVE counted' \in {"no", "yes", "swapped"}
BY DEF TypeOK, Count

LEMMA NextType == TypeOK /\ [Next]_vars => TypeOK'
<1> SUFFICES ASSUME TypeOK, [Next]_vars PROVE TypeOK'
  OBVIOUS
<1> USE DEF boards, queue, dialogs
<1>1. CASE CountAbandoned
  BY <1>1, CountType, BoundsAssumption DEF CountAbandoned, TypeOK
<1>2. CASE BeginMutation
  BY <1>2 DEF BeginMutation, TypeOK
<1>3. CASE RefuseRequest
  BY <1>3, TailType, CarryOutType DEF RefuseRequest, TypeOK
<1>4. CASE OpenDialog
  BY <1>4, TailType DEF OpenDialog, TypeOK
<1>5. CASE StartSearch
  BY <1>5, TailType DEF StartSearch, TypeOK, Confirmed
<1>6. CASE Deal
  <2>1. dealt' \in Deals /\ dealt \in Deals
    BY <1>6, BoundsAssumption DEF Deal, DealAnew, TypeOK, Deals
  <2>2. live' \in Game /\ live.deal \in Deals
    BY <1>6, <2>1, NewGameType DEF Deal, DealAnew, TypeOK, Game
  <2>3. QED
    BY <1>6, <2>1, <2>2, TailType DEF Deal, DealAnew, TypeOK
<1>7. CASE EndOfRequests
  BY <1>7, CarryOutType DEF EndOfRequests, TypeOK
<1>8. CASE EndOfPlay
  <2>1. /\ screens' \subseteq Screens /\ spawning' \subseteq Screens
        /\ UNCHANGED <<confirm, opening, closing>>
    BY <1>8 DEF EndOfPlay, GameOverScreen, Spawn, TypeOK, Screens
  <2>2. QED
    BY <1>8, <2>1 DEF EndOfPlay, TypeOK
<1>9. CASE AskNewGame
  <2>1. "player" \in Kinds
    BY DEF Kinds
  <2>2. QED
    BY <1>9, <2>1, EnqueueType DEF AskNewGame, TypeOK
<1>10. CASE PressN
  <2>1. {"player", "sure"} \subseteq Kinds
    BY DEF Kinds
  <2>2. QED
    BY <1>10, <2>1, EnqueueType DEF PressN, TypeOK
<1>11. CASE PollSearch
  <2>1. (IF search THEN "foundSure" ELSE "found") \in Kinds
    BY DEF Kinds
  <2>2. QED
    BY <1>11, <2>1, EnqueueType DEF PollSearch, TypeOK
<1>12. CASE HandleForfeit
  <2>1. "player" \in Kinds
    BY DEF Kinds
  <2>2. QED
    BY <1>12, <2>1, EnqueueType, CountType DEF HandleForfeit, TypeOK
<1>13. CASE Move
  <2>1. PICK won \in BOOLEAN, stuck \in BOOLEAN :
          /\ live' = [live EXCEPT !.moved = TRUE, !.won = won, !.stuck = stuck]
          /\ disk' = FileAfterMove(won)
          /\ ended' = IF won THEN ended \cup {live.deal} ELSE ended
    BY <1>13 DEF Move
  <2>2. live' \in Game /\ live.deal \in Deals
    BY <2>1 DEF TypeOK, Game
  <2>3. disk' \in SavedGame \cup {None} /\ ended' \subseteq Deals
    BY <2>1, <2>2 DEF TypeOK, FileAfterMove
  <2>4. QED
    BY <1>13, <2>2, <2>3 DEF Move, TypeOK
<1>14. CASE Undo
  <2>1. live' \in Game
    BY <1>14 DEF Undo, TypeOK, Game
  <2>2. QED
    BY <1>14, <2>1 DEF Undo, TypeOK
<1>15. CASE ConfirmYes
  <2>1. "dialog" \in Kinds
    BY DEF Kinds
  <2>2. QED
    BY <1>15, <2>1, EnqueueType DEF ConfirmYes, TypeOK
<1>16. CASE ConfirmNo
  BY <1>16 DEF ConfirmNo, TypeOK
<1>17. CASE GameOverNewGame
  <2>1. "player" \in Kinds
    BY DEF Kinds
  <2>2. QED
    BY <1>17, <2>1, EnqueueType DEF GameOverNewGame, TypeOK
<1>18. CASE GameOverUndo \/ SpawnRestorePrompt \/ RequestForfeit \/ ForfeitNo \/ OpenOther
              \/ CloseOther \/ SyncPoint
  <2>1. /\ screens' \subseteq Screens /\ spawning' \subseteq Screens
        /\ UNCHANGED <<confirm, opening, closing>>
    BY <1>18 DEF GameOverUndo, SpawnRestorePrompt, RequestForfeit, ForfeitNo, OpenOther,
                 CloseOther, SyncPoint, Spawn, TypeOK, Screens
  <2>2. QED
    BY <1>18, <2>1 DEF GameOverUndo, SpawnRestorePrompt, RequestForfeit, ForfeitNo, OpenOther,
                       CloseOther, SyncPoint, TypeOK
<1>19. CASE RestoreContinue
  <2>1. screens' \subseteq Screens
    BY <1>19 DEF RestoreContinue, TypeOK
  <2>2. CASE pending # None
    <3>1. live' \in Game
      BY <1>19, <2>2, LoadedType DEF RestoreContinue, TypeOK
    <3>2. pending' = None /\ changed' = TRUE /\ counted' \in {"no", "swapped"}
      BY <1>19, <2>2 DEF RestoreContinue
    <3>3. QED
      BY <1>19, <2>1, <3>1, <3>2 DEF RestoreContinue, TypeOK
  <2>3. CASE pending = None
    BY <1>19, <2>1, <2>3 DEF RestoreContinue, TypeOK
  <2>4. QED
    BY <2>2, <2>3
<1>20. CASE RestoreNewGame
  <2>1. "sure" \in Kinds
    BY DEF Kinds
  <2>2. QED
    BY <1>20, <2>1, EnqueueType DEF RestoreNewGame, TypeOK
<1>21. CASE Pause
  <2>1. disk' \in SavedGame \cup {None} /\ spawning' \subseteq Screens
    BY <1>21, SavedType DEF Pause, Spawn, TypeOK, Screens
  <2>2. QED
    BY <1>21, <2>1 DEF Pause, Spawn, TypeOK
<1>22. CASE Resume \/ AutoResume \/ ForfeitYes
  BY <1>22 DEF Resume, AutoResume, ClosePause, ForfeitYes, TypeOK
<1>23. CASE AutoSave
  BY <1>23, SavedType DEF AutoSave, TypeOK
<1>24. CASE Exit
  <2>1. SavedOnExit \in SavedGame \cup {None}
    BY SavedType DEF SavedOnExit, TypeOK
  <2>2. QED
    BY <1>24, <2>1, LaunchType DEF Exit
<1>25. CASE Kill
  BY <1>25, LaunchType DEF Kill, TypeOK
<1>26. CASE UNCHANGED vars
  BY <1>26 DEF vars, TypeOK
<1>27. QED
  BY <1>1, <1>2, <1>3, <1>4, <1>5, <1>6, <1>7, <1>8, <1>9, <1>10, <1>11, <1>12, <1>13, <1>14,
     <1>15, <1>16, <1>17, <1>18, <1>19, <1>20, <1>21, <1>22, <1>23, <1>24, <1>25, <1>26
  DEF Next, Frame

(* Every variable keeps its type, for ever.                                *)
THEOREM TypeCorrect == Spec => []TypeOK
BY InitType, NextType, PTL DEF Spec

---------------------------------------------------------------------------
(* What has ended.                                                         *)

(* Deals are numbered in the order they are made; the live game has ended  *)
(* only if it is won, and the one that waits for the restore prompt is     *)
(* another game.                                                           *)
EndedInv ==
  /\ live.deal <= dealt
  /\ \A d \in ended : d <= dealt
  /\ ~ live.won => live.deal \notin ended
  /\ pending # None => /\ pending.deal <= dealt /\ pending.deal \notin ended
                       /\ pending.deal # live.deal
  /\ disk # None => disk.deal <= dealt /\ disk.deal \notin ended

LEMMA LaunchEndedInv ==
  ASSUME TypeOK, EndedInv, NEW f \in SavedGame \cup {None},
         f # None => f.deal <= dealt /\ f.deal \notin ended,
         Launch(f)
  PROVE  EndedInv'
<1>1. dealt \in Nat /\ dealt' = dealt + 1 /\ ended' = ended /\ disk' = f
  BY BoundsAssumption DEF Launch, TypeOK, Deals
<1>2. f # None => f.deal \in Nat
  BY BoundsAssumption DEF SavedGame, Deals
<1>3. \A d \in ended : d \in Nat /\ d <= dealt
  <2>1. ended \subseteq Nat
    BY BoundsAssumption DEF TypeOK, Deals
  <2>2. QED
    BY <2>1 DEF EndedInv
<1>4. CASE f # None /\ f.moved
  <2>1. live' = NewGame(dealt') /\ pending' = f
    BY <1>4 DEF Launch, Launched
  <2>2. live'.deal = dealt'
    BY <2>1 DEF NewGame
  <2>3. QED
    BY <1>1, <1>2, <1>3, <1>4, <2>1, <2>2 DEF EndedInv
<1>5. CASE f = None
  <2>1. live' = NewGame(dealt') /\ pending' = None
    BY <1>5 DEF Launch, Launched
  <2>2. live'.deal = dealt'
    BY <2>1 DEF NewGame
  <2>3. QED
    BY <1>1, <1>3, <1>5, <2>1, <2>2 DEF EndedInv
<1>6. CASE f # None /\ ~ f.moved
  <2>1. live' = Loaded(f, FALSE) /\ pending' = None
    BY <1>6 DEF Launch, Launched
  <2>2. live'.deal = f.deal
    BY <2>1 DEF Loaded
  <2>3. f.deal \in Nat /\ f.deal <= dealt /\ f.deal \notin ended
    BY <1>2, <1>6
  <2>4. live'.deal <= dealt' /\ live'.deal \notin ended'
    BY <1>1, <2>2, <2>3
  <2>5. disk'.deal <= dealt' /\ disk'.deal \notin ended'
    BY <1>1, <2>3
  <2>6. \A d \in ended' : d <= dealt'
    BY <1>1, <1>3
  <2>7. QED
    BY <2>1, <2>4, <2>5, <2>6 DEF EndedInv
<1>7. QED
  BY <1>4, <1>5, <1>6

LEMMA NextEndedInv == TypeOK /\ EndedInv /\ [Next]_vars => EndedInv'
<1> SUFFICES ASSUME TypeOK, EndedInv, [Next]_vars PROVE EndedInv'
  OBVIOUS
<1>t. /\ live.deal \in Nat /\ dealt \in Nat
      /\ \A d \in ended : d \in Nat
      /\ pending # None => pending.deal \in Nat
      /\ disk # None => disk.deal \in Nat
  <2>1. Deals \subseteq Nat
    BY BoundsAssumption DEF Deals
  <2>2. live.deal \in Deals
    BY DEF TypeOK, Game
  <2>3. \A f \in SavedGame \cup {None} : f # None => f.deal \in Deals
    BY DEF SavedGame
  <2>4. QED
    BY <2>1, <2>2, <2>3 DEF TypeOK
<1>1. CASE UNCHANGED boards
  BY <1>1 DEF boards, EndedInv
<1>2. CASE Deal
  <2>1. /\ dealt' = dealt + 1 /\ live' = NewGame(dealt') /\ ended' = ended \cup {live.deal}
        /\ disk' = None /\ pending' = pending
    BY <1>2 DEF Deal, DealAnew
  <2>2. live'.deal = dealt'
    BY <2>1 DEF NewGame
  <2>3. QED
    BY <1>t, <2>1, <2>2 DEF EndedInv
<1>3. CASE Move
  <2>1. PICK won \in BOOLEAN, stuck \in BOOLEAN :
          /\ live' = [live EXCEPT !.moved = TRUE, !.won = won, !.stuck = stuck]
          /\ disk' = FileAfterMove(won)
          /\ ended' = IF won THEN ended \cup {live.deal} ELSE ended
    BY <1>3 DEF Move
  <2>2. live'.deal = live.deal /\ live'.won = won
    BY <2>1 DEF TypeOK, Game
  <2>3. ~ live.won /\ dealt' = dealt /\ pending' = pending
    BY <1>3 DEF Move
  <2>4. CASE won
    BY <1>t, <2>1, <2>2, <2>3, <2>4 DEF EndedInv, FileAfterMove
  <2>5. CASE ~ won
    BY <1>t, <2>1, <2>2, <2>3, <2>5 DEF EndedInv, FileAfterMove
  <2>6. QED
    BY <2>4, <2>5
<1>4. CASE Undo
  <2>1. live'.deal = live.deal /\ live'.won = live.won
    BY <1>4 DEF Undo, TypeOK, Game
  <2>2. QED
    BY <1>4, <2>1 DEF Undo, EndedInv
<1>5. CASE RestoreContinue
  <2>1. CASE pending # None
    <3>1. live'.deal = pending.deal /\ pending' = None
      BY <1>5, <2>1 DEF RestoreContinue, Loaded
    <3>2. QED
      BY <1>5, <2>1, <3>1 DEF RestoreContinue, EndedInv
  <2>2. CASE pending = None
    BY <1>5, <2>2 DEF RestoreContinue, EndedInv
  <2>3. QED
    BY <2>1, <2>2
<1>6. CASE RestoreNewGame
  BY <1>6 DEF RestoreNewGame, EndedInv
<1>7. CASE Pause
  <2>1. Saved(live).deal = live.deal
    BY DEF Saved
  <2>2. QED
    BY <1>7, <2>1 DEF Pause, EndedInv
<1>8. CASE AutoSave
  <2>1. Saved(live).deal = live.deal
    BY DEF Saved
  <2>2. QED
    BY <1>8, <2>1 DEF AutoSave, InProgress, EndedInv
<1>9. CASE Exit
  <2>1. SavedOnExit \in SavedGame \cup {None}
    BY SavedType DEF SavedOnExit, TypeOK
  <2>2. Saved(live).deal = live.deal
    BY DEF Saved
  <2>3. SavedOnExit # None => SavedOnExit.deal <= dealt /\ SavedOnExit.deal \notin ended
    BY <2>2 DEF SavedOnExit, EndedInv
  <2>4. QED
    BY <1>9, <2>1, <2>3, LaunchEndedInv DEF Exit
<1>10. CASE Kill
  BY <1>10, LaunchEndedInv DEF Kill, EndedInv, TypeOK
<1>11. QED
  BY <1>1, <1>2, <1>3, <1>4, <1>5, <1>6, <1>7, <1>8, <1>9, <1>10
  DEF vars, boards, Next, Frame, CountAbandoned, BeginMutation, RefuseRequest, OpenDialog,
      StartSearch, EndOfRequests, EndOfPlay, AskNewGame, PressN, PollSearch, HandleForfeit,
      ConfirmYes, ConfirmNo, GameOverNewGame, GameOverUndo, SpawnRestorePrompt, Resume,
      AutoResume, RequestForfeit, ForfeitYes, ForfeitNo, OpenOther, CloseOther, SyncPoint, Spawn,
      GameOverScreen

(* No game that was won or replaced is on disk or offered, for ever.       *)
THEOREM EndedNeverReturnsCorrect == Spec => []EndedNeverReturns
<1>1. Init => EndedInv
  BY DEF Init, EndedInv, NewGame
<1>2. EndedInv => EndedNeverReturns
  BY DEF EndedInv, EndedNeverReturns
<1>3. QED
  BY <1>1, <1>2, NextEndedInv, TypeCorrect, PTL DEF Spec

---------------------------------------------------------------------------
(* What the screens show.                                                  *)

(* The pause flag goes with its screen, shown or about to be, never both;   *)
(* and unless a change waits to be looked at, the game-over screen is up,   *)
(* or about to be, at a dead end only; check_no_moves sees all screens.     *)
ScreensInv ==
  /\ paused => "pause" \in screens \cup spawning
  /\ "pause" \in screens => "pause" \notin spawning
  /\ ~ changed /\ "gameover" \in screens \cup spawning => DeadEnd
  /\ pc = "play" => spawning = {}

LEMMA NextScreensInv == TypeOK /\ ScreensInv /\ [Next]_vars => ScreensInv'
<1> SUFFICES ASSUME TypeOK, ScreensInv, [Next]_vars PROVE ScreensInv'
  OBVIOUS
<1> USE DEF boards, queue, dialogs
<1>0. /\ CountAbandoned => pc' = "between"
      /\ BeginMutation => pc' = "mutate"
      /\ \/ OpenDialog \/ StartSearch \/ AskNewGame \/ PressN \/ PollSearch \/ HandleForfeit
         \/ ConfirmYes \/ ConfirmNo \/ GameOverNewGame \/ AutoSave
           => pc' = pc
  BY DEF CountAbandoned, BeginMutation, OpenDialog, StartSearch, AskNewGame, PressN, PollSearch,
         HandleForfeit, ConfirmYes, ConfirmNo, GameOverNewGame, AutoSave
<1>1. CASE UNCHANGED <<live, screens, spawning, paused, changed>> /\ (pc' = "play" => pc = "play")
  BY <1>1 DEF ScreensInv, DeadEnd
<1>2. CASE RefuseRequest \/ EndOfRequests
  <2>1. /\ live' = live /\ paused' = paused /\ changed' = changed
        /\ screens' \subseteq screens \cup spawning /\ spawning' = {}
        /\ "pause" \in screens \cup spawning => "pause" \in screens'
    BY <1>2 DEF RefuseRequest, EndOfRequests, CarryOutCommands
  <2>2. QED
    BY <2>1 DEF ScreensInv, DeadEnd
<1>3. CASE Deal \/ Move \/ Undo
  <2>1. /\ changed' = TRUE
        /\ UNCHANGED <<pc, paused, screens, spawning>>
    BY <1>3 DEF Deal, Move, Undo
  <2>2. QED
    BY <2>1 DEF ScreensInv
<1>4. CASE EndOfPlay
  <2>1. /\ live' = live /\ paused' = paused /\ changed' = FALSE
        /\ pc' = "before" /\ spawning = {}
    BY <1>4 DEF EndOfPlay, ScreensInv
  <2>2. CASE changed
    <3>1. GameOverScreen
      BY <1>4, <2>2 DEF EndOfPlay
    <3>2. /\ "pause" \in screens' <=> "pause" \in screens
          /\ "pause" \in spawning' <=> "pause" \in spawning
      BY <3>1 DEF GameOverScreen, Spawn
    <3>3. DeadEnd' = DeadEnd
      BY <2>1 DEF DeadEnd
    <3>4. ~ DeadEnd => "gameover" \notin screens' \cup spawning'
      BY <2>1, <3>1 DEF GameOverScreen
    <3>5. QED
      BY <2>1, <3>2, <3>3, <3>4 DEF ScreensInv
  <2>3. CASE ~ changed
    BY <1>4, <2>1, <2>3 DEF EndOfPlay, ScreensInv, DeadEnd
  <2>4. QED
    BY <2>2, <2>3
<1>5. CASE GameOverUndo \/ SpawnRestorePrompt \/ RestoreNewGame \/ RequestForfeit \/ ForfeitNo
             \/ OpenOther \/ CloseOther
  <2>1. /\ live' = live /\ paused' = paused /\ changed' = changed
        /\ pc' = pc /\ pc # "play"
    BY <1>5 DEF GameOverUndo, SpawnRestorePrompt, RestoreNewGame, RequestForfeit, ForfeitNo,
                OpenOther, CloseOther, Unordered
  <2>2. /\ "pause" \in screens' <=> "pause" \in screens
        /\ "pause" \in spawning' <=> "pause" \in spawning
        /\ "gameover" \in screens' => "gameover" \in screens
        /\ "gameover" \in spawning' => "gameover" \in spawning
    BY <1>5 DEF GameOverUndo, SpawnRestorePrompt, RestoreNewGame, RequestForfeit, ForfeitNo,
                OpenOther, CloseOther, Spawn
  <2>3. QED
    BY <2>1, <2>2 DEF ScreensInv, DeadEnd
<1>6. CASE RestoreContinue
  <2>1. /\ paused' = paused /\ spawning' = spawning /\ pc' = pc
        /\ "pause" \in screens' <=> "pause" \in screens
        /\ "gameover" \in screens' => "gameover" \in screens
        /\ changed' = TRUE \/ UNCHANGED <<live, changed>>
    BY <1>6 DEF RestoreContinue
  <2>2. QED
    BY <2>1 DEF ScreensInv, DeadEnd
<1>7. CASE Pause
  <2>1. /\ live' = live /\ changed' = changed /\ screens' = screens /\ screens = {}
        /\ spawning' = spawning \cup {"pause"} /\ pc' = pc /\ pc # "play"
    BY <1>7 DEF Pause, Spawn, NoScrims, Unordered
  <2>2. QED
    BY <2>1 DEF ScreensInv, DeadEnd
<1>8. CASE Resume \/ AutoResume \/ ForfeitYes
  <2>1. /\ ~ paused' /\ live' = live /\ changed' = changed /\ spawning' = spawning
        /\ screens' \subseteq screens /\ pc' = pc
    BY <1>8 DEF Resume, AutoResume, ClosePause, ForfeitYes
  <2>2. QED
    BY <2>1 DEF ScreensInv, DeadEnd
<1>9. CASE Exit \/ Kill
  BY <1>9 DEF Exit, Kill, Launch, ScreensInv
<1>10. CASE SyncPoint
  <2>1. /\ UNCHANGED <<live, paused, changed>>
        /\ screens' = screens \cup spawning /\ spawning' = {}
    BY <1>10 DEF SyncPoint
  <2>2. QED
    BY <2>1 DEF ScreensInv, DeadEnd
<1>11. QED
  BY <1>0, <1>1, <1>2, <1>3, <1>4, <1>5, <1>6, <1>7, <1>8, <1>9, <1>10
  DEF vars, Next, Frame, CountAbandoned, BeginMutation, OpenDialog, StartSearch, AskNewGame,
      PressN, PollSearch, HandleForfeit, ConfirmYes, ConfirmNo, GameOverNewGame, AutoSave

LEMMA ScreensAlways == Spec => []ScreensInv
<1>1. Init => ScreensInv
  BY DEF Init, ScreensInv
<1>2. QED
  BY <1>1, NextScreensInv, TypeCorrect, PTL DEF Spec

(* The game is never paused without the screen that says so.               *)
THEOREM PausedIsVisibleCorrect == Spec => []PausedIsVisible
<1>1. ScreensInv => PausedIsVisible
  BY DEF ScreensInv, PausedIsVisible
<1>2. QED
  BY <1>1, ScreensAlways, PTL

(* The game-over screen never outlives its dead end.                       *)
THEOREM GameOverTrueCorrect == Spec => []GameOverTrue
<1>1. TypeOK /\ ScreensInv => GameOverTrue
  BY DEF ScreensInv, GameOverTrue
<1>2. QED
  BY <1>1, ScreensAlways, TypeCorrect, PTL

---------------------------------------------------------------------------
(* What is counted.                                                        *)

Waits == "dialog" \in Range(requests)

(* The statistics read the dialog's Yes before handle_new_game does, and   *)
(* what is left of the queue after a refusal has been read with a played   *)
(* game on the table, since only such a game's requests are refused.       *)
CountedInv ==
  Waits => /\ pc = "before" => counted # "no" \/ unread > 0
           /\ pc \in {"between", "mutate"} => counted # "no" \/ ~ InProgress(live)
           /\ pc = "play" => counted # "no"

LEMMA AppendWaits ==
  ASSUME TypeOK, NEW kind \in Kinds, Enqueue(kind)
  PROVE  /\ Waits' => Waits \/ kind = "dialog"
         /\ unread' > 0
<1>1. requests \in Seq(Kinds) /\ requests' = Append(requests, kind)
  BY DEF TypeOK, Enqueue
<1>2. Waits' => Waits \/ kind = "dialog"
  BY <1>1 DEF Waits, Range
<1>3. unread \in Nat /\ unread' = unread + 1
  BY BoundsAssumption DEF TypeOK, Enqueue
<1>4. QED
  BY <1>2, <1>3

LEMMA TailWaits ==
  ASSUME TypeOK, requests # << >>, requests' = Tail(requests)
  PROVE  Waits' => Waits
BY DEF TypeOK, Waits, Range

LEMMA HeadWaits ==
  ASSUME TypeOK, requests # << >>, Head(requests) = "dialog"
  PROVE  Waits
<1>1. 1 \in DOMAIN requests /\ requests[1] = Head(requests)
  BY DEF TypeOK
<1>2. QED
  BY <1>1 DEF Waits, Range

LEMMA EmptyWaits == ASSUME requests = << >> PROVE ~ Waits
BY DEF Waits, Range

(* A request written behind GameMutation or ahead of the statistics.       *)
LEMMA EnqueueCounted ==
  ASSUME TypeOK, CountedInv, NEW kind \in Kinds, Enqueue(kind),
         pc \in {"before", "between"}, kind = "dialog" => pc = "before",
         UNCHANGED <<pc, live, counted>>
  PROVE  CountedInv'
<1>1. /\ Waits' => Waits \/ kind = "dialog"
      /\ unread' > 0
  BY AppendWaits
<1>2. CASE pc = "before"
  BY <1>1, <1>2 DEF CountedInv
<1>3. CASE pc = "between"
  BY <1>1, <1>3 DEF CountedInv
<1>4. QED
  BY <1>2, <1>3

LEMMA NextCountedInv == TypeOK /\ CountedInv /\ [Next]_vars => CountedInv'
<1> SUFFICES ASSUME TypeOK, CountedInv, [Next]_vars PROVE CountedInv'
  OBVIOUS
<1> USE DEF boards, queue, dialogs
<1>1. CASE UNCHANGED <<pc, live, requests, unread, counted>>
  BY <1>1 DEF CountedInv, Waits
<1>2. CASE CountAbandoned
  <2>1. /\ pc = "before" /\ pc' = "between" /\ live' = live /\ requests' = requests
        /\ counted' = (IF InProgress(live) /\ unread > 0 THEN "yes" ELSE counted)
    BY <1>2 DEF CountAbandoned, Count
  <2>2. Waits' = Waits
    BY <2>1 DEF Waits
  <2>3. QED
    BY <2>1, <2>2 DEF CountedInv
<1>3. CASE BeginMutation
  BY <1>3 DEF BeginMutation, CountedInv, Waits
<1>4. CASE RefuseRequest
  <2>1. /\ pc = "mutate" /\ pc' = "play" /\ counted' = counted
        /\ requests # << >> /\ requests' = Tail(requests)
        /\ InProgress(live)
    BY <1>4 DEF RefuseRequest, Asks, NeedsConfirm
  <2>2. QED
    BY <2>1, TailWaits DEF CountedInv
<1>5. CASE OpenDialog \/ StartSearch
  <2>1. /\ pc = "mutate" /\ pc' = pc /\ counted' = counted /\ live' = live
        /\ requests # << >> /\ requests' = Tail(requests)
    BY <1>5 DEF OpenDialog, StartSearch
  <2>2. QED
    BY <2>1, TailWaits DEF CountedInv
<1>6. CASE Deal
  <2>1. pc = "mutate" /\ pc' = pc /\ live' = NewGame(dealt')
    BY <1>6 DEF Deal, DealAnew
  <2>2. ~ InProgress(live')
    BY <2>1 DEF InProgress, NewGame
  <2>3. QED
    BY <2>1, <2>2 DEF CountedInv
<1>7. CASE EndOfRequests
  <2>1. requests' = << >>
    BY <1>7 DEF EndOfRequests
  <2>2. ~ Waits'
    BY <2>1 DEF Waits, Range
  <2>3. QED
    BY <2>2 DEF CountedInv
<1>8. CASE EndOfPlay
  BY <1>8 DEF EndOfPlay, CountedInv, Waits
<1>9. CASE Move \/ Undo
  BY <1>9 DEF Move, Undo, CountedInv, Waits
<1>10. CASE AskNewGame \/ PressN \/ PollSearch \/ GameOverNewGame \/ RestoreNewGame
  <2>1. PICK kind \in Kinds : Enqueue(kind) /\ kind # "dialog"
    BY <1>10 DEF AskNewGame, PressN, PollSearch, GameOverNewGame, RestoreNewGame, Kinds
  <2>2. pc \in {"before", "between"} /\ UNCHANGED <<pc, live, counted>>
    BY <1>10 DEF AskNewGame, PressN, PollSearch, GameOverNewGame, RestoreNewGame
  <2>3. QED
    BY <2>1, <2>2, EnqueueCounted
<1>11. CASE HandleForfeit
  <2>1. "player" \in Kinds /\ Enqueue("player") /\ pc = "before" /\ pc' = pc
    BY <1>11 DEF HandleForfeit, Kinds
  <2>2. unread' > 0
    BY <2>1, AppendWaits
  <2>3. QED
    BY <2>1, <2>2 DEF CountedInv
<1>12. CASE ConfirmYes
  <2>1. "dialog" \in Kinds /\ Enqueue("dialog") /\ pc = "before"
    BY <1>12 DEF ConfirmYes, Kinds
  <2>2. UNCHANGED <<pc, live, counted>>
    BY <1>12 DEF ConfirmYes
  <2>3. QED
    BY <2>1, <2>2, EnqueueCounted
<1>13. CASE RestoreContinue
  <2>1. /\ pc \in {"before", "between"} /\ pc' = pc /\ requests' = requests
        /\ unread' = unread
    BY <1>13 DEF RestoreContinue
  <2>2. Waits' = Waits
    BY <2>1 DEF Waits
  <2>3. CASE pending # None
    <3>1. Waits => counted' = "swapped"
      BY <1>13, <2>3 DEF RestoreContinue, Waits
    <3>2. QED
      BY <2>1, <2>2, <3>1 DEF CountedInv
  <2>4. CASE pending = None
    <3>1. live' = live /\ counted' = counted
      BY <1>13, <2>4 DEF RestoreContinue
    <3>2. QED
      BY <2>1, <2>2, <3>1 DEF CountedInv
  <2>5. QED
    BY <2>3, <2>4
<1>14. CASE Exit \/ Kill
  <2>1. requests' = << >>
    BY <1>14 DEF Exit, Kill, Launch
  <2>2. ~ Waits'
    BY <2>1 DEF Waits, Range
  <2>3. QED
    BY <2>2 DEF CountedInv
<1>15. QED
  BY <1>1, <1>2, <1>3, <1>4, <1>5, <1>6, <1>7, <1>8, <1>9, <1>10, <1>11, <1>12, <1>13, <1>14
  DEF vars, Next, Frame, ConfirmNo, GameOverUndo, SpawnRestorePrompt, Pause, Resume,
      AutoResume, RequestForfeit, ForfeitYes, ForfeitNo, OpenOther, CloseOther, AutoSave,
      SyncPoint

(* The dialog's Yes never replaces a played game that was not counted.     *)
THEOREM DialogAbandonsCountedCorrect == Spec => DialogAbandonsCounted
<1> DEFINE Replaced == (pc = "mutate" /\ pc' = "mutate" /\ dealt' # dealt
                        /\ Head(requests) = "dialog" /\ NeedsConfirm) => counted # "no"
<1>1. Init => CountedInv
  BY EmptyWaits DEF Init, CountedInv
<1>2. TypeOK /\ CountedInv /\ [Next]_vars => [Replaced]_vars
  <2> SUFFICES ASSUME TypeOK, CountedInv, Next,
                      pc = "mutate", pc' = "mutate", dealt' # dealt,
                      Head(requests) = "dialog", NeedsConfirm
               PROVE  counted # "no"
    BY DEF vars
  <2>1. CASE Deal
    <3>1. Waits
      BY <2>1, HeadWaits DEF Deal
    <3>2. QED
      BY <3>1 DEF CountedInv, NeedsConfirm
  <2>2. CASE Exit \/ Kill
    BY <2>2 DEF Exit, Kill, Launch
  <2>3. QED
    BY <2>1, <2>2
    DEF Next, Frame, boards, queue, dialogs, CountAbandoned, BeginMutation, RefuseRequest,
        OpenDialog, StartSearch, EndOfRequests, EndOfPlay, AskNewGame, PressN, PollSearch,
        HandleForfeit, Move, Undo, ConfirmYes, ConfirmNo, GameOverNewGame, GameOverUndo,
        SpawnRestorePrompt, RestoreContinue, RestoreNewGame, Pause, Resume, AutoResume,
        RequestForfeit, ForfeitYes, ForfeitNo, OpenOther, CloseOther, AutoSave, SyncPoint
<1>3. QED
  BY <1>1, <1>2, NextCountedInv, TypeCorrect, PTL DEF Spec, DialogAbandonsCounted
=============================================================================
