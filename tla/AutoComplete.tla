---------------------------- MODULE AutoComplete ----------------------------
(***************************************************************************)
(* GameState with the plugin that finishes a game by itself: detection of  *)
(* is_auto_completable, a move request per tick, carried out by the game   *)
(* in the next frame, while the player may pause, move, undo, deal anew,   *)
(* forfeit or quit in between.                                             *)
(***************************************************************************)
EXTENDS GameState

VARIABLES
  active,   (* AutoCompleteState::active                                   *)
  paused,   (* PausedResource                                              *)
  request   (* the MoveRequestEvents not yet handled, one at most          *)

auto == <<active, paused, request>>

AutoInit == Init /\ active = FALSE /\ paused = FALSE /\ request = << >>

(* detect_auto_complete: a win ends it, nothing else does.                 *)
Detected == ~ is_won /\ (active \/ is_auto_completable)

Detect ==
  /\ active' = Detected
  /\ UNCHANGED <<vars, paused, request>>

(* drive_auto_complete with its cooldown run out.                          *)
Drive ==
  /\ active /\ ~ paused /\ request = << >>
  /\ is_auto_completable /\ ~ is_won
  /\ \E m \in NextAutoCompleteMoves(piles) : request' = <<m>>
  /\ UNCHANGED <<vars, active, paused>>

(* handle_move, one frame later, on the board it then finds.               *)
CarryOut ==
  /\ request # << >>
  /\ request' = << >>
  /\ LET from == request[1][1]
         to   == request[1][2]
     IN  IF ~ is_won /\ MoveAllowed(piles, take_from_foundation, from, to, 1)
         THEN MoveCards(from, to, 1)
         ELSE UNCHANGED vars
  /\ UNCHANGED <<active, paused>>

(* The player's doings: a move of the game, a fresh deal, a forfeit (the   *)
(* one thing that resets the state), a quit and relaunch, the pause key,   *)
(* the setting.  All moves are dead while the game is paused.              *)
Play ==
  /\ ~ paused
  /\ \/ Draw \/ Recycle \/ Undo
     \/ \E from, to \in PileType : \E count \in 1 .. Len(piles[from]) :
          MoveCards(from, to, count)
  /\ UNCHANGED auto

(* A fresh deal, of the same mode to keep the model small.                  *)
Deal ==
  /\ \E deck \in Decks : piles' = DealKlondike(deck)
  /\ score' = 0 /\ move_count' = 0 /\ undo_count' = 0 /\ recycle_count' = 0
  /\ is_won' = FALSE /\ is_auto_completable' = FALSE
  /\ take_from_foundation' = TRUE
  /\ undo_stack' = << >>
  /\ UNCHANGED <<draw_mode, mode>>

NewGame == ~ paused /\ Deal /\ UNCHANGED auto

Forfeit == Deal /\ active' = FALSE /\ paused' = FALSE /\ UNCHANGED request

Relaunch == SaveAndLoad /\ active' = FALSE /\ paused' = FALSE /\ request' = << >>

TogglePause ==
  /\ active
  /\ paused' = ~ paused
  /\ UNCHANGED <<vars, active, request>>

Interfere ==
  \/ Play \/ NewGame \/ Forfeit \/ Relaunch
  \/ ChangeSetting /\ UNCHANGED auto

AutoNext == Detect \/ Drive \/ CarryOut \/ TogglePause \/ Interfere

allVars == <<vars, auto>>

(* Frames go on, and each of them runs detection, the tick and handle_move. *)
AutoSpec ==
  /\ AutoInit /\ [][AutoNext]_allVars
  /\ WF_allVars(Detect) /\ WF_allVars(Drive) /\ WF_allVars(CarryOut)

---------------------------------------------------------------------------
(* "Fires moves until the game is won": once a game can be completed by    *)
(* itself it is won or the player has made it one that cannot, unless the  *)
(* player never lets go, leaves it paused or, the bound of this model, no  *)
(* move is left.                                                           *)
AutoCompleteFinishes ==
  \/ []<><<Interfere>>_allVars
  \/ is_auto_completable ~>
       \/ is_won \/ ~ is_auto_completable
       \/ paused \/ move_count = MaxMoves
=============================================================================
