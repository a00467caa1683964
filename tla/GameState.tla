----------------------------- MODULE GameState -----------------------------
(***************************************************************************)
(* solitaire_core::GameState as a state machine: the deal, draw, recycle,  *)
(* move_cards and undo, with the score, the counters, the two flags and    *)
(* the bounded undo stack; the setting the engine forwards to the live     *)
(* game; and the save / load round trip, which drops the undo stack.       *)
(*                                                                         *)
(* A refused operation returns an error and changes nothing: it is the     *)
(* absence of a step.  MaxMoves and MaxUndos bound the two counters for    *)
(* model checking; the theorems hold for every value of them.              *)
(***************************************************************************)
EXTENDS KlondikeRules

CONSTANTS
  Decks,      (* the shuffled decks a game may be dealt from             *)
  DrawModes,  (* a subset of {"DrawOne", "DrawThree"}                    *)
  Modes,      (* a subset of {"Classic", "Zen", "Challenge"}: TimeAttack *)
              (* and Difficulty play by the rules of Classic             *)
  MaxUndo,    (* MAX_UNDO_STACK, 64 in the code                          *)
  MaxMoves,   (* bound on move_count                                     *)
  MaxUndos    (* bound on undo_count                                     *)

ASSUME DecksAssumption == \A d \in Decks : /\ IsDeck(d)
                                           /\ Len(d) >= DealtBefore(NumColumns)
ASSUME ModesAssumption == /\ DrawModes \subseteq {"DrawOne", "DrawThree"}
                          /\ Modes \subseteq {"Classic", "Zen", "Challenge"}
ASSUME BoundsAssumption == /\ MaxUndo \in Nat \ {0}
                           /\ MaxMoves \in Nat
                           /\ MaxUndos \in Nat

VARIABLES
  piles, draw_mode, mode, score, move_count, is_won, is_auto_completable,
  undo_count, recycle_count, take_from_foundation, undo_stack

vars == <<piles, draw_mode, mode, score, move_count, is_won,
          is_auto_completable, undo_count, recycle_count,
          take_from_foundation, undo_stack>>

Snapshot == [piles : Boards, score : Int, move_count : Nat]

---------------------------------------------------------------------------
(* Scoring.                                                                *)

Clamped(n) == IF n < 0 THEN 0 ELSE n

(* Mutant: a take-back costs less than the card earned.                    *)
ScoreMoveCheapTakeBack(from, to) ==
  CASE to \in Foundations                         -> 10
    [] to \in Tableaus /\ from = Waste            -> 5
    [] to \in Tableaus /\ from \in Foundations    -> -5
    [] OTHER                                      -> 0

ScoreMove(from, to) ==
  CASE to \in Foundations                         -> 10
    [] to \in Tableaus /\ from = Waste            -> 5
    [] to \in Tableaus /\ from \in Foundations    -> -15
    [] OTHER                                      -> 0

ScoreUndo == -15
ScoreFlip == 5

ScoreRecycle(count, drawThree) ==
  IF drawThree THEN (IF count > 3 THEN -20 ELSE 0)
               ELSE (IF count > 1 THEN -100 ELSE 0)

---------------------------------------------------------------------------
Init ==
  /\ \E deck \in Decks : piles = DealKlondike(deck)
  /\ draw_mode \in DrawModes
  /\ mode \in Modes
  /\ score = 0
  /\ move_count = 0
  /\ is_won = FALSE
  /\ is_auto_completable = FALSE
  /\ undo_count = 0
  /\ recycle_count = 0
  /\ take_from_foundation = TRUE
  /\ undo_stack = << >>

TakeSnapshot == [piles |-> piles, score |-> score, move_count |-> move_count]

(* Mutants: no cap; a full stack drops its newest snapshot.                *)
PushSnapshotUncapped == Append(undo_stack, TakeSnapshot)
PushSnapshotDropsNewest ==
  Append(IF Len(undo_stack) >= MaxUndo THEN Front(undo_stack) ELSE undo_stack,
         TakeSnapshot)

(* The stack after push_snapshot: the oldest snapshot goes when it is full. *)
PushSnapshot ==
  Append(IF Len(undo_stack) >= MaxUndo THEN Tail(undo_stack) ELSE undo_stack,
         TakeSnapshot)

DrawCount == IF draw_mode = "DrawThree" THEN 3 ELSE 1

Draw ==
  /\ ~ is_won
  /\ move_count < MaxMoves
  /\ piles[Stock] # << >>
  /\ undo_stack' = PushSnapshot
  /\ piles' = AfterDraw(piles, DrawCount)
  /\ move_count' = move_count + 1
  /\ UNCHANGED <<draw_mode, mode, score, is_won, is_auto_completable,
                 undo_count, recycle_count, take_from_foundation>>

Recycle ==
  /\ ~ is_won
  /\ move_count < MaxMoves
  /\ piles[Stock] = << >>
  /\ piles[Waste] # << >>
  /\ undo_stack' = PushSnapshot
  /\ piles' = AfterRecycle(piles)
  /\ recycle_count' = recycle_count + 1
  /\ score' = IF mode = "Zen" THEN score
              ELSE Clamped(score + ScoreRecycle(recycle_count',
                                                draw_mode = "DrawThree"))
  /\ move_count' = move_count + 1
  /\ UNCHANGED <<draw_mode, mode, is_won, is_auto_completable, undo_count,
                 take_from_foundation>>

(* What the move adds to the score: both parts are suppressed in Zen.      *)
MoveScore(from, to, count) ==
  IF mode = "Zen" THEN 0
  ELSE ScoreMove(from, to)
       + (IF Exposes(piles, from, count) THEN ScoreFlip ELSE 0)

RecomputeFlags ==
  /\ is_won' = CheckWin(piles')
  /\ is_auto_completable' = IF is_won' THEN is_auto_completable
                                       ELSE CheckAutoComplete(piles')

MoveCards(from, to, count) ==
  /\ ~ is_won
  /\ move_count < MaxMoves
  /\ MoveAllowed(piles, take_from_foundation, from, to, count)
  /\ undo_stack' = PushSnapshot
  /\ piles' = AfterMove(piles, from, to, count)
  /\ score' = Clamped(score + MoveScore(from, to, count))
  /\ move_count' = move_count + 1
  /\ RecomputeFlags
  /\ UNCHANGED <<draw_mode, mode, undo_count, recycle_count,
                 take_from_foundation>>

(* Mutant: undo leaves is_auto_completable as it was.                      *)
ClearFlagsWonOnly == is_won' = FALSE /\ UNCHANGED is_auto_completable

ClearFlags == is_won' = FALSE /\ is_auto_completable' = FALSE

Undo ==
  /\ ~ is_won
  /\ mode # "Challenge"
  /\ undo_count < MaxUndos
  /\ undo_stack # << >>
  /\ LET snapshot == Last(undo_stack)
     IN  /\ piles' = snapshot.piles
         /\ score' = IF mode = "Zen" THEN 0
                     ELSE Clamped(snapshot.score + ScoreUndo)
         /\ move_count' = snapshot.move_count
  /\ undo_stack' = Front(undo_stack)
  /\ ClearFlags
  /\ undo_count' = undo_count + 1
  /\ UNCHANGED <<draw_mode, mode, recycle_count, take_from_foundation>>

(* sync_settings_to_game: SettingsChangedEvent carries the player's setting. *)
ChangeSetting ==
  /\ take_from_foundation' \in BOOLEAN
  /\ UNCHANGED <<piles, draw_mode, mode, score, move_count, is_won,
                 is_auto_completable, undo_count, recycle_count, undo_stack>>

(* Save, quit and load: every field but the undo stack is serialised, a     *)
(* finished game is neither written nor loaded.                             *)
SaveAndLoad ==
  /\ ~ is_won
  /\ undo_stack' = << >>
  /\ UNCHANGED <<piles, draw_mode, mode, score, move_count, is_won,
                 is_auto_completable, undo_count, recycle_count,
                 take_from_foundation>>

Next ==
  \/ Draw
  \/ Recycle
  \/ \E from, to \in PileType : \E count \in 1 .. Len(piles[from]) :
       MoveCards(from, to, count)
  \/ Undo
  \/ ChangeSetting
  \/ SaveAndLoad

Spec == Init /\ [][Next]_vars

---------------------------------------------------------------------------
(* Invariants.                                                             *)

(* Every field has its type; the undo stack never outgrows its cap, though *)
(* every draw and move pushes (MAX_UNDO_STACK in push_snapshot).  The score *)
(* is never negative: its doc says it can be (game_state.rs:130), but every *)
(* operation that subtracts clamps at 0 (lines 255, 403 and 430).           *)
TypeOK ==
  /\ piles \in Boards
  /\ draw_mode \in DrawModes
  /\ mode \in Modes
  /\ score \in Nat
  /\ move_count \in Nat
  /\ is_won \in BOOLEAN
  /\ is_auto_completable \in BOOLEAN
  /\ undo_count \in Nat
  /\ recycle_count \in Nat
  /\ take_from_foundation \in BOOLEAN
  /\ undo_stack \in Seq(Snapshot)
  /\ Len(undo_stack) <= MaxUndo

(* Every board the game holds: the live one and the snapshots'.            *)
HeldBoards == {piles} \cup {undo_stack[k].piles : k \in 1 .. Len(undo_stack)}

(* No card is lost or doubled by any sequence of draws, recycles, moves and *)
(* undos: on every board held, each card lies at exactly one place.         *)
CardsConserved ==
  \A p \in HeldBoards : \A f \in Face : Cardinality(Positions(p, f)) = 1

(* Every board held is a Klondike board, through any sequence of draws,     *)
(* recycles, moves, take-backs and undos: piles face the right way, columns *)
(* are hidden cards under one run, foundations go up in one suit.           *)
BoardsKept ==
  \A p \in HeldBoards :
    /\ Facings(p)
    /\ \A i \in Columns : ColumnBuilt(p[Tableau(i)])
    /\ \A i \in Slots : FoundationBuilt(p[Foundation(i)])

(* The cached flags are never stale, through draws, undos and reloads:      *)
(* is_won, set by move_cards alone, says what check_win says of the board;  *)
(* is_auto_completable, once set, holds of it until the win, for draw and   *)
(* recycle, which do not recompute it, cannot run there, and undo clears it. *)
FlagsExact ==
  /\ is_won <=> CheckWin(piles)
  /\ is_auto_completable => is_won \/ CheckAutoComplete(piles)

(* possible_instructions returns exactly the moves that move_cards accepts, *)
(* though the two are written apart ("Every returned triple is guaranteed   *)
(* to succeed"; has_legal_moves and the hints rely on completeness too).    *)
InstructionsExact ==
  ~ is_won =>
    PossibleInstructions(piles, take_from_foundation) =
      UNION {{<<from, to, count>> : count \in
                {n \in 1 .. Len(piles[from]) :
                   MoveAllowed(piles, take_from_foundation, from, to, n)}}
             : from, to \in PileType}

(* Play leads from p to q in one draw, recycle or accepted move.            *)
PlayStep(p, q) ==
  \/ p[Stock] # << >> /\ q = AfterDraw(p, DrawCount)
  \/ p[Stock] = << >> /\ p[Waste] # << >> /\ q = AfterRecycle(p)
  \/ \E from, to \in PileType : \E n \in 1 .. Len(p[from]) :
       MoveAllowed(p, TRUE, from, to, n) /\ q = AfterMove(p, from, to, n)

(* The undo stack is the game's own past without gaps: each snapshot leads  *)
(* to the next, and the last to the live board, by one step of play, with   *)
(* move counts that go up by one; so n undos give back the board n steps    *)
(* ago, after any mix of draws, moves, undos and overflows of the stack.    *)
UndoIsPast ==
  \A k \in 1 .. Len(undo_stack) :
    LET last  == k = Len(undo_stack)
        later == IF last THEN TakeSnapshot ELSE undo_stack[k + 1]
    IN  /\ PlayStep(undo_stack[k].piles, later.piles)
        /\ later.move_count = undo_stack[k].move_count + 1

(* What the score can be worth at most: ten points for each card up, five   *)
(* for each column card turned over and each card played out of the stock.  *)
HiddenDealt == DealtBefore(NumColumns) - NumColumns
StockDealt  == Cardinality(Face) - DealtBefore(NumColumns)

Hidden(p) == {m \in Places(Tableaus, p) : ~ p[m[1]][m[2]].up}

Worth(p) ==
  10 * Cardinality(Places(Foundations, p))
  + 5 * (HiddenDealt - Cardinality(Hidden(p)))
  + 5 * (StockDealt - Len(p[Stock]) - Len(p[Waste]))

(* No sequence of moves, take-backs from the foundations and undos farms    *)
(* points: the score never exceeds what the board is worth, although it is  *)
(* clamped at 0 after every penalty and undo restores an older score.  A    *)
(* Zen game scores nothing, as GameMode has it (game_state.rs:86), where the *)
(* doc of zen_best_score has "scoring is still on" (stats.rs:67-68).        *)
ScoreEarned ==
  /\ score <= (IF mode = "Zen" THEN 0 ELSE Worth(piles))
  /\ \A k \in 1 .. Len(undo_stack) :
       undo_stack[k].score <= Worth(undo_stack[k].piles)
=============================================================================
