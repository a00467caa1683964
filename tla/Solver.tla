------------------------------- MODULE Solver -------------------------------
(***************************************************************************)
(* solitaire_core::solver: the depth-first search that says whether a      *)
(* position can be won, used to deal winnable games and to give hints,     *)
(* together with has_legal_moves, which decides when the game is over.     *)
(*                                                                         *)
(* A game is dealt and played (phase "play"); on any board the solver may  *)
(* be asked, with a budget of moves and of states (phase "search", one     *)
(* step per turn of the loop of search), until it answers.  The hash of a  *)
(* position is taken to be free of collisions: it is the tuple that is     *)
(* hashed.  just_drew, which the code sets and never reads, is left out.   *)
(***************************************************************************)
EXTENDS KlondikeRules

CONSTANTS
  SolverDecks,  (* the decks dealt                                        *)
  DrawCounts,   (* a subset of {1, 3}: DrawMode                           *)
  MoveBudgets,  (* the values of SolverConfig::move_budget                *)
  StateBudgets  (* the values of SolverConfig::state_budget               *)

ASSUME SolverDecksAssumption ==
  \A d \in SolverDecks : IsDeck(d) /\ Len(d) >= DealtBefore(NumColumns)
ASSUME SolverAssumption == /\ DrawCounts \subseteq {1, 3}
                           /\ MoveBudgets \cup StateBudgets \subseteq Nat

VARIABLES
  root,            (* the live board; the solver's root once it is asked  *)
  draw_count,      (* cards per draw                                      *)
  phase,           (* "play", "search", "answered"                        *)
  config,          (* the budgets of the search                           *)
  visited,         (* the positions met                                   *)
  moves_consumed,  (* moves tried                                         *)
  stack,           (* the frames, the root's first                        *)
  result,          (* the verdict, once answered                          *)
  first_move       (* the move to begin with, or NoMove                   *)

solverVars == <<root, draw_count, phase, config, visited, moves_consumed,
                stack, result, first_move>>
search == <<config, visited, moves_consumed, stack, result, first_move>>

NoMove == << >>
Move   == PileType \X PileType \X (1 .. Cardinality(Face))
Config == [moves : MoveBudgets, states : StateBudgets]
Frame  == [state : Boards, draws : Nat, pending : Seq(Move),
           root_move : Move \cup {NoMove}]

---------------------------------------------------------------------------
(* The solver's own statement of the rules.                                *)

(* target_foundation_slot: the slot that claims the suit, else the first   *)
(* empty one; none when every slot is claimed by another suit.             *)
TargetFoundationSlot(p, suit) ==
  LET claims(i) == p[Foundation(i)] # << >> /\ p[Foundation(i)][1].suit = suit
      claimed   == {i \in Slots : claims(i)}
      empty     == {i \in Slots : p[Foundation(i)] = << >>}
  IN  IF claimed # {} THEN {FirstIn(claimed)}
      ELSE IF empty # {} THEN {FirstIn(empty)}
      ELSE {}

(* longest_face_up_run: the longest face-up run, descending in alternating *)
(* colours, that ends at the top of the column.                            *)
LongestFaceUpRun(pile) ==
  LET run(n) == /\ \A k \in 1 .. n : TopCards(pile, n)[k].up
                /\ IsValidTableauSequence(TopCards(pile, n))
  IN  Max({n \in 0 .. Len(pile) : \A k \in 1 .. n : run(k)})

(* Mutant: a whole stock may be drawn only while the waste is empty.       *)
DrawWorthwhileShort(p, draws) ==
  p[Stock] \o p[Waste] # << >> /\ draws <= Len(p[Waste])

(* Something to draw or recycle, and no full cycle since the last move.    *)
DrawWorthwhile(p, draws) ==
  /\ p[Stock] \o p[Waste] # << >>
  /\ draws <= Len(p[Stock]) + Len(p[Waste]) + 1

(* The candidate moves in the order they are tried.                        *)
EnumerateMoves(p, draws) ==
  LET columns == [k \in 1 .. NumColumns |-> Tableau(k - 1)]
      ontoSlot(t) ==
        IF p[t] = << >> \/ ~ Last(p[t]).up THEN << >>
        ELSE SetToSeq({<<t, Foundation(i), 1>> :
               i \in {j \in TargetFoundationSlot(p, Last(p[t]).suit) :
                        CanPlaceOnFoundation(Last(p[t]), p[Foundation(j)])}})
      ontoColumns(t, n) ==
        LET bottom == p[t][Len(p[t]) - n + 1]
            onlyMovesKing(to) == /\ t \in Tableaus /\ n = Len(p[t])
                                 /\ p[to] = << >> /\ bottom.rank = King
            useful(to) == /\ to # t
                          /\ CanPlaceOnTableau(bottom, p[to])
                          /\ ~ onlyMovesKing(to)
        IN  FlattenSeq([k \in 1 .. NumColumns |-> IF useful(columns[k])
                                                  THEN << <<t, columns[k], n>> >>
                                                  ELSE << >>])
      fromColumn(t) ==
        FlattenSeq([n \in 1 .. LongestFaceUpRun(p[t]) |-> ontoColumns(t, n)])
  IN     FlattenSeq([k \in 1 .. NumColumns |-> ontoSlot(columns[k])])
      \o ontoSlot(Waste)
      \o FlattenSeq([k \in 1 .. NumColumns |-> fromColumn(columns[k])])
      \o (IF p[Waste] = << >> THEN << >> ELSE ontoColumns(Waste, 1))
      \o (IF DrawWorthwhile(p, draws) THEN << <<Stock, Waste, 1>> >> ELSE << >>)

IsDraw(m) == m[1] = Stock

(* Mutant: the card uncovered by the move is not turned over.              *)
AfterSolverMoveUnflipped(p, m) ==
  IF ~ IsDraw(m)
  THEN [p EXCEPT ![m[1]] = DropCards(@, m[3]), ![m[2]] = @ \o TopCards(p[m[1]], m[3])]
  ELSE IF p[Stock] # << >> THEN AfterDraw(p, draw_count) ELSE AfterRecycle(p)

AfterSolverMove(p, m) ==
  IF ~ IsDraw(m) THEN AfterMove(p, m[1], m[2], m[3])
  ELSE IF p[Stock] # << >> THEN AfterDraw(p, draw_count) ELSE AfterRecycle(p)

(* Mutant: stock and waste are hashed one after the other, not apart.      *)
CanonicalHashJoined(p) ==
  <<[t \in Tableaus |-> p[t]],
    [t \in Foundations |-> IF p[t] = << >> THEN << >> ELSE <<Last(p[t])>>],
    Facing(p[Stock] \o p[Waste], TRUE)>>

(* What canonical_hash feeds to the hasher: the columns, the top card of   *)
(* each slot, the cards of stock and of waste without their facing.  The   *)
(* draw mode, also hashed, never changes in a search.                      *)
CanonicalHash(p) ==
  <<[t \in Tableaus |-> p[t]],
    [t \in Foundations |-> IF p[t] = << >> THEN << >> ELSE <<Last(p[t])>>],
    Facing(p[Stock], TRUE), Facing(p[Waste], TRUE)>>

---------------------------------------------------------------------------
(* Play on the live board, by the rules of the game.                       *)

(* The boards one step of play away; withTakeBack, also by a card taken    *)
(* back from a foundation (the setting is on unless the player clears it). *)
PlaySteps(p, n, withTakeBack) ==
  IF CheckWin(p) THEN {}
  ELSE {AfterMove(p, m[1], m[2], m[3]) : m \in PossibleInstructions(p, withTakeBack)}
       \cup (IF p[Stock] # << >> THEN {AfterDraw(p, n)}
             ELSE IF p[Waste] # << >> THEN {AfterRecycle(p)}
             ELSE {})

DealtBoards == {DealKlondike(d) : d \in SolverDecks}

SolverInit ==
  /\ root \in DealtBoards
  /\ draw_count \in DrawCounts
  /\ phase = "play"
  /\ config = [moves |-> 0, states |-> 0]
  /\ visited = {}
  /\ moves_consumed = 0
  /\ stack = << >>
  /\ result = "none"
  /\ first_move = NoMove

Play ==
  /\ phase = "play"
  /\ root' \in PlaySteps(root, draw_count, TRUE)
  /\ UNCHANGED <<draw_count, phase, search>>

---------------------------------------------------------------------------
(* The search.                                                             *)

Answer(verdict, move) ==
  /\ phase' = "answered"
  /\ result' = verdict
  /\ first_move' = move

OutOfBudget(c, consumed, met) == consumed >= c.moves \/ Cardinality(met) >= c.states

(* try_solve_from_state, or try_solve on a fresh deal: solve, up to the    *)
(* loop of search.  The stack begins with the root's frame.                *)
Ask(c) ==
  /\ phase = "play"
  /\ config' = c
  /\ moves_consumed' = 0
  /\ IF CheckWin(root) \/ OutOfBudget(c, 0, {})
     THEN /\ Answer(IF CheckWin(root) THEN "Winnable" ELSE "Inconclusive", NoMove)
          /\ UNCHANGED <<visited, stack>>
     ELSE /\ phase' = "search"
          /\ visited' = {CanonicalHash(root)}
          /\ stack' = << [state |-> root, draws |-> 0, root_move |-> NoMove,
                          pending |-> EnumerateMoves(root, 0)] >>
          /\ UNCHANGED <<result, first_move>>
  /\ UNCHANGED <<root, draw_count>>

Searching == phase = "search" /\ stack # << >>
Spent     == OutOfBudget(config, moves_consumed, visited)

(* Either budget is used up: no verdict.                                   *)
GiveUp ==
  /\ Searching
  /\ Spent
  /\ Answer("Inconclusive", NoMove)
  /\ UNCHANGED <<root, draw_count, config, visited, moves_consumed, stack>>

(* Mutant: the exhausted frame stays on the stack.                         *)
PoppedNever == stack

Popped == Front(stack)

(* The top frame has no move left: back to the one below.                  *)
Backtrack ==
  /\ Searching
  /\ ~ Spent
  /\ Last(stack).pending = << >>
  /\ stack' = Popped
  /\ UNCHANGED <<root, draw_count, phase, config, visited, moves_consumed,
                 result, first_move>>

(* Mutant: the child takes the move just made, not the root's.             *)
RootMoveOfChildLatest(frame, m) == m

RootMoveOfChild(frame, m) == IF frame.root_move = NoMove THEN m ELSE frame.root_move

(* The next move of the top frame is made: it wins, leads to a position    *)
(* already met, or opens a frame of its own.                               *)
Try ==
  /\ Searching
  /\ ~ Spent
  /\ Last(stack).pending # << >>
  /\ moves_consumed' = moves_consumed + 1
  /\ LET frame == Last(stack)
         m     == Head(frame.pending)
         next  == AfterSolverMove(frame.state, m)
         draws == IF IsDraw(m) THEN frame.draws + 1 ELSE 0
         rest  == [stack EXCEPT ![Len(stack)].pending = Tail(@)]
         child == [state |-> next, draws |-> draws,
                   pending |-> EnumerateMoves(next, draws),
                   root_move |-> RootMoveOfChild(frame, m)]
     IN  \/ /\ CheckWin(next)
            /\ Answer("Winnable", child.root_move)
            /\ stack' = rest
            /\ UNCHANGED visited
         \/ /\ ~ CheckWin(next)
            /\ visited' = visited \cup {CanonicalHash(next)}
            /\ stack' = IF CanonicalHash(next) \in visited THEN rest
                                                          ELSE Append(rest, child)
            /\ UNCHANGED <<phase, result, first_move>>
  /\ UNCHANGED <<root, draw_count, config>>

(* The root's frame is gone as well: every position was tried.             *)
Exhausted ==
  /\ phase = "search"
  /\ stack = << >>
  /\ Answer("Unwinnable", NoMove)
  /\ UNCHANGED <<root, draw_count, config, visited, moves_consumed, stack>>

SearchStep == GiveUp \/ Backtrack \/ Try \/ Exhausted

SolverNext == Play \/ (\E c \in Config : Ask(c)) \/ SearchStep

(* The task that searches runs on a thread of its own until it returns.    *)
SolverSpec == SolverInit /\ [][SolverNext]_solverVars /\ WF_solverVars(SearchStep)

---------------------------------------------------------------------------
(* Mutant: a card that can only go to a foundation is no move.             *)
HasLegalMovesOnColumns(p) ==
  \/ p[Stock] \o p[Waste] # << >>
  \/ \E t, to \in Tableaus : \E k \in 1 .. Len(p[t]) :
       p[t][k].up /\ CanPlaceOnTableau(p[t][k], p[to])

(* has_legal_moves: with cards in stock or waste there is always a move;   *)
(* else some face-up card of a column, covered or not, has a place to go.  *)
HasLegalMoves(p) ==
  \/ p[Stock] \o p[Waste] # << >>
  \/ \E t \in Tableaus : \E k \in 1 .. Len(p[t]) :
       /\ p[t][k].up
       /\ \/ \E f \in Foundations : CanPlaceOnFoundation(p[t][k], p[f])
          \/ \E to \in Tableaus : CanPlaceOnTableau(p[t][k], p[to])

---------------------------------------------------------------------------
(* Properties.                                                             *)

(* Every variable has its type; a search never tries more moves, nor meets *)
(* more positions, than its budgets allow.                                 *)
SolverTypeOK ==
  /\ root \in Boards
  /\ draw_count \in DrawCounts
  /\ phase \in {"play", "search", "answered"}
  /\ config \in Config \cup {[moves |-> 0, states |-> 0]}
  /\ moves_consumed \in 0 .. config.moves
  /\ Cardinality(visited) <= config.states
  /\ stack \in Seq(Frame)
  /\ result \in {"none", "Winnable", "Unwinnable", "Inconclusive"}
  /\ first_move \in Move \cup {NoMove}

(* The live game accepts m on p, and p then becomes q.                     *)
Plays(p, m, q) ==
  \/ /\ m = <<Stock, Waste, 1>>
     /\ \/ p[Stock] # << >> /\ q = AfterDraw(p, draw_count)
        \/ p[Stock] = << >> /\ p[Waste] # << >> /\ q = AfterRecycle(p)
  \/ /\ ~ IsDraw(m)
     /\ MoveAllowed(p, FALSE, m[1], m[2], m[3])
     /\ q = AfterMove(p, m[1], m[2], m[3])

(* The stack is a line of play of the live game: each frame's board is the *)
(* one below after a move the game accepts, the first of which is the root *)
(* move every frame above carries, and no position is met twice on it.     *)
(* ("The solver's notion of legal exactly matches the live game", though   *)
(* enumerate_moves and apply_move restate the game's rules.)               *)
StackIsPlay ==
  /\ SolverTypeOK
  /\ stack # << >> => stack[1].state = root
  /\ \A k \in 1 .. Len(stack) - 1 :
       stack[k + 1].state \in PlaySteps(stack[k].state, draw_count, FALSE)
  /\ \A k \in 2 .. Len(stack) :
       Plays(root, stack[k].root_move, stack[2].state)
  /\ \A j, k \in 1 .. Len(stack) : stack[j].state = stack[k].state => j = k

(* Every question is answered: the search backs out of every line of play. *)
SearchEnds == phase = "search" ~> phase = "answered"
=============================================================================
