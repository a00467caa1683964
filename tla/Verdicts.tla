------------------------------ MODULE Verdicts ------------------------------
(***************************************************************************)
(* What the answers of Solver are held against: which boards of a game can *)
(* be won.  The boards are given as constants, and what is asked of them   *)
(* says which they are; a model finds them by exhausting play.             *)
(***************************************************************************)
EXTENDS Solver

CONSTANTS
  Live,     (* by draw mode: boards, those of any game that is played      *)
  Distance  (* by draw mode: for each board of Live from which play wins   *)
            (* without taking a card back, a number of steps it takes      *)

(* Play begins in Live and does not leave it.                              *)
ASSUME LiveAssumption ==
  \A n \in DrawCounts :
    /\ DealtBoards \subseteq Live[n] /\ Live[n] \subseteq Boards
    /\ \A p \in Live[n] : PlaySteps(p, n, TRUE) \subseteq Live[n]

WinnableForward == [n \in DrawCounts |-> DOMAIN Distance[n]]

(* Whatever is a step before such a board is one too, and from each of     *)
(* them some step is a step nearer to a win.                               *)
ASSUME DistanceAssumption ==
  \A n \in DrawCounts :
    LET won == WinnableForward[n]
    IN  /\ won \subseteq Live[n] /\ Distance[n] \in [won -> Nat]
        /\ \A p \in Live[n] :
             CheckWin(p) \/ PlaySteps(p, n, FALSE) \cap won # {} => p \in won
        /\ \A p \in won :
             \/ CheckWin(p)
             \/ \E q \in PlaySteps(p, n, FALSE) \cap won :
                  Distance[n][q] < Distance[n][p]

(* The verdict is right on every live board: Winnable comes with a move    *)
(* the game accepts and after which the game can be won (or the game is    *)
(* won already), Unwinnable only where no play without take-backs wins.    *)
(* Rests on the pruning: positions met, draws after a full cycle, kings    *)
(* that only change columns, one slot per suit.                            *)
VerdictRight ==
  /\ result = "Winnable" =>
       \/ CheckWin(root)
       \/ \E p \in WinnableForward[draw_count] : Plays(root, first_move, p)
  /\ result = "Unwinnable" => root \notin WinnableForward[draw_count]

(* A board without legal moves, at which the game-over screen comes up,    *)
(* cannot be won any more but by taking a card back from a foundation:     *)
(* has_legal_moves does not look for take-backs, and some do win.          *)
StuckIsLost == ~ HasLegalMoves(root) /\ ~ CheckWin(root) =>
                 root \notin WinnableForward[draw_count]
=============================================================================
