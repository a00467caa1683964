------------------------------ MODULE MCTable -------------------------------
(* Two suits of two ranks, one column: three cards in the stock, so that    *)
(* the waste drops a sprite and a story may end in a win.                   *)
EXTENDS Table

MCSuits == {"clubs", "hearts"}
MCRed   == {"hearts"}
MCCard(s, r) == [suit |-> s, rank |-> r]
MCDeck == << MCCard("hearts", 2), MCCard("clubs", 2), MCCard("clubs", 1),
             MCCard("hearts", 1) >>

(* A move home from a win: the last card is in the waste.                  *)
MCSaved ==
  LET p1 == AfterMove(AfterDraw(DealKlondike(MCDeck), 1), Waste, Foundation(0), 1)
      p2 == AfterMove(p1, Tableau(0), Foundation(0), 1)
      p3 == AfterMove(AfterDraw(p2, 1), Waste, Foundation(1), 1)
  IN  AfterDraw(p3, 1)
=============================================================================
