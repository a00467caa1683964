------------------------------ MODULE MCSolver ------------------------------
(* Two suits of three ranks: two decks that can be won, with lost boards   *)
(* and boards that only a card taken back from a foundation wins, and one   *)
(* that is lost from the deal.                                              *)
EXTENDS Verdicts

MCSuits == {"clubs", "hearts"}
MCRed   == {"hearts"}
Order(s) == [k \in 1 .. Len(s) |-> [suit |-> s[k][1], rank |-> s[k][2]]]
c(r) == <<"clubs", r>>
h(r) == <<"hearts", r>>
MCDecks == { Order(<<c(2), h(1), h(2), c(1), c(3), h(3)>>),
             Order(<<h(1), c(1), h(2), c(2), c(3), h(3)>>),
             Order(<<c(2), c(1), c(3), h(1), h(2), h(3)>>) }

(* The boards play can reach.                                              *)
RECURSIVE Reached(_, _, _)
Reached(S, new, n) ==
  IF new = {} THEN S
  ELSE LET next == (UNION {PlaySteps(p, n, TRUE) : p \in new}) \ S
       IN  Reached(S \cup next, next, n)
MCLive == [n \in DrawCounts |-> Reached(DealtBoards, DealtBoards, n)]

(* Back from the won boards along the steps of play, one at a time: f has   *)
(* the boards found, last those found last.                                *)
RECURSIVE Winning(_, _, _, _)
Winning(steps, f, last, k) ==
  LET more == {s[1] : s \in {t \in steps : t[2] \in last}} \ DOMAIN f
  IN  IF more = {} THEN f ELSE Winning(steps, f @@ [p \in more |-> k], more, k + 1)
MCDistance ==
  [n \in DrawCounts |->
     LET steps == UNION {{<<p, q>> : q \in PlaySteps(p, n, FALSE)} : p \in MCLive[n]}
         won   == {p \in MCLive[n] : CheckWin(p)}
     IN  Winning(steps, [p \in won |-> 0], won, 1)]
=============================================================================
