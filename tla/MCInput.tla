------------------------------ MODULE MCInput -------------------------------
(* Two suits of three ranks dealt to two columns.                           *)
EXTENDS Input

MCSuits == {"clubs", "hearts"}
MCRed   == {"hearts"}
MCCard(s, r) == [suit |-> s, rank |-> r]
MCDeck == << MCCard("hearts", 3), MCCard("clubs", 1), MCCard("clubs", 2),
             MCCard("clubs", 3), MCCard("hearts", 2), MCCard("hearts", 1) >>
=============================================================================
