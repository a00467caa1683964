--------------------------- MODULE MCAutoComplete ---------------------------
(* A game of two suits of three ranks for AutoComplete: it can be left to   *)
(* finish by itself with four cards or fewer still to play.                 *)
EXTENDS AutoComplete

MCSuits == {"clubs", "hearts"}
MCRed   == {"hearts"}
Card3(s, r) == [suit |-> s, rank |-> r]
MCDecks == { << Card3("hearts", 1), Card3("clubs", 1), Card3("hearts", 2),
                Card3("clubs", 2), Card3("clubs", 3), Card3("hearts", 3) >> }
=============================================================================
