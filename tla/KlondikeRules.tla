--------------------------- MODULE KlondikeRules ---------------------------
(***************************************************************************)
(* The board of solitaire_core and the pure rules on it: piles, the deal,  *)
(* what may be placed where, what a draw, a recycle and a move do to the   *)
(* piles, and the three questions the game asks of a board (is it won, can *)
(* it finish by itself, which moves are there).                            *)
(*                                                                         *)
(* A pile is a sequence of cards, bottom first, as Pile::cards is.  The    *)
(* four slots, seven columns and thirteen ranks are parameters.            *)
(***************************************************************************)
EXTENDS Integers, FiniteSets, SequencesExt

CONSTANTS
  Suits,       (* the suits of the deck                              *)
  RedSuits,    (* those for which Suit::is_red holds                 *)
  King,        (* the highest rank; Ace is 1                         *)
  NumColumns,  (* tableau columns, 0 .. NumColumns-1                 *)
  NumSlots     (* foundation slots, 0 .. NumSlots-1                  *)

ASSUME SuitsAssumption == IsFiniteSet(Suits) /\ RedSuits \subseteq Suits
ASSUME RanksAssumption == King \in Nat \ {0}
ASSUME PilesAssumption == NumColumns \in Nat \ {0} /\ NumSlots \in Nat
ASSUME SlotPerSuit     == NumSlots = Cardinality(Suits)

Ace   == 1
Ranks == Ace .. King

Face == [suit : Suits, rank : Ranks]
Card == [suit : Suits, rank : Ranks, up : BOOLEAN]

Stock         == <<"stock", 0>>
Waste         == <<"waste", 0>>
Foundation(i) == <<"foundation", i>>
Tableau(i)    == <<"tableau", i>>
Slots         == 0 .. NumSlots - 1
Columns       == 0 .. NumColumns - 1
Foundations   == {Foundation(i) : i \in Slots}
Tableaus      == {Tableau(i) : i \in Columns}
PileType      == {Stock, Waste} \cup Foundations \cup Tableaus

Boards == [PileType -> Seq(Card)]

---------------------------------------------------------------------------
(* Dealing.  Column i takes the i+1 cards after the i(i+1)/2 already dealt *)
(* and only its last card is face-up; the rest of the deck is the stock.   *)

Turned(face, faceUp) == [suit |-> face.suit, rank |-> face.rank, up |-> faceUp]
DealtBefore(i) == (i * (i + 1)) \div 2

DealKlondike(deck) ==
  LET column(i) == [k \in 1 .. i + 1 |->
                      Turned(deck[DealtBefore(i) + k], k = i + 1)]
      rest == DealtBefore(NumColumns)
  IN  [t \in PileType |->
         CASE t = Stock       -> [k \in 1 .. Len(deck) - rest |->
                                    Turned(deck[rest + k], FALSE)]
           [] t \in Tableaus  -> column(t[2])
           [] OTHER           -> << >>]

(* Every order of a full deck, each card once: what shuffle can produce.   *)
IsDeck(deck) ==
  /\ deck \in Seq(Face)
  /\ \A f \in Face : \E k \in 1 .. Len(deck) : deck[k] = f
  /\ \A j, k \in 1 .. Len(deck) : deck[j] = deck[k] => j = k

---------------------------------------------------------------------------
(* Placement.                                                              *)

IsRed(card) == card.suit \in RedSuits

(* Mutant: the suit of the top card is not compared.                       *)
CanPlaceOnFoundationAnySuit(card, pile) ==
  IF pile = << >> THEN card.rank = Ace ELSE card.rank - 1 = Last(pile).rank

CanPlaceOnFoundation(card, pile) ==
  IF pile = << >>
  THEN card.rank = Ace
  ELSE card.suit = Last(pile).suit /\ card.rank - 1 = Last(pile).rank

(* Mutant: the colours are not compared.                                   *)
CanPlaceOnTableauAnyColour(card, pile) ==
  IF pile = << >> THEN card.rank = King
  ELSE Last(pile).up /\ card.rank + 1 = Last(pile).rank

CanPlaceOnTableau(card, pile) ==
  IF pile = << >>
  THEN card.rank = King
  ELSE /\ Last(pile).up
       /\ card.rank + 1 = Last(pile).rank
       /\ IsRed(card) # IsRed(Last(pile))

Follows(below, above) ==
  below.rank - 1 = above.rank /\ IsRed(below) # IsRed(above)

IsValidTableauSequence(cards) ==
  \A k \in 1 .. Len(cards) - 1 : Follows(cards[k], cards[k + 1])

---------------------------------------------------------------------------
(* Moving cards between piles.                                             *)

TopCards(pile, n)  == SubSeq(pile, Len(pile) - n + 1, Len(pile))
DropCards(pile, n) == SubSeq(pile, 1, Len(pile) - n)

FlipTop(pile) ==
  IF pile = << >> THEN pile ELSE [pile EXCEPT ![Len(pile)].up = TRUE]

(* The checks of move_cards, in its two arms by kind of destination; any   *)
(* other destination is MoveError::InvalidDestination.                     *)
MoveAllowed(p, takeFromFoundation, from, to, count) ==
  /\ from # to
  /\ count \in 1 .. Len(p[from])
  /\ LET moved  == TopCards(p[from], count)
         bottom == p[from][Len(p[from]) - count + 1]
     IN  /\ \A k \in 1 .. count : moved[k].up
         /\ \/ /\ to \in Foundations
               /\ from \notin Foundations
               /\ count = 1
               /\ CanPlaceOnFoundation(bottom, p[to])
            \/ /\ to \in Tableaus
               /\ from \in Foundations => takeFromFoundation /\ count = 1
               /\ from = Waste => count = 1
               /\ CanPlaceOnTableau(bottom, p[to])
               /\ IsValidTableauSequence(moved)

(* Mutant: the source is split one card too high.                          *)
AfterMoveSplitHigh(p, from, to, count) ==
  [p EXCEPT ![from] = FlipTop(DropCards(@, count - 1)),
            ![to]   = @ \o TopCards(p[from], count)]

AfterMove(p, from, to, count) ==
  [p EXCEPT ![from] = FlipTop(DropCards(@, count)),
            ![to]   = @ \o TopCards(p[from], count)]

(* Does the move expose a face-down card (and so earn the flip bonus)?     *)
Exposes(p, from, count) ==
  /\ count < Len(p[from])
  /\ ~ p[from][Len(p[from]) - count].up

Facing(pile, faceUp) == [k \in 1 .. Len(pile) |-> [pile[k] EXCEPT !.up = faceUp]]

AfterDraw(p, drawCount) ==
  LET n == IF Len(p[Stock]) < drawCount THEN Len(p[Stock]) ELSE drawCount
  IN  [p EXCEPT ![Stock] = DropCards(@, n),
                ![Waste] = @ \o Facing(TopCards(p[Stock], n), TRUE)]

(* Mutant: the recycled cards stay face-up.                                *)
AfterRecycleFaceUp(p) ==
  [p EXCEPT ![Stock] = @ \o Reverse(p[Waste]), ![Waste] = << >>]

AfterRecycle(p) ==
  [p EXCEPT ![Stock] = @ \o Facing(Reverse(p[Waste]), FALSE),
            ![Waste] = << >>]

---------------------------------------------------------------------------
(* Questions asked of a board.                                             *)

IsValidFoundationPile(pile) ==
  /\ Len(pile) = King
  /\ \A k \in 1 .. King : pile[k].suit = pile[1].suit /\ pile[k].rank = k

CheckWin(p) == \A i \in Slots : IsValidFoundationPile(p[Foundation(i)])

CheckAutoComplete(p) ==
  /\ p[Stock] = << >>
  /\ p[Waste] = << >>
  /\ \A t \in Tableaus : \A k \in 1 .. Len(p[t]) : p[t][k].up

(* Mutant: the count stops after the top card.                             *)
RunLengthTopOnly(pile) == IF pile = << >> THEN 0 ELSE 1

(* The face-up run at the top of a column: how many cards, from the top,   *)
(* are face-up without a break.                                            *)
RunLength(pile) ==
  CHOOSE n \in 0 .. Len(pile) :
    /\ \A k \in 1 .. n : pile[Len(pile) - k + 1].up
    /\ n < Len(pile) => ~ pile[Len(pile) - n].up

PossibleInstructions(p, takeFromFoundation) ==
  LET ontoFoundation(card) ==
        {t \in Foundations : CanPlaceOnFoundation(card, p[t])}
      ontoTableau(card) == {t \in Tableaus : CanPlaceOnTableau(card, p[t])}
      fromWaste ==
        IF p[Waste] = << >> THEN {}
        ELSE {<<Waste, t, 1>> : t \in ontoFoundation(Last(p[Waste]))
                                        \cup ontoTableau(Last(p[Waste]))}
      liftable(src) ==
        {n \in 1 .. RunLength(p[src]) :
           IsValidTableauSequence(TopCards(p[src], n))}
      fromColumn(src) ==
        UNION {{<<src, t, n>> :
                  t \in (IF n = 1 THEN ontoFoundation(Last(p[src])) ELSE {})
                        \cup (ontoTableau(p[src][Len(p[src]) - n + 1]) \ {src})}
               : n \in liftable(src)}
      fromFoundation(src) ==
        IF takeFromFoundation /\ p[src] # << >>
        THEN {<<src, t, 1>> : t \in ontoTableau(Last(p[src]))}
        ELSE {}
  IN  fromWaste \cup (UNION {fromColumn(t) : t \in Tableaus})
                \cup (UNION {fromFoundation(t) : t \in Foundations})

---------------------------------------------------------------------------
(* The move auto-complete makes next.                                      *)

FirstIn(S) == CHOOSE i \in S : \A j \in S : i <= j

(* The slots whose bottom card has the card's suit, else (an Ace only) the *)
(* first empty slot; at most one slot either way.                          *)
FoundationSlotFor(p, card) ==
  LET claimed == {i \in Slots : /\ p[Foundation(i)] # << >>
                                /\ p[Foundation(i)][1].suit = card.suit}
      empty   == {i \in Slots : p[Foundation(i)] = << >>}
      target  == IF claimed # {} THEN {FirstIn(claimed)}
                 ELSE IF card.rank = Ace /\ empty # {} THEN {FirstIn(empty)}
                 ELSE {}
  IN  {i \in target : CanPlaceOnFoundation(card, p[Foundation(i)])}

(* Mutant: the scan stops before the last column.                          *)
NextAutoCompleteMovesShort(p) ==
  LET ready(t)  == p[t] # << >> /\ FoundationSlotFor(p, Last(p[t])) # {}
      columns   == {i \in Columns : i + 1 \in Columns /\ ready(Tableau(i))}
      source    == IF ready(Waste) THEN {Waste}
                   ELSE IF columns # {} THEN {Tableau(FirstIn(columns))}
                   ELSE {}
  IN  {<<t, Foundation(CHOOSE i \in FoundationSlotFor(p, Last(p[t])) : TRUE)>>
         : t \in source}

(* The source piles whose top card has a slot, in the order they are tried *)
(* (waste, then column 0, 1, ...): the move taken is the first's.          *)
NextAutoCompleteMoves(p) ==
  LET ready(t)  == p[t] # << >> /\ FoundationSlotFor(p, Last(p[t])) # {}
      columns   == {i \in Columns : ready(Tableau(i))}
      source    == IF ready(Waste) THEN {Waste}
                   ELSE IF columns # {} THEN {Tableau(FirstIn(columns))}
                   ELSE {}
  IN  {<<t, Foundation(CHOOSE i \in FoundationSlotFor(p, Last(p[t])) : TRUE)>>
         : t \in source}
---------------------------------------------------------------------------
(* What play keeps of a board.                                             *)

(* The places of the piles S, and those a card lies at.                    *)
Places(S, p) == UNION {{t} \X (1 .. Len(p[t])) : t \in S}

Positions(p, f) ==
  {m \in Places(PileType, p) : /\ p[m[1]][m[2]].suit = f.suit
                              /\ p[m[1]][m[2]].rank = f.rank}

(* The stock is face-down, the waste and the foundations face-up.  A card   *)
(* turned the wrong way would be movable from the stock, or dead in the     *)
(* waste for good (move_cards refuses face-down cards).                     *)
Facings(p) ==
  /\ \A k \in 1 .. Len(p[Stock]) : ~ p[Stock][k].up
  /\ \A k \in 1 .. Len(p[Waste]) : p[Waste][k].up
  /\ \A i \in Slots : \A k \in 1 .. Len(p[Foundation(i)]) : p[Foundation(i)][k].up

(* A column is some face-down cards under a face-up run that descends by    *)
(* one and alternates colour; its top card is never face-down.  move_cards  *)
(* checks the cards lifted and the card they land on: that the whole        *)
(* face-up part stays a run is a consequence over many moves.               *)
ColumnBuilt(pile) ==
  /\ pile # << >> => Last(pile).up
  /\ \A k \in 1 .. Len(pile) - 1 :
       pile[k].up => pile[k + 1].up /\ Follows(pile[k], pile[k + 1])

(* A foundation slot is always Ace up to its top card in one suit: the code *)
(* checks each card against the top one only, and takes cards back.         *)
FoundationBuilt(pile) ==
  \A k \in 1 .. Len(pile) : pile[k].rank = k /\ pile[k].suit = pile[1].suit
=============================================================================
