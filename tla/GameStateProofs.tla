-------------------------- MODULE GameStateProofs --------------------------
(***************************************************************************)
(* Proofs about GameState for every deck, every number of suits, ranks,    *)
(* slots and columns, every cap on the undo stack and every bound.         *)
(***************************************************************************)
EXTENDS GameState, SequenceTheorems, FiniteSetTheorems, TLAPS

---------------------------------------------------------------------------
(* What the helpers on piles return.                                       *)

(* A function on 1 .. n is a sequence of length n.                         *)
LEMMA SeqOfFunction ==
  ASSUME NEW S, NEW n \in Nat, NEW f \in [1 .. n -> S]
  PROVE  f \in Seq(S) /\ Len(f) = n
OBVIOUS

(* TopCards(s, n) is the last n cards of s in their order.                 *)
LEMMA TopCardsFacts ==
  ASSUME NEW S, NEW s \in Seq(S), NEW n \in 0 .. Len(s)
  PROVE  /\ TopCards(s, n) \in Seq(S)
         /\ Len(TopCards(s, n)) = n
         /\ \A k \in 1 .. n : TopCards(s, n)[k] = s[Len(s) - n + k]
<1>1. /\ Len(s) \in Nat
      /\ \A i \in Len(s) - n + 1 .. Len(s) : s[i] \in S
  BY LenProperties, ElementOfSeq
<1>2. Len(s) - n + 1 \in Int /\ Len(s) \in Int
  BY <1>1
<1>3. /\ TopCards(s, n) \in Seq(S)
      /\ Len(TopCards(s, n)) = IF Len(s) - n + 1 <= Len(s)
                               THEN Len(s) - (Len(s) - n + 1) + 1 ELSE 0
      /\ \A k \in 1 .. Len(s) - (Len(s) - n + 1) + 1 :
           TopCards(s, n)[k] = s[(Len(s) - n + 1) + k - 1]
  BY <1>1, <1>2, SubSeqProperties DEF TopCards
<1>4. QED
  BY <1>1, <1>3

(* DropCards(s, n) is s without its last n cards.                          *)
LEMMA DropCardsFacts ==
  ASSUME NEW S, NEW s \in Seq(S), NEW n \in 0 .. Len(s)
  PROVE  /\ DropCards(s, n) \in Seq(S)
         /\ Len(DropCards(s, n)) = Len(s) - n
         /\ \A k \in 1 .. Len(s) - n : DropCards(s, n)[k] = s[k]
<1>1. /\ Len(s) \in Nat
      /\ \A i \in 1 .. Len(s) - n : s[i] \in S
  BY LenProperties, ElementOfSeq
<1>2. /\ DropCards(s, n) \in Seq(S)
      /\ Len(DropCards(s, n)) = IF 1 <= Len(s) - n
                                THEN (Len(s) - n) - 1 + 1 ELSE 0
      /\ \A k \in 1 .. (Len(s) - n) - 1 + 1 :
           DropCards(s, n)[k] = s[1 + k - 1]
  BY <1>1, SubSeqProperties DEF DropCards
<1>3. QED
  BY <1>1, <1>2

(* Facing turns every card and keeps faces and order.                      *)
LEMMA FacingFacts ==
  ASSUME NEW s \in Seq(Card), NEW b \in BOOLEAN
  PROVE  /\ Facing(s, b) \in Seq(Card)
         /\ Len(Facing(s, b)) = Len(s)
         /\ \A k \in 1 .. Len(s) : /\ Facing(s, b)[k].suit = s[k].suit
                                   /\ Facing(s, b)[k].rank = s[k].rank
                                   /\ Facing(s, b)[k].up = b
<1>1. Len(s) \in Nat /\ \A k \in 1 .. Len(s) : s[k] \in Card
  BY LenProperties, ElementOfSeq
<1>2. \A k \in 1 .. Len(s) : [s[k] EXCEPT !.up = b] \in Card
  BY <1>1 DEF Card
<1>3. QED
  BY <1>1, <1>2 DEF Facing, Card

(* Reverse keeps the cards' set and number.                                *)
LEMMA ReverseFacts ==
  ASSUME NEW S, NEW s \in Seq(S)
  PROVE  /\ Reverse(s) \in Seq(S)
         /\ Len(Reverse(s)) = Len(s)
<1>1. Len(s) \in Nat /\ \A k \in 1 .. Len(s) : s[k] \in S
  BY LenProperties, ElementOfSeq
<1>2. \A k \in 1 .. Len(s) : s[(Len(s) - k) + 1] \in S
  BY <1>1
<1>3. QED
  BY <1>1, <1>2 DEF Reverse

(* FlipTop turns the last card face-up and leaves the others alone.        *)
LEMMA FlipTopFacts ==
  ASSUME NEW s \in Seq(Card)
  PROVE  /\ FlipTop(s) \in Seq(Card)
         /\ Len(FlipTop(s)) = Len(s)
         /\ \A k \in 1 .. Len(s) : /\ FlipTop(s)[k].suit = s[k].suit
                                   /\ FlipTop(s)[k].rank = s[k].rank
                                   /\ FlipTop(s)[k].up = (s[k].up \/ k = Len(s))
<1>1. Len(s) \in Nat /\ \A k \in 1 .. Len(s) : s[k] \in Card
  BY LenProperties, ElementOfSeq
<1>2. CASE s = << >>
  BY <1>1, <1>2 DEF FlipTop
<1>3. CASE s # << >>
  <2>1. Len(s) \in 1 .. Len(s)
    BY <1>1, <1>3, EmptySeq
  <2> DEFINE top == [s[Len(s)] EXCEPT !.up = TRUE]
  <2>2. /\ top \in Card /\ top.up = TRUE
        /\ top.suit = s[Len(s)].suit /\ top.rank = s[Len(s)].rank
    BY <1>1, <2>1 DEF Card
  <2>3. FlipTop(s) = [s EXCEPT ![Len(s)] = top]
    BY <1>3 DEF FlipTop
  <2>4. \A k \in 1 .. Len(s) : s[k].up \in BOOLEAN
    BY <1>1 DEF Card
  <2> HIDE DEF top
  <2>5. /\ FlipTop(s) \in Seq(Card)
        /\ Len(FlipTop(s)) = Len(s)
        /\ \A j \in 1 .. Len(s) : FlipTop(s)[j] = IF j = Len(s) THEN top ELSE s[j]
    BY <2>1, <2>2, <2>3, ExceptSeq
  <2>6. QED
    BY <2>2, <2>4, <2>5
<1>4. QED
  BY <1>2, <1>3

---------------------------------------------------------------------------
(* The inductive invariant, pile by pile.                                  *)

GoodPile(t, s) ==
  /\ s \in Seq(Card)
  /\ t = Stock => \A k \in 1 .. Len(s) : ~ s[k].up
  /\ t \in Foundations \cup {Waste} => \A k \in 1 .. Len(s) : s[k].up
  /\ t \in Foundations => FoundationBuilt(s)
  /\ t \in Tableaus => ColumnBuilt(s)

GoodBoard(p) == p \in Boards /\ \A t \in PileType : GoodPile(t, p[t])

(* The kinds of pile do not overlap.                                       *)
LEMMA PileKinds ==
  /\ Stock \in PileType /\ Waste \in PileType /\ Stock # Waste
  /\ Stock \notin Foundations \cup Tableaus
  /\ Waste \notin Foundations \cup Tableaus
  /\ Foundations \cap Tableaus = {}
  /\ Foundations \subseteq PileType /\ Tableaus \subseteq PileType
  /\ \A i \in Slots : Foundation(i) \in Foundations
  /\ \A i \in Columns : Tableau(i) \in Tableaus
  /\ \A t \in Tableaus : t[2] \in Columns /\ t = Tableau(t[2])
  /\ PileType = {Stock, Waste} \cup Foundations \cup Tableaus
BY DEF Stock, Waste, PileType, Foundations, Tableaus, Foundation, Tableau

(* A board is good when it satisfies the named invariants.                 *)
LEMMA GoodBoardMeaning ==
  ASSUME NEW p
  PROVE  GoodBoard(p) <=>
           /\ p \in Boards
           /\ Facings(p)
           /\ \A i \in Columns : ColumnBuilt(p[Tableau(i)])
           /\ \A i \in Slots : FoundationBuilt(p[Foundation(i)])
<1>1. p \in Boards => \A t \in PileType : p[t] \in Seq(Card)
  BY DEF Boards
<1>2. QED
  BY <1>1, PileKinds DEF GoodBoard, GoodPile, Facings, Foundations, Tableaus

(* Lifting face-up cards off a good pile and flipping the new top leaves a  *)
(* good pile; nothing face-up can be lifted off the stock.                  *)
LEMMA LiftGood ==
  ASSUME NEW t \in PileType, NEW s, GoodPile(t, s),
         NEW n \in 1 .. Len(s),
         \A k \in 1 .. n : TopCards(s, n)[k].up
  PROVE  GoodPile(t, FlipTop(DropCards(s, n)))
<1> DEFINE d == DropCards(s, n)
           f == FlipTop(d)
<1>1. s \in Seq(Card) /\ Len(s) \in Nat /\ n \in 0 .. Len(s)
  BY LenProperties DEF GoodPile
<1>2. /\ d \in Seq(Card) /\ Len(d) = Len(s) - n
      /\ \A k \in 1 .. Len(d) : d[k] = s[k]
  BY <1>1, DropCardsFacts
<1>4. s[Len(s)].up
  BY <1>1, TopCardsFacts
<1> HIDE DEF d
<1>3. /\ f \in Seq(Card) /\ Len(f) = Len(d)
      /\ \A k \in 1 .. Len(d) : /\ f[k].suit = d[k].suit
                               /\ f[k].rank = d[k].rank
                               /\ f[k].up = (d[k].up \/ k = Len(d))
  BY <1>2, FlipTopFacts
<1> HIDE DEF f
<1>5. t # Stock
  BY <1>1, <1>4 DEF GoodPile
<1>6. ASSUME t \in Foundations \cup {Waste}, NEW k \in 1 .. Len(f)
      PROVE  f[k].up
  <2>1. k \in 1 .. Len(d) /\ k \in 1 .. Len(s)
    BY <1>1, <1>2, <1>3
  <2>2. d[k].up
    BY <1>2, <1>6, <2>1 DEF GoodPile
  <2>3. QED
    BY <1>3, <2>1, <2>2
<1>7. t \in Foundations => FoundationBuilt(f)
  <2> SUFFICES ASSUME t \in Foundations, NEW k \in 1 .. Len(f)
               PROVE  f[k].rank = k /\ f[k].suit = f[1].suit
    BY DEF FoundationBuilt
  <2>1. \A j \in 1 .. Len(s) : s[j].rank = j /\ s[j].suit = s[1].suit
    BY DEF GoodPile, FoundationBuilt
  <2>2. /\ k \in 1 .. Len(d) /\ 1 \in 1 .. Len(d)
        /\ k \in 1 .. Len(s) /\ 1 \in 1 .. Len(s)
    BY <1>1, <1>2, <1>3
  <2>3. /\ f[k].rank = s[k].rank /\ f[k].suit = s[k].suit
        /\ f[1].suit = s[1].suit
    BY <1>2, <1>3, <2>2
  <2>4. QED
    BY <2>1, <2>2, <2>3
<1>8. t \in Tableaus => ColumnBuilt(f)
  <2> SUFFICES ASSUME t \in Tableaus PROVE ColumnBuilt(f)
    OBVIOUS
  <2>1. \A k \in 1 .. Len(s) - 1 :
          s[k].up => s[k + 1].up /\ Follows(s[k], s[k + 1])
    BY DEF GoodPile, ColumnBuilt
  <2>2. ASSUME f # << >>
        PROVE  Last(f).up
    <3>1. Len(f) \in 1 .. Len(d)
      BY <1>3, <2>2, EmptySeq
    <3>2. QED
      BY <1>3, <3>1 DEF Last
  <2>3. ASSUME NEW k \in 1 .. Len(f) - 1, f[k].up
        PROVE  f[k + 1].up /\ Follows(f[k], f[k + 1])
    <3>1. k \in 1 .. Len(s) - 1 /\ k + 1 \in 1 .. Len(d) /\ k \in 1 .. Len(d)
      BY <1>1, <1>2, <1>3
    <3>2. k # Len(d)
      BY <1>1, <1>2, <1>3
    <3>3. s[k].up
      BY <1>2, <1>3, <2>3, <3>1, <3>2
    <3>4. s[k + 1].up /\ Follows(s[k], s[k + 1])
      BY <2>1, <3>1, <3>3
    <3>5. d[k] = s[k] /\ d[k + 1] = s[k + 1]
      BY <1>2, <3>1
    <3>6. f[k + 1].up
      BY <1>3, <3>1, <3>4, <3>5
    <3>7. QED
      BY <1>3, <3>1, <3>4, <3>5, <3>6 DEF Follows, IsRed
  <2>4. QED
    BY <2>2, <2>3 DEF ColumnBuilt
<1>9. QED
  BY <1>3, <1>5, <1>6, <1>7, <1>8 DEF GoodPile, f, d

(* A card that can_place_on_foundation accepts extends the built pile.     *)
LEMMA FoundationGood ==
  ASSUME NEW t \in Foundations, NEW s, GoodPile(t, s),
         NEW m \in Seq(Card), Len(m) = 1, m[1].up,
         CanPlaceOnFoundation(m[1], s)
  PROVE  GoodPile(t, s \o m)
<1>1. s \in Seq(Card) /\ Len(s) \in Nat /\ (s = << >> <=> Len(s) = 0)
  BY LenProperties, EmptySeq DEF GoodPile
<1>2. /\ s \o m \in Seq(Card) /\ Len(s \o m) = Len(s) + 1
      /\ \A i \in 1 .. Len(s) + 1 :
           (s \o m)[i] = IF i <= Len(s) THEN s[i] ELSE m[i - Len(s)]
  BY <1>1, ConcatProperties
<1>3. \A i \in 1 .. Len(s) : (s \o m)[i] = s[i]
  BY <1>1, <1>2
<1>4. (s \o m)[Len(s) + 1] = m[1]
  BY <1>1, <1>2
<1> DEFINE r == s \o m
<1> HIDE DEF r
<1>5. \A k \in 1 .. Len(r) : r[k].up
  BY <1>1, <1>2, <1>3, <1>4 DEF GoodPile, r
<1>6. m[1].rank = Len(s) + 1 /\ (s # << >> => m[1].suit = s[1].suit)
  <2>1. CASE s = << >>
    BY <1>1, <2>1 DEF CanPlaceOnFoundation, Ace
  <2>2. CASE s # << >>
    <3>1. Len(s) \in 1 .. Len(s)
      BY <1>1, <2>2
    <3>2. s[Len(s)].rank = Len(s) /\ s[Len(s)].suit = s[1].suit
      BY <3>1 DEF GoodPile, FoundationBuilt
    <3>3. m[1].rank \in Ranks
      <4>1. m[1] \in Card
        BY ElementOfSeq
      <4>2. QED
        BY <4>1 DEF Card
    <3>4. QED
      BY <1>1, <2>2, <3>2, <3>3 DEF CanPlaceOnFoundation, Last, Ranks
  <2>3. QED
    BY <2>1, <2>2
<1>7. FoundationBuilt(r)
  <2>1. ASSUME NEW k \in 1 .. Len(r)
        PROVE  r[k].rank = k /\ r[k].suit = r[1].suit
    <3>1. CASE k <= Len(s)
      BY <1>1, <1>2, <1>3, <3>1 DEF GoodPile, FoundationBuilt, r
    <3>2. CASE k = Len(s) + 1
      BY <1>1, <1>2, <1>3, <1>4, <1>6, <3>2 DEF r
    <3>3. QED
      BY <1>1, <1>2, <3>1, <3>2 DEF r
  <2>2. QED
    BY <2>1 DEF FoundationBuilt
<1>8. QED
  BY <1>2, <1>5, <1>7, PileKinds DEF GoodPile, r

(* A face-up run that can_place_on_tableau accepts extends the column.     *)
LEMMA TableauGood ==
  ASSUME NEW t \in Tableaus, NEW s, GoodPile(t, s),
         NEW m \in Seq(Card), Len(m) >= 1,
         \A k \in 1 .. Len(m) : m[k].up,
         CanPlaceOnTableau(m[1], s),
         IsValidTableauSequence(m)
  PROVE  GoodPile(t, s \o m)
<1>1. /\ s \in Seq(Card) /\ Len(s) \in Nat /\ (s = << >> <=> Len(s) = 0)
      /\ Len(m) \in Nat
  BY LenProperties, EmptySeq DEF GoodPile
<1>2. /\ s \o m \in Seq(Card) /\ Len(s \o m) = Len(s) + Len(m)
      /\ \A i \in 1 .. Len(s) + Len(m) :
           (s \o m)[i] = IF i <= Len(s) THEN s[i] ELSE m[i - Len(s)]
  BY <1>1, ConcatProperties
<1> DEFINE r == s \o m
<1> HIDE DEF r
<1>3. r # << >> => Last(r).up
  BY <1>1, <1>2 DEF Last, r
<1>4. ASSUME NEW k \in 1 .. Len(r) - 1, r[k].up
      PROVE  r[k + 1].up /\ Follows(r[k], r[k + 1])
  <2>1. CASE k + 1 <= Len(s)
    BY <1>1, <1>2, <1>4, <2>1 DEF GoodPile, ColumnBuilt, r
  <2>2. CASE k = Len(s)
    <3>1. r[k] = Last(s) /\ r[k + 1] = m[1] /\ s # << >>
      BY <1>1, <1>2, <2>2 DEF Last, r
    <3>2. Last(s).rank \in Ranks /\ m[1].rank \in Ranks
      <4>1. Len(s) \in 1 .. Len(s) /\ 1 \in 1 .. Len(m)
        BY <1>1, <3>1
      <4>2. Last(s) \in Card /\ m[1] \in Card
        BY <1>1, <4>1, ElementOfSeq DEF Last
      <4>3. QED
        BY <4>2 DEF Card
    <3>3. QED
      BY <1>1, <3>1, <3>2 DEF CanPlaceOnTableau, Follows, IsRed, Ranks
  <2>3. CASE k > Len(s)
    <3>1. k - Len(s) \in 1 .. Len(m) - 1
      BY <1>1, <1>2, <2>3 DEF r
    <3>2. r[k] = m[k - Len(s)] /\ r[k + 1] = m[(k - Len(s)) + 1]
      BY <1>1, <1>2, <2>3, <3>1 DEF r
    <3>3. QED
      BY <1>1, <3>1, <3>2 DEF IsValidTableauSequence
  <2>4. QED
    BY <1>1, <1>2, <2>1, <2>2, <2>3 DEF r
<1>5. ColumnBuilt(r)
  BY <1>3, <1>4 DEF ColumnBuilt
<1>6. QED
  BY <1>2, <1>5, PileKinds DEF GoodPile, r

---------------------------------------------------------------------------
(* Every operation takes a good board to a good board.                     *)

LEMMA MoveGood ==
  ASSUME NEW p, GoodBoard(p), NEW tff \in BOOLEAN,
         NEW from \in PileType, NEW to \in PileType,
         NEW count \in 1 .. Len(p[from]),
         MoveAllowed(p, tff, from, to, count)
  PROVE  GoodBoard(AfterMove(p, from, to, count))
<1> DEFINE moved == TopCards(p[from], count)
           q     == AfterMove(p, from, to, count)
<1>1. p \in [PileType -> Seq(Card)] /\ \A t \in PileType : GoodPile(t, p[t])
  BY DEF GoodBoard, Boards
<1>2. Len(p[from]) \in Nat /\ Len(p[from]) >= count /\ count >= 1
  BY <1>1, LenProperties
<1>3. /\ moved \in Seq(Card) /\ Len(moved) = count
      /\ moved[1] = p[from][Len(p[from]) - count + 1]
  BY <1>1, <1>2, TopCardsFacts
<1>4. \A k \in 1 .. count : moved[k].up
  BY DEF MoveAllowed
<1>5. from # to
  BY DEF MoveAllowed
<1>6. /\ q[from] = FlipTop(DropCards(p[from], count))
      /\ q[to] = p[to] \o moved
      /\ \A t \in PileType : t # from /\ t # to => q[t] = p[t]
      /\ DOMAIN q = PileType
      /\ q = [t \in PileType |-> q[t]]
  BY <1>1, <1>5 DEF AfterMove
<1>7. GoodPile(from, q[from])
  BY <1>1, <1>2, <1>4, <1>6, LiftGood
<1>8. GoodPile(to, q[to])
  <2>1. CASE /\ to \in Foundations /\ count = 1
             /\ CanPlaceOnFoundation(moved[1], p[to])
    BY <1>1, <1>3, <1>4, <1>6, <2>1, FoundationGood
  <2>2. CASE /\ to \in Tableaus
             /\ CanPlaceOnTableau(moved[1], p[to])
             /\ IsValidTableauSequence(moved)
    BY <1>1, <1>2, <1>3, <1>4, <1>6, <2>2, TableauGood
  <2>3. QED
    BY <1>3, <2>1, <2>2 DEF MoveAllowed
<1> HIDE DEF q
<1>9. \A t \in PileType : GoodPile(t, q[t])
  BY <1>1, <1>6, <1>7, <1>8
<1>10. \A t \in PileType : q[t] \in Seq(Card)
  BY <1>9 DEF GoodPile
<1>11. q \in Boards
  BY <1>6, <1>10 DEF Boards
<1>12. QED
  BY <1>9, <1>11 DEF GoodBoard, q

LEMMA DrawGood ==
  ASSUME NEW p, GoodBoard(p), NEW n \in Nat
  PROVE  GoodBoard(AfterDraw(p, n))
<1> DEFINE m == IF Len(p[Stock]) < n THEN Len(p[Stock]) ELSE n
           drawn == Facing(TopCards(p[Stock], m), TRUE)
           q == AfterDraw(p, n)
<1>1. p \in [PileType -> Seq(Card)] /\ \A t \in PileType : GoodPile(t, p[t])
  BY DEF GoodBoard, Boards
<1>2. Len(p[Stock]) \in Nat /\ m \in 0 .. Len(p[Stock])
  BY <1>1, LenProperties, PileKinds
<1>3. /\ q[Stock] = DropCards(p[Stock], m)
      /\ q[Waste] = p[Waste] \o drawn
      /\ \A t \in PileType : t # Stock /\ t # Waste => q[t] = p[t]
      /\ DOMAIN q = PileType
      /\ q = [t \in PileType |-> q[t]]
  BY <1>1, PileKinds DEF AfterDraw
<1> HIDE DEF m, q
<1>4. TopCards(p[Stock], m) \in Seq(Card)
  BY <1>1, <1>2, TopCardsFacts, PileKinds
<1>5. /\ drawn \in Seq(Card) /\ Len(drawn) \in Nat
      /\ \A k \in 1 .. Len(drawn) : drawn[k].up
  <2> DEFINE top == TopCards(p[Stock], m)
  <2>1. top \in Seq(Card) /\ Len(top) \in Nat
    BY <1>4, LenProperties
  <2> HIDE DEF top
  <2>2. /\ Facing(top, TRUE) \in Seq(Card)
        /\ Len(Facing(top, TRUE)) = Len(top)
        /\ \A k \in 1 .. Len(top) : Facing(top, TRUE)[k].up = TRUE
    BY <2>1, FacingFacts
  <2>3. QED
    BY <2>1, <2>2 DEF top
<1> HIDE DEF drawn
<1>6. GoodPile(Stock, q[Stock])
  <2>1. /\ q[Stock] \in Seq(Card) /\ Len(q[Stock]) = Len(p[Stock]) - m
        /\ \A k \in 1 .. Len(p[Stock]) - m : q[Stock][k] = p[Stock][k]
    BY <1>1, <1>2, <1>3, DropCardsFacts, PileKinds
  <2>2. \A k \in 1 .. Len(p[Stock]) : ~ p[Stock][k].up
    BY <1>1, PileKinds DEF GoodPile
  <2>3. QED
    BY <1>2, <2>1, <2>2, PileKinds DEF GoodPile
<1>7. GoodPile(Waste, q[Waste])
  <2>1. /\ p[Waste] \in Seq(Card) /\ Len(p[Waste]) \in Nat
        /\ \A k \in 1 .. Len(p[Waste]) : p[Waste][k].up
    BY <1>1, LenProperties, PileKinds DEF GoodPile
  <2>2. /\ q[Waste] \in Seq(Card)
        /\ Len(q[Waste]) = Len(p[Waste]) + Len(drawn)
        /\ \A k \in 1 .. Len(p[Waste]) + Len(drawn) :
             q[Waste][k] = IF k <= Len(p[Waste]) THEN p[Waste][k]
                                                 ELSE drawn[k - Len(p[Waste])]
    BY <1>3, <1>5, <2>1, ConcatProperties
  <2>3. \A k \in 1 .. Len(q[Waste]) : q[Waste][k].up
    BY <1>5, <2>1, <2>2
  <2>4. QED
    BY <2>2, <2>3, PileKinds DEF GoodPile
<1>8. \A t \in PileType : GoodPile(t, q[t])
  BY <1>1, <1>3, <1>6, <1>7
<1>9. \A t \in PileType : q[t] \in Seq(Card)
  BY <1>8 DEF GoodPile
<1>10. q \in Boards
  BY <1>3, <1>9 DEF Boards
<1>11. QED
  BY <1>8, <1>10 DEF GoodBoard, q

LEMMA RecycleGood ==
  ASSUME NEW p, GoodBoard(p)
  PROVE  GoodBoard(AfterRecycle(p))
<1> DEFINE back == Facing(Reverse(p[Waste]), FALSE)
           q == AfterRecycle(p)
<1>1. p \in [PileType -> Seq(Card)] /\ \A t \in PileType : GoodPile(t, p[t])
  BY DEF GoodBoard, Boards
<1>2. /\ q[Stock] = p[Stock] \o back
      /\ q[Waste] = << >>
      /\ \A t \in PileType : t # Stock /\ t # Waste => q[t] = p[t]
      /\ DOMAIN q = PileType
      /\ q = [t \in PileType |-> q[t]]
  BY <1>1, PileKinds DEF AfterRecycle
<1> HIDE DEF q
<1>3. Reverse(p[Waste]) \in Seq(Card)
  BY <1>1, ReverseFacts, PileKinds
<1>4. /\ back \in Seq(Card) /\ Len(back) \in Nat
      /\ \A k \in 1 .. Len(back) : ~ back[k].up
  BY <1>3, FacingFacts, LenProperties
<1> HIDE DEF back
<1>5. GoodPile(Stock, q[Stock])
  <2>1. /\ p[Stock] \in Seq(Card) /\ Len(p[Stock]) \in Nat
        /\ \A k \in 1 .. Len(p[Stock]) : ~ p[Stock][k].up
    BY <1>1, LenProperties, PileKinds DEF GoodPile
  <2>2. /\ q[Stock] \in Seq(Card)
        /\ Len(q[Stock]) = Len(p[Stock]) + Len(back)
        /\ \A k \in 1 .. Len(p[Stock]) + Len(back) :
             q[Stock][k] = IF k <= Len(p[Stock]) THEN p[Stock][k]
                                                 ELSE back[k - Len(p[Stock])]
    BY <1>2, <1>4, <2>1, ConcatProperties
  <2>3. \A k \in 1 .. Len(q[Stock]) : ~ q[Stock][k].up
    BY <1>4, <2>1, <2>2
  <2>4. QED
    BY <2>2, <2>3, PileKinds DEF GoodPile
<1>6. GoodPile(Waste, q[Waste])
  BY <1>2, EmptySeq, PileKinds DEF GoodPile
<1>7. \A t \in PileType : GoodPile(t, q[t])
  BY <1>1, <1>2, <1>5, <1>6
<1>8. \A t \in PileType : q[t] \in Seq(Card)
  BY <1>7 DEF GoodPile
<1>9. q \in Boards
  BY <1>2, <1>8 DEF Boards
<1>10. QED
  BY <1>7, <1>9 DEF GoodBoard, q

(* The triangular numbers grow: a column's cards lie within the dealt part. *)
LEMMA DealtBeforeFacts ==
  ASSUME NEW N \in Nat, NEW i \in 0 .. N - 1
  PROVE  /\ DealtBefore(i) \in Nat
         /\ DealtBefore(N) \in Nat
         /\ DealtBefore(i) + i + 1 <= DealtBefore(N)
<1> DEFINE a == i * (i + 1)
           b == N * (N + 1)
<1>1. a \in Nat /\ b \in Nat
  OBVIOUS
<1>2. (i + 1) * (i + 2) <= b
  <2>1. (i + 1) * (i + 2) <= N * (i + 2)
    BY i + 1 <= N, i + 2 \in Nat
  <2>2. N * (i + 2) <= N * (N + 1)
    BY i + 2 <= N + 1
  <2>3. QED
    BY <2>1, <2>2
<1>3. (i + 1) * (i + 2) = a + 2 * (i + 1)
  OBVIOUS
<1>4. a + 2 * (i + 1) <= b
  BY <1>2, <1>3
<1> HIDE DEF a, b
<1>5. /\ a \div 2 \in Nat /\ b \div 2 \in Nat
      /\ (a \div 2) + i + 1 <= b \div 2
  BY <1>1, <1>4
<1>6. QED
  BY <1>5 DEF DealtBefore, a, b

LEMMA DealGood ==
  ASSUME NEW deck, IsDeck(deck), Len(deck) >= DealtBefore(NumColumns)
  PROVE  GoodBoard(DealKlondike(deck))
<1> DEFINE q == DealKlondike(deck)
           rest == DealtBefore(NumColumns)
<1>1. /\ deck \in Seq(Face) /\ Len(deck) \in Nat
      /\ \A k \in 1 .. Len(deck) : deck[k] \in Face
      /\ Len(deck) >= rest
  BY LenProperties, ElementOfSeq DEF IsDeck
<1>2. NumColumns \in Nat
  BY PilesAssumption
<1>3. rest \in Nat
  BY <1>2, DealtBeforeFacts, PilesAssumption
<1>4. \A f \in Face, b \in BOOLEAN : Turned(f, b) \in Card /\ Turned(f, b).up = b
  BY DEF Turned, Face, Card
<1>5. ASSUME NEW i \in Columns
      PROVE  GoodPile(Tableau(i), q[Tableau(i)])
  <2> DEFINE column == [k \in 1 .. i + 1 |->
                          Turned(deck[DealtBefore(i) + k], k = i + 1)]
  <2>1. q[Tableau(i)] = column
    <3>1. /\ Tableau(i) \in PileType /\ Tableau(i) # Stock
          /\ Tableau(i) \in Tableaus /\ Tableau(i)[2] = i
      BY PileKinds DEF Tableau
    <3>2. QED
      BY <3>1 DEF DealKlondike
  <2>2. i \in Nat /\ i \in 0 .. NumColumns - 1
    BY <1>2 DEF Columns
  <2>3. \A k \in 1 .. i + 1 : DealtBefore(i) + k \in 1 .. Len(deck)
    <3>1. /\ DealtBefore(i) \in Nat
          /\ DealtBefore(i) + i + 1 <= rest
      BY <1>2, <2>2, DealtBeforeFacts
    <3> HIDE DEF rest
    <3>2. QED
      BY <1>1, <1>3, <2>2, <3>1
  <2>4. \A k \in 1 .. i + 1 : /\ column[k] \in Card
                              /\ k = i + 1 => column[k].up
                              /\ k # i + 1 => ~ column[k].up
    BY <1>1, <1>4, <2>3
  <2>5. column \in Seq(Card) /\ Len(column) = i + 1
    BY <2>2, <2>4
  <2> HIDE DEF column
  <2>6. ColumnBuilt(column)
    <3>1. Last(column).up
      BY <2>2, <2>4, <2>5 DEF Last
    <3>2. \A k \in 1 .. Len(column) - 1 : ~ column[k].up
      BY <2>2, <2>4, <2>5
    <3>3. QED
      BY <3>1, <3>2 DEF ColumnBuilt
  <2>7. QED
    BY <2>1, <2>5, <2>6, PileKinds DEF GoodPile
<1>6. GoodPile(Stock, q[Stock])
  <2> DEFINE stock == [k \in 1 .. Len(deck) - rest |-> Turned(deck[rest + k], FALSE)]
  <2>1. q[Stock] = stock
    BY PileKinds DEF DealKlondike
  <2> HIDE DEF rest
  <2>5. \A k \in 1 .. Len(deck) - rest : rest + k \in 1 .. Len(deck)
    BY <1>1, <1>3
  <2>2. \A k \in 1 .. Len(deck) - rest : stock[k] \in Card /\ ~ stock[k].up
    BY <1>1, <1>4, <2>5
  <2>6. Len(deck) - rest \in Nat
    BY <1>1, <1>3
  <2>3. stock \in Seq(Card) /\ Len(stock) = Len(deck) - rest
    <3>1. stock \in [1 .. Len(deck) - rest -> Card]
      BY <2>2
    <3> HIDE DEF stock
    <3>2. QED
      BY <2>6, <3>1, SeqOfFunction
  <2> HIDE DEF stock
  <2>4. QED
    BY <2>1, <2>2, <2>3, PileKinds DEF GoodPile
<1>7. ASSUME NEW t \in PileType, t # Stock, t \notin Tableaus
      PROVE  GoodPile(t, q[t])
  <2>1. q[t] = << >>
    BY <1>7 DEF DealKlondike
  <2>2. QED
    BY <1>7, <2>1, EmptySeq DEF GoodPile, FoundationBuilt
<1>8. \A t \in PileType : GoodPile(t, q[t])
  BY <1>5, <1>6, <1>7, PileKinds
<1>9. \A t \in PileType : q[t] \in Seq(Card)
  BY <1>8 DEF GoodPile
<1>10. q \in Boards
  <2>1. q = [t \in PileType |-> q[t]]
    BY DEF DealKlondike
  <2> HIDE DEF q
  <2>2. QED
    BY <1>9, <2>1 DEF Boards
<1>11. QED
  BY <1>8, <1>10 DEF GoodBoard

---------------------------------------------------------------------------
(* The inductive invariant of the game.                                    *)

IInv == TypeOK /\ \A p \in HeldBoards : GoodBoard(p)

(* Pushing a snapshot keeps the stack typed, capped and made of held boards. *)
LEMMA PushFacts ==
  ASSUME TypeOK
  PROVE  /\ PushSnapshot \in Seq(Snapshot)
         /\ Len(PushSnapshot) <= MaxUndo
         /\ \A k \in 1 .. Len(PushSnapshot) : PushSnapshot[k].piles \in HeldBoards
<1> DEFINE base == IF Len(undo_stack) >= MaxUndo THEN Tail(undo_stack)
                                                 ELSE undo_stack
<1>1. /\ undo_stack \in Seq(Snapshot) /\ Len(undo_stack) \in Nat
      /\ Len(undo_stack) <= MaxUndo /\ MaxUndo \in Nat \ {0}
  BY BoundsAssumption, LenProperties DEF TypeOK
<1>2. TakeSnapshot \in Snapshot /\ TakeSnapshot.piles = piles
  BY DEF TakeSnapshot, Snapshot, TypeOK
<1>3. /\ base \in Seq(Snapshot) /\ Len(base) \in Nat /\ Len(base) < MaxUndo
      /\ \A k \in 1 .. Len(base) : \E j \in 1 .. Len(undo_stack) :
           base[k] = undo_stack[j]
  <2>1. CASE Len(undo_stack) >= MaxUndo
    <3>1. undo_stack # << >>
      BY <1>1, <2>1, EmptySeq
    <3>2. /\ Tail(undo_stack) \in Seq(Snapshot)
          /\ Len(Tail(undo_stack)) = Len(undo_stack) - 1
          /\ \A k \in 1 .. Len(Tail(undo_stack)) :
               Tail(undo_stack)[k] = undo_stack[k + 1]
      BY <1>1, <3>1, HeadTailProperties
    <3>3. base = Tail(undo_stack)
      BY <2>1
    <3> HIDE DEF base
    <3>4. \A k \in 1 .. Len(base) : k + 1 \in 1 .. Len(undo_stack)
      BY <1>1, <3>2, <3>3
    <3>5. Len(base) \in Nat /\ Len(base) < MaxUndo
      BY <1>1, <2>1, <3>2, <3>3
    <3>6. QED
      BY <3>2, <3>3, <3>4, <3>5
  <2>2. CASE ~ (Len(undo_stack) >= MaxUndo)
    BY <1>1, <2>2
  <2>3. QED
    BY <2>1, <2>2
<1>4. PushSnapshot = Append(base, TakeSnapshot)
  BY DEF PushSnapshot
<1> HIDE DEF base
<1>5. /\ PushSnapshot \in Seq(Snapshot)
      /\ Len(PushSnapshot) = Len(base) + 1
      /\ \A k \in 1 .. Len(base) : PushSnapshot[k] = base[k]
      /\ PushSnapshot[Len(base) + 1] = TakeSnapshot
  BY <1>2, <1>3, <1>4, AppendProperties
<1>6. ASSUME NEW k \in 1 .. Len(PushSnapshot)
      PROVE  PushSnapshot[k].piles \in HeldBoards
  <2>1. CASE k \in 1 .. Len(base)
    BY <1>3, <1>5, <2>1 DEF HeldBoards
  <2>2. CASE k = Len(base) + 1
    BY <1>2, <1>5, <2>2 DEF HeldBoards
  <2>3. QED
    BY <1>3, <1>5, <2>1, <2>2
<1>7. QED
  BY <1>1, <1>3, <1>5, <1>6

LEMMA InitIInv == Init => IInv
<1> SUFFICES ASSUME Init PROVE IInv
  OBVIOUS
<1>1. PICK deck \in Decks : piles = DealKlondike(deck)
  BY DEF Init
<1>2. GoodBoard(piles)
  BY <1>1, DealGood, DecksAssumption
<1>3. undo_stack \in Seq(Snapshot) /\ Len(undo_stack) = 0
  BY EmptySeq DEF Init
<1>4. TypeOK
  <2>1. piles \in Boards
    BY <1>2 DEF GoodBoard
  <2>2. Len(undo_stack) <= MaxUndo
    BY <1>3, BoundsAssumption
  <2>3. QED
    BY <1>3, <2>1, <2>2 DEF Init, TypeOK
<1>5. HeldBoards = {piles}
  BY <1>3 DEF HeldBoards
<1>6. QED
  BY <1>2, <1>4, <1>5 DEF IInv

LEMMA NextIInv == IInv /\ [Next]_vars => IInv'
<1> SUFFICES ASSUME IInv, [Next]_vars PROVE IInv'
  OBVIOUS
<1>1. /\ TypeOK /\ GoodBoard(piles) /\ piles \in Boards
      /\ \A p \in HeldBoards : GoodBoard(p)
      /\ undo_stack \in Seq(Snapshot) /\ Len(undo_stack) \in Nat
      /\ \A k \in 1 .. Len(undo_stack) : undo_stack[k].piles \in HeldBoards
  BY LenProperties DEF IInv, TypeOK, HeldBoards
(* A step that goes to a good board and pushes a snapshot keeps the boards  *)
(* held good; so does one that keeps the board and shortens the stack.      *)
<1>2. ASSUME GoodBoard(piles'), undo_stack' = PushSnapshot
      PROVE  /\ piles' \in Boards
             /\ undo_stack' \in Seq(Snapshot) /\ Len(undo_stack') <= MaxUndo
             /\ \A p \in HeldBoards' : GoodBoard(p)
  <2>1. /\ undo_stack' \in Seq(Snapshot) /\ Len(undo_stack') <= MaxUndo
        /\ \A k \in 1 .. Len(undo_stack') : undo_stack'[k].piles \in HeldBoards
    BY <1>1, <1>2, PushFacts
  <2>2. \A p \in HeldBoards' : p = piles' \/ p \in HeldBoards
    BY <2>1 DEF HeldBoards
  <2>3. QED
    BY <1>1, <1>2, <2>1, <2>2 DEF GoodBoard
<1>3. ASSUME Draw PROVE IInv'
  <2>1. DrawCount \in Nat
    BY DEF DrawCount
  <2>2. GoodBoard(piles')
    BY <1>1, <1>3, <2>1, DrawGood DEF Draw
  <2>3. undo_stack' = PushSnapshot
    BY <1>3 DEF Draw
  <2>4. TypeOK'
    BY <1>1, <1>2, <1>3, <2>2, <2>3 DEF Draw, TypeOK
  <2>5. QED
    BY <1>2, <2>2, <2>3, <2>4 DEF IInv
<1>4. ASSUME Recycle PROVE IInv'
  <2>1. GoodBoard(piles')
    BY <1>1, <1>4, RecycleGood DEF Recycle
  <2>2. undo_stack' = PushSnapshot
    BY <1>4 DEF Recycle
  <2>3. score' \in Nat
    <3>1. ScoreRecycle(recycle_count', draw_mode = "DrawThree") \in Int
      BY DEF ScoreRecycle
    <3>2. score \in Nat
      BY <1>1 DEF TypeOK
    <3>3. QED
      BY <1>4, <3>1, <3>2 DEF Recycle, Clamped
  <2>4. TypeOK'
    BY <1>1, <1>2, <1>4, <2>1, <2>2, <2>3 DEF Recycle, TypeOK
  <2>5. QED
    BY <1>2, <2>1, <2>2, <2>4 DEF IInv
<1>5. ASSUME NEW from \in PileType, NEW to \in PileType,
             NEW count \in 1 .. Len(piles[from]), MoveCards(from, to, count)
      PROVE  IInv'
  <2>1. GoodBoard(piles')
    <3>1. take_from_foundation \in BOOLEAN
      BY <1>1 DEF TypeOK
    <3>2. MoveAllowed(piles, take_from_foundation, from, to, count)
      BY <1>5 DEF MoveCards
    <3>3. piles' = AfterMove(piles, from, to, count)
      BY <1>5 DEF MoveCards
    <3>4. QED
      BY <1>1, <3>1, <3>2, <3>3, MoveGood
  <2>2. undo_stack' = PushSnapshot
    BY <1>5 DEF MoveCards
  <2>3. score' \in Nat
    <3>1. ScoreMove(from, to) \in Int
      BY DEF ScoreMove
    <3>2. MoveScore(from, to, count) \in Int
      BY <3>1 DEF MoveScore, ScoreFlip
    <3>3. score \in Nat
      BY <1>1 DEF TypeOK
    <3>4. QED
      BY <1>5, <3>2, <3>3 DEF MoveCards, Clamped
  <2>4. is_won' \in BOOLEAN /\ is_auto_completable' \in BOOLEAN
    <3>1. is_auto_completable \in BOOLEAN
      BY <1>1 DEF TypeOK
    <3>2. CheckWin(piles') \in BOOLEAN /\ CheckAutoComplete(piles') \in BOOLEAN
      BY DEF CheckWin, CheckAutoComplete
    <3>3. QED
      BY <1>5, <3>1, <3>2 DEF MoveCards, RecomputeFlags
  <2>5. TypeOK'
    BY <1>1, <1>2, <1>5, <2>1, <2>2, <2>3, <2>4 DEF MoveCards, TypeOK
  <2>6. QED
    BY <1>2, <2>1, <2>2, <2>5 DEF IInv
<1>6. ASSUME Undo PROVE IInv'
  <2>1. /\ undo_stack # << >> /\ undo_stack' = Front(undo_stack)
        /\ piles' = Last(undo_stack).piles
    BY <1>6 DEF Undo
  <2>2. Len(undo_stack) \in 1 .. Len(undo_stack)
    BY <1>1, <2>1, EmptySeq
  <2>3. Last(undo_stack) \in Snapshot /\ Last(undo_stack).piles \in HeldBoards
    BY <1>1, <2>2, ElementOfSeq DEF Last
  <2>4. GoodBoard(piles') /\ piles' \in Boards
    BY <1>1, <2>1, <2>3 DEF GoodBoard
  <2>5. /\ undo_stack' \in Seq(Snapshot)
        /\ Len(undo_stack') = Len(undo_stack) - 1
        /\ \A k \in 1 .. Len(undo_stack) - 1 : undo_stack'[k] = undo_stack[k]
    <3>1. undo_stack' = DropCards(undo_stack, 1)
      BY <2>1 DEF Front, DropCards
    <3>2. QED
      BY <1>1, <2>2, <3>1, DropCardsFacts
  <2>6. \A p \in HeldBoards' : p = piles' \/ p \in HeldBoards
    BY <1>1, <2>5 DEF HeldBoards
  <2>7. score' \in Nat /\ move_count' \in Nat
    <3>1. Last(undo_stack).score \in Int /\ Last(undo_stack).move_count \in Nat
      BY <2>3 DEF Snapshot
    <3>2. QED
      BY <1>6, <3>1 DEF Undo, Clamped, ScoreUndo
  <2>8. TypeOK'
    <3>1. Len(undo_stack') <= MaxUndo
      <4>1. Len(undo_stack) \in Nat /\ Len(undo_stack) <= MaxUndo
        BY <1>1, <2>2 DEF TypeOK
      <4>2. QED
        BY <4>1, <2>5, BoundsAssumption
    <3>2. is_won' \in BOOLEAN /\ is_auto_completable' \in BOOLEAN
      <4>1. is_won' = FALSE /\ is_auto_completable' = FALSE
        BY <1>6 DEF Undo, ClearFlags
      <4>2. QED
        BY <4>1
    <3>3. undo_count' \in Nat
      <4>1. undo_count \in Nat /\ undo_count' = undo_count + 1
        BY <1>1, <1>6 DEF Undo, TypeOK
      <4>2. QED
        BY <4>1
    <3>4. /\ draw_mode' \in DrawModes /\ mode' \in Modes
          /\ recycle_count' \in Nat /\ take_from_foundation' \in BOOLEAN
      BY <1>1, <1>6 DEF Undo, TypeOK
    <3>5. QED
      BY <2>4, <2>5, <2>7, <3>1, <3>2, <3>3, <3>4 DEF TypeOK
  <2>9. QED
    BY <1>1, <2>4, <2>6, <2>8 DEF IInv
<1>7. ASSUME ChangeSetting PROVE IInv'
  BY <1>1, <1>7 DEF ChangeSetting, IInv, TypeOK, HeldBoards
<1>8. ASSUME SaveAndLoad PROVE IInv'
  <2>1. undo_stack' \in Seq(Snapshot) /\ Len(undo_stack') = 0
    BY <1>8, EmptySeq DEF SaveAndLoad
  <2>2. TypeOK'
    BY <1>1, <1>8, <2>1, BoundsAssumption DEF SaveAndLoad, TypeOK
  <2>3. HeldBoards' = {piles}
    BY <1>8, <2>1 DEF SaveAndLoad, HeldBoards
  <2>4. QED
    BY <1>1, <2>2, <2>3 DEF IInv
<1>9. ASSUME UNCHANGED vars PROVE IInv'
  BY <1>1, <1>9 DEF vars, IInv, TypeOK, HeldBoards
<1>10. QED
  BY <1>3, <1>4, <1>5, <1>6, <1>7, <1>8, <1>9 DEF Next

THEOREM InductiveInvariant == Spec => []IInv
BY InitIInv, NextIInv, PTL DEF Spec

---------------------------------------------------------------------------
(* Theorems.                                                               *)

(* Types, and the cap on the undo stack.                                   *)
THEOREM TypeCorrect == Spec => []TypeOK
<1>1. IInv => TypeOK
  BY DEF IInv
<1>2. QED
  BY <1>1, InductiveInvariant, PTL

(* Every board held is a Klondike board, for ever.                         *)
THEOREM BoardsCorrect == Spec => []BoardsKept
<1>1. IInv => BoardsKept
  BY GoodBoardMeaning DEF IInv, BoardsKept
<1>2. QED
  BY <1>1, InductiveInvariant, PTL

---------------------------------------------------------------------------
(* The flags.  Beside FlagsExact: undo leads to no board that was won.      *)

FInv ==
  /\ FlagsExact
  /\ \A k \in 1 .. Len(undo_stack) : ~ CheckWin(undo_stack[k].piles)

(* A win is a matter of the foundations alone.                             *)
LEMMA WinOfFoundations ==
  ASSUME NEW p, NEW q, \A t \in Foundations : p[t] = q[t]
  PROVE  CheckWin(p) <=> CheckWin(q)
BY PileKinds DEF CheckWin

(* A deal is not won: there is a suit, and its foundation is empty.        *)
LEMMA DealNotWon ==
  ASSUME NEW deck, IsDeck(deck), Len(deck) >= DealtBefore(NumColumns)
  PROVE  ~ CheckWin(DealKlondike(deck))
<1>1. 0 \in Slots
  <2>1. deck \in Seq(Face) /\ Len(deck) >= DealtBefore(NumColumns)
    BY DEF IsDeck
  <2>2. DealtBefore(0) \in Nat /\ DealtBefore(0) + 0 + 1 <= DealtBefore(NumColumns)
        /\ DealtBefore(NumColumns) \in Nat
    BY PilesAssumption, DealtBeforeFacts
  <2>3. Len(deck) \in Nat /\ 1 \in 1 .. Len(deck)
    BY <2>1, <2>2, LenProperties
  <2>4. deck[1] \in Face
    BY <2>1, <2>3, ElementOfSeq
  <2>5. Suits # {}
    BY <2>4 DEF Face
  <2>6. Cardinality(Suits) \in Nat /\ Cardinality(Suits) # 0
    BY <2>5, SuitsAssumption, FS_CardinalityType, FS_EmptySet
  <2>7. QED
    BY <2>6, SlotPerSuit DEF Slots
<1>2. Foundation(0) \in Foundations
  BY <1>1 DEF Foundations
<1>3. DealKlondike(deck)[Foundation(0)] = << >>
  BY <1>2, PileKinds DEF DealKlondike
<1>4. ~ IsValidFoundationPile(<< >>)
  <2>1. Len(<< >>) = 0 /\ King # 0
    BY RanksAssumption
  <2>2. QED
    BY <2>1 DEF IsValidFoundationPile
<1>5. QED
  BY <1>1, <1>3, <1>4 DEF CheckWin

(* A snapshot of a board that is not won joins the stack.                  *)
LEMMA PushUnwon ==
  ASSUME TypeOK, FInv, ~ is_won
  PROVE  \A k \in 1 .. Len(PushSnapshot) : ~ CheckWin(PushSnapshot[k].piles)
<1>1. ~ CheckWin(piles)
  BY DEF FInv, FlagsExact
<1>2. \A p \in HeldBoards : ~ CheckWin(p)
  BY <1>1 DEF FInv, HeldBoards
<1>3. QED
  BY <1>2, PushFacts

LEMMA InitFInv == Init => FInv
<1> SUFFICES ASSUME Init PROVE FInv
  OBVIOUS
<1>1. PICK deck \in Decks : piles = DealKlondike(deck)
  BY DEF Init
<1>2. ~ CheckWin(piles)
  BY <1>1, DealNotWon, DecksAssumption
<1>3. ~ is_won /\ ~ is_auto_completable /\ Len(undo_stack) = 0
  BY EmptySeq DEF Init
<1>4. QED
  BY <1>2, <1>3 DEF FInv, FlagsExact

LEMMA NextFInv == IInv /\ FInv /\ [Next]_vars => FInv'
<1> SUFFICES ASSUME IInv, FInv, [Next]_vars PROVE FInv'
  OBVIOUS
<1>1. /\ TypeOK
      /\ is_won <=> CheckWin(piles)
      /\ is_auto_completable => is_won \/ CheckAutoComplete(piles)
      /\ piles \in Boards
      /\ undo_stack \in Seq(Snapshot) /\ Len(undo_stack) \in Nat
      /\ \A k \in 1 .. Len(undo_stack) : ~ CheckWin(undo_stack[k].piles)
  BY LenProperties DEF IInv, FInv, FlagsExact, TypeOK
<1>2. ASSUME ~ is_won, undo_stack' = PushSnapshot
      PROVE  \A k \in 1 .. Len(undo_stack') : ~ CheckWin(undo_stack'[k].piles)
  BY <1>1, <1>2, PushUnwon
(* Draw and recycle leave the foundations and cannot run once the flag is   *)
(* set, for then stock and waste are empty.                                *)
<1>3. ASSUME Draw PROVE FInv'
  <2>1. /\ ~ is_won /\ ~ is_won' /\ undo_stack' = PushSnapshot
        /\ piles[Stock] # << >> /\ piles' = AfterDraw(piles, DrawCount)
        /\ is_auto_completable' = is_auto_completable
    BY <1>3 DEF Draw
  <2>2. \A t \in Foundations : piles'[t] = piles[t]
    BY <1>1, <2>1, PileKinds DEF AfterDraw, Boards
  <2>3. ~ CheckWin(piles')
    BY <1>1, <2>1, <2>2, WinOfFoundations
  <2>4. ~ is_auto_completable'
    BY <1>1, <2>1 DEF CheckAutoComplete
  <2>5. QED
    BY <1>2, <2>1, <2>3, <2>4 DEF FInv, FlagsExact
<1>4. ASSUME Recycle PROVE FInv'
  <2>1. /\ ~ is_won /\ ~ is_won' /\ undo_stack' = PushSnapshot
        /\ piles[Waste] # << >> /\ piles' = AfterRecycle(piles)
        /\ is_auto_completable' = is_auto_completable
    BY <1>4 DEF Recycle
  <2>2. \A t \in Foundations : piles'[t] = piles[t]
    BY <1>1, <2>1, PileKinds DEF AfterRecycle, Boards
  <2>3. ~ CheckWin(piles')
    BY <1>1, <2>1, <2>2, WinOfFoundations
  <2>4. ~ is_auto_completable'
    BY <1>1, <2>1 DEF CheckAutoComplete
  <2>5. QED
    BY <1>2, <2>1, <2>3, <2>4 DEF FInv, FlagsExact
<1>5. ASSUME NEW from \in PileType, NEW to \in PileType,
             NEW count \in 1 .. Len(piles[from]), MoveCards(from, to, count)
      PROVE  FInv'
  <2>1. ~ is_won /\ undo_stack' = PushSnapshot /\ RecomputeFlags
    BY <1>5 DEF MoveCards
  <2>2. is_won' <=> CheckWin(piles')
    BY <2>1 DEF RecomputeFlags
  <2>3. is_auto_completable' => is_won' \/ CheckAutoComplete(piles')
    BY <2>1 DEF RecomputeFlags
  <2>4. QED
    BY <1>2, <2>1, <2>2, <2>3 DEF FInv, FlagsExact
<1>6. ASSUME Undo PROVE FInv'
  <2>1. /\ undo_stack # << >> /\ undo_stack' = Front(undo_stack)
        /\ piles' = Last(undo_stack).piles
        /\ ~ is_won' /\ ~ is_auto_completable'
    BY <1>6 DEF Undo, ClearFlags
  <2>2. Len(undo_stack) \in 1 .. Len(undo_stack)
    BY <1>1, <2>1, EmptySeq
  <2>3. ~ CheckWin(piles')
    BY <1>1, <2>1, <2>2 DEF Last
  <2>4. /\ Len(undo_stack') = Len(undo_stack) - 1
        /\ \A k \in 1 .. Len(undo_stack) - 1 : undo_stack'[k] = undo_stack[k]
    <3>1. undo_stack' = DropCards(undo_stack, 1)
      BY <2>1 DEF Front, DropCards
    <3>2. undo_stack \in Seq(Snapshot) /\ 1 \in 0 .. Len(undo_stack)
      BY <1>1, <2>2
    <3>3. QED
      BY <3>1, <3>2, DropCardsFacts
  <2>5. \A k \in 1 .. Len(undo_stack') : ~ CheckWin(undo_stack'[k].piles)
    BY <1>1, <2>4
  <2>6. QED
    BY <2>1, <2>3, <2>5 DEF FInv, FlagsExact
<1>7. ASSUME SaveAndLoad PROVE FInv'
  <2>1. Len(undo_stack') = 0
    BY <1>7, EmptySeq DEF SaveAndLoad
  <2>2. QED
    BY <1>1, <1>7, <2>1 DEF SaveAndLoad, FInv, FlagsExact
<1>8. ASSUME ChangeSetting \/ UNCHANGED vars PROVE FInv'
  BY <1>1, <1>8 DEF ChangeSetting, vars, FInv, FlagsExact
<1>9. QED
  BY <1>3, <1>4, <1>5, <1>6, <1>7, <1>8 DEF Next

(* The flags say of the board what check_win and check_auto_complete say,   *)
(* for ever.                                                               *)
THEOREM FlagsCorrect == Spec => []FlagsExact
<1>1. FInv => FlagsExact
  BY DEF FInv
<1>2. QED
  BY <1>1, InitFInv, NextFInv, InductiveInvariant, PTL DEF Spec

---------------------------------------------------------------------------
(* The hints.                                                              *)

(* A set of natural numbers has a least element: the intervals from 0 up   *)
(* to its elements are finite sets, among which one includes no other.     *)
LEMMA LeastNatural ==
  ASSUME NEW T \in SUBSET Nat, T # {}
  PROVE  \E x \in T : \A y \in T : x <= y
<1> DEFINE Upto == {0 .. x : x \in T}
<1>1. Upto # {} /\ Upto \subseteq FiniteSubsetsOf(Nat)
  <2>1. \A x \in T : IsFiniteSet(0 .. x) /\ 0 .. x \subseteq Nat
    BY FS_Interval
  <2>2. QED
    BY <2>1 DEF FiniteSubsetsOf
<1>2. \E S \in Upto : \A R \in Upto : ~ (<<R, S>> \in StrictSubsetOrdering(Nat))
  <2> HIDE DEF Upto
  <2>1. QED
    BY <1>1, FS_StrictSubsetOrderingWellFounded, WFMin
<1>3. PICK x \in T : \A y \in T : ~ (<<0 .. y, 0 .. x>> \in StrictSubsetOrdering(Nat))
  BY <1>2
<1>4. ASSUME NEW y \in T, y < x
      PROVE  FALSE
  <2>1. 0 .. y \subseteq 0 .. x /\ x \in 0 .. x /\ x \notin 0 .. y
    BY <1>4
  <2>2. 0 .. y \subseteq Nat /\ 0 .. x \subseteq Nat
    OBVIOUS
  <2>3. <<0 .. y, 0 .. x>> \in StrictSubsetOrdering(Nat)
    BY <2>1, <2>2 DEF StrictSubsetOrdering
  <2>4. QED
    BY <1>3, <2>3
<1>5. QED
  BY <1>4

(* RunLength counts the face-up cards at the top: the card under them, if  *)
(* there is one, is face-down.                                             *)
LEMMA RunLengthFacts ==
  ASSUME NEW s \in Seq(Card)
  PROVE  /\ RunLength(s) \in 0 .. Len(s)
         /\ \A k \in 1 .. RunLength(s) : s[Len(s) - k + 1].up
         /\ RunLength(s) < Len(s) => ~ s[Len(s) - RunLength(s)].up
<1> DEFINE Ends == {n \in 0 .. Len(s) : n < Len(s) => ~ s[Len(s) - n].up}
<1>1. Len(s) \in Nat
  BY LenProperties
<1>2. Ends \in SUBSET Nat /\ Len(s) \in Ends
  BY <1>1
<1>3. PICK n \in Ends : \A m \in Ends : n <= m
  BY <1>2, LeastNatural
<1>4. ASSUME NEW k \in 1 .. n
      PROVE  s[Len(s) - k + 1].up
  <2>1. k - 1 \in 0 .. Len(s) /\ k - 1 < Len(s) /\ ~ (n <= k - 1)
    BY <1>1, <1>3
  <2>2. k - 1 \notin Ends
    BY <1>3, <2>1
  <2>3. s[Len(s) - (k - 1)].up
    BY <2>1, <2>2
  <2>4. Len(s) - (k - 1) = Len(s) - k + 1
    BY <1>1
  <2>5. QED
    BY <2>3, <2>4
<1> DEFINE IsRun(r) == /\ \A k \in 1 .. r : s[Len(s) - k + 1].up
                       /\ r < Len(s) => ~ s[Len(s) - r].up
           runs == 0 .. Len(s)
<1>5. \E r \in runs : IsRun(r)
  BY <1>3, <1>4
<1>6. RunLength(s) = CHOOSE r \in runs : IsRun(r)
  BY DEF RunLength
<1> HIDE DEF IsRun, runs
<1>7. RunLength(s) \in runs /\ IsRun(RunLength(s))
  BY <1>5, <1>6
<1>8. QED
  BY <1>7 DEF IsRun, runs

(* The top n cards can be lifted face-up when n is within the run.         *)
LEMMA LiftableMeaning ==
  ASSUME NEW s \in Seq(Card), NEW n \in 1 .. Len(s)
  PROVE  (\A k \in 1 .. n : TopCards(s, n)[k].up) <=> n <= RunLength(s)
<1> DEFINE r == RunLength(s)
<1>1. /\ Len(s) \in Nat /\ r \in 0 .. Len(s)
      /\ \A k \in 1 .. r : s[Len(s) - k + 1].up
      /\ r < Len(s) => ~ s[Len(s) - r].up
  BY LenProperties, RunLengthFacts
<1>2. \A k \in 1 .. n : TopCards(s, n)[k] = s[Len(s) - n + k]
  <2>1. n \in 0 .. Len(s)
    BY <1>1
  <2>2. QED
    BY <2>1, TopCardsFacts
<1> HIDE DEF r
<1>3. ASSUME n <= r, NEW k \in 1 .. n
      PROVE  TopCards(s, n)[k].up
  <2>1. n - k + 1 \in 1 .. r /\ Len(s) - (n - k + 1) + 1 = Len(s) - n + k
    BY <1>1, <1>3
  <2>2. s[Len(s) - (n - k + 1) + 1].up
    BY <1>1, <2>1
  <2>3. QED
    BY <1>2, <2>1, <2>2
<1>4. ASSUME r < n, \A k \in 1 .. n : TopCards(s, n)[k].up
      PROVE  FALSE
  <2>1. n - r \in 1 .. n /\ r < Len(s) /\ Len(s) - n + (n - r) = Len(s) - r
    BY <1>1, <1>4
  <2>2. TopCards(s, n)[n - r] = s[Len(s) - r]
    BY <1>2, <2>1
  <2>3. QED
    BY <1>1, <1>4, <2>1, <2>2
<1>5. n <= r \/ r < n
  BY <1>1
<1>6. QED
  BY <1>3, <1>4, <1>5 DEF r

(* What possible_instructions asks of a move, source by source.            *)
Offered(p, tff, from, to, n) ==
  \/ /\ from = Waste /\ n = 1 /\ p[from] # << >>
     /\ \/ to \in Foundations /\ CanPlaceOnFoundation(Last(p[from]), p[to])
        \/ to \in Tableaus /\ CanPlaceOnTableau(Last(p[from]), p[to])
  \/ /\ from \in Tableaus
     /\ n \in 1 .. RunLength(p[from])
     /\ IsValidTableauSequence(TopCards(p[from], n))
     /\ \/ /\ n = 1 /\ to \in Foundations
           /\ CanPlaceOnFoundation(Last(p[from]), p[to])
        \/ /\ to \in Tableaus /\ to # from
           /\ CanPlaceOnTableau(p[from][Len(p[from]) - n + 1], p[to])
  \/ /\ from \in Foundations /\ n = 1 /\ tff /\ p[from] # << >>
     /\ to \in Tableaus /\ CanPlaceOnTableau(Last(p[from]), p[to])

LEMMA InstructionsOffered ==
  ASSUME NEW p, NEW tff, NEW x
  PROVE  x \in PossibleInstructions(p, tff) <=>
           \E from, to, n : x = <<from, to, n>> /\ Offered(p, tff, from, to, n)
<1> DEFINE ontoFoundation(card) ==
             {t \in Foundations : CanPlaceOnFoundation(card, p[t])}
           ontoTableau(card) == {t \in Tableaus : CanPlaceOnTableau(card, p[t])}
           fromWaste ==
             IF p[Waste] = << >> THEN {}
             ELSE {<<Waste, t, 1>> : t \in ontoFoundation(Last(p[Waste]))
                                             \cup ontoTableau(Last(p[Waste]))}
           liftable(src) ==
             {n \in 1 .. RunLength(p[src]) :
                IsValidTableauSequence(TopCards(p[src], n))}
           targets(src, n) ==
             (IF n = 1 THEN ontoFoundation(Last(p[src])) ELSE {})
               \cup (ontoTableau(p[src][Len(p[src]) - n + 1]) \ {src})
           fromColumn(src) ==
             UNION {{<<src, t, n>> : t \in targets(src, n)} : n \in liftable(src)}
           fromFoundation(src) ==
             IF tff /\ p[src] # << >>
             THEN {<<src, t, 1>> : t \in ontoTableau(Last(p[src]))}
             ELSE {}
<1>1. PossibleInstructions(p, tff) =
        fromWaste \cup (UNION {fromColumn(t) : t \in Tableaus})
                  \cup (UNION {fromFoundation(t) : t \in Foundations})
  BY DEF PossibleInstructions
<1>2. x \in fromWaste <=>
        \E to : /\ x = <<Waste, to, 1>> /\ p[Waste] # << >>
                /\ \/ to \in Foundations /\ CanPlaceOnFoundation(Last(p[Waste]), p[to])
                   \/ to \in Tableaus /\ CanPlaceOnTableau(Last(p[Waste]), p[to])
  OBVIOUS
<1>3. ASSUME NEW src
      PROVE  x \in fromColumn(src) <=>
               \E to, n : /\ x = <<src, to, n>>
                          /\ n \in 1 .. RunLength(p[src])
                          /\ IsValidTableauSequence(TopCards(p[src], n))
                          /\ \/ /\ n = 1 /\ to \in Foundations
                                /\ CanPlaceOnFoundation(Last(p[src]), p[to])
                             \/ /\ to \in Tableaus /\ to # src
                                /\ CanPlaceOnTableau(p[src][Len(p[src]) - n + 1], p[to])
  <2>1. \A to, n : to \in targets(src, n) <=>
          \/ /\ n = 1 /\ to \in Foundations
             /\ CanPlaceOnFoundation(Last(p[src]), p[to])
          \/ /\ to \in Tableaus /\ to # src
             /\ CanPlaceOnTableau(p[src][Len(p[src]) - n + 1], p[to])
    OBVIOUS
  <2>2. \A n : n \in liftable(src) <=>
          /\ n \in 1 .. RunLength(p[src])
          /\ IsValidTableauSequence(TopCards(p[src], n))
    OBVIOUS
  <2> HIDE DEF targets, liftable
  <2>3. x \in fromColumn(src) <=>
          \E n \in liftable(src) : \E to \in targets(src, n) : x = <<src, to, n>>
    OBVIOUS
  <2> HIDE DEF fromColumn
  <2>4. QED
    BY <2>1, <2>2, <2>3
<1>4. ASSUME NEW src
      PROVE  x \in fromFoundation(src) <=>
               \E to : /\ x = <<src, to, 1>> /\ tff /\ p[src] # << >>
                       /\ to \in Tableaus /\ CanPlaceOnTableau(Last(p[src]), p[to])
  OBVIOUS
<1> HIDE DEF fromWaste, fromColumn, fromFoundation
<1>5. x \in PossibleInstructions(p, tff) <=>
        \/ x \in fromWaste
        \/ \E src \in Tableaus : x \in fromColumn(src)
        \/ \E src \in Foundations : x \in fromFoundation(src)
  BY <1>1
<1>6. ASSUME x \in PossibleInstructions(p, tff)
      PROVE  \E from, to, n : x = <<from, to, n>> /\ Offered(p, tff, from, to, n)
  BY <1>2, <1>3, <1>4, <1>5, <1>6 DEF Offered
<1>7. ASSUME NEW from, NEW to, NEW n, x = <<from, to, n>>, Offered(p, tff, from, to, n)
      PROVE  x \in PossibleInstructions(p, tff)
  BY <1>2, <1>3, <1>4, <1>5, <1>7 DEF Offered
<1>8. QED
  BY <1>6, <1>7

(* On a good board what is offered is what move_cards accepts: the checks  *)
(* of the one that the other leaves out follow from the board's facings.   *)
LEMMA OfferedIsAllowed ==
  ASSUME NEW p, GoodBoard(p), NEW tff \in BOOLEAN,
         NEW from \in PileType, NEW to \in PileType, NEW n \in 1 .. Len(p[from])
  PROVE  Offered(p, tff, from, to, n) <=> MoveAllowed(p, tff, from, to, n)
<1> DEFINE s == p[from]
           moved == TopCards(s, n)
           bottom == s[Len(s) - n + 1]
<1>1. s \in Seq(Card) /\ GoodPile(from, s) /\ Len(s) \in Nat /\ s # << >>
  BY LenProperties, EmptySeq DEF GoodBoard, GoodPile
<1>2. /\ Len(moved) = n /\ (\A k \in 1 .. n : moved[k] = s[Len(s) - n + k])
  <2>1. n \in 0 .. Len(s)
    BY <1>1
  <2>2. QED
    BY <1>1, <2>1, TopCardsFacts
<1>3. n = 1 => /\ bottom = Last(s) /\ moved[1] = Last(s)
               /\ IsValidTableauSequence(moved)
  BY <1>1, <1>2 DEF Last, IsValidTableauSequence
<1>4. MoveAllowed(p, tff, from, to, n) <=>
        /\ from # to
        /\ \A k \in 1 .. n : moved[k].up
        /\ \/ /\ to \in Foundations /\ from \notin Foundations /\ n = 1
              /\ CanPlaceOnFoundation(bottom, p[to])
           \/ /\ to \in Tableaus
              /\ from \in Foundations => tff /\ n = 1
              /\ from = Waste => n = 1
              /\ CanPlaceOnTableau(bottom, p[to])
              /\ IsValidTableauSequence(moved)
  BY DEF MoveAllowed
<1>5. (\A k \in 1 .. n : moved[k].up) <=> n <= RunLength(s)
  BY <1>1, LiftableMeaning
<1>6. from \in Foundations \cup {Waste} => \A k \in 1 .. n : moved[k].up
  <2>1. \A k \in 1 .. n : Len(s) - n + k \in 1 .. Len(s)
    BY <1>1
  <2>2. QED
    BY <1>1, <1>2, <2>1 DEF GoodPile
<1>7. from = Stock => ~ moved[1].up
  <2>1. 1 \in 1 .. n /\ Len(s) - n + 1 \in 1 .. Len(s)
    BY <1>1
  <2>2. QED
    BY <1>1, <1>2, <2>1 DEF GoodPile
<1>8. RunLength(s) \in Nat /\ 1 \in 1 .. n
  BY <1>1, RunLengthFacts
<1> HIDE DEF s, moved, bottom
<1>9. Offered(p, tff, from, to, n) <=>
        \/ /\ from = Waste /\ n = 1
           /\ \/ to \in Foundations /\ CanPlaceOnFoundation(Last(s), p[to])
              \/ to \in Tableaus /\ CanPlaceOnTableau(Last(s), p[to])
        \/ /\ from \in Tableaus /\ n <= RunLength(s)
           /\ IsValidTableauSequence(moved)
           /\ \/ n = 1 /\ to \in Foundations /\ CanPlaceOnFoundation(Last(s), p[to])
              \/ to \in Tableaus /\ to # from /\ CanPlaceOnTableau(bottom, p[to])
        \/ /\ from \in Foundations /\ n = 1 /\ tff
           /\ to \in Tableaus /\ CanPlaceOnTableau(Last(s), p[to])
  BY <1>1, <1>8 DEF Offered, s, moved, bottom
<1>10. CASE from = Stock
  BY <1>4, <1>7, <1>8, <1>9, <1>10, PileKinds
<1>11. CASE from = Waste
  BY <1>3, <1>4, <1>6, <1>9, <1>11, PileKinds
<1>12. CASE from \in Foundations
  BY <1>3, <1>4, <1>6, <1>9, <1>12, PileKinds
<1>13. CASE from \in Tableaus
  BY <1>3, <1>4, <1>5, <1>9, <1>13, PileKinds
<1>14. QED
  BY <1>10, <1>11, <1>12, <1>13, PileKinds

(* Only moves between piles, of cards that are there, are offered.         *)
LEMMA OfferedInRange ==
  ASSUME NEW p, GoodBoard(p), NEW tff, NEW from, NEW to, NEW n,
         Offered(p, tff, from, to, n)
  PROVE  from \in PileType /\ to \in PileType /\ n \in 1 .. Len(p[from])
<1>1. from \in PileType /\ to \in PileType
  BY PileKinds DEF Offered
<1>2. p[from] \in Seq(Card) /\ Len(p[from]) \in Nat
  BY <1>1, LenProperties DEF GoodBoard, GoodPile
<1>3. p[from] # << >> => 1 \in 1 .. Len(p[from])
  BY <1>2, EmptySeq
<1>4. RunLength(p[from]) \in 0 .. Len(p[from])
  BY <1>2, RunLengthFacts
<1>5. QED
  BY <1>1, <1>2, <1>3, <1>4 DEF Offered

(* possible_instructions offers exactly what move_cards accepts, on every   *)
(* board play leads to.                                                    *)
THEOREM InstructionsCorrect == Spec => []InstructionsExact
<1>1. ASSUME IInv
      PROVE  InstructionsExact
  <2> DEFINE tff == take_from_foundation
             Accepted ==
               UNION {{<<from, to, count>> : count \in
                         {n \in 1 .. Len(piles[from]) :
                            MoveAllowed(piles, tff, from, to, n)}}
                      : from, to \in PileType}
  <2>1. GoodBoard(piles) /\ tff \in BOOLEAN
    BY <1>1 DEF IInv, TypeOK, HeldBoards
  <2>2. ASSUME NEW x
        PROVE  x \in Accepted <=>
                 \E from, to \in PileType : \E n \in 1 .. Len(piles[from]) :
                   x = <<from, to, n>> /\ MoveAllowed(piles, tff, from, to, n)
    <3> DEFINE moves(from, to) ==
                 {<<from, to, count>> : count \in
                    {n \in 1 .. Len(piles[from]) :
                       MoveAllowed(piles, tff, from, to, n)}}
    <3>1. \A from, to : x \in moves(from, to) <=>
            \E n \in 1 .. Len(piles[from]) :
              x = <<from, to, n>> /\ MoveAllowed(piles, tff, from, to, n)
      OBVIOUS
    <3>2. Accepted = UNION {moves(from, to) : from, to \in PileType}
      OBVIOUS
    <3> HIDE DEF moves, Accepted
    <3>3. x \in Accepted <=> \E from, to \in PileType : x \in moves(from, to)
      BY <3>2
    <3>4. QED
      BY <3>1, <3>3
  <2> HIDE DEF Accepted, tff
  <2>3. ASSUME NEW x
        PROVE  x \in PossibleInstructions(piles, tff) <=> x \in Accepted
    <3>1. ASSUME x \in PossibleInstructions(piles, tff)
          PROVE  x \in Accepted
      <4>1. PICK from, to, n : x = <<from, to, n>> /\ Offered(piles, tff, from, to, n)
        BY <3>1, InstructionsOffered
      <4>2. from \in PileType /\ to \in PileType /\ n \in 1 .. Len(piles[from])
        BY <2>1, <4>1, OfferedInRange
      <4>3. MoveAllowed(piles, tff, from, to, n)
        BY <2>1, <4>1, <4>2, OfferedIsAllowed
      <4>4. QED
        BY <2>2, <4>1, <4>2, <4>3
    <3>2. ASSUME x \in Accepted
          PROVE  x \in PossibleInstructions(piles, tff)
      <4>1. PICK from \in PileType, to \in PileType :
              \E n \in 1 .. Len(piles[from]) :
                x = <<from, to, n>> /\ MoveAllowed(piles, tff, from, to, n)
        BY <2>2, <3>2
      <4>2. PICK n \in 1 .. Len(piles[from]) :
              x = <<from, to, n>> /\ MoveAllowed(piles, tff, from, to, n)
        BY <4>1
      <4>3. Offered(piles, tff, from, to, n)
        BY <2>1, <4>2, OfferedIsAllowed
      <4>4. QED
        BY <4>2, <4>3, InstructionsOffered
    <3>3. QED
      BY <3>1, <3>2
  <2>4. PossibleInstructions(piles, tff) = Accepted
    BY <2>3
  <2>5. QED
    BY <2>4 DEF InstructionsExact, Accepted, tff
<1>2. QED
  BY <1>1, InductiveInvariant, PTL

---------------------------------------------------------------------------
(* The undo stack.  Linked says of a stack, the board and the move count     *)
(* above it what UndoIsPast says of the state; PlayWith is PlayStep for a    *)
(* given number of cards drawn.                                             *)

PlayWith(n, p, q) ==
  \/ p[Stock] # << >> /\ q = AfterDraw(p, n)
  \/ p[Stock] = << >> /\ p[Waste] # << >> /\ q = AfterRecycle(p)
  \/ \E from, to \in PileType : \E c \in 1 .. Len(p[from]) :
       MoveAllowed(p, TRUE, from, to, c) /\ q = AfterMove(p, from, to, c)

Linked(n, stack, p, m) ==
  \A k \in 1 .. Len(stack) :
    /\ PlayWith(n, stack[k].piles, IF k = Len(stack) THEN p ELSE stack[k + 1].piles)
    /\ (IF k = Len(stack) THEN m ELSE stack[k + 1].move_count)
         = stack[k].move_count + 1

PastInv == Linked(DrawCount, undo_stack, piles, move_count)

(* The snapshots pushed are the old ones in their order, then the present.  *)
LEMMA PushLinks ==
  ASSUME TypeOK
  PROVE  /\ Len(PushSnapshot) \in Nat \ {0}
         /\ PushSnapshot[Len(PushSnapshot)] = TakeSnapshot
         /\ \A k \in 1 .. Len(PushSnapshot) - 1 :
              \E j \in 1 .. Len(undo_stack) :
                /\ PushSnapshot[k] = undo_stack[j]
                /\ PushSnapshot[k + 1] = IF j = Len(undo_stack) THEN TakeSnapshot
                                                             ELSE undo_stack[j + 1]
<1> DEFINE full == Len(undo_stack) >= MaxUndo
           base == IF full THEN Tail(undo_stack) ELSE undo_stack
           d    == IF full THEN 1 ELSE 0
           N    == Len(undo_stack)
<1>1. undo_stack \in Seq(Snapshot) /\ N \in Nat /\ MaxUndo \in Nat \ {0}
  BY BoundsAssumption, LenProperties DEF TypeOK
<1>2. TakeSnapshot \in Snapshot
  BY DEF TakeSnapshot, Snapshot, TypeOK
<1>3. /\ base \in Seq(Snapshot) /\ Len(base) = N - d /\ Len(base) \in Nat
      /\ d \in 0 .. 1
      /\ \A k \in 1 .. N - d : base[k] = undo_stack[k + d]
  <2>1. CASE full
    <3>1. undo_stack # << >>
      BY <1>1, <2>1, EmptySeq
    <3>2. /\ Tail(undo_stack) \in Seq(Snapshot)
          /\ Len(Tail(undo_stack)) = N - 1
          /\ \A k \in 1 .. Len(Tail(undo_stack)) :
               Tail(undo_stack)[k] = undo_stack[k + 1]
      BY <1>1, <3>1, HeadTailProperties
    <3>3. base = Tail(undo_stack) /\ d = 1
      BY <2>1
    <3> HIDE DEF base, d
    <3>4. Len(base) \in Nat
      BY <3>2, <3>3, LenProperties
    <3>5. QED
      BY <3>2, <3>3, <3>4
  <2>2. CASE ~ full
    <3>1. base = undo_stack /\ d = 0
      BY <2>2
    <3> HIDE DEF base, d
    <3>2. QED
      BY <1>1, <3>1
  <2>3. QED
    BY <2>1, <2>2
<1>4. PushSnapshot = Append(base, TakeSnapshot)
  BY DEF PushSnapshot
<1> HIDE DEF base, d, full, N
<1>5. /\ Len(PushSnapshot) = N - d + 1
      /\ \A k \in 1 .. N - d : PushSnapshot[k] = base[k]
      /\ PushSnapshot[N - d + 1] = TakeSnapshot
  BY <1>2, <1>3, <1>4, AppendProperties
<1>6. N - d \in Nat
  BY <1>3
<1>7. ASSUME NEW k \in 1 .. N - d
      PROVE  \E j \in 1 .. N :
               /\ PushSnapshot[k] = undo_stack[j]
               /\ PushSnapshot[k + 1] = IF j = N THEN TakeSnapshot
                                               ELSE undo_stack[j + 1]
  <2>1. k + d \in 1 .. N /\ PushSnapshot[k] = undo_stack[k + d]
    BY <1>1, <1>3, <1>5
  <2>2. CASE k = N - d
    <3>1. k + d = N
      BY <1>1, <1>3, <2>2
    <3>2. PushSnapshot[k + 1] = TakeSnapshot
      BY <1>5, <2>2
    <3>3. QED
      BY <2>1, <3>1, <3>2
  <2>3. CASE k # N - d
    <3>1. k + 1 \in 1 .. N - d /\ k + d # N /\ (k + 1) + d = (k + d) + 1
      BY <1>1, <1>3, <2>3
    <3>2. PushSnapshot[k + 1] = undo_stack[(k + d) + 1]
      BY <1>3, <1>5, <3>1
    <3>3. QED
      BY <2>1, <3>1, <3>2
  <2>4. QED
    BY <2>2, <2>3
<1>8. Len(PushSnapshot) \in Nat \ {0} /\ Len(PushSnapshot) - 1 = N - d
  BY <1>5, <1>6
<1>9. QED
  BY <1>5, <1>7, <1>8 DEF N

LEMMA NextPastInv == IInv /\ PastInv /\ [Next]_vars => PastInv'
<1> SUFFICES ASSUME IInv, PastInv, [Next]_vars PROVE PastInv'
  OBVIOUS
<1>1. /\ TypeOK /\ Linked(DrawCount, undo_stack, piles, move_count)
      /\ undo_stack \in Seq(Snapshot) /\ Len(undo_stack) \in Nat
  BY LenProperties DEF IInv, PastInv, TypeOK
<1>2. DrawCount' = DrawCount
  BY DEF Next, Draw, Recycle, MoveCards, Undo, ChangeSetting, SaveAndLoad, vars,
         DrawCount
(* A step of play pushes the board it leaves.                               *)
<1>3. ASSUME undo_stack' = PushSnapshot, move_count' = move_count + 1,
             PlayWith(DrawCount, piles, piles')
      PROVE  PastInv'
  <2> DEFINE S == PushSnapshot
  <2>1. /\ Len(S) \in Nat \ {0} /\ S[Len(S)] = TakeSnapshot
        /\ \A k \in 1 .. Len(S) - 1 :
             \E j \in 1 .. Len(undo_stack) :
               /\ S[k] = undo_stack[j]
               /\ S[k + 1] = IF j = Len(undo_stack) THEN TakeSnapshot
                                                    ELSE undo_stack[j + 1]
    BY <1>1, PushLinks
  <2>2. TakeSnapshot.piles = piles /\ TakeSnapshot.move_count = move_count
    BY DEF TakeSnapshot
  <2> HIDE DEF S
  <2>3. ASSUME NEW k \in 1 .. Len(S)
        PROVE  /\ PlayWith(DrawCount, S[k].piles,
                           IF k = Len(S) THEN piles' ELSE S[k + 1].piles)
               /\ (IF k = Len(S) THEN move_count' ELSE S[k + 1].move_count)
                    = S[k].move_count + 1
    <3>1. CASE k = Len(S)
      BY <1>3, <2>1, <2>2, <3>1
    <3>2. CASE k # Len(S)
      <4>1. k \in 1 .. Len(S) - 1
        BY <2>1, <3>2
      <4>2. PICK j \in 1 .. Len(undo_stack) :
              /\ S[k] = undo_stack[j]
              /\ S[k + 1] = IF j = Len(undo_stack) THEN TakeSnapshot
                                                   ELSE undo_stack[j + 1]
        BY <2>1, <4>1
      <4>3. /\ PlayWith(DrawCount, undo_stack[j].piles,
                        IF j = Len(undo_stack) THEN piles ELSE undo_stack[j + 1].piles)
            /\ (IF j = Len(undo_stack) THEN move_count
                                       ELSE undo_stack[j + 1].move_count)
                 = undo_stack[j].move_count + 1
        BY <1>1 DEF Linked
      <4>4. QED
        BY <2>2, <3>2, <4>2, <4>3
    <3>3. QED
      BY <3>1, <3>2
  <2>4. undo_stack' = S
    BY <1>3 DEF S
  <2>5. QED
    BY <1>2, <2>3, <2>4 DEF PastInv, Linked
<1>4. ASSUME Draw PROVE PastInv'
  <2>1. PlayWith(DrawCount, piles, piles')
    BY <1>4 DEF Draw, PlayWith
  <2>2. QED
    BY <1>3, <1>4, <2>1 DEF Draw
<1>5. ASSUME Recycle PROVE PastInv'
  <2>1. PlayWith(DrawCount, piles, piles')
    BY <1>5 DEF Recycle, PlayWith
  <2>2. QED
    BY <1>3, <1>5, <2>1 DEF Recycle
<1>6. ASSUME NEW from \in PileType, NEW to \in PileType,
             NEW count \in 1 .. Len(piles[from]), MoveCards(from, to, count)
      PROVE  PastInv'
  <2>1. MoveAllowed(piles, take_from_foundation, from, to, count)
    BY <1>6 DEF MoveCards
  <2>2. MoveAllowed(piles, TRUE, from, to, count)
    BY <2>1 DEF MoveAllowed
  <2>3. PlayWith(DrawCount, piles, piles')
    BY <1>6, <2>2 DEF MoveCards, PlayWith
  <2>4. QED
    BY <1>3, <1>6, <2>3 DEF MoveCards
(* An undo goes back to the last snapshot, whose successor the board was.   *)
<1>7. ASSUME Undo PROVE PastInv'
  <2> DEFINE N == Len(undo_stack)
  <2>1. /\ undo_stack # << >> /\ undo_stack' = Front(undo_stack)
        /\ piles' = Last(undo_stack).piles
        /\ move_count' = Last(undo_stack).move_count
    BY <1>7 DEF Undo
  <2>2. N \in 1 .. N /\ N \in Nat
    BY <1>1, <2>1, EmptySeq
  <2>3. piles' = undo_stack[N].piles /\ move_count' = undo_stack[N].move_count
    BY <2>1 DEF Last
  <2>4. /\ Len(undo_stack') = N - 1
        /\ \A k \in 1 .. N - 1 : undo_stack'[k] = undo_stack[k]
    <3>1. undo_stack' = DropCards(undo_stack, 1)
      BY <2>1 DEF Front, DropCards
    <3>2. QED
      BY <1>1, <2>2, <3>1, DropCardsFacts
  <2> HIDE DEF N
  <2>5. ASSUME NEW k \in 1 .. N - 1
        PROVE  /\ PlayWith(DrawCount, undo_stack'[k].piles,
                           IF k = N - 1 THEN piles' ELSE undo_stack'[k + 1].piles)
               /\ (IF k = N - 1 THEN move_count' ELSE undo_stack'[k + 1].move_count)
                    = undo_stack'[k].move_count + 1
    <3>1. k \in 1 .. N /\ k # N
      BY <2>2
    <3>2. /\ PlayWith(DrawCount, undo_stack[k].piles, undo_stack[k + 1].piles)
          /\ undo_stack[k + 1].move_count = undo_stack[k].move_count + 1
      BY <1>1, <3>1 DEF Linked, N
    <3>3. CASE k = N - 1
      <4>1. k + 1 = N
        BY <2>2, <3>3
      <4>2. QED
        BY <2>3, <2>4, <3>2, <3>3, <4>1
    <3>4. CASE k # N - 1
      <4>1. k + 1 \in 1 .. N - 1
        BY <2>2, <3>4
      <4>2. QED
        BY <2>4, <3>2, <3>4, <4>1
    <3>5. QED
      BY <3>3, <3>4
  <2>6. QED
    BY <1>2, <2>4, <2>5 DEF PastInv, Linked
<1>8. ASSUME ChangeSetting PROVE PastInv'
  BY <1>1, <1>2, <1>8 DEF ChangeSetting, PastInv, Linked
<1>9. ASSUME SaveAndLoad PROVE PastInv'
  <2>1. Len(undo_stack') = 0
    BY <1>9, EmptySeq DEF SaveAndLoad
  <2>2. QED
    BY <2>1 DEF PastInv, Linked
<1>10. ASSUME UNCHANGED vars PROVE PastInv'
  BY <1>1, <1>2, <1>10 DEF vars, PastInv, Linked
<1>11. QED
  BY <1>4, <1>5, <1>6, <1>7, <1>8, <1>9, <1>10 DEF Next

(* Undo gives back the game's own past: whatever was drawn, moved and undone *)
(* and however often push_snapshot overflowed, the snapshots and the live    *)
(* board are consecutive positions of one line of play.                     *)
THEOREM UndoCorrect == Spec => []UndoIsPast
<1>1. Init => PastInv
  <2> SUFFICES ASSUME Init PROVE PastInv
    OBVIOUS
  <2>1. Len(undo_stack) = 0
    BY EmptySeq DEF Init
  <2>2. QED
    BY <2>1 DEF PastInv, Linked
<1>2. PastInv => UndoIsPast
  <2> SUFFICES ASSUME PastInv, NEW k \in 1 .. Len(undo_stack)
               PROVE  LET last  == k = Len(undo_stack)
                          later == IF last THEN TakeSnapshot ELSE undo_stack[k + 1]
                      IN  /\ PlayStep(undo_stack[k].piles, later.piles)
                          /\ later.move_count = undo_stack[k].move_count + 1
    BY DEF UndoIsPast
  <2>1. \A p, q : PlayStep(p, q) <=> PlayWith(DrawCount, p, q)
    BY DEF PlayStep, PlayWith
  <2>2. TakeSnapshot.piles = piles /\ TakeSnapshot.move_count = move_count
    BY DEF TakeSnapshot
  <2>3. QED
    BY <2>1, <2>2 DEF PastInv, Linked
<1>3. QED
  BY <1>1, <1>2, NextPastInv, InductiveInvariant, PTL DEF Spec

---------------------------------------------------------------------------
(* No card is lost or doubled: a draw, a recycle and a move each carry     *)
(* some cards from the top of one pile onto another and leave the faces of *)
(* all others where they were.                                             *)

SameFace(c, d) == c.suit = d.suit /\ c.rank = d.rank

(* Each card of the deck lies at one place of the board and at no other.   *)
OnePlace(p) ==
  \A f \in Face :
    /\ \E t \in PileType : \E k \in 1 .. Len(p[t]) : SameFace(p[t][k], f)
    /\ \A t, u \in PileType : \A k \in 1 .. Len(p[t]), l \in 1 .. Len(p[u]) :
         SameFace(p[t][k], f) /\ SameFace(p[u][l], f) => t = u /\ k = l

LEMMA OnePlaceMeaning ==
  ASSUME NEW p, OnePlace(p), NEW f \in Face
  PROVE  Cardinality(Positions(p, f)) = 1
<1>1a. PICK t \in PileType : \E k \in 1 .. Len(p[t]) :
         SameFace(p[t][k], f)
  BY DEF OnePlace
<1>1. PICK k \in 1 .. Len(p[t]) : SameFace(p[t][k], f)
  BY <1>1a
<1>2. \A m : m \in Places(PileType, p) <=>
               \E u \in PileType : \E l \in 1 .. Len(p[u]) : m = <<u, l>>
  BY DEF Places
<1>3. Positions(p, f) = {<<t, k>>}
  <2>1. <<t, k>> \in Positions(p, f)
    BY <1>1, <1>2 DEF Positions, SameFace
  <2>2. ASSUME NEW m \in Positions(p, f)
        PROVE  m = <<t, k>>
    <3>1a. PICK u \in PileType : \E l \in 1 .. Len(p[u]) :
             m = <<u, l>>
      BY <1>2 DEF Positions
    <3>1. PICK l \in 1 .. Len(p[u]) : m = <<u, l>>
      BY <3>1a
    <3>2. SameFace(p[u][l], f)
      BY <3>1 DEF Positions, SameFace
    <3>3. QED
      BY <1>1, <3>1, <3>2 DEF OnePlace
  <2>3. QED
    BY <2>1, <2>2
<1>4. QED
  BY <1>3, FS_Singleton

(* The top n of L places, numbered from the lowest of them.                 *)
LEMMA TopPlaces ==
  ASSUME NEW L \in Nat, NEW n \in 0 .. L
  PROVE  /\ \A x \in 1 .. n : L - n + x \in 1 .. L /\ L - n + x \notin 1 .. L - n
         /\ \A x, y \in 1 .. n : L - n + x = L - n + y => x = y
         /\ \A k \in 1 .. L : k > L - n => /\ k - (L - n) \in 1 .. n
                                        /\ L - n + (k - (L - n)) = k
OBVIOUS

(* The top n cards of pile a go onto pile b, in any order; every other     *)
(* card keeps its place, whichever way it then faces.                      *)
LEMMA CarriedOver ==
  ASSUME NEW p \in Boards, NEW q \in Boards, OnePlace(p),
         NEW a \in PileType, NEW b \in PileType, a # b,
         NEW n \in 0 .. Len(p[a]), NEW pos \in [1 .. n -> 1 .. n],
         \A j \in 1 .. n : \E k \in 1 .. n : pos[k] = j,
         \A j, k \in 1 .. n : pos[j] = pos[k] => j = k,
         Len(q[a]) = Len(p[a]) - n,
         \A k \in 1 .. Len(p[a]) - n : SameFace(q[a][k], p[a][k]),
         Len(q[b]) = Len(p[b]) + n,
         \A k \in 1 .. Len(p[b]) : SameFace(q[b][k], p[b][k]),
         \A k \in 1 .. n :
           SameFace(q[b][Len(p[b]) + k], p[a][Len(p[a]) - n + pos[k]]),
         \A t \in PileType : t # a /\ t # b => q[t] = p[t]
  PROVE  OnePlace(q)
<1>1. /\ Len(p[a]) \in Nat /\ Len(p[b]) \in Nat /\ n \in Nat
      /\ \A t \in PileType : Len(q[t]) \in Nat
  BY LenProperties DEF Boards
<1> DEFINE La == Len(p[a])
           Lb == Len(p[b])
           Kept(t, k) == ~ (t = b /\ k > Lb)
           Where(t, k) == IF Kept(t, k) THEN <<t, k>> ELSE <<a, La - n + pos[k - Lb]>>
<1>2. ASSUME NEW t \in PileType, NEW k \in 1 .. Len(q[t]), ~ Kept(t, k)
      PROVE  t = b /\ k - Lb \in 1 .. n /\ Lb + (k - Lb) = k
  BY <1>1, <1>2
(* Every card of q was at a place of p.                                     *)
<1>3. ASSUME NEW t \in PileType, NEW k \in 1 .. Len(q[t])
      PROVE  \E u \in PileType : \E l \in 1 .. Len(p[u]) :
               Where(t, k) = <<u, l>> /\ SameFace(q[t][k], p[u][l])
  <2>1. CASE Kept(t, k)
    <3>1. k \in 1 .. Len(p[t])
      <4>1. CASE t = a
        <5>1. Len(q[t]) = La - n
          BY <4>1
        <5>2. QED
          BY <1>1, <4>1, <5>1
      <4>2. CASE t = b
        BY <1>1, <2>1, <4>2
      <4>3. CASE t # a /\ t # b
        <5>1. q[t] = p[t]
          BY <4>3
        <5>2. QED
          BY <5>1
      <4>4. QED
        BY <4>1, <4>2, <4>3
    <3>2. SameFace(q[t][k], p[t][k])
      <4>1. CASE t = a
        BY <1>1, <4>1
      <4>2. CASE t = b
        BY <3>1, <4>2
      <4>3. CASE t # a /\ t # b
        BY <4>3 DEF SameFace
      <4>4. QED
        BY <4>1, <4>2, <4>3
    <3>3. QED
      BY <2>1, <3>1, <3>2
  <2>2. CASE ~ Kept(t, k)
    <3>1. t = b /\ k - Lb \in 1 .. n /\ Lb + (k - Lb) = k
      BY <1>2, <2>2
    <3> DEFINE j == pos[k - Lb]
    <3>2. j \in 1 .. n
      BY <3>1
    <3> HIDE DEF j
    <3>6. La - n + j \in 1 .. Len(p[a])
      BY <1>1, <3>2, TopPlaces
    <3>3. La - n + pos[k - Lb] \in 1 .. Len(p[a])
      BY <3>6 DEF j
    <3>4. SameFace(q[t][k], p[a][La - n + pos[k - Lb]])
      BY <3>1
    <3>5. QED
      BY <2>2, <3>3, <3>4
  <2>3. QED
    BY <2>1, <2>2
(* Two cards of q were at two places.                                       *)
<1>4. ASSUME NEW t \in PileType, NEW k \in 1 .. Len(q[t]),
             NEW u \in PileType, NEW l \in 1 .. Len(q[u]), Where(t, k) = Where(u, l)
      PROVE  t = u /\ k = l
  <2>1. ASSUME NEW x \in PileType, NEW i \in 1 .. Len(q[x]), Kept(x, i),
               NEW y \in PileType, NEW j \in 1 .. Len(q[y]), ~ Kept(y, j),
               Where(x, i) = Where(y, j)
        PROVE  FALSE
    <3>1. j - Lb \in 1 .. n
      BY <1>2, <2>1
    <3> DEFINE h == pos[j - Lb]
    <3>2. h \in 1 .. n
      BY <3>1
    <3>3. x = a /\ i = La - n + h
      BY <2>1
    <3> HIDE DEF h
    <3>4. i \in 1 .. La - n
      <4>1. Len(q[x]) = La - n
        BY <3>3
      <4>2. QED
        BY <4>1
    <3>5. QED
      BY <1>1, <3>2, <3>3, <3>4, TopPlaces
  <2>2. CASE Kept(t, k) /\ Kept(u, l)
    BY <1>4, <2>2
  <2>3. CASE ~ Kept(t, k) /\ ~ Kept(u, l)
    <3>1. /\ t = b /\ k - Lb \in 1 .. n /\ Lb + (k - Lb) = k
          /\ u = b /\ l - Lb \in 1 .. n /\ Lb + (l - Lb) = l
      BY <1>2, <2>3
    <3> DEFINE g == pos[k - Lb]
               h == pos[l - Lb]
    <3>2. g \in 1 .. n /\ h \in 1 .. n
      BY <3>1
    <3>3. La - n + g = La - n + h
      BY <1>4, <2>3
    <3> HIDE DEF g, h
    <3>4. g = h
      BY <1>1, <3>2, <3>3, TopPlaces
    <3>5. k - Lb = l - Lb
      BY <3>1, <3>4 DEF g, h
    <3>6. QED
      BY <1>1, <3>1, <3>5
  <2>4. QED
    BY <1>4, <2>1, <2>2, <2>3
<1> HIDE DEF Where, Kept
<1>5. ASSUME NEW f \in Face
      PROVE  \E t \in PileType : \E k \in 1 .. Len(q[t]) : SameFace(q[t][k], f)
  <2>1a. PICK t \in PileType : \E k \in 1 .. Len(p[t]) :
           SameFace(p[t][k], f)
    BY DEF OnePlace
  <2>1. PICK k \in 1 .. Len(p[t]) : SameFace(p[t][k], f)
    BY <2>1a
  <2>2. CASE t # a /\ t # b
    BY <2>1, <2>2
  <2>3. CASE t = b
    <3>1. k \in 1 .. Len(q[b])
      BY <1>1, <2>3
    <3>2. SameFace(q[b][k], f)
      BY <2>1, <2>3 DEF SameFace
    <3>3. QED
      BY <3>1, <3>2
  <2>4. CASE t = a /\ k <= La - n
    <3>1. k \in 1 .. La - n /\ k \in 1 .. Len(q[a])
      BY <1>1, <2>4
    <3>2. SameFace(q[a][k], f)
      BY <2>1, <2>4, <3>1 DEF SameFace
    <3>3. QED
      BY <3>1, <3>2
  <2>5. CASE t = a /\ k > La - n
    <3>1. k - (La - n) \in 1 .. n
      BY <1>1, <2>5
    <3>2. PICK j \in 1 .. n : pos[j] = k - (La - n)
      BY <3>1
    <3>3. La - n + pos[j] = k
      <4>1. La \in Nat /\ n \in Nat /\ k \in 1 .. La
        BY <1>1, <2>5
      <4> HIDE DEF La
      <4>2. La - n + (k - (La - n)) = k
        BY <4>1
      <4>3. QED
        BY <3>2, <4>2
    <3>6. Lb + j \in 1 .. Len(q[b])
      <4>1. Len(q[b]) = Lb + n
        OBVIOUS
      <4>2. QED
        BY <1>1, <4>1
    <3>4. SameFace(q[b][Lb + j], f)
      BY <2>1, <2>5, <3>3 DEF SameFace
    <3>5. QED
      BY <3>4, <3>6
  <2>6. QED
    BY <1>1, <2>2, <2>3, <2>4, <2>5
<1>6. ASSUME NEW f \in Face
      PROVE  \A t, u \in PileType : \A k \in 1 .. Len(q[t]), l \in 1 .. Len(q[u]) :
               SameFace(q[t][k], f) /\ SameFace(q[u][l], f) => t = u /\ k = l
  <2>1. TAKE t, u \in PileType
  <2>2. TAKE k \in 1 .. Len(q[t]), l \in 1 .. Len(q[u])
  <2>3. HAVE SameFace(q[t][k], f) /\ SameFace(q[u][l], f)
  <2>4a. PICK v \in PileType : \E i \in 1 .. Len(p[v]) :
           Where(t, k) = <<v, i>> /\ SameFace(q[t][k], p[v][i])
    BY <1>3
  <2>4. PICK i \in 1 .. Len(p[v]) : Where(t, k) = <<v, i>> /\ SameFace(q[t][k], p[v][i])
    BY <2>4a
  <2>5a. PICK w \in PileType : \E j \in 1 .. Len(p[w]) :
           Where(u, l) = <<w, j>> /\ SameFace(q[u][l], p[w][j])
    BY <1>3
  <2>5. PICK j \in 1 .. Len(p[w]) : Where(u, l) = <<w, j>> /\ SameFace(q[u][l], p[w][j])
    BY <2>5a
  <2>6. SameFace(p[v][i], f) /\ SameFace(p[w][j], f)
    BY <2>3, <2>4, <2>5 DEF SameFace
  <2>7. v = w /\ i = j
    BY <2>6 DEF OnePlace
  <2>8. Where(t, k) = Where(u, l)
    BY <2>4, <2>5, <2>7
  <2>9. QED
    BY <1>4, <2>8
<1>7. QED
  BY <1>5, <1>6, Zenon DEF OnePlace

LEMMA DrawOnePlace ==
  ASSUME NEW p, GoodBoard(p), OnePlace(p), NEW n \in Nat
  PROVE  OnePlace(AfterDraw(p, n))
<1> DEFINE L == Len(p[Stock])
           m == IF L < n THEN L ELSE n
           top == TopCards(p[Stock], m)
           drawn == Facing(top, TRUE)
           q == AfterDraw(p, n)
           pos == [k \in 1 .. m |-> k]
<1>1. p \in Boards /\ q \in Boards
  BY DrawGood DEF GoodBoard
<1>2. /\ p[Stock] \in Seq(Card) /\ p[Waste] \in Seq(Card)
      /\ L \in Nat /\ Len(p[Waste]) \in Nat /\ m \in 0 .. L
  BY <1>1, LenProperties, PileKinds DEF Boards
<1>3. /\ q[Stock] = DropCards(p[Stock], m)
      /\ q[Waste] = p[Waste] \o drawn
      /\ \A t \in PileType : t # Stock /\ t # Waste => q[t] = p[t]
  BY <1>1, PileKinds DEF AfterDraw, Boards
<1> HIDE DEF m, q
<1>4. /\ Len(q[Stock]) = L - m
      /\ \A k \in 1 .. L - m : q[Stock][k] = p[Stock][k]
  BY <1>2, <1>3, DropCardsFacts
<1>5. /\ top \in Seq(Card) /\ Len(top) = m
      /\ \A k \in 1 .. m : top[k] = p[Stock][L - m + k]
  BY <1>2, TopCardsFacts
<1> HIDE DEF top, L
<1>6. /\ drawn \in Seq(Card) /\ Len(drawn) = m
      /\ \A k \in 1 .. m : SameFace(drawn[k], top[k])
  BY <1>5, FacingFacts DEF SameFace
<1> HIDE DEF drawn
<1>7. /\ Len(q[Waste]) = Len(p[Waste]) + m
      /\ \A k \in 1 .. Len(p[Waste]) + m :
           q[Waste][k] = IF k <= Len(p[Waste]) THEN p[Waste][k]
                                               ELSE drawn[k - Len(p[Waste])]
  <2>1. /\ Len(q[Waste]) = Len(p[Waste]) + Len(drawn)
        /\ \A k \in 1 .. Len(p[Waste]) + Len(drawn) :
             q[Waste][k] = IF k <= Len(p[Waste]) THEN p[Waste][k]
                                                 ELSE drawn[k - Len(p[Waste])]
    <3>1. drawn \in Seq(Card) /\ Len(drawn) \in Nat
      BY <1>6, LenProperties
    <3>2. p[Waste] \in Seq(Card) /\ q[Waste] = p[Waste] \o drawn
      BY <1>2, <1>3
    <3>3. QED
      BY <3>1, <3>2, ConcatProperties
  <2>2. QED
    BY <1>6, <2>1
<1>8. \A k \in 1 .. Len(p[Waste]) : q[Waste][k] = p[Waste][k]
  <2>1. \A k \in 1 .. Len(p[Waste]) :
          k \in 1 .. Len(p[Waste]) + m /\ k <= Len(p[Waste])
    BY <1>2
  <2>2. QED
    BY <1>7, <2>1
<1>9. \A k \in 1 .. m : q[Waste][Len(p[Waste]) + k] = drawn[k]
  <2>1. \A k \in 1 .. m : /\ Len(p[Waste]) + k \in 1 .. Len(p[Waste]) + m
                          /\ ~ (Len(p[Waste]) + k <= Len(p[Waste]))
                          /\ Len(p[Waste]) + k - Len(p[Waste]) = k
    BY <1>2
  <2>2. QED
    BY <1>7, <2>1
<1>10. /\ pos \in [1 .. m -> 1 .. m]
       /\ \A k \in 1 .. m : pos[k] = k
  OBVIOUS
<1> HIDE DEF pos
<1>11. \A k \in 1 .. m :
         SameFace(q[Waste][Len(p[Waste]) + k], p[Stock][L - m + pos[k]])
  BY <1>5, <1>6, <1>9, <1>10 DEF SameFace
<1>12. OnePlace(q)
  <2>1. Stock \in PileType /\ Waste \in PileType /\ Stock # Waste
    BY <1>1, PileKinds
  <2>2. m \in 0 .. Len(p[Stock]) /\ pos \in [1 .. m -> 1 .. m]
    BY <1>2, <1>4, <1>7, <1>8, <1>10, <1>11 DEF L
  <2>3. /\ \A j \in 1 .. m : \E k \in 1 .. m : pos[k] = j
        /\ \A j, k \in 1 .. m : pos[j] = pos[k] => j = k
    BY <1>2, <1>4, <1>7, <1>8, <1>10, <1>11
  <2>4. /\ Len(q[Stock]) = Len(p[Stock]) - m
        /\ \A k \in 1 .. Len(p[Stock]) - m : SameFace(q[Stock][k], p[Stock][k])
    BY <1>2, <1>4, <1>7, <1>8, <1>10, <1>11 DEF L, SameFace
  <2>5. /\ Len(q[Waste]) = Len(p[Waste]) + m
        /\ \A k \in 1 .. Len(p[Waste]) : SameFace(q[Waste][k], p[Waste][k])
    BY <1>2, <1>4, <1>7, <1>8, <1>10, <1>11 DEF SameFace
  <2>6. \A k \in 1 .. m :
          SameFace(q[Waste][Len(p[Waste]) + k], p[Stock][Len(p[Stock]) - m + pos[k]])
    BY <1>2, <1>4, <1>7, <1>8, <1>10, <1>11 DEF L
  <2>7. \A t \in PileType : t # Stock /\ t # Waste => q[t] = p[t]
    BY <1>3
  <2>8. QED
    BY <1>1, <2>1, <2>2, <2>3, <2>4, <2>5, <2>6, <2>7, CarriedOver
<1>13. QED
  BY <1>12 DEF q

(* The cards go back to the stock from the last to the first.              *)
LEMMA ReverseElements ==
  ASSUME NEW S, NEW s \in Seq(S)
  PROVE  \A k \in 1 .. Len(s) : Reverse(s)[k] = s[Len(s) - k + 1]
<1>1. Len(s) \in Nat
  BY LenProperties
<1>2. QED
  BY <1>1 DEF Reverse

LEMMA RecycleOnePlace ==
  ASSUME NEW p, GoodBoard(p), OnePlace(p), p[Stock] = << >>
  PROVE  OnePlace(AfterRecycle(p))
<1> DEFINE n == Len(p[Waste])
           turned == Reverse(p[Waste])
           back == Facing(turned, FALSE)
           q == AfterRecycle(p)
           pos == [k \in 1 .. n |-> n - k + 1]
<1>1. p \in Boards /\ q \in Boards
  BY RecycleGood DEF GoodBoard
<1>2. /\ p[Stock] \in Seq(Card) /\ p[Waste] \in Seq(Card)
      /\ n \in Nat /\ Len(p[Stock]) \in Nat
  BY <1>1, LenProperties, PileKinds DEF Boards
<1>3. /\ q[Stock] = p[Stock] \o back
      /\ q[Waste] = << >>
      /\ \A t \in PileType : t # Stock /\ t # Waste => q[t] = p[t]
  BY <1>1, PileKinds DEF AfterRecycle, Boards
<1> HIDE DEF q
<1>4. /\ turned \in Seq(Card) /\ Len(turned) = n
      /\ \A k \in 1 .. n : turned[k] = p[Waste][n - k + 1]
  BY <1>2, ReverseFacts, ReverseElements
<1> HIDE DEF turned, n
<1>5. /\ back \in Seq(Card) /\ Len(back) = n
      /\ \A k \in 1 .. n : SameFace(back[k], turned[k])
  BY <1>4, FacingFacts DEF SameFace
<1> HIDE DEF back
<1>6. /\ Len(q[Stock]) = Len(p[Stock]) + n
      /\ \A k \in 1 .. Len(p[Stock]) + n :
           q[Stock][k] = IF k <= Len(p[Stock]) THEN p[Stock][k]
                                               ELSE back[k - Len(p[Stock])]
  BY <1>2, <1>3, <1>5, ConcatProperties
<1>7. \A k \in 1 .. Len(p[Stock]) : q[Stock][k] = p[Stock][k]
  BY <1>2, <1>6
<1>8. \A k \in 1 .. n : q[Stock][Len(p[Stock]) + k] = back[k]
  <2>1. \A k \in 1 .. n : /\ Len(p[Stock]) + k \in 1 .. Len(p[Stock]) + n
                          /\ ~ (Len(p[Stock]) + k <= Len(p[Stock]))
                          /\ Len(p[Stock]) + k - Len(p[Stock]) = k
    BY <1>2
  <2>2. QED
    BY <1>6, <2>1
<1>9. \A k \in 1 .. n : /\ n - k + 1 \in 1 .. n
                        /\ n - n + (n - k + 1) = n - k + 1
                        /\ n - (n - k + 1) + 1 = k
  BY <1>2
<1>10. /\ pos \in [1 .. n -> 1 .. n]
       /\ \A k \in 1 .. n : pos[k] = n - k + 1
  BY <1>9
<1> HIDE DEF pos
<1>11. \A j \in 1 .. n : \E k \in 1 .. n : pos[k] = j
  BY <1>9, <1>10
<1>12. \A j, k \in 1 .. n : pos[j] = pos[k] => j = k
  BY <1>9, <1>10
<1>13. \A k \in 1 .. n :
         SameFace(q[Stock][Len(p[Stock]) + k], p[Waste][n - n + pos[k]])
  BY <1>4, <1>5, <1>8, <1>9, <1>10 DEF SameFace
<1>14. Len(q[Waste]) = n - n /\ n \in 0 .. n /\ \A k : k \notin 1 .. n - n
  BY <1>2, <1>3, EmptySeq
<1>15. OnePlace(q)
  <2>1. Waste \in PileType /\ Stock \in PileType /\ Waste # Stock
    BY <1>1, PileKinds
  <2>2. n \in 0 .. Len(p[Waste]) /\ pos \in [1 .. n -> 1 .. n]
    BY <1>6, <1>7, <1>10, <1>11, <1>12, <1>13, <1>14 DEF n
  <2>3. /\ \A j \in 1 .. n : \E k \in 1 .. n : pos[k] = j
        /\ \A j, k \in 1 .. n : pos[j] = pos[k] => j = k
    BY <1>6, <1>7, <1>10, <1>11, <1>12, <1>13, <1>14
  <2>4. /\ Len(q[Waste]) = Len(p[Waste]) - n
        /\ \A k \in 1 .. Len(p[Waste]) - n : SameFace(q[Waste][k], p[Waste][k])
    BY <1>6, <1>7, <1>10, <1>11, <1>12, <1>13, <1>14 DEF n, SameFace
  <2>5. /\ Len(q[Stock]) = Len(p[Stock]) + n
        /\ \A k \in 1 .. Len(p[Stock]) : SameFace(q[Stock][k], p[Stock][k])
    BY <1>6, <1>7, <1>10, <1>11, <1>12, <1>13, <1>14 DEF SameFace
  <2>6. \A k \in 1 .. n :
          SameFace(q[Stock][Len(p[Stock]) + k], p[Waste][Len(p[Waste]) - n + pos[k]])
    BY <1>6, <1>7, <1>10, <1>11, <1>12, <1>13, <1>14 DEF n
  <2>7. \A t \in PileType : t # Waste /\ t # Stock => q[t] = p[t]
    BY <1>3
  <2>8. QED
    BY <1>1, <2>1, <2>2, <2>3, <2>4, <2>5, <2>6, <2>7, CarriedOver
<1>16. QED
  BY <1>15 DEF q

LEMMA MoveOnePlace ==
  ASSUME NEW p, GoodBoard(p), OnePlace(p), NEW tff \in BOOLEAN,
         NEW from \in PileType, NEW to \in PileType,
         NEW count \in 1 .. Len(p[from]),
         MoveAllowed(p, tff, from, to, count)
  PROVE  OnePlace(AfterMove(p, from, to, count))
<1> DEFINE L == Len(p[from])
           moved == TopCards(p[from], count)
           left == DropCards(p[from], count)
           q == AfterMove(p, from, to, count)
           pos == [k \in 1 .. count |-> k]
<1>1. p \in Boards /\ q \in Boards /\ from # to
  BY MoveGood DEF GoodBoard, MoveAllowed
<1>2. /\ p[from] \in Seq(Card) /\ p[to] \in Seq(Card)
      /\ L \in Nat /\ Len(p[to]) \in Nat /\ count \in 0 .. L
  BY <1>1, LenProperties DEF Boards
<1>3. /\ q[from] = FlipTop(left)
      /\ q[to] = p[to] \o moved
      /\ \A t \in PileType : t # from /\ t # to => q[t] = p[t]
  BY <1>1 DEF AfterMove, Boards
<1> HIDE DEF q
<1>4. /\ left \in Seq(Card) /\ Len(left) = L - count
      /\ \A k \in 1 .. L - count : left[k] = p[from][k]
  BY <1>2, DropCardsFacts
<1>5. /\ moved \in Seq(Card) /\ Len(moved) = count
      /\ \A k \in 1 .. count : moved[k] = p[from][L - count + k]
  BY <1>2, TopCardsFacts
<1> HIDE DEF left, moved, L
<1>6. /\ Len(q[from]) = L - count
      /\ \A k \in 1 .. L - count : SameFace(q[from][k], p[from][k])
  BY <1>3, <1>4, FlipTopFacts DEF SameFace
<1>7. /\ Len(q[to]) = Len(p[to]) + count
      /\ \A k \in 1 .. Len(p[to]) + count :
           q[to][k] = IF k <= Len(p[to]) THEN p[to][k] ELSE moved[k - Len(p[to])]
  BY <1>2, <1>3, <1>5, ConcatProperties
<1>8. \A k \in 1 .. Len(p[to]) : q[to][k] = p[to][k]
  BY <1>2, <1>7
<1>9. \A k \in 1 .. count : q[to][Len(p[to]) + k] = moved[k]
  <2>1. \A k \in 1 .. count : /\ Len(p[to]) + k \in 1 .. Len(p[to]) + count
                              /\ ~ (Len(p[to]) + k <= Len(p[to]))
                              /\ Len(p[to]) + k - Len(p[to]) = k
    BY <1>2
  <2>2. QED
    BY <1>7, <2>1
<1>10. /\ pos \in [1 .. count -> 1 .. count]
       /\ \A k \in 1 .. count : pos[k] = k
  OBVIOUS
<1> HIDE DEF pos
<1>11. \A k \in 1 .. count :
         SameFace(q[to][Len(p[to]) + k], p[from][L - count + pos[k]])
  BY <1>5, <1>9, <1>10 DEF SameFace
<1>12. OnePlace(q)
  <2>1. from \in PileType /\ to \in PileType /\ from # to
    BY <1>1, PileKinds
  <2>2. count \in 0 .. Len(p[from]) /\ pos \in [1 .. count -> 1 .. count]
    BY <1>2, <1>6, <1>7, <1>8, <1>10, <1>11 DEF L
  <2>3. /\ \A j \in 1 .. count : \E k \in 1 .. count : pos[k] = j
        /\ \A j, k \in 1 .. count : pos[j] = pos[k] => j = k
    BY <1>2, <1>6, <1>7, <1>8, <1>10, <1>11
  <2>4. /\ Len(q[from]) = Len(p[from]) - count
        /\ \A k \in 1 .. Len(p[from]) - count : SameFace(q[from][k], p[from][k])
    BY <1>2, <1>6, <1>7, <1>8, <1>10, <1>11 DEF L, SameFace
  <2>5. /\ Len(q[to]) = Len(p[to]) + count
        /\ \A k \in 1 .. Len(p[to]) : SameFace(q[to][k], p[to][k])
    BY <1>2, <1>6, <1>7, <1>8, <1>10, <1>11 DEF SameFace
  <2>6. \A k \in 1 .. count :
          SameFace(q[to][Len(p[to]) + k], p[from][Len(p[from]) - count + pos[k]])
    BY <1>2, <1>6, <1>7, <1>8, <1>10, <1>11 DEF L
  <2>7. \A t \in PileType : t # from /\ t # to => q[t] = p[t]
    BY <1>3
  <2>8. QED
    BY <1>1, <2>1, <2>2, <2>3, <2>4, <2>5, <2>6, <2>7, CarriedOver
<1>13. QED
  BY <1>12 DEF q

---------------------------------------------------------------------------
(* The deal.                                                               *)

(* Columns take consecutive stretches of the deck: every dealt card belongs *)
(* to one column.                                                          *)
LEMMA DealtStretches ==
  /\ \A i \in Columns : /\ DealtBefore(i) \in Nat /\ DealtBefore(NumColumns) \in Nat
                        /\ DealtBefore(i) + i + 1 <= DealtBefore(NumColumns)
  /\ \A i, j \in Columns : i < j => DealtBefore(i) + i + 1 <= DealtBefore(j)
  /\ DealtBefore(NumColumns) \in Nat
  /\ \A x \in 1 .. DealtBefore(NumColumns) :
       \E i \in Columns : x - DealtBefore(i) \in 1 .. i + 1
<1>1. NumColumns \in Nat \ {0} /\ \A i \in Columns : i \in 0 .. NumColumns - 1
  BY PilesAssumption DEF Columns
<1>2. \A i \in Columns : /\ DealtBefore(i) \in Nat
                         /\ DealtBefore(NumColumns) \in Nat
                         /\ DealtBefore(i) + i + 1 <= DealtBefore(NumColumns)
  BY <1>1, DealtBeforeFacts
<1>3. ASSUME NEW i \in Columns, NEW j \in Columns, i < j
      PROVE  DealtBefore(i) + i + 1 <= DealtBefore(j)
  <2>1. j \in Nat /\ i \in 0 .. j - 1
    BY <1>1, <1>3
  <2>2. QED
    BY <2>1, DealtBeforeFacts
<1>4. DealtBefore(NumColumns) \in Nat
  BY <1>1, DealtBeforeFacts, 0 \in 0 .. NumColumns - 1
<1>5. ASSUME NEW x \in 1 .. DealtBefore(NumColumns)
      PROVE  \E i \in Columns : x - DealtBefore(i) \in 1 .. i + 1
  <2> DEFINE Ends == {j \in 0 .. NumColumns : x <= DealtBefore(j)}
  <2>1. Ends \in SUBSET Nat /\ NumColumns \in Ends
    BY <1>1, <1>4
  <2>2. PICK j \in Ends : \A h \in Ends : j <= h
    BY <2>1, LeastNatural
  <2>3. j # 0
    <3>1. DealtBefore(0) = 0
      BY DEF DealtBefore
    <3>2. QED
      BY <1>4, <3>1
  <2>4. j \in 1 .. NumColumns /\ j - 1 \in 0 .. NumColumns - 1 /\ j - 1 \in Nat
    BY <1>1, <2>3
  <2>5. DealtBefore(j) = DealtBefore(j - 1) + (j - 1) + 1
    <3>1. j * (j + 1) = (j - 1) * (j - 1 + 1) + 2 * j
      BY <2>4
    <3>2. (j - 1) * (j - 1 + 1) \in Nat
      BY <2>4
    <3> DEFINE c == (j - 1) * (j - 1 + 1)
               b == j * (j + 1)
    <3>3. b = c + 2 * j /\ c \in Nat
      BY <3>1, <3>2
    <3> HIDE DEF b, c
    <3>4. b \div 2 = (c \div 2) + j
      BY <2>4, <3>3
    <3>5. QED
      BY <1>1, <2>4, <3>4 DEF DealtBefore, b, c
  <2>6. ~ (x <= DealtBefore(j - 1))
    BY <1>1, <2>2, <2>4
  <2>7. j - 1 \in Columns
    BY <2>4 DEF Columns
  <2>8. DealtBefore(j - 1) \in Nat
    BY <1>2, <2>7
  <2>9. x <= DealtBefore(j)
    OBVIOUS
  <2> DEFINE i == j - 1
             D == DealtBefore(i)
  <2>10. D \in Nat /\ i \in Nat /\ ~ (x <= D) /\ x <= D + i + 1 /\ x \in Nat
    BY <1>4, <2>4, <2>5, <2>6, <2>8, <2>9
  <2> HIDE DEF i, D
  <2>11. x - D \in 1 .. i + 1
    BY <2>10
  <2>12. QED
    BY <2>7, <2>11 DEF i, D
<1>6. QED
  BY <1>2, <1>3, <1>4, <1>5

LEMMA DealOnePlace ==
  ASSUME NEW deck, IsDeck(deck), Len(deck) >= DealtBefore(NumColumns)
  PROVE  OnePlace(DealKlondike(deck))
<1> DEFINE q == DealKlondike(deck)
           rest == DealtBefore(NumColumns)
           start(t) == IF t = Stock THEN rest ELSE DealtBefore(t[2])
<1>1. /\ deck \in Seq(Face) /\ Len(deck) \in Nat
      /\ Len(deck) >= rest /\ rest \in Nat
      /\ \A f \in Face : \E x \in 1 .. Len(deck) : deck[x] = f
      /\ \A x, y \in 1 .. Len(deck) : deck[x] = deck[y] => x = y
  BY LenProperties, DealtStretches DEF IsDeck
(* What lies in the stock, in a column, elsewhere.                          *)
<1>2. /\ Len(q[Stock]) = Len(deck) - rest
      /\ \A k \in 1 .. Len(deck) - rest : SameFace(q[Stock][k], deck[rest + k])
  <2>1. q[Stock] = [k \in 1 .. Len(deck) - rest |-> Turned(deck[rest + k], FALSE)]
    BY PileKinds DEF DealKlondike
  <2> HIDE DEF rest, q
  <2>2. Len(deck) - rest \in Nat
    BY <1>1
  <2>3. QED
    BY <2>1, <2>2 DEF Turned, SameFace
<1>3. ASSUME NEW i \in Columns
      PROVE  /\ Len(q[Tableau(i)]) = i + 1
             /\ \A k \in 1 .. i + 1 :
                  SameFace(q[Tableau(i)][k], deck[DealtBefore(i) + k])
  <2>1. q[Tableau(i)] = [k \in 1 .. i + 1 |->
                           Turned(deck[DealtBefore(i) + k], k = i + 1)]
    <3>1. /\ Tableau(i) \in PileType /\ Tableau(i) # Stock
          /\ Tableau(i) \in Tableaus /\ Tableau(i)[2] = i
      BY PileKinds DEF Tableau
    <3>2. QED
      BY <3>1 DEF DealKlondike
  <2> HIDE DEF q
  <2>2. i + 1 \in Nat
    BY PilesAssumption DEF Columns
  <2>3. QED
    BY <2>1, <2>2 DEF Turned, SameFace
<1>4. \A t \in PileType : t # Stock /\ t \notin Tableaus => Len(q[t]) = 0
  <2>1. \A t \in PileType : t # Stock /\ t \notin Tableaus => q[t] = << >>
    BY DEF DealKlondike
  <2> HIDE DEF q
  <2>2. QED
    BY <2>1
<1> HIDE DEF q, rest
(* A pile that holds a card is the stock or a column.                       *)
<1>5. ASSUME NEW t \in PileType, NEW k \in 1 .. Len(q[t])
      PROVE  /\ t = Stock \/ (t[2] \in Columns /\ t = Tableau(t[2]))
             /\ start(t) + k \in 1 .. Len(deck)
             /\ SameFace(q[t][k], deck[start(t) + k])
             /\ t # Stock => /\ t[2] \in Columns /\ t = Tableau(t[2])
                            /\ k \in 1 .. t[2] + 1
  <2>1. CASE t = Stock
    <3>1. k \in 1 .. Len(deck) - rest
      BY <1>2, <2>1
    <3>2. rest + k \in 1 .. Len(deck)
      BY <1>1, <3>1
    <3>3. QED
      BY <1>2, <2>1, <3>1, <3>2
  <2>2. CASE t # Stock
    <3>1. t \in Tableaus
      BY <1>4, <2>2
    <3>2. t[2] \in Columns /\ t = Tableau(t[2])
      BY <3>1, PileKinds
    <3> DEFINE i == t[2]
               D == DealtBefore(i)
    <3>3. i \in Columns /\ t = Tableau(i)
      BY <3>2
    <3>9. start(t) = D
      BY <2>2
    <3> HIDE DEF i, D
    <3>4. Len(q[t]) = i + 1 /\ k \in 1 .. i + 1
      BY <1>3, <3>3
    <3>5. i \in Nat /\ D \in Nat /\ D + i + 1 <= rest
      BY <3>3, DealtStretches, PilesAssumption DEF D, rest, Columns
    <3>6. D + k \in 1 .. Len(deck)
      BY <1>1, <3>4, <3>5
    <3>7. SameFace(q[t][k], deck[D + k])
      BY <1>3, <3>3, <3>4 DEF D
    <3> HIDE DEF start
    <3>8. QED
      BY <2>2, <3>2, <3>4, <3>6, <3>7, <3>9 DEF i
  <2>3. QED
    BY <2>1, <2>2
(* Two places of the board come from two places of the deck.                *)
<1>6. ASSUME NEW t \in PileType, NEW u \in PileType,
             NEW k \in 1 .. Len(q[t]), NEW l \in 1 .. Len(q[u]),
             start(t) + k = start(u) + l
      PROVE  t = u /\ k = l
  <2>1. ASSUME NEW i \in Columns, NEW x \in 1 .. i + 1
        PROVE  /\ DealtBefore(i) \in Nat /\ i \in Nat
               /\ DealtBefore(i) + x <= rest
    <3> DEFINE D == DealtBefore(i)
    <3>1. D \in Nat /\ i \in Nat /\ D + i + 1 <= rest
      BY DealtStretches, PilesAssumption DEF rest, Columns
    <3> HIDE DEF D
    <3>2. D + x <= rest
      BY <1>1, <3>1
    <3>3. QED
      BY <3>1, <3>2 DEF D
  <2>2. CASE t = Stock /\ u = Stock
    <3>1. rest + k = rest + l
      BY <1>6, <2>2
    <3>2. QED
      BY <1>1, <2>2, <3>1
  <2>3. ASSUME NEW i \in Columns, NEW x \in 1 .. i + 1, NEW y \in Nat, y >= 1,
               DealtBefore(i) + x = rest + y
        PROVE  FALSE
    <3> DEFINE D == DealtBefore(i)
    <3>1. D \in Nat /\ i \in Nat /\ D + x <= rest /\ D + x = rest + y
      BY <2>1, <2>3
    <3> HIDE DEF D
    <3>2. QED
      BY <1>1, <2>3, <3>1
  <2>4. ASSUME NEW i \in Columns, NEW x \in 1 .. i + 1,
               NEW j \in Columns, NEW y \in 1 .. j + 1,
               DealtBefore(i) + x = DealtBefore(j) + y
        PROVE  i = j /\ x = y
    <3> DEFINE D == DealtBefore(i)
               E == DealtBefore(j)
    <3>1. /\ D \in Nat /\ i \in Nat /\ E \in Nat /\ j \in Nat /\ D + x = E + y
          /\ i < j => D + i + 1 <= E
          /\ j < i => E + j + 1 <= D
          /\ i = j => D = E
      BY <2>1, <2>4, DealtStretches
    <3> HIDE DEF D, E
    <3>2. QED
      BY <3>1
  <2>5. CASE t = Stock /\ u # Stock
    <3>1. u[2] \in Columns /\ l \in 1 .. u[2] + 1
      BY <1>5, <2>5
    <3>2. DealtBefore(u[2]) + l = rest + k
      BY <1>6, <2>5
    <3>3. k \in Nat /\ k >= 1
      OBVIOUS
    <3>4. QED
      BY <2>3, <3>1, <3>2, <3>3
  <2>6. CASE t # Stock /\ u = Stock
    <3>1. t[2] \in Columns /\ k \in 1 .. t[2] + 1
      BY <1>5, <2>6
    <3>2. DealtBefore(t[2]) + k = rest + l
      BY <1>6, <2>6
    <3>3. l \in Nat /\ l >= 1
      OBVIOUS
    <3>4. QED
      BY <2>3, <3>1, <3>2, <3>3
  <2>7. CASE t # Stock /\ u # Stock
    <3>1. /\ t[2] \in Columns /\ k \in 1 .. t[2] + 1 /\ t = Tableau(t[2])
          /\ u[2] \in Columns /\ l \in 1 .. u[2] + 1 /\ u = Tableau(u[2])
      BY <1>5, <2>7
    <3>2. DealtBefore(t[2]) + k = DealtBefore(u[2]) + l
      BY <1>6, <2>7
    <3>3. t[2] = u[2] /\ k = l
      BY <2>4, <3>1, <3>2
    <3>4. QED
      BY <3>1, <3>3
  <2>8. QED
    BY <2>2, <2>5, <2>6, <2>7
(* Every card of the deck is dealt somewhere.                               *)
<1>7. ASSUME NEW f \in Face
      PROVE  \E t \in PileType : \E k \in 1 .. Len(q[t]) : SameFace(q[t][k], f)
  <2>1. PICK x \in 1 .. Len(deck) : deck[x] = f
    BY <1>1
  <2>2. CASE x <= rest
    <3>1. x \in 1 .. DealtBefore(NumColumns)
      BY <1>1, <2>2 DEF rest
    <3>2. PICK i \in Columns : x - DealtBefore(i) \in 1 .. i + 1
      BY <3>1, DealtStretches
    <3> DEFINE D == DealtBefore(i)
    <3>3. D \in Nat /\ x - D \in 1 .. i + 1
      BY <3>2, DealtStretches
    <3> HIDE DEF D
    <3>4. D + (x - D) = x
      BY <3>3
    <3>5. SameFace(q[Tableau(i)][x - D], f) /\ x - D \in 1 .. Len(q[Tableau(i)])
      BY <1>3, <2>1, <3>3, <3>4 DEF D
    <3>6. Tableau(i) \in PileType
      BY PileKinds
    <3>7. QED
      BY <3>5, <3>6
  <2>3. CASE ~ (x <= rest)
    <3>1. x - rest \in 1 .. Len(deck) - rest /\ rest + (x - rest) = x
      BY <1>1, <2>3
    <3>2. SameFace(q[Stock][x - rest], f) /\ x - rest \in 1 .. Len(q[Stock])
      BY <1>2, <2>1, <3>1
    <3>3. QED
      BY <3>2, PileKinds
  <2>4. QED
    BY <2>2, <2>3
<1>8. ASSUME NEW f \in Face, NEW t \in PileType, NEW u \in PileType,
             NEW k \in 1 .. Len(q[t]), NEW l \in 1 .. Len(q[u]),
             SameFace(q[t][k], f), SameFace(q[u][l], f)
      PROVE  t = u /\ k = l
  <2> DEFINE x == start(t) + k
             y == start(u) + l
  <2>1. /\ x \in 1 .. Len(deck) /\ SameFace(q[t][k], deck[x])
        /\ y \in 1 .. Len(deck) /\ SameFace(q[u][l], deck[y])
    BY <1>5
  <2>5. start(t) + k = x /\ start(u) + l = y
    OBVIOUS
  <2> HIDE DEF x, y, start
  <2>2. deck[x] \in Face /\ deck[y] \in Face
    BY <1>1, <2>1, ElementOfSeq
  <2>3. deck[x] = deck[y]
    BY <1>8, <2>1, <2>2 DEF SameFace, Face
  <2>4. x = y
    BY <1>1, <2>1, <2>3
  <2>6. QED
    BY <1>6, <2>4, <2>5
<1>9. OnePlace(q)
  BY <1>7, <1>8 DEF OnePlace
<1>10. QED
  BY <1>9 DEF q

---------------------------------------------------------------------------
(* The invariant.                                                          *)

CInv == \A p \in HeldBoards : OnePlace(p)

LEMMA InitCInv == Init => CInv
<1> SUFFICES ASSUME Init PROVE CInv
  OBVIOUS
<1>1. PICK deck \in Decks : piles = DealKlondike(deck)
  BY DEF Init
<1>2. OnePlace(piles)
  BY <1>1, DealOnePlace, DecksAssumption
<1>3. Len(undo_stack) = 0
  BY EmptySeq DEF Init
<1>4. HeldBoards = {piles}
  BY <1>3 DEF HeldBoards
<1>5. QED
  BY <1>2, <1>4 DEF CInv

LEMMA NextCInv == IInv /\ CInv /\ [Next]_vars => CInv'
<1> SUFFICES ASSUME IInv, CInv, [Next]_vars PROVE CInv'
  OBVIOUS
<1>1. /\ TypeOK /\ GoodBoard(piles) /\ OnePlace(piles)
      /\ \A p \in HeldBoards : OnePlace(p)
      /\ undo_stack \in Seq(Snapshot) /\ Len(undo_stack) \in Nat
      /\ \A k \in 1 .. Len(undo_stack) : undo_stack[k].piles \in HeldBoards
  BY LenProperties DEF IInv, CInv, TypeOK, HeldBoards
(* Play pushes boards already held.                                         *)
<1>2. ASSUME OnePlace(piles'), undo_stack' = PushSnapshot
      PROVE  CInv'
  <2>1. \A k \in 1 .. Len(undo_stack') : undo_stack'[k].piles \in HeldBoards
    BY <1>1, <1>2, PushFacts
  <2>2. \A p \in HeldBoards' : p = piles' \/ p \in HeldBoards
    BY <2>1 DEF HeldBoards
  <2>3. QED
    BY <1>1, <1>2, <2>2 DEF CInv
<1>3. ASSUME Draw PROVE CInv'
  <2>1. DrawCount \in Nat
    BY DEF DrawCount
  <2>2. OnePlace(piles') /\ undo_stack' = PushSnapshot
    BY <1>1, <1>3, <2>1, DrawOnePlace DEF Draw
  <2>3. QED
    BY <1>2, <2>2
<1>4. ASSUME Recycle PROVE CInv'
  <2>1. OnePlace(piles') /\ undo_stack' = PushSnapshot
    BY <1>1, <1>4, RecycleOnePlace DEF Recycle
  <2>2. QED
    BY <1>2, <2>1
<1>5. ASSUME NEW from \in PileType, NEW to \in PileType,
             NEW count \in 1 .. Len(piles[from]), MoveCards(from, to, count)
      PROVE  CInv'
  <2>1. take_from_foundation \in BOOLEAN
    BY <1>1 DEF TypeOK
  <2>2. /\ MoveAllowed(piles, take_from_foundation, from, to, count)
        /\ piles' = AfterMove(piles, from, to, count)
        /\ undo_stack' = PushSnapshot
    BY <1>5 DEF MoveCards
  <2>3. OnePlace(piles')
    BY <1>1, <2>1, <2>2, MoveOnePlace
  <2>4. QED
    BY <1>2, <2>2, <2>3
<1>6. ASSUME Undo PROVE CInv'
  <2>1. /\ undo_stack # << >> /\ undo_stack' = Front(undo_stack)
        /\ piles' = Last(undo_stack).piles
    BY <1>6 DEF Undo
  <2>2. Len(undo_stack) \in 1 .. Len(undo_stack)
    BY <1>1, <2>1, EmptySeq
  <2>3. piles' \in HeldBoards
    BY <1>1, <2>1, <2>2 DEF Last
  <2>4. /\ Len(undo_stack') = Len(undo_stack) - 1
        /\ \A k \in 1 .. Len(undo_stack) - 1 : undo_stack'[k] = undo_stack[k]
    <3>1. undo_stack' = DropCards(undo_stack, 1)
      BY <2>1 DEF Front, DropCards
    <3>2. QED
      BY <1>1, <2>2, <3>1, DropCardsFacts
  <2>5. \A p \in HeldBoards' : p \in HeldBoards
    BY <1>1, <2>3, <2>4 DEF HeldBoards
  <2>6. QED
    BY <1>1, <2>5 DEF CInv
<1>7. ASSUME ChangeSetting PROVE CInv'
  BY <1>1, <1>7 DEF ChangeSetting, CInv, HeldBoards
<1>8. ASSUME SaveAndLoad PROVE CInv'
  <2>1. Len(undo_stack') = 0 /\ piles' = piles
    BY <1>8, EmptySeq DEF SaveAndLoad
  <2>2. HeldBoards' = {piles}
    BY <2>1 DEF HeldBoards
  <2>3. QED
    BY <1>1, <2>2 DEF CInv
<1>9. ASSUME UNCHANGED vars PROVE CInv'
  BY <1>1, <1>9 DEF vars, CInv, HeldBoards
<1>10. QED
  BY <1>3, <1>4, <1>5, <1>6, <1>7, <1>8, <1>9 DEF Next

(* On every board held, each card of the deck lies at exactly one place,   *)
(* whatever was drawn, recycled, moved and undone (move_cards, draw, undo). *)
THEOREM CardsConservedCorrect == Spec => []CardsConserved
<1>1. CInv => CardsConserved
  BY OnePlaceMeaning DEF CInv, CardsConserved
<1>2. QED
  BY <1>1, InitCInv, NextCInv, InductiveInvariant, PTL DEF Spec

---------------------------------------------------------------------------
(* No play farms points: each board has a worth, which no operation lowers *)
(* and a move raises by at least what it scores.                           *)

(* The set of places of finitely many piles is finite.                     *)
LEMMA PlacesFinite ==
  ASSUME NEW p \in Boards, NEW S \in SUBSET PileType, IsFiniteSet(S)
  PROVE  IsFiniteSet(Places(S, p))
<1> DEFINE stretch == [t \in S |-> {t} \X (1 .. Len(p[t]))]
           T == {{t} \X (1 .. Len(p[t])) : t \in S}
<1>1. stretch \in Surjection(S, T)
  BY DEF Surjection
<1>2. IsFiniteSet(T)
  BY <1>1, FS_Surjection
<1>3. ASSUME NEW t \in S
      PROVE  IsFiniteSet({t} \X (1 .. Len(p[t])))
  <2>1. Len(p[t]) \in Nat
    BY LenProperties DEF Boards
  <2>2. IsFiniteSet({t})
    BY FS_Singleton
  <2>3. IsFiniteSet(1 .. Len(p[t]))
    BY <2>1, FS_Interval
  <2>4. QED
    BY <2>2, <2>3, FS_Product
<1>4. \A s \in T : IsFiniteSet(s)
  BY <1>3
<1> HIDE DEF T
<1>5. IsFiniteSet(UNION T)
  BY <1>2, <1>4, FS_UNION
<1>6. QED
  BY <1>5 DEF Places, T

LEMMA PilesFinite == IsFiniteSet(Foundations) /\ IsFiniteSet(Tableaus)
<1>1. IsFiniteSet(Slots) /\ IsFiniteSet(Columns)
  BY PilesAssumption, FS_Interval DEF Slots, Columns
<1>2. [i \in Slots |-> Foundation(i)] \in Surjection(Slots, Foundations)
  BY DEF Surjection, Foundations
<1>3. [i \in Columns |-> Tableau(i)] \in Surjection(Columns, Tableaus)
  BY DEF Surjection, Tableaus
<1>4. QED
  BY <1>1, <1>2, <1>3, FS_Surjection

LEMMA FaceFinite == IsFiniteSet(Face) /\ Cardinality(Face) \in Nat
<1>1. IsFiniteSet(Suits) /\ IsFiniteSet(Ranks)
  BY SuitsAssumption, RanksAssumption, FS_Interval DEF Ranks, Ace
<1>2. IsFiniteSet(Suits \X Ranks)
  BY <1>1, FS_Product
<1>3. [f \in Face |-> <<f.suit, f.rank>>] \in Injection(Face, Suits \X Ranks)
  BY DEF Injection, IsInjective, Face
<1>4. QED
  BY <1>2, <1>3, FS_Injection, FS_CardinalityType

(* The top count cards of one pile, all up, went onto another; the card     *)
(* under them was turned up, every other card lies as it lay.              *)
TopWent(p, q, from, to, count) ==
  /\ from # to /\ p \in Boards /\ q \in Boards
  /\ \A k \in Len(p[from]) - count + 1 .. Len(p[from]) : p[from][k].up
  /\ Len(q[from]) = Len(p[from]) - count
  /\ \A k \in 1 .. Len(p[from]) - count :
       q[from][k].up = (p[from][k].up \/ k = Len(p[from]) - count)
  /\ Len(q[to]) = Len(p[to]) + count
  /\ \A k \in 1 .. Len(p[to]) : q[to][k] = p[to][k]
  /\ \A k \in Len(p[to]) + 1 .. Len(p[to]) + count : q[to][k].up
  /\ \A t \in PileType : t # from /\ t # to => q[t] = p[t]

LEMMA MovePiles ==
  ASSUME NEW p, GoodBoard(p), NEW tff \in BOOLEAN,
         NEW from \in PileType, NEW to \in PileType,
         NEW count \in 1 .. Len(p[from]),
         MoveAllowed(p, tff, from, to, count),
         NEW q, q = AfterMove(p, from, to, count)
  PROVE  TopWent(p, q, from, to, count)
<1> DEFINE L == Len(p[from])
           moved == TopCards(p[from], count)
           left == DropCards(p[from], count)
<1>1. /\ p \in Boards /\ q \in Boards /\ from # to
      /\ \A k \in 1 .. count : moved[k].up
  BY MoveGood DEF GoodBoard, MoveAllowed
<1>2. /\ p[from] \in Seq(Card) /\ p[to] \in Seq(Card)
      /\ L \in Nat /\ Len(p[to]) \in Nat /\ count \in 0 .. L
  BY <1>1, LenProperties DEF Boards
<1>3. /\ q[from] = FlipTop(left)
      /\ q[to] = p[to] \o moved
      /\ \A t \in PileType : t # from /\ t # to => q[t] = p[t]
  BY <1>1 DEF AfterMove, Boards
<1>4. /\ left \in Seq(Card) /\ Len(left) = L - count
      /\ \A k \in 1 .. L - count : left[k] = p[from][k]
  BY <1>2, DropCardsFacts
<1>5. /\ moved \in Seq(Card) /\ Len(moved) = count
      /\ \A k \in 1 .. count : moved[k] = p[from][L - count + k]
  BY <1>2, TopCardsFacts
<1> HIDE DEF left, moved, L
<1>6. /\ Len(q[from]) = L - count
      /\ \A k \in 1 .. L - count : q[from][k].up = (p[from][k].up \/ k = L - count)
  BY <1>3, <1>4, FlipTopFacts
<1>7. /\ Len(q[to]) = Len(p[to]) + count
      /\ \A k \in 1 .. Len(p[to]) + count :
           q[to][k] = IF k <= Len(p[to]) THEN p[to][k] ELSE moved[k - Len(p[to])]
  BY <1>2, <1>3, <1>5, ConcatProperties
<1>8. \A k \in 1 .. Len(p[to]) : q[to][k] = p[to][k]
  BY <1>2, <1>7
<1>9. \A k \in Len(p[to]) + 1 .. Len(p[to]) + count : q[to][k].up
  <2>1. \A k \in Len(p[to]) + 1 .. Len(p[to]) + count :
          k \in 1 .. Len(p[to]) + count /\ ~ (k <= Len(p[to]))
          /\ k - Len(p[to]) \in 1 .. count
    BY <1>2
  <2>2. QED
    BY <1>1, <1>7, <2>1
<1>10. \A k \in L - count + 1 .. L : p[from][k].up
  <2>1. \A k \in L - count + 1 .. L :
          k - (L - count) \in 1 .. count /\ L - count + (k - (L - count)) = k
    BY <1>2
  <2>2. QED
    BY <1>1, <1>5, <2>1
<1>11. QED
  BY <1>1, <1>3, <1>6, <1>7, <1>8, <1>9, <1>10 DEF L, TopWent

(* The foundations gain the one card that lands there, lose the one taken.  *)
LEMMA MoveBuilt ==
  ASSUME NEW p, NEW q, NEW tff,
         NEW from \in PileType, NEW to \in PileType,
         NEW count \in 1 .. Len(p[from]),
         MoveAllowed(p, tff, from, to, count),
         TopWent(p, q, from, to, count)
  PROVE  Cardinality(Places(Foundations, q)) =
           Cardinality(Places(Foundations, p))
           + (IF to \in Foundations THEN 1 ELSE 0)
           - (IF from \in Foundations THEN 1 ELSE 0)
<1> DEFINE A == Places(Foundations, p)
           B == Places(Foundations, q)
<1>1. /\ from # to /\ p \in Boards /\ q \in Boards
      /\ Len(q[from]) = Len(p[from]) - count
      /\ Len(q[to]) = Len(p[to]) + count
      /\ \A t \in PileType : t # from /\ t # to => q[t] = p[t]
  BY DEF TopWent
<1>2. /\ to \in Foundations => from \notin Foundations /\ count = 1
      /\ from \in Foundations => to \notin Foundations /\ count = 1
  BY PileKinds DEF MoveAllowed
<1>3. IsFiniteSet(A) /\ IsFiniteSet(B) /\ Cardinality(A) \in Nat
  BY <1>1, PilesFinite, PlacesFinite, PileKinds, FS_CardinalityType
<1>4. /\ \A m : m \in A <=> \E t \in Foundations : \E k \in 1 .. Len(p[t]) : m = <<t, k>>
      /\ \A m : m \in B <=> \E t \in Foundations : \E k \in 1 .. Len(q[t]) : m = <<t, k>>
  BY DEF Places
<1>5. Len(p[from]) \in Nat /\ Len(p[to]) \in Nat
  BY <1>1, LenProperties DEF Boards
<1> HIDE DEF A, B
<1>6. CASE to \in Foundations
  <2> DEFINE n == <<to, Len(p[to]) + 1>>
  <2>1. n \notin A
    BY <1>4, <1>5
  <2>2. n \in B
    BY <1>1, <1>2, <1>4, <1>5, <1>6
  <2>3. \A m : m \in B <=> m \in A \/ m = n
    <3>1. \A t \in Foundations : t # to => q[t] = p[t]
      BY <1>1, <1>2, <1>6, PileKinds
    <3>2. \A k : k \in 1 .. Len(q[to]) <=> k \in 1 .. Len(p[to]) \/ k = Len(p[to]) + 1
      BY <1>1, <1>2, <1>5, <1>6
    <3>3. ASSUME NEW m, m \in B PROVE m \in A \/ m = n
      BY <1>4, <3>1, <3>2, <3>3
    <3>4. ASSUME NEW m, m \in A PROVE m \in B
      BY <1>4, <3>1, <3>2, <3>4
    <3>5. QED
      BY <2>2, <3>3, <3>4
  <2>4. B = A \cup {n}
    BY <2>3
  <2>5. Cardinality(B) = Cardinality(A) + 1
    BY <1>3, <2>1, <2>4, FS_AddElement
  <2>6. QED
    BY <1>2, <1>3, <1>6, <2>5 DEF A, B
<1>7. CASE from \in Foundations
  <2> DEFINE n == <<from, Len(p[from])>>
  <2>1. n \in A
    BY <1>2, <1>4, <1>5, <1>7
  <2>2. \A m : m \in B <=> m \in A /\ m # n
    <3>1. \A t \in Foundations : t # from => q[t] = p[t]
      BY <1>1, <1>2, <1>7, PileKinds
    <3>2. \A k : k \in 1 .. Len(q[from]) <=> k \in 1 .. Len(p[from]) /\ k # Len(p[from])
      BY <1>1, <1>2, <1>5, <1>7
    <3>3. ASSUME NEW m, m \in B PROVE m \in A /\ m # n
      BY <1>4, <3>1, <3>2, <3>3
    <3>4. ASSUME NEW m, m \in A, m # n PROVE m \in B
      BY <1>4, <3>1, <3>2, <3>4
    <3>5. QED
      BY <3>3, <3>4
  <2>3. B = A \ {n}
    BY <2>2
  <2>4. Cardinality(B) = Cardinality(A) - 1
    BY <1>3, <2>1, <2>3, FS_RemoveElement
  <2>5. QED
    BY <1>2, <1>3, <1>7, <2>4 DEF A, B
<1>8. CASE to \notin Foundations /\ from \notin Foundations
  <2>1. \A t \in Foundations : q[t] = p[t]
    BY <1>1, <1>8, PileKinds
  <2>2. A = B
    BY <1>4, <2>1
  <2>3. QED
    BY <1>3, <1>8, <2>2 DEF A, B
<1>9. QED
  BY <1>6, <1>7, <1>8

LEMMA HiddenFinite ==
  ASSUME NEW p \in Boards
  PROVE  IsFiniteSet(Hidden(p)) /\ Cardinality(Hidden(p)) \in Nat
<1>1. IsFiniteSet(Places(Tableaus, p))
  BY PilesFinite, PlacesFinite, PileKinds
<1>2. Hidden(p) \in SUBSET Places(Tableaus, p)
  BY DEF Hidden
<1>3. IsFiniteSet(Hidden(p))
  BY <1>1, <1>2, FS_Subset
<1>4. QED
  BY <1>3, FS_CardinalityType

(* A move turns up the card it exposes and hides none.                     *)
LEMMA MoveHidden ==
  ASSUME NEW p, GoodBoard(p), NEW q,
         NEW from \in PileType, NEW to \in PileType,
         NEW count \in 1 .. Len(p[from]),
         TopWent(p, q, from, to, count)
  PROVE  Cardinality(Hidden(q)) =
           Cardinality(Hidden(p)) - (IF Exposes(p, from, count) THEN 1 ELSE 0)
<1> DEFINE A == Hidden(p)
           B == Hidden(q)
           n == <<from, Len(p[from]) - count>>
<1>1. /\ from # to /\ p \in Boards /\ q \in Boards
      /\ \A k \in Len(p[from]) - count + 1 .. Len(p[from]) : p[from][k].up
      /\ Len(q[from]) = Len(p[from]) - count
      /\ \A k \in 1 .. Len(p[from]) - count :
           q[from][k].up = (p[from][k].up \/ k = Len(p[from]) - count)
      /\ Len(q[to]) = Len(p[to]) + count
      /\ \A k \in 1 .. Len(p[to]) : q[to][k] = p[to][k]
      /\ \A k \in Len(p[to]) + 1 .. Len(p[to]) + count : q[to][k].up
      /\ \A t \in PileType : t # from /\ t # to => q[t] = p[t]
  BY DEF TopWent
<1>2. Len(p[from]) \in Nat /\ Len(p[to]) \in Nat
  BY <1>1, LenProperties DEF Boards
<1>3. IsFiniteSet(A) /\ Cardinality(A) \in Nat
  BY <1>1, HiddenFinite
<1>4. /\ \A m : m \in A <=> \E t \in Tableaus : \E k \in 1 .. Len(p[t]) :
                              m = <<t, k>> /\ ~ p[t][k].up
      /\ \A m : m \in B <=> \E t \in Tableaus : \E k \in 1 .. Len(q[t]) :
                              m = <<t, k>> /\ ~ q[t][k].up
  BY DEF Places, Hidden
<1>5. Exposes(p, from, count) <=> n \in A
  <2>1. CASE from \in Tableaus
    <3>1. n \in A <=> /\ Len(p[from]) - count \in 1 .. Len(p[from])
                      /\ ~ p[from][Len(p[from]) - count].up
      BY <1>4, <2>1
    <3>2. Len(p[from]) - count \in 1 .. Len(p[from]) <=> count < Len(p[from])
      BY <1>2
    <3>3. QED
      BY <3>1, <3>2 DEF Exposes
  <2>2. CASE from \notin Tableaus
    <3>1. n \notin A
      BY <1>4, <2>2
    <3>2. from # Stock
      <4>1. Len(p[from]) \in Len(p[from]) - count + 1 .. Len(p[from])
            /\ Len(p[from]) \in 1 .. Len(p[from])
        BY <1>2
      <4>2. p[from][Len(p[from])].up
        BY <1>1, <4>1
      <4>3. GoodPile(from, p[from])
        BY DEF GoodBoard
      <4>4. QED
        BY <4>1, <4>2, <4>3 DEF GoodPile
    <3>3. \A k \in 1 .. Len(p[from]) : p[from][k].up
      BY <2>2, <3>2, PileKinds DEF GoodBoard, GoodPile
    <3>4. count < Len(p[from]) => Len(p[from]) - count \in 1 .. Len(p[from])
      BY <1>2
    <3>5. QED
      BY <3>1, <3>3, <3>4 DEF Exposes
  <2>3. QED
    BY <2>1, <2>2
<1> HIDE DEF A, B
<1>6. B = A \ {n}
  <2>1. ASSUME NEW t \in Tableaus, NEW k \in 1 .. Len(q[t]), ~ q[t][k].up
        PROVE  k \in 1 .. Len(p[t]) /\ ~ p[t][k].up /\ <<t, k>> # n
    <3>1. CASE t = from
      <4>1. k \in 1 .. Len(p[from]) - count
        BY <1>1, <3>1
      <4>2. ~ p[from][k].up /\ k # Len(p[from]) - count
        BY <1>1, <2>1, <3>1, <4>1
      <4>3. k \in 1 .. Len(p[from])
        BY <1>2, <4>1
      <4>4. QED
        BY <3>1, <4>2, <4>3
    <3>2. CASE t = to
      <4>1. k \in 1 .. Len(p[to]) + count
        BY <1>1, <3>2
      <4>2. k \notin Len(p[to]) + 1 .. Len(p[to]) + count
        BY <1>1, <2>1, <3>2
      <4>3. k \in 1 .. Len(p[to])
        BY <1>2, <4>1, <4>2
      <4>4. QED
        BY <1>1, <2>1, <3>2, <4>3
    <3>3. CASE t # from /\ t # to
      BY <1>1, <2>1, <3>3, PileKinds
    <3>4. QED
      BY <3>1, <3>2, <3>3
  <2>2. ASSUME NEW t \in Tableaus, NEW k \in 1 .. Len(p[t]), ~ p[t][k].up,
               <<t, k>> # n
        PROVE  k \in 1 .. Len(q[t]) /\ ~ q[t][k].up
    <3>1. CASE t = from
      <4>1. k \notin Len(p[from]) - count + 1 .. Len(p[from])
        BY <1>1, <2>2, <3>1
      <4>2. k \in 1 .. Len(p[from]) - count
        BY <1>2, <3>1, <4>1
      <4>3. k # Len(p[from]) - count
        BY <2>2, <3>1
      <4>4. QED
        BY <1>1, <2>2, <3>1, <4>2, <4>3
    <3>2. CASE t = to
      <4>1. k \in 1 .. Len(p[to]) + count
        BY <1>2, <3>2
      <4>2. QED
        BY <1>1, <2>2, <3>2, <4>1
    <3>3. CASE t # from /\ t # to
      BY <1>1, <2>2, <3>3, PileKinds
    <3>4. QED
      BY <3>1, <3>2, <3>3
  <2> HIDE DEF n
  <2>3. ASSUME NEW m, m \in B PROVE m \in A /\ m # n
    BY <1>4, <2>1, <2>3
  <2>4. ASSUME NEW m, m \in A, m # n PROVE m \in B
    BY <1>4, <2>2, <2>4
  <2>5. QED
    BY <2>3, <2>4
<1> HIDE DEF n
<1>7. Cardinality(B) = IF n \in A THEN Cardinality(A) - 1 ELSE Cardinality(A)
  BY <1>3, <1>6, FS_RemoveElement
<1>8. QED
  BY <1>3, <1>5, <1>7 DEF A, B

(* A card played out of the waste leaves the stock and the waste for good.  *)
LEMMA MoveUnplayed ==
  ASSUME NEW p, GoodBoard(p), NEW q, NEW tff,
         NEW from \in PileType, NEW to \in PileType,
         NEW count \in 1 .. Len(p[from]),
         MoveAllowed(p, tff, from, to, count),
         TopWent(p, q, from, to, count)
  PROVE  /\ from # Stock
         /\ Len(q[Stock]) + Len(q[Waste]) =
              (Len(p[Stock]) + Len(p[Waste])) - (IF from = Waste THEN 1 ELSE 0)
<1>1. /\ p \in Boards
      /\ \A k \in Len(p[from]) - count + 1 .. Len(p[from]) : p[from][k].up
      /\ Len(q[from]) = Len(p[from]) - count
      /\ \A t \in PileType : t # from /\ t # to => q[t] = p[t]
  BY DEF TopWent
<1>2. Len(p[from]) \in Nat /\ Len(p[Stock]) \in Nat /\ Len(p[Waste]) \in Nat
  BY <1>1, LenProperties, PileKinds DEF Boards
<1>3. from # Stock
  <2>1. Len(p[from]) \in Len(p[from]) - count + 1 .. Len(p[from])
        /\ Len(p[from]) \in 1 .. Len(p[from])
    BY <1>2
  <2>2. p[from][Len(p[from])].up
    BY <1>1, <2>1
  <2>3. GoodPile(from, p[from])
    BY DEF GoodBoard
  <2>4. QED
    BY <2>1, <2>2, <2>3 DEF GoodPile
<1>4. to \in Foundations \cup Tableaus /\ (from = Waste => count = 1)
  BY DEF MoveAllowed
<1>5. to # Stock /\ to # Waste
  BY <1>4, PileKinds
<1>6. q[Stock] = p[Stock]
  BY <1>1, <1>3, <1>5, PileKinds
<1>7. Len(q[Waste]) = Len(p[Waste]) - (IF from = Waste THEN 1 ELSE 0)
  <2>1. CASE from = Waste
    BY <1>1, <1>4, <2>1
  <2>2. CASE from # Waste
    BY <1>1, <1>2, <1>5, <2>2, PileKinds
  <2>3. QED
    BY <2>1, <2>2
<1> DEFINE m == Len(p[Stock])
           n == Len(p[Waste])
           d == IF from = Waste THEN 1 ELSE 0
<1>8. m \in Nat /\ n \in Nat /\ d \in Nat
  BY <1>2
<1>9. Len(q[Stock]) = m /\ Len(q[Waste]) = n - d
  BY <1>6, <1>7
<1> HIDE DEF m, n, d
<1>10. Len(q[Stock]) + Len(q[Waste]) = (m + n) - d
  BY <1>8, <1>9
<1>11. QED
  BY <1>3, <1>10 DEF m, n, d

---------------------------------------------------------------------------
(* What a board is worth.                                                  *)

(* No more cards are hidden, or left to be played, than were dealt so.      *)
WithinDeal(p) ==
  /\ Cardinality(Hidden(p)) <= HiddenDealt
  /\ Len(p[Stock]) + Len(p[Waste]) <= StockDealt

LEMMA DealtNumbers == HiddenDealt \in Int /\ StockDealt \in Int
BY DealtStretches, FaceFinite, PilesAssumption DEF HiddenDealt, StockDealt

(* The parts of a board's worth are numbers.                                *)
LEMMA WorthParts ==
  ASSUME NEW p \in Boards
  PROVE  /\ Cardinality(Places(Foundations, p)) \in Nat
         /\ Cardinality(Hidden(p)) \in Nat
         /\ Len(p[Stock]) + Len(p[Waste]) \in Nat
         /\ Worth(p) \in Int
         /\ Worth(p) = 10 * Cardinality(Places(Foundations, p))
                       + 5 * (HiddenDealt - Cardinality(Hidden(p)))
                       + 5 * (StockDealt - (Len(p[Stock]) + Len(p[Waste])))
<1>1. Cardinality(Places(Foundations, p)) \in Nat
  BY PilesFinite, PlacesFinite, PileKinds, FS_CardinalityType
<1>2. Cardinality(Hidden(p)) \in Nat
  BY HiddenFinite
<1>3. Len(p[Stock]) \in Nat /\ Len(p[Waste]) \in Nat
  BY LenProperties, PileKinds DEF Boards
<1> DEFINE f == Cardinality(Places(Foundations, p))
           h == Cardinality(Hidden(p))
           m == Len(p[Stock])
           n == Len(p[Waste])
<1>4. Worth(p) = 10 * f + 5 * (HiddenDealt - h) + 5 * (StockDealt - m - n)
  BY DEF Worth
<1>5. f \in Nat /\ h \in Nat /\ m \in Nat /\ n \in Nat
  BY <1>1, <1>2, <1>3
<1> HIDE DEF f, h, m, n
<1>6. Worth(p) \in Int
  BY <1>4, <1>5, DealtNumbers
<1>7. Worth(p) = 10 * f + 5 * (HiddenDealt - h) + 5 * (StockDealt - (m + n))
  BY <1>4, <1>5, DealtNumbers
<1>8. m + n \in Nat
  BY <1>5
<1>9. QED
  BY <1>1, <1>2, <1>6, <1>7, <1>8 DEF f, h, m, n

(* A board within the deal is worth something or nothing, never less.       *)
LEMMA WorthNatural ==
  ASSUME NEW p \in Boards, WithinDeal(p)
  PROVE  Worth(p) >= 0
<1> DEFINE f == Cardinality(Places(Foundations, p))
           h == Cardinality(Hidden(p))
           w == Len(p[Stock]) + Len(p[Waste])
<1>1. /\ f \in Nat /\ h \in Nat /\ w \in Nat
      /\ Worth(p) = 10 * f + 5 * (HiddenDealt - h) + 5 * (StockDealt - w)
  BY WorthParts
<1>2. h <= HiddenDealt /\ w <= StockDealt
  BY DEF WithinDeal
<1> HIDE DEF f, h, w
<1>3. QED
  BY <1>1, <1>2, DealtNumbers

(* Worth depends on the columns, the foundations and what is left to play.  *)
LEMMA WorthSame ==
  ASSUME NEW p \in Boards, NEW q \in Boards,
         \A t \in Foundations \cup Tableaus : q[t] = p[t],
         Len(q[Stock]) + Len(q[Waste]) = Len(p[Stock]) + Len(p[Waste])
  PROVE  /\ Worth(q) = Worth(p)
         /\ WithinDeal(p) => WithinDeal(q)
<1>1. Places(Foundations, q) = Places(Foundations, p)
  BY DEF Places
<1>2. Places(Tableaus, q) = Places(Tableaus, p)
  BY DEF Places
<1>3. \A m \in Places(Tableaus, p) : m[1] \in Tableaus
  BY DEF Places
<1>4. Hidden(q) = Hidden(p)
  BY <1>2, <1>3 DEF Hidden
<1>5. Worth(q) = Worth(p)
  <2>1. /\ Worth(p) = 10 * Cardinality(Places(Foundations, p))
                       + 5 * (HiddenDealt - Cardinality(Hidden(p)))
                       + 5 * (StockDealt - (Len(p[Stock]) + Len(p[Waste])))
        /\ Worth(q) = 10 * Cardinality(Places(Foundations, q))
                       + 5 * (HiddenDealt - Cardinality(Hidden(q)))
                       + 5 * (StockDealt - (Len(q[Stock]) + Len(q[Waste])))
    BY WorthParts
  <2>2. QED
    BY <1>1, <1>4, <2>1
<1>6. QED
  BY <1>4, <1>5 DEF WithinDeal

(* A move makes the board worth more by at least what it scores.            *)
LEMMA MoveWorth ==
  ASSUME NEW p, GoodBoard(p), WithinDeal(p), NEW tff \in BOOLEAN,
         NEW from \in PileType, NEW to \in PileType,
         NEW count \in 1 .. Len(p[from]),
         MoveAllowed(p, tff, from, to, count),
         NEW q, q = AfterMove(p, from, to, count)
  PROVE  /\ WithinDeal(q)
         /\ Worth(q) >= Worth(p) + ScoreMove(from, to)
                        + (IF Exposes(p, from, count) THEN ScoreFlip ELSE 0)
<1>0. TopWent(p, q, from, to, count)
  BY MovePiles
<1>1. p \in Boards /\ q \in Boards
  BY <1>0 DEF TopWent
<1> DEFINE f == Cardinality(Places(Foundations, p))
           h == Cardinality(Hidden(p))
           w == Len(p[Stock]) + Len(p[Waste])
           g == Cardinality(Places(Foundations, q))
           i == Cardinality(Hidden(q))
           x == Len(q[Stock]) + Len(q[Waste])
           E == Exposes(p, from, count)
<1>2. /\ g = f + (IF to \in Foundations THEN 1 ELSE 0)
               - (IF from \in Foundations THEN 1 ELSE 0)
      /\ i = h - (IF E THEN 1 ELSE 0)
      /\ x = w - (IF from = Waste THEN 1 ELSE 0)
      /\ from # Stock
  <2>1. g = f + (IF to \in Foundations THEN 1 ELSE 0)
              - (IF from \in Foundations THEN 1 ELSE 0)
    BY <1>0, MoveBuilt
  <2>2. i = h - (IF E THEN 1 ELSE 0)
    BY <1>0, MoveHidden
  <2>3. /\ from # Stock
        /\ Len(q[Stock]) + Len(q[Waste]) =
             (Len(p[Stock]) + Len(p[Waste])) - (IF from = Waste THEN 1 ELSE 0)
    BY <1>0, MoveUnplayed
  <2>4. QED
    BY <2>1, <2>2, <2>3
<1>3. f \in Nat /\ h \in Nat /\ w \in Nat /\ g \in Nat /\ i \in Nat /\ x \in Nat
  <2>1. f \in Nat /\ h \in Nat /\ w \in Nat
    BY <1>1, WorthParts
  <2>2. g \in Nat /\ i \in Nat /\ x \in Nat
    BY <1>1, WorthParts
  <2>3. QED
    BY <2>1, <2>2
<1>4. h <= HiddenDealt /\ w <= StockDealt
  BY DEF WithinDeal
<1>5. /\ Worth(p) = 10 * f + 5 * (HiddenDealt - h) + 5 * (StockDealt - w)
      /\ Worth(q) = 10 * g + 5 * (HiddenDealt - i) + 5 * (StockDealt - x)
  BY <1>1, WorthParts
<1>6. /\ to \in Foundations \cup Tableaus
      /\ to \in Foundations => from \notin Foundations /\ to \notin Tableaus
  BY PileKinds DEF MoveAllowed
<1>7. E \in BOOLEAN
  BY DEF Exposes
<1> HIDE DEF f, h, w, g, i, x, E
<1>8. i <= HiddenDealt /\ x <= StockDealt
  BY <1>2, <1>3, <1>4, DealtNumbers
<1>9. WithinDeal(q)
  BY <1>8 DEF WithinDeal, i, x
<1>10. 10 * g + 5 * (HiddenDealt - i) + 5 * (StockDealt - x) >=
         10 * f + 5 * (HiddenDealt - h) + 5 * (StockDealt - w)
         + ScoreMove(from, to) + (IF E THEN 5 ELSE 0)
  <2>1. CASE to \in Foundations
    <3>1. ScoreMove(from, to) = 10
      BY <1>6, <2>1 DEF ScoreMove
    <3>2. QED
      BY <1>2, <1>3, <1>6, <2>1, <3>1, DealtNumbers
  <2>2. CASE to \notin Foundations
    <3>1. to \in Tableaus
      BY <1>6, <2>2
    <3>2. CASE from = Waste
      <4>1. from \notin Foundations
        BY <3>2, PileKinds
      <4>2. ScoreMove(from, to) = 5
        BY <2>2, <3>1, <3>2, <4>1 DEF ScoreMove
      <4>3. QED
        BY <1>2, <1>3, <2>2, <3>2, <4>1, <4>2, DealtNumbers
    <3>3. CASE from \in Foundations
      <4>1. from # Waste
        BY <3>3, PileKinds
      <4>2. ScoreMove(from, to) = -15
        BY <2>2, <3>1, <3>3, <4>1 DEF ScoreMove
      <4>3. QED
        BY <1>2, <1>3, <2>2, <3>3, <4>1, <4>2, DealtNumbers
    <3>4. CASE from # Waste /\ from \notin Foundations
      <4>1. ScoreMove(from, to) = 0
        BY <2>2, <3>1, <3>4 DEF ScoreMove
      <4>2. QED
        BY <1>2, <1>3, <2>2, <3>4, <4>1, DealtNumbers
    <3>5. QED
      BY <3>2, <3>3, <3>4
  <2>3. QED
    BY <2>1, <2>2
<1>11. ScoreMove(from, to) \in Int
  BY DEF ScoreMove
<1>12. (IF E THEN ScoreFlip ELSE 0) = (IF E THEN 5 ELSE 0)
  BY DEF ScoreFlip
<1>13. QED
  BY <1>5, <1>9, <1>10, <1>12 DEF E

(* A draw and a recycle change nothing that counts.                         *)
LEMMA DrawWorth ==
  ASSUME NEW p, GoodBoard(p), NEW n \in Nat
  PROVE  /\ Worth(AfterDraw(p, n)) = Worth(p)
         /\ WithinDeal(p) => WithinDeal(AfterDraw(p, n))
<1> DEFINE m == IF Len(p[Stock]) < n THEN Len(p[Stock]) ELSE n
           drawn == Facing(TopCards(p[Stock], m), TRUE)
           q == AfterDraw(p, n)
<1>1. p \in Boards /\ q \in Boards
  BY DrawGood DEF GoodBoard
<1>2. /\ p[Stock] \in Seq(Card) /\ p[Waste] \in Seq(Card)
      /\ Len(p[Stock]) \in Nat /\ Len(p[Waste]) \in Nat
  BY <1>1, LenProperties, PileKinds DEF Boards
<1>3. m \in 0 .. Len(p[Stock])
  BY <1>2
<1>4. /\ q[Stock] = DropCards(p[Stock], m)
      /\ q[Waste] = p[Waste] \o drawn
      /\ \A t \in PileType : t # Stock /\ t # Waste => q[t] = p[t]
  BY <1>1, PileKinds DEF AfterDraw, Boards
<1> HIDE DEF q, m
<1>5. Len(q[Stock]) = Len(p[Stock]) - m
  BY <1>2, <1>3, <1>4, DropCardsFacts
<1>6. TopCards(p[Stock], m) \in Seq(Card) /\ Len(TopCards(p[Stock], m)) = m
  BY <1>2, <1>3, TopCardsFacts
<1>7. drawn \in Seq(Card) /\ Len(drawn) = m
  BY <1>6, FacingFacts
<1> HIDE DEF drawn
<1>8. Len(q[Waste]) = Len(p[Waste]) + m
  BY <1>2, <1>4, <1>7, ConcatProperties
<1> DEFINE a == Len(p[Stock])
           b == Len(p[Waste])
<1>9. Len(q[Stock]) + Len(q[Waste]) = Len(p[Stock]) + Len(p[Waste])
  <2>1. a \in Nat /\ b \in Nat /\ m \in 0 .. a
    BY <1>2, <1>3
  <2>2. Len(q[Stock]) = a - m /\ Len(q[Waste]) = b + m
    BY <1>5, <1>8
  <2> HIDE DEF a, b
  <2>3. Len(q[Stock]) + Len(q[Waste]) = a + b
    BY <2>1, <2>2
  <2>4. QED
    BY <2>3 DEF a, b
<1>10. \A t \in Foundations \cup Tableaus : q[t] = p[t]
  BY <1>4, PileKinds
<1>11. Worth(q) = Worth(p) /\ (WithinDeal(p) => WithinDeal(q))
  BY <1>1, <1>9, <1>10, WorthSame
<1>12. QED
  BY <1>11 DEF q

LEMMA RecycleWorth ==
  ASSUME NEW p, GoodBoard(p), p[Stock] = << >>
  PROVE  /\ Worth(AfterRecycle(p)) = Worth(p)
         /\ WithinDeal(p) => WithinDeal(AfterRecycle(p))
<1> DEFINE back == Facing(Reverse(p[Waste]), FALSE)
           q == AfterRecycle(p)
<1>1. p \in Boards /\ q \in Boards
  BY RecycleGood DEF GoodBoard
<1>2. /\ p[Stock] \in Seq(Card) /\ p[Waste] \in Seq(Card)
      /\ Len(p[Stock]) \in Nat /\ Len(p[Waste]) \in Nat
  BY <1>1, LenProperties, PileKinds DEF Boards
<1>3. /\ q[Stock] = p[Stock] \o back
      /\ q[Waste] = << >>
      /\ \A t \in PileType : t # Stock /\ t # Waste => q[t] = p[t]
  BY <1>1, PileKinds DEF AfterRecycle, Boards
<1> HIDE DEF q
<1>4. Reverse(p[Waste]) \in Seq(Card) /\ Len(Reverse(p[Waste])) = Len(p[Waste])
  BY <1>2, ReverseFacts
<1>5. back \in Seq(Card) /\ Len(back) = Len(p[Waste])
  BY <1>4, FacingFacts
<1> HIDE DEF back
<1>6. Len(q[Stock]) = Len(p[Stock]) + Len(p[Waste])
  BY <1>2, <1>3, <1>5, ConcatProperties
<1>7. Len(q[Waste]) = 0
  BY <1>3, EmptySeq
<1>8. Len(q[Stock]) + Len(q[Waste]) = Len(p[Stock]) + Len(p[Waste])
  BY <1>2, <1>6, <1>7
<1>9. \A t \in Foundations \cup Tableaus : q[t] = p[t]
  BY <1>3, PileKinds
<1>10. Worth(q) = Worth(p) /\ (WithinDeal(p) => WithinDeal(q))
  BY <1>1, <1>8, <1>9, WorthSame
<1>11. QED
  BY <1>10 DEF q

(* The deal hides i cards of column i and leaves no more than the rest of   *)
(* the deck to be played.                                                   *)
LEMMA DealWithin ==
  ASSUME NEW deck \in Decks
  PROVE  WithinDeal(DealKlondike(deck))
<1> DEFINE q == DealKlondike(deck)
           rest == DealtBefore(NumColumns)
           last == NumColumns - 1
<1>1. /\ deck \in Seq(Face) /\ Len(deck) \in Nat
      /\ Len(deck) >= rest /\ rest \in Nat
      /\ \A f \in Face : \E x \in 1 .. Len(deck) : deck[x] = f
      /\ \A x, y \in 1 .. Len(deck) : deck[x] = deck[y] => x = y
      /\ deck \in [1 .. Len(deck) -> Face]
  BY DecksAssumption, LenProperties, DealtStretches DEF IsDeck
<1>2. Len(deck) <= Cardinality(Face)
  <2>1. deck \in Injection(1 .. Len(deck), Face)
    BY <1>1 DEF Injection, IsInjective
  <2>2. Cardinality(1 .. Len(deck)) <= Cardinality(Face)
    BY <2>1, FaceFinite, FS_Injection
  <2> DEFINE n == Len(deck)
  <2>3. n \in Nat
    BY <1>1
  <2> HIDE DEF n
  <2>4. Cardinality(1 .. n) = n
    BY <2>3, FS_Interval
  <2>5. QED
    BY <2>2, <2>4 DEF n
<1>3. Len(q[Stock]) = Len(deck) - rest
  <2>1. q[Stock] = [k \in 1 .. Len(deck) - rest |-> Turned(deck[rest + k], FALSE)]
    BY PileKinds DEF DealKlondike
  <2> HIDE DEF rest, q
  <2>2. Len(deck) - rest \in Nat
    BY <1>1
  <2>3. QED
    BY <2>1, <2>2
<1>4. Len(q[Waste]) = 0
  <2>1. q[Waste] = << >>
    BY PileKinds DEF DealKlondike
  <2> HIDE DEF q
  <2>2. QED
    BY <2>1, EmptySeq
<1>5. ASSUME NEW i \in Columns, NEW k \in 1 .. Len(q[Tableau(i)]),
             ~ q[Tableau(i)][k].up
      PROVE  k \in 1 .. i
  <2>1. q[Tableau(i)] = [j \in 1 .. i + 1 |->
                           Turned(deck[DealtBefore(i) + j], j = i + 1)]
    <3>1. /\ Tableau(i) \in PileType /\ Tableau(i) # Stock
          /\ Tableau(i) \in Tableaus /\ Tableau(i)[2] = i
      BY PileKinds DEF Tableau
    <3>2. QED
      BY <3>1 DEF DealKlondike
  <2> HIDE DEF q
  <2>2. i \in Nat
    BY PilesAssumption DEF Columns
  <2>3. Len(q[Tableau(i)]) = i + 1
    BY <2>1, <2>2
  <2>4. k \in 1 .. i + 1
    BY <2>3
  <2>5. q[Tableau(i)][k] = Turned(deck[DealtBefore(i) + k], k = i + 1)
    BY <2>1, <2>4
  <2>6. q[Tableau(i)][k].up = (k = i + 1)
    BY <2>5 DEF Turned
  <2>7. k # i + 1
    BY <1>5, <2>6
  <2>8. QED
    BY <2>2, <2>4, <2>7
<1> HIDE DEF q, rest
<1>6. HiddenDealt = DealtBefore(last)
  <2>1. NumColumns \in Nat \ {0} /\ last \in Nat
    BY PilesAssumption
  <2> DEFINE c == last * (last + 1)
             b == NumColumns * (NumColumns + 1)
  <2>2. b = c + 2 * NumColumns /\ c \in Nat
    BY <2>1
  <2> HIDE DEF b, c
  <2>3. b \div 2 = (c \div 2) + NumColumns /\ c \div 2 \in Nat
    BY <2>1, <2>2
  <2>4. (b \div 2) - NumColumns = c \div 2
    BY <2>1, <2>3
  <2>5. QED
    BY <2>4 DEF HiddenDealt, DealtBefore, b, c
<1>7. last \in Columns /\ DealtBefore(last) \in Nat
  BY PilesAssumption, DealtStretches DEF Columns
<1> DEFINE rank == [m \in Hidden(q) |-> DealtBefore(m[1][2] - 1) + m[2]]
<1>8. ASSUME NEW m \in Hidden(q)
      PROVE  \E i \in Columns : \E k \in 1 .. i :
               /\ i - 1 \in Columns /\ m = <<Tableau(i), k>> /\ m[1][2] = i
  <2>1. PICK t \in Tableaus : \E k \in 1 .. Len(q[t]) : m = <<t, k>> /\ ~ q[t][k].up
    BY DEF Hidden, Places
  <2>2. PICK k \in 1 .. Len(q[t]) : m = <<t, k>> /\ ~ q[t][k].up
    BY <2>1
  <2>3. PICK i \in Columns : t = Tableau(i) /\ t[2] = i
    BY DEF Tableaus, Tableau
  <2>4. k \in 1 .. i
    BY <1>5, <2>2, <2>3
  <2>5. i - 1 \in Columns
    BY <2>4, PilesAssumption DEF Columns
  <2>6. QED
    BY <2>2, <2>3, <2>4, <2>5
<1>9. rank \in Injection(Hidden(q), 1 .. HiddenDealt)
  <2>1. ASSUME NEW m \in Hidden(q) PROVE rank[m] \in 1 .. HiddenDealt
    <3>0a. PICK i \in Columns : \E k \in 1 .. i :
            i - 1 \in Columns /\ m = <<Tableau(i), k>> /\ m[1][2] = i
      BY <1>8
    <3>1. PICK k \in 1 .. i :
            i - 1 \in Columns /\ m = <<Tableau(i), k>> /\ m[1][2] = i
      BY <3>0a
    <3>2. rank[m] = DealtBefore(i - 1) + k
      BY <3>1
    <3>3. i \in Nat /\ i <= last /\ last \in Nat
      BY PilesAssumption DEF Columns
    <3>4. DealtBefore(i - 1) \in Nat
      BY <3>1, DealtStretches
    <3>5. DealtBefore(i - 1) + i <= DealtBefore(last)
      <4>1. i - 1 \in 0 .. last - 1
        BY <3>1, <3>3, PilesAssumption DEF Columns
      <4>2. DealtBefore(i - 1) + (i - 1) + 1 <= DealtBefore(last)
        BY <3>3, <4>1, DealtBeforeFacts
      <4>3. QED
        BY <3>3, <3>4, <4>2
    <3> HIDE DEF rank, last
    <3>6. QED
      BY <1>6, <1>7, <3>2, <3>3, <3>4, <3>5
  <2>2. ASSUME NEW m \in Hidden(q), NEW n \in Hidden(q), rank[m] = rank[n]
        PROVE  m = n
    <3>0a. PICK i \in Columns : \E k \in 1 .. i :
            i - 1 \in Columns /\ m = <<Tableau(i), k>> /\ m[1][2] = i
      BY <1>8
    <3>1. PICK k \in 1 .. i :
            i - 1 \in Columns /\ m = <<Tableau(i), k>> /\ m[1][2] = i
      BY <3>0a
    <3>0b. PICK j \in Columns : \E l \in 1 .. j :
            j - 1 \in Columns /\ n = <<Tableau(j), l>> /\ n[1][2] = j
      BY <1>8
    <3>2. PICK l \in 1 .. j :
            j - 1 \in Columns /\ n = <<Tableau(j), l>> /\ n[1][2] = j
      BY <3>0b
    <3>3. DealtBefore(i - 1) + k = DealtBefore(j - 1) + l
      BY <2>2, <3>1, <3>2
    <3>4. i \in Nat /\ j \in Nat
      BY PilesAssumption DEF Columns
    <3>5. DealtBefore(i - 1) \in Nat /\ DealtBefore(j - 1) \in Nat
      BY <3>1, <3>2, DealtStretches
    <3>6. /\ i - 1 < j - 1 => DealtBefore(i - 1) + (i - 1) + 1 <= DealtBefore(j - 1)
          /\ j - 1 < i - 1 => DealtBefore(j - 1) + (j - 1) + 1 <= DealtBefore(i - 1)
      BY <3>1, <3>2, DealtStretches
    <3>7. i = j
      BY <3>3, <3>4, <3>5, <3>6
    <3>8. k = l
      BY <3>3, <3>5, <3>7
    <3>9. QED
      BY <3>1, <3>2, <3>7, <3>8
  <2>3. rank \in [Hidden(q) -> 1 .. HiddenDealt]
    BY <2>1
  <2> HIDE DEF rank
  <2>4. QED
    BY <2>2, <2>3 DEF Injection, IsInjective
<1>10. Cardinality(Hidden(q)) <= HiddenDealt
  <2>1. HiddenDealt \in Nat
    BY <1>6, <1>7
  <2>2. IsFiniteSet(1 .. HiddenDealt) /\ Cardinality(1 .. HiddenDealt) = HiddenDealt
    BY <2>1, FS_Interval
  <2>3. QED
    BY <1>9, <2>2, FS_Injection
<1>11. Len(q[Stock]) + Len(q[Waste]) <= StockDealt
  BY <1>1, <1>2, <1>3, <1>4, FaceFinite DEF StockDealt, rest
<1>12. QED
  BY <1>10, <1>11 DEF WithinDeal, q

---------------------------------------------------------------------------
(* The invariant.                                                          *)

(* What a snapshot may say of its own board.                                *)
Earned(s) == WithinDeal(s.piles) /\ s.score <= Worth(s.piles)

ScoreInv ==
  /\ WithinDeal(piles)
  /\ score <= (IF mode = "Zen" THEN 0 ELSE Worth(piles))
  /\ \A k \in 1 .. Len(undo_stack) : Earned(undo_stack[k])

(* A pushed stack holds older snapshots and the board just left.            *)
LEMMA PushEarned ==
  ASSUME IInv, ScoreInv
  PROVE  \A k \in 1 .. Len(PushSnapshot) : Earned(PushSnapshot[k])
<1> DEFINE base == IF Len(undo_stack) >= MaxUndo THEN Tail(undo_stack)
                                                 ELSE undo_stack
<1>1. /\ undo_stack \in Seq(Snapshot) /\ Len(undo_stack) \in Nat
      /\ piles \in Boards /\ score \in Nat /\ MaxUndo \in Nat \ {0}
  BY BoundsAssumption, LenProperties DEF IInv, TypeOK
<1>2. TakeSnapshot \in Snapshot
  BY DEF TakeSnapshot, Snapshot, IInv, TypeOK
<1>3. Earned(TakeSnapshot)
  <2>1. Worth(piles) >= 0 /\ Worth(piles) \in Int
    BY <1>1, WorthNatural, WorthParts DEF ScoreInv
  <2>2. score <= Worth(piles)
    BY <1>1, <2>1 DEF ScoreInv
  <2>3. QED
    BY <2>2 DEF ScoreInv, Earned, TakeSnapshot
<1>4. base \in Seq(Snapshot) /\ Len(base) \in Nat
      /\ \A k \in 1 .. Len(base) : Earned(base[k])
  <2>1. CASE Len(undo_stack) >= MaxUndo
    <3>1. undo_stack # << >>
      BY <1>1, <2>1, EmptySeq
    <3>2. /\ Tail(undo_stack) \in Seq(Snapshot)
          /\ Len(Tail(undo_stack)) = Len(undo_stack) - 1
          /\ \A k \in 1 .. Len(Tail(undo_stack)) :
               Tail(undo_stack)[k] = undo_stack[k + 1]
      BY <1>1, <3>1, HeadTailProperties
    <3>3. base = Tail(undo_stack)
      BY <2>1
    <3> HIDE DEF base
    <3>4. \A k \in 1 .. Len(base) : k + 1 \in 1 .. Len(undo_stack)
      BY <1>1, <3>2, <3>3
    <3>5. Len(base) \in Nat
      BY <3>2, <3>3, LenProperties
    <3>6. QED
      BY <3>2, <3>3, <3>4, <3>5 DEF ScoreInv
  <2>2. CASE ~ (Len(undo_stack) >= MaxUndo)
    BY <1>1, <2>2 DEF ScoreInv
  <2>3. QED
    BY <2>1, <2>2
<1>5. PushSnapshot = Append(base, TakeSnapshot)
  BY DEF PushSnapshot
<1> HIDE DEF base
<1>6. /\ Len(PushSnapshot) = Len(base) + 1
      /\ \A k \in 1 .. Len(base) : PushSnapshot[k] = base[k]
      /\ PushSnapshot[Len(base) + 1] = TakeSnapshot
  BY <1>2, <1>4, <1>5, AppendProperties
<1>7. ASSUME NEW k \in 1 .. Len(PushSnapshot) PROVE Earned(PushSnapshot[k])
  <2>1. k \in 1 .. Len(base) \/ k = Len(base) + 1
    BY <1>4, <1>6
  <2>2. QED
    BY <1>3, <1>4, <1>6, <2>1
<1>8. QED
  BY <1>7

LEMMA InitSInv == Init => ScoreInv
<1> SUFFICES ASSUME Init PROVE ScoreInv
  OBVIOUS
<1>1. PICK deck \in Decks : piles = DealKlondike(deck)
  BY DEF Init
<1>2. WithinDeal(piles) /\ piles \in Boards
  BY <1>1, DealWithin, DealGood, DecksAssumption DEF GoodBoard
<1>3. Worth(piles) >= 0
  BY <1>2, WorthNatural
<1>4. score = 0 /\ Len(undo_stack) = 0
  BY EmptySeq DEF Init
<1>5. score <= (IF mode = "Zen" THEN 0 ELSE Worth(piles))
  BY <1>3, <1>4
<1>6. QED
  BY <1>2, <1>4, <1>5 DEF ScoreInv

LEMMA NextSInv == IInv /\ ScoreInv /\ [Next]_vars => ScoreInv'
<1> SUFFICES ASSUME IInv, ScoreInv, [Next]_vars PROVE ScoreInv'
  OBVIOUS
<1>1. /\ TypeOK /\ GoodBoard(piles) /\ piles \in Boards
      /\ score \in Nat /\ Worth(piles) \in Int
      /\ undo_stack \in Seq(Snapshot) /\ Len(undo_stack) \in Nat
  BY LenProperties, WorthParts DEF IInv, TypeOK, HeldBoards
<1>2. /\ WithinDeal(piles)
      /\ score <= (IF mode = "Zen" THEN 0 ELSE Worth(piles))
      /\ \A k \in 1 .. Len(undo_stack) : Earned(undo_stack[k])
      /\ \A k \in 1 .. Len(PushSnapshot) : Earned(PushSnapshot[k])
  BY PushEarned DEF ScoreInv
<1>3. ASSUME Draw PROVE ScoreInv'
  <2>1. DrawCount \in Nat
    BY DEF DrawCount
  <2>2. /\ piles' = AfterDraw(piles, DrawCount) /\ undo_stack' = PushSnapshot
        /\ score' = score /\ mode' = mode
    BY <1>3 DEF Draw
  <2>3. Worth(piles') = Worth(piles) /\ WithinDeal(piles')
    BY <1>1, <1>2, <2>1, <2>2, DrawWorth
  <2>4. QED
    BY <1>2, <2>2, <2>3 DEF ScoreInv
<1>4. ASSUME Recycle PROVE ScoreInv'
  <2> DEFINE penalty == ScoreRecycle(recycle_count', draw_mode = "DrawThree")
  <2>1. /\ piles' = AfterRecycle(piles) /\ undo_stack' = PushSnapshot
        /\ score' = IF mode = "Zen" THEN score ELSE Clamped(score + penalty)
        /\ mode' = mode /\ piles[Stock] = << >>
    BY <1>4 DEF Recycle
  <2>2. Worth(piles') = Worth(piles) /\ WithinDeal(piles')
    BY <1>1, <1>2, <2>1, RecycleWorth
  <2>3. penalty \in Int /\ penalty <= 0
    BY DEF ScoreRecycle
  <2> HIDE DEF penalty
  <2>4. score' <= score
    BY <1>1, <2>1, <2>3 DEF Clamped
  <2>5. score' \in Int
    BY <1>1, <2>1, <2>3 DEF Clamped
  <2>6. score' <= (IF mode' = "Zen" THEN 0 ELSE Worth(piles'))
    BY <1>1, <1>2, <2>1, <2>2, <2>4, <2>5
  <2>7. QED
    BY <1>2, <2>1, <2>2, <2>6 DEF ScoreInv
<1>5. ASSUME NEW from \in PileType, NEW to \in PileType,
             NEW count \in 1 .. Len(piles[from]), MoveCards(from, to, count)
      PROVE  ScoreInv'
  <2> DEFINE gain == ScoreMove(from, to)
             flip == IF Exposes(piles, from, count) THEN ScoreFlip ELSE 0
  <2>1. take_from_foundation \in BOOLEAN
    BY <1>1 DEF TypeOK
  <2>2. /\ MoveAllowed(piles, take_from_foundation, from, to, count)
        /\ piles' = AfterMove(piles, from, to, count)
        /\ undo_stack' = PushSnapshot /\ mode' = mode
        /\ score' = Clamped(score + MoveScore(from, to, count))
    BY <1>5 DEF MoveCards
  <2>3. /\ WithinDeal(piles')
        /\ Worth(piles') >= Worth(piles) + gain + flip
    BY <1>1, <1>2, <2>1, <2>2, MoveWorth
  <2>4. piles' \in Boards
    BY <1>1, <2>1, <2>2, MoveGood DEF GoodBoard
  <2>5. Worth(piles') \in Int /\ Worth(piles') >= 0
    BY <2>3, <2>4, WorthNatural, WorthParts
  <2>6. gain \in Int /\ flip \in Int
    BY DEF ScoreMove, ScoreFlip
  <2>7. score' = Clamped(score + (IF mode = "Zen" THEN 0 ELSE gain + flip))
    BY <2>2 DEF MoveScore
  <2> HIDE DEF gain, flip
  <2>8. score' <= (IF mode' = "Zen" THEN 0 ELSE Worth(piles'))
    <3>1. CASE mode = "Zen"
      BY <1>1, <1>2, <2>2, <2>7, <3>1 DEF Clamped
    <3>2. CASE mode # "Zen"
      BY <1>1, <1>2, <2>2, <2>3, <2>5, <2>6, <2>7, <3>2 DEF Clamped
    <3>3. QED
      BY <3>1, <3>2
  <2>9. QED
    BY <1>2, <2>2, <2>3, <2>8 DEF ScoreInv
<1>6. ASSUME Undo PROVE ScoreInv'
  <2> DEFINE last == undo_stack[Len(undo_stack)]
  <2>1. /\ undo_stack # << >> /\ undo_stack' = Front(undo_stack)
        /\ piles' = last.piles /\ mode' = mode
        /\ score' = IF mode = "Zen" THEN 0 ELSE Clamped(last.score + ScoreUndo)
    BY <1>6 DEF Undo, Last
  <2>2. Len(undo_stack) \in 1 .. Len(undo_stack)
    BY <1>1, <2>1, EmptySeq
  <2>3. last \in Snapshot /\ Earned(last)
    BY <1>1, <1>2, <2>2, ElementOfSeq
  <2>4. last.piles \in Boards /\ last.score \in Int
    BY <2>3 DEF Snapshot
  <2>5. /\ WithinDeal(last.piles) /\ last.score <= Worth(last.piles)
        /\ Worth(last.piles) \in Int /\ Worth(last.piles) >= 0
    BY <2>3, <2>4, WorthNatural, WorthParts DEF Earned
  <2> HIDE DEF last
  <2>6. /\ Len(undo_stack') = Len(undo_stack) - 1
        /\ \A k \in 1 .. Len(undo_stack) - 1 : undo_stack'[k] = undo_stack[k]
    <3>1. undo_stack' = DropCards(undo_stack, 1)
      BY <2>1 DEF Front, DropCards
    <3>2. undo_stack \in Seq(Snapshot) /\ 1 \in 0 .. Len(undo_stack)
      BY <1>1, <2>2
    <3>3. QED
      BY <3>1, <3>2, DropCardsFacts
  <2>7. score' <= (IF mode' = "Zen" THEN 0 ELSE Worth(piles'))
    BY <2>1, <2>4, <2>5 DEF Clamped, ScoreUndo
  <2>8. \A k \in 1 .. Len(undo_stack') : Earned(undo_stack'[k])
    <3>1. \A k \in 1 .. Len(undo_stack') :
            k \in 1 .. Len(undo_stack) - 1 /\ k \in 1 .. Len(undo_stack)
      BY <1>1, <2>6
    <3>2. QED
      BY <1>2, <2>6, <3>1
  <2>9. QED
    BY <2>1, <2>5, <2>7, <2>8 DEF ScoreInv
<1>7. ASSUME ChangeSetting PROVE ScoreInv'
  BY <1>2, <1>7 DEF ChangeSetting, ScoreInv
<1>8. ASSUME SaveAndLoad PROVE ScoreInv'
  <2>1. Len(undo_stack') = 0
    BY <1>8, EmptySeq DEF SaveAndLoad
  <2>2. QED
    BY <1>2, <1>8, <2>1 DEF SaveAndLoad, ScoreInv
<1>9. ASSUME UNCHANGED vars PROVE ScoreInv'
  BY <1>2, <1>9 DEF vars, ScoreInv
<1>10. QED
  BY <1>3, <1>4, <1>5, <1>6, <1>7, <1>8, <1>9 DEF Next

(* No play farms points: through every mix of moves, take-backs, recycles   *)
(* and undos the score (GameState::move_cards, undo) and each snapshot's    *)
(* stay within what their board is worth, and a Zen game scores nothing.    *)
THEOREM ScoreCorrect == Spec => []ScoreEarned
<1>1. ScoreInv => ScoreEarned
  BY DEF ScoreInv, Earned, ScoreEarned
<1>2. QED
  BY <1>1, InitSInv, NextSInv, InductiveInvariant, PTL DEF Spec
=============================================================================
