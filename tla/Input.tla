------------------------------- MODULE Input --------------------------------
(***************************************************************************)
(* How the player's mouse and keys become requests to the game: the drag   *)
(* pipeline and the shortcuts (input_plugin), the keyboard selection and   *)
(* lift (selection_plugin), the right-click radial menu (radial_menu) and  *)
(* the pause key (pause_plugin::toggle_pause), which share DragState, the  *)
(* selection and the pause flag.                                           *)
(*                                                                         *)
(* A frame has at most one event of the mouse and one key.  Its systems    *)
(* run once each, in any order the schedule allows: toggle_pause before    *)
(* the selection keys; those and the drag pipeline (a chain, taken as one  *)
(* step) before GameMutation; clear_selection_on_state_change after it;    *)
(* the radial menu at any place.  The touch pipeline is left out, as are   *)
(* the screens (module Session): the game is played or paused.             *)
(* The initial predicate, the next-state relation and the specification    *)
(* carry the name of the module, so that its proofs can extend those of    *)
(* GameState and cite what they say of the board.                          *)
(***************************************************************************)
EXTENDS KlondikeRules

CONSTANTS
  Deck,      (* the deck dealt by every new game                          *)
  MaxPast    (* bound on the moves that can be undone when a frame begins *)

ASSUME DeckAssumption == IsDeck(Deck) /\ Len(Deck) >= DealtBefore(NumColumns)
ASSUME MovesAssumption == MaxPast \in Nat

VARIABLES
  board,       (* the live game's piles                                   *)
  past,        (* the boards undo goes back to, oldest first              *)
  paused,      (* PausedResource                                          *)
  drag,        (* DragState                                               *)
  selected,    (* SelectionState::selected_pile                           *)
  lift,        (* KeyboardDragState                                       *)
  radial,      (* RightClickRadialState                                   *)
  held,        (* the mouse buttons that are down                         *)
  input,       (* the events of this frame                                *)
  ran,         (* the systems that have run in this frame                 *)
  asked,       (* the requests this frame has made: see KeyRequests       *)
  moves,       (* the move requests not yet handled                       *)
  changed,     (* a StateChangedEvent awaits clear_selection_...          *)
  was_paused   (* the pause flag as the frame began                       *)

inputVars == <<board, past, paused, drag, selected, lift, radial, held, input, ran,
               asked, moves, changed, was_paused>>

NoPile   == <<"none", 0>>
NoDrag   == [cards |-> << >>, origin |-> NoPile, committed |-> FALSE, by |-> "nobody"]
NoLift   == [source |-> NoPile, cards |-> << >>, destinations |-> << >>, index |-> 0]
NoRadial == [source |-> NoPile, destinations |-> {}]

(* What the pointer does, and where: at a card (its pile and index), at a   *)
(* pile (index 0), or at neither.  twice: the same card was clicked less    *)
(* than DOUBLE_CLICK_WINDOW ago.                                            *)
Nowhere == <<NoPile, 0>>
Spots   == {Nowhere} \cup (PileType \X (0 .. Cardinality(Face)))
Pointer == [does : {"nothing", "press", "move", "leave", "release", "pause",
                    "right press", "right release"},
            at : Spots, twice : BOOLEAN]
Keys    == {"none", "Esc", "Tab", "Enter", "Space", "Next", "U", "D", "N"}

Does(what)   == input.does = what
Typed(key)   == input.key = key
Idle         == drag = NoDrag
Systems      == {"pause", "chain", "select", "radial", "mutate", "clear"}
AtRest       == ran = {"rest"}
Due(system)  == ~ AtRest /\ system \notin ran
NoInput      == [does |-> "nothing", at |-> Nowhere, twice |-> FALSE, key |-> "none"]

Faces(cards) == [k \in 1 .. Len(cards) |-> [suit |-> cards[k].suit, rank |-> cards[k].rank]]

Request(from, to, count) == [from |-> from, to |-> to, count |-> count]
NoMoves == << >>

Dealt == DealKlondike(Deck)

InputInit ==
  /\ board = Dealt
  /\ past = << >>
  /\ paused = FALSE
  /\ drag = NoDrag
  /\ selected = NoPile
  /\ lift = NoLift
  /\ radial = NoRadial
  /\ held = {}
  /\ input = NoInput
  /\ ran = {"rest"}
  /\ asked = {}
  /\ moves = NoMoves
  /\ changed = FALSE
  /\ was_paused = FALSE

---------------------------------------------------------------------------
(* The player.                                                             *)

CardSpots == {s \in PileType \X (1 .. Cardinality(Face)) :
                s[1] # Stock /\ s[2] <= Len(board[s[1]]) /\ board[s[1]][s[2]].up
                /\ (s[1] \in Tableaus \/ s[2] = Len(board[s[1]]))}
PileSpots == {<<t, 0>> : t \in PileType}

(* What the mouse can do next: a button is pressed when it is up, released *)
(* when it is down.  "pause" is a click on the pause button of the HUD.    *)
PointerEvents ==
  [does : {"nothing"}, at : {Nowhere}, twice : {FALSE}]
  \cup (IF "left" \in held
        THEN [does : {"move", "leave"}, at : {Nowhere}, twice : {FALSE}]
             \cup [does : {"release"}, at : PileSpots \cup {Nowhere}, twice : {FALSE}]
        ELSE [does : {"press"}, at : CardSpots \cup {<<Stock, 0>>}, twice : BOOLEAN]
             \cup [does : {"pause"}, at : {Nowhere}, twice : {FALSE}])
  \cup (IF "right" \in held
        THEN [does : {"right release"},
              at : {<<t, 0>> : t \in radial.destinations} \cup {Nowhere},
              twice : {FALSE}]
        ELSE [does : {"right press"}, at : CardSpots, twice : {FALSE}])

HeldAfter(does) ==
  CASE does \in {"press", "pause"} -> held \cup {"left"}
    [] does = "release"            -> held \ {"left"}
    [] does = "right press"        -> held \cup {"right"}
    [] does = "right release"      -> held \ {"right"}
    [] OTHER                       -> held

BeginFrame ==
  /\ AtRest
  /\ \E e \in PointerEvents, key \in Keys :
       /\ Len(past) < MaxPast \/ key \in {"U", "N"}
       /\ input' = [does |-> e.does, at |-> e.at, twice |-> e.twice, key |-> key]
       /\ held' = HeldAfter(e.does)
  /\ ran' = {}
  /\ was_paused' = paused
  /\ UNCHANGED <<board, past, paused, drag, selected, lift, radial, asked, moves,
                 changed>>

---------------------------------------------------------------------------
(* toggle_pause: Esc or the button.  A selected card keeps the key for     *)
(* itself, a drag is cancelled by it.                                      *)

TogglePause ==
  /\ Due("pause")
  /\ ran' = ran \cup {"pause"}
  /\ IF ~ (Typed("Esc") \/ Does("pause")) \/ selected # NoPile
     THEN UNCHANGED <<drag, changed, paused>>
     ELSE IF ~ Idle
          THEN drag' = NoDrag /\ changed' = TRUE /\ UNCHANGED paused
          ELSE paused' = ~ paused /\ UNCHANGED <<drag, changed>>
  /\ UNCHANGED <<board, past, selected, lift, radial, held, input, asked, moves,
                 was_paused>>

---------------------------------------------------------------------------
(* The pipeline of input_plugin.                                           *)

FirstOf(S) == {CHOOSE s \in S : \A q \in S : s[2] <= q[2]}

FoundationsFor(card) == {t \in Foundations : CanPlaceOnFoundation(card, board[t])}
ColumnsFor(card)     == {t \in Tableaus : CanPlaceOnTableau(card, board[t])}

(* best_destination: the first foundation that takes the card, else the    *)
(* first column; a set of one pile or none.                                *)
BestDestination(card) ==
  IF FoundationsFor(card) # {} THEN FirstOf(FoundationsFor(card))
  ELSE IF ColumnsFor(card) # {} THEN FirstOf(ColumnsFor(card))
  ELSE {}

(* best_tableau_destination_for_stack                                      *)
BestColumn(bottom, from) ==
  IF ColumnsFor(bottom) \ {from} # {} THEN FirstOf(ColumnsFor(bottom) \ {from}) ELSE {}

(* The requests for n cards of a pile to one of the piles of a set of at    *)
(* most one.                                                               *)
Requests(from, piles, n) == SetToSeq({Request(from, t, n) : t \in piles})

(* handle_double_click: the top card to its best place, else the whole run *)
(* under the pointer to the best column, else only a sound.                *)
DoubleClicked(t, k) ==
  LET n == Len(board[t]) - k + 1
  IN  IF BestDestination(Last(board[t])) # {}
      THEN Requests(t, BestDestination(Last(board[t])), 1)
      ELSE IF n > 1 THEN Requests(t, BestColumn(board[t][k], t), n)
      ELSE NoMoves

(* start_drag: the card under the pointer and those above it, uncommitted. *)
Started(t, k) ==
  [cards |-> Faces(TopCards(board[t], Len(board[t]) - k + 1)), origin |-> t,
   committed |-> FALSE, by |-> "mouse"]

(* follow_drag: past the threshold the drag is committed; the pointer out  *)
(* of the window ends one that is not.  To be released over another pile,  *)
(* the pointer has crossed the threshold.                                  *)
Followed(d) ==
  IF d.by # "mouse" THEN d
  ELSE IF Does("leave") /\ ~ d.committed THEN NoDrag
  ELSE IF Does("move") \/ (Does("release") /\ input.at[1] # d.origin)
       THEN [d EXCEPT !.committed = TRUE]
  ELSE d

CardById(face) ==
  CHOOSE card \in Card : /\ card.suit = face.suit /\ card.rank = face.rank
                         /\ \E t \in PileType : \E k \in 1 .. Len(board[t]) :
                              board[t][k] = card

(* end_drag, committed: the rules are asked about the card lifted lowest,  *)
(* wherever it lies now; the request names the origin and a count.         *)
Dropped(d, target) ==
  LET bottom == CardById(d.cards[1])
  IN  IF \/ /\ target \in Foundations \ {d.origin}
            /\ Len(d.cards) = 1
            /\ CanPlaceOnFoundation(bottom, board[target])
         \/ /\ target \in Tableaus \ {d.origin}
            /\ CanPlaceOnTableau(bottom, board[target])
      THEN <<Request(d.origin, target, Len(d.cards))>>
      ELSE NoMoves

(* Mutant: releasing the button ends only a committed drag.                *)
ReleasedCommittedOnly(d) ==
  IF Does("release") /\ d.by = "mouse" /\ d.committed THEN NoDrag ELSE d

Released(d) == IF Does("release") /\ d.by = "mouse" THEN NoDrag ELSE d

(* Mutant: the keys are read while the game is paused.                     *)
KeyRequestsAlways ==
  (IF Typed("U") THEN {"undo"} ELSE {}) \cup (IF Typed("N") THEN {"new game"} ELSE {})
  \cup (IF Typed("D") \/ (Typed("Space") /\ selected = NoPile) THEN {"draw"} ELSE {})

(* handle_keyboard_core (N: the confirmed request of Shift+N).             *)
KeyRequests ==
  IF paused THEN {}
  ELSE (IF Typed("U") THEN {"undo"} ELSE {}) \cup (IF Typed("N") THEN {"new game"} ELSE {})
       \cup (IF Typed("D") \/ (Typed("Space") /\ selected = NoPile) THEN {"draw"} ELSE {})

(* The chain from handle_keyboard_core to end_drag.                        *)
Chain ==
  LET pressed == Does("press") /\ Idle /\ ~ paused
      onStock == pressed /\ input.at[1] = Stock
      onCard  == pressed /\ input.at[1] # Stock
      d1      == Followed(IF onCard THEN Started(input.at[1], input.at[2]) ELSE drag)
      drops   == Does("release") /\ d1.by = "mouse" /\ d1.committed
  IN  /\ Due("chain")
      /\ ran' = ran \cup {"chain"}
      /\ asked' = asked \cup KeyRequests \cup (IF onStock THEN {"click"} ELSE {})
      /\ IF paused
         THEN drag' = NoDrag /\ UNCHANGED <<moves, changed>>
         ELSE /\ drag' = Released(d1)
              /\ moves' = moves
                   \o (IF onCard /\ input.twice
                       THEN DoubleClicked(input.at[1], input.at[2]) ELSE NoMoves)
                   \o (IF drops THEN Dropped(d1, input.at[1]) ELSE NoMoves)
              /\ changed' = (changed \/ drops)
      /\ UNCHANGED <<board, past, paused, selected, lift, radial, held, input,
                     was_paused>>

---------------------------------------------------------------------------
(* handle_selection_keys.                                                  *)

CycledPiles ==
  <<Waste>> \o [k \in 1 .. NumSlots |-> Foundation(k - 1)]
            \o [k \in 1 .. NumColumns |-> Tableau(k - 1)]

Available == SelectSeq(CycledPiles, LAMBDA t : board[t] # << >> /\ Last(board[t]).up)

(* cycle_next_pile: the next available pile after the current one.         *)
CycleNextPile ==
  LET n     == Len(CycledPiles)
      from  == IF selected = NoPile THEN 0
               ELSE CHOOSE k \in 1 .. n : CycledPiles[k] = selected
      after(k) == CycledPiles[((from + k - 1) % n) + 1]
      found == {k \in 1 .. n : after(k) \in ToSet(Available)}
  IN  IF found = {} THEN NoPile ELSE after(Min(found))

(* legal_destinations_for: foundations first, in order.                    *)
LegalDestinationsFor(bottom, source, n) ==
  LET legal(t) == /\ t # source
                  /\ \/ t \in Foundations /\ n = 1 /\ CanPlaceOnFoundation(bottom, board[t])
                     \/ t \in Tableaus /\ CanPlaceOnTableau(bottom, board[t])
      among[k \in 0 .. Len(CycledPiles)] ==
        IF k = 0 THEN << >>
        ELSE IF legal(CycledPiles[k]) THEN Append(among[k - 1], CycledPiles[k])
        ELSE among[k - 1]
  IN  among[Len(CycledPiles)]

LiftFrom(source) ==
  LET n      == IF source \in Tableaus THEN Max({RunLength(board[source]), 1}) ELSE 1
      lifted == TopCards(board[source], n)
  IN  [source |-> source, cards |-> Faces(lifted), index |-> 1,
       destinations |-> LegalDestinationsFor(lifted[1], source, n)]

(* Space: the selected card to a foundation, else its run to a column,     *)
(* else the card to the best place there is.                               *)
AutoMove(source) ==
  LET n   == RunLength(board[source])
      top == Last(board[source])
      bottom == board[source][Len(board[source]) - n + 1]
  IN  IF FoundationsFor(top) # {}
      THEN Requests(source, FirstOf(FoundationsFor(top)), 1)
      ELSE IF BestColumn(bottom, source) # {}
      THEN Requests(source, BestColumn(bottom, source), n)
      ELSE Requests(source, BestDestination(top), 1)

(* Mutant: the last destination is not followed by the first.              *)
NextDestinationUnwrapped == lift.index + 1

NextDestination == (lift.index % Len(lift.destinations)) + 1

(* Destinations are being chosen: arrows, Enter and Esc.                   *)
ChooseDestination ==
  /\ lift # NoLift
  /\ \/ /\ input.key \in {"Next", "Tab"}
        /\ lift' = [lift EXCEPT !.index = NextDestination]
        /\ UNCHANGED <<drag, moves>>
     \/ /\ input.key \in {"Enter", "Esc"}
        /\ moves' = IF Typed("Esc") THEN moves
                    ELSE Append(moves, Request(lift.source,
                                               lift.destinations[lift.index],
                                               Len(lift.cards)))
        /\ lift' = NoLift
        /\ drag' = NoDrag
     \/ /\ input.key \notin {"Next", "Tab", "Enter", "Esc"}
        /\ UNCHANGED <<lift, drag, moves>>
  /\ UNCHANGED selected

(* A source is being chosen: Tab, Esc, Space and Enter.                    *)
ChooseSource ==
  /\ lift = NoLift
  /\ LET ready == selected # NoPile /\ board[selected] # << >>
         auto  == IF Typed("Space") /\ ready /\ Last(board[selected]).up
                  THEN AutoMove(selected) ELSE NoMoves
         lifts == Typed("Enter") /\ ready /\ LiftFrom(selected).destinations # << >>
     IN  /\ selected' = CASE Typed("Tab") -> CycleNextPile
                          [] Typed("Esc") \/ auto # NoMoves -> NoPile
                          [] OTHER -> selected
         /\ moves' = moves \o auto
         /\ IF lifts
            THEN /\ lift' = LiftFrom(selected)
                 /\ drag' = [cards |-> lift'.cards, origin |-> selected,
                             committed |-> FALSE, by |-> "keyboard"]
            ELSE UNCHANGED <<lift, drag>>

SelectionKeys ==
  /\ Due("select")
  /\ "pause" \in ran
  /\ ran' = ran \cup {"select"}
  /\ IF paused \/ drag.by = "mouse"
     THEN UNCHANGED <<selected, lift, drag, moves>>
     ELSE ChooseDestination \/ ChooseSource
  /\ UNCHANGED <<board, past, paused, radial, held, input, asked, changed, was_paused>>

---------------------------------------------------------------------------
(* The radial menu.                                                        *)

(* radial_open_on_right_click: over a face-up card with some place to go.  *)
RadialOpened ==
  LET t     == input.at[1]
      card  == board[t][input.at[2]]
      dests == (FoundationsFor(card) \cup ColumnsFor(card)) \ {t}
  IN  IF /\ Does("right press") /\ input.at \in CardSpots
         /\ ~ paused /\ Idle /\ radial = NoRadial /\ dests # {}
      THEN [source |-> t, destinations |-> dests]
      ELSE radial

(* Mutant: only releasing the button closes the menu.                      *)
RadialClosesOnRelease == Does("right release")

RadialCloses == Typed("Esc") \/ input.does \in {"right release", "press", "pause"}

(* ... then radial_handle_release_or_cancel: a release over an icon asks   *)
(* for one card to be moved there.                                         *)
Radial ==
  /\ Due("radial")
  /\ ran' = ran \cup {"radial"}
  /\ LET open == RadialOpened
     IN  IF open # NoRadial /\ RadialCloses
         THEN /\ radial' = NoRadial
              /\ moves' = IF Does("right release") /\ input.at[1] \in open.destinations
                          THEN Append(moves, Request(open.source, input.at[1], 1))
                          ELSE moves
         ELSE radial' = open /\ UNCHANGED moves
  /\ UNCHANGED <<board, past, paused, drag, selected, lift, held, input, asked,
                 changed, was_paused>>

---------------------------------------------------------------------------
(* GameMutation: new game, draws, moves and undo, in this order, on        *)
(* [board, past, changed].                                                 *)

AfterNewGame(g) ==
  IF "new game" \in asked THEN [board |-> Dealt, past |-> << >>, changed |-> TRUE] ELSE g

Played(g, next) == [board |-> next, past |-> Append(g.past, g.board), changed |-> TRUE]

DrawFor(request, g) ==
  IF \/ request \notin asked
     \/ CheckWin(g.board)
     \/ g.board[Stock] \o g.board[Waste] = << >>
  THEN g
  ELSE Played(g, IF g.board[Stock] # << >> THEN AfterDraw(g.board, 1)
                                           ELSE AfterRecycle(g.board))

(* The key's draw request comes before the one of the click on the stock.   *)
AfterDraws(g) == DrawFor("click", DrawFor("draw", g))

AfterRequest(g, m) ==
  IF CheckWin(g.board) \/ ~ MoveAllowed(g.board, TRUE, m.from, m.to, m.count) THEN g
  ELSE Played(g, AfterMove(g.board, m.from, m.to, m.count))

AfterUndo(g) ==
  IF "undo" \notin asked \/ CheckWin(g.board) \/ g.past = << >> THEN g
  ELSE [board |-> Last(g.past), past |-> Front(g.past), changed |-> TRUE]

GameMutation ==
  /\ Due("mutate")
  /\ {"chain", "select"} \subseteq ran
  /\ ran' = ran \cup {"mutate"}
  /\ LET before == AfterDraws(AfterNewGame([board |-> board, past |-> past,
                                            changed |-> changed]))
         after[k \in 0 .. Len(moves)] ==
           IF k = 0 THEN before ELSE AfterRequest(after[k - 1], moves[k])
         g == AfterUndo(after[Len(moves)])
     IN  /\ board' = g.board
         /\ past' = g.past
         /\ changed' = g.changed
  /\ moves' = NoMoves
  /\ UNCHANGED <<paused, drag, selected, lift, radial, held, input, asked, was_paused>>

(* Mutant: the selection goes, the lifted cards stay lifted.               *)
LiftAfterChangeKept == lift

LiftAfterChange == NoLift

(* clear_selection_on_state_change                                         *)
ClearSelection ==
  /\ Due("clear")
  /\ "mutate" \in ran
  /\ ran' = ran \cup {"clear"}
  /\ changed' = FALSE
  /\ IF changed
     THEN /\ selected' = NoPile
          /\ lift' = LiftAfterChange
          /\ drag' = IF lift # NoLift /\ drag.by = "keyboard" THEN NoDrag ELSE drag
     ELSE UNCHANGED <<selected, lift, drag>>
  /\ UNCHANGED <<board, past, paused, radial, held, input, asked, moves, was_paused>>

EndFrame ==
  /\ ran = Systems
  /\ ran' = {"rest"}
  /\ input' = NoInput
  /\ asked' = {}
  /\ UNCHANGED <<board, past, paused, drag, selected, lift, radial, held, moves,
                 changed, was_paused>>

InputNext ==
  \/ BeginFrame
  \/ TogglePause
  \/ Chain
  \/ SelectionKeys
  \/ Radial
  \/ GameMutation
  \/ ClearSelection
  \/ EndFrame

InputSpec == InputInit /\ [][InputNext]_inputVars

---------------------------------------------------------------------------
(* Properties.                                                             *)

(* Every variable has its type, and the destination chosen exists.         *)
InputTypeOK ==
  /\ board \in Boards
  /\ past \in Seq(Boards)
  /\ paused \in BOOLEAN /\ was_paused \in BOOLEAN /\ changed \in BOOLEAN
  /\ drag \in [cards : Seq(Face), origin : PileType \cup {NoPile},
               committed : BOOLEAN, by : {"nobody", "mouse", "keyboard"}]
  /\ selected \in PileType \cup {NoPile}
  /\ lift \in [source : PileType \cup {NoPile}, cards : Seq(Face),
               destinations : Seq(PileType), index : Nat]
  /\ lift.index <= Len(lift.destinations)
  /\ radial \in [source : PileType \cup {NoPile}, destinations : SUBSET PileType]
  /\ held \subseteq {"left", "right"}
  /\ ran \subseteq Systems \cup {"rest"}
  /\ asked \subseteq {"draw", "click", "undo", "new game"}
  /\ moves \in Seq([from : PileType, to : PileType, count : Nat \ {0}])

(* Between frames every drag has an owner that can end it: the mouse while *)
(* its button is down, the keyboard while its cards are lifted.  DragState *)
(* is written by five systems, and a drag nobody holds would lock every    *)
(* other way to move a card.                                               *)
DragsOwned ==
  AtRest => /\ drag.by = "mouse" => "left" \in held
            /\ drag.by = "keyboard" <=> lift # NoLift

(* Between frames what is lifted by keyboard is what lies on the board: the *)
(* cards are the top ones of the selected pile, and each destination on     *)
(* offer is a move the game would accept (from one foundation to another it *)
(* refuses, although legal_destinations_for offers the Ace's).  The list is *)
(* computed once, at the lift; draws, undos, new games and moves of the     *)
(* mouse may change the board at any time.  (And every variable has its     *)
(* type: the destination chosen is one of the list.)                        *)
LiftFresh ==
  /\ InputTypeOK
  /\ AtRest /\ lift # NoLift =>
       LET n == Len(lift.cards)
       IN  /\ selected = lift.source
           /\ drag.cards = lift.cards /\ drag.origin = lift.source
           /\ n <= Len(board[lift.source])
           /\ lift.cards = Faces(TopCards(board[lift.source], n))
           /\ \A k \in 1 .. Len(lift.destinations) :
                \/ {lift.source, lift.destinations[k]} \subseteq Foundations
                \/ MoveAllowed(board, TRUE, lift.source, lift.destinations[k], n)

(* In a frame that begins paused, and as long as it stays so, nothing is    *)
(* asked of the game: no key, click, drop, lift or menu gets through.  The  *)
(* radial menu never looks at the flag: it must be closed by whatever       *)
(* pauses.  (A move it asked for in the frame of the pause itself may still *)
(* be carried out in the next.)                                             *)
PausedAsksNothing ==
  [][was_paused /\ paused => asked' = {} /\ moves' \in {moves, NoMoves}]_inputVars
=============================================================================
