------------------------------- MODULE Table -------------------------------
(***************************************************************************)
(* The table the player sees: one sprite per rendered card (card_plugin),  *)
(* brought in line with the game whenever it reports a change, and the     *)
(* animations that move sprites on their own, each in a component of its   *)
(* own: the slide (CardAnim, animation_plugin), the tween (CardAnimation,  *)
(* card_animation) of a rejected drop and of a win, the shake and the deal *)
(* (feedback_anim_plugin).  Nothing keeps one of them from running on a    *)
(* card that another one is moving.                                        *)
(*                                                                         *)
(* A frame is one doing of the player and what the game makes of it, then  *)
(* the systems that have something to do, once each and in any order: the  *)
(* schedule only puts them behind GameMutation.  What a system asks for by *)
(* Commands happens at the next of the schedule's sync points, with what   *)
(* the other systems have asked for until then; what it writes itself      *)
(* happens at once.  How long an animation takes is left open: a tick      *)
(* moves its card on or ends it.  The fan of the columns is constant:      *)
(* update_tableau_fan_frac clamps to the value compute_layout has set for  *)
(* every column of at most thirteen cards.                                 *)
(***************************************************************************)
EXTENDS KlondikeRules, SequencesExt, FiniteSetsExt

CONSTANTS
  Deck,         (* the deck dealt by every new game                        *)
  CardsPerDraw, (* 1 or 3: DrawMode                                        *)
  Saved,        (* the piles of the unfinished game a launch may offer     *)
  Doings,       (* which of the player's rarer doings happen               *)
  MaxDoings     (* bound on the doings of a story                          *)

AllDoings == {"restore", "new game", "resize", "settings", "pause"}

ASSUME DeckAssumption == IsDeck(Deck) /\ Len(Deck) >= DealtBefore(NumColumns)
ASSUME TableAssumption == /\ CardsPerDraw \in {1, 3} /\ Doings \subseteq AllDoings
                          /\ MaxDoings \in Nat

(* The saved game was played by the rules: what BoardsKept and             *)
(* CardsConserved say of every board of a game.                            *)
ASSUME SavedAssumption ==
  /\ Saved \in Boards /\ Facings(Saved)
  /\ \A i \in Columns : ColumnBuilt(Saved[Tableau(i)])
  /\ \A i \in Slots : FoundationBuilt(Saved[Foundation(i)])
  /\ \A f \in Face : Cardinality(Positions(Saved, f)) = 1

VARIABLES
  live,     (* GameStateResource: the piles                                *)
  past,     (* the boards undo goes back to, the last one first            *)
  begun,    (* the game is one that moves had been made in when restored   *)
  size,     (* the window size LayoutResource is computed for              *)
  resized,  (* ResizeThrottle::pending                                     *)
  instant,  (* EffectiveSlideDuration is 0                                 *)
  paused,   (* PausedResource                                              *)
  drag,     (* DragState of a committed drag: the cards and their origin   *)
  drawn,    (* the card sprites: where each is, its face, what moves it    *)
  sign,     (* the label of the empty stock                                *)
  lit,      (* the piles lit by a right click, and the card it was on      *)
  todo,     (* the systems of this frame that are still to run             *)
  queued,   (* the commands of the systems that ran since the sync point   *)
  rejected, (* the destinations of this frame's MoveRejectedEvent          *)
  settling, (* history: the cards nothing was moving at the last change    *)
  done      (* the doings so far                                           *)

liveGame == <<live, past, begun>>
window   == <<size, resized, instant>>
table    == <<drawn, sign, lit>>
frame    == <<todo, queued, rejected>>
tableVars == <<liveGame, window, paused, drag, table, frame, settling, done>>

---------------------------------------------------------------------------
(* Places.  A place has an x and a y, both of the window size they were    *)
(* computed for; on its way a sprite is at neither end in the coordinates  *)
(* in which they differ.                                                   *)

Somewhere == << >>
Nowhere   == [x |-> << -1 >>, y |-> << -1 >>]
Hand      == [x |-> << -2 >>, y |-> << -2 >>]
Outside   == [x |-> << -3 >>, y |-> << -3 >>]

(* compute_layout's columns: the third of the top row is left free.        *)
GridColumn(t) ==
  CASE t = Stock -> 0 [] t = Waste -> 1 [] t \in Foundations -> 3 + t[2] [] OTHER -> t[2]

(* card_positions: the waste shows its top cards and keeps one more, below *)
(* them, that is hidden.                                                   *)
Shown == CardsPerDraw
Spots(p) == Places(PileType, p)
Buried(p, s)  == s[1] = Waste /\ s[2] = Len(p[Waste]) - Shown
Rendered(p)   == {s \in Spots(p) : s[1] = Waste => s[2] >= Len(p[Waste]) - Shown}

Fanned(p, k) ==
  LET below == IF Len(p[Waste]) > Shown THEN Len(p[Waste]) - Shown ELSE 0
  IN  IF CardsPerDraw = 1 \/ k <= below THEN 0 ELSE k - below - 1

Place(p, s) ==
  LET downs == Cardinality({j \in 1 .. s[2] - 1 : ~ p[s[1]][j].up})
  IN  [x |-> <<size, GridColumn(s[1]), IF s[1] = Waste THEN Fanned(p, s[2]) ELSE 0>>,
       y |-> IF s[1] \in Tableaus THEN <<size, 1, downs, s[2] - 1 - downs>>
             ELSE <<size, 0, 0, 0>>]

FaceOf(card)    == [suit |-> card.suit, rank |-> card.rank]
CardAt(p, s)    == p[s[1]][s[2]]
SpotOf(p, face) == CHOOSE s \in Spots(p) : FaceOf(CardAt(p, s)) = face
FacesOf(p)      == {FaceOf(CardAt(p, s)) : s \in Rendered(p)}
Home(p, face)   == Place(p, SpotOf(p, face))
StockPlace      == Place(live, <<Stock, 1>>)

---------------------------------------------------------------------------
(* Sprites.                                                                *)

(* spawn_card_entity: at its place, moved by nothing.                      *)
Sprite(p, face) ==
  [at |-> Home(p, face), up |-> CardAt(p, SpotOf(p, face)).up,
   hidden |-> Buried(p, SpotOf(p, face)), tilted |-> FALSE,
   slide |-> Nowhere, tween |-> Nowhere, shake |-> {}]

NewDeal  == DealKlondike(Deck)
NoDrag == [cards |-> {}, origin |-> Stock]
NoLit  == [piles |-> {}, card |-> CHOOSE card \in Card : TRUE]

TableInit ==
  /\ live = NewDeal /\ past = << >> /\ begun = FALSE
  /\ size = 0 /\ resized = FALSE /\ instant = FALSE
  /\ paused = FALSE
  /\ drag = NoDrag
  /\ drawn = [f \in FacesOf(live) |-> Sprite(live, f)]
  /\ sign = (live[Stock] = << >>)
  /\ lit = NoLit
  /\ todo = {} /\ queued = {} /\ rejected = {}
  /\ settling = Face /\ done = 0

---------------------------------------------------------------------------
(* A frame.                                                                *)

Won == CheckWin(live)
BetweenFrames == todo = {} /\ queued = {}
FacesFrom(s) == {FaceOf(CardAt(live, <<s[1], k>>)) : k \in s[2] .. Len(live[s[1]])}
FacesIn(t) == FacesFrom(<<t, 1>>)
Spot(face) == SpotOf(live, face)

Moving(d) ==
  (IF \E f \in DOMAIN d : d[f].slide # Nowhere THEN {"slides"} ELSE {})
  \cup (IF \E f \in DOMAIN d : d[f].tween # Nowhere THEN {"tweens"} ELSE {})
  \cup (IF \E f \in DOMAIN d : d[f].shake # {} THEN {"shakes"} ELSE {})

(* What the systems due may set moving in their own frame.                 *)
SetMoving(due) ==
  (IF due \cap {"sync", "deal"} # {} THEN {"slides"} ELSE {})
  \cup (IF "cascade" \in due THEN {"tweens"} ELSE {})
  \cup (IF "shake" \in due THEN {"shakes"} ELSE {})

(* follow_drag, every frame: the dragged cards are at the pointer.         *)
Carried(d, cards) ==
  [f \in DOMAIN d |-> IF f \in cards THEN [d[f] EXCEPT !.at = Hand] ELSE d[f]]

(* Mutant: the light outlives the pause.                                   *)
PutOutOnChange(due) == IF "sync" \in due \/ drag' # NoDrag THEN NoLit ELSE lit

(* clear_right_click_highlights, on a change, a pause and the press of a   *)
(* drag.                                                                   *)
PutOut(due) == IF "sync" \in due \/ paused' \/ drag' # NoDrag THEN NoLit ELSE lit

Following == Carried(drawn, drag.cards)

Still(s) == s.slide = Nowhere /\ s.tween = Nowhere /\ s.shake = {}
StillFaces == IF resized THEN {} ELSE {f \in Face : f \in DOMAIN drawn => Still(drawn[f])}

(* The frame goes on from the sprites d with the systems due.  Those that  *)
(* move the sprites do so in every frame not paused; the sign of the stock *)
(* (update_stock_empty_indicator) and the light of a right click are seen  *)
(* to here, as no other system of the frame reads them.                    *)
GoOn(d, due) ==
  /\ drawn' = d
  /\ sign' = IF "sync" \in due THEN live'[Stock] = << >> ELSE sign
  /\ lit' = PutOut(due)
  /\ todo' = due \cup (IF resized' THEN {"snap"} ELSE {})
                 \cup (IF paused' THEN {} ELSE Moving(d) \cup SetMoving(due))
  /\ UNCHANGED queued

Doing ==
  /\ BetweenFrames
  /\ done < MaxDoings
  /\ done' = done + 1

(* A frame in which nobody does anything.                                  *)
Idle ==
  /\ BetweenFrames
  /\ resized \/ (~ paused /\ Moving(drawn) # {})
  /\ UNCHANGED <<liveGame, window, paused, drag, rejected, settling, done>>
  /\ GoOn(Following, {})

---------------------------------------------------------------------------
(* What the player does, and what the game makes of it.                    *)

(* The game has changed to b; a won game lets the cascade loose.           *)
Play(b, dragging) ==
  /\ drag' = dragging
  /\ live' = b
  /\ past' = << live >> \o past
  /\ UNCHANGED begun
  /\ settling' = (IF CheckWin(b) THEN {} ELSE StillFaces)
  /\ GoOn(Carried(drawn, dragging.cards),
           {"sync"} \cup (IF CheckWin(b) THEN {"cascade"} ELSE {}))

(* A move or a draw by keyboard, click or auto-complete; a drag goes on.   *)
PlayMove ==
  /\ Doing
  /\ ~ paused
  /\ ~ Won
  /\ UNCHANGED <<window, paused, rejected>>
  /\ \/ \E m \in PossibleInstructions(live, TRUE) : Play(AfterMove(live, m[1], m[2], m[3]), drag)
     \/ live[Stock] # << >> /\ Play(AfterDraw(live, CardsPerDraw), drag)
     \/ live[Stock] = << >> /\ live[Waste] # << >> /\ Play(AfterRecycle(live), drag)

UndoMove ==
  /\ Doing
  /\ ~ paused
  /\ ~ Won
  /\ past # << >>
  /\ UNCHANGED <<begun, window, paused, drag, rejected>>
  /\ live' = Head(past)
  /\ past' = Tail(past)
  /\ settling' = StillFaces
  /\ GoOn(Following, {"sync"})

(* handle_restore_prompt, at launch: the saved game has no undo.           *)
Restore ==
  /\ BetweenFrames
  /\ "restore" \in Doings
  /\ done = 0 /\ ~ begun
  /\ UNCHANGED <<window, paused, drag, rejected, done>>
  /\ live' = Saved /\ past' = << >> /\ begun' = TRUE
  /\ settling' = StillFaces
  /\ GoOn(drawn, {"sync"})

(* A request for a new game is read by two systems: handle_new_game deals, *)
(* or puts the deal off (a confirmation, a seed search), and puts every    *)
(* sprite on the stock; start_deal_anim, perhaps a frame before it, is due *)
(* whenever no move has been made.                                         *)
AskNewGame ==
  /\ Doing
  /\ "new game" \in Doings
  /\ UNCHANGED <<window, paused, drag, rejected>>
  /\ \E dealt, animated \in BOOLEAN :
       /\ dealt \/ animated
       /\ IF dealt THEN live' = NewDeal /\ past' = << >> /\ begun' = FALSE
          ELSE UNCHANGED liveGame
       /\ settling' = (IF animated THEN {} ELSE StillFaces)
       /\ GoOn(IF dealt THEN [f \in DOMAIN drawn |-> [Following[f] EXCEPT !.at = StockPlace]]
                ELSE Following,
                (IF dealt THEN {"sync"} ELSE {})
                \cup (IF animated /\ past' = << >> /\ ~ begun' THEN {"deal"} ELSE {}))

(* on_window_resized and collect_resize_events                             *)
Resize ==
  /\ Doing
  /\ "resize" \in Doings
  /\ UNCHANGED <<liveGame, instant, paused, drag, rejected>>
  /\ size' = 1 - size
  /\ resized' = TRUE
  /\ settling' = StillFaces
  /\ GoOn(Following, {})

(* resync_cards_on_settings_change, sync_slide_duration                    *)
ChangeSettings ==
  /\ Doing
  /\ "settings" \in Doings
  /\ UNCHANGED <<liveGame, size, resized, paused, drag, rejected>>
  /\ instant' \in BOOLEAN
  /\ settling' = StillFaces
  /\ GoOn(Following, {"sync"})

(* toggle_pause: a drag is cancelled instead.                              *)
Pause ==
  /\ Doing
  /\ "pause" \in Doings
  /\ UNCHANGED <<liveGame, window, rejected>>
  /\ drag' = NoDrag
  /\ IF drag = NoDrag
     THEN /\ paused' = ~ paused
          /\ UNCHANGED settling
          /\ GoOn(drawn, {})
     ELSE /\ UNCHANGED paused
          /\ settling' = StillFaces
          /\ GoOn(drawn, {"sync"})

Draggable(s) ==
  /\ s[1] # Stock
  /\ CardAt(live, s).up
  /\ s[1] \in Tableaus \/ s[2] = Len(live[s[1]])

(* follow_drag commits the drag that start_drag has begun.                 *)
Grab ==
  /\ Doing
  /\ ~ paused
  /\ drag = NoDrag
  /\ UNCHANGED <<liveGame, window, paused, rejected, settling>>
  /\ \E s \in {q \in Spots(live) : Draggable(q)} :
       /\ drag' = [cards |-> FacesFrom(s), origin |-> s[1]]
       /\ GoOn(Carried(drawn, FacesFrom(s)), {})

(* end_drag: a change is reported whatever comes of the drop.              *)
Dropping ==
  /\ BetweenFrames
  /\ ~ paused
  /\ drag # NoDrag
  /\ UNCHANGED <<window, paused, done>>
  /\ drag' = NoDrag

(* It asks the rules about the lowest card lifted.                         *)
Lowest   == CHOOSE card \in Card : /\ FaceOf(card) \in drag.cards
                                   /\ \A f \in drag.cards : f.rank <= card.rank
Takes(t) == IF t \in Foundations
            THEN Cardinality(drag.cards) = 1 /\ CanPlaceOnFoundation(Lowest, live[t])
            ELSE CanPlaceOnTableau(Lowest, live[t])

Aside(t) == {f \in FacesIn(t) \cap DOMAIN drawn :
               drawn[f].at # Home(live, f) \/ ~ Still(drawn[f])}

(* The request names pile and count: the game may still refuse it, if it   *)
(* has changed under the drag.                                             *)
Drop ==
  /\ Dropping
  /\ \E t \in (Foundations \cup Tableaus) \ {drag.origin} :
       /\ Takes(t)
       /\ \/ /\ ~ Won
             /\ MoveAllowed(live, TRUE, drag.origin, t, Cardinality(drag.cards))
             /\ Play(AfterMove(live, drag.origin, t, Cardinality(drag.cards)), NoDrag)
             /\ UNCHANGED rejected
          \/ /\ Won \/ ~ MoveAllowed(live, TRUE, drag.origin, t, Cardinality(drag.cards))
             /\ UNCHANGED liveGame
             /\ rejected' = {t}
             /\ settling' = StillFaces \ Aside(t)
             /\ GoOn(drawn, {"sync", "shake"})

DropOutside ==
  /\ Dropping
  /\ UNCHANGED <<liveGame, rejected>>
  /\ settling' = StillFaces
  /\ GoOn(drawn, {"sync"})

(* Over a pile that does not take the cards: each still in its pile glides *)
(* back to its place there.                                                *)
DropRejected ==
  /\ Dropping
  /\ UNCHANGED liveGame
  /\ \E t \in (Foundations \cup Tableaus) \ {drag.origin} :
       /\ ~ Takes(t)
       /\ rejected' = {t}
       /\ settling' = StillFaces \ Aside(t)
  /\ GoOn([f \in DOMAIN drawn |->
              IF f \in drag.cards \cap FacesIn(drag.origin)
              THEN [drawn[f] EXCEPT !.tween = Home(live, f)] ELSE drawn[f]],
           {"sync", "shake"})

Takers(card) == {t \in Foundations : CanPlaceOnFoundation(card, live[t])}
                \cup {t \in Tableaus : CanPlaceOnTableau(card, live[t])}

(* handle_double_click on a card that can go nowhere.                      *)
DoubleClickRejected ==
  /\ Doing
  /\ ~ paused
  /\ drag = NoDrag
  /\ UNCHANGED <<liveGame, window, paused, drag>>
  /\ \E s \in {q \in Spots(live) : Draggable(q)} :
       /\ Takers(Last(live[s[1]])) \cup Takers(CardAt(live, s)) \subseteq {s[1]}
       /\ rejected' = {s[1]}
       /\ settling' = settling \ Aside(s[1])
  /\ GoOn(drawn, {"shake"})

(* handle_right_click, on a card that is drawn, and the timer of the light. *)
RightClick ==
  /\ Doing
  /\ ~ paused
  /\ drag = NoDrag
  /\ \E f \in DOMAIN drawn :
       LET card == CardAt(live, Spot(f))
       IN  card.up /\ lit' = [piles |-> Takers(card), card |-> card]
  /\ UNCHANGED <<liveGame, window, paused, drag, drawn, sign, frame, settling>>

Expire ==
  /\ BetweenFrames
  /\ ~ paused
  /\ lit # NoLit
  /\ lit' = NoLit
  /\ UNCHANGED <<liveGame, window, paused, drag, drawn, sign, frame, settling, done>>

Does == \/ PlayMove \/ UndoMove \/ Restore \/ AskNewGame \/ Resize \/ ChangeSettings \/ Pause
        \/ Grab \/ Drop \/ DropOutside \/ DropRejected \/ DoubleClickRejected
        \/ RightClick \/ Expire

---------------------------------------------------------------------------
(* The systems of a frame.                                                 *)

Run(system) == system \in todo /\ todo' = todo \ {system}
OnlySprites == UNCHANGED <<liveGame, window, paused, drag, sign, lit, settling, done>>

(* The system has seen the sprites and asks for changes to some of them.   *)
Ask(system, some) ==
  queued' = queued \cup (IF some = {} THEN {} ELSE {[by |-> system, seen |-> drawn, of |-> some]})

(* sync_cards_on_change                                                    *)
SyncCards ==
  /\ Run("sync")
  /\ queued' = queued \cup {[by |-> "sync", seen |-> drawn, of |-> FacesOf(live)]}
  /\ UNCHANGED <<drawn, rejected>> /\ OnlySprites

(* start_deal_anim                                                         *)
Deal ==
  /\ Run("deal")
  /\ Ask("deal", DOMAIN drawn)
  /\ UNCHANGED <<drawn, rejected>> /\ OnlySprites

(* start_shake_anim: the cards of the pile; none with reduced motion.      *)
StartShake ==
  /\ Run("shake")
  /\ \/ Ask("shake", DOMAIN drawn \cap UNION {FacesIn(t) : t \in rejected})
     \/ instant /\ UNCHANGED queued
  /\ rejected' = {}
  /\ UNCHANGED drawn /\ OnlySprites

(* handle_win_cascade                                                      *)
Cascade ==
  /\ Run("cascade")
  /\ Ask("cascade", DOMAIN drawn)
  /\ UNCHANGED <<drawn, rejected>> /\ OnlySprites

Toward(at, end) == [x |-> IF at.x = end.x THEN at.x ELSE Somewhere,
                    y |-> IF at.y = end.y THEN at.y ELSE Somewhere]

(* advance_card_anims: the slides go on or end, all alike: no sprite's way *)
(* depends on another's, so that any one of them goes every way there is.  *)
TickSlides ==
  /\ Run("slides")
  /\ \E ended \in {{}, {f \in DOMAIN drawn : drawn[f].slide # Nowhere}} :
       /\ drawn' = [f \in DOMAIN drawn |->
                      LET s == drawn[f]
                      IN  IF f \in ended THEN [s EXCEPT !.at = s.slide]
                          ELSE IF s.slide # Nowhere THEN [s EXCEPT !.at = Toward(@, s.slide)]
                          ELSE s]
       /\ Ask("slides", ended)
  /\ UNCHANGED rejected /\ OnlySprites

(* advance_card_animations                                                 *)
TickTweens ==
  /\ Run("tweens")
  /\ \E ended \in {{}, {f \in DOMAIN drawn : drawn[f].tween # Nowhere}} :
       /\ drawn' = [f \in DOMAIN drawn |->
                      LET s == drawn[f]
                      IN  IF f \in ended THEN [s EXCEPT !.at = s.tween]
                          ELSE IF s.tween # Nowhere THEN [s EXCEPT !.at = Toward(@, s.tween)]
                          ELSE s]
       /\ Ask("tweens", ended)
  /\ UNCHANGED rejected /\ OnlySprites

(* Mutant: a shake that ends leaves its card where it is.                  *)
ShakeEndedThere(s) == s.at.x

(* A shake that ends puts its card back to the x it was begun at, wherever *)
(* the card belongs by then.                                               *)
ShakeEnded(s) == CHOOSE x \in s.shake : TRUE

(* tick_shake_anim                                                         *)
TickShakes ==
  /\ Run("shakes")
  /\ \E ended \in {{}, {f \in DOMAIN drawn : drawn[f].shake # {}}} :
       /\ drawn' = [f \in DOMAIN drawn |->
                      LET s == drawn[f]
                      IN  IF f \in ended THEN [s EXCEPT !.at.x = ShakeEnded(s)]
                          ELSE IF s.shake # {} THEN [s EXCEPT !.at.x = Somewhere]
                          ELSE s]
       /\ Ask("shakes", ended)
  /\ UNCHANGED rejected /\ OnlySprites

(* snap_cards_on_window_resize, now or when the throttle lets it: every    *)
(* card at its place, its slide cancelled; the sign of the stock as well.  *)
Snap ==
  /\ Run("snap")
  /\ \/ UNCHANGED <<drawn, sign, resized, queued>>
     \/ /\ drawn' = [f \in DOMAIN drawn |->
                       IF f \in FacesOf(live) THEN [drawn[f] EXCEPT !.at = Home(live, f)]
                       ELSE drawn[f]]
        /\ Ask("snap", DOMAIN drawn \cap FacesOf(live))
        /\ sign' = (live[Stock] = << >>)
        /\ resized' = FALSE
  /\ UNCHANGED <<liveGame, size, instant, paused, drag, lit, rejected, settling, done>>

---------------------------------------------------------------------------
(* A sync point.                                                           *)

(* Mutant: a tween in flight is kept wherever it leads.                    *)
KeepsTweenAnyway(s, home) == s.tween # Nowhere

(* sync_cards lets a tween in flight end if it leads to the card's place.  *)
KeepsTween(s, home) == s.tween = home

(* update_card_entity: the face always; unless a tween is kept, the card   *)
(* slides to its place from where it was seen, or is put there.            *)
Updated(seen, s, f) ==
  LET new   == Sprite(live, f)
      faced == [s EXCEPT !.up = new.up, !.hidden = new.hidden]
      freed == [faced EXCEPT !.tilted = FALSE,
                             !.tween = IF seen.tween = Nowhere THEN @ ELSE Nowhere]
  IN  IF KeepsTween(seen, new.at) THEN faced
      ELSE IF seen.at # new.at /\ ~ instant
      THEN [freed EXCEPT !.at = seen.at, !.slide = new.at]
      ELSE [freed EXCEPT !.at = new.at, !.slide = Nowhere]

(* What a system asked for, of the sprite s that it saw as seen: the deal  *)
(* sends each card from the stock to where it was, the cascade out of the  *)
(* window, tilted; a shake keeps the x; an animation that ended and a      *)
(* slide that was cancelled are removed, be they still the same or not.    *)
Commanded(by, seen, s) ==
  CASE by = "deal"    -> [s EXCEPT !.at = StockPlace, !.slide = seen.at, !.tilted = FALSE]
    [] by = "cascade" -> [s EXCEPT !.at = seen.at, !.tween = Outside, !.tilted = TRUE]
    [] by = "shake"   -> [s EXCEPT !.shake = {seen.at.x}]
    [] by = "tweens"  -> [s EXCEPT !.tween = Nowhere]
    [] by = "shakes"  -> [s EXCEPT !.shake = {}]
    [] OTHER          -> [s EXCEPT !.slide = Nowhere]

(* sync_cards removes the sprites of cards no longer rendered.             *)
Applied(d, c) ==
  IF c.by = "sync"
  THEN [f \in c.of |-> IF f \in DOMAIN c.seen THEN Updated(c.seen[f], d[f], f) ELSE Sprite(live, f)]
  ELSE [f \in DOMAIN d |-> IF f \in c.of THEN Commanded(c.by, c.seen[f], d[f]) ELSE d[f]]

Orders(S) == {o \in [1 .. Cardinality(S) -> S] : \A c \in S : \E k \in DOMAIN o : o[k] = c}

(* The commands in the given order, one system's after another's.          *)
AppliedInOrder(d, order) ==
  LET upto[n \in 0 .. Len(order)] ==
        IF n = 0 THEN d ELSE Applied(upto[n - 1], order[n])
  IN  upto[Len(order)]

(* All of it, system by system; nothing says which one's first.            *)
SyncPoint ==
  /\ queued # {}
  /\ \E order \in Orders(queued) : drawn' = AppliedInOrder(drawn, order)
  /\ queued' = {}
  /\ UNCHANGED <<todo, rejected>> /\ OnlySprites

Systems == \/ SyncCards \/ Deal \/ StartShake \/ Cascade \/ TickSlides \/ TickTweens
           \/ TickShakes \/ Snap

TableNext == Does \/ Idle \/ Systems \/ SyncPoint

TableSpec == TableInit /\ [][TableNext]_tableVars

---------------------------------------------------------------------------
(* Properties.                                                             *)

TableTypeOK ==
  /\ live \in Boards /\ past \in Seq(Boards) /\ begun \in BOOLEAN
  /\ size \in {0, 1} /\ {resized, instant, paused, sign} \subseteq BOOLEAN
  /\ drag.cards \subseteq Face /\ drag.origin \in PileType
  /\ \A f \in DOMAIN drawn : f \in Face /\ Cardinality(drawn[f].shake) <= 1
  /\ lit.piles \subseteq PileType /\ lit.card \in Card
  /\ rejected \subseteq PileType /\ settling \subseteq Face

(* Between frames, whatever the order of the systems in each, there is one *)
(* sprite for every rendered card and no other, it shows the card's face,  *)
(* only the extra card of the waste is hidden, the empty stock has its     *)
(* sign, and the piles lit by a right click still take the card it was on. *)
(* (And every variable has its type.)                                      *)
TableTrue ==
  /\ TableTypeOK
  /\ BetweenFrames =>
       /\ DOMAIN drawn = FacesOf(live)
       /\ \A f \in DOMAIN drawn :
            /\ drawn[f].up = CardAt(live, Spot(f)).up
            /\ drawn[f].hidden = Buried(live, Spot(f))
       /\ sign = (live[Stock] = << >>)
       /\ lit.piles \subseteq Takers(lit.card)
       /\ paused => lit = NoLit

Quiet == BetweenFrames /\ drag = NoDrag /\ ~ resized /\ Moving(drawn) = {}

(* A card that nothing was moving when the game last changed, or was       *)
(* resized, lies at its place once all is quiet, whatever was moved or     *)
(* left astray before.  Excepted are a deal, which sends each card to      *)
(* where it is, and a card shaken when it was not at rest at its place.    *)
StillCardsSettle == Quiet => \A f \in DOMAIN drawn \cap settling : drawn[f].at = Home(live, f)

(* Nothing of a win's cascade outlives the game it was for: once another   *)
(* deal is drawn, no card is tilted or on its way out of the window.       *)
CascadeEnds ==
  BetweenFrames /\ ~ Won => \A f \in DOMAIN drawn : ~ drawn[f].tilted /\ drawn[f].tween # Outside
=============================================================================
