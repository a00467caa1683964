----------------------------- MODULE PlayProofs -----------------------------
(***************************************************************************)
(* Proofs about the two modules that build on the rules of a game as       *)
(* GameState does, Input and Solver, for every deck, every number of piles *)
(* and ranks and every bound.                                              *)
(*                                                                         *)
(* Of Input: who owns the drag, what a paused game is asked, and that what *)
(* is lifted by keyboard is what lies on the board.  The first two rest on *)
(* facts that hold in the middle of a frame, whatever the order of its     *)
(* systems; the third takes from GameStateProofs that draws, moves and     *)
(* deals leave a good board, and is about when a change of it is noticed.  *)
(*                                                                         *)
(* Of Solver: the moves it lists and makes, by rules of its own, are moves *)
(* of the live game, so that its stack is a line of play and its verdict   *)
(* Winnable is shown by one; what it prunes loses no win, so that its      *)
(* verdict Unwinnable is right; and a board without legal moves is lost.   *)
(***************************************************************************)
EXTENDS GameStateProofs, Input, Verdicts

(* A record with the fields of a drag, of a lift.                          *)
IsDrag(d) == d \in [cards : {d.cards}, origin : {d.origin},
                    committed : {d.committed}, by : {"nobody", "mouse", "keyboard"}]
IsLift(l) == l \in [source : {l.source}, cards : {l.cards},
                    destinations : {l.destinations}, index : {l.index}]

---------------------------------------------------------------------------
(* The drag.                                                               *)

(* A drag by mouse has its button down, or the button comes up in this     *)
(* frame and the pipeline has not run yet.  Drag and lift by keyboard come *)
(* and go together; a lift has a source, stays selected, so that the pause *)
(* key leaves it alone, and ends before a pause.                           *)
DragInv ==
  /\ IsDrag(drag) /\ IsLift(lift)
  /\ input.does \in {"press", "pause"} => "left" \in held
  /\ AtRest => input = NoInput
  /\ drag.by = "mouse" =>
       "left" \in held \/ (~ AtRest /\ "chain" \notin ran /\ Does("release"))
  /\ drag.by = "keyboard" <=> lift # NoLift
  /\ lift # NoLift => lift.source # NoPile /\ selected # NoPile /\ ~ paused

LEMMA NoDragFacts == IsDrag(NoDrag) /\ NoDrag.by = "nobody"
BY DEF IsDrag, NoDrag

(* start_drag makes a drag of the mouse.                                   *)
LEMMA MouseDrag ==
  ASSUME NEW cards, NEW origin,
         NEW d, d = [cards |-> cards, origin |-> origin, committed |-> FALSE, by |-> "mouse"]
  PROVE  IsDrag(d) /\ d.by = "mouse"
<1>1. d.cards = cards /\ d.origin = origin /\ d.committed = FALSE /\ d.by = "mouse"
  OBVIOUS
<1>2. d \in [cards : {cards}, origin : {origin}, committed : {FALSE},
             by : {"nobody", "mouse", "keyboard"}]
  OBVIOUS
<1>3. QED
  BY <1>1, <1>2 DEF IsDrag

LEMMA StartedFacts ==
  ASSUME NEW t, NEW k
  PROVE  IsDrag(Started(t, k)) /\ Started(t, k).by = "mouse"
BY MouseDrag DEF Started

LEMMA NoLiftFacts == IsLift(NoLift) /\ NoLift.source = NoPile
BY DEF IsLift, NoLift

(* What pressing and releasing a button does to the left one.              *)
LEMMA HeldFacts ==
  ASSUME NEW does
  PROVE  /\ does \in {"press", "pause"} => "left" \in HeldAfter(does)
         /\ "left" \in held /\ does # "release" => "left" \in HeldAfter(does)
<1>1. CASE does \in {"press", "pause"}
  BY <1>1 DEF HeldAfter
<1>2. CASE does = "release"
  BY <1>2
<1>3. CASE does = "right press"
  BY <1>3 DEF HeldAfter
<1>4. CASE does = "right release"
  BY <1>4 DEF HeldAfter
<1>5. CASE does \notin {"press", "pause", "release", "right press", "right release"}
  BY <1>5 DEF HeldAfter
<1>6. QED
  BY <1>1, <1>2, <1>3, <1>4, <1>5

(* Followed and Released keep a drag's owner or end a drag of the mouse.   *)
LEMMA FollowedFacts ==
  ASSUME NEW d, IsDrag(d)
  PROVE  /\ IsDrag(Followed(d))
         /\ Followed(d).by = d.by \/ (d.by = "mouse" /\ Followed(d).by = "nobody")
<1>1. CASE d.by # "mouse"
  BY <1>1 DEF Followed
<1>2. CASE d.by = "mouse" /\ Does("leave") /\ ~ d.committed
  BY <1>2, NoDragFacts DEF Followed
<1>3. CASE /\ d.by = "mouse" /\ ~ (Does("leave") /\ ~ d.committed)
           /\ Does("move") \/ (Does("release") /\ input.at[1] # d.origin)
  <2>1. Followed(d) = [d EXCEPT !.committed = TRUE]
    BY <1>3 DEF Followed
  <2>2. IsDrag([d EXCEPT !.committed = TRUE]) /\ [d EXCEPT !.committed = TRUE].by = d.by
    BY DEF IsDrag
  <2>3. QED
    BY <2>1, <2>2
<1>4. CASE /\ d.by = "mouse" /\ ~ (Does("leave") /\ ~ d.committed)
           /\ ~ (Does("move") \/ (Does("release") /\ input.at[1] # d.origin))
  BY <1>4 DEF Followed
<1>5. QED
  BY <1>1, <1>2, <1>3, <1>4

LEMMA ReleasedFacts ==
  ASSUME NEW d, IsDrag(d)
  PROVE  /\ IsDrag(Released(d))
         /\ Released(d).by = "mouse" => d.by = "mouse" /\ ~ Does("release")
         /\ Released(d).by = "keyboard" <=> d.by = "keyboard"
<1>1. CASE Does("release") /\ d.by = "mouse"
  BY <1>1, NoDragFacts DEF Released
<1>2. CASE ~ (Does("release") /\ d.by = "mouse")
  BY <1>2 DEF Released
<1>3. QED
  BY <1>1, <1>2

LEMMA InitDragInv == InputInit => DragInv
BY NoDragFacts, NoLiftFacts DEF InputInit, DragInv, NoInput, AtRest, NoDrag

LEMMA NextDragInv == DragInv /\ [InputNext]_inputVars => DragInv'
<1> SUFFICES ASSUME DragInv, [InputNext]_inputVars PROVE DragInv'
  OBVIOUS
<1>1. ASSUME BeginFrame PROVE DragInv'
  <2>1. PICK e \in PointerEvents, key \in Keys :
          /\ input' = [does |-> e.does, at |-> e.at, twice |-> e.twice, key |-> key]
          /\ held' = HeldAfter(e.does)
    BY <1>1 DEF BeginFrame
  <2>2. /\ AtRest /\ ran' = {}
        /\ drag' = drag /\ lift' = lift /\ selected' = selected /\ paused' = paused
    BY <1>1 DEF BeginFrame
  <2>3. input'.does = e.does
    BY <2>1
  <2>4. input'.does \in {"press", "pause"} => "left" \in held'
    BY <2>1, <2>3, HeldFacts
  <2>5. drag'.by = "mouse" => "left" \in held' \/ input'.does = "release"
    <3>1. drag.by = "mouse" => "left" \in held
      BY <2>2 DEF DragInv
    <3>2. QED
      BY <2>1, <2>2, <2>3, <3>1, HeldFacts
  <2>6. ~ AtRest'
    BY <2>2 DEF AtRest
  <2>7. QED
    BY <2>2, <2>4, <2>5, <2>6 DEF DragInv, Does, IsDrag, IsLift
<1>2. ASSUME TogglePause PROVE DragInv'
  <2>1. /\ ~ AtRest /\ ~ AtRest' /\ ("chain" \in ran' <=> "chain" \in ran)
        /\ lift' = lift /\ selected' = selected /\ held' = held /\ input' = input
    BY <1>2 DEF TogglePause, Due, AtRest
  <2>2. \/ drag' = drag /\ paused' = paused
        \/ selected = NoPile /\ drag' = NoDrag /\ paused' = paused
        \/ selected = NoPile /\ drag' = drag
    BY <1>2 DEF TogglePause
  <2>3. QED
    BY <2>1, <2>2, NoDragFacts DEF DragInv, Does, IsDrag, IsLift
<1>3. ASSUME Chain PROVE DragInv'
  <2> DEFINE pressed == Does("press") /\ Idle /\ ~ paused
             onCard  == pressed /\ input.at[1] # Stock
             d0      == IF onCard THEN Started(input.at[1], input.at[2]) ELSE drag
  <2>1. /\ ~ AtRest /\ ~ AtRest' /\ "chain" \in ran'
        /\ lift' = lift /\ selected' = selected /\ held' = held /\ input' = input
        /\ paused' = paused
    BY <1>3 DEF Chain, Due, AtRest
  <2>2. drag' = IF paused THEN NoDrag ELSE Released(Followed(d0))
    BY <1>3 DEF Chain
  <2>3. /\ IsDrag(d0)
        /\ d0.by = "keyboard" <=> drag.by = "keyboard"
        /\ d0.by = "mouse" => drag.by = "mouse" \/ "left" \in held
    <3>1. CASE onCard
      <4>1. d0 = Started(input.at[1], input.at[2])
        BY <3>1
      <4>2. IsDrag(d0) /\ d0.by = "mouse"
        BY <4>1, StartedFacts
      <4>3. drag.by = "nobody" /\ "left" \in held
        BY <3>1, NoDragFacts DEF Idle, Does, DragInv
      <4>4. QED
        BY <4>2, <4>3
    <3>2. CASE ~ onCard
      BY <3>2 DEF DragInv
    <3>3. QED
      BY <3>1, <3>2
  <2> HIDE DEF d0
  <2>4. /\ IsDrag(drag')
        /\ drag'.by = "keyboard" => drag.by = "keyboard"
        /\ ~ paused /\ drag.by = "keyboard" => drag'.by = "keyboard"
        /\ drag'.by = "mouse" => d0.by = "mouse" /\ ~ Does("release")
    <3>1. CASE paused
      BY <2>2, <3>1, NoDragFacts
    <3>2. CASE ~ paused
      <4>1. /\ IsDrag(Followed(d0))
            /\ Followed(d0).by = d0.by \/ (d0.by = "mouse" /\ Followed(d0).by = "nobody")
        BY <2>3, FollowedFacts
      <4>2. /\ IsDrag(Released(Followed(d0)))
            /\ Released(Followed(d0)).by = "mouse" =>
                 Followed(d0).by = "mouse" /\ ~ Does("release")
            /\ Released(Followed(d0)).by = "keyboard" <=> Followed(d0).by = "keyboard"
        BY <4>1, ReleasedFacts
      <4>3. drag' = Released(Followed(d0))
        BY <2>2, <3>2
      <4>4. QED
        BY <2>3, <3>2, <4>1, <4>2, <4>3
    <3>3. QED
      BY <3>1, <3>2
  <2>5. drag'.by = "mouse" => "left" \in held
    BY <2>1, <2>3, <2>4 DEF DragInv
  <2>6. drag'.by = "keyboard" <=> lift # NoLift
    BY <2>4 DEF DragInv
  <2>7. QED
    BY <2>1, <2>4, <2>5, <2>6 DEF DragInv, IsLift
<1>4. ASSUME SelectionKeys PROVE DragInv'
  <2>1. /\ ~ AtRest /\ ~ AtRest' /\ ("chain" \in ran' <=> "chain" \in ran)
        /\ held' = held /\ input' = input /\ paused' = paused
    BY <1>4 DEF SelectionKeys, Due, AtRest
  <2>2. CASE paused \/ drag.by = "mouse"
    <3>1. selected' = selected /\ lift' = lift /\ drag' = drag
      BY <1>4, <2>2 DEF SelectionKeys
    <3>2. QED
      BY <2>1, <3>1 DEF DragInv, Does, IsDrag, IsLift
  <2>3. CASE ~ (paused \/ drag.by = "mouse")
    <3>1. ChooseDestination \/ ChooseSource
      BY <1>4, <2>3 DEF SelectionKeys
    <3>2. CASE ChooseDestination
      <4>1. /\ lift # NoLift /\ selected' = selected
            /\ \/ lift' = [lift EXCEPT !.index = NextDestination] /\ drag' = drag
               \/ lift' = NoLift /\ drag' = NoDrag
               \/ lift' = lift /\ drag' = drag
        BY <3>2 DEF ChooseDestination
      <4>2. CASE lift' = [lift EXCEPT !.index = NextDestination] /\ drag' = drag
        <5>1. IsLift(lift') /\ lift'.source = lift.source
          BY <4>2 DEF DragInv, IsLift
        <5>2. lift' # NoLift
          BY <4>1, <5>1, NoLiftFacts DEF DragInv
        <5>3. QED
          BY <2>1, <4>1, <4>2, <5>1, <5>2 DEF DragInv, Does, IsDrag
      <4>3. CASE lift' = NoLift /\ drag' = NoDrag
        BY <2>1, <4>1, <4>3, NoDragFacts, NoLiftFacts DEF DragInv, Does
      <4>4. CASE lift' = lift /\ drag' = drag
        BY <2>1, <4>1, <4>4 DEF DragInv, Does, IsDrag, IsLift
      <4>5. QED
        BY <4>1, <4>2, <4>3, <4>4
    <3>3. CASE ChooseSource
      <4>1. lift = NoLift /\ drag.by # "keyboard"
        BY <3>3 DEF ChooseSource, DragInv
      <4>2. \/ lift' = lift /\ drag' = drag
            \/ /\ selected # NoPile /\ selected' = selected
               /\ lift' = LiftFrom(selected)
               /\ drag' = [cards |-> lift'.cards, origin |-> selected,
                           committed |-> FALSE, by |-> "keyboard"]
        BY <3>3 DEF ChooseSource, Typed
      <4>3. CASE lift' = lift /\ drag' = drag
        BY <2>1, <4>1, <4>3 DEF DragInv, Does, IsDrag, IsLift
      <4>4. CASE /\ selected # NoPile /\ selected' = selected
                 /\ lift' = LiftFrom(selected)
                 /\ drag' = [cards |-> lift'.cards, origin |-> selected,
                             committed |-> FALSE, by |-> "keyboard"]
        <5>1. IsLift(lift') /\ lift'.source = selected
          BY <4>4 DEF LiftFrom, IsLift
        <5>2. lift' # NoLift
          BY <4>4, <5>1, NoLiftFacts
        <5>3. IsDrag(drag') /\ drag'.by = "keyboard"
          BY <4>4 DEF IsDrag
        <5>4. QED
          BY <2>1, <2>3, <4>4, <5>1, <5>2, <5>3 DEF DragInv
      <4>5. QED
        BY <4>2, <4>3, <4>4
    <3>4. QED
      BY <3>1, <3>2, <3>3
  <2>4. QED
    BY <2>2, <2>3
<1>5. ASSUME Radial \/ GameMutation PROVE DragInv'
  <2>1. /\ ~ AtRest /\ ~ AtRest' /\ ("chain" \in ran' <=> "chain" \in ran)
        /\ held' = held /\ input' = input /\ paused' = paused
        /\ drag' = drag /\ lift' = lift /\ selected' = selected
    BY <1>5 DEF Radial, GameMutation, Due, AtRest
  <2>2. QED
    BY <2>1 DEF DragInv, Does, IsDrag, IsLift
<1>6. ASSUME ClearSelection PROVE DragInv'
  <2>1. /\ ~ AtRest /\ ~ AtRest' /\ ("chain" \in ran' <=> "chain" \in ran)
        /\ held' = held /\ input' = input /\ paused' = paused
    BY <1>6 DEF ClearSelection, Due, AtRest
  <2>2. CASE changed
    <3>1. /\ lift' = NoLift
          /\ drag' = IF lift # NoLift /\ drag.by = "keyboard" THEN NoDrag ELSE drag
      BY <1>6, <2>2 DEF ClearSelection, LiftAfterChange
    <3>2. /\ IsDrag(drag') /\ drag'.by # "keyboard"
          /\ drag'.by = "mouse" => drag.by = "mouse"
      BY <3>1, NoDragFacts DEF DragInv
    <3>3. QED
      BY <2>1, <3>1, <3>2, NoLiftFacts DEF DragInv, Does
  <2>3. CASE ~ changed
    <3>1. drag' = drag /\ lift' = lift /\ selected' = selected
      BY <1>6, <2>3 DEF ClearSelection
    <3>2. QED
      BY <2>1, <3>1 DEF DragInv, Does, IsDrag, IsLift
  <2>4. QED
    BY <2>2, <2>3
<1>7. ASSUME EndFrame PROVE DragInv'
  <2>1. /\ "chain" \in ran /\ AtRest' /\ input' = NoInput
        /\ drag' = drag /\ lift' = lift /\ selected' = selected
        /\ held' = held /\ paused' = paused
    BY <1>7 DEF EndFrame, AtRest, Systems
  <2>2. input'.does = "nothing"
    BY <2>1 DEF NoInput
  <2>3. QED
    BY <2>1, <2>2 DEF DragInv, IsDrag, IsLift
<1>8. ASSUME UNCHANGED inputVars PROVE DragInv'
  BY <1>8 DEF inputVars, DragInv, AtRest, Does, IsDrag, IsLift
<1>9. QED
  BY <1>1, <1>2, <1>3, <1>4, <1>5, <1>6, <1>7, <1>8 DEF InputNext

(* Every drag has an owner that can end it, for ever.                      *)
THEOREM DragsOwnedCorrect == InputSpec => []DragsOwned
<1>1. DragInv => DragsOwned
  BY DEF DragInv, DragsOwned
<1>2. QED
  BY <1>1, InitDragInv, NextDragInv, PTL DEF InputSpec

---------------------------------------------------------------------------
(* The pause.                                                              *)

(* Pausing closes the radial menu in the frame in which it happens, before *)
(* or after, for both read the same input; toggle_pause runs once a frame, *)
(* so that a frame that begins paused and is still paused was never not.   *)
PauseInv ==
  /\ AtRest => asked = {}
  /\ was_paused /\ paused => asked = {} /\ radial = NoRadial
  /\ AtRest /\ paused => radial = NoRadial
  /\ ~ AtRest /\ "pause" \notin ran => paused = was_paused
  /\ ~ AtRest /\ paused /\ ~ was_paused => Typed("Esc") \/ Does("pause")
  /\ ~ AtRest /\ "radial" \in ran /\ (Typed("Esc") \/ Does("pause")) => radial = NoRadial
  /\ paused \in BOOLEAN /\ was_paused \in BOOLEAN

LEMMA InitPauseInv == InputInit => PauseInv
BY DEF InputInit, PauseInv, AtRest

LEMMA NextPauseInv ==
  PauseInv /\ [InputNext]_inputVars =>
    /\ PauseInv'
    /\ [was_paused /\ paused => asked' = {} /\ moves' \in {moves, NoMoves}]_inputVars
<1> DEFINE Nothing == was_paused /\ paused => asked' = {} /\ moves' \in {moves, NoMoves}
<1> SUFFICES ASSUME PauseInv, [InputNext]_inputVars
             PROVE  PauseInv' /\ (Nothing \/ UNCHANGED inputVars)
  OBVIOUS
<1>1. ASSUME BeginFrame PROVE PauseInv' /\ Nothing
  <2>1. /\ AtRest /\ ran' = {} /\ was_paused' = paused /\ paused' = paused
        /\ radial' = radial /\ asked' = asked /\ moves' = moves
    BY <1>1 DEF BeginFrame
  <2>2. ~ AtRest'
    BY <2>1 DEF AtRest
  <2>3. QED
    BY <2>1, <2>2 DEF PauseInv
<1>2. ASSUME TogglePause PROVE PauseInv' /\ Nothing
  <2>1. /\ ~ AtRest /\ ~ AtRest' /\ "pause" \notin ran /\ "pause" \in ran'
        /\ ("radial" \in ran' <=> "radial" \in ran)
        /\ was_paused' = was_paused /\ input' = input
        /\ radial' = radial /\ asked' = asked /\ moves' = moves
    BY <1>2 DEF TogglePause, Due, AtRest
  <2>2. CASE paused' = paused
    BY <2>1, <2>2 DEF PauseInv, Typed, Does
  <2>3. CASE paused' = (~ paused) /\ (Typed("Esc") \/ Does("pause"))
    <3>1. PauseInv /\ paused = was_paused
      BY <2>1 DEF PauseInv
    <3>2. CASE paused
      <4>1. ~ paused' /\ paused' \in BOOLEAN
        BY <2>3, <3>2
      <4>2. QED
        BY <2>1, <3>1, <3>2, <4>1 DEF PauseInv, Typed, Does
    <3>3. CASE ~ paused
      <4>1. paused' /\ paused' \in BOOLEAN /\ ~ was_paused
        BY <2>3, <3>3, <3>1 DEF PauseInv
      <4>2. (Typed("Esc") \/ Does("pause"))'
        BY <2>1, <2>3 DEF Typed, Does
      <4>3. QED
        BY <2>1, <3>1, <3>3, <4>1, <4>2 DEF PauseInv, Typed, Does
    <3>4. QED
      BY <3>2, <3>3
  <2>4. QED
    BY <1>2, <2>2, <2>3 DEF TogglePause
<1>3. ASSUME Chain PROVE PauseInv' /\ Nothing
  <2>1. /\ ~ AtRest /\ ~ AtRest'
        /\ ("pause" \in ran' <=> "pause" \in ran) /\ ("radial" \in ran' <=> "radial" \in ran)
        /\ was_paused' = was_paused /\ paused' = paused /\ input' = input
        /\ radial' = radial
    BY <1>3 DEF Chain, Due, AtRest
  <2>2. paused => asked' = asked /\ moves' = moves
    BY <1>3 DEF Chain, KeyRequests
  <2>3. QED
    BY <2>1, <2>2 DEF PauseInv, Typed, Does
<1>4. ASSUME SelectionKeys PROVE PauseInv' /\ Nothing
  <2>1. /\ ~ AtRest /\ ~ AtRest'
        /\ ("pause" \in ran' <=> "pause" \in ran) /\ ("radial" \in ran' <=> "radial" \in ran)
        /\ was_paused' = was_paused /\ paused' = paused /\ input' = input
        /\ radial' = radial /\ asked' = asked
    BY <1>4 DEF SelectionKeys, Due, AtRest
  <2>2. paused => moves' = moves
    BY <1>4 DEF SelectionKeys
  <2>3. QED
    BY <2>1, <2>2 DEF PauseInv, Typed, Does
<1>5. ASSUME Radial PROVE PauseInv' /\ Nothing
  <2>1. /\ ~ AtRest /\ ~ AtRest' /\ "radial" \in ran'
        /\ ("pause" \in ran' <=> "pause" \in ran)
        /\ was_paused' = was_paused /\ paused' = paused /\ input' = input
        /\ asked' = asked
    BY <1>5 DEF Radial, Due, AtRest
  <2>2. RadialCloses => radial' = NoRadial
    BY <1>5 DEF Radial
  <2>3. Typed("Esc") \/ Does("pause") => RadialCloses
    BY DEF RadialCloses, Typed, Does
  <2>4. was_paused /\ paused => radial' = NoRadial /\ moves' = moves
    <3>1. SUFFICES ASSUME was_paused, paused PROVE radial' = NoRadial /\ moves' = moves
      OBVIOUS
    <3>2. radial = NoRadial
      BY <3>1 DEF PauseInv
    <3>3. RadialOpened = NoRadial
      BY <3>1, <3>2 DEF RadialOpened
    <3>4. QED
      BY <1>5, <3>3 DEF Radial
  <2>5. QED
    BY <2>1, <2>2, <2>3, <2>4 DEF PauseInv, Typed, Does
<1>6. ASSUME GameMutation PROVE PauseInv' /\ Nothing
  <2>1. /\ ~ AtRest /\ ~ AtRest'
        /\ ("pause" \in ran' <=> "pause" \in ran) /\ ("radial" \in ran' <=> "radial" \in ran)
        /\ was_paused' = was_paused /\ paused' = paused /\ input' = input
        /\ radial' = radial /\ asked' = asked /\ moves' = NoMoves
    BY <1>6 DEF GameMutation, Due, AtRest
  <2>2. QED
    BY <2>1 DEF PauseInv, Typed, Does
<1>7. ASSUME ClearSelection PROVE PauseInv' /\ Nothing
  <2>1. /\ ~ AtRest /\ ~ AtRest'
        /\ ("pause" \in ran' <=> "pause" \in ran) /\ ("radial" \in ran' <=> "radial" \in ran)
        /\ was_paused' = was_paused /\ paused' = paused /\ input' = input
        /\ radial' = radial /\ asked' = asked /\ moves' = moves
    BY <1>7 DEF ClearSelection, Due, AtRest
  <2>2. QED
    BY <2>1 DEF PauseInv, Typed, Does
<1>8. ASSUME EndFrame PROVE PauseInv' /\ Nothing
  <2>1. /\ ~ AtRest /\ AtRest' /\ "radial" \in ran
        /\ was_paused' = was_paused /\ paused' = paused
        /\ radial' = radial /\ asked' = {} /\ moves' = moves
    BY <1>8 DEF EndFrame, AtRest, Systems
  <2>2. paused => radial = NoRadial
    BY <2>1 DEF PauseInv
  <2>3. QED
    BY <2>1, <2>2 DEF PauseInv
<1>9. ASSUME UNCHANGED inputVars PROVE PauseInv'
  BY <1>9 DEF inputVars, PauseInv, AtRest, Typed, Does
<1>10. QED
  BY <1>1, <1>2, <1>3, <1>4, <1>5, <1>6, <1>7, <1>8, <1>9 DEF InputNext

(* A game that is paused is asked nothing, for ever.                       *)
THEOREM PausedAsksNothingCorrect == InputSpec => PausedAsksNothing
BY InitPauseInv, NextPauseInv, PTL DEF InputSpec, PausedAsksNothing

---------------------------------------------------------------------------
(* The lift.                                                               *)

(* A function given by its first value and by a step from each value to    *)
(* the next exists ...                                                     *)
Runs(f, X, n, b, step) ==
  /\ f \in [0 .. n -> X] /\ f[0] = b
  /\ \A k \in 1 .. n : f[k] = step[k][f[k - 1]]

LEMMA Iterates ==
  ASSUME NEW X, NEW n \in Nat, NEW b \in X, NEW step \in [1 .. n -> [X -> X]]
  PROVE  \E f : Runs(f, X, n, b, step)
<1> DEFINE Short == {m \in 0 .. n : ~ \E f : Runs(f, X, m, b, step)}
<1>1. ASSUME Short # {}
      PROVE  FALSE
  <2>1a. Short \in SUBSET Nat
    OBVIOUS
  <2>1. PICK m \in Short : \A y \in Short : m <= y
    <3> HIDE DEF Short
    <3> QED
      BY <1>1, <2>1a, LeastNatural
  <2>2. m \in 0 .. n /\ ~ \E f : Runs(f, X, m, b, step)
    BY <2>1
  <2>3. CASE m = 0
    <3>1. Runs([k \in 0 .. 0 |-> b], X, 0, b, step)
      BY DEF Runs
    <3> QED
      BY <2>2, <2>3, <3>1
  <2>4. CASE m # 0
    <3>1. m - 1 \in 0 .. n /\ m - 1 \notin Short /\ m \in 1 .. n
      BY <2>1, <2>2, <2>4
    <3>2. PICK f : Runs(f, X, m - 1, b, step)
      BY <3>1
    <3>2a. /\ f \in [0 .. m - 1 -> X] /\ f[0] = b
           /\ \A k \in 1 .. m - 1 : f[k] = step[k][f[k - 1]]
      BY <3>2 DEF Runs
    <3> DEFINE g == [k \in 0 .. m |-> IF k = m THEN step[m][f[m - 1]] ELSE f[k]]
    <3>3. f[m - 1] \in X /\ step[m][f[m - 1]] \in X
      BY <3>1, <3>2a
    <3>4. \A k \in 0 .. m - 1 : k \in 0 .. m /\ k # m /\ f[k] \in X
      BY <3>1, <3>2a
    <3>5. g \in [0 .. m -> X]
      <4>1. \A k \in 0 .. m : k = m \/ k \in 0 .. m - 1
        BY <3>1
      <4> QED
        BY <3>3, <3>4, <4>1
    <3>6. \A k \in 0 .. m - 1 : g[k] = f[k]
      BY <3>4
    <3>7. g[m] = step[m][f[m - 1]]
      BY <3>1
    <3> HIDE DEF g
    <3>8. \A k \in 1 .. m : g[k] = step[k][g[k - 1]]
      <4>1. TAKE k \in 1 .. m
      <4>2. k - 1 \in 0 .. m - 1 /\ (k = m \/ k \in 1 .. m - 1)
        BY <3>1
      <4>3. g[k - 1] = f[k - 1]
        BY <3>6, <4>2
      <4>4. CASE k = m
        BY <3>7, <4>3, <4>4
      <4>5. CASE k \in 1 .. m - 1
        <5>1. g[k] = f[k] /\ f[k] = step[k][f[k - 1]]
          BY <3>2a, <3>6, <4>5
        <5> QED
          BY <4>3, <5>1
      <4> QED
        BY <4>2, <4>4, <4>5
    <3>9. g[0] = b
      <4>1. 0 \in 0 .. m - 1
        BY <3>1
      <4> QED
        BY <3>2a, <3>6, <4>1
    <3>10. Runs(g, X, m, b, step)
      BY <3>5, <3>8, <3>9 DEF Runs
    <3> QED
      BY <2>2, <3>10
  <2> QED
    BY <2>3, <2>4
<1>2. n \in 0 .. n
  OBVIOUS
<1> QED
  BY <1>1, <1>2

(* ... and every one keeps to a set that holds the first value and that    *)
(* the steps do not leave.                                                 *)
LEMMA Stays ==
  ASSUME NEW X, NEW n \in Nat, NEW f, f[0] \in X,
         \A k \in 1 .. n : f[k - 1] \in X => f[k] \in X
  PROVE  \A k \in 0 .. n : f[k] \in X
<1> DEFINE Out == {k \in 0 .. n : f[k] \notin X}
<1>1. ASSUME Out # {}
      PROVE  FALSE
  <2>1a. Out \in SUBSET Nat
    OBVIOUS
  <2>1. PICK m \in Out : \A y \in Out : m <= y
    <3> HIDE DEF Out
    <3> QED
      BY <1>1, <2>1a, LeastNatural
  <2>2. m \in 1 .. n /\ f[m] \notin X
    BY <2>1
  <2>3. m - 1 \in 0 .. n /\ m - 1 \notin Out
    BY <2>1, <2>2
  <2> QED
    BY <2>2, <2>3
<1> QED
  BY <1>1

(* The piles the selection goes through, and those it can stop at.         *)
Pickable == {Waste} \cup Foundations \cup Tableaus

(* The cycle goes through every pile that can be picked.                   *)
LEMMA CycledFacts ==
  /\ Len(CycledPiles) \in Nat /\ CycledPiles \in Seq(Pickable)
  /\ \A t \in Pickable : \E k \in 1 .. Len(CycledPiles) : CycledPiles[k] = t
<1> DEFINE F == [k \in 1 .. NumSlots |-> Foundation(k - 1)]
           T == [k \in 1 .. NumColumns |-> Tableau(k - 1)]
<1>1. NumSlots \in Nat /\ NumColumns \in Nat
  BY PilesAssumption
<1>2. F \in Seq(Pickable) /\ Len(F) = NumSlots
  <2>1. \A k \in 1 .. NumSlots : Foundation(k - 1) \in Pickable
    BY <1>1 DEF Pickable, Foundations, Slots
  <2> QED
    BY <1>1, <2>1, SeqOfFunction
<1>3. T \in Seq(Pickable) /\ Len(T) = NumColumns
  <2>1. \A k \in 1 .. NumColumns : Tableau(k - 1) \in Pickable
    BY <1>1 DEF Pickable, Tableaus, Columns
  <2> QED
    BY <1>1, <2>1, SeqOfFunction
<1>4. <<Waste>> \in Seq(Pickable) /\ Len(<<Waste>>) = 1
  BY DEF Pickable
<1>5. CycledPiles = <<Waste>> \o F \o T
  BY DEF CycledPiles
<1>6. \A i \in Slots : i + 1 \in 1 .. NumSlots /\ F[i + 1] = Foundation(i)
  BY <1>1 DEF Slots
<1>7. \A i \in Columns : i + 1 \in 1 .. NumColumns /\ T[i + 1] = Tableau(i)
  BY <1>1 DEF Columns
<1> HIDE DEF F, T
<1> DEFINE WF == <<Waste>> \o F
<1>8. /\ WF \in Seq(Pickable) /\ Len(WF) = NumSlots + 1
      /\ WF[1] = Waste /\ \A k \in 1 .. NumSlots : WF[k + 1] = F[k]
  BY <1>1, <1>2, <1>4
<1> HIDE DEF WF
<1>9. /\ CycledPiles \in Seq(Pickable)
      /\ Len(CycledPiles) = NumSlots + 1 + NumColumns
      /\ \A k \in 1 .. NumSlots + 1 : CycledPiles[k] = WF[k]
      /\ \A k \in 1 .. NumColumns : CycledPiles[NumSlots + 1 + k] = T[k]
  <2>1. CycledPiles = WF \o T
    BY <1>5 DEF WF
  <2>2. CycledPiles \in Seq(Pickable) /\ Len(CycledPiles) = Len(WF) + Len(T)
    BY <1>3, <1>8, <2>1, ConcatProperties
  <2>3. \A k \in 1 .. Len(WF) + Len(T) :
          CycledPiles[k] = IF k <= Len(WF) THEN WF[k] ELSE T[k - Len(WF)]
    BY <1>3, <1>8, <2>1, ConcatProperties
  <2>4. \A k \in 1 .. NumSlots + 1 : k \in 1 .. Len(WF) + Len(T) /\ k <= Len(WF)
    BY <1>1, <1>3, <1>8
  <2>5. \A k \in 1 .. NumColumns :
          /\ NumSlots + 1 + k \in 1 .. Len(WF) + Len(T)
          /\ ~ (NumSlots + 1 + k <= Len(WF)) /\ (NumSlots + 1 + k) - Len(WF) = k
    BY <1>1, <1>3, <1>8
  <2> QED
    BY <1>3, <1>8, <2>2, <2>3, <2>4, <2>5
<1>10. ASSUME NEW t \in Pickable
       PROVE  \E k \in 1 .. Len(CycledPiles) : CycledPiles[k] = t
  <2>1. CASE t = Waste
    <3>1. 1 \in 1 .. NumSlots + 1 /\ 1 \in 1 .. Len(CycledPiles)
      BY <1>1, <1>9
    <3> QED
      BY <1>8, <1>9, <2>1, <3>1
  <2>2. CASE t \in Foundations
    <3>1. PICK i \in Slots : t = Foundation(i)
      BY <2>2 DEF Foundations
    <3>2. i + 1 \in 1 .. NumSlots /\ F[i + 1] = t
      BY <1>6, <3>1
    <3>3. i + 1 + 1 \in 1 .. NumSlots + 1 /\ i + 1 + 1 \in 1 .. Len(CycledPiles)
      BY <1>1, <1>9, <3>2
    <3> QED
      BY <1>8, <1>9, <3>2, <3>3
  <2>3. CASE t \in Tableaus
    <3>1. PICK i \in Columns : t = Tableau(i)
      BY <2>3 DEF Tableaus
    <3>2. i + 1 \in 1 .. NumColumns /\ T[i + 1] = t
      BY <1>7, <3>1
    <3>3. NumSlots + 1 + (i + 1) \in 1 .. Len(CycledPiles)
      BY <1>1, <1>9, <3>2
    <3> QED
      BY <1>9, <3>2, <3>3
  <2> QED
    BY <2>1, <2>2, <2>3 DEF Pickable
<1> QED
  BY <1>1, <1>9, <1>10

(* legal_destinations_for offers piles it has found legal, and no other.   *)
Legal(t, bottom, source, n) ==
  /\ t # source
  /\ \/ t \in Foundations /\ n = 1 /\ CanPlaceOnFoundation(bottom, board[t])
     \/ t \in Tableaus /\ CanPlaceOnTableau(bottom, board[t])

LEMMA LegalDestinations ==
  ASSUME NEW bottom, NEW source, NEW n
  PROVE  LegalDestinationsFor(bottom, source, n) \in
           Seq({t \in Foundations \cup Tableaus : Legal(t, bottom, source, n)})
<1> DEFINE L == {t \in Foundations \cup Tableaus : Legal(t, bottom, source, n)}
           N == Len(CycledPiles)
           Among(f, k) == IF k = 0 THEN << >>
                          ELSE IF Legal(CycledPiles[k], bottom, source, n)
                               THEN Append(f[k - 1], CycledPiles[k])
                               ELSE f[k - 1]
           among == CHOOSE f : f = [k \in 0 .. N |-> Among(f, k)]
           step == [k \in 1 .. N |-> [s \in Seq(L) |->
                      IF Legal(CycledPiles[k], bottom, source, n)
                      THEN Append(s, CycledPiles[k]) ELSE s]]
<1>1. LegalDestinationsFor(bottom, source, n) = among[N]
  BY DEF LegalDestinationsFor, Legal
<1>2. N \in Nat /\ << >> \in Seq(L)
  BY CycledFacts
<1>3. \A k \in 1 .. N : Legal(CycledPiles[k], bottom, source, n) => CycledPiles[k] \in L
  BY DEF Legal
<1>4. \A k \in 1 .. N, s \in Seq(L) :
        (IF Legal(CycledPiles[k], bottom, source, n)
         THEN Append(s, CycledPiles[k]) ELSE s) \in Seq(L)
  <2>1. TAKE k \in 1 .. N, s \in Seq(L)
  <2>2. CASE Legal(CycledPiles[k], bottom, source, n)
    <3>1. CycledPiles[k] \in L
      BY <1>3, <2>2
    <3> HIDE DEF L
    <3> QED
      BY <2>2, <3>1, AppendProperties
  <2> QED
    BY <2>2
<1> HIDE DEF L, N
<1>5. step \in [1 .. N -> [Seq(L) -> Seq(L)]]
  BY <1>4
<1>6. \A k \in 1 .. N, s \in Seq(L) :
        step[k][s] = IF Legal(CycledPiles[k], bottom, source, n)
                         THEN Append(s, CycledPiles[k]) ELSE s
  OBVIOUS
<1> HIDE DEF step
<1>7a. PICK f : Runs(f, Seq(L), N, << >>, step)
  BY <1>2, <1>5, Iterates
<1>7. /\ f \in [0 .. N -> Seq(L)] /\ f[0] = << >>
      /\ \A k \in 1 .. N : f[k] = step[k][f[k - 1]]
  BY <1>7a DEF Runs
<1>8. f = [k \in 0 .. N |-> Among(f, k)]
  <2>1. ASSUME NEW k \in 0 .. N
        PROVE  f[k] = Among(f, k)
    <3>1. CASE k = 0
      BY <1>7, <3>1
    <3>2. CASE k # 0
      <4>1. k \in 1 .. N /\ k - 1 \in 0 .. N
        BY <1>2, <3>2
      <4>2. f[k - 1] \in Seq(L)
        BY <1>7, <4>1
      <4> QED
        BY <1>6, <1>7, <3>2, <4>1, <4>2
    <3> QED
      BY <3>1, <3>2
  <2> HIDE DEF Among
  <2> QED
    BY <1>7, <2>1
<1>9. among = [k \in 0 .. N |-> Among(among, k)]
  BY <1>8
<1> HIDE DEF among
<1>10. among[0] = << >>
  BY <1>2, <1>9
<1>11. ASSUME NEW k \in 1 .. N, among[k - 1] \in Seq(L)
       PROVE  among[k] \in Seq(L)
  <2>1. k \in 0 .. N /\ k # 0
    BY <1>2
  <2>2. among[k] = Among(among, k)
    BY <1>9, <2>1
  <2> QED
    BY <1>4, <1>11, <2>1, <2>2
<1>12. \A k \in 0 .. N : among[k] \in Seq(L)
  BY <1>2, <1>10, <1>11, Stays
<1>13. N \in 0 .. N
  BY <1>2
<1> QED
  BY <1>1, <1>12, <1>13 DEF L
---------------------------------------------------------------------------
(* What the handlers ask for and what they lift has its type.              *)

MoveRequest == [from : PileType, to : PileType, count : Nat \ {0}]
DragState   == [cards : Seq(Face), origin : PileType \cup {NoPile},
                committed : BOOLEAN, by : {"nobody", "mouse", "keyboard"}]
LiftState   == [source : PileType \cup {NoPile}, cards : Seq(Face),
                destinations : Seq(PileType), index : Nat]

AtMostOne(places) == places = {} \/ \E t \in PileType : places = {t}

(* A set of at most one element, listed.                                   *)
LEMMA OneToSeq ==
  ASSUME NEW X, NEW S, S \subseteq X, S = {} \/ \E x : S = {x}
  PROVE  SetToSeq(S) \in Seq(X)
<1> DEFINE Injective == {f \in [1 .. Cardinality(S) -> S] : IsInjective(f)}
<1>1. Cardinality(S) \in {0, 1} /\ Injective # {}
  <2>1. CASE S = {}
    <3>1. Cardinality(S) = 0
      BY <2>1, FS_EmptySet
    <3>2. [k \in 1 .. 0 |-> k] \in [1 .. 0 -> {}] /\ IsInjective([k \in 1 .. 0 |-> k])
      BY DEF IsInjective
    <3> QED
      BY <2>1, <3>1, <3>2
  <2>2. CASE \E x : S = {x}
    <3>1. PICK x : S = {x}
      BY <2>2
    <3>2. Cardinality(S) = 1
      BY <3>1, FS_Singleton
    <3>3. [k \in 1 .. 1 |-> x] \in [1 .. 1 -> {x}] /\ IsInjective([k \in 1 .. 1 |-> x])
      BY DEF IsInjective
    <3> QED
      BY <3>1, <3>2, <3>3
  <2> QED
    BY <2>1, <2>2
<1>2. SetToSeq(S) \in [1 .. Cardinality(S) -> S]
  <2>1. SetToSeq(S) = CHOOSE f \in [1 .. Cardinality(S) -> S] : IsInjective(f)
    BY DEF SetToSeq
  <2> QED
    BY <1>1, <2>1
<1>3. Cardinality(S) \in Nat /\ SetToSeq(S) \in [1 .. Cardinality(S) -> X]
  BY <1>1, <1>2
<1> QED
  BY <1>3, SeqOfFunction

(* A request to a set of at most one pile is a sequence of requests.       *)
LEMMA RequestsType ==
  ASSUME NEW from \in PileType, NEW places, AtMostOne(places), NEW n \in Nat \ {0}
  PROVE  Requests(from, places, n) \in Seq(MoveRequest)
<1> DEFINE S == {Request(from, t, n) : t \in places}
<1>1. S \subseteq MoveRequest /\ (S = {} \/ \E x : S = {x})
  BY DEF AtMostOne, Request, MoveRequest
<1>2. Requests(from, places, n) = SetToSeq(S)
  BY DEF Requests
<1> HIDE DEF S
<1> QED
  BY <1>1, <1>2, OneToSeq

(* The first of some piles is one of them.                                 *)
LEMMA FirstOfOne ==
  ASSUME NEW S, S \subseteq Foundations \/ S \subseteq Tableaus, S # {}
  PROVE  \E s \in S : FirstOf(S) = {s}
<1> DEFINE T == {s[2] : s \in S}
<1>1. \A s \in S : s[2] \in Nat
  <2>1. \A i \in Slots : i \in Nat /\ Foundation(i)[2] = i
    BY PilesAssumption DEF Slots, Foundation
  <2>2. \A i \in Columns : i \in Nat /\ Tableau(i)[2] = i
    BY PilesAssumption DEF Columns, Tableau
  <2> QED
    BY <2>1, <2>2 DEF Foundations, Tableaus
<1>2. T \in SUBSET Nat /\ T # {}
  BY <1>1
<1>3. PICK x \in T : \A y \in T : x <= y
  <2> HIDE DEF T
  <2> QED
    BY <1>2, LeastNatural
<1>4. \E s \in S : \A q \in S : s[2] <= q[2]
  BY <1>3
<1> QED
  BY <1>4 DEF FirstOf

(* Every best place is one pile or none.                                   *)
LEMMA BestOnes ==
  ASSUME NEW card, NEW from
  PROVE  /\ AtMostOne(BestDestination(card))
         /\ AtMostOne(BestColumn(card, from))
         /\ FoundationsFor(card) # {} => AtMostOne(FirstOf(FoundationsFor(card)))
<1>1. /\ FoundationsFor(card) \subseteq Foundations
      /\ ColumnsFor(card) \subseteq Tableaus
      /\ ColumnsFor(card) \ {from} \subseteq Tableaus
  BY DEF FoundationsFor, ColumnsFor
<1>2. FoundationsFor(card) # {} => AtMostOne(FirstOf(FoundationsFor(card)))
  BY <1>1, FirstOfOne, PileKinds DEF AtMostOne
<1>3. ColumnsFor(card) # {} => AtMostOne(FirstOf(ColumnsFor(card)))
  BY <1>1, FirstOfOne, PileKinds DEF AtMostOne
<1>4. ColumnsFor(card) \ {from} # {} => AtMostOne(FirstOf(ColumnsFor(card) \ {from}))
  BY <1>1, FirstOfOne, PileKinds DEF AtMostOne
<1>5. AtMostOne({})
  BY DEF AtMostOne
<1> QED
  BY <1>2, <1>3, <1>4, <1>5 DEF BestDestination, BestColumn

(* The faces of cards are as many.                                         *)
LEMMA FacesFacts ==
  ASSUME NEW cards \in Seq(Card)
  PROVE  Faces(cards) \in Seq(Face) /\ Len(Faces(cards)) = Len(cards)
<1>1. Len(cards) \in Nat /\ \A k \in 1 .. Len(cards) : cards[k] \in Card
  BY LenProperties, ElementOfSeq
<1>2. \A k \in 1 .. Len(cards) :
        [suit |-> cards[k].suit, rank |-> cards[k].rank] \in Face
  BY <1>1 DEF Card, Face
<1> QED
  BY <1>1, <1>2, SeqOfFunction DEF Faces

(* A card under the pointer lies on its pile.                              *)
LEMMA SpotFacts ==
  ASSUME board \in Boards, NEW s \in CardSpots
  PROVE  /\ s[1] \in PileType /\ s[1] # Stock
         /\ Len(board[s[1]]) \in Nat /\ s[2] \in 1 .. Len(board[s[1]])
         /\ board[s[1]] \in Seq(Card)
<1>1. /\ s \in PileType \X (1 .. Cardinality(Face))
      /\ s[1] # Stock /\ s[2] <= Len(board[s[1]])
  BY DEF CardSpots
<1>2. s[1] \in PileType /\ s[2] \in 1 .. Cardinality(Face)
  BY <1>1
<1>3. Cardinality(Face) \in Nat
  BY FaceFinite
<1>4. board[s[1]] \in Seq(Card) /\ Len(board[s[1]]) \in Nat
  BY <1>2, LenProperties DEF Boards
<1> QED
  BY <1>1, <1>2, <1>3, <1>4

(* A drag of somebody's has cards, from a pile.                            *)
WholeDrag(d) ==
  /\ d \in DragState
  /\ d.by # "nobody" => d.origin \in PileType /\ Len(d.cards) \in Nat \ {0}

(* The drags the pipeline leaves are whole: none ...                       *)
LEMMA NoDragWhole == WholeDrag(NoDrag)
<1>1. << >> \in Seq(Face)
  OBVIOUS
<1> QED
  BY <1>1 DEF WholeDrag, DragState, NoDrag

(* ... a new one ...                                                       *)
LEMMA StartedWhole ==
  ASSUME board \in Boards, NEW s \in CardSpots
  PROVE  WholeDrag(Started(s[1], s[2]))
<1> DEFINE pile == board[s[1]]
           n    == Len(pile) - s[2] + 1
           top  == TopCards(pile, n)
<1>1. /\ s[1] \in PileType /\ pile \in Seq(Card) /\ Len(pile) \in Nat
      /\ s[2] \in 1 .. Len(pile)
  BY SpotFacts
<1>2. n \in 0 .. Len(pile) /\ n \in Nat \ {0}
  <2> HIDE DEF pile
  <2> QED
    BY <1>1
<1>3. top \in Seq(Card) /\ Len(top) = n
  <2> HIDE DEF pile, n
  <2> QED
    BY <1>1, <1>2, TopCardsFacts DEF top
<1>4. Faces(top) \in Seq(Face) /\ Len(Faces(top)) = n
  <2> HIDE DEF top
  <2> QED
    BY <1>3, FacesFacts
<1>5. Started(s[1], s[2]) = [cards |-> Faces(top), origin |-> s[1], committed |-> FALSE,
                             by |-> "mouse"]
  BY DEF Started
<1> HIDE DEF top, n, pile
<1> QED
  BY <1>1, <1>2, <1>4, <1>5 DEF WholeDrag, DragState

(* ... and one that is followed or let go.                                 *)
LEMMA FollowedWhole ==
  ASSUME NEW d, WholeDrag(d)
  PROVE  WholeDrag(Followed(d)) /\ WholeDrag(Released(d))
<1>1. WholeDrag([d EXCEPT !.committed = TRUE])
  BY DEF WholeDrag, DragState
<1>2. WholeDrag(Followed(d))
  BY <1>1, NoDragWhole DEF Followed
<1>3. WholeDrag(Released(d))
  BY NoDragWhole DEF Released
<1> QED
  BY <1>2, <1>3

LEMMA NoMovesType == NoMoves \in Seq(MoveRequest)
BY DEF NoMoves

(* Every way to ask for a move names two piles and at least one card.      *)
LEMMA OneRequest ==
  ASSUME NEW from \in PileType, NEW to \in PileType, NEW n \in Nat \ {0}
  PROVE  /\ Request(from, to, n) \in MoveRequest
         /\ <<Request(from, to, n)>> \in Seq(MoveRequest)
<1>1. Request(from, to, n) \in MoveRequest
  BY DEF Request, MoveRequest
<1> QED
  BY <1>1

LEMMA DroppedType ==
  ASSUME NEW d, WholeDrag(d), d.by = "mouse", NEW target
  PROVE  Dropped(d, target) \in Seq(MoveRequest)
<1>1. d.origin \in PileType /\ Len(d.cards) \in Nat \ {0}
  BY DEF WholeDrag
<1>2. CASE target \in Foundations \cup Tableaus
  <2>1. target \in PileType
    BY <1>2, PileKinds
  <2>2. <<Request(d.origin, target, Len(d.cards))>> \in Seq(MoveRequest)
    BY <1>1, <2>1, OneRequest
  <2> QED
    BY <2>2, NoMovesType DEF Dropped
<1>3. CASE target \notin Foundations \cup Tableaus
  BY <1>3, NoMovesType DEF Dropped
<1> QED
  BY <1>2, <1>3

LEMMA DoubleClickedType ==
  ASSUME board \in Boards, NEW s \in CardSpots
  PROVE  DoubleClicked(s[1], s[2]) \in Seq(MoveRequest)
<1> DEFINE n == Len(board[s[1]]) - s[2] + 1
<1>1. s[1] \in PileType /\ n \in Nat \ {0} /\ 1 \in Nat \ {0}
  BY SpotFacts
<1>2. Requests(s[1], BestDestination(Last(board[s[1]])), 1) \in Seq(MoveRequest)
  BY <1>1, BestOnes, RequestsType
<1>3. Requests(s[1], BestColumn(board[s[1]][s[2]], s[1]), n) \in Seq(MoveRequest)
  <2> HIDE DEF n
  <2> QED
    BY <1>1, BestOnes, RequestsType
<1> QED
  BY <1>2, <1>3, NoMovesType DEF DoubleClicked

(* The selection's own move, and the pile it goes on to.                   *)
LEMMA AutoMoveType ==
  ASSUME board \in Boards, NEW source \in PileType, board[source] # << >>,
         Last(board[source]).up
  PROVE  AutoMove(source) \in Seq(MoveRequest)
<1> DEFINE n == RunLength(board[source])
<1>1. board[source] \in Seq(Card) /\ Len(board[source]) \in Nat \ {0}
  BY LenProperties, EmptySeq DEF Boards
<1>2. n \in Nat \ {0} /\ 1 \in Nat \ {0}
  <2>1. /\ n \in 0 .. Len(board[source])
        /\ n < Len(board[source]) => ~ board[source][Len(board[source]) - n].up
    BY <1>1, RunLengthFacts
  <2>2. n # 0
    BY <1>1, <2>1 DEF Last
  <2> HIDE DEF n
  <2> QED
    BY <1>1, <2>1, <2>2
<1> DEFINE top    == Last(board[source])
           bottom == board[source][Len(board[source]) - n + 1]
<1>3. Requests(source, BestDestination(top), 1) \in Seq(MoveRequest)
  BY <1>2, BestOnes, RequestsType
<1>4. FoundationsFor(top) # {} =>
        Requests(source, FirstOf(FoundationsFor(top)), 1) \in Seq(MoveRequest)
  BY <1>2, BestOnes, RequestsType
<1>5. Requests(source, BestColumn(bottom, source), n) \in Seq(MoveRequest)
  <2> HIDE DEF n, bottom
  <2> QED
    BY <1>2, BestOnes, RequestsType
<1> QED
  BY <1>3, <1>4, <1>5 DEF AutoMove

LEMMA CycleType ==
  ASSUME selected \in Pickable \cup {NoPile}
  PROVE  CycleNextPile \in Pickable \cup {NoPile}
<1> DEFINE n     == Len(CycledPiles)
           from  == IF selected = NoPile THEN 0
                    ELSE CHOOSE k \in 1 .. n : CycledPiles[k] = selected
           after(k) == CycledPiles[((from + k - 1) % n) + 1]
           found == {k \in 1 .. n : after(k) \in ToSet(Available)}
<1>1. CycleNextPile = IF found = {} THEN NoPile ELSE after(Min(found))
  BY DEF CycleNextPile
<1>2. n \in Nat \ {0} /\ \A k \in 1 .. n : CycledPiles[k] \in Pickable
  <2>1. \E k \in 1 .. n : CycledPiles[k] = Waste
    BY CycledFacts DEF Pickable
  <2> QED
    BY <2>1, CycledFacts, ElementOfSeq
<1>3. from \in Nat
  <2>1. selected \in Pickable => \E k \in 1 .. n : CycledPiles[k] = selected
    BY CycledFacts
  <2> QED
    BY <1>2, <2>1
<1>4. ASSUME found # {}
      PROVE  after(Min(found)) \in Pickable
  <2>1. found \in SUBSET Nat
    BY <1>2
  <2>2. \E x \in found : \A y \in found : x <= y
    <3> HIDE DEF found
    <3> QED
      BY <1>4, <2>1, LeastNatural
  <2>3. Min(found) \in found
    <3> HIDE DEF found
    <3> QED
      BY <2>2 DEF Min
  <2>4. Min(found) \in 1 .. n
    BY <2>3
  <2> HIDE DEF found, n, from
  <2> DEFINE m == Min(found)
  <2>5. ((from + m - 1) % n) + 1 \in 1 .. n
    <3> HIDE DEF m
    <3>1. from + m - 1 \in Int /\ n \in Nat /\ n > 0
      BY <1>2, <1>3, <2>4 DEF m
    <3>2. (from + m - 1) % n \in 0 .. n - 1
      BY <3>1
    <3> QED
      BY <3>1, <3>2
  <2> QED
    BY <1>2, <2>5 DEF n
<1> QED
  BY <1>1, <1>4

---------------------------------------------------------------------------
(* What is lifted.                                                         *)

LiftCount(source) ==
  IF source \in Tableaus THEN Max({RunLength(board[source]), 1}) ELSE 1

(* The whole run of a column or the top card of another pile: face-up, and *)
(* fit to be put down together.                                            *)
LEMMA LiftedRun ==
  ASSUME GoodBoard(board), NEW source \in Pickable, board[source] # << >>
  PROVE  LET s == board[source]
             n == LiftCount(source)
         IN  /\ s \in Seq(Card) /\ Len(s) \in Nat /\ n \in 1 .. Len(s)
             /\ source \notin Tableaus => n = 1
             /\ TopCards(s, n) \in Seq(Card) /\ Len(TopCards(s, n)) = n
             /\ TopCards(s, n)[1] = s[Len(s) - n + 1]
             /\ \A k \in 1 .. n : TopCards(s, n)[k].up
             /\ IsValidTableauSequence(TopCards(s, n))
<1> DEFINE s == board[source]
           n == LiftCount(source)
           moved == TopCards(s, n)
           r == RunLength(s)
<1>1. /\ source \in PileType /\ source # Stock
      /\ s \in Seq(Card) /\ GoodPile(source, s) /\ Len(s) \in Nat \ {0}
  BY PileKinds, LenProperties, EmptySeq DEF GoodBoard, GoodPile, Pickable
<1>2. /\ r \in 0 .. Len(s)
      /\ \A k \in 1 .. r : s[Len(s) - k + 1].up
      /\ r < Len(s) => ~ s[Len(s) - r].up
  BY <1>1, RunLengthFacts
<1>3. source \in Tableaus => ColumnBuilt(s)
  BY <1>1 DEF GoodPile
<1>4. source \in Tableaus => r # 0
  BY <1>1, <1>2, <1>3 DEF ColumnBuilt, Last
<1>5. source \in Tableaus => n = r
  <2> SUFFICES ASSUME source \in Tableaus PROVE n = r
    OBVIOUS
  <2>1. n = Max({r, 1})
    BY DEF LiftCount
  <2> HIDE DEF n, r
  <2>2. r \in Nat \ {0}
    BY <1>1, <1>2, <1>4
  <2>3. Max({r, 1}) \in {r, 1} /\ \A y \in {r, 1} : Max({r, 1}) >= y
    <3>1. \E x \in {r, 1} : \A y \in {r, 1} : x >= y
      BY <2>2
    <3> QED
      BY <3>1 DEF Max
  <2> QED
    BY <2>1, <2>2, <2>3
<1>6. source \notin Tableaus => n = 1
  BY DEF LiftCount
<1> HIDE DEF r, n, s
<1>7. n \in 1 .. Len(s) /\ n \in 0 .. Len(s) /\ n \in Nat
  BY <1>1, <1>2, <1>4, <1>5, <1>6
<1>8. /\ moved \in Seq(Card) /\ Len(moved) = n
      /\ \A k \in 1 .. n : moved[k] = s[Len(s) - n + k]
  BY <1>1, <1>7, TopCardsFacts
<1>9. \A k \in 1 .. n : Len(s) - n + k \in 1 .. Len(s)
  BY <1>1, <1>7
<1> HIDE DEF moved
<1>10. \A k \in 1 .. n : moved[k].up
  <2>1. CASE source \in Tableaus
    <3>1. TAKE k \in 1 .. n
    <3>2. n - k + 1 \in 1 .. r /\ Len(s) - (n - k + 1) + 1 = Len(s) - n + k
      BY <1>1, <1>5, <1>7, <2>1
    <3> QED
      BY <1>2, <1>8, <3>2
  <2>2. CASE source \notin Tableaus
    <3>1. source \in Foundations \cup {Waste}
      BY <2>2 DEF Pickable
    <3>2. \A k \in 1 .. Len(s) : s[k].up
      BY <1>1, <3>1 DEF GoodPile
    <3> QED
      BY <1>8, <1>9, <3>2
  <2> QED
    BY <2>1, <2>2
<1>11. IsValidTableauSequence(moved)
  <2>1. ASSUME NEW k \in 1 .. n - 1
        PROVE  Follows(moved[k], moved[k + 1])
    <3>1. /\ k \in 1 .. n /\ k + 1 \in 1 .. n
          /\ Len(s) - n + k \in 1 .. Len(s) - 1
          /\ Len(s) - n + (k + 1) = (Len(s) - n + k) + 1
      BY <1>1, <1>7
    <3>2. source \in Tableaus
      BY <1>6, <3>1
    <3>3. s[Len(s) - n + k].up
      BY <1>8, <1>10, <3>1
    <3>4. Follows(s[Len(s) - n + k], s[(Len(s) - n + k) + 1])
      BY <1>3, <3>1, <3>2, <3>3 DEF ColumnBuilt
    <3> QED
      BY <1>8, <3>1, <3>4
  <2> QED
    BY <1>8, <2>1 DEF IsValidTableauSequence
<1>12. moved[1] = s[Len(s) - n + 1]
  BY <1>7, <1>8
<1> QED
  BY <1>1, <1>6, <1>7, <1>8, <1>10, <1>11, <1>12 DEF s, n, moved

(* The cards of a lift are the top ones of its pile, and every destination *)
(* takes them (but from one foundation to another).                        *)
OnBoard(l) ==
  LET n == Len(l.cards)
  IN  /\ n <= Len(board[l.source])
      /\ l.cards = Faces(TopCards(board[l.source], n))
      /\ \A k \in 1 .. Len(l.destinations) :
           \/ {l.source, l.destinations[k]} \subseteq Foundations
           \/ MoveAllowed(board, TRUE, l.source, l.destinations[k], n)

(* What Enter lifts.                                                       *)
LEMMA LiftFacts ==
  ASSUME GoodBoard(board), NEW source \in Pickable, board[source] # << >>,
         LiftFrom(source).destinations # << >>
  PROVE  LET l == LiftFrom(source)
         IN  /\ l \in LiftState /\ l.source = source
             /\ l.index = 1 /\ Len(l.destinations) \in Nat \ {0}
             /\ Len(l.cards) \in Nat \ {0}
             /\ OnBoard(l)
<1> DEFINE s == board[source]
           n == LiftCount(source)
           moved == TopCards(s, n)
           bottom == moved[1]
           dests == LegalDestinationsFor(bottom, source, n)
           l == LiftFrom(source)
<1>1. /\ s \in Seq(Card) /\ Len(s) \in Nat /\ n \in 1 .. Len(s)
      /\ source \notin Tableaus => n = 1
      /\ moved \in Seq(Card) /\ Len(moved) = n
      /\ bottom = s[Len(s) - n + 1]
      /\ \A k \in 1 .. n : moved[k].up
      /\ IsValidTableauSequence(moved)
  BY LiftedRun
<1>2. l = [source |-> source, cards |-> Faces(moved), index |-> 1,
           destinations |-> dests]
  BY DEF LiftFrom, LiftCount
<1>3. dests \in Seq({t \in Foundations \cup Tableaus : Legal(t, bottom, source, n)})
  BY LegalDestinations
<1> HIDE DEF l, dests, bottom
<1>4. Faces(moved) \in Seq(Face) /\ Len(Faces(moved)) = n /\ n \in Nat \ {0}
  <2> HIDE DEF moved, n
  <2> QED
    BY <1>1, FacesFacts
<1>5. source \in PileType
  BY PileKinds DEF Pickable
<1>6. /\ l.source = source /\ l.cards = Faces(moved) /\ l.index = 1
      /\ l.destinations = dests
  BY <1>2
<1>7. /\ Len(dests) \in Nat \ {0} /\ dests \in Seq(PileType)
      /\ \A k \in 1 .. Len(dests) :
           dests[k] \in Foundations \cup Tableaus /\ Legal(dests[k], bottom, source, n)
  <2> DEFINE L == {t \in Foundations \cup Tableaus : Legal(t, bottom, source, n)}
  <2>1. L \subseteq PileType
    BY PileKinds
  <2>2. \A t \in L : t \in Foundations \cup Tableaus /\ Legal(t, bottom, source, n)
    OBVIOUS
  <2>3. dests \in Seq(L) /\ dests # << >>
    BY <1>3, <1>6 DEF l
  <2> HIDE DEF L
  <2>4. Len(dests) \in Nat /\ \A k \in 1 .. Len(dests) : dests[k] \in L
    BY <2>3, LenProperties, ElementOfSeq
  <2>5. Len(dests) # 0
    BY <2>3, EmptySeq
  <2>6. dests \in [1 .. Len(dests) -> PileType]
    <3>1. dests \in [1 .. Len(dests) -> L]
      BY <2>3, LenProperties
    <3> QED
      BY <2>1, <3>1
  <2>7. dests \in Seq(PileType)
    BY <2>4, <2>6, SeqOfFunction
  <2> QED
    BY <2>2, <2>4, <2>5, <2>7
<1>8. l \in LiftState
  <2> HIDE DEF moved, n
  <2> QED
    BY <1>2, <1>4, <1>5, <1>7 DEF LiftState
<1>9. ASSUME NEW t \in Foundations \cup Tableaus, Legal(t, bottom, source, n)
      PROVE  {source, t} \subseteq Foundations \/ MoveAllowed(board, TRUE, source, t, n)
  <2> HIDE DEF n
  <2>1. /\ source # t /\ n \in 1 .. Len(board[source])
        /\ \A k \in 1 .. n : TopCards(board[source], n)[k].up
        /\ board[source][Len(board[source]) - n + 1] = bottom
        /\ IsValidTableauSequence(TopCards(board[source], n))
    BY <1>1, <1>9 DEF Legal
  <2>2. source \in Foundations \/ source = Waste => n = 1
    BY <1>1, PileKinds
  <2>3. CASE t \in Foundations /\ n = 1 /\ CanPlaceOnFoundation(bottom, board[t])
    <3>1. CASE source \in Foundations
      BY <2>3, <3>1
    <3>2. CASE source \notin Foundations
      BY <2>1, <2>3, <3>2 DEF MoveAllowed
    <3> QED
      BY <3>1, <3>2
  <2>4. CASE t \in Tableaus /\ CanPlaceOnTableau(bottom, board[t])
    BY <2>1, <2>2, <2>4 DEF MoveAllowed
  <2> QED
    BY <1>9, <2>3, <2>4 DEF Legal
<1>10. OnBoard(l)
  <2>1. Len(l.cards) = n /\ l.source = source /\ l.destinations = dests
        /\ l.cards = Faces(moved)
    BY <1>4, <1>6
  <2>2. n <= Len(board[source])
    BY <1>1
  <2>3. \A k \in 1 .. Len(dests) :
          \/ {source, dests[k]} \subseteq Foundations
          \/ MoveAllowed(board, TRUE, source, dests[k], n)
    BY <1>7, <1>9
  <2> QED
    BY <2>1, <2>2, <2>3 DEF OnBoard
<1> QED
  BY <1>4, <1>6, <1>7, <1>8, <1>10 DEF l

---------------------------------------------------------------------------
(* The game.                                                               *)

GoodBoards == {p \in Boards : GoodBoard(p)}

(* A game reached in this frame: its boards are good, and that its board   *)
(* is another one than the frame began with has been told.                 *)
Games == {g \in [board : GoodBoards, past : Seq(GoodBoards), changed : BOOLEAN] :
            g.changed \/ g.board = board}

(* Every request leaves a good game a good game.                           *)
LEMMA PlayedGame ==
  ASSUME NEW g \in Games, NEW next \in GoodBoards
  PROVE  Played(g, next) \in Games
<1>1. g.board \in GoodBoards /\ g.past \in Seq(GoodBoards)
  BY DEF Games
<1>2. Append(g.past, g.board) \in Seq(GoodBoards)
  BY <1>1, AppendProperties
<1> QED
  BY <1>2 DEF Games, Played

LEMMA DealtGood == Dealt \in GoodBoards
BY DealGood, DeckAssumption DEF Dealt, GoodBoards, GoodBoard

LEMMA NewGame ==
  ASSUME NEW g \in Games
  PROVE  AfterNewGame(g) \in Games
<1>1. Dealt \in GoodBoards
  BY DealtGood
<1>2. << >> \in Seq(GoodBoards)
  OBVIOUS
<1>3. [board |-> Dealt, past |-> << >>, changed |-> TRUE] \in Games
  BY <1>1, <1>2 DEF Games
<1> QED
  BY <1>3 DEF AfterNewGame

LEMMA DrawnGame ==
  ASSUME NEW g \in Games, NEW request
  PROVE  DrawFor(request, g) \in Games
<1>1. GoodBoard(g.board)
  BY DEF Games, GoodBoards
<1>2. AfterDraw(g.board, 1) \in GoodBoards /\ AfterRecycle(g.board) \in GoodBoards
  BY <1>1, DrawGood, RecycleGood DEF GoodBoards, GoodBoard
<1> QED
  BY <1>2, PlayedGame DEF DrawFor

LEMMA MovedGame ==
  ASSUME NEW g \in Games, NEW m \in MoveRequest
  PROVE  AfterRequest(g, m) \in Games
<1>1. GoodBoard(g.board)
  BY DEF Games, GoodBoards
<1>2. CASE MoveAllowed(g.board, TRUE, m.from, m.to, m.count)
  <2>1. m.from \in PileType /\ m.to \in PileType /\ m.count \in 1 .. Len(g.board[m.from])
    BY <1>2 DEF MoveRequest, MoveAllowed
  <2>2. AfterMove(g.board, m.from, m.to, m.count) \in GoodBoards
    BY <1>1, <1>2, <2>1, MoveGood DEF GoodBoards, GoodBoard
  <2> QED
    BY <2>2, PlayedGame DEF AfterRequest
<1>3. CASE ~ MoveAllowed(g.board, TRUE, m.from, m.to, m.count)
  BY <1>3 DEF AfterRequest
<1> QED
  BY <1>2, <1>3

LEMMA UndoneGame ==
  ASSUME NEW g \in Games
  PROVE  AfterUndo(g) \in Games
<1>1. g.past \in Seq(GoodBoards) /\ Len(g.past) \in Nat
  BY LenProperties DEF Games
<1>2. ASSUME g.past # << >>
      PROVE  [board |-> Last(g.past), past |-> Front(g.past), changed |-> TRUE] \in Games
  <2>1. Len(g.past) \in 1 .. Len(g.past) /\ 1 \in 0 .. Len(g.past)
    BY <1>1, <1>2, EmptySeq
  <2>2. Last(g.past) \in GoodBoards
    BY <1>1, <2>1, ElementOfSeq DEF Last
  <2>3. Front(g.past) \in Seq(GoodBoards)
    <3>1. Front(g.past) = DropCards(g.past, 1)
      BY DEF Front, DropCards
    <3> QED
      BY <1>1, <2>1, <3>1, DropCardsFacts
  <2> QED
    BY <2>2, <2>3 DEF Games
<1> QED
  BY <1>2 DEF AfterUndo

(* What a frame makes of the game, request by request.                     *)
LEMMA MutatedGame ==
  ASSUME board \in GoodBoards, past \in Seq(GoodBoards), changed \in BOOLEAN,
         moves \in Seq(MoveRequest), GameMutation
  PROVE  [board |-> board', past |-> past', changed |-> changed'] \in Games
<1> DEFINE g0 == [board |-> board, past |-> past, changed |-> changed]
           before == AfterDraws(AfterNewGame(g0))
           N == Len(moves)
           Then(f, k) == IF k = 0 THEN before ELSE AfterRequest(f[k - 1], moves[k])
           after == CHOOSE f : f = [k \in 0 .. N |-> Then(f, k)]
           step == [k \in 1 .. N |-> [g \in Games |-> AfterRequest(g, moves[k])]]
           last == AfterUndo(after[N])
<1>1. board' = last.board /\ past' = last.past /\ changed' = last.changed
  BY DEF GameMutation
<1>2. before \in Games
  <2>1. g0 \in Games
    BY DEF Games
  <2> HIDE DEF g0
  <2>2. AfterNewGame(g0) \in Games
    BY <2>1, NewGame
  <2>3. DrawFor("draw", AfterNewGame(g0)) \in Games
    BY <2>2, DrawnGame
  <2> QED
    BY <2>3, DrawnGame DEF AfterDraws
<1>3. N \in Nat /\ \A k \in 1 .. N : moves[k] \in MoveRequest
  BY LenProperties, ElementOfSeq
<1> HIDE DEF before, N
<1>4. \A k \in 1 .. N, g \in Games : AfterRequest(g, moves[k]) \in Games
  BY <1>3, MovedGame
<1>5. step \in [1 .. N -> [Games -> Games]]
  BY <1>4
<1>6. \A k \in 1 .. N, g \in Games : step[k][g] = AfterRequest(g, moves[k])
  OBVIOUS
<1> HIDE DEF step
<1>7. PICK f : Runs(f, Games, N, before, step)
  BY <1>2, <1>3, <1>5, Iterates
<1>8. /\ f \in [0 .. N -> Games] /\ f[0] = before
      /\ \A k \in 1 .. N : f[k] = step[k][f[k - 1]]
  BY <1>7 DEF Runs
<1>9. f = [k \in 0 .. N |-> Then(f, k)]
  <2>1. ASSUME NEW k \in 0 .. N
        PROVE  f[k] = Then(f, k)
    <3>1. CASE k = 0
      BY <1>8, <3>1
    <3>2. CASE k # 0
      <4>1. k \in 1 .. N /\ k - 1 \in 0 .. N
        BY <1>3, <3>2
      <4>2. f[k - 1] \in Games
        BY <1>8, <4>1
      <4> QED
        BY <1>6, <1>8, <3>2, <4>1, <4>2
    <3> QED
      BY <3>1, <3>2
  <2> HIDE DEF Then
  <2> QED
    BY <1>8, <2>1
<1>10. after = [k \in 0 .. N |-> Then(after, k)]
  BY <1>9
<1> HIDE DEF after
<1>11. after[0] = before
  BY <1>3, <1>10
<1>12. ASSUME NEW k \in 1 .. N, after[k - 1] \in Games
       PROVE  after[k] \in Games
  <2>1. k \in 0 .. N /\ k # 0
    BY <1>3
  <2>2. after[k] = Then(after, k)
    BY <1>10, <2>1
  <2> QED
    BY <1>4, <1>12, <2>1, <2>2
<1>13. \A k \in 0 .. N : after[k] \in Games
  BY <1>2, <1>3, <1>11, <1>12, Stays
<1>14. N \in 0 .. N
  BY <1>3
<1>15. last \in Games
  BY <1>13, <1>14, UndoneGame
<1> HIDE DEF last
<1>16. last = [board |-> last.board, past |-> last.past, changed |-> last.changed]
  BY <1>15 DEF Games
<1> QED
  BY <1>1, <1>15, <1>16

---------------------------------------------------------------------------
(* The invariant.                                                          *)

(* The order of a frame, and what a press found under the pointer as long  *)
(* as the game has not changed.                                            *)
FrameInv ==
  /\ ran \subseteq Systems \cup {"rest"}
  /\ "mutate" \in ran => {"chain", "select"} \subseteq ran
  /\ "clear" \in ran => "mutate" \in ran
  /\ paused \in BOOLEAN /\ was_paused \in BOOLEAN
  /\ held \subseteq {"left", "right"}
  /\ asked \subseteq {"draw", "click", "undo", "new game"}
  /\ Does("press") /\ "mutate" \notin ran => input.at \in CardSpots \cup {<<Stock, 0>>}

RadialState == [source : PileType \cup {NoPile}, destinations : SUBSET PileType]

(* Everything a handler has put down for another: types, for the most part *)
(* - and that whatever is chosen, dragged or opened names a pile.          *)
HandsInv ==
  /\ board \in GoodBoards /\ past \in Seq(GoodBoards) /\ changed \in BOOLEAN
  /\ selected \in Pickable \cup {NoPile}
  /\ WholeDrag(drag)
  /\ lift \in LiftState /\ lift.index <= Len(lift.destinations)
  /\ radial \in RadialState /\ (radial # NoRadial => radial.source \in PileType)
  /\ moves \in Seq(MoveRequest)

(* The lift follows the board, but between a change of the game and the    *)
(* clear_selection_on_state_change that the change calls for: nothing that *)
(* reads the lift runs in between.                                         *)
LiftInv ==
  lift # NoLift =>
    /\ lift.source = selected
    /\ drag.cards = lift.cards /\ drag.origin = lift.source
    /\ lift.index \in 1 .. Len(lift.destinations)
    /\ Len(lift.cards) \in Nat \ {0}
    /\ OnBoard(lift) \/ (changed /\ "mutate" \in ran /\ "clear" \notin ran)

(* Empty hands have their types.                                           *)
LEMMA NoneInHand ==
  /\ NoLift \in LiftState /\ NoLift.index <= Len(NoLift.destinations)
  /\ NoRadial \in RadialState
<1>1. << >> \in Seq(Face) /\ << >> \in Seq(PileType) /\ Len(<< >>) = 0
  OBVIOUS
<1>2. NoLift \in LiftState
  BY <1>1 DEF NoLift, LiftState
<1>3. NoLift.index <= Len(NoLift.destinations)
  BY <1>1 DEF NoLift
<1> QED
  BY <1>2, <1>3 DEF NoRadial, RadialState

LEMMA InitFreshInv == InputInit => FrameInv /\ HandsInv /\ LiftInv
<1> SUFFICES ASSUME InputInit PROVE FrameInv /\ HandsInv /\ LiftInv
  OBVIOUS
<1>1. FrameInv
  BY DEF InputInit, FrameInv, NoInput, Does
<1>2. HandsInv
  <2>1. board \in GoodBoards
    BY DealtGood DEF InputInit
  <2>2. << >> \in Seq(GoodBoards) /\ NoMoves \in Seq(MoveRequest)
    BY NoMovesType
  <2> QED
    BY <2>1, <2>2, NoDragWhole, NoneInHand DEF InputInit, HandsInv
<1>3. LiftInv
  BY DEF InputInit, LiftInv
<1> QED
  BY <1>1, <1>2, <1>3

(* The spots of the cards are those of the board.                          *)
LEMMA SpotsOfBoard ==
  ASSUME board' = board
  PROVE  CardSpots' = CardSpots
BY DEF CardSpots

(* Every step keeps the order of the frame.                                *)
LEMMA NextFrameInv == FrameInv /\ [InputNext]_inputVars => FrameInv'
<1> SUFFICES ASSUME FrameInv, [InputNext]_inputVars PROVE FrameInv'
  OBVIOUS
<1> USE DEF Systems
<1>1. ASSUME BeginFrame PROVE FrameInv'
  <2>1. PICK e \in PointerEvents, key \in Keys :
          /\ input' = [does |-> e.does, at |-> e.at, twice |-> e.twice, key |-> key]
          /\ held' = HeldAfter(e.does)
    BY <1>1 DEF BeginFrame
  <2>2. /\ ran' = {} /\ was_paused' = paused
        /\ paused' = paused /\ asked' = asked /\ board' = board
    BY <1>1 DEF BeginFrame
  <2>3. held' \subseteq {"left", "right"}
    BY <2>1 DEF HeldAfter, FrameInv
  <2>4. input'.does = "press" => input'.at \in CardSpots \cup {<<Stock, 0>>}
    <3>1. e.does = "press" => e.at \in CardSpots \cup {<<Stock, 0>>}
      BY DEF PointerEvents
    <3> QED
      BY <2>1, <3>1
  <2>5. CardSpots' = CardSpots
    BY <2>2, SpotsOfBoard
  <2> QED
    BY <2>2, <2>3, <2>4, <2>5 DEF FrameInv, Does
<1>2. ASSUME TogglePause PROVE FrameInv'
  <2>1. /\ ran' = ran \cup {"pause"} /\ was_paused' = was_paused
        /\ held' = held /\ asked' = asked /\ board' = board /\ input' = input
    BY <1>2 DEF TogglePause
  <2>2. paused' \in BOOLEAN
    BY <1>2 DEF TogglePause, FrameInv
  <2>3. CardSpots' = CardSpots
    BY <2>1, SpotsOfBoard
  <2> QED
    BY <2>1, <2>2, <2>3 DEF FrameInv, Does
<1>3. ASSUME Chain PROVE FrameInv'
  <2>1. /\ ran' = ran \cup {"chain"} /\ was_paused' = was_paused /\ paused' = paused
        /\ held' = held /\ board' = board /\ input' = input
    BY <1>3 DEF Chain
  <2>2. asked' \subseteq asked \cup KeyRequests \cup {"click"}
    BY <1>3 DEF Chain
  <2>3. KeyRequests \subseteq {"draw", "undo", "new game"}
    BY DEF KeyRequests
  <2>4. CardSpots' = CardSpots
    BY <2>1, SpotsOfBoard
  <2> QED
    BY <2>1, <2>2, <2>3, <2>4 DEF FrameInv, Does
<1>4. ASSUME SelectionKeys PROVE FrameInv'
  <2>1. /\ ran' = ran \cup {"select"} /\ was_paused' = was_paused /\ paused' = paused
        /\ held' = held /\ asked' = asked /\ board' = board /\ input' = input
    BY <1>4 DEF SelectionKeys
  <2>2. CardSpots' = CardSpots
    BY <2>1, SpotsOfBoard
  <2> QED
    BY <2>1, <2>2 DEF FrameInv, Does
<1>5. ASSUME Radial PROVE FrameInv'
  <2>1. /\ ran' = ran \cup {"radial"} /\ was_paused' = was_paused /\ paused' = paused
        /\ held' = held /\ asked' = asked /\ board' = board /\ input' = input
    BY <1>5 DEF Radial
  <2>2. CardSpots' = CardSpots
    BY <2>1, SpotsOfBoard
  <2> QED
    BY <2>1, <2>2 DEF FrameInv, Does
<1>6. ASSUME GameMutation PROVE FrameInv'
  <2>1. /\ {"chain", "select"} \subseteq ran /\ ran' = ran \cup {"mutate"}
        /\ was_paused' = was_paused /\ paused' = paused
        /\ held' = held /\ asked' = asked /\ input' = input
    BY <1>6 DEF GameMutation
  <2> QED
    BY <2>1 DEF FrameInv, Does
<1>7. ASSUME ClearSelection PROVE FrameInv'
  <2>1. /\ "mutate" \in ran /\ ran' = ran \cup {"clear"}
        /\ was_paused' = was_paused /\ paused' = paused
        /\ held' = held /\ asked' = asked /\ input' = input
    BY <1>7 DEF ClearSelection
  <2> QED
    BY <2>1 DEF FrameInv, Does
<1>8. ASSUME EndFrame PROVE FrameInv'
  <2>1. /\ ran' = {"rest"} /\ was_paused' = was_paused /\ paused' = paused
        /\ held' = held /\ asked' = {} /\ input' = NoInput
    BY <1>8 DEF EndFrame
  <2> QED
    BY <2>1 DEF FrameInv, Does, NoInput
<1>9. ASSUME UNCHANGED inputVars PROVE FrameInv'
  <2>1. CardSpots' = CardSpots
    BY <1>9, SpotsOfBoard DEF inputVars
  <2> QED
    BY <1>9, <2>1 DEF inputVars, FrameInv, Does
<1> QED
  BY <1>1, <1>2, <1>3, <1>4, <1>5, <1>6, <1>7, <1>8, <1>9 DEF InputNext

(* What the keys of the selection leave behind.                            *)
LEMMA ChosenDestination ==
  ASSUME DragInv, HandsInv, LiftInv, ChooseDestination
  PROVE  /\ selected' = selected /\ WholeDrag(drag')
         /\ lift' \in LiftState /\ lift'.index <= Len(lift'.destinations)
         /\ moves' \in Seq(MoveRequest)
         /\ \/ lift' = NoLift
            \/ /\ lift'.source = lift.source /\ lift'.cards = lift.cards
               /\ lift'.destinations = lift.destinations /\ drag' = drag
               /\ lift'.index \in 1 .. Len(lift'.destinations)
<1>1. /\ lift # NoLift /\ selected' = selected
      /\ \/ lift' = [lift EXCEPT !.index = NextDestination] /\ UNCHANGED <<drag, moves>>
         \/ /\ moves' = IF Typed("Esc") THEN moves
                        ELSE Append(moves, Request(lift.source,
                                                   lift.destinations[lift.index],
                                                   Len(lift.cards)))
            /\ lift' = NoLift /\ drag' = NoDrag
         \/ UNCHANGED <<lift, drag, moves>>
  BY DEF ChooseDestination
<1>2. /\ lift \in LiftState /\ moves \in Seq(MoveRequest) /\ WholeDrag(drag)
      /\ lift.index \in 1 .. Len(lift.destinations) /\ Len(lift.destinations) \in Nat
      /\ Len(lift.cards) \in Nat \ {0}
      /\ lift.source \in PileType /\ lift.destinations \in Seq(PileType)
  <2>1. lift.source \in PileType
    BY <1>1 DEF HandsInv, DragInv, LiftState
  <2>2. lift.destinations \in Seq(PileType)
    BY DEF HandsInv, LiftState
  <2> QED
    BY <1>1, <2>1, <2>2, LenProperties DEF HandsInv, LiftInv
<1>3. CASE lift' = [lift EXCEPT !.index = NextDestination] /\ UNCHANGED <<drag, moves>>
  <2> DEFINE n == Len(lift.destinations)
             i == lift.index
  <2>1. NextDestination = (i % n) + 1
    BY DEF NextDestination
  <2>2. n \in Nat \ {0} /\ i \in 1 .. n
    BY <1>2
  <2>3. NextDestination \in 1 .. n
    <3> HIDE DEF n, i
    <3>1. i % n \in 0 .. n - 1
      BY <2>2
    <3> QED
      BY <2>1, <2>2, <3>1
  <2>4. /\ lift'.source = lift.source /\ lift'.cards = lift.cards
        /\ lift'.destinations = lift.destinations /\ lift'.index = NextDestination
        /\ lift' \in LiftState
    <3>1. NextDestination \in Nat
      BY <2>2, <2>3
    <3> QED
      BY <1>2, <1>3, <3>1 DEF LiftState
  <2> QED
    BY <1>1, <1>2, <1>3, <2>2, <2>3, <2>4
<1>4. CASE /\ moves' = IF Typed("Esc") THEN moves
                       ELSE Append(moves, Request(lift.source,
                                                  lift.destinations[lift.index],
                                                  Len(lift.cards)))
           /\ lift' = NoLift /\ drag' = NoDrag
  <2>1. lift.destinations[lift.index] \in PileType
    BY <1>2, ElementOfSeq
  <2>2. Request(lift.source, lift.destinations[lift.index], Len(lift.cards))
          \in MoveRequest
    BY <1>2, <2>1, OneRequest
  <2>3. moves' \in Seq(MoveRequest)
    BY <1>2, <1>4, <2>2, AppendProperties
  <2> QED
    BY <1>1, <1>4, <2>3, NoneInHand, NoDragWhole
<1>5. CASE UNCHANGED <<lift, drag, moves>>
  BY <1>1, <1>2, <1>5
<1> QED
  BY <1>1, <1>3, <1>4, <1>5

(* ... and when it is a source that is chosen, what is lifted lies on the board.*)
LEMMA ChosenSource ==
  ASSUME DragInv, HandsInv, LiftInv, ChooseSource
  PROVE  /\ selected' \in Pickable \cup {NoPile} /\ WholeDrag(drag')
         /\ lift' \in LiftState /\ lift'.index <= Len(lift'.destinations)
         /\ moves' \in Seq(MoveRequest)
         /\ \/ lift' = NoLift
            \/ /\ lift'.source = selected' /\ drag'.cards = lift'.cards
               /\ drag'.origin = selected'
               /\ lift'.index \in 1 .. Len(lift'.destinations)
               /\ Len(lift'.cards) \in Nat \ {0}
               /\ OnBoard(lift')
<1> DEFINE ready == selected # NoPile /\ board[selected] # << >>
           auto  == IF Typed("Space") /\ ready /\ Last(board[selected]).up
                    THEN AutoMove(selected) ELSE NoMoves
           lifts == Typed("Enter") /\ ready /\ LiftFrom(selected).destinations # << >>
<1>1. /\ lift = NoLift
      /\ selected' = CASE Typed("Tab") -> CycleNextPile
                       [] Typed("Esc") \/ auto # NoMoves -> NoPile
                       [] OTHER -> selected
      /\ moves' = moves \o auto
      /\ IF lifts
         THEN /\ lift' = LiftFrom(selected)
              /\ drag' = [cards |-> lift'.cards, origin |-> selected,
                          committed |-> FALSE, by |-> "keyboard"]
         ELSE UNCHANGED <<lift, drag>>
  BY DEF ChooseSource
<1>2. /\ board \in Boards /\ GoodBoard(board) /\ selected \in Pickable \cup {NoPile}
      /\ WholeDrag(drag) /\ moves \in Seq(MoveRequest)
      /\ lift \in LiftState /\ lift.index <= Len(lift.destinations)
  BY DEF HandsInv, GoodBoards
<1>3. ready => selected \in Pickable /\ selected \in PileType
  BY <1>2, PileKinds DEF Pickable
<1>4. auto \in Seq(MoveRequest)
  BY <1>2, <1>3, AutoMoveType, NoMovesType
<1>5. Typed("Enter") =>
        ~ Typed("Tab") /\ ~ Typed("Esc") /\ ~ Typed("Space") /\ auto = NoMoves
  BY DEF Typed
<1> HIDE DEF auto
<1>6. moves' \in Seq(MoveRequest)
  BY <1>1, <1>2, <1>4, ConcatProperties
<1>7. selected' \in Pickable \cup {NoPile}
  <2>1. CycleNextPile \in Pickable \cup {NoPile}
    BY <1>2, CycleType
  <2>2. selected' \in {CycleNextPile, NoPile, selected}
    BY <1>1
  <2> QED
    BY <1>2, <2>1, <2>2
<1>8. CASE lifts
  <2> DEFINE l == LiftFrom(selected)
  <2>1. /\ l \in LiftState /\ l.source = selected
        /\ l.index = 1 /\ Len(l.destinations) \in Nat \ {0}
        /\ Len(l.cards) \in Nat \ {0} /\ OnBoard(l)
    BY <1>2, <1>3, <1>8, LiftFacts
  <2>2. /\ lift' = l /\ selected' = selected
        /\ drag' = [cards |-> l.cards, origin |-> selected, committed |-> FALSE,
                    by |-> "keyboard"]
    BY <1>1, <1>5, <1>8
  <2> HIDE DEF l
  <2>3. l.cards \in Seq(Face) /\ selected \in PileType
    BY <1>3, <1>8, <2>1 DEF LiftState
  <2>4. drag'.cards = l.cards /\ drag'.origin = selected /\ WholeDrag(drag')
    BY <2>1, <2>2, <2>3 DEF WholeDrag, DragState
  <2>5. l.index \in 1 .. Len(l.destinations) /\ l.index <= Len(l.destinations)
    BY <2>1
  <2>6. OnBoard(lift')
    BY <2>1, <2>2
  <2> QED
    BY <1>6, <1>7, <2>1, <2>2, <2>4, <2>5, <2>6
<1>9. CASE ~ lifts
  BY <1>1, <1>2, <1>6, <1>7, <1>9
<1> QED
  BY <1>8, <1>9

(* The chain leaves a drag by keyboard as it is.                           *)
LEMMA ChainHands ==
  ASSUME FrameInv, DragInv, HandsInv, Chain
  PROVE  /\ WholeDrag(drag') /\ moves' \in Seq(MoveRequest) /\ changed' \in BOOLEAN
         /\ changed => changed'
         /\ lift # NoLift => drag' = drag
<1> DEFINE pressed == Does("press") /\ Idle /\ ~ paused
           onCard  == pressed /\ input.at[1] # Stock
           d0      == IF onCard THEN Started(input.at[1], input.at[2]) ELSE drag
           d1      == Followed(d0)
           drops   == Does("release") /\ d1.by = "mouse" /\ d1.committed
           click   == IF onCard /\ input.twice
                      THEN DoubleClicked(input.at[1], input.at[2]) ELSE NoMoves
           drop    == IF drops THEN Dropped(d1, input.at[1]) ELSE NoMoves
<1>1. /\ "chain" \notin ran
      /\ IF paused
         THEN drag' = NoDrag /\ moves' = moves /\ changed' = changed
         ELSE /\ drag' = Released(d1)
              /\ moves' = moves \o click \o drop
              /\ changed' = (changed \/ drops)
  BY DEF Chain, Due
<1>2. /\ board \in Boards /\ WholeDrag(drag) /\ moves \in Seq(MoveRequest)
      /\ changed \in BOOLEAN
  BY DEF HandsInv, GoodBoards
<1>3. onCard => input.at \in CardSpots
  <2> SUFFICES ASSUME onCard PROVE input.at \in CardSpots
    OBVIOUS
  <2>1. input.at \in CardSpots \cup {<<Stock, 0>>}
    BY <1>1 DEF FrameInv
  <2>2. <<Stock, 0>>[1] = Stock
    OBVIOUS
  <2> QED
    BY <2>1, <2>2
<1>4. WholeDrag(d0) /\ click \in Seq(MoveRequest)
  BY <1>2, <1>3, StartedWhole, DoubleClickedType, NoMovesType
<1>5. lift # NoLift => ~ paused /\ d0 = drag /\ drag.by = "keyboard"
  BY NoDragFacts DEF DragInv, Idle
<1> HIDE DEF d0, click
<1>6. WholeDrag(d1) /\ WholeDrag(Released(d1))
  BY <1>4, FollowedWhole
<1>7. lift # NoLift => d1 = drag /\ Released(d1) = drag
  BY <1>5 DEF Followed, Released
<1> HIDE DEF d1
<1>8. drop \in Seq(MoveRequest)
  BY <1>6, DroppedType, NoMovesType
<1> HIDE DEF drop
<1>9. moves \o click \o drop \in Seq(MoveRequest)
  BY <1>2, <1>4, <1>8, ConcatProperties
<1>10. changed' \in BOOLEAN /\ (changed => changed')
  BY <1>1, <1>2
<1> QED
  BY <1>1, <1>2, <1>5, <1>6, <1>7, <1>9, <1>10, NoDragWhole

(* The radial menu opens over a pile, and asks for one card of it.         *)
LEMMA RadialHands ==
  ASSUME HandsInv, Radial
  PROVE  /\ radial' \in RadialState
         /\ radial' # NoRadial => radial'.source \in PileType
         /\ moves' \in Seq(MoveRequest)
<1> DEFINE open == RadialOpened
<1>1. /\ radial \in RadialState /\ (radial # NoRadial => radial.source \in PileType)
      /\ moves \in Seq(MoveRequest) /\ board \in Boards
  BY DEF HandsInv, GoodBoards
<1>2. open \in RadialState /\ (open # NoRadial => open.source \in PileType)
  <2> DEFINE t     == input.at[1]
             card  == board[t][input.at[2]]
             dests == (FoundationsFor(card) \cup ColumnsFor(card)) \ {t}
             opens == /\ Does("right press") /\ input.at \in CardSpots
                      /\ ~ paused /\ Idle /\ radial = NoRadial /\ dests # {}
  <2>1. open = IF opens THEN [source |-> t, destinations |-> dests] ELSE radial
    BY DEF RadialOpened
  <2>2. opens => t \in PileType
    BY <1>1, SpotFacts
  <2>3. dests \subseteq PileType
    BY PileKinds DEF FoundationsFor, ColumnsFor
  <2> HIDE DEF dests, t, opens, open
  <2>4. CASE opens
    <3>1. open = [source |-> t, destinations |-> dests]
      BY <2>1, <2>4
    <3> QED
      BY <2>2, <2>3, <2>4, <3>1 DEF RadialState
  <2>5. CASE ~ opens
    BY <1>1, <2>1, <2>5
  <2> QED
    BY <2>4, <2>5
<1>3. IF open # NoRadial /\ RadialCloses
      THEN /\ radial' = NoRadial
           /\ moves' = IF Does("right release") /\ input.at[1] \in open.destinations
                       THEN Append(moves, Request(open.source, input.at[1], 1))
                       ELSE moves
      ELSE radial' = open /\ moves' = moves
  BY DEF Radial
<1> HIDE DEF open
<1>4. ASSUME open # NoRadial, input.at[1] \in open.destinations
      PROVE  Append(moves, Request(open.source, input.at[1], 1)) \in Seq(MoveRequest)
  <2>1. open.source \in PileType /\ input.at[1] \in PileType /\ 1 \in Nat \ {0}
    BY <1>2, <1>4 DEF RadialState
  <2>2. Request(open.source, input.at[1], 1) \in MoveRequest
    BY <2>1, OneRequest
  <2> QED
    BY <1>1, <2>2, AppendProperties
<1> QED
  BY <1>1, <1>2, <1>3, <1>4, NoneInHand

(* Every step keeps what is in the hands ...                               *)
LEMMA NextHandsInv ==
  FrameInv /\ DragInv /\ HandsInv /\ LiftInv /\ [InputNext]_inputVars => HandsInv'
<1> SUFFICES ASSUME FrameInv, DragInv, HandsInv, LiftInv, [InputNext]_inputVars
             PROVE  HandsInv'
  OBVIOUS
<1>0. ASSUME board' = board, past' = past, changed' \in BOOLEAN,
             selected' \in Pickable \cup {NoPile}, WholeDrag(drag'),
             lift' \in LiftState, lift'.index <= Len(lift'.destinations),
             radial' \in RadialState, radial' # NoRadial => radial'.source \in PileType,
             moves' \in Seq(MoveRequest)
      PROVE  HandsInv'
  BY <1>0 DEF HandsInv, GoodBoards, GoodBoard, WholeDrag
<1>1. ASSUME BeginFrame \/ EndFrame \/ UNCHANGED inputVars PROVE HandsInv'
  <2>1. UNCHANGED <<board, past, changed, selected, drag, lift, radial, moves>>
    BY <1>1 DEF BeginFrame, EndFrame, inputVars
  <2> QED
    BY <1>0, <2>1 DEF HandsInv
<1>2. ASSUME TogglePause PROVE HandsInv'
  <2>1. UNCHANGED <<board, past, selected, lift, radial, moves>>
    BY <1>2 DEF TogglePause
  <2>2. (drag' = drag \/ drag' = NoDrag) /\ changed' \in BOOLEAN
    BY <1>2 DEF TogglePause, HandsInv
  <2>3. WholeDrag(drag')
    BY <2>2, NoDragWhole DEF HandsInv
  <2> QED
    BY <1>0, <2>1, <2>2, <2>3 DEF HandsInv
<1>3. ASSUME Chain PROVE HandsInv'
  <2>1. UNCHANGED <<board, past, selected, lift, radial>>
    BY <1>3 DEF Chain
  <2>2. WholeDrag(drag') /\ moves' \in Seq(MoveRequest) /\ changed' \in BOOLEAN
    BY <1>3, ChainHands
  <2> QED
    BY <1>0, <2>1, <2>2 DEF HandsInv
<1>4. ASSUME SelectionKeys PROVE HandsInv'
  <2>1. UNCHANGED <<board, past, changed, radial>>
    BY <1>4 DEF SelectionKeys
  <2>2. \/ UNCHANGED <<selected, lift, drag, moves>>
        \/ ChooseDestination
        \/ ChooseSource
    BY <1>4 DEF SelectionKeys
  <2>3. /\ selected' \in Pickable \cup {NoPile} /\ WholeDrag(drag')
        /\ lift' \in LiftState /\ lift'.index <= Len(lift'.destinations)
        /\ moves' \in Seq(MoveRequest)
    BY <2>2, ChosenDestination, ChosenSource DEF HandsInv
  <2> QED
    BY <1>0, <2>1, <2>3 DEF HandsInv
<1>5. ASSUME Radial PROVE HandsInv'
  <2>1. UNCHANGED <<board, past, changed, selected, drag, lift>>
    BY <1>5 DEF Radial
  <2>2. /\ radial' \in RadialState /\ (radial' # NoRadial => radial'.source \in PileType)
        /\ moves' \in Seq(MoveRequest)
    BY <1>5, RadialHands
  <2> QED
    BY <1>0, <2>1, <2>2 DEF HandsInv
<1>6. ASSUME GameMutation PROVE HandsInv'
  <2>1. UNCHANGED <<selected, drag, lift, radial>> /\ moves' = NoMoves
    BY <1>6 DEF GameMutation
  <2>2. [board |-> board', past |-> past', changed |-> changed'] \in Games
    BY <1>6, MutatedGame DEF HandsInv
  <2>3. board' \in GoodBoards /\ past' \in Seq(GoodBoards) /\ changed' \in BOOLEAN
    BY <2>2 DEF Games
  <2> QED
    BY <2>1, <2>3, NoMovesType
    DEF HandsInv, GoodBoards, GoodBoard, WholeDrag
<1>7. ASSUME ClearSelection PROVE HandsInv'
  <2>1. UNCHANGED <<board, past, radial, moves>> /\ changed' = FALSE
    BY <1>7 DEF ClearSelection
  <2>2. /\ selected' = selected \/ selected' = NoPile
        /\ lift' = lift \/ lift' = NoLift
        /\ drag' = drag \/ drag' = NoDrag
    BY <1>7 DEF ClearSelection, LiftAfterChange
  <2>3. WholeDrag(drag')
    BY <2>2, NoDragWhole DEF HandsInv
  <2>4. lift' \in LiftState /\ lift'.index <= Len(lift'.destinations)
    BY <2>2, NoneInHand DEF HandsInv
  <2>5. selected' \in Pickable \cup {NoPile}
    BY <2>2 DEF HandsInv
  <2> QED
    BY <1>0, <2>1, <2>3, <2>4, <2>5 DEF HandsInv
<1> QED
  BY <1>1, <1>2, <1>3, <1>4, <1>5, <1>6, <1>7 DEF InputNext

(* ... and the lift in step with the board.                                *)
LEMMA NextLiftInv ==
  FrameInv /\ DragInv /\ HandsInv /\ LiftInv /\ [InputNext]_inputVars => LiftInv'
<1> SUFFICES ASSUME FrameInv, DragInv, HandsInv, LiftInv, [InputNext]_inputVars,
                    lift' # NoLift
             PROVE  LiftInv'
  BY DEF LiftInv
<1> DEFINE Told == changed /\ "mutate" \in ran /\ "clear" \notin ran
<1>0. ASSUME board' = board, lift' = lift, drag' = drag, selected' = selected,
             Told => Told'
      PROVE  LiftInv'
  BY <1>0 DEF LiftInv, OnBoard
<1>1. ASSUME BeginFrame \/ EndFrame \/ UNCHANGED inputVars PROVE LiftInv'
  <2>1. UNCHANGED <<board, lift, drag, selected>>
    BY <1>1 DEF BeginFrame, EndFrame, inputVars
  <2>2. Told => Told'
    <3>1. BeginFrame => "mutate" \notin ran
      BY DEF BeginFrame, AtRest
    <3>2. EndFrame => "clear" \in ran
      BY DEF EndFrame, Systems
    <3>3. UNCHANGED inputVars => changed' = changed /\ ran' = ran
      BY DEF inputVars
    <3> QED
      BY <1>1, <3>1, <3>2, <3>3
  <2> QED
    BY <1>0, <2>1, <2>2
<1>2. ASSUME TogglePause PROVE LiftInv'
  <2>1. UNCHANGED <<board, lift, selected>> /\ ran' = ran \cup {"pause"}
    BY <1>2 DEF TogglePause
  <2>2. selected # NoPile
    BY <2>1 DEF DragInv
  <2>3. drag' = drag /\ changed' = changed
    BY <1>2, <2>2 DEF TogglePause
  <2>4. Told => Told'
    BY <2>1, <2>3
  <2> QED
    BY <1>0, <2>1, <2>3, <2>4
<1>3. ASSUME Chain PROVE LiftInv'
  <2>1. UNCHANGED <<board, lift, selected>> /\ ran' = ran \cup {"chain"}
    BY <1>3 DEF Chain
  <2>2. drag' = drag /\ (changed => changed')
    BY <1>3, <2>1, ChainHands
  <2>3. Told => Told'
    BY <2>1, <2>2
  <2> QED
    BY <1>0, <2>1, <2>2, <2>3
<1>4. ASSUME SelectionKeys PROVE LiftInv'
  <2>1. /\ UNCHANGED <<board, changed>> /\ ran' = ran \cup {"select"}
        /\ "select" \notin ran
    BY <1>4 DEF SelectionKeys, Due
  <2>2. "mutate" \notin ran
    BY <2>1 DEF FrameInv
  <2>3. \/ UNCHANGED <<selected, lift, drag, moves>>
        \/ ChooseDestination
        \/ ChooseSource
    BY <1>4 DEF SelectionKeys
  <2>4. CASE UNCHANGED <<selected, lift, drag, moves>>
    BY <1>0, <2>1, <2>2, <2>4
  <2>5. CASE ChooseDestination
    <3>1. /\ selected' = selected /\ drag' = drag
          /\ lift'.source = lift.source /\ lift'.cards = lift.cards
          /\ lift'.destinations = lift.destinations
          /\ lift'.index \in 1 .. Len(lift'.destinations)
      BY <2>5, ChosenDestination
    <3>2. lift # NoLift
      BY <2>5 DEF ChooseDestination
    <3>3. /\ lift.source = selected /\ drag.cards = lift.cards
          /\ drag.origin = lift.source /\ Len(lift.cards) \in Nat \ {0}
          /\ OnBoard(lift)
      BY <2>2, <3>2 DEF LiftInv
    <3>4. OnBoard(lift)'
      BY <2>1, <3>1, <3>3 DEF OnBoard
    <3> QED
      BY <3>1, <3>3, <3>4 DEF LiftInv
  <2>6. CASE ChooseSource
    <3>1. /\ lift'.source = selected' /\ drag'.cards = lift'.cards
          /\ drag'.origin = selected'
          /\ lift'.index \in 1 .. Len(lift'.destinations)
          /\ Len(lift'.cards) \in Nat \ {0}
          /\ OnBoard(lift')
      BY <2>6, ChosenSource
    <3>2. OnBoard(lift)'
      BY <2>1, <3>1 DEF OnBoard
    <3> QED
      BY <3>1, <3>2 DEF LiftInv
  <2> QED
    BY <2>3, <2>4, <2>5, <2>6
<1>5. ASSUME Radial PROVE LiftInv'
  <2>1. /\ UNCHANGED <<board, lift, drag, selected, changed>>
        /\ ran' = ran \cup {"radial"}
    BY <1>5 DEF Radial
  <2>2. Told => Told'
    BY <2>1
  <2> QED
    BY <1>0, <2>1, <2>2
<1>6. ASSUME GameMutation PROVE LiftInv'
  <2>1. /\ UNCHANGED <<lift, drag, selected>> /\ ran' = ran \cup {"mutate"}
        /\ "mutate" \notin ran
    BY <1>6 DEF GameMutation, Due
  <2>2. [board |-> board', past |-> past', changed |-> changed'] \in Games
    BY <1>6, MutatedGame DEF HandsInv
  <2>3. changed' \/ board' = board
    BY <2>2 DEF Games
  <2>4. "clear" \notin ran'
    BY <2>1 DEF FrameInv
  <2>5. CASE board' = board
    BY <1>0, <2>1, <2>5
  <2>6. CASE changed'
    BY <2>1, <2>4, <2>6 DEF LiftInv
  <2> QED
    BY <2>3, <2>5, <2>6
<1>7. ASSUME ClearSelection PROVE LiftInv'
  <2>1. board' = board
    BY <1>7 DEF ClearSelection
  <2>2. ~ changed /\ UNCHANGED <<selected, lift, drag>>
    BY <1>7 DEF ClearSelection, LiftAfterChange
  <2> QED
    BY <1>0, <2>1, <2>2
<1> QED
  BY <1>1, <1>2, <1>3, <1>4, <1>5, <1>6, <1>7 DEF InputNext

(* The types of module Input are the invariant's.                          *)
LEMMA InputTypes == FrameInv /\ HandsInv => InputTypeOK
<1> SUFFICES ASSUME FrameInv, HandsInv PROVE InputTypeOK
  OBVIOUS
<1>1. board \in Boards /\ past \in Seq(Boards)
  <2>1. past \in [1 .. Len(past) -> GoodBoards] /\ Len(past) \in Nat
    BY LenProperties DEF HandsInv
  <2>2. past \in [1 .. Len(past) -> Boards]
    BY <2>1 DEF GoodBoards
  <2>3. past \in Seq(Boards)
    BY <2>1, <2>2, SeqOfFunction
  <2> QED
    BY <2>3 DEF HandsInv, GoodBoards
<1>2. drag \in [cards : Seq(Face), origin : PileType \cup {NoPile},
                committed : BOOLEAN, by : {"nobody", "mouse", "keyboard"}]
  BY DEF HandsInv, WholeDrag, DragState
<1>3. /\ lift \in [source : PileType \cup {NoPile}, cards : Seq(Face),
                   destinations : Seq(PileType), index : Nat]
      /\ lift.index <= Len(lift.destinations)
  BY DEF HandsInv, LiftState
<1>4. /\ radial \in [source : PileType \cup {NoPile}, destinations : SUBSET PileType]
      /\ moves \in Seq([from : PileType, to : PileType, count : Nat \ {0}])
  BY DEF HandsInv, RadialState, MoveRequest
<1>5. selected \in PileType \cup {NoPile}
  BY PileKinds DEF HandsInv, Pickable
<1> QED
  BY <1>1, <1>2, <1>3, <1>4, <1>5 DEF InputTypeOK, FrameInv, HandsInv

(* What is lifted by keyboard is, whenever a frame has ended, what lies on *)
(* the board: whatever the order of the systems, a draw, a move, an undo   *)
(* or a new game under a lift ends it (selection_plugin::                  *)
(* clear_selection_on_state_change) before anything reads it again.        *)
THEOREM LiftFreshCorrect == InputSpec => []LiftFresh
<1>1. FrameInv /\ DragInv /\ HandsInv /\ LiftInv => LiftFresh
  <2> SUFFICES ASSUME FrameInv, HandsInv, LiftInv PROVE LiftFresh
    OBVIOUS
  <2>1. InputTypeOK
    BY InputTypes
  <2>2. ASSUME AtRest, lift # NoLift
        PROVE  /\ selected = lift.source
               /\ drag.cards = lift.cards /\ drag.origin = lift.source
               /\ OnBoard(lift)
    BY <2>2 DEF LiftInv, AtRest
  <2> QED
    BY <2>1, <2>2 DEF LiftFresh, OnBoard
<1>2. InputInit => FrameInv /\ DragInv /\ HandsInv /\ LiftInv
  BY InitFreshInv, InitDragInv
<1>3. FrameInv /\ DragInv /\ HandsInv /\ LiftInv /\ [InputNext]_inputVars
        => FrameInv' /\ DragInv' /\ HandsInv' /\ LiftInv'
  BY NextFrameInv, NextDragInv, NextHandsInv, NextLiftInv
<1> QED
  BY <1>1, <1>2, <1>3, PTL DEF InputSpec

---------------------------------------------------------------------------
(* The moves the solver enumerates.                                        *)

(* FlattenSeq puts one sequence after the other.                           *)
Flattens(h, X, n, ss) ==
  /\ h \in [0 .. n -> Seq(X)] /\ h[0] = << >>
  /\ \A k \in 1 .. n : h[k] = h[k - 1] \o ss[k]
  /\ FlattenSeq(ss) = h[n]

(* ... which is how it is computed.                                        *)
LEMMA FlattenSteps ==
  ASSUME NEW X, NEW n \in Nat, NEW ss \in [1 .. n -> Seq(X)]
  PROVE  \E h : Flattens(h, X, n, ss)
<1>1. ss \in Seq(Seq(X)) /\ Len(ss) = n
  BY SeqOfFunction
<1>2. CASE n = 0
  <2>1. ss = << >>
    BY <1>1, <1>2, EmptySeq
  <2>2. FlattenSeq(ss) = ss
    BY <1>1, <1>2 DEF FlattenSeq
  <2> DEFINE h == [k \in 0 .. n |-> << >>]
  <2>3. h \in [0 .. n -> Seq(X)] /\ h[0] = << >> /\ h[n] = << >> /\ 1 .. n = {}
    BY <1>2
  <2>4. FlattenSeq(ss) = h[n]
    BY <2>1, <2>2, <2>3
  <2> HIDE DEF h
  <2> QED
    BY <2>3, <2>4 DEF Flattens
<1>3. CASE n # 0
  <2> DEFINE Then(f, k) == IF k = 1 THEN ss[k] ELSE f[k - 1] \o ss[k]
             flat == CHOOSE f : f = [k \in 1 .. n |-> Then(f, k)]
             step == [k \in 1 .. n |-> [s \in Seq(X) |-> s \o ss[k]]]
  <2>1. FlattenSeq(ss) = flat[n]
    BY <1>1, <1>3 DEF FlattenSeq
  <2>2. \A k \in 1 .. n, s \in Seq(X) : s \o ss[k] \in Seq(X)
    BY ConcatProperties
  <2>3. step \in [1 .. n -> [Seq(X) -> Seq(X)]]
    BY <2>2
  <2>4. \A k \in 1 .. n, s \in Seq(X) : step[k][s] = s \o ss[k]
    OBVIOUS
  <2> HIDE DEF step
  <2>5. << >> \in Seq(X)
    OBVIOUS
  <2>6. PICK f : Runs(f, Seq(X), n, << >>, step)
    BY <2>3, <2>5, Iterates
  <2>7. /\ f \in [0 .. n -> Seq(X)] /\ f[0] = << >>
        /\ \A k \in 1 .. n : f[k] = step[k][f[k - 1]]
    BY <2>6 DEF Runs
  <2> DEFINE g == [k \in 1 .. n |-> f[k]]
  <2>8. g = [k \in 1 .. n |-> Then(g, k)]
    <3>1. ASSUME NEW k \in 1 .. n
          PROVE  g[k] = Then(g, k)
      <4>1. k - 1 \in 0 .. n /\ k \in 0 .. n
        OBVIOUS
      <4>2. f[k - 1] \in Seq(X) /\ g[k] = f[k]
        BY <2>7, <4>1
      <4>3. f[k] = f[k - 1] \o ss[k]
        BY <2>4, <2>7, <4>2
      <4>4. CASE k = 1
        <5>1. f[k - 1] = << >> /\ ss[k] \in Seq(X)
          BY <2>7, <4>4
        <5> QED
          BY <4>2, <4>3, <4>4, <5>1
      <4>5. CASE k # 1
        <5>1. k - 1 \in 1 .. n /\ g[k - 1] = f[k - 1]
          BY <4>5
        <5> HIDE DEF g
        <5> QED
          BY <4>2, <4>3, <4>5, <5>1
      <4> QED
        BY <4>4, <4>5
    <3>2. g = [k \in 1 .. n |-> g[k]]
      OBVIOUS
    <3> HIDE DEF Then, g
    <3> QED
      BY <3>1, <3>2
  <2> HIDE DEF g
  <2>9. flat = [k \in 1 .. n |-> Then(flat, k)]
    BY <2>8
  <2> HIDE DEF flat
  <2> DEFINE h == [k \in 0 .. n |-> IF k = 0 THEN << >> ELSE flat[k]]
  <2>10. h[0] = << >> /\ \A k \in 1 .. n : h[k] = flat[k]
    OBVIOUS
  <2>11. ASSUME NEW k \in 1 .. n, h[k - 1] \in Seq(X)
         PROVE  h[k] \in Seq(X) /\ h[k] = h[k - 1] \o ss[k]
    <3>1. flat[k] = Then(flat, k) /\ ss[k] \in Seq(X)
      BY <2>9
    <3>2. CASE k = 1
      <4>1. h[k - 1] = << >> /\ h[k] = ss[k]
        BY <2>10, <3>1, <3>2
      <4> HIDE DEF h
      <4> QED
        BY <3>1, <4>1
    <3>3. CASE k # 1
      <4>1. k - 1 \in 1 .. n /\ h[k - 1] = flat[k - 1]
        BY <2>10, <3>3
      <4> HIDE DEF h
      <4>2. h[k] = h[k - 1] \o ss[k]
        BY <2>10, <3>1, <3>3, <4>1
      <4> QED
        BY <2>2, <2>11, <4>2
    <3> QED
      BY <3>2, <3>3
  <2>12. \A k \in 0 .. n : h[k] \in Seq(X)
    <3> HIDE DEF h
    <3> QED
      BY <2>5, <2>10, <2>11, Stays
  <2>13. \A k \in 1 .. n : h[k] = h[k - 1] \o ss[k]
    <3>1. \A k \in 1 .. n : k - 1 \in 0 .. n
      OBVIOUS
    <3> HIDE DEF h
    <3> QED
      BY <2>11, <2>12, <3>1
  <2>14. h \in [0 .. n -> Seq(X)]
    BY <2>12
  <2>15. FlattenSeq(ss) = h[n]
    BY <1>3, <2>1, <2>10
  <2> HIDE DEF h
  <2> QED
    BY <2>10, <2>13, <2>14, <2>15 DEF Flattens
<1> QED
  BY <1>2, <1>3

LEMMA FlattenType ==
  ASSUME NEW X, NEW n \in Nat, NEW ss \in [1 .. n -> Seq(X)]
  PROVE  FlattenSeq(ss) \in Seq(X)
<1>1. PICK h : Flattens(h, X, n, ss)
  BY FlattenSteps
<1> QED
  BY <1>1 DEF Flattens

(* What holds at the first of the numbers and passes from each to the      *)
(* next holds of all.                                                      *)
LEMMA Climbs ==
  ASSUME NEW n \in Nat, NEW S, 0 \in S, \A k \in 1 .. n : k - 1 \in S => k \in S
  PROVE  \A k \in 0 .. n : k \in S
<1> DEFINE f == [k \in 0 .. n |-> k]
<1>1. \A k \in 0 .. n : f[k] = k
  OBVIOUS
<1>2. f[0] \in S /\ \A k \in 1 .. n : k \in 0 .. n /\ k - 1 \in 0 .. n
  BY <1>1
<1> HIDE DEF f
<1>3. \A k \in 1 .. n : f[k - 1] \in S => f[k] \in S
  BY <1>1, <1>2
<1>4. \A k \in 0 .. n : f[k] \in S
  BY <1>2, <1>3, Stays
<1> QED
  BY <1>1, <1>4

(* x stands somewhere in the sequence.                                     *)
(* x is one of the elements of s.                                          *)
Listed(x, s) == \E i \in 1 .. Len(s) : s[i] = x

(* What is on a part is on the whole.                                      *)
LEMMA ListedConcat ==
  ASSUME NEW X, NEW s \in Seq(X), NEW r \in Seq(X), NEW x, Listed(x, s) \/ Listed(x, r)
  PROVE  Listed(x, s \o r)
<1>1. /\ Len(s \o r) = Len(s) + Len(r) /\ Len(s) \in Nat /\ Len(r) \in Nat
      /\ \A i \in 1 .. Len(s) + Len(r) :
           (s \o r)[i] = IF i <= Len(s) THEN s[i] ELSE r[i - Len(s)]
  BY ConcatProperties, LenProperties
<1> DEFINE c == s \o r
<1> HIDE DEF c
<1>2. ASSUME NEW i \in 1 .. Len(s), s[i] = x
      PROVE  Listed(x, c)
  <2>1. i \in 1 .. Len(s) + Len(r) /\ i <= Len(s)
    BY <1>1
  <2> QED
    BY <1>1, <1>2, <2>1 DEF Listed, c
<1>3. ASSUME NEW i \in 1 .. Len(r), r[i] = x
      PROVE  Listed(x, c)
  <2>1. /\ Len(s) + i \in 1 .. Len(s) + Len(r) /\ ~ (Len(s) + i <= Len(s))
        /\ (Len(s) + i) - Len(s) = i
    BY <1>1
  <2> QED
    BY <1>1, <1>3, <2>1 DEF Listed, c
<1> QED
  BY <1>2, <1>3 DEF Listed, c

LEMMA FlattenListed ==
  ASSUME NEW X, NEW n \in Nat, NEW ss \in [1 .. n -> Seq(X)], NEW x,
         NEW k \in 1 .. n, Listed(x, ss[k])
  PROVE  Listed(x, FlattenSeq(ss))
<1>0. PICK h : Flattens(h, X, n, ss)
  BY FlattenSteps
<1>1. /\ h \in [0 .. n -> Seq(X)] /\ FlattenSeq(ss) = h[n]
      /\ \A i \in 1 .. n : h[i] = h[i - 1] \o ss[i]
  BY <1>0 DEF Flattens
<1> DEFINE S == {i \in 0 .. n : i < k \/ Listed(x, h[i])}
<1>2. 0 \in S
  OBVIOUS
<1>3. ASSUME NEW i \in 1 .. n, i - 1 \in S
      PROVE  i \in S
  <2>1. h[i] = h[i - 1] \o ss[i] /\ h[i - 1] \in Seq(X) /\ ss[i] \in Seq(X)
    BY <1>1
  <2>2. i < k \/ i = k \/ Listed(x, h[i - 1])
    BY <1>3
  <2>3. i = k \/ Listed(x, h[i - 1]) => Listed(x, h[i])
    BY <2>1, ListedConcat
  <2> QED
    BY <2>2, <2>3
<1>4. n \in S
  <2> HIDE DEF S
  <2>1. \A i \in 0 .. n : i \in S
    BY <1>2, <1>3, Climbs
  <2> QED
    BY <2>1
<1> QED
  BY <1>1, <1>4

(* A set of one element has one sequence.                                  *)
LEMMA OneSeq ==
  ASSUME NEW x
  PROVE  Listed(x, SetToSeq({x}))
<1> DEFINE S == {x}
           Injective == {f \in [1 .. Cardinality(S) -> S] : IsInjective(f)}
<1>1. Cardinality(S) = 1
  BY FS_Singleton
<1>2. [k \in 1 .. 1 |-> x] \in [1 .. 1 -> S] /\ IsInjective([k \in 1 .. 1 |-> x])
  BY DEF IsInjective
<1>3. \E f : f \in [1 .. Cardinality(S) -> S] /\ IsInjective(f)
  BY <1>1, <1>2
<1>4. SetToSeq(S) = CHOOSE f \in [1 .. Cardinality(S) -> S] : IsInjective(f)
  BY DEF SetToSeq
<1>5. SetToSeq(S) \in [1 .. 1 -> S]
  BY <1>1, <1>3, <1>4
<1>6. Len(SetToSeq(S)) = 1 /\ SetToSeq(S)[1] = x
  BY <1>5, SeqOfFunction
<1> HIDE DEF S
<1>7. Listed(x, SetToSeq(S))
  BY <1>6 DEF Listed
<1> QED
  BY <1>7 DEF S

(* There are at least as many cards as ranks.                              *)
LEMMA ManyFaces ==
  ASSUME NEW suit \in Suits
  PROVE  King \in Nat \ {0} /\ Cardinality(Face) \in Nat /\ King <= Cardinality(Face)
<1>1. King \in Nat \ {0} /\ IsFiniteSet(Face) /\ Cardinality(Face) \in Nat
  BY RanksAssumption, FaceFinite
<1> DEFINE f == [r \in 1 .. King |-> [suit |-> suit, rank |-> r]]
<1>2. \A r \in 1 .. King : f[r] \in Face /\ f[r].rank = r
  BY DEF Face, Ranks, Ace
<1>3. f \in [1 .. King -> Face]
  BY <1>2
<1> HIDE DEF f
<1>4. f \in Injection(1 .. King, Face)
  BY <1>2, <1>3 DEF Injection, IsInjective
<1>5. IsFiniteSet(1 .. King) /\ Cardinality(1 .. King) = King
  BY <1>1, FS_Interval
<1>6. Cardinality(1 .. King) <= Cardinality(Face)
  BY <1>1, <1>4, FS_Injection
<1> QED
  BY <1>1, <1>5, <1>6

(* A run descends, so it is no longer than there are ranks.                *)
LEMMA RunWithinRanks ==
  ASSUME NEW s \in Seq(Card), NEW n \in 1 .. Len(s),
         IsValidTableauSequence(TopCards(s, n))
  PROVE  n \in 1 .. Cardinality(Face)
<1> DEFINE m == TopCards(s, n)
           f == [k \in 0 .. n - 1 |-> m[k + 1].rank + k]
<1>1. Len(s) \in Nat /\ n \in 0 .. Len(s) /\ n \in Nat \ {0} /\ n - 1 \in Nat
  BY LenProperties
<1>2. m \in Seq(Card) /\ Len(m) = n
  BY <1>1, TopCardsFacts
<1>3. \A k \in 1 .. n - 1 : m[k].rank - 1 = m[k + 1].rank
  BY <1>2 DEF IsValidTableauSequence, Follows
<1> HIDE DEF m
<1>4. \A k \in 1 .. n : m[k] \in Card
  BY <1>2, ElementOfSeq
<1>5. \A k \in 1 .. n : m[k].rank \in 1 .. King /\ m[k].suit \in Suits
  BY <1>4 DEF Card, Ranks, Ace
<1>6. King \in Nat
  BY RanksAssumption
<1>7. \A k \in 0 .. n - 1 : f[k] = m[k + 1].rank + k
  OBVIOUS
<1> HIDE DEF f
<1>8. f[0] \in {m[1].rank}
  BY <1>1, <1>5, <1>6, <1>7
<1>9. ASSUME NEW k \in 1 .. n - 1, f[k - 1] \in {m[1].rank}
      PROVE  f[k] \in {m[1].rank}
  <2>1. k - 1 \in 0 .. n - 1 /\ k \in 0 .. n - 1 /\ (k - 1) + 1 = k
    BY <1>1
  <2>2. k \in 1 .. n /\ k + 1 \in 1 .. n
    BY <1>1
  <2>3. f[k - 1] = m[k].rank + (k - 1) /\ f[k] = m[k + 1].rank + k
    BY <1>7, <2>1
  <2>4. m[k].rank - 1 = m[k + 1].rank /\ m[k].rank \in Int /\ m[k + 1].rank \in Int
    BY <1>3, <1>5, <1>6, <2>2
  <2> QED
    BY <1>9, <2>3, <2>4
<1>10. \A k \in 0 .. n - 1 : f[k] \in {m[1].rank}
  <2> DEFINE X == {m[1].rank}
             last == n - 1
  <2>1. last \in Nat /\ f[0] \in X /\ \A k \in 1 .. last : f[k - 1] \in X => f[k] \in X
    BY <1>1, <1>8, <1>9
  <2> HIDE DEF X, last
  <2>2. \A k \in 0 .. last : f[k] \in X
    BY <2>1, Stays
  <2> QED
    BY <2>2 DEF X, last
<1>11. m[n].rank + (n - 1) = m[1].rank
  <2>1. n - 1 \in 0 .. n - 1 /\ (n - 1) + 1 = n
    BY <1>1
  <2> QED
    BY <1>7, <1>10, <2>1
<1>12. n <= King
  <2>1. 1 \in 1 .. n /\ n \in 1 .. n
    BY <1>1
  <2> QED
    BY <1>1, <1>5, <1>6, <1>11, <2>1
<1>13. King <= Cardinality(Face) /\ Cardinality(Face) \in Nat
  <2>1. m[1].suit \in Suits
    BY <1>1, <1>5
  <2> QED
    BY <2>1, ManyFaces
<1> QED
  BY <1>1, <1>6, <1>12, <1>13

LEMMA OneFace ==
  ASSUME NEW s \in Seq(Card), s # << >>
  PROVE  1 \in 1 .. Cardinality(Face)
<1>1. s[1] \in Card
  BY EmptySeq, LenProperties, ElementOfSeq
<1>2. s[1].suit \in Suits
  BY <1>1 DEF Card
<1> QED
  BY <1>2, ManyFaces

(* Every length up to that of the longest run is a run.                    *)
LEMMA LongestRunFacts ==
  ASSUME NEW s \in Seq(Card)
  PROVE  /\ LongestFaceUpRun(s) \in 0 .. Len(s)
         /\ \A n \in 1 .. LongestFaceUpRun(s) :
              /\ \A k \in 1 .. n : TopCards(s, n)[k].up
              /\ IsValidTableauSequence(TopCards(s, n))
<1> DEFINE run(n) == /\ \A k \in 1 .. n : TopCards(s, n)[k].up
                     /\ IsValidTableauSequence(TopCards(s, n))
           R == {n \in 0 .. Len(s) : \A k \in 1 .. n : run(k)}
           T == {Len(s) - n : n \in R}
<1>1. LongestFaceUpRun(s) = Max(R)
  BY DEF LongestFaceUpRun
<1>2. Len(s) \in Nat
  BY LenProperties
<1>3. 0 \in R
  BY <1>2
<1>3a. R \subseteq 0 .. Len(s) /\ \A n \in R : \A k \in 1 .. n : run(k)
  OBVIOUS
<1> HIDE DEF R, run
<1>4. T \in SUBSET Nat /\ T # {}
  BY <1>2, <1>3, <1>3a
<1>5. PICK x \in T : \A y \in T : x <= y
  <2> HIDE DEF T
  <2> QED
    BY <1>4, LeastNatural
<1>6. PICK n \in R : x = Len(s) - n
  OBVIOUS
<1>7. \A j \in R : n >= j
  <2>1. TAKE j \in R
  <2>2. j \in Nat /\ n \in Nat
    BY <1>2, <1>3a
  <2>3. x <= Len(s) - j
    BY <1>5
  <2> QED
    BY <1>2, <1>6, <2>2, <2>3
<1>8. Max(R) \in R
  BY <1>7 DEF Max
<1>9. Max(R) \in 0 .. Len(s) /\ \A k \in 1 .. Max(R) : run(k)
  BY <1>3a, <1>8
<1> QED
  BY <1>1, <1>9 DEF run

(* The moves of the solver that the live game accepts, made as the solver  *)
(* makes them.                                                             *)
Accepts(p) == {m \in Move : Plays(p, m, AfterSolverMove(p, m))}

LEMMA AcceptedMove ==
  ASSUME NEW p, NEW from \in Tableaus \cup {Waste}, NEW to \in PileType,
         NEW n \in 1 .. Cardinality(Face), MoveAllowed(p, FALSE, from, to, n)
  PROVE  <<from, to, n>> \in Accepts(p)
<1> DEFINE m == <<from, to, n>>
<1>1. m[1] = from /\ m[2] = to /\ m[3] = n /\ from # Stock /\ from \in PileType
  BY PileKinds
<1>2. m \in Move
  BY <1>1 DEF Move
<1> HIDE DEF m
<1>3. ~ IsDraw(m)
  BY <1>1 DEF IsDraw
<1>4. AfterSolverMove(p, m) = AfterMove(p, m[1], m[2], m[3])
  BY <1>3 DEF AfterSolverMove
<1>5. Plays(p, m, AfterSolverMove(p, m))
  BY <1>1, <1>3, <1>4 DEF Plays
<1> QED
  BY <1>2, <1>5 DEF Accepts, m

(* The top card of a column or of the waste, to a foundation.              *)
LEMMA SlotAccepted ==
  ASSUME NEW p, GoodBoard(p), NEW t \in Tableaus \cup {Waste}, p[t] # << >>,
         Last(p[t]).up, NEW i \in Slots,
         CanPlaceOnFoundation(Last(p[t]), p[Foundation(i)])
  PROVE  <<t, Foundation(i), 1>> \in Accepts(p)
<1> DEFINE s == p[t]
<1>1. /\ t \in PileType /\ t # Stock /\ t \notin Foundations
      /\ Foundation(i) \in Foundations /\ Foundation(i) \in PileType
  BY PileKinds
<1>2. s \in Seq(Card) /\ Len(s) \in Nat /\ Len(s) \in 1 .. Len(s) /\ 1 \in 1 .. Len(s)
  BY <1>1, LenProperties, EmptySeq DEF GoodBoard, GoodPile
<1>3. Len(s) - 1 + 1 = Len(s) /\ s[Len(s)] = Last(s)
  BY <1>2 DEF Last
<1> HIDE DEF s
<1>4. Len(TopCards(s, 1)) = 1 /\ TopCards(s, 1)[1] = Last(s)
  <2>1. 1 \in 0 .. Len(s) /\ 1 \in 1 .. 1
    BY <1>2
  <2>2. /\ Len(TopCards(s, 1)) = 1
        /\ \A k \in 1 .. 1 : TopCards(s, 1)[k] = s[Len(s) - 1 + k]
    BY <1>2, <2>1, TopCardsFacts
  <2>3. TopCards(s, 1)[1] = s[Len(s) - 1 + 1]
    BY <2>1, <2>2
  <2> QED
    BY <1>3, <2>2, <2>3
<1>5. MoveAllowed(p, FALSE, t, Foundation(i), 1)
  BY <1>1, <1>2, <1>3, <1>4 DEF MoveAllowed, s
<1>6. 1 \in 1 .. Cardinality(Face)
  BY <1>2, OneFace DEF s
<1> QED
  BY <1>1, <1>5, <1>6, AcceptedMove

(* A run of a column or the top card of the waste, to a column.            *)
LEMMA ColumnAccepted ==
  ASSUME NEW p, GoodBoard(p), NEW t \in Tableaus \cup {Waste},
         NEW n \in 1 .. Len(p[t]), t = Waste => n = 1,
         \A k \in 1 .. n : TopCards(p[t], n)[k].up,
         IsValidTableauSequence(TopCards(p[t], n)),
         NEW to \in Tableaus, to # t,
         CanPlaceOnTableau(p[t][Len(p[t]) - n + 1], p[to])
  PROVE  <<t, to, n>> \in Accepts(p)
<1>1. t \in PileType /\ t \notin Foundations /\ to \in PileType
  BY PileKinds
<1>2. p[t] \in Seq(Card)
  BY <1>1 DEF GoodBoard, GoodPile
<1>3. MoveAllowed(p, FALSE, t, to, n)
  BY <1>1 DEF MoveAllowed
<1>4. n \in 1 .. Cardinality(Face)
  BY <1>2, RunWithinRanks
<1> QED
  BY <1>1, <1>3, <1>4, AcceptedMove

LEMMA DrawAccepted ==
  ASSUME NEW p, GoodBoard(p), p[Stock] \o p[Waste] # << >>
  PROVE  <<Stock, Waste, 1>> \in Accepts(p)
<1> DEFINE m == <<Stock, Waste, 1>>
<1>1. p[Stock] \in Seq(Card) /\ p[Waste] \in Seq(Card)
  BY PileKinds DEF GoodBoard, GoodPile
<1>2. p[Stock] # << >> \/ p[Waste] # << >>
  BY <1>1
<1>3. 1 \in 1 .. Cardinality(Face)
  BY <1>1, <1>2, OneFace
<1>4. m \in Move
  BY <1>3, PileKinds DEF Move
<1>5. IsDraw(m)
  <2>1. m[1] = Stock
    OBVIOUS
  <2> QED
    BY <2>1 DEF IsDraw
<1>6. AfterSolverMove(p, m) = IF p[Stock] # << >> THEN AfterDraw(p, draw_count)
                                                  ELSE AfterRecycle(p)
  BY <1>5 DEF AfterSolverMove
<1>7. Plays(p, m, AfterSolverMove(p, m))
  BY <1>2, <1>6 DEF Plays
<1> QED
  BY <1>4, <1>7 DEF Accepts

LEMMA SlotIsOne ==
  ASSUME NEW p, NEW suit
  PROVE  \/ TargetFoundationSlot(p, suit) = {}
         \/ \E i \in Slots : TargetFoundationSlot(p, suit) = {i}
<1>1. ASSUME NEW S \in SUBSET Slots, S # {}
      PROVE  FirstIn(S) \in Slots
  <2>1. S \in SUBSET Nat
    BY PilesAssumption DEF Slots
  <2>2. \E i \in S : \A j \in S : i <= j
    BY <1>1, <2>1, LeastNatural
  <2> QED
    BY <2>2 DEF FirstIn
<1> DEFINE claimed == {i \in Slots : /\ p[Foundation(i)] # << >>
                                     /\ p[Foundation(i)][1].suit = suit}
           empty == {i \in Slots : p[Foundation(i)] = << >>}
<1>2. TargetFoundationSlot(p, suit) = IF claimed # {} THEN {FirstIn(claimed)}
                                      ELSE IF empty # {} THEN {FirstIn(empty)}
                                      ELSE {}
  BY DEF TargetFoundationSlot
<1>3. claimed \in SUBSET Slots /\ empty \in SUBSET Slots
  OBVIOUS
<1> HIDE DEF claimed, empty
<1> QED
  BY <1>1, <1>2, <1>3

(* The parts of the list that enumerate_moves makes.                       *)
ColumnAt == [k \in 1 .. NumColumns |-> Tableau(k - 1)]

SlotsTaking(p, t) == {j \in TargetFoundationSlot(p, Last(p[t]).suit) :
                        CanPlaceOnFoundation(Last(p[t]), p[Foundation(j)])}

SlotMoves(p, t) ==
  IF p[t] = << >> \/ ~ Last(p[t]).up THEN << >>
  ELSE SetToSeq({<<t, Foundation(i), 1>> : i \in SlotsTaking(p, t)})

OnlyMovesKing(p, t, n, to) ==
  /\ t \in Tableaus /\ n = Len(p[t])
  /\ p[to] = << >> /\ p[t][Len(p[t]) - n + 1].rank = King

Useful(p, t, n, to) ==
  /\ to # t
  /\ CanPlaceOnTableau(p[t][Len(p[t]) - n + 1], p[to])
  /\ ~ OnlyMovesKing(p, t, n, to)

ColumnMove(p, t, n, to) == IF Useful(p, t, n, to) THEN << <<t, to, n>> >> ELSE << >>

ColumnMoves(p, t, n) ==
  FlattenSeq([k \in 1 .. NumColumns |-> ColumnMove(p, t, n, ColumnAt[k])])

RunMoves(p, t) ==
  FlattenSeq([n \in 1 .. LongestFaceUpRun(p[t]) |-> ColumnMoves(p, t, n)])

AllSlotMoves(p) == FlattenSeq([k \in 1 .. NumColumns |-> SlotMoves(p, ColumnAt[k])])
AllRunMoves(p)  == FlattenSeq([k \in 1 .. NumColumns |-> RunMoves(p, ColumnAt[k])])
WasteMoves(p)   == IF p[Waste] = << >> THEN << >> ELSE ColumnMoves(p, Waste, 1)
DrawMoves(p, draws) ==
  IF DrawWorthwhile(p, draws) THEN << <<Stock, Waste, 1>> >> ELSE << >>

LEMMA EnumeratedParts ==
  ASSUME NEW p, NEW draws
  PROVE  EnumerateMoves(p, draws) =
           AllSlotMoves(p) \o SlotMoves(p, Waste) \o AllRunMoves(p) \o WasteMoves(p)
             \o DrawMoves(p, draws)
BY DEF EnumerateMoves, AllSlotMoves, SlotMoves, SlotsTaking, AllRunMoves, RunMoves,
       WasteMoves, DrawMoves, ColumnMoves, ColumnMove, Useful, OnlyMovesKing, ColumnAt

(* The columns in order are the columns.                                   *)
LEMMA ColumnsInOrder ==
  /\ NumColumns \in Nat
  /\ \A k \in 1 .. NumColumns : ColumnAt[k] \in Tableaus
  /\ \A t \in Tableaus : \E k \in 1 .. NumColumns : ColumnAt[k] = t
<1>1. NumColumns \in Nat /\ \A k \in 1 .. NumColumns : ColumnAt[k] \in Tableaus
  BY PilesAssumption DEF Tableaus, Columns, ColumnAt
<1>2. ASSUME NEW i \in Columns
      PROVE  \E k \in 1 .. NumColumns : ColumnAt[k] = Tableau(i)
  <2>1. i + 1 \in 1 .. NumColumns /\ (i + 1) - 1 = i
    BY PilesAssumption, <1>2 DEF Columns
  <2> QED
    BY <2>1 DEF ColumnAt
<1> QED
  BY <1>1, <1>2 DEF Tableaus

(* The slot an enumerated card goes to is the one it claims, if any.       *)
LEMMA SlotsTakingFacts ==
  ASSUME NEW p, NEW t
  PROVE  /\ SlotsTaking(p, t) = {} \/ \E i \in Slots : SlotsTaking(p, t) = {i}
         /\ \A i \in SlotsTaking(p, t) :
              i \in Slots /\ CanPlaceOnFoundation(Last(p[t]), p[Foundation(i)])
BY SlotIsOne DEF SlotsTaking

(* Every part of the list holds moves that the game accepts.               *)
LEMMA SlotMovesAccepted ==
  ASSUME NEW p, GoodBoard(p), NEW t \in Tableaus \cup {Waste}
  PROVE  SlotMoves(p, t) \in Seq(Accepts(p))
<1> DEFINE A == Accepts(p)
<1>1. CASE p[t] = << >> \/ ~ Last(p[t]).up
  <2>1. << >> \in Seq(A)
    OBVIOUS
  <2> QED
    BY <1>1, <2>1 DEF SlotMoves
<1>2. CASE ~ (p[t] = << >> \/ ~ Last(p[t]).up)
  <2> DEFINE S == {<<t, Foundation(i), 1>> : i \in SlotsTaking(p, t)}
  <2>1. \A i \in SlotsTaking(p, t) : <<t, Foundation(i), 1>> \in A
    BY <1>2, SlotsTakingFacts, SlotAccepted
  <2>2. S \subseteq A /\ (S = {} \/ \E x : S = {x})
    BY <2>1, SlotsTakingFacts
  <2>3. SlotMoves(p, t) = SetToSeq(S)
    BY <1>2 DEF SlotMoves
  <2> HIDE DEF S
  <2> QED
    BY <2>2, <2>3, OneToSeq
<1> QED
  BY <1>1, <1>2

LEMMA ColumnMovesAccepted ==
  ASSUME NEW p, GoodBoard(p), NEW t \in Tableaus \cup {Waste},
         NEW n \in 1 .. Len(p[t]), t = Waste => n = 1,
         \A k \in 1 .. n : TopCards(p[t], n)[k].up,
         IsValidTableauSequence(TopCards(p[t], n))
  PROVE  /\ ColumnMoves(p, t, n) \in Seq(Accepts(p))
         /\ \A to \in Tableaus :
              Useful(p, t, n, to) => Listed(<<t, to, n>>, ColumnMoves(p, t, n))
<1> DEFINE A == Accepts(p)
           ss == [k \in 1 .. NumColumns |-> ColumnMove(p, t, n, ColumnAt[k])]
<1>1. ASSUME NEW to \in Tableaus
      PROVE  /\ ColumnMove(p, t, n, to) \in Seq(A)
             /\ Useful(p, t, n, to) => Listed(<<t, to, n>>, ColumnMove(p, t, n, to))
  <2>1. CASE Useful(p, t, n, to)
    <3>1. <<t, to, n>> \in A
      BY <2>1, ColumnAccepted DEF Useful
    <3> DEFINE m == <<t, to, n>>
    <3> HIDE DEF m
    <3>2. << m >> \in Seq(A) /\ Len(<< m >>) = 1 /\ << m >>[1] = m
      BY <3>1 DEF m
    <3>3. Listed(m, << m >>)
      BY <3>2 DEF Listed
    <3> QED
      BY <2>1, <3>2, <3>3 DEF ColumnMove, m
  <2>2. CASE ~ Useful(p, t, n, to)
    <3>1. << >> \in Seq(A)
      OBVIOUS
    <3> QED
      BY <2>2, <3>1 DEF ColumnMove
  <2> QED
    BY <2>1, <2>2
<1>2. /\ ss \in [1 .. NumColumns -> Seq(A)]
      /\ \A k \in 1 .. NumColumns : ss[k] = ColumnMove(p, t, n, ColumnAt[k])
  BY <1>1, ColumnsInOrder
<1>3. ColumnMoves(p, t, n) = FlattenSeq(ss)
  BY DEF ColumnMoves
<1> HIDE DEF ss
<1>4. FlattenSeq(ss) \in Seq(A)
  BY <1>2, FlattenType, ColumnsInOrder
<1>5. ASSUME NEW to \in Tableaus, Useful(p, t, n, to)
      PROVE  Listed(<<t, to, n>>, FlattenSeq(ss))
  <2>1. PICK k \in 1 .. NumColumns : ColumnAt[k] = to
    BY ColumnsInOrder
  <2>2. Listed(<<t, to, n>>, ss[k])
    BY <1>1, <1>2, <1>5, <2>1
  <2> QED
    BY <1>2, <2>2, FlattenListed, ColumnsInOrder
<1> QED
  BY <1>3, <1>4, <1>5

LEMMA RunMovesAccepted ==
  ASSUME NEW p, GoodBoard(p), NEW t \in Tableaus
  PROVE  /\ RunMoves(p, t) \in Seq(Accepts(p))
         /\ \A n \in 1 .. LongestFaceUpRun(p[t]), to \in Tableaus :
              Useful(p, t, n, to) => Listed(<<t, to, n>>, RunMoves(p, t))
<1> DEFINE A == Accepts(p)
           L == LongestFaceUpRun(p[t])
           ss == [n \in 1 .. L |-> ColumnMoves(p, t, n)]
<1>1. p[t] \in Seq(Card) /\ Len(p[t]) \in Nat /\ t # Waste
  BY PileKinds, LenProperties DEF GoodBoard, GoodPile
<1>2. /\ L \in 0 .. Len(p[t])
      /\ \A n \in 1 .. L : /\ \A k \in 1 .. n : TopCards(p[t], n)[k].up
                           /\ IsValidTableauSequence(TopCards(p[t], n))
  BY <1>1, LongestRunFacts
<1>3. L \in Nat /\ \A n \in 1 .. L : n \in 1 .. Len(p[t])
  BY <1>1, <1>2
<1>4. RunMoves(p, t) = FlattenSeq(ss)
  BY DEF RunMoves
<1> HIDE DEF L
<1>5. \A n \in 1 .. L :
        /\ ColumnMoves(p, t, n) \in Seq(A)
        /\ \A to \in Tableaus :
             Useful(p, t, n, to) => Listed(<<t, to, n>>, ColumnMoves(p, t, n))
  BY <1>1, <1>2, <1>3, ColumnMovesAccepted
<1>6. /\ ss \in [1 .. L -> Seq(A)]
      /\ \A n \in 1 .. L : ss[n] = ColumnMoves(p, t, n)
  BY <1>5
<1> HIDE DEF ss
<1>7. FlattenSeq(ss) \in Seq(A)
  BY <1>3, <1>6, FlattenType
<1>8. ASSUME NEW n \in 1 .. L, NEW to \in Tableaus, Useful(p, t, n, to)
      PROVE  Listed(<<t, to, n>>, FlattenSeq(ss))
  <2>1. Listed(<<t, to, n>>, ss[n])
    BY <1>5, <1>6, <1>8
  <2> QED
    BY <1>3, <1>6, <2>1, FlattenListed
<1> QED
  BY <1>4, <1>7, <1>8 DEF L

LEMMA WasteMovesAccepted ==
  ASSUME NEW p, GoodBoard(p)
  PROVE  /\ WasteMoves(p) \in Seq(Accepts(p))
         /\ \A to \in Tableaus : p[Waste] # << >> /\ Useful(p, Waste, 1, to) =>
              Listed(<<Waste, to, 1>>, WasteMoves(p))
<1>1. CASE p[Waste] = << >>
  <2>1. << >> \in Seq(Accepts(p))
    OBVIOUS
  <2> QED
    BY <1>1, <2>1 DEF WasteMoves
<1>2. CASE p[Waste] # << >>
  <2> DEFINE s == p[Waste]
  <2>1. /\ s \in Seq(Card) /\ Len(s) \in Nat /\ 1 \in 1 .. Len(s) /\ 1 \in 0 .. Len(s)
        /\ Len(s) \in 1 .. Len(s)
    BY <1>2, PileKinds, LenProperties, EmptySeq DEF GoodBoard, GoodPile
  <2>2. \A k \in 1 .. Len(s) : s[k].up
    BY PileKinds DEF GoodBoard, GoodPile
  <2> HIDE DEF s
  <2>3. /\ Len(TopCards(s, 1)) = 1
        /\ \A k \in 1 .. 1 : TopCards(s, 1)[k] = s[Len(s) - 1 + k]
    BY <2>1, TopCardsFacts
  <2>4. \A k \in 1 .. 1 : TopCards(s, 1)[k].up
    <3>1. \A k \in 1 .. 1 : Len(s) - 1 + k = Len(s)
      BY <2>1
    <3> QED
      BY <2>1, <2>2, <2>3, <3>1
  <2>5. IsValidTableauSequence(TopCards(s, 1))
    BY <2>3 DEF IsValidTableauSequence
  <2>6. /\ ColumnMoves(p, Waste, 1) \in Seq(Accepts(p))
        /\ \A to \in Tableaus : Useful(p, Waste, 1, to) =>
             Listed(<<Waste, to, 1>>, ColumnMoves(p, Waste, 1))
    BY <2>1, <2>4, <2>5, ColumnMovesAccepted DEF s
  <2> QED
    BY <1>2, <2>6 DEF WasteMoves
<1> QED
  BY <1>1, <1>2

LEMMA AllPartsAccepted ==
  ASSUME NEW p, GoodBoard(p), NEW draws
  PROVE  /\ AllSlotMoves(p) \in Seq(Accepts(p))
         /\ SlotMoves(p, Waste) \in Seq(Accepts(p))
         /\ AllRunMoves(p) \in Seq(Accepts(p))
         /\ WasteMoves(p) \in Seq(Accepts(p))
         /\ DrawMoves(p, draws) \in Seq(Accepts(p))
<1> DEFINE A == Accepts(p)
<1>1. AllSlotMoves(p) \in Seq(A)
  <2>1. [k \in 1 .. NumColumns |-> SlotMoves(p, ColumnAt[k])]
          \in [1 .. NumColumns -> Seq(A)]
    BY SlotMovesAccepted, ColumnsInOrder
  <2> QED
    BY <2>1, FlattenType, ColumnsInOrder DEF AllSlotMoves
<1>2. AllRunMoves(p) \in Seq(A)
  <2>1. [k \in 1 .. NumColumns |-> RunMoves(p, ColumnAt[k])]
          \in [1 .. NumColumns -> Seq(A)]
    BY RunMovesAccepted, ColumnsInOrder
  <2> QED
    BY <2>1, FlattenType, ColumnsInOrder DEF AllRunMoves
<1>3. DrawMoves(p, draws) \in Seq(A)
  <2>1. CASE DrawWorthwhile(p, draws)
    <3>1. <<Stock, Waste, 1>> \in A
      BY <2>1, DrawAccepted DEF DrawWorthwhile
    <3> QED
      BY <2>1, <3>1 DEF DrawMoves
  <2>2. CASE ~ DrawWorthwhile(p, draws)
    <3>1. << >> \in Seq(A)
      OBVIOUS
    <3> QED
      BY <2>2, <3>1 DEF DrawMoves
  <2> QED
    BY <2>1, <2>2
<1> QED
  BY <1>1, <1>2, <1>3, SlotMovesAccepted, WasteMovesAccepted

(* enumerate_moves lists moves that the live game accepts, and no other.   *)
LEMMA EnumeratedAccepted ==
  ASSUME NEW p, GoodBoard(p), NEW draws
  PROVE  EnumerateMoves(p, draws) \in Seq(Accepts(p))
<1> DEFINE A == Accepts(p)
           part1 == AllSlotMoves(p)
           part2 == SlotMoves(p, Waste)
           part3 == AllRunMoves(p)
           part4 == WasteMoves(p)
           part5 == DrawMoves(p, draws)
<1>1. /\ part1 \in Seq(A) /\ part2 \in Seq(A) /\ part3 \in Seq(A)
      /\ part4 \in Seq(A) /\ part5 \in Seq(A)
  BY AllPartsAccepted
<1>2. EnumerateMoves(p, draws) = part1 \o part2 \o part3 \o part4 \o part5
  BY EnumeratedParts
<1> HIDE DEF A, part1, part2, part3, part4, part5
<1>3. part1 \o part2 \in Seq(A)
  BY <1>1, ConcatProperties
<1>4. part1 \o part2 \o part3 \in Seq(A)
  BY <1>1, <1>3, ConcatProperties
<1>5. part1 \o part2 \o part3 \o part4 \in Seq(A)
  BY <1>1, <1>4, ConcatProperties
<1>6. part1 \o part2 \o part3 \o part4 \o part5 \in Seq(A)
  BY <1>1, <1>5, ConcatProperties
<1> QED
  BY <1>2, <1>6 DEF A

(* What is on one of the parts is on the list.                             *)
LEMMA PartListed ==
  ASSUME NEW p, GoodBoard(p), NEW draws, NEW x,
         \/ Listed(x, AllSlotMoves(p)) \/ Listed(x, SlotMoves(p, Waste))
         \/ Listed(x, AllRunMoves(p)) \/ Listed(x, WasteMoves(p))
         \/ Listed(x, DrawMoves(p, draws))
  PROVE  Listed(x, EnumerateMoves(p, draws))
<1> DEFINE A == Accepts(p)
           part1 == AllSlotMoves(p)
           part2 == SlotMoves(p, Waste)
           part3 == AllRunMoves(p)
           part4 == WasteMoves(p)
           part5 == DrawMoves(p, draws)
<1>1. /\ part1 \in Seq(A) /\ part2 \in Seq(A) /\ part3 \in Seq(A)
      /\ part4 \in Seq(A) /\ part5 \in Seq(A)
  BY AllPartsAccepted
<1>2. EnumerateMoves(p, draws) = part1 \o part2 \o part3 \o part4 \o part5
  BY EnumeratedParts
<1>2a. \/ Listed(x, part1) \/ Listed(x, part2) \/ Listed(x, part3)
       \/ Listed(x, part4) \/ Listed(x, part5)
  OBVIOUS
<1> HIDE DEF A, part1, part2, part3, part4, part5
<1> DEFINE two == part1 \o part2
           three == two \o part3
           four == three \o part4
           five == four \o part5
<1>3. two \in Seq(A) /\ (Listed(x, part1) \/ Listed(x, part2) => Listed(x, two))
  BY <1>1, ConcatProperties, ListedConcat
<1> HIDE DEF two
<1>4. three \in Seq(A) /\ (Listed(x, two) \/ Listed(x, part3) => Listed(x, three))
  BY <1>1, <1>3, ConcatProperties, ListedConcat
<1> HIDE DEF three
<1>5. four \in Seq(A) /\ (Listed(x, three) \/ Listed(x, part4) => Listed(x, four))
  BY <1>1, <1>4, ConcatProperties, ListedConcat
<1> HIDE DEF four
<1>6. Listed(x, four) \/ Listed(x, part5) => Listed(x, five)
  BY <1>1, <1>5, ListedConcat
<1>7. Listed(x, five)
  BY <1>2a, <1>3, <1>4, <1>5, <1>6
<1> QED
  BY <1>2, <1>7 DEF two, three, four

(* The list has the top cards that go to a slot, the runs that go usefully *)
(* to a column, and the draw while it is worthwhile.                       *)
LEMMA SlotListed ==
  ASSUME NEW p, GoodBoard(p), NEW draws, NEW t \in Tableaus \cup {Waste},
         p[t] # << >>, Last(p[t]).up, NEW i \in SlotsTaking(p, t)
  PROVE  Listed(<<t, Foundation(i), 1>>, EnumerateMoves(p, draws))
<1> DEFINE x == <<t, Foundation(i), 1>>
<1>1. {<<t, Foundation(j), 1>> : j \in SlotsTaking(p, t)} = {x}
  <2>1. SlotsTaking(p, t) = {i}
    BY SlotsTakingFacts
  <2> QED
    BY <2>1
<1> HIDE DEF x
<1>2. Listed(x, SlotMoves(p, t))
  BY <1>1, OneSeq DEF SlotMoves
<1>3. CASE t \in Tableaus
  <2> DEFINE ss == [k \in 1 .. NumColumns |-> SlotMoves(p, ColumnAt[k])]
  <2>1. /\ ss \in [1 .. NumColumns -> Seq(Accepts(p))]
        /\ \A k \in 1 .. NumColumns : ss[k] = SlotMoves(p, ColumnAt[k])
    BY SlotMovesAccepted, ColumnsInOrder
  <2>2. AllSlotMoves(p) = FlattenSeq(ss)
    BY DEF AllSlotMoves
  <2> HIDE DEF ss
  <2>3. PICK k \in 1 .. NumColumns : ColumnAt[k] = t
    BY <1>3, ColumnsInOrder
  <2>4. Listed(x, ss[k])
    BY <1>2, <2>1, <2>3
  <2>5. Listed(x, AllSlotMoves(p))
    BY <2>1, <2>2, <2>4, FlattenListed, ColumnsInOrder
  <2> QED
    BY <2>5, PartListed DEF x
<1>4. CASE t = Waste
  BY <1>2, <1>4, PartListed DEF x
<1> QED
  BY <1>3, <1>4

LEMMA RunListed ==
  ASSUME NEW p, GoodBoard(p), NEW draws, NEW t \in Tableaus,
         NEW n \in 1 .. LongestFaceUpRun(p[t]), NEW to \in Tableaus, Useful(p, t, n, to)
  PROVE  Listed(<<t, to, n>>, EnumerateMoves(p, draws))
<1> DEFINE ss == [k \in 1 .. NumColumns |-> RunMoves(p, ColumnAt[k])]
<1>1. /\ ss \in [1 .. NumColumns -> Seq(Accepts(p))]
      /\ \A k \in 1 .. NumColumns : ss[k] = RunMoves(p, ColumnAt[k])
  BY RunMovesAccepted, ColumnsInOrder
<1>2. AllRunMoves(p) = FlattenSeq(ss)
  BY DEF AllRunMoves
<1> HIDE DEF ss
<1>3. PICK k \in 1 .. NumColumns : ColumnAt[k] = t
  BY ColumnsInOrder
<1> DEFINE x == <<t, to, n>>
<1>4. Listed(x, ss[k])
  BY <1>1, <1>3, RunMovesAccepted
<1> HIDE DEF x
<1>5. Listed(x, AllRunMoves(p))
  <2> DEFINE A == Accepts(p)
             N == NumColumns
  <2>1. N \in Nat /\ ss \in [1 .. N -> Seq(A)] /\ k \in 1 .. N /\ Listed(x, ss[k])
    BY <1>1, <1>4, ColumnsInOrder
  <2> HIDE DEF A, N
  <2>2. Listed(x, FlattenSeq(ss))
    BY <2>1, FlattenListed
  <2> QED
    BY <1>2, <2>2
<1> QED
  BY <1>5, PartListed DEF x

LEMMA WasteListed ==
  ASSUME NEW p, GoodBoard(p), NEW draws, p[Waste] # << >>,
         NEW to \in Tableaus, Useful(p, Waste, 1, to)
  PROVE  Listed(<<Waste, to, 1>>, EnumerateMoves(p, draws))
BY WasteMovesAccepted, PartListed

LEMMA DrawListed ==
  ASSUME NEW p, GoodBoard(p), NEW draws, DrawWorthwhile(p, draws)
  PROVE  Listed(<<Stock, Waste, 1>>, EnumerateMoves(p, draws))
<1> DEFINE m == <<Stock, Waste, 1>>
<1> HIDE DEF m
<1>1. Len(<< m >>) = 1 /\ << m >>[1] = m
  OBVIOUS
<1>2. Listed(m, << m >>)
  BY <1>1 DEF Listed
<1>3. Listed(m, DrawMoves(p, draws))
  BY <1>2 DEF DrawMoves, m
<1> QED
  BY <1>3, PartListed DEF m

(* The longest run is as long as any.                                      *)
LEMMA LongestIsLongest ==
  ASSUME NEW s \in Seq(Card), NEW n \in 1 .. Len(s),
         \A k \in 1 .. n : TopCards(s, n)[k].up,
         IsValidTableauSequence(TopCards(s, n))
  PROVE  n \in 1 .. LongestFaceUpRun(s)
<1> DEFINE run(k) == /\ \A j \in 1 .. k : TopCards(s, k)[j].up
                     /\ IsValidTableauSequence(TopCards(s, k))
           R == {k \in 0 .. Len(s) : \A j \in 1 .. k : run(j)}
           T == {Len(s) - k : k \in R}
<1>1. LongestFaceUpRun(s) = Max(R)
  BY DEF LongestFaceUpRun
<1>2. Len(s) \in Nat /\ n \in Nat
  BY LenProperties
<1>3. \A k \in 1 .. Len(s) : /\ Len(TopCards(s, k)) = k
                            /\ \A j \in 1 .. k : TopCards(s, k)[j] = s[Len(s) - k + j]
  <2>1. \A k \in 1 .. Len(s) : k \in 0 .. Len(s)
    BY <1>2
  <2> QED
    BY <2>1, TopCardsFacts
<1>4. ASSUME NEW k \in 1 .. n
      PROVE  run(k)
  <2>1. \A j \in 1 .. k : /\ n - k + j \in 1 .. n
                           /\ Len(s) - n + (n - k + j) = Len(s) - k + j
    BY <1>2
  <2>2. k \in 1 .. Len(s)
    BY <1>2
  <2>3. \A j \in 1 .. k : TopCards(s, k)[j] = TopCards(s, n)[n - k + j]
    BY <1>3, <2>1, <2>2
  <2>4. \A j \in 1 .. k : TopCards(s, k)[j].up
    BY <2>1, <2>3
  <2>5. \A j \in 1 .. k - 1 : /\ j \in 1 .. k /\ j + 1 \in 1 .. k
                             /\ n - k + j \in 1 .. n - 1
                             /\ n - k + (j + 1) = (n - k + j) + 1
    BY <1>2
  <2>6. \A j \in 1 .. n - 1 : Follows(TopCards(s, n)[j], TopCards(s, n)[j + 1])
    BY <1>3 DEF IsValidTableauSequence
  <2>7. \A j \in 1 .. k - 1 : Follows(TopCards(s, k)[j], TopCards(s, k)[j + 1])
    BY <2>3, <2>5, <2>6
  <2>8. IsValidTableauSequence(TopCards(s, k))
    BY <1>3, <2>2, <2>7 DEF IsValidTableauSequence
  <2> QED
    BY <2>4, <2>8
<1>5. n \in R /\ R \subseteq 0 .. Len(s)
  <2> HIDE DEF run
  <2> QED
    BY <1>2, <1>4
<1> HIDE DEF R, run
<1>6. T \in SUBSET Nat /\ T # {}
  BY <1>2, <1>5
<1>7. PICK x \in T : \A y \in T : x <= y
  <2> HIDE DEF T
  <2> QED
    BY <1>6, LeastNatural
<1>8. PICK m \in R : x = Len(s) - m
  OBVIOUS
<1>9. \A j \in R : m >= j
  <2>1. TAKE j \in R
  <2>2. j \in Nat /\ m \in Nat
    BY <1>2, <1>5
  <2>3. x <= Len(s) - j
    BY <1>7
  <2> QED
    BY <1>2, <1>8, <2>2, <2>3
<1>10. Max(R) \in R /\ \A j \in R : Max(R) >= j
  BY <1>9 DEF Max
<1>11. Max(R) \in Nat /\ Max(R) >= n
  <2>1. Max(R) \in 0 .. Len(s)
    BY <1>5, <1>10
  <2>2. Max(R) >= n
    BY <1>5, <1>10
  <2> QED
    BY <1>2, <2>1, <2>2
<1> QED
  BY <1>1, <1>2, <1>11

(* A move the solver makes is a step of play, without take-backs.          *)
LEMMA AcceptedIsPlay ==
  ASSUME NEW p, GoodBoard(p), ~ CheckWin(p), draw_count \in DrawCounts,
         NEW m \in Accepts(p)
  PROVE  /\ AfterSolverMove(p, m) \in PlaySteps(p, draw_count, FALSE)
         /\ GoodBoard(AfterSolverMove(p, m))
<1> DEFINE q == AfterSolverMove(p, m)
<1>1. m \in PileType \X PileType \X (1 .. Cardinality(Face)) /\ Plays(p, m, q)
  BY DEF Accepts, Move
<1>2. m[1] \in PileType /\ m[2] \in PileType /\ m = <<m[1], m[2], m[3]>>
  BY <1>1
<1>3. draw_count \in Nat
  BY SolverAssumption
<1> HIDE DEF q
<1>4. CASE p[Stock] # << >> /\ q = AfterDraw(p, draw_count)
  BY <1>3, <1>4, DrawGood DEF PlaySteps, q
<1>5. CASE p[Stock] = << >> /\ p[Waste] # << >> /\ q = AfterRecycle(p)
  BY <1>5, RecycleGood DEF PlaySteps, q
<1>6. CASE MoveAllowed(p, FALSE, m[1], m[2], m[3]) /\ q = AfterMove(p, m[1], m[2], m[3])
  <2>1. m[3] \in 1 .. Len(p[m[1]])
    BY <1>6 DEF MoveAllowed
  <2>2. GoodBoard(q)
    BY <1>2, <1>6, <2>1, MoveGood
  <2>3. Offered(p, FALSE, m[1], m[2], m[3])
    BY <1>2, <1>6, <2>1, OfferedIsAllowed
  <2>4. m \in PossibleInstructions(p, FALSE)
    BY <1>2, <2>3, InstructionsOffered
  <2>5. q \in PlaySteps(p, draw_count, FALSE)
    BY <1>6, <2>4 DEF PlaySteps
  <2> QED
    BY <2>2, <2>5 DEF q
<1> QED
  BY <1>1, <1>4, <1>5, <1>6 DEF Plays

(* Play keeps a board good.                                                *)
LEMMA PlayGood ==
  ASSUME NEW p, GoodBoard(p), NEW n \in Nat, NEW tb \in BOOLEAN,
         NEW q \in PlaySteps(p, n, tb)
  PROVE  GoodBoard(q)
<1>1. \/ \E m \in PossibleInstructions(p, tb) : q = AfterMove(p, m[1], m[2], m[3])
      \/ q = AfterDraw(p, n)
      \/ q = AfterRecycle(p)
  BY DEF PlaySteps
<1>2. ASSUME NEW m \in PossibleInstructions(p, tb), q = AfterMove(p, m[1], m[2], m[3])
      PROVE  GoodBoard(q)
  <2>1. PICK from, to, k : m = <<from, to, k>> /\ Offered(p, tb, from, to, k)
    BY InstructionsOffered
  <2>2. from \in PileType /\ to \in PileType /\ k \in 1 .. Len(p[from])
    BY <2>1, OfferedInRange
  <2>3. MoveAllowed(p, tb, from, to, k)
    BY <2>1, <2>2, OfferedIsAllowed
  <2>4. q = AfterMove(p, from, to, k)
    BY <1>2, <2>1
  <2> QED
    BY <2>2, <2>3, <2>4, MoveGood
<1> QED
  BY <1>1, <1>2, DrawGood, RecycleGood

---------------------------------------------------------------------------
(* The stack is a line of play: the inductive invariant of the search.     *)

(* A frame whose position is open and whose moves the live game accepts.   *)
Sound(f) ==
  /\ f \in Frame
  /\ GoodBoard(f.state)
  /\ ~ CheckWin(f.state)
  /\ f.pending \in Seq(Accepts(f.state))

Line(s, met) ==
  /\ s \in Seq(Frame)
  /\ \A k \in 1 .. Len(s) : Sound(s[k]) /\ CanonicalHash(s[k].state) \in met
  /\ s # << >> => s[1].state = root /\ s[1].root_move = NoMove
  /\ \A k \in 1 .. Len(s) - 1 :
       s[k + 1].state \in PlaySteps(s[k].state, draw_count, FALSE)
  /\ \A k \in 2 .. Len(s) :
       s[k].root_move \in Move /\ Plays(root, s[k].root_move, s[2].state)
  /\ \A j, k \in 1 .. Len(s) : s[j].state = s[k].state => j = k

SearchInv ==
  /\ GoodBoard(root)
  /\ draw_count \in DrawCounts
  /\ phase \in {"play", "search", "answered"}
  /\ config \in Config \cup {[moves |-> 0, states |-> 0]}
  /\ moves_consumed \in 0 .. config.moves
  /\ IsFiniteSet(visited) /\ Cardinality(visited) <= config.states
  /\ result \in {"none", "Winnable", "Unwinnable", "Inconclusive"}
  /\ first_move \in Move \cup {NoMove}
  /\ phase = "play" => visited = {} /\ stack = << >>
  /\ Line(stack, visited)

LEMMA NoLine == \A met : Line(<< >>, met)
<1>1. << >> \in Seq(Frame) /\ Len(<< >>) = 0
  OBVIOUS
<1> QED
  BY <1>1 DEF Line

LEMMA SameLine ==
  ASSUME root' = root, draw_count' = draw_count, Line(stack', visited')
  PROVE  Line(stack, visited)'
<1>1. \A p, m : AfterSolverMove(p, m)' = AfterSolverMove(p, m)
  BY DEF AfterSolverMove
<1>2. \A p, m, q : Plays(p, m, q)' <=> Plays(p, m, q)
  BY DEF Plays
<1>3. \A p : Accepts(p)' = Accepts(p)
  BY <1>1, <1>2 DEF Accepts
<1>4. \A f : Sound(f)' <=> Sound(f)
  BY <1>3 DEF Sound
<1> QED
  BY <1>2, <1>4, Zenon DEF Line

LEMMA MoreMet ==
  ASSUME NEW s, NEW met, NEW more, met \subseteq more, Line(s, met)
  PROVE  Line(s, more)
BY DEF Line

(* The line without its last position.                                     *)
LEMMA PopLine ==
  ASSUME NEW s, NEW met, Line(s, met), s # << >>
  PROVE  Line(Front(s), met)
<1> DEFINE r == Front(s)
<1>1. s \in Seq(Frame) /\ Len(s) \in Nat \ {0}
  BY EmptySeq, LenProperties DEF Line
<1>2. r = SubSeq(s, 1, Len(s) - 1)
  BY DEF Front
<1>3. /\ r \in Seq(Frame) /\ Len(r) = Len(s) - 1
      /\ \A k \in 1 .. Len(s) - 1 : r[k] = s[k]
  <2> DEFINE n == Len(s) - 1
  <2>1. n \in Nat /\ 1 .. n \subseteq 1 .. Len(s)
    BY <1>1
  <2>2. \A i \in 1 .. n : s[i] \in Frame
    BY <1>1, <2>1, ElementOfSeq
  <2> HIDE DEF n, r
  <2>3. /\ SubSeq(s, 1, n) \in Seq(Frame)
        /\ Len(SubSeq(s, 1, n)) = IF 1 <= n THEN n - 1 + 1 ELSE 0
        /\ \A i \in 1 .. n - 1 + 1 : SubSeq(s, 1, n)[i] = s[1 + i - 1]
    BY <2>1, <2>2, SubSeqProperties
  <2>4. r = SubSeq(s, 1, n)
    BY <1>2 DEF n
  <2>5. (IF 1 <= n THEN n - 1 + 1 ELSE 0) = n /\ 1 .. n - 1 + 1 = 1 .. n
    BY <2>1
  <2>6. \A i \in 1 .. n : 1 + i - 1 = i
    BY <2>1
  <2>7. r \in Seq(Frame) /\ Len(r) = n /\ \A k \in 1 .. n : r[k] = s[k]
    BY <2>3, <2>4, <2>5, <2>6
  <2> QED
    BY <2>7 DEF n
<1> HIDE DEF r
<1>4. r # << >> => r[1] = s[1]
  <2>1. r # << >> => Len(r) # 0
    BY <1>3, EmptySeq
  <2> QED
    BY <1>1, <1>3, <2>1
<1>5. \A k \in 1 .. Len(r) : k \in 1 .. Len(s) /\ r[k] = s[k]
  BY <1>1, <1>3
<1>6. \A k \in 1 .. Len(r) : Sound(r[k]) /\ CanonicalHash(r[k].state) \in met
  BY <1>5 DEF Line
<1>7. ASSUME NEW k \in 1 .. Len(r) - 1
      PROVE  r[k + 1].state \in PlaySteps(r[k].state, draw_count, FALSE)
  <2>1. k \in 1 .. Len(r) /\ k + 1 \in 1 .. Len(r) /\ k \in 1 .. Len(s) - 1
    BY <1>1, <1>3
  <2> QED
    BY <1>5, <2>1 DEF Line
<1>8. ASSUME NEW k \in 2 .. Len(r)
      PROVE  r[k].root_move \in Move /\ Plays(root, r[k].root_move, r[2].state)
  <2>1. k \in 1 .. Len(r) /\ 2 \in 1 .. Len(r) /\ k \in 2 .. Len(s)
    BY <1>1, <1>3
  <2> QED
    BY <1>5, <2>1 DEF Line
<1>9. \A j, k \in 1 .. Len(r) : r[j].state = r[k].state => j = k
  BY <1>5 DEF Line
<1>10. Line(r, met)
  BY <1>1, <1>3, <1>4, <1>6, <1>7, <1>8, <1>9, EmptySeq DEF Line
<1> QED
  BY <1>10 DEF r

(* The line once the next move of the last position is taken off its list. *)
LEMMA TakenLine ==
  ASSUME NEW s, NEW met, Line(s, met), s # << >>, Last(s).pending # << >>,
         NEW r, r = [s EXCEPT ![Len(s)].pending = Tail(@)]
  PROVE  /\ Line(r, met)
         /\ Len(r) = Len(s)
         /\ \A k \in 1 .. Len(s) : /\ r[k].state = s[k].state
                                   /\ r[k].root_move = s[k].root_move
<1> DEFINE n == Len(s)
           f == s[n]
           g == [f EXCEPT !.pending = Tail(@)]
<1>1. s \in Seq(Frame) /\ n \in Nat \ {0} /\ n \in 1 .. n /\ f = Last(s)
  BY EmptySeq, LenProperties DEF Line, Last
<1>2. Sound(f)
  BY <1>1 DEF Line
<1>3. f \in Frame /\ f.pending \in Seq(Accepts(f.state)) /\ f.pending # << >>
  BY <1>1, <1>2 DEF Sound
<1>4. /\ g.state = f.state /\ g.root_move = f.root_move /\ g.draws = f.draws
      /\ g.pending = Tail(f.pending)
      /\ Tail(f.pending) \in Seq(Accepts(f.state)) /\ Tail(f.pending) \in Seq(Move)
      /\ g \in Frame
  <2>1. f.pending \in Seq(Move)
    BY <1>3 DEF Frame
  <2>2. Tail(f.pending) \in Seq(Accepts(f.state)) /\ Tail(f.pending) \in Seq(Move)
    BY <1>3, <2>1, HeadTailProperties
  <2> QED
    BY <1>3, <2>2 DEF Frame
<1>5. Sound(g)
  BY <1>2, <1>4 DEF Sound
<1>6. DOMAIN s = 1 .. n /\ \A k \in 1 .. n : s[k] \in Frame
  BY <1>1, LenProperties, ElementOfSeq
<1>7. /\ r \in [1 .. n -> Frame]
      /\ \A k \in 1 .. n : r[k] = IF k = n THEN g ELSE s[k]
  <2>1. r = [k \in 1 .. n |-> IF k = n THEN g ELSE s[k]]
    BY <1>6
  <2> HIDE DEF g, n
  <2> QED
    BY <1>4, <1>6, <2>1
<1> HIDE DEF g, n
<1>8. r \in Seq(Frame) /\ Len(r) = n
  BY <1>1, <1>7, SeqOfFunction
<1>9. \A k \in 1 .. n : r[k].state = s[k].state /\ r[k].root_move = s[k].root_move
  BY <1>4, <1>7
<1>10. \A k \in 1 .. n : Sound(r[k]) /\ CanonicalHash(r[k].state) \in met
  <2>1. \A k \in 1 .. n : Sound(s[k]) /\ CanonicalHash(s[k].state) \in met
    BY DEF Line, n
  <2>2. \A k \in 1 .. n : Sound(r[k])
    BY <1>5, <1>7, <2>1
  <2> QED
    BY <1>9, <2>1, <2>2
<1>11. r[1].state = root /\ r[1].root_move = NoMove
  BY <1>1, <1>9 DEF Line
<1>12. ASSUME NEW k \in 1 .. n - 1
       PROVE  r[k + 1].state \in PlaySteps(r[k].state, draw_count, FALSE)
  <2>1. k \in 1 .. n /\ k + 1 \in 1 .. n
    BY <1>1
  <2> QED
    BY <1>9, <2>1 DEF Line, n
<1>13. ASSUME NEW k \in 2 .. n
       PROVE  r[k].root_move \in Move /\ Plays(root, r[k].root_move, r[2].state)
  <2>1. k \in 1 .. n /\ 2 \in 1 .. n
    BY <1>1
  <2> QED
    BY <1>9, <2>1 DEF Line, n
<1>14. \A j, k \in 1 .. n : r[j].state = r[k].state => j = k
  BY <1>9 DEF Line, n
<1>15. Line(r, met)
  BY <1>8, <1>10, <1>11, <1>12, <1>13, <1>14 DEF Line
<1> QED
  BY <1>8, <1>9, <1>15 DEF n

(* The line with one more position, not met before.                        *)
LEMMA PushLine ==
  ASSUME NEW s, NEW met, Line(s, met), s # << >>,
         NEW f, Sound(f), CanonicalHash(f.state) \notin met,
         f.state \in PlaySteps(s[Len(s)].state, draw_count, FALSE),
         f.root_move \in Move,
         Plays(root, f.root_move, IF Len(s) = 1 THEN f.state ELSE s[2].state)
  PROVE  Line(Append(s, f), met \cup {CanonicalHash(f.state)})
<1> DEFINE r == Append(s, f)
           n == Len(s)
           more == met \cup {CanonicalHash(f.state)}
<1>1. s \in Seq(Frame) /\ n \in Nat \ {0} /\ f \in Frame
  BY EmptySeq, LenProperties DEF Line, Sound
<1>2. /\ r \in Seq(Frame) /\ Len(r) = n + 1 /\ r[n + 1] = f
      /\ \A k \in 1 .. n : r[k] = s[k]
  BY <1>1
<1> HIDE DEF r
<1>3. \A k \in 1 .. n + 1 : k = n + 1 \/ k \in 1 .. n
  BY <1>1
<1>4. \A k \in 1 .. n : Sound(s[k]) /\ CanonicalHash(s[k].state) \in met
  BY DEF Line
<1>5. \A k \in 1 .. n + 1 : Sound(r[k]) /\ CanonicalHash(r[k].state) \in more
  BY <1>2, <1>3, <1>4
<1>6. r[1].state = root /\ r[1].root_move = NoMove
  <2>1. 1 \in 1 .. n
    BY <1>1
  <2> QED
    BY <1>2, <2>1 DEF Line
<1>7. ASSUME NEW k \in 1 .. n
      PROVE  r[k + 1].state \in PlaySteps(r[k].state, draw_count, FALSE)
  <2>1. CASE k = n
    BY <1>1, <1>2, <2>1
  <2>2. CASE k # n
    <3>1. k \in 1 .. n - 1 /\ k + 1 \in 1 .. n
      BY <1>1, <2>2
    <3> QED
      BY <1>2, <3>1 DEF Line
  <2> QED
    BY <2>1, <2>2
<1>8. ASSUME NEW k \in 2 .. n + 1
      PROVE  r[k].root_move \in Move /\ Plays(root, r[k].root_move, r[2].state)
  <2>1. CASE k = n + 1
    <3>1. r[2].state = IF n = 1 THEN f.state ELSE s[2].state
      <4>1. n = 1 \/ 2 \in 1 .. n
        <5> HIDE DEF n
        <5> QED
          BY <1>1
      <4>2. n = 1 => r[2] = f
        BY <1>2
      <4> QED
        BY <1>1, <1>2, <4>1, <4>2
    <3> QED
      BY <1>2, <2>1, <3>1
  <2>2. CASE k # n + 1
    <3>1. k \in 2 .. n /\ k \in 1 .. n /\ 2 \in 1 .. n
      BY <1>1, <2>2
    <3> QED
      BY <1>2, <3>1 DEF Line
  <2> QED
    BY <2>1, <2>2
<1>9. ASSUME NEW j \in 1 .. n + 1, NEW k \in 1 .. n + 1, r[j].state = r[k].state
      PROVE  j = k
  <2>1. ASSUME NEW i \in 1 .. n
        PROVE  r[i].state # f.state
    BY <1>2, <1>4
  <2>2. \A a, b \in 1 .. n : s[a].state = s[b].state => a = b
    BY DEF Line
  <2> QED
    BY <1>2, <1>3, <1>9, <2>1, <2>2
<1>10. (n + 1) - 1 = n
  BY <1>1
<1>11. Line(r, more)
  BY <1>2, <1>5, <1>6, <1>7, <1>8, <1>9, <1>10 DEF Line
<1> QED
  BY <1>11 DEF r

(* A line of one position: the root's.                                     *)
LEMMA RootLine ==
  ASSUME NEW f, Sound(f), f.state = root, f.root_move = NoMove
  PROVE  Line(<< f >>, {CanonicalHash(root)})
<1> DEFINE s == << f >>
<1>1. f \in Frame
  BY DEF Sound
<1>2. s \in Seq(Frame) /\ Len(s) = 1 /\ s[1] = f
  BY <1>1
<1> HIDE DEF s
<1>3. 1 .. Len(s) - 1 = {} /\ 2 .. Len(s) = {} /\ 1 .. Len(s) = {1}
  BY <1>2
<1> QED
  BY <1>2, <1>3 DEF Line, s

(* The frame of a position is sound: its moves are all accepted.           *)
LEMMA OpenedFrame ==
  ASSUME NEW p, GoodBoard(p), ~ CheckWin(p), NEW draws \in Nat,
         NEW mv \in Move \cup {NoMove},
         NEW f, f = [state |-> p, draws |-> draws, pending |-> EnumerateMoves(p, draws),
                     root_move |-> mv]
  PROVE  Sound(f)
<1> DEFINE listed == EnumerateMoves(p, draws)
<1>1. listed \in Seq(Accepts(p))
  BY EnumeratedAccepted
<1>2. Accepts(p) \subseteq Move
  BY DEF Accepts
<1>3. listed \in Seq(Move)
  <2> HIDE DEF listed
  <2> QED
    BY <1>1, <1>2
<1>4. p \in Boards
  BY DEF GoodBoard
<1> HIDE DEF listed
<1>5. f \in Frame
  BY <1>3, <1>4 DEF Frame, listed
<1> QED
  BY <1>1, <1>5 DEF Sound, listed

LEMMA InitSearchInv == SolverInit => SearchInv
<1> SUFFICES ASSUME SolverInit
             PROVE  SearchInv
  OBVIOUS
<1>1. GoodBoard(root)
  <2>1. PICK d \in SolverDecks : root = DealKlondike(d)
    BY DEF SolverInit, DealtBoards
  <2> QED
    BY <2>1, SolverDecksAssumption, DealGood
<1>2. IsFiniteSet({}) /\ Cardinality({}) = 0
  BY FS_EmptySet
<1>3. Line(stack, visited)
  BY NoLine DEF SolverInit
<1> QED
  BY <1>1, <1>2, <1>3 DEF SolverInit, SearchInv

LEMMA PlayKeeps == SearchInv /\ Play => SearchInv'
<1> SUFFICES ASSUME SearchInv, Play
             PROVE  SearchInv'
  OBVIOUS
<1>1. draw_count \in Nat
  BY SolverAssumption DEF SearchInv
<1>2. GoodBoard(root')
  BY <1>1, PlayGood DEF SearchInv, Play
<1>3. Line(stack, visited)'
  <2>1. stack' = << >> /\ << >> \in Seq(Frame) /\ Len(<< >>) = 0
    BY DEF SearchInv, Play, search
  <2> QED
    BY <2>1 DEF Line
<1> QED
  BY <1>2, <1>3 DEF SearchInv, Play, search

LEMMA AskKeeps ==
  ASSUME SearchInv, NEW c \in Config, Ask(c)
  PROVE  SearchInv'
<1>1. /\ phase = "play" /\ visited = {} /\ stack = << >>
      /\ root' = root /\ draw_count' = draw_count
      /\ config' = c /\ moves_consumed' = 0
  BY DEF SearchInv, Ask
<1>2. c.moves \in Nat /\ c.states \in Nat
  BY SolverAssumption DEF Config
<1>3. IsFiniteSet({}) /\ Cardinality({}) = 0
  BY FS_EmptySet
<1>4. GoodBoard(root)' /\ moves_consumed' \in 0 .. config'.moves
  <2>1. GoodBoard(root')
    BY <1>1 DEF SearchInv
  <2> QED
    BY <1>1, <1>2, <2>1
<1>5. CASE CheckWin(root) \/ OutOfBudget(c, 0, {})
  <2>1. /\ phase' = "answered"
        /\ result' \in {"Winnable", "Inconclusive"} /\ first_move' = NoMove
        /\ visited' = {} /\ stack' = << >>
    BY <1>1, <1>5 DEF Ask, Answer
  <2>2. Line(stack, visited)'
    BY <1>1, <2>1, NoLine, SameLine
  <2>3. IsFiniteSet(visited') /\ Cardinality(visited') <= config'.states
    BY <1>1, <1>2, <1>3, <2>1
  <2> QED
    BY <1>1, <1>4, <2>1, <2>2, <2>3 DEF SearchInv
<1>6. CASE ~ (CheckWin(root) \/ OutOfBudget(c, 0, {}))
  <2> DEFINE f == [state |-> root, draws |-> 0, root_move |-> NoMove,
                   pending |-> EnumerateMoves(root, 0)]
  <2>1. /\ phase' = "search" /\ result' = result /\ first_move' = first_move
        /\ visited' = {CanonicalHash(root)} /\ stack' = << f >>
    BY <1>6 DEF Ask
  <2>2. ~ CheckWin(root) /\ 0 < c.states
    BY <1>2, <1>3, <1>6 DEF OutOfBudget
  <2>3. Sound(f) /\ f.state = root /\ f.root_move = NoMove
    <3>1. f = [state |-> root, draws |-> 0, pending |-> EnumerateMoves(root, 0),
               root_move |-> NoMove]
      OBVIOUS
    <3> HIDE DEF f
    <3>2. Sound(f)
      BY <2>2, <3>1, OpenedFrame DEF SearchInv
    <3> QED
      BY <3>1, <3>2
  <2> HIDE DEF f
  <2>4. Line(stack, visited)'
    <3>1. Line(stack', visited')
      BY <2>1, <2>3, RootLine
    <3> QED
      BY <1>1, <3>1, SameLine
  <2>5. IsFiniteSet(visited') /\ Cardinality(visited') <= config'.states
    <3>1. IsFiniteSet(visited') /\ Cardinality(visited') = 1
      BY <2>1, FS_Singleton
    <3> QED
      BY <1>1, <1>2, <2>2, <3>1
  <2> QED
    BY <1>1, <1>4, <2>1, <2>4, <2>5 DEF SearchInv
<1> QED
  BY <1>5, <1>6

(* The next move of the last position of a line is a step of play, and the *)
(* move the child carries leads from the root to the line's second board.  *)
LEMMA MadeMove ==
  ASSUME NEW s, NEW met, Line(s, met), s # << >>, Last(s).pending # << >>,
         draw_count \in DrawCounts,
         NEW m, m = Head(Last(s).pending),
         NEW next, next = AfterSolverMove(Last(s).state, m),
         NEW mv, mv = RootMoveOfChild(Last(s), m)
  PROVE  /\ next \in PlaySteps(Last(s).state, draw_count, FALSE)
         /\ GoodBoard(next)
         /\ mv \in Move
         /\ Plays(root, mv, IF Len(s) = 1 THEN next ELSE s[2].state)
<1> DEFINE n     == Len(s)
           frame == Last(s)
<1>1. n \in Nat \ {0} /\ n \in 1 .. n /\ frame = s[n]
  BY EmptySeq, LenProperties DEF Line, Last
<1>2. Sound(frame)
  BY <1>1 DEF Line
<1>3. m \in Accepts(frame.state)
  BY <1>2, HeadTailProperties DEF Sound
<1>4. /\ next \in PlaySteps(frame.state, draw_count, FALSE)
      /\ GoodBoard(next)
      /\ m \in Move /\ Plays(frame.state, m, next)
  BY <1>2, <1>3, AcceptedIsPlay DEF Sound, Accepts
<1> HIDE DEF frame
<1>5. CASE n = 1
  <2>1. frame.state = root /\ frame.root_move = NoMove
    BY <1>1, <1>5 DEF Line
  <2>2. mv = m
    BY <2>1 DEF RootMoveOfChild, frame
  <2> QED
    BY <1>4, <1>5, <2>1, <2>2 DEF frame
<1>6. CASE n # 1
  <2>1. n \in 2 .. n
    <3> HIDE DEF n
    <3> QED
      BY <1>1, <1>6
  <2>2. frame.root_move \in Move /\ Plays(root, frame.root_move, s[2].state)
    BY <1>1, <2>1 DEF Line
  <2>3. frame.root_move # NoMove
    <3>1. \A x \in Move : x # << >>
      BY DEF Move
    <3> QED
      BY <2>2, <3>1 DEF NoMove
  <2>4. mv = frame.root_move
    BY <2>3 DEF RootMoveOfChild, frame
  <2> QED
    BY <1>4, <1>6, <2>2, <2>4 DEF frame
<1> QED
  BY <1>5, <1>6

LEMMA TryKeeps == SearchInv /\ Try => SearchInv'
<1> SUFFICES ASSUME SearchInv, Try
             PROVE  SearchInv'
  OBVIOUS
<1> DEFINE n     == Len(stack)
           frame == Last(stack)
           m     == Head(frame.pending)
           next  == AfterSolverMove(frame.state, m)
           draws == IF IsDraw(m) THEN frame.draws + 1 ELSE 0
           rest  == [stack EXCEPT ![Len(stack)].pending = Tail(@)]
           mv    == RootMoveOfChild(frame, m)
           child == [state |-> next, draws |-> draws,
                     pending |-> EnumerateMoves(next, draws), root_move |-> mv]
<1>1. /\ phase = "search" /\ stack # << >> /\ ~ Spent /\ frame.pending # << >>
      /\ moves_consumed' = moves_consumed + 1
      /\ root' = root /\ draw_count' = draw_count /\ config' = config
  BY DEF Try, Searching
<1>2. \/ /\ CheckWin(next)
         /\ Answer("Winnable", child.root_move)
         /\ stack' = rest
         /\ visited' = visited
      \/ /\ ~ CheckWin(next)
         /\ visited' = visited \cup {CanonicalHash(next)}
         /\ stack' = IF CanonicalHash(next) \in visited THEN rest
                                                       ELSE Append(rest, child)
         /\ phase' = phase /\ result' = result /\ first_move' = first_move
  BY DEF Try
<1>3. child.root_move = mv /\ child.state = next
  OBVIOUS
<1>4. Line(stack, visited) /\ GoodBoard(root) /\ draw_count \in DrawCounts
  BY DEF SearchInv
<1>5. n \in Nat \ {0} /\ n \in 1 .. n /\ frame = stack[n]
  BY <1>1, <1>4, EmptySeq, LenProperties DEF Line, Last
<1>6. Sound(frame)
  BY <1>4, <1>5 DEF Line
<1>7. /\ next \in PlaySteps(frame.state, draw_count, FALSE)
      /\ GoodBoard(next)
      /\ mv \in Move
      /\ Plays(root, mv, IF n = 1 THEN next ELSE stack[2].state)
  <2> HIDE DEF next, mv, m
  <2> QED
    BY <1>1, <1>4, MadeMove DEF next, mv, m
<1>8. draws \in Nat
  BY <1>6 DEF Sound, Frame
<1>9. /\ Line(rest, visited) /\ Len(rest) = n /\ rest # << >>
       /\ \A k \in 1 .. n : /\ rest[k].state = stack[k].state
                            /\ rest[k].root_move = stack[k].root_move
  <2>1. /\ Line(rest, visited) /\ Len(rest) = n
        /\ \A k \in 1 .. n : /\ rest[k].state = stack[k].state
                             /\ rest[k].root_move = stack[k].root_move
    BY <1>1, <1>4, TakenLine
  <2> HIDE DEF rest, n
  <2> QED
    BY <1>5, <2>1, EmptySeq
<1> HIDE DEF m, next, draws, rest, child, mv, frame
<1>10. Plays(root, mv, IF n = 1 THEN next ELSE rest[2].state)
  <2>1. n = 1 \/ 2 \in 1 .. n
    <3> HIDE DEF n
    <3> QED
      BY <1>5
  <2> QED
    BY <1>7, <1>9, <2>1
<1>11. Line(stack', visited')
  <2>1. CASE stack' = rest
    <3>1. visited \subseteq visited'
      BY <1>2
    <3> QED
      BY <1>9, <2>1, <3>1, MoreMet
  <2>2. CASE /\ ~ CheckWin(next) /\ CanonicalHash(next) \notin visited
             /\ visited' = visited \cup {CanonicalHash(next)}
             /\ stack' = Append(rest, child)
    <3>1. Sound(child)
      BY <1>7, <1>8, <2>2, OpenedFrame DEF child
    <3>2. rest[n].state = frame.state
      BY <1>5, <1>9
    <3>3. /\ child.state \in PlaySteps(rest[Len(rest)].state, draw_count, FALSE)
          /\ child.root_move \in Move
          /\ Plays(root, child.root_move,
                   IF Len(rest) = 1 THEN child.state ELSE rest[2].state)
      BY <1>3, <1>7, <1>9, <1>10, <3>2
    <3>4. Line(Append(rest, child), visited \cup {CanonicalHash(child.state)})
      BY <1>3, <1>9, <2>2, <3>1, <3>3, PushLine
    <3> QED
      BY <1>3, <2>2, <3>4
  <2> QED
    BY <1>2, <2>1, <2>2
<1>12. Line(stack, visited)'
  BY <1>1, <1>11, SameLine
<1>13. /\ IsFiniteSet(visited') /\ Cardinality(visited') <= config'.states
       /\ moves_consumed' \in 0 .. config'.moves
  <2>1. config.moves \in Nat /\ config.states \in Nat
    BY SolverAssumption DEF SearchInv, Config
  <2>2. /\ IsFiniteSet(visited) /\ Cardinality(visited) \in Nat
        /\ Cardinality(visited) <= config.states
        /\ moves_consumed \in 0 .. config.moves
    BY FS_CardinalityType DEF SearchInv
  <2>3. moves_consumed < config.moves /\ Cardinality(visited) < config.states
    BY <1>1, <2>1, <2>2 DEF Spent, OutOfBudget
  <2>4. /\ IsFiniteSet(visited \cup {CanonicalHash(next)})
        /\ \/ Cardinality(visited \cup {CanonicalHash(next)}) = Cardinality(visited)
           \/ Cardinality(visited \cup {CanonicalHash(next)}) = Cardinality(visited) + 1
    BY <2>2, FS_AddElement
  <2>5. IsFiniteSet(visited') /\ Cardinality(visited') <= config.states
    <3> DEFINE more == visited \cup {CanonicalHash(next)}
    <3>1. visited' = visited \/ visited' = more
      BY <1>2
    <3>2. IsFiniteSet(more) /\ Cardinality(more) <= config.states
      BY <2>1, <2>2, <2>3, <2>4
    <3> HIDE DEF more
    <3> QED
      BY <2>2, <3>1, <3>2
  <2>6. moves_consumed + 1 \in 0 .. config.moves
    BY <2>1, <2>2, <2>3
  <2> QED
    BY <1>1, <2>5, <2>6
<1>14. /\ phase' \in {"search", "answered"}
       /\ result' \in {"none", "Winnable", "Unwinnable", "Inconclusive"}
       /\ first_move' \in Move \cup {NoMove}
  BY <1>1, <1>2, <1>3, <1>7 DEF SearchInv, Answer
<1>15. /\ GoodBoard(root)' /\ draw_count' \in DrawCounts
       /\ config' \in Config \cup {[moves |-> 0, states |-> 0]}
  <2>1. GoodBoard(root') /\ draw_count' \in DrawCounts
    BY <1>1, <1>4
  <2> QED
    BY <1>1, <2>1 DEF SearchInv
<1> QED
  BY <1>12, <1>13, <1>14, <1>15 DEF SearchInv

LEMMA NextSearchInv == SearchInv /\ [SolverNext]_solverVars => SearchInv'
<1> SUFFICES ASSUME SearchInv, [SolverNext]_solverVars
             PROVE  SearchInv'
  OBVIOUS
<1>1. ASSUME root' = root, draw_count' = draw_count, config' = config,
             visited' = visited, moves_consumed' = moves_consumed,
             stack' \in {stack, Front(stack)}, stack' # stack => stack # << >>,
             phase' \in {phase, "answered"},
             result' \in {result, "Inconclusive", "Unwinnable"},
             first_move' \in {first_move, NoMove}
      PROVE  SearchInv'
  <2>1. Line(stack', visited')
    BY <1>1, PopLine DEF SearchInv
  <2>2. Line(stack, visited)'
    BY <1>1, <2>1, SameLine
  <2>3. GoodBoard(root')
    BY <1>1 DEF SearchInv
  <2>4. phase' = "play" => visited' = {} /\ stack' = << >>
    BY <1>1 DEF SearchInv
  <2>5. /\ phase' \in {"play", "search", "answered"}
        /\ result' \in {"none", "Winnable", "Unwinnable", "Inconclusive"}
        /\ first_move' \in Move \cup {NoMove}
    BY <1>1 DEF SearchInv
  <2>6. /\ draw_count' \in DrawCounts
        /\ config' \in Config \cup {[moves |-> 0, states |-> 0]}
        /\ moves_consumed' \in 0 .. config'.moves
        /\ IsFiniteSet(visited') /\ Cardinality(visited') <= config'.states
    BY <1>1 DEF SearchInv
  <2> QED
    BY <2>2, <2>3, <2>4, <2>5, <2>6 DEF SearchInv
<1>2. CASE Play
  BY <1>2, PlayKeeps
<1>3. CASE \E c \in Config : Ask(c)
  BY <1>3, AskKeeps
<1>4. CASE GiveUp
  BY <1>1, <1>4 DEF GiveUp, Answer
<1>5. CASE Backtrack
  BY <1>1, <1>5 DEF Backtrack, Popped, Searching
<1>6. CASE Try
  BY <1>6, TryKeeps
<1>7. CASE Exhausted
  BY <1>1, <1>7 DEF Exhausted, Answer
<1>8. CASE UNCHANGED solverVars
  BY <1>1, <1>8 DEF solverVars
<1> QED
  BY <1>2, <1>3, <1>4, <1>5, <1>6, <1>7, <1>8 DEF SolverNext, SearchStep

(* Whatever the deck and the budgets, the line the solver is searching is  *)
(* one the live game would play: every frame's board follows from the one  *)
(* below by a move the game accepts, without a card taken back, no board   *)
(* comes twice, and neither budget is overrun (solve, enumerate_moves and  *)
(* apply_move of solver.rs against the rules of game_state.rs).            *)
THEOREM StackIsPlayCorrect == SolverSpec => []StackIsPlay
<1>1. SearchInv => StackIsPlay
  <2> SUFFICES ASSUME SearchInv
               PROVE  StackIsPlay
    OBVIOUS
  <2>1. SolverTypeOK
    BY DEF SearchInv, SolverTypeOK, Line, GoodBoard
  <2> QED
    BY <2>1 DEF SearchInv, StackIsPlay, Line
<1>2. QED
  BY <1>1, InitSearchInv, NextSearchInv, PTL DEF SolverSpec

---------------------------------------------------------------------------
(* The verdict Winnable.                                                   *)

(* A play from the root to a won board, without a card taken back from a   *)
(* foundation, that begins with the move.                                  *)
WinsWith(line, mv) ==
  /\ line \in Seq(Boards)
  /\ Len(line) >= 2
  /\ line[1] = root
  /\ Plays(root, mv, line[2])
  /\ \A k \in 1 .. Len(line) - 1 :
       line[k + 1] \in PlaySteps(line[k], draw_count, FALSE)
  /\ CheckWin(line[Len(line)])

WinnableIsRight ==
  result = "Winnable" => CheckWin(root) \/ \E line : WinsWith(line, first_move)

WinInv == (phase # "answered" => result = "none") /\ WinnableIsRight

(* The boards of a line of play and one more board that is won.            *)
LEMMA LineWins ==
  ASSUME NEW s, NEW met, Line(s, met), s # << >>,
         NEW won, won \in Boards, CheckWin(won),
         won \in PlaySteps(Last(s).state, draw_count, FALSE),
         NEW mv, Plays(root, mv, IF Len(s) = 1 THEN won ELSE s[2].state)
  PROVE  \E line : WinsWith(line, mv)
<1> DEFINE n    == Len(s)
           line == [k \in 1 .. n + 1 |-> IF k = n + 1 THEN won ELSE s[k].state]
<1>1. s \in Seq(Frame) /\ n \in Nat \ {0} /\ Last(s) = s[n]
  BY EmptySeq, LenProperties DEF Line, Last
<1>2. \A k \in 1 .. n : s[k] \in Frame
  BY <1>1, ElementOfSeq
<1>3. \A k \in 1 .. n : s[k].state \in Boards
  BY <1>2 DEF Frame
<1>4. s[1].state = root
  BY DEF Line
<1>5. \A k \in 1 .. n - 1 : s[k + 1].state \in PlaySteps(s[k].state, draw_count, FALSE)
  BY DEF Line
<1> HIDE DEF n
<1>6. /\ \A k \in 1 .. n + 1 : line[k] = IF k = n + 1 THEN won ELSE s[k].state
      /\ line \in [1 .. n + 1 -> Boards]
  <2>1. \A k \in 1 .. n + 1 : k = n + 1 \/ k \in 1 .. n
    BY <1>1
  <2> QED
    BY <1>3, <2>1
<1> HIDE DEF line
<1>7. line \in Seq(Boards) /\ Len(line) = n + 1 /\ n + 1 >= 2
  BY <1>1, <1>6, SeqOfFunction
<1>8. line[n + 1] = won /\ \A k \in 1 .. n : line[k] = s[k].state
  BY <1>1, <1>6
<1>9. line[1] = root
  BY <1>1, <1>4, <1>8
<1>10. Plays(root, mv, line[2])
  <2>1. line[2] = IF n = 1 THEN won ELSE s[2].state
    BY <1>1, <1>8
  <2> QED
    BY <2>1 DEF n
<1>11. ASSUME NEW k \in 1 .. n
       PROVE  line[k + 1] \in PlaySteps(line[k], draw_count, FALSE)
  <2>1. CASE k = n
    BY <1>1, <1>8, <2>1
  <2>2. CASE k # n
    <3>1. k \in 1 .. n - 1 /\ k + 1 \in 1 .. n
      BY <1>1, <2>2
    <3> QED
      BY <1>5, <1>8, <3>1
  <2> QED
    BY <2>1, <2>2
<1>12. (n + 1) - 1 = n
  BY <1>1
<1> QED
  BY <1>7, <1>8, <1>9, <1>10, <1>11, <1>12 DEF WinsWith

LEMMA NextWinInv == SearchInv /\ WinInv /\ [SolverNext]_solverVars => WinInv'
<1> SUFFICES ASSUME SearchInv, WinInv, [SolverNext]_solverVars
             PROVE  WinInv'
  OBVIOUS
<1>1. ASSUME root' = root, draw_count' = draw_count
      PROVE  \A line, mv : WinsWith(line, mv) /\ mv = first_move'
                            => WinsWith(line, first_move)'
  <2>1. \A p, m, q : Plays(p, m, q)' <=> Plays(p, m, q)
    BY <1>1 DEF Plays
  <2> QED
    BY <1>1, <2>1 DEF WinsWith
<1>2. CASE Play
  BY <1>2 DEF WinInv, WinnableIsRight, Play, search
<1>3. CASE \E c \in Config : Ask(c)
  BY <1>3 DEF WinInv, WinnableIsRight, Ask, Answer
<1>4. CASE GiveUp
  BY <1>4 DEF WinInv, WinnableIsRight, GiveUp, Answer
<1>5. CASE Backtrack
  BY <1>5 DEF WinInv, WinnableIsRight, Backtrack, Searching
<1>6. CASE Try
  <2> DEFINE frame == Last(stack)
             m     == Head(frame.pending)
             next  == AfterSolverMove(frame.state, m)
             mv    == RootMoveOfChild(frame, m)
  <2>1. /\ phase = "search" /\ stack # << >> /\ frame.pending # << >>
        /\ root' = root /\ draw_count' = draw_count
        /\ \/ CheckWin(next) /\ phase' = "answered" /\ first_move' = mv
           \/ phase' = phase /\ result' = result
    BY <1>6 DEF Try, Searching, Answer
  <2>2. Line(stack, visited) /\ draw_count \in DrawCounts
    BY DEF SearchInv
  <2>3. /\ next \in PlaySteps(frame.state, draw_count, FALSE)
        /\ GoodBoard(next)
        /\ Plays(root, mv, IF Len(stack) = 1 THEN next ELSE stack[2].state)
    <3> HIDE DEF next, mv, m
    <3> QED
      BY <2>1, <2>2, MadeMove DEF next, mv, m
  <2> HIDE DEF next, mv, m
  <2>4. CASE CheckWin(next) /\ phase' = "answered" /\ first_move' = mv
    <3>1. next \in Boards
      BY <2>3 DEF GoodBoard
    <3>2. \E line : WinsWith(line, mv)
      BY <2>1, <2>2, <2>3, <2>4, <3>1, LineWins
    <3>3. \E line : WinsWith(line, first_move)'
      BY <1>1, <2>1, <2>4, <3>2
    <3> QED
      BY <2>4, <3>3 DEF WinInv, WinnableIsRight
  <2>5. CASE phase' = phase /\ result' = result
    BY <2>1, <2>5 DEF WinInv, WinnableIsRight
  <2> QED
    BY <2>1, <2>4, <2>5
<1>7. CASE Exhausted
  BY <1>7 DEF WinInv, WinnableIsRight, Exhausted, Answer
<1>8. CASE UNCHANGED solverVars
  BY <1>1, <1>8 DEF WinInv, WinnableIsRight, solverVars
<1> QED
  BY <1>2, <1>3, <1>4, <1>5, <1>6, <1>7, <1>8 DEF SolverNext, SearchStep

(* Winnable is never wrong, whatever the deck and the budgets: the board   *)
(* is won, or some play wins it without a card taken back and begins with  *)
(* the move the solver gives (the hint, or the deal called winnable).      *)
THEOREM WinnableCorrect == SolverSpec => []WinnableIsRight
<1>1. SolverInit => WinInv
  BY DEF SolverInit, WinInv, WinnableIsRight
<1>2. WinInv => WinnableIsRight
  BY DEF WinInv
<1> QED
  BY <1>1, <1>2, InitSearchInv, NextSearchInv, NextWinInv, PTL DEF SolverSpec

---------------------------------------------------------------------------
(* Boards that differ in the order of columns and of slots only.           *)

(* A way to rename the piles, columns among themselves and slots as well.  *)
Renaming(f) ==
  /\ f[Stock] = Stock /\ f[Waste] = Waste
  /\ \A t \in PileType : f[t] \in PileType
  /\ \A t \in Tableaus : f[t] \in Tableaus
  /\ \A t \in Foundations : f[t] \in Foundations
  /\ \A u \in Foundations : \E t \in Foundations : f[t] = u
  /\ \A t, u \in PileType : f[t] = f[u] => t = u

(* q is p with its columns, and its slots, in another order.               *)
Twin(p, q) == \E f : Renaming(f) /\ \A t \in PileType : p[f[t]] = q[t]

(* A board is its own twin, and a twin of a twin is one.                   *)
LEMMA TwinSame == ASSUME NEW p PROVE Twin(p, p)
<1> DEFINE f == [t \in PileType |-> t]
<1>1. \A t \in PileType : f[t] = t
  OBVIOUS
<1> HIDE DEF f
<1>2. Renaming(f) /\ \A t \in PileType : p[f[t]] = p[t]
  BY <1>1, PileKinds DEF Renaming
<1> QED
  BY <1>2 DEF Twin

LEMMA TwinOfTwin ==
  ASSUME NEW p, NEW q, NEW r, Twin(p, q), Twin(q, r)
  PROVE  Twin(p, r)
<1>1. PICK f : Renaming(f) /\ \A t \in PileType : p[f[t]] = q[t]
  BY DEF Twin
<1>2. PICK g : Renaming(g) /\ \A t \in PileType : q[g[t]] = r[t]
  BY DEF Twin
<1> DEFINE h == [t \in PileType |-> f[g[t]]]
<1>3. \A t \in PileType : h[t] = f[g[t]]
  OBVIOUS
<1> HIDE DEF h
<1>4. \A t \in PileType : g[t] \in PileType
  BY <1>2 DEF Renaming
<1>5. Renaming(h)
  <2>1. h[Stock] = Stock /\ h[Waste] = Waste
    BY <1>1, <1>2, <1>3, PileKinds DEF Renaming
  <2>2. /\ \A t \in PileType : h[t] \in PileType
        /\ \A t \in Tableaus : h[t] \in Tableaus
        /\ \A t \in Foundations : h[t] \in Foundations
    <3>1. /\ \A t \in PileType : f[t] \in PileType
          /\ \A t \in Tableaus : f[t] \in Tableaus /\ g[t] \in Tableaus
          /\ \A t \in Foundations : f[t] \in Foundations /\ g[t] \in Foundations
      BY <1>1, <1>2 DEF Renaming
    <3>2. Tableaus \subseteq PileType /\ Foundations \subseteq PileType
      BY PileKinds
    <3> QED
      BY <1>3, <1>4, <3>1, <3>2
  <2>3. ASSUME NEW u \in Foundations
        PROVE  \E t \in Foundations : h[t] = u
    <3>1. PICK v \in Foundations : f[v] = u
      BY <1>1 DEF Renaming
    <3>2. PICK t \in Foundations : g[t] = v
      BY <1>2 DEF Renaming
    <3> QED
      BY <1>3, <3>1, <3>2, PileKinds
  <2>4. \A t, u \in PileType : h[t] = h[u] => t = u
    BY <1>1, <1>2, <1>3, <1>4 DEF Renaming
  <2> QED
    BY <2>1, <2>2, <2>3, <2>4 DEF Renaming
<1>6. \A t \in PileType : p[h[t]] = r[t]
  BY <1>1, <1>2, <1>3, <1>4
<1> QED
  BY <1>5, <1>6 DEF Twin

(* Two columns, or two slots, change places.                               *)
LEMMA TwinSwapped ==
  ASSUME NEW p, NEW q, NEW S \in {Tableaus, Foundations}, NEW a \in S, NEW b \in S,
         p[a] = q[b], p[b] = q[a],
         \A t \in PileType : t # a /\ t # b => p[t] = q[t]
  PROVE  Twin(p, q)
<1> DEFINE f == [t \in PileType |-> IF t = a THEN b ELSE IF t = b THEN a ELSE t]
<1>1. \A t \in PileType : f[t] = IF t = a THEN b ELSE IF t = b THEN a ELSE t
  OBVIOUS
<1> HIDE DEF f
<1>2. a \in PileType /\ b \in PileType
  BY PileKinds
<1>3. Renaming(f)
  <2>1. f[Stock] = Stock /\ f[Waste] = Waste
    BY <1>1, PileKinds
  <2>2. \A t \in PileType : f[t] \in PileType
    BY <1>1, <1>2
  <2>3. \A t \in Tableaus : f[t] \in Tableaus
    BY <1>1, PileKinds
  <2>4. \A t \in Foundations : f[t] \in Foundations
    BY <1>1, PileKinds
  <2>5. ASSUME NEW u \in Foundations
        PROVE  \E t \in Foundations : f[t] = u
    <3>1. f[f[u]] = u /\ f[u] \in Foundations
      BY <1>1, <1>2, <2>4, PileKinds
    <3> QED
      BY <3>1
  <2>6. \A t, u \in PileType : f[t] = f[u] => t = u
    BY <1>1, <1>2
  <2> QED
    BY <2>1, <2>2, <2>3, <2>4, <2>5, <2>6 DEF Renaming
<1>4. \A t \in PileType : p[f[t]] = q[t]
  BY <1>1, <1>2
<1> QED
  BY <1>3, <1>4 DEF Twin

(* Twins are won together.                                                 *)
LEMMA TwinWon ==
  ASSUME NEW p, NEW q, Twin(p, q), CheckWin(q)
  PROVE  CheckWin(p)
<1>1. PICK f : Renaming(f) /\ \A t \in PileType : p[f[t]] = q[t]
  BY DEF Twin
<1>2. ASSUME NEW i \in Slots
      PROVE  IsValidFoundationPile(p[Foundation(i)])
  <2>1. PICK t \in Foundations : f[t] = Foundation(i)
    BY <1>1, PileKinds DEF Renaming
  <2>2. PICK j \in Slots : t = Foundation(j)
    BY DEF Foundations
  <2>3. p[Foundation(i)] = q[Foundation(j)]
    BY <1>1, <2>1, <2>2, PileKinds
  <2> QED
    BY <2>3 DEF CheckWin
<1> QED
  BY <1>2 DEF CheckWin

(* What a move, a draw and a recycle leave in each pile.                   *)
LEMMA MovedPiles ==
  ASSUME NEW p \in Boards, NEW from \in PileType, NEW to \in PileType, from # to, NEW n
  PROVE  \A t \in PileType :
           AfterMove(p, from, to, n)[t] =
             IF t = from THEN FlipTop(DropCards(p[from], n))
             ELSE IF t = to THEN p[to] \o TopCards(p[from], n) ELSE p[t]
BY DEF AfterMove, Boards

LEMMA DrawnPiles ==
  ASSUME NEW p \in Boards, NEW n,
         NEW k, k = IF Len(p[Stock]) < n THEN Len(p[Stock]) ELSE n
  PROVE  \A t \in PileType :
           AfterDraw(p, n)[t] =
             IF t = Stock THEN DropCards(p[Stock], k)
             ELSE IF t = Waste THEN p[Waste] \o Facing(TopCards(p[Stock], k), TRUE)
             ELSE p[t]
BY PileKinds DEF AfterDraw, Boards

LEMMA RecycledPiles ==
  ASSUME NEW p \in Boards
  PROVE  \A t \in PileType :
           AfterRecycle(p)[t] =
             IF t = Stock THEN p[Stock] \o Facing(Reverse(p[Waste]), FALSE)
             ELSE IF t = Waste THEN << >> ELSE p[t]
BY PileKinds DEF AfterRecycle, Boards

(* A step of play from a board has a twin from each of its twins.          *)
LEMMA TwinStep ==
  ASSUME NEW p, NEW q, GoodBoard(p), GoodBoard(q), Twin(p, q), ~ CheckWin(p),
         NEW n, NEW r \in PlaySteps(q, n, FALSE)
  PROVE  \E s \in PlaySteps(p, n, FALSE) : Twin(s, r)
<1>1. PICK f : Renaming(f) /\ \A t \in PileType : p[f[t]] = q[t]
  BY DEF Twin
<1>2. p \in Boards /\ q \in Boards
  BY DEF GoodBoard
<1>3. /\ \A t \in PileType : f[t] \in PileType
      /\ \A t, u \in PileType : f[t] = f[u] => t = u
      /\ f[Stock] = Stock /\ f[Waste] = Waste
      /\ p[Stock] = q[Stock] /\ p[Waste] = q[Waste]
  BY <1>1, PileKinds DEF Renaming
<1>3a. \A t \in PileType : (f[t] = Stock <=> t = Stock) /\ (f[t] = Waste <=> t = Waste)
  BY <1>3, PileKinds
<1>4. ASSUME NEW m \in PossibleInstructions(q, FALSE), r = AfterMove(q, m[1], m[2], m[3])
      PROVE  \E s \in PlaySteps(p, n, FALSE) : Twin(s, r)
  <2>1. PICK from, to, k : m = <<from, to, k>> /\ Offered(q, FALSE, from, to, k)
    BY InstructionsOffered
  <2>2. from \in PileType /\ to \in PileType /\ from # to
    BY <2>1, PileKinds DEF Offered
  <2> DEFINE w == <<f[from], f[to], k>>
             s == AfterMove(p, f[from], f[to], k)
  <2>3. /\ f[from] \in PileType /\ f[to] \in PileType /\ f[from] # f[to]
        /\ p[f[from]] = q[from] /\ p[f[to]] = q[to]
    BY <1>1, <1>3, <2>2
  <2>4. Offered(p, FALSE, f[from], f[to], k)
    <3>1. /\ from = Waste => f[from] = Waste
          /\ from \in Tableaus => f[from] \in Tableaus
          /\ to \in Tableaus => f[to] \in Tableaus
          /\ to \in Foundations => f[to] \in Foundations
      BY <1>1 DEF Renaming
    <3> QED
      BY <2>1, <2>3, <3>1 DEF Offered
  <2>5. w \in PossibleInstructions(p, FALSE)
    BY <2>4, InstructionsOffered
  <2>6. w[1] = f[from] /\ w[2] = f[to] /\ w[3] = k
    OBVIOUS
  <2>7. s \in PlaySteps(p, n, FALSE)
    <3> HIDE DEF w
    <3>1. s = AfterMove(p, w[1], w[2], w[3])
      BY <2>6
    <3> QED
      BY <2>5, <3>1 DEF PlaySteps
  <2>8. r = AfterMove(q, from, to, k)
    BY <1>4, <2>1
  <2>9. \A t \in PileType : s[f[t]] = r[t]
    <3>1. \A t \in PileType :
            r[t] = IF t = from THEN FlipTop(DropCards(q[from], k))
                   ELSE IF t = to THEN q[to] \o TopCards(q[from], k) ELSE q[t]
      BY <1>2, <2>2, <2>8, MovedPiles
    <3>2. \A t \in PileType :
            s[t] = IF t = f[from] THEN FlipTop(DropCards(q[from], k))
                   ELSE IF t = f[to] THEN q[to] \o TopCards(q[from], k) ELSE p[t]
      BY <1>2, <2>3, MovedPiles
    <3> HIDE DEF s
    <3> QED
      BY <1>1, <1>3, <2>2, <3>1, <3>2
  <2> HIDE DEF s
  <2>10. Twin(s, r)
    BY <1>1, <2>9 DEF Twin
  <2> QED
    BY <2>7, <2>10
<1>5. CASE q[Stock] # << >> /\ r = AfterDraw(q, n)
  <2> DEFINE s == AfterDraw(p, n)
             k == IF Len(q[Stock]) < n THEN Len(q[Stock]) ELSE n
  <2>1. s \in PlaySteps(p, n, FALSE)
    BY <1>3, <1>5 DEF PlaySteps
  <2>2. \A t \in PileType : s[f[t]] = r[t]
    <3>1. \A t \in PileType :
            r[t] = IF t = Stock THEN DropCards(q[Stock], k)
                   ELSE IF t = Waste THEN q[Waste] \o Facing(TopCards(q[Stock], k), TRUE)
                   ELSE q[t]
      BY <1>2, <1>5, DrawnPiles
    <3>2. \A t \in PileType :
            s[t] = IF t = Stock THEN DropCards(p[Stock], k)
                   ELSE IF t = Waste THEN p[Waste] \o Facing(TopCards(p[Stock], k), TRUE)
                   ELSE p[t]
      <4>1. k = IF Len(p[Stock]) < n THEN Len(p[Stock]) ELSE n
        BY <1>3
      <4> HIDE DEF k
      <4> QED
        BY <1>2, <4>1, DrawnPiles
    <3> HIDE DEF s, k
    <3> QED
      BY <1>1, <1>3, <1>3a, <3>1, <3>2
  <2> HIDE DEF s
  <2>3. Twin(s, r)
    BY <1>1, <2>2 DEF Twin
  <2> QED
    BY <2>1, <2>3
<1>6. CASE q[Stock] = << >> /\ q[Waste] # << >> /\ r = AfterRecycle(q)
  <2> DEFINE s == AfterRecycle(p)
  <2>1. s \in PlaySteps(p, n, FALSE)
    BY <1>3, <1>6 DEF PlaySteps
  <2>2. \A t \in PileType : s[f[t]] = r[t]
    <3>1. \A t \in PileType :
            r[t] = IF t = Stock THEN q[Stock] \o Facing(Reverse(q[Waste]), FALSE)
                   ELSE IF t = Waste THEN << >> ELSE q[t]
      BY <1>2, <1>6, RecycledPiles
    <3>2. \A t \in PileType :
            s[t] = IF t = Stock THEN q[Stock] \o Facing(Reverse(q[Waste]), FALSE)
                   ELSE IF t = Waste THEN << >> ELSE p[t]
      BY <1>2, <1>3, RecycledPiles
    <3> HIDE DEF s
    <3> QED
      BY <1>1, <1>3, <1>3a, <3>1, <3>2
  <2> HIDE DEF s
  <2>3. Twin(s, r)
    BY <1>1, <2>2 DEF Twin
  <2> QED
    BY <2>1, <2>3
<1> QED
  BY <1>4, <1>5, <1>6 DEF PlaySteps

(* Play leaves every card in one place.                                    *)
LEMMA PlayOnePlace ==
  ASSUME NEW p, GoodBoard(p), OnePlace(p), NEW n \in Nat, NEW tb \in BOOLEAN,
         NEW q \in PlaySteps(p, n, tb)
  PROVE  OnePlace(q)
<1>1. \/ \E m \in PossibleInstructions(p, tb) : q = AfterMove(p, m[1], m[2], m[3])
      \/ q = AfterDraw(p, n)
      \/ p[Stock] = << >> /\ q = AfterRecycle(p)
  BY DEF PlaySteps
<1>2. ASSUME NEW m \in PossibleInstructions(p, tb), q = AfterMove(p, m[1], m[2], m[3])
      PROVE  OnePlace(q)
  <2>1. PICK from, to, k : m = <<from, to, k>> /\ Offered(p, tb, from, to, k)
    BY InstructionsOffered
  <2>2. from \in PileType /\ to \in PileType /\ k \in 1 .. Len(p[from])
    BY <2>1, OfferedInRange
  <2>3. MoveAllowed(p, tb, from, to, k)
    BY <2>1, <2>2, OfferedIsAllowed
  <2>4. q = AfterMove(p, from, to, k)
    BY <1>2, <2>1
  <2> QED
    BY <2>2, <2>3, <2>4, MoveOnePlace
<1> QED
  BY <1>1, <1>2, DrawOnePlace, RecycleOnePlace

(* What a draw makes of the board, or a recycle of an empty stock.         *)
AfterStock(p) == IF p[Stock] # << >> THEN AfterDraw(p, draw_count) ELSE AfterRecycle(p)

(* The first of some slots is one of them.                                 *)
LEMMA FirstInFacts ==
  ASSUME NEW S \in SUBSET Slots, S # {}
  PROVE  FirstIn(S) \in S
<1>1. S \in SUBSET Nat
  BY PilesAssumption DEF Slots
<1>2. \E i \in S : \A j \in S : i <= j
  BY <1>1, LeastNatural
<1> QED
  BY <1>2 DEF FirstIn

(* A move that is no draw is made as the game makes it.                    *)
LEMMA MadeByMove ==
  ASSUME NEW p, NEW from \in Tableaus \cup {Waste}, NEW to, NEW n
  PROVE  AfterSolverMove(p, <<from, to, n>>) = AfterMove(p, from, to, n)
<1> DEFINE m == <<from, to, n>>
<1>1. m[1] = from /\ m[2] = to /\ m[3] = n /\ from # Stock
  BY PileKinds
<1> HIDE DEF m
<1>2. AfterSolverMove(p, m) = AfterMove(p, from, to, n)
  BY <1>1 DEF AfterSolverMove, IsDraw
<1> QED
  BY <1>2 DEF m

(* A card that goes to a foundation: the solver takes it to the slot of    *)
(* its suit, or to the first empty slot, of which the game has the choice. *)
LEMMA SlotCovered ==
  ASSUME NEW p, GoodBoard(p), OnePlace(p), NEW draws,
         NEW from \in Tableaus \cup {Waste}, p[from] # << >>,
         NEW to \in Foundations, CanPlaceOnFoundation(Last(p[from]), p[to])
  PROVE  \E m : /\ Listed(m, EnumerateMoves(p, draws))
                /\ Twin(AfterSolverMove(p, m), AfterMove(p, from, to, 1))
<1> DEFINE s    == p[from]
           card == Last(s)
<1>1. PICK j \in Slots : to = Foundation(j)
  BY DEF Foundations
<1>2. /\ from \in PileType /\ from \notin Foundations
      /\ \A i \in Slots : Foundation(i) \in Foundations /\ Foundation(i) \in PileType
      /\ \A i, k \in Slots : Foundation(i) = Foundation(k) => i = k
  BY PileKinds DEF Foundation
<1>3. /\ s \in Seq(Card) /\ Len(s) \in Nat /\ Len(s) \in 1 .. Len(s)
      /\ s[Len(s)] = card
  BY <1>2, LenProperties, EmptySeq DEF GoodBoard, GoodPile, Last
<1>4. card \in Card /\ card.up /\ card.suit \in Suits /\ card.rank \in 1 .. King
  <2>1. card \in Card
    BY <1>3, ElementOfSeq
  <2>2. from = Waste => card.up
    BY <1>2, <1>3 DEF GoodBoard, GoodPile
  <2>3. from \in Tableaus => card.up
    BY <1>2 DEF GoodBoard, GoodPile, ColumnBuilt
  <2> QED
    BY <2>1, <2>2, <2>3 DEF Card, Ranks, Ace
<1> DEFINE f == [suit |-> card.suit, rank |-> 1]
<1>5. f \in Face /\ f.suit = card.suit /\ f.rank = 1
  BY <1>4, RanksAssumption DEF Face, Ranks, Ace
<1>6. ASSUME NEW i \in Slots, p[Foundation(i)] # << >>
      PROVE  /\ 1 \in 1 .. Len(p[Foundation(i)])
             /\ Len(p[Foundation(i)]) \in Nat
             /\ p[Foundation(i)][1].rank = 1
             /\ Last(p[Foundation(i)]).suit = p[Foundation(i)][1].suit
             /\ Last(p[Foundation(i)]).rank = Len(p[Foundation(i)])
  <2> DEFINE w == p[Foundation(i)]
  <2>1. w \in Seq(Card) /\ FoundationBuilt(w)
    BY <1>2 DEF GoodBoard, GoodPile
  <2>2. Len(w) \in Nat /\ 1 \in 1 .. Len(w) /\ Len(w) \in 1 .. Len(w)
    BY <1>6, <2>1, LenProperties, EmptySeq
  <2> HIDE DEF w
  <2>3. w[1].rank = 1 /\ w[Len(w)].rank = Len(w) /\ w[Len(w)].suit = w[1].suit
    BY <2>1, <2>2 DEF FoundationBuilt
  <2> QED
    BY <2>2, <2>3 DEF Last, w
<1> DEFINE Claims(i) == p[Foundation(i)] # << >> /\ p[Foundation(i)][1].suit = card.suit
           claimed == {i \in Slots : Claims(i)}
           empty == {i \in Slots : p[Foundation(i)] = << >>}
<1>7. TargetFoundationSlot(p, card.suit) =
        IF claimed # {} THEN {FirstIn(claimed)}
        ELSE IF empty # {} THEN {FirstIn(empty)} ELSE {}
  BY DEF TargetFoundationSlot
<1>8. ASSUME NEW i \in claimed
      PROVE  1 \in 1 .. Len(p[Foundation(i)]) /\ SameFace(p[Foundation(i)][1], f)
  BY <1>5, <1>6 DEF SameFace
<1>9. ASSUME NEW i \in SlotsTaking(p, from)
      PROVE  Listed(<<from, Foundation(i), 1>>, EnumerateMoves(p, draws))
  BY <1>4, SlotListed
<1>10. SlotsTaking(p, from) = {i \in TargetFoundationSlot(p, card.suit) :
                                CanPlaceOnFoundation(card, p[Foundation(i)])}
  BY DEF SlotsTaking
<1> HIDE DEF card, s, f
<1>11. \A i, k \in claimed : i = k
  <2>1. ASSUME NEW i \in claimed, NEW k \in claimed
        PROVE  Foundation(i) = Foundation(k)
    BY <1>2, <1>5, <1>8 DEF OnePlace
  <2> QED
    BY <1>2, <2>1
<1>12. CASE card.rank # 1
  <2>1. p[to] # << >>
    BY <1>12 DEF CanPlaceOnFoundation, Ace, card, s
  <2>2. j \in claimed
    <3>1. card.suit = Last(p[to]).suit
      BY <2>1 DEF CanPlaceOnFoundation, card, s
    <3> QED
      BY <1>1, <1>6, <2>1, <3>1
  <2>3. FirstIn(claimed) = j
    <3>1. FirstIn(claimed) \in claimed
      BY <2>2, FirstInFacts
    <3> HIDE DEF claimed
    <3> QED
      BY <1>11, <2>2, <3>1
  <2>4. j \in SlotsTaking(p, from)
    <3> HIDE DEF claimed
    <3>1. TargetFoundationSlot(p, card.suit) = {j}
      BY <1>7, <2>2, <2>3
    <3> QED
      BY <1>1, <1>10, <3>1 DEF card, s
  <2>5. Listed(<<from, to, 1>>, EnumerateMoves(p, draws))
    BY <1>1, <1>9, <2>4
  <2>6. Twin(AfterSolverMove(p, <<from, to, 1>>), AfterMove(p, from, to, 1))
    BY MadeByMove, TwinSame
  <2> QED
    BY <2>5, <2>6
<1>13. CASE card.rank = 1
  <2>1. p[to] = << >>
    <3>1. ASSUME p[to] # << >>
          PROVE  FALSE
      <4>1. card.rank - 1 = Last(p[to]).rank
        BY <3>1 DEF CanPlaceOnFoundation, card, s
      <4>2. Last(p[to]).rank = Len(p[to]) /\ 1 \in 1 .. Len(p[to]) /\ Len(p[to]) \in Nat
        BY <1>1, <1>6, <3>1
      <4> QED
        BY <1>13, <4>1, <4>2
    <3> QED
      BY <3>1
  <2>2. claimed = {}
    <3>1. ASSUME NEW i \in claimed
          PROVE  FALSE
      <4>1. SameFace(s[Len(s)], f)
        BY <1>3, <1>5, <1>13 DEF SameFace
      <4>2. Foundation(i) = from
        BY <1>2, <1>3, <1>5, <1>8, <4>1 DEF OnePlace, s
      <4> QED
        BY <1>2, <4>2
    <3> QED
      BY <3>1
  <2>3. j \in empty
    BY <1>1, <2>1
  <2> DEFINE i == FirstIn(empty)
  <2>4. i \in empty
    BY <2>3, FirstInFacts
  <2>5. i \in Slots /\ p[Foundation(i)] = << >>
    BY <2>4
  <2>6. i \in SlotsTaking(p, from)
    <3>1. TargetFoundationSlot(p, card.suit) = {i}
      <4> HIDE DEF claimed, empty
      <4> QED
        BY <1>7, <2>2, <2>3
    <3>2. CanPlaceOnFoundation(card, p[Foundation(i)])
      BY <1>13, <2>5 DEF CanPlaceOnFoundation, Ace
    <3> HIDE DEF i, empty, claimed
    <3> QED
      BY <1>10, <3>1, <3>2
  <2> HIDE DEF i, empty, claimed, Claims
  <2> DEFINE m == <<from, Foundation(i), 1>>
  <2>7. Listed(m, EnumerateMoves(p, draws))
    BY <1>9, <2>6
  <2> DEFINE q == AfterMove(p, from, Foundation(i), 1)
             r == AfterMove(p, from, to, 1)
             a == Foundation(i)
  <2>8. AfterSolverMove(p, m) = q
    BY MadeByMove
  <2> HIDE DEF m
  <2>8a. q = AfterMove(p, from, a, 1)
    OBVIOUS
  <2>9. a \in Foundations /\ a \in PileType /\ to \in PileType /\ from # a /\ from # to
        /\ p[a] = << >>
    BY <1>1, <1>2, <2>5
  <2> HIDE DEF a
  <2>10. p \in Boards
    BY DEF GoodBoard
  <2> HIDE DEF q
  <2>11a. \A t \in PileType :
              q[t] = IF t = from THEN FlipTop(DropCards(p[from], 1))
                     ELSE IF t = a THEN p[a] \o TopCards(p[from], 1) ELSE p[t]
    <3>1. a \in PileType /\ from \in PileType /\ from # a
      BY <1>2, <2>9
    <3> QED
      BY <2>8a, <2>10, <3>1, MovedPiles
  <2>11. \A t \in PileType :
              r[t] = IF t = from THEN FlipTop(DropCards(p[from], 1))
                     ELSE IF t = to THEN p[to] \o TopCards(p[from], 1) ELSE p[t]
    BY <1>2, <2>9, <2>10, MovedPiles
  <2> HIDE DEF q, r
  <2>12. Twin(q, r)
    <3>1. CASE a = to
      <4>1. q = r
        BY <2>8a, <3>1 DEF r
      <4> QED
        BY <4>1, TwinSame
    <3>2. CASE a # to
      <4>1. q[a] = r[to] /\ q[to] = r[a]
        BY <2>1, <2>9, <2>11, <2>11a, <3>2
      <4>2. \A t \in PileType : t # a /\ t # to => q[t] = r[t]
        BY <2>11, <2>11a
      <4> QED
        BY <2>9, <4>1, <4>2, TwinSwapped
    <3> QED
      BY <3>1, <3>2
  <2>13. Twin(AfterSolverMove(p, m), r)
    BY <2>8, <2>12
  <2> QED
    BY <2>7, <2>13 DEF r
<1> QED
  BY <1>12, <1>13

(* A run that goes to a column: only a king's whole column that would go   *)
(* to an empty one is left out, and the board is a twin of what it would be.*)
LEMMA RunCovered ==
  ASSUME NEW p, GoodBoard(p), NEW draws,
         NEW from \in Tableaus \cup {Waste}, NEW to \in Tableaus,
         NEW n, Offered(p, FALSE, from, to, n)
  PROVE  \/ Twin(p, AfterMove(p, from, to, n))
         \/ \E m : /\ Listed(m, EnumerateMoves(p, draws))
                   /\ Twin(AfterSolverMove(p, m), AfterMove(p, from, to, n))
<1>1. /\ from \in PileType /\ to \in PileType /\ n \in 1 .. Len(p[from])
      /\ to \notin Foundations /\ from \notin Foundations /\ p \in Boards
      /\ Waste \notin Tableaus
  BY OfferedInRange, PileKinds DEF GoodBoard
<1>2. MoveAllowed(p, FALSE, from, to, n)
  BY <1>1, OfferedIsAllowed
<1>3. /\ from # to
      /\ \A k \in 1 .. n : TopCards(p[from], n)[k].up
      /\ from = Waste => n = 1
      /\ CanPlaceOnTableau(p[from][Len(p[from]) - n + 1], p[to])
      /\ IsValidTableauSequence(TopCards(p[from], n))
  BY <1>1, <1>2 DEF MoveAllowed
<1>4. p[from] \in Seq(Card) /\ p[to] \in Seq(Card) /\ Len(p[from]) \in Nat
  BY <1>1, LenProperties DEF Boards
<1>5. CASE OnlyMovesKing(p, from, n, to)
  <2> DEFINE r == AfterMove(p, from, to, n)
             s == p[from]
  <2>1. from \in Tableaus /\ n = Len(s) /\ p[to] = << >>
    BY <1>5 DEF OnlyMovesKing
  <2> HIDE DEF s
  <2>1a. \A t \in PileType :
           r[t] = IF t = from THEN FlipTop(DropCards(s, n))
                  ELSE IF t = to THEN p[to] \o TopCards(s, n) ELSE p[t]
    BY <1>1, <1>3, MovedPiles DEF s
  <2> HIDE DEF r
  <2>2. /\ r[from] = FlipTop(DropCards(s, n)) /\ r[to] = p[to] \o TopCards(s, n)
        /\ \A t \in PileType : t # from /\ t # to => p[t] = r[t]
    BY <1>1, <1>3, <2>1a
  <2> USE DEF s
  <2> HIDE DEF r
  <2>3. r[from] = << >>
    <3>1. DropCards(s, n) \in Seq(Card) /\ Len(DropCards(s, n)) = 0
      BY <1>4, <2>1, DropCardsFacts
    <3>2. DropCards(s, n) = << >>
      BY <3>1, EmptySeq
    <3> QED
      BY <2>2, <3>2 DEF FlipTop
  <2>4. r[to] = s
    <3>1. n \in 0 .. Len(s)
      BY <1>4, <2>1
    <3>2. /\ TopCards(s, n) \in Seq(Card) /\ Len(TopCards(s, n)) = n
          /\ \A k \in 1 .. n : TopCards(s, n)[k] = s[Len(s) - n + k]
      BY <1>4, <3>1, TopCardsFacts
    <3>3. \A k \in 1 .. Len(s) : TopCards(s, n)[k] = s[k]
      <4>1. \A k \in 1 .. n : Len(s) - n + k = k
        BY <1>4, <2>1
      <4> QED
        BY <2>1, <3>2, <4>1
    <3>4. TopCards(s, n) = s
      <4> DEFINE w == TopCards(s, n)
      <4>1. w \in Seq(Card) /\ s \in Seq(Card) /\ Len(w) = Len(s)
            /\ \A k \in 1 .. Len(s) : w[k] = s[k]
        BY <1>4, <2>1, <3>2, <3>3
      <4> HIDE DEF w, s
      <4>2. w = s
        BY <4>1, SeqEqual
      <4> QED
        BY <4>2 DEF w
    <3> HIDE DEF s
    <3> QED
      BY <1>4, <2>1, <2>2, <3>4, ConcatEmptySeq DEF s
  <2>5. p[from] = r[to] /\ p[to] = r[from]
    BY <2>1, <2>3, <2>4
  <2>6. Twin(p, r)
    <3>1. Tableaus \in {Tableaus, Foundations}
      OBVIOUS
    <3> HIDE DEF s
    <3> QED
      BY <2>1, <2>2, <2>5, <3>1, TwinSwapped
  <2> QED
    BY <2>6 DEF r
<1>6. CASE ~ OnlyMovesKing(p, from, n, to)
  <2> DEFINE m == <<from, to, n>>
  <2>1. Useful(p, from, n, to)
    BY <1>3, <1>6 DEF Useful
  <2>2. Listed(m, EnumerateMoves(p, draws))
    <3>1. CASE from = Waste
      <4>1. n = 1 /\ p[Waste] # << >>
        BY <1>1, <1>3, <1>4, <3>1, EmptySeq
      <4> QED
        BY <2>1, <3>1, <4>1, WasteListed
    <3>2. CASE from \in Tableaus
      <4>1. n \in 1 .. LongestFaceUpRun(p[from])
        BY <1>1, <1>3, <1>4, LongestIsLongest
      <4> QED
        BY <2>1, <3>2, <4>1, RunListed
    <3> QED
      BY <3>1, <3>2
  <2>3. AfterSolverMove(p, m) = AfterMove(p, from, to, n)
    BY MadeByMove
  <2> HIDE DEF m
  <2>4. Twin(AfterSolverMove(p, m), AfterMove(p, from, to, n))
    BY <2>3, TwinSame
  <2> QED
    BY <2>2, <2>4
<1> QED
  BY <1>5, <1>6

(* Every step of play without a take-back is listed, but for a draw after  *)
(* a full cycle, up to the order of columns and of slots.                  *)
LEMMA EveryStepCovered ==
  ASSUME NEW p, GoodBoard(p), OnePlace(p), NEW draws,
         NEW r \in PlaySteps(p, draw_count, FALSE)
  PROVE  \/ Twin(p, r)
         \/ \E m : /\ Listed(m, EnumerateMoves(p, draws))
                   /\ Twin(AfterSolverMove(p, m), r)
         \/ /\ p[Stock] \o p[Waste] # << >> /\ r = AfterStock(p)
            /\ ~ DrawWorthwhile(p, draws)
<1>1. p[Stock] \in Seq(Card) /\ p[Waste] \in Seq(Card)
  BY PileKinds DEF GoodBoard, GoodPile
<1>2. ASSUME NEW x \in PossibleInstructions(p, FALSE), r = AfterMove(p, x[1], x[2], x[3])
      PROVE  \/ Twin(p, r)
             \/ \E m : /\ Listed(m, EnumerateMoves(p, draws))
                       /\ Twin(AfterSolverMove(p, m), r)
  <2>1. PICK from, to, n : x = <<from, to, n>> /\ Offered(p, FALSE, from, to, n)
    BY InstructionsOffered
  <2>2. r = AfterMove(p, from, to, n)
    BY <1>2, <2>1
  <2>3. from \in Tableaus \cup {Waste} /\ to \in Foundations \cup Tableaus
    BY <2>1 DEF Offered
  <2>4. CASE to \in Tableaus
    BY <2>1, <2>2, <2>3, <2>4, RunCovered
  <2>5. CASE to \in Foundations
    <3>1. to \notin Tableaus
      BY <2>5, PileKinds
    <3>2. n = 1 /\ CanPlaceOnFoundation(Last(p[from]), p[to])
      BY <2>1, <2>3, <3>1, PileKinds DEF Offered
    <3>3. from \in PileType /\ 1 \in 1 .. Len(p[from])
      BY <2>1, <3>2, OfferedInRange
    <3>4. p[from] # << >>
      BY <3>3
    <3> QED
      BY <2>2, <2>3, <2>5, <3>2, <3>4, SlotCovered
  <2> QED
    BY <2>3, <2>4, <2>5
<1>3. CASE p[Stock] \o p[Waste] # << >> /\ r = AfterStock(p)
  <2> DEFINE m == <<Stock, Waste, 1>>
  <2>1. CASE DrawWorthwhile(p, draws)
    <3>1. Listed(m, EnumerateMoves(p, draws))
      BY <2>1, DrawListed
    <3>2. m[1] = Stock
      OBVIOUS
    <3> HIDE DEF m
    <3>3. AfterSolverMove(p, m) = r
      BY <1>3, <3>2 DEF AfterSolverMove, IsDraw, AfterStock
    <3>4. Twin(AfterSolverMove(p, m), r)
      BY <3>3, TwinSame
    <3> QED
      BY <3>1, <3>4
  <2>2. CASE ~ DrawWorthwhile(p, draws)
    BY <1>3, <2>2
  <2> QED
    BY <2>1, <2>2
<1>4. \/ \E x \in PossibleInstructions(p, FALSE) : r = AfterMove(p, x[1], x[2], x[3])
      \/ p[Stock] \o p[Waste] # << >> /\ r = AfterStock(p)
  <2>1. p[Stock] # << >> \/ p[Waste] # << >> => p[Stock] \o p[Waste] # << >>
    BY <1>1
  <2> QED
    BY <2>1 DEF PlaySteps, AfterStock
<1> QED
  BY <1>2, <1>3, <1>4

---------------------------------------------------------------------------
(* Drawing in circles.  Read the stock from its bottom and then the waste  *)
(* from its top: a draw of n cards turns the last n before the cut around, *)
(* a recycle moves the cut to the end.  So all that changes from one pass  *)
(* to the next is that each group of n is turned around once more.         *)

Turns(n, T, c, z, d, y) ==
  IF c = 0 THEN d = T /\ y = z
  ELSE /\ d = IF c < n THEN 0 ELSE c - n
       /\ \A i \in 1 .. T : y[i] = IF d < i /\ i <= c THEN z[d + c + 1 - i] ELSE z[i]

(* Cut and order along a chain of draws.                                   *)
Circles(n, T, m, X, c, z) ==
  /\ c \in [0 .. m -> 0 .. T]
  /\ z \in [0 .. m -> [1 .. T -> X]]
  /\ \A k \in 1 .. m : Turns(n, T, c[k - 1], z[k - 1], c[k], z[k])

(* Where card i of h lands when each group of three is turned around.      *)
Mirror(h, i) ==
  LET hi == h - 3 * ((h - i) \div 3)
      lo == IF hi < 3 THEN 0 ELSE hi - 3
  IN  lo + hi + 1 - i

(* Division by three, in the one form that is needed of it.                *)
LEMMA Thirds ==
  ASSUME NEW n \in Nat
  PROVE  n \div 3 \in Nat /\ 3 * (n \div 3) <= n /\ n < 3 * (n \div 3) + 3
OBVIOUS

LEMMA OneThird ==
  ASSUME NEW n \in Nat, NEW b \in Nat, 3 * b <= n, n < 3 * b + 3
  PROVE  n \div 3 = b
BY Thirds

(* Turning a group of three around is to mirror it, and twice is not at    *)
(* all.                                                                    *)
LEMMA MirrorOf ==
  ASSUME NEW h \in Nat, NEW i \in 1 .. h,
         NEW b \in Nat, 3 * b <= h - i, h - i < 3 * b + 3,
         NEW hi, hi = h - 3 * b, NEW lo, lo = IF hi < 3 THEN 0 ELSE hi - 3
  PROVE  /\ Mirror(h, i) = lo + hi + 1 - i
         /\ lo \in Nat /\ hi \in Nat /\ lo < i /\ i <= hi /\ hi <= h
<1>1. h - i \in Nat
  OBVIOUS
<1>2. (h - i) \div 3 = b
  BY <1>1, OneThird
<1> QED
  BY <1>2 DEF Mirror

LEMMA MirrorFacts ==
  ASSUME NEW h \in Nat, NEW i \in 1 .. h
  PROVE  Mirror(h, i) \in 1 .. h /\ Mirror(h, Mirror(h, i)) = i
<1> DEFINE b == (h - i) \div 3
           hi == h - 3 * b
           lo == IF hi < 3 THEN 0 ELSE hi - 3
           j == lo + hi + 1 - i
<1>1. h - i \in Nat
  OBVIOUS
<1>2. b \in Nat /\ 3 * b <= h - i /\ h - i < 3 * b + 3
  BY <1>1, Thirds
<1> HIDE DEF b
<1>3. /\ Mirror(h, i) = j
      /\ lo \in Nat /\ hi \in Nat /\ lo < i /\ i <= hi /\ hi <= h
  BY <1>2, MirrorOf
<1>4. j \in 1 .. h /\ 3 * b <= h - j /\ h - j < 3 * b + 3
  BY <1>2, <1>3
<1>5. Mirror(h, j) = lo + hi + 1 - j
  <2> HIDE DEF j
  <2> QED
    BY <1>2, <1>4, MirrorOf
<1>6. lo + hi + 1 - j = i
  BY <1>3
<1> QED
  BY <1>3, <1>4, <1>5, <1>6

(* One card at a time, the order never changes.                            *)
LEMMA SingleCircle ==
  ASSUME NEW T \in Nat \ {0}, NEW X, NEW c, NEW z, Circles(1, T, T + 3, X, c, z)
  PROVE  \E j, k \in 0 .. T + 3 : j < k /\ c[j] = c[k] /\ z[j] = z[k]
<1> DEFINE a == c[0]
           cut(k) == IF k <= a THEN a - k ELSE T + 1 + a - k
           S == {k \in 0 .. T + 1 : z[k] = z[0] /\ c[k] = cut(k)}
<1>1. /\ c \in [0 .. T + 3 -> 0 .. T] /\ z \in [0 .. T + 3 -> [1 .. T -> X]]
      /\ \A k \in 1 .. T + 3 : Turns(1, T, c[k - 1], z[k - 1], c[k], z[k])
  BY DEF Circles
<1>2. a \in 0 .. T
  BY <1>1
<1>3. 0 \in S
  BY <1>2
<1>4. ASSUME NEW k \in 1 .. T + 1, k - 1 \in S
      PROVE  k \in S
  <2>1. k \in 1 .. T + 3 /\ k \in 0 .. T + 3
    OBVIOUS
  <2>2. Turns(1, T, c[k - 1], z[k - 1], c[k], z[k])
    BY <1>1, <2>1
  <2>3. z[k - 1] = z[0] /\ c[k - 1] = cut(k - 1)
    BY <1>4
  <2>4. z[k] \in [1 .. T -> X] /\ z[0] \in [1 .. T -> X]
    <3>1. 0 \in 0 .. T + 3
      OBVIOUS
    <3> QED
      BY <1>1, <2>1, <3>1
  <2>5. CASE c[k - 1] = 0
    <3>1. c[k] = T /\ z[k] = z[0]
      BY <2>2, <2>3, <2>5 DEF Turns
    <3>2. k - 1 = a
      BY <1>2, <2>3, <2>5
    <3> QED
      BY <1>2, <3>1, <3>2
  <2>6. CASE c[k - 1] # 0
    <3> DEFINE d == c[k - 1]
    <3>1. d \in 1 .. T
      BY <1>2, <2>3, <2>6
    <3> HIDE DEF d
    <3>2. /\ c[k] = IF d < 1 THEN 0 ELSE d - 1
          /\ \A i \in 1 .. T :
               z[k][i] = IF c[k] < i /\ i <= d THEN z[0][c[k] + d + 1 - i] ELSE z[0][i]
      BY <2>2, <2>3, <2>6 DEF Turns, d
    <3>3. c[k] = d - 1
      BY <3>1, <3>2
    <3>4. \A i \in 1 .. T : z[k][i] = z[0][i]
      <4>1. \A i \in 1 .. T : c[k] < i /\ i <= d => i = d /\ c[k] + d + 1 - i = i
        BY <3>1, <3>3
      <4> QED
        BY <3>2, <4>1
    <3>5. z[k] = z[0]
      BY <2>4, <3>4
    <3>6. d - 1 = cut(k)
      BY <1>2, <2>3, <3>1 DEF d
    <3> QED
      BY <3>3, <3>5, <3>6
  <2> QED
    BY <2>5, <2>6
<1>5. T + 1 \in S
  <2> HIDE DEF S
  <2>1. \A k \in 0 .. T + 1 : k \in S
    BY <1>3, <1>4, Climbs
  <2> QED
    BY <2>1
<1>6. z[T + 1] = z[0] /\ c[T + 1] = c[0]
  BY <1>2, <1>5
<1>7. 0 \in 0 .. T + 3 /\ T + 1 \in 0 .. T + 3 /\ 0 < T + 1
  OBVIOUS
<1> QED
  BY <1>6, <1>7

(* A pass from cut h to cut 0, three cards at a time.                      *)
LEMMA TriplePass ==
  ASSUME NEW T \in Nat, NEW m \in Nat, NEW X, NEW c, NEW z, Circles(3, T, m, X, c, z),
         NEW s \in 0 .. m, NEW h, h = c[s], NEW e, e = (h + 2) \div 3, s + e <= m
  PROVE  /\ e \in Nat /\ 3 * e <= h + 2 /\ c[s + e] = 0
         /\ \A i \in 1 .. T : z[s + e][i] = IF i <= h THEN z[s][Mirror(h, i)] ELSE z[s][i]
<1>1. /\ c \in [0 .. m -> 0 .. T] /\ z \in [0 .. m -> [1 .. T -> X]]
      /\ \A k \in 1 .. m : Turns(3, T, c[k - 1], z[k - 1], c[k], z[k])
  BY DEF Circles
<1>2. h \in 0 .. T
  BY <1>1
<1>3. e \in Nat /\ 3 * e <= h + 2 /\ h + 2 < 3 * e + 3
  <2>1. h + 2 \in Nat
    BY <1>2
  <2> QED
    BY <2>1, Thirds
<1> DEFINE cut(k) == IF 3 * k < h THEN h - 3 * k ELSE 0
           card(k, i) == IF i <= cut(k) \/ i > h THEN z[s][i] ELSE z[s][Mirror(h, i)]
           S == {k \in 0 .. e : /\ c[s + k] = cut(k)
                                /\ \A i \in 1 .. T : z[s + k][i] = card(k, i)}
<1>4. 0 \in S
  <2>1. cut(0) = h
    BY <1>2
  <2>2. \A i \in 1 .. T : i <= h \/ i > h
    BY <1>2
  <2>3. \A i \in 1 .. T : z[s + 0][i] = card(0, i)
    BY <2>1, <2>2
  <2>4. 0 \in 0 .. e /\ s + 0 = s
    BY <1>3
  <2> HIDE DEF card, cut
  <2> QED
    BY <2>1, <2>3, <2>4
<1>5. ASSUME NEW k \in 1 .. e, k - 1 \in S
      PROVE  k \in S
  <2> DEFINE d == c[s + (k - 1)]
             y == z[s + (k - 1)]
  <2>1. s + k \in 1 .. m /\ (s + k) - 1 = s + (k - 1) /\ k \in 0 .. e
    BY <1>3
  <2>2. Turns(3, T, d, y, c[s + k], z[s + k])
    BY <1>1, <2>1
  <2>3. d = cut(k - 1) /\ \A i \in 1 .. T : y[i] = card(k - 1, i)
    BY <1>5
  <2>4. 3 * (k - 1) < h /\ k \in Nat
    BY <1>2, <1>3
  <2>5. d = h - 3 * (k - 1) /\ d \in 1 .. h
    BY <1>2, <2>3, <2>4
  <2> HIDE DEF d, y
  <2>6. /\ c[s + k] = IF d < 3 THEN 0 ELSE d - 3
        /\ \A i \in 1 .. T : z[s + k][i] = IF c[s + k] < i /\ i <= d
                                           THEN y[c[s + k] + d + 1 - i] ELSE y[i]
    BY <1>2, <2>2, <2>5 DEF Turns
  <2>7. c[s + k] = cut(k)
    BY <1>2, <2>4, <2>5, <2>6
  <2> DEFINE lo == c[s + k]
  <2>8. lo \in Nat /\ lo < d
    BY <1>2, <2>5, <2>6
  <2>9. ASSUME NEW i \in 1 .. T
        PROVE  z[s + k][i] = card(k, i)
    <3>1. z[s + k][i] = IF lo < i /\ i <= d THEN y[lo + d + 1 - i] ELSE y[i]
      BY <2>6
    <3>2. card(k, i) = IF i <= lo \/ i > h THEN z[s][i] ELSE z[s][Mirror(h, i)]
      BY <2>7
    <3>3. \A x \in 1 .. T : y[x] = IF x <= d \/ x > h THEN z[s][x] ELSE z[s][Mirror(h, x)]
      BY <2>3
    <3> HIDE DEF card
    <3>4. CASE lo < i /\ i <= d
      <4>1. lo + d + 1 - i \in 1 .. T /\ lo + d + 1 - i <= d
        BY <1>2, <2>5, <2>8, <3>4
      <4>2. z[s + k][i] = z[s][lo + d + 1 - i]
        BY <3>1, <3>3, <3>4, <4>1
      <4>3. Mirror(h, i) = lo + d + 1 - i
        <5> DEFINE b == k - 1
        <5>1. b \in Nat /\ d = h - 3 * b /\ lo = IF d < 3 THEN 0 ELSE d - 3
          BY <2>4, <2>5, <2>6
        <5> HIDE DEF b, lo
        <5>2. h \in Nat /\ i \in 1 .. h /\ 3 * b <= h - i /\ h - i < 3 * b + 3
          BY <1>2, <2>5, <3>4, <5>1
        <5> QED
          BY <5>1, <5>2, MirrorOf
      <4>4. ~ (i <= lo \/ i > h)
        BY <1>2, <2>5, <2>8, <3>4
      <4> QED
        BY <3>2, <4>2, <4>3, <4>4
    <3>5. CASE i <= lo
      <4>1. i <= d /\ ~ (lo < i)
        BY <2>5, <2>8, <3>5
      <4> QED
        BY <3>1, <3>2, <3>3, <3>5, <4>1
    <3>6. CASE d < i
      <4>1. ~ (i <= d) /\ ~ (i <= lo)
        BY <2>5, <2>8, <3>6
      <4> QED
        BY <3>1, <3>2, <3>3, <4>1
    <3> QED
      BY <2>5, <2>8, <3>4, <3>5, <3>6
  <2> QED
    BY <2>1, <2>7, <2>9
<1>6. e \in S
  <2> HIDE DEF S
  <2>1. \A k \in 0 .. e : k \in S
    BY <1>3, <1>4, <1>5, Climbs
  <2> QED
    BY <1>3, <2>1
<1>7. cut(e) = 0
  BY <1>2, <1>3
<1>8. \A i \in 1 .. T : z[s + e][i] = card(e, i)
  BY <1>6
<1>9. c[s + e] = 0
  BY <1>6, <1>7
<1>10. \A i \in 1 .. T : z[s + e][i] = IF i <= h THEN z[s][Mirror(h, i)] ELSE z[s][i]
  BY <1>2, <1>7, <1>8
<1> QED
  BY <1>3, <1>9, <1>10

(* Two passes over the whole stock put every card back.                    *)
LEMMA TwoPasses ==
  ASSUME NEW T \in Nat, NEW m \in Nat, NEW X, NEW c, NEW z, Circles(3, T, m, X, c, z),
         NEW s \in 0 .. m, c[s] = T, NEW e, e = (T + 2) \div 3, s + e + 1 + e <= m
  PROVE  c[s + e + 1 + e] = 0 /\ z[s + e + 1 + e] = z[s]
<1> DEFINE r == s + e + 1
<1>1. /\ c \in [0 .. m -> 0 .. T] /\ z \in [0 .. m -> [1 .. T -> X]]
      /\ \A k \in 1 .. m : Turns(3, T, c[k - 1], z[k - 1], c[k], z[k])
  BY DEF Circles
<1>2. e \in Nat
  BY Thirds
<1>3. s + e <= m /\ r \in 0 .. m /\ r \in 1 .. m /\ r - 1 = s + e
  BY <1>2
<1>4. /\ c[s + e] = 0
      /\ \A i \in 1 .. T : z[s + e][i] = IF i <= T THEN z[s][Mirror(T, i)] ELSE z[s][i]
  BY <1>3, TriplePass
<1>5. c[r] = T /\ z[r] = z[s + e]
  <2>1. Turns(3, T, c[r - 1], z[r - 1], c[r], z[r])
    BY <1>1, <1>3
  <2> QED
    BY <1>3, <1>4, <2>1 DEF Turns
<1> HIDE DEF r
<1>6. /\ c[r + e] = 0
      /\ \A i \in 1 .. T : z[r + e][i] = IF i <= T THEN z[r][Mirror(T, i)] ELSE z[r][i]
  <2>1. r + e <= m
    BY DEF r
  <2> QED
    BY <1>3, <1>5, <2>1, TriplePass
<1>7. \A i \in 1 .. T : z[r + e][i] = z[s][i]
  <2>1. \A i \in 1 .. T : i <= T /\ Mirror(T, i) \in 1 .. T /\ Mirror(T, Mirror(T, i)) = i
    BY MirrorFacts
  <2>2. \A i \in 1 .. T : z[r + e][i] = z[r][Mirror(T, i)]
    BY <1>6, <2>1
  <2>3. \A i \in 1 .. T : z[s + e][i] = z[s][Mirror(T, i)]
    BY <1>4, <2>1
  <2> QED
    BY <1>5, <2>1, <2>2, <2>3
<1>8. z[r + e] \in [1 .. T -> X] /\ z[s] \in [1 .. T -> X]
  <2>1. r + e \in 0 .. m
    BY <1>2 DEF r
  <2> QED
    BY <1>1, <2>1
<1>9. z[r + e] = z[s]
  BY <1>7, <1>8
<1> QED
  BY <1>6, <1>9 DEF r

(* Three cards at a time, two passes come around.                          *)
LEMMA TripleCircle ==
  ASSUME NEW T \in Nat \ {0}, NEW X, NEW c, NEW z, Circles(3, T, T + 3, X, c, z)
  PROVE  \E j, k \in 0 .. T + 3 : j < k /\ c[j] = c[k] /\ z[j] = z[k]
<1> DEFINE m == T + 3
           a == c[0]
           e == (T + 2) \div 3
<1>1. /\ c \in [0 .. m -> 0 .. T] /\ z \in [0 .. m -> [1 .. T -> X]]
      /\ \A k \in 1 .. m : Turns(3, T, c[k - 1], z[k - 1], c[k], z[k])
  BY DEF Circles
<1>2. m \in Nat /\ a \in 0 .. T
  BY <1>1
<1>3. e \in Nat /\ 3 * e <= T + 2
  <2>1. T + 2 \in Nat
    OBVIOUS
  <2> QED
    BY <2>1, Thirds
<1>4. CASE a = T
  <2> DEFINE k == 0 + e + 1 + e
  <2>1. 0 \in 0 .. m /\ k + 1 <= m /\ k <= m /\ k \in Nat
    BY <1>3
  <2>2. c[k] = 0 /\ z[k] = z[0]
    <3> HIDE DEF m, e
    <3> QED
      BY <1>2, <1>4, <2>1, TwoPasses DEF m, e
  <2> HIDE DEF e
  <2>3. k + 1 \in 1 .. m /\ (k + 1) - 1 = k /\ k + 1 \in 0 .. m /\ 0 < k + 1
    BY <2>1
  <2> HIDE DEF k
  <2>4. c[k + 1] = T /\ z[k + 1] = z[0]
    BY <1>1, <2>2, <2>3 DEF Turns
  <2> QED
    BY <1>4, <2>1, <2>3, <2>4
<1>5. CASE a # T
  <2> DEFINE b == (a + 2) \div 3
             s == b + 1
             k == s + e + 1 + e
  <2>1. b \in Nat /\ 3 * b <= a + 2
    <3>1. a + 2 \in Nat
      BY <1>2
    <3> QED
      BY <3>1, Thirds
  <2>2. /\ b <= m /\ s \in 1 .. m /\ s \in 0 .. m
        /\ k <= m /\ k \in Nat /\ b < k /\ b \in 0 .. m
        /\ k \in 0 .. m /\ 0 + b = b /\ s - 1 = b /\ 0 \in 0 .. m
    <3> HIDE DEF b, e
    <3>1. a <= T - 1
      BY <1>2, <1>5
    <3> HIDE DEF a
    <3> QED
      BY <1>2, <1>3, <2>1, <3>1
  <2>3. c[b] = 0
    <3>1. c[0 + b] = 0
      <4> HIDE DEF m
      <4> QED
        BY <1>2, <2>2, TriplePass DEF m
    <3> QED
      BY <2>2, <3>1
  <2> HIDE DEF b
  <2>4. c[s] = T /\ z[s] = z[b]
    <3> HIDE DEF s
    <3> QED
      BY <1>1, <2>2, <2>3 DEF Turns
  <2>5. c[k] = 0 /\ z[k] = z[s]
    <3> HIDE DEF m, e, s
    <3> QED
      BY <1>2, <2>2, <2>4, TwoPasses DEF m, e
  <2> QED
    BY <2>2, <2>3, <2>4, <2>5
<1> QED
  BY <1>4, <1>5

(* The cards of stock and waste in one row, the next to be drawn first:    *)
(* CardAt(p, i) is the i-th from the bottom of the stock, the waste after  *)
(* it from its top down, so that a recycle moves the cut and no card.      *)
TotalOf(p) == Len(p[Stock]) + Len(p[Waste])

CardAt(p, i) == IF i <= Len(p[Stock]) THEN p[Stock][i] ELSE p[Waste][TotalOf(p) + 1 - i]

OrderOf(p) ==
  [i \in 1 .. TotalOf(p) |-> [suit |-> CardAt(p, i).suit, rank |-> CardAt(p, i).rank]]

(* What the row of a good board holds.                                     *)
LEMMA OrderFacts ==
  ASSUME NEW p, GoodBoard(p)
  PROVE  /\ p[Stock] \in Seq(Card) /\ p[Waste] \in Seq(Card)
         /\ Len(p[Stock]) \in Nat /\ Len(p[Waste]) \in Nat /\ TotalOf(p) \in Nat
         /\ Len(p[Stock]) \in 0 .. TotalOf(p)
         /\ OrderOf(p) \in [1 .. TotalOf(p) -> Face]
         /\ \A i \in 1 .. TotalOf(p) : /\ CardAt(p, i) \in Card
                                       /\ OrderOf(p)[i].suit = CardAt(p, i).suit
                                       /\ OrderOf(p)[i].rank = CardAt(p, i).rank
<1>1. /\ p[Stock] \in Seq(Card) /\ p[Waste] \in Seq(Card)
      /\ Len(p[Stock]) \in Nat /\ Len(p[Waste]) \in Nat
  BY PileKinds, LenProperties DEF GoodBoard, GoodPile
<1> DEFINE c == Len(p[Stock])
           W == Len(p[Waste])
           T == TotalOf(p)
<1>5. c \in Nat /\ W \in Nat /\ T = c + W
  BY <1>1 DEF TotalOf
<1>2. TotalOf(p) \in Nat /\ Len(p[Stock]) \in 0 .. TotalOf(p)
  <2> HIDE DEF c, W, T
  <2>1. T \in Nat /\ c \in 0 .. T
    BY <1>5
  <2> QED
    BY <2>1 DEF c, T
<1>3. ASSUME NEW i \in 1 .. TotalOf(p)
      PROVE  CardAt(p, i) \in Card
  <2>1. CASE i <= Len(p[Stock])
    BY <1>1, <2>1, ElementOfSeq DEF CardAt
  <2>2. CASE ~ (i <= Len(p[Stock]))
    <3>1. TotalOf(p) + 1 - i \in 1 .. Len(p[Waste])
      <4>1. i \in 1 .. T /\ ~ (i <= c)
        BY <2>2
      <4> HIDE DEF c, W, T
      <4>2. T + 1 - i \in 1 .. W
        BY <1>5, <4>1
      <4> QED
        BY <4>2 DEF W, T
    <3> QED
      BY <1>1, <2>2, <3>1, ElementOfSeq DEF CardAt
  <2> QED
    BY <2>1, <2>2
<1>4. \A i \in 1 .. TotalOf(p) :
         [suit |-> CardAt(p, i).suit, rank |-> CardAt(p, i).rank] \in Face
  BY <1>3 DEF Card, Face
<1> QED
  BY <1>1, <1>2, <1>3, <1>4 DEF OrderOf

(* A draw or a recycle turns stock and waste as in Turns.                  *)
LEMMA DrawTurns ==
  ASSUME NEW p, GoodBoard(p), NEW n \in Nat \ {0}, p[Stock] # << >>,
         NEW q, q = AfterDraw(p, n), GoodBoard(q)
  PROVE  /\ TotalOf(q) = TotalOf(p)
         /\ \A t \in PileType : t # Stock /\ t # Waste => q[t] = p[t]
         /\ Turns(n, TotalOf(p), Len(p[Stock]), OrderOf(p), Len(q[Stock]), OrderOf(q))
<1> DEFINE s == p[Stock]
           w == p[Waste]
           c == Len(s)
           W == Len(w)
           T == TotalOf(p)
           k == IF c < n THEN c ELSE n
           top == Facing(TopCards(s, k), TRUE)
<1>1. /\ s \in Seq(Card) /\ w \in Seq(Card) /\ c \in Nat /\ W \in Nat /\ T = c + W
      /\ c > 0 /\ p \in Boards
  <2>1. s \in Seq(Card) /\ w \in Seq(Card) /\ c \in Nat /\ W \in Nat /\ p \in Boards
    BY OrderFacts DEF GoodBoard
  <2>2. T = c + W
    BY DEF TotalOf
  <2>3. c # 0
    BY <2>1, EmptySeq
  <2> HIDE DEF s, w, c, W, T
  <2> QED
    BY <2>1, <2>2, <2>3
<1>2. k \in 1 .. c
  BY <1>1
<1>3. /\ q[Stock] = DropCards(s, k) /\ q[Waste] = w \o top
      /\ \A t \in PileType : t # Stock /\ t # Waste => q[t] = p[t]
  <2>1. \A t \in PileType :
           AfterDraw(p, n)[t] =
             IF t = Stock THEN DropCards(p[Stock], k)
             ELSE IF t = Waste THEN p[Waste] \o Facing(TopCards(p[Stock], k), TRUE)
             ELSE p[t]
    BY <1>1, DrawnPiles
  <2> HIDE DEF k
  <2> QED
    BY <2>1, PileKinds
<1> DEFINE d == c - k
<1>4. /\ Len(q[Stock]) = d /\ \A i \in 1 .. d : q[Stock][i] = s[i]
  <2>1. k \in 0 .. Len(s)
    BY <1>1, <1>2
  <2> HIDE DEF k
  <2> QED
    BY <1>1, <1>3, <2>1, DropCardsFacts DEF s
<1>5. /\ top \in Seq(Card) /\ Len(top) = k
      /\ \A i \in 1 .. k : top[i].suit = s[d + i].suit /\ top[i].rank = s[d + i].rank
  <2> DEFINE u == TopCards(s, k)
  <2>1. u \in Seq(Card) /\ Len(u) = k /\ \A i \in 1 .. k : u[i] = s[c - k + i]
    <3>1. k \in 0 .. c
      BY <1>1, <1>2
    <3> HIDE DEF k
    <3> QED
      BY <1>1, <3>1, TopCardsFacts DEF s
  <2> HIDE DEF u
  <2>2. /\ Facing(u, TRUE) \in Seq(Card) /\ Len(Facing(u, TRUE)) = Len(u)
        /\ \A i \in 1 .. Len(u) : /\ Facing(u, TRUE)[i].suit = u[i].suit
                                  /\ Facing(u, TRUE)[i].rank = u[i].rank
    BY <2>1, FacingFacts
  <2> HIDE DEF k
  <2> QED
    BY <2>1, <2>2 DEF u
<1> HIDE DEF top
<1>6. /\ Len(q[Waste]) = W + k
      /\ \A i \in 1 .. W + k : q[Waste][i] = IF i <= W THEN w[i] ELSE top[i - W]
  <2>1. W = Len(w)
    OBVIOUS
  <2> HIDE DEF k, w, s, W, c, T
  <2>2. Len(top) = k /\ top \in Seq(Card) /\ q[Waste] = w \o top /\ w \in Seq(Card)
    BY <1>1, <1>3, <1>5
  <2>3. /\ Len(w \o top) = Len(w) + Len(top)
        /\ \A i \in 1 .. Len(w) + Len(top) :
             (w \o top)[i] = IF i <= Len(w) THEN w[i] ELSE top[i - Len(w)]
    BY <2>2, ConcatProperties
  <2> QED
    BY <2>1, <2>2, <2>3
<1>8. d = IF c < n THEN 0 ELSE c - n
  BY <1>1
<1> HIDE DEF s, w, top, T, k
<1>7. TotalOf(q) = T
  <2>1. k \in Int
    BY <1>1, <1>2
  <2> QED
    BY <1>1, <1>4, <1>6, <2>1 DEF TotalOf
<1>9. \A i \in 1 .. T : CardAt(p, i) = IF i <= c THEN s[i] ELSE w[T + 1 - i]
  BY DEF CardAt, s, w, T
<1>10. \A i \in 1 .. T :
         CardAt(q, i) = IF i <= d THEN q[Stock][i] ELSE q[Waste][T + 1 - i]
  BY <1>4, <1>7 DEF CardAt
<1>11. ASSUME NEW i \in 1 .. T
       PROVE  LET g == IF d < i /\ i <= c THEN d + c + 1 - i ELSE i
              IN  /\ CardAt(q, i).suit = CardAt(p, g).suit
                  /\ CardAt(q, i).rank = CardAt(p, g).rank
  <2>1. CASE i <= d
    <3>1. i <= c /\ ~ (d < i) /\ i \in 1 .. d
      BY <1>1, <1>2, <2>1
    <3>2. CardAt(q, i) = s[i] /\ CardAt(p, i) = s[i]
      BY <1>4, <1>9, <1>10, <2>1, <3>1
    <3> QED
      BY <3>1, <3>2
  <2>2. CASE d < i /\ i <= c
    <3> DEFINE j == T + 1 - i
               g == d + c + 1 - i
    <3>1. /\ j \in 1 .. W + k /\ ~ (j <= W) /\ ~ (i <= d) /\ j - W \in 1 .. k
          /\ d + (j - W) = g /\ g \in 1 .. T /\ g <= c
      <4> HIDE DEF c, W
      <4> QED
        BY <1>1, <1>2, <2>2
    <3>2. CardAt(q, i) = top[j - W]
      BY <1>6, <1>10, <3>1
    <3>3. CardAt(p, g) = s[g]
      BY <1>9, <3>1
    <3>4. top[j - W].suit = s[g].suit /\ top[j - W].rank = s[g].rank
      <4>1. top[j - W].suit = s[d + (j - W)].suit /\ top[j - W].rank = s[d + (j - W)].rank
        BY <1>5, <3>1
      <4> QED
        BY <3>1, <4>1
    <3> QED
      BY <2>2, <3>2, <3>3, <3>4
  <2>3. CASE c < i
    <3> DEFINE j == T + 1 - i
    <3>1. j \in 1 .. W + k /\ j <= W /\ ~ (i <= d) /\ ~ (i <= c)
      BY <1>1, <1>2, <2>3
    <3>2. CardAt(q, i) = w[j] /\ CardAt(p, i) = w[j]
      BY <1>6, <1>9, <1>10, <3>1
    <3> QED
      BY <3>1, <3>2
  <2> QED
    BY <1>1, <1>2, <2>1, <2>2, <2>3
<1>12. ASSUME NEW i \in 1 .. T
       PROVE  OrderOf(q)[i] = IF d < i /\ i <= c THEN OrderOf(p)[d + c + 1 - i]
                              ELSE OrderOf(p)[i]
  <2>1. d < i /\ i <= c => d + c + 1 - i \in 1 .. T
    BY <1>1, <1>2
  <2> DEFINE g == IF d < i /\ i <= c THEN d + c + 1 - i ELSE i
  <2>2. g \in 1 .. T
    BY <2>1
  <2>3. OrderOf(q)[i] = [suit |-> CardAt(q, i).suit, rank |-> CardAt(q, i).rank]
    BY <1>7 DEF OrderOf
  <2>4. OrderOf(p)[g] = [suit |-> CardAt(p, g).suit, rank |-> CardAt(p, g).rank]
    <3> HIDE DEF g
    <3> QED
      BY <2>2 DEF OrderOf, T
  <2>5. CardAt(q, i).suit = CardAt(p, g).suit /\ CardAt(q, i).rank = CardAt(p, g).rank
    BY <1>11
  <2>6. OrderOf(q)[i] = OrderOf(p)[g]
    <3> HIDE DEF g
    <3> QED
      BY <2>3, <2>4, <2>5
  <2> QED
    BY <2>6
<1>13. c # 0
  BY <1>1
<1>14. Turns(n, T, c, OrderOf(p), d, OrderOf(q))
  <2> HIDE DEF c, d
  <2> QED
    BY <1>8, <1>12, <1>13 DEF Turns, d
<1> QED
  BY <1>3, <1>4, <1>7, <1>14 DEF T, s

(* Functions that agree everywhere are equal.                              *)
LEMMA SameFunction ==
  ASSUME NEW S, NEW X, NEW y \in [S -> X], NEW z \in [S -> X], \A i \in S : y[i] = z[i]
  PROVE  y = z
OBVIOUS

LEMMA RecycleTurns ==
  ASSUME NEW p, GoodBoard(p), NEW n, p[Stock] = << >>,
         NEW q, q = AfterRecycle(p), GoodBoard(q)
  PROVE  /\ TotalOf(q) = TotalOf(p)
         /\ \A t \in PileType : t # Stock /\ t # Waste => q[t] = p[t]
         /\ Turns(n, TotalOf(p), Len(p[Stock]), OrderOf(p), Len(q[Stock]), OrderOf(q))
<1> DEFINE w == p[Waste]
           T == TotalOf(p)
           back == Facing(Reverse(w), FALSE)
<1>1. /\ w \in Seq(Card) /\ Len(w) \in Nat /\ Len(p[Stock]) = 0
      /\ T = Len(w) /\ p \in Boards
  <2>1. w \in Seq(Card) /\ Len(w) \in Nat /\ Len(p[Stock]) = 0 /\ p \in Boards
    BY OrderFacts, EmptySeq DEF GoodBoard
  <2>2. T = Len(p[Stock]) + Len(w)
    BY DEF TotalOf
  <2> HIDE DEF T, w
  <2> QED
    BY <2>1, <2>2
<1>2. /\ q[Stock] = p[Stock] \o back /\ q[Waste] = << >>
      /\ \A t \in PileType : t # Stock /\ t # Waste => q[t] = p[t]
  BY <1>1, RecycledPiles, PileKinds
<1>3. /\ back \in Seq(Card) /\ Len(back) = T
      /\ \A i \in 1 .. T : /\ back[i].suit = w[T + 1 - i].suit
                           /\ back[i].rank = w[T + 1 - i].rank
  <2> DEFINE u == Reverse(w)
  <2>1. /\ u \in Seq(Card) /\ Len(u) = Len(w)
        /\ \A i \in 1 .. Len(w) : u[i] = w[Len(w) - i + 1]
    BY <1>1, ReverseFacts, ReverseElements
  <2> HIDE DEF u
  <2>2. /\ Facing(u, FALSE) \in Seq(Card) /\ Len(Facing(u, FALSE)) = Len(u)
        /\ \A i \in 1 .. Len(u) : /\ Facing(u, FALSE)[i].suit = u[i].suit
                                  /\ Facing(u, FALSE)[i].rank = u[i].rank
    BY <2>1, FacingFacts
  <2> HIDE DEF T, w
  <2>3. \A i \in 1 .. T : i \in 1 .. Len(w) /\ Len(w) - i + 1 = T + 1 - i
    BY <1>1
  <2>4. back = Facing(u, FALSE)
    BY DEF u, w
  <2> HIDE DEF back
  <2>5. back \in Seq(Card) /\ Len(back) = T
    BY <1>1, <2>1, <2>2, <2>4
  <2>6. ASSUME NEW i \in 1 .. T
        PROVE  back[i].suit = w[T + 1 - i].suit /\ back[i].rank = w[T + 1 - i].rank
    <3>1. i \in 1 .. Len(w) /\ Len(w) - i + 1 = T + 1 - i /\ i \in 1 .. Len(u)
      BY <2>1, <2>3
    <3>2. u[i] = w[T + 1 - i]
      BY <2>1, <3>1
    <3> QED
      BY <2>2, <2>4, <3>1, <3>2
  <2> QED
    BY <2>5, <2>6
<1> HIDE DEF back, w
<1>4. q[Stock] = back
  BY <1>2, <1>3, ConcatEmptySeq
<1>5. Len(q[Stock]) = T /\ Len(q[Waste]) = 0 /\ TotalOf(q) = T
  BY <1>1, <1>2, <1>3, <1>4 DEF TotalOf
<1> HIDE DEF T
<1>6. ASSUME NEW i \in 1 .. T
      PROVE  OrderOf(q)[i] = OrderOf(p)[i]
  <2>1. i <= Len(q[Stock]) /\ ~ (i <= Len(p[Stock]))
    BY <1>1, <1>5
  <2>2. CardAt(q, i) = back[i]
    BY <1>4, <2>1 DEF CardAt
  <2>3. CardAt(p, i) = w[T + 1 - i]
    BY <2>1 DEF CardAt, w, T
  <2>4. CardAt(q, i).suit = CardAt(p, i).suit /\ CardAt(q, i).rank = CardAt(p, i).rank
    BY <1>3, <2>2, <2>3
  <2>5. OrderOf(q)[i] = [suit |-> CardAt(q, i).suit, rank |-> CardAt(q, i).rank]
    BY <1>5 DEF OrderOf
  <2>6. OrderOf(p)[i] = [suit |-> CardAt(p, i).suit, rank |-> CardAt(p, i).rank]
    BY DEF OrderOf, T
  <2> QED
    BY <2>4, <2>5, <2>6
<1>7. OrderOf(p) \in [1 .. T -> Face] /\ OrderOf(q) \in [1 .. T -> Face]
  BY <1>5, OrderFacts DEF T
<1>8. OrderOf(q) = OrderOf(p)
  <2> DEFINE y == OrderOf(q)
             z == OrderOf(p)
             S == 1 .. T
  <2>1. y \in [S -> Face] /\ z \in [S -> Face] /\ \A i \in S : y[i] = z[i]
    BY <1>6, <1>7
  <2> HIDE DEF y, z, S
  <2>2. y = z
    BY <2>1, SameFunction
  <2> QED
    BY <2>2 DEF y, z
<1> QED
  BY <1>1, <1>2, <1>5, <1>8 DEF Turns, T

(* Cut and order, with the other piles, make the board.                    *)
LEMMA SameOrder ==
  ASSUME NEW p, NEW q, GoodBoard(p), GoodBoard(q),
         TotalOf(p) = TotalOf(q), Len(p[Stock]) = Len(q[Stock]), OrderOf(p) = OrderOf(q),
         \A t \in PileType : t # Stock /\ t # Waste => q[t] = p[t]
  PROVE  p = q
<1> DEFINE T == TotalOf(p)
           c == Len(p[Stock])
<1>1. /\ p[Stock] \in Seq(Card) /\ p[Waste] \in Seq(Card)
      /\ q[Stock] \in Seq(Card) /\ q[Waste] \in Seq(Card)
      /\ c \in Nat /\ T \in Nat /\ Len(p[Waste]) \in Nat /\ Len(q[Waste]) \in Nat
      /\ T = c + Len(p[Waste]) /\ T = c + Len(q[Waste])
  BY OrderFacts DEF TotalOf
<1> HIDE DEF T, c
<1>2. Len(p[Waste]) = Len(q[Waste])
  BY <1>1
<1>0. /\ c = Len(p[Stock]) /\ c = Len(q[Stock])
      /\ T = TotalOf(p) /\ T = TotalOf(q)
  BY DEF c, T
<1>3. \A i \in 1 .. T : /\ CardAt(p, i) \in Card /\ CardAt(q, i) \in Card
                        /\ CardAt(p, i).suit = CardAt(q, i).suit
                        /\ CardAt(p, i).rank = CardAt(q, i).rank
  <2>1. \A i \in 1 .. T : /\ CardAt(p, i) \in Card
                          /\ OrderOf(p)[i].suit = CardAt(p, i).suit
                          /\ OrderOf(p)[i].rank = CardAt(p, i).rank
    BY OrderFacts DEF T
  <2>2. \A i \in 1 .. T : /\ CardAt(q, i) \in Card
                          /\ OrderOf(q)[i].suit = CardAt(q, i).suit
                          /\ OrderOf(q)[i].rank = CardAt(q, i).rank
    BY <1>0, OrderFacts
  <2> QED
    BY <2>1, <2>2
<1>4. \A a, b \in Card : a.suit = b.suit /\ a.rank = b.rank /\ a.up = b.up => a = b
  BY DEF Card
<1>5. /\ \A i \in 1 .. c : ~ p[Stock][i].up /\ ~ q[Stock][i].up
      /\ \A i \in 1 .. Len(p[Waste]) : p[Waste][i].up /\ q[Waste][i].up
  BY <1>0, <1>2, PileKinds DEF GoodBoard, GoodPile
<1>6. ASSUME NEW i \in 1 .. c
      PROVE  p[Stock][i] = q[Stock][i]
  <2>1. i \in 1 .. T /\ i <= Len(p[Stock]) /\ i <= Len(q[Stock])
    <3> DEFINE W == Len(p[Waste])
    <3>1. W \in Nat /\ T = c + W
      BY <1>1
    <3> HIDE DEF W
    <3>2. i \in 1 .. T /\ i <= c
      BY <1>1, <3>1
    <3> QED
      BY <1>0, <3>2
  <2>2. CardAt(p, i) = p[Stock][i] /\ CardAt(q, i) = q[Stock][i]
    BY <2>1 DEF CardAt
  <2>3. \A a \in Card : a.up \in BOOLEAN
    BY DEF Card
  <2>4. p[Stock][i].up = FALSE /\ q[Stock][i].up = FALSE
    BY <1>3, <1>5, <2>1, <2>2, <2>3
  <2> QED
    BY <1>3, <1>4, <2>1, <2>2, <2>4
<1>7. ASSUME NEW j \in 1 .. Len(p[Waste])
      PROVE  p[Waste][j] = q[Waste][j]
  <2> DEFINE i == T + 1 - j
  <2>1. /\ i \in 1 .. T /\ ~ (i <= Len(p[Stock])) /\ ~ (i <= Len(q[Stock]))
        /\ T + 1 - i = j
    <3> DEFINE W == Len(p[Waste])
    <3>1. W \in Nat /\ T = c + W /\ j \in 1 .. W /\ c \in Nat
      BY <1>1
    <3> HIDE DEF W
    <3>2. i \in 1 .. T /\ ~ (i <= c) /\ T + 1 - i = j
      BY <3>1
    <3> QED
      BY <1>0, <3>2
  <2> HIDE DEF i
  <2>2. CardAt(p, i) = p[Waste][j] /\ CardAt(q, i) = q[Waste][j]
    BY <1>0, <2>1 DEF CardAt
  <2>3. \A a \in Card : a.up \in BOOLEAN
    BY DEF Card
  <2>4. p[Waste][j].up = TRUE /\ q[Waste][j].up = TRUE
    BY <1>3, <1>5, <2>1, <2>2, <2>3
  <2> QED
    BY <1>3, <1>4, <2>1, <2>2, <2>4
<1>8. p[Stock] = q[Stock]
  BY <1>0, <1>1, <1>6, SeqEqual
<1>9. p[Waste] = q[Waste]
  BY <1>1, <1>2, <1>7, SeqEqual
<1>10. \A t \in PileType : p[t] = q[t]
  BY <1>8, <1>9
<1> QED
  BY <1>10 DEF GoodBoard, Boards

(* As many draws without a move as the solver makes meet a board again.    *)
LEMMA DrawsReturn ==
  ASSUME draw_count \in DrawCounts, NEW T \in Nat \ {0}, NEW b,
         \A k \in 0 .. T + 3 : GoodBoard(b[k]),
         TotalOf(b[0]) = T,
         \A k \in 1 .. T + 3 : b[k] = AfterStock(b[k - 1])
  PROVE  \E j, k \in 0 .. T + 3 : j < k /\ b[j] = b[k]
<1> DEFINE m == T + 3
           n == draw_count
           c == [k \in 0 .. m |-> Len(b[k][Stock])]
           z == [k \in 0 .. m |-> OrderOf(b[k])]
           S == {k \in 0 .. m : /\ TotalOf(b[k]) = T
                                /\ \A t \in PileType :
                                     t # Stock /\ t # Waste => b[k][t] = b[0][t]}
<1>1. n \in {1, 3}
  BY SolverAssumption
<1>2. m \in Nat /\ \A k \in 1 .. m : k \in 0 .. m /\ k - 1 \in 0 .. m
  OBVIOUS
<1>3. ASSUME NEW k \in 1 .. m, TotalOf(b[k - 1]) = T
      PROVE  /\ TotalOf(b[k]) = T
             /\ \A t \in PileType : t # Stock /\ t # Waste => b[k][t] = b[k - 1][t]
             /\ Turns(n, T, Len(b[k - 1][Stock]), OrderOf(b[k - 1]),
                            Len(b[k][Stock]), OrderOf(b[k]))
  <2> DEFINE p == b[k - 1]
             q == b[k]
  <2>1. GoodBoard(p) /\ GoodBoard(q) /\ q = AfterStock(p) /\ TotalOf(p) = T
    BY <1>2, <1>3
  <2>2. n \in Nat \ {0}
    BY <1>1
  <2> HIDE DEF p, q, n
  <2>3. CASE p[Stock] # << >>
    <3>1. q = AfterDraw(p, n)
      BY <2>1, <2>3 DEF AfterStock, n
    <3>2. /\ TotalOf(q) = TotalOf(p)
          /\ \A t \in PileType : t # Stock /\ t # Waste => q[t] = p[t]
          /\ Turns(n, TotalOf(p), Len(p[Stock]), OrderOf(p), Len(q[Stock]), OrderOf(q))
      BY <2>1, <2>2, <2>3, <3>1, DrawTurns
    <3> QED
      BY <2>1, <3>2 DEF p, q
  <2>4. CASE p[Stock] = << >>
    <3>1. q = AfterRecycle(p)
      BY <2>1, <2>4 DEF AfterStock
    <3>2. /\ TotalOf(q) = TotalOf(p)
          /\ \A t \in PileType : t # Stock /\ t # Waste => q[t] = p[t]
          /\ Turns(n, TotalOf(p), Len(p[Stock]), OrderOf(p), Len(q[Stock]), OrderOf(q))
      BY <2>1, <2>4, <3>1, RecycleTurns
    <3> QED
      BY <2>1, <3>2 DEF p, q
  <2> QED
    BY <2>3, <2>4
<1>4. \A k \in 0 .. m : k \in S
  <2>1. 0 \in S
    BY <1>2
  <2>2. ASSUME NEW k \in 1 .. m, k - 1 \in S
        PROVE  k \in S
    <3>1. TotalOf(b[k - 1]) = T /\ k \in 0 .. m
      BY <2>2
    <3>2. \A t \in PileType : t # Stock /\ t # Waste => b[k - 1][t] = b[0][t]
      BY <2>2
    <3> HIDE DEF m
    <3> QED
      BY <1>3, <3>1, <3>2
  <2> HIDE DEF S
  <2> QED
    BY <1>2, <2>1, <2>2, Climbs
<1>5. \A k \in 0 .. m : /\ GoodBoard(b[k]) /\ TotalOf(b[k]) = T
                        /\ Len(b[k][Stock]) \in 0 .. T
                        /\ OrderOf(b[k]) \in [1 .. T -> Face]
  <2>1. \A k \in 0 .. m : GoodBoard(b[k]) /\ TotalOf(b[k]) = T
    BY <1>4
  <2>2. ASSUME NEW k \in 0 .. m
        PROVE  Len(b[k][Stock]) \in 0 .. T /\ OrderOf(b[k]) \in [1 .. T -> Face]
    <3> DEFINE p == b[k]
    <3>1. GoodBoard(p) /\ TotalOf(p) = T
      BY <2>1
    <3> HIDE DEF p
    <3>2. Len(p[Stock]) \in 0 .. TotalOf(p) /\ OrderOf(p) \in [1 .. TotalOf(p) -> Face]
      BY <3>1, OrderFacts
    <3> QED
      BY <3>1, <3>2 DEF p
  <2> HIDE DEF m
  <2> QED
    BY <2>1, <2>2
<1>6. \A k \in 0 .. m : c[k] = Len(b[k][Stock]) /\ z[k] = OrderOf(b[k])
  OBVIOUS
<1>7. c \in [0 .. m -> 0 .. T] /\ z \in [0 .. m -> [1 .. T -> Face]]
  BY <1>5
<1> HIDE DEF c, z
<1>8. \A k \in 1 .. m : Turns(n, T, c[k - 1], z[k - 1], c[k], z[k])
  <2> HIDE DEF m, n
  <2> QED
    BY <1>2, <1>3, <1>5, <1>6
<1>9. Circles(n, T, m, Face, c, z)
  BY <1>7, <1>8 DEF Circles
<1>10. \E j, k \in 0 .. T + 3 : j < k /\ c[j] = c[k] /\ z[j] = z[k]
  <2>1. CASE n = 1
    BY <1>9, <2>1, SingleCircle
  <2>2. CASE n = 3
    BY <1>9, <2>2, TripleCircle
  <2> QED
    BY <1>1, <2>1, <2>2
<1>11. PICK j, k \in 0 .. m : j < k /\ c[j] = c[k] /\ z[j] = z[k]
  BY <1>10
<1>12. b[j] = b[k]
  <2>1. /\ GoodBoard(b[j]) /\ GoodBoard(b[k]) /\ TotalOf(b[j]) = TotalOf(b[k])
        /\ Len(b[j][Stock]) = Len(b[k][Stock]) /\ OrderOf(b[j]) = OrderOf(b[k])
    BY <1>5, <1>6, <1>11
  <2>2. \A t \in PileType : t # Stock /\ t # Waste => b[k][t] = b[j][t]
    BY <1>4
  <2> QED
    BY <2>1, <2>2, SameOrder
<1> QED
  BY <1>11, <1>12

---------------------------------------------------------------------------
(* A board is known by its hash.                                           *)
(* Cards of one facing are known without it.                               *)
LEMMA BareFace ==
  ASSUME NEW s \in Seq(Card), NEW r \in Seq(Card), NEW b \in BOOLEAN,
         \A k \in 1 .. Len(s) : s[k].up = b,
         \A k \in 1 .. Len(r) : r[k].up = b,
         Facing(s, TRUE) = Facing(r, TRUE)
  PROVE  s = r
<1>1. /\ Len(Facing(s, TRUE)) = Len(s)
      /\ \A k \in 1 .. Len(s) : /\ Facing(s, TRUE)[k].suit = s[k].suit
                                /\ Facing(s, TRUE)[k].rank = s[k].rank
  BY FacingFacts
<1>2. /\ Len(Facing(r, TRUE)) = Len(r)
      /\ \A k \in 1 .. Len(r) : /\ Facing(r, TRUE)[k].suit = r[k].suit
                                /\ Facing(r, TRUE)[k].rank = r[k].rank
  BY FacingFacts
<1>3. Len(s) = Len(r)
  BY <1>1, <1>2
<1>4. ASSUME NEW k \in 1 .. Len(s)
      PROVE  s[k] = r[k]
  <2>1. s[k] \in Card /\ r[k] \in Card
    BY <1>3, ElementOfSeq
  <2>2. s[k].suit = r[k].suit /\ s[k].rank = r[k].rank /\ s[k].up = r[k].up
    BY <1>1, <1>2, <1>3
  <2>3. \A c, d \in Card : c.suit = d.suit /\ c.rank = d.rank /\ c.up = d.up => c = d
    BY DEF Card
  <2> QED
    BY <2>1, <2>2, <2>3
<1> QED
  BY <1>3, <1>4, SeqEqual

(* A slot that is built is known by its top card.                          *)
LEMMA SlotOfTop ==
  ASSUME NEW t \in Foundations, NEW s, NEW r, GoodPile(t, s), GoodPile(t, r),
         s # << >>, r # << >>, Last(s) = Last(r)
  PROVE  s = r
<1>1. /\ s \in Seq(Card) /\ r \in Seq(Card) /\ FoundationBuilt(s) /\ FoundationBuilt(r)
      /\ \A k \in 1 .. Len(s) : s[k].up
      /\ \A k \in 1 .. Len(r) : r[k].up
  BY DEF GoodPile
<1>2. Len(s) \in 1 .. Len(s) /\ Len(r) \in 1 .. Len(r) /\ Len(s) \in Nat /\ Len(r) \in Nat
  BY <1>1, LenProperties, EmptySeq
<1>3. s[Len(s)] = r[Len(r)]
  BY DEF Last
<1>4. Len(s) = Len(r)
  BY <1>1, <1>2, <1>3 DEF FoundationBuilt
<1>5. ASSUME NEW k \in 1 .. Len(s)
      PROVE  s[k] = r[k]
  <2>1. s[k] \in Card /\ r[k] \in Card /\ k \in 1 .. Len(r)
    BY <1>1, <1>4, ElementOfSeq
  <2>2. s[k].rank = k /\ s[k].suit = s[1].suit /\ r[k].rank = k /\ r[k].suit = r[1].suit
    BY <1>1, <2>1 DEF FoundationBuilt
  <2>3. s[Len(s)].suit = s[1].suit /\ r[Len(r)].suit = r[1].suit
    BY <1>1, <1>2 DEF FoundationBuilt
  <2>4. \A c \in Card : c.up \in BOOLEAN
    BY DEF Card
  <2>5. s[k].up = TRUE /\ r[k].up = TRUE
    BY <1>1, <2>1, <2>4
  <2>6. s[k].suit = r[k].suit /\ s[k].rank = r[k].rank /\ s[k].up = r[k].up
    BY <1>3, <2>2, <2>3, <2>5
  <2>7. \A c, d \in Card : c.suit = d.suit /\ c.rank = d.rank /\ c.up = d.up => c = d
    BY DEF Card
  <2> QED
    BY <2>1, <2>6, <2>7
<1> QED
  BY <1>1, <1>4, <1>5, SeqEqual

(* The tuple that is hashed tells good boards apart.                       *)
LEMMA HashKnowsBoard ==
  ASSUME NEW p, NEW q, GoodBoard(p), GoodBoard(q), CanonicalHash(p) = CanonicalHash(q)
  PROVE  p = q
<1>1. PICK a, b, c, d :
        /\ a = [t \in Tableaus |-> p[t]]
        /\ b = [t \in Foundations |-> IF p[t] = << >> THEN << >> ELSE <<Last(p[t])>>]
        /\ c = Facing(p[Stock], TRUE) /\ d = Facing(p[Waste], TRUE)
  OBVIOUS
<1>2. PICK e, f, g, h :
        /\ e = [t \in Tableaus |-> q[t]]
        /\ f = [t \in Foundations |-> IF q[t] = << >> THEN << >> ELSE <<Last(q[t])>>]
        /\ g = Facing(q[Stock], TRUE) /\ h = Facing(q[Waste], TRUE)
  OBVIOUS
<1>3. a = e /\ b = f /\ c = g /\ d = h
  <2>1. CanonicalHash(p) = <<a, b, c, d>> /\ CanonicalHash(q) = <<e, f, g, h>>
    BY <1>1, <1>2 DEF CanonicalHash
  <2>2. <<a, b, c, d>> = <<e, f, g, h>>
    BY <2>1
  <2> QED
    BY <2>2
<1>4. ASSUME NEW t \in Tableaus
      PROVE  p[t] = q[t]
  <2>1. a[t] = p[t] /\ e[t] = q[t]
    BY <1>1, <1>2
  <2> QED
    BY <1>3, <2>1
<1>5. ASSUME NEW t \in Foundations
      PROVE  p[t] = q[t]
  <2>1. /\ b[t] = IF p[t] = << >> THEN << >> ELSE <<Last(p[t])>>
        /\ f[t] = IF q[t] = << >> THEN << >> ELSE <<Last(q[t])>>
    BY <1>1, <1>2
  <2>2. b[t] = f[t]
    BY <1>3
  <2>3. t \in PileType /\ GoodPile(t, p[t]) /\ GoodPile(t, q[t])
    BY PileKinds DEF GoodBoard
  <2>4. \A x, y : <<x>> # << >> /\ (<<x>> = <<y>> => x = y)
    OBVIOUS
  <2>5. CASE p[t] = << >>
    BY <2>1, <2>2, <2>4, <2>5
  <2>6. CASE p[t] # << >>
    <3>1. q[t] # << >> /\ Last(p[t]) = Last(q[t])
      BY <2>1, <2>2, <2>4, <2>6
    <3> QED
      BY <2>3, <2>6, <3>1, SlotOfTop
  <2> QED
    BY <2>5, <2>6
<1>6. /\ p[Stock] \in Seq(Card) /\ p[Waste] \in Seq(Card)
      /\ q[Stock] \in Seq(Card) /\ q[Waste] \in Seq(Card)
      /\ \A k \in 1 .. Len(p[Stock]) : ~ p[Stock][k].up
      /\ \A k \in 1 .. Len(q[Stock]) : ~ q[Stock][k].up
      /\ \A k \in 1 .. Len(p[Waste]) : p[Waste][k].up
      /\ \A k \in 1 .. Len(q[Waste]) : q[Waste][k].up
  BY PileKinds DEF GoodBoard, GoodPile
<1>7. \A x \in Card : x.up \in BOOLEAN
  BY DEF Card
<1>8. p[Stock] = q[Stock]
  <2> DEFINE s == p[Stock]
             r == q[Stock]
  <2>1. s \in Seq(Card) /\ r \in Seq(Card) /\ Facing(s, TRUE) = Facing(r, TRUE)
    BY <1>1, <1>2, <1>3, <1>6
  <2>2. /\ \A k \in 1 .. Len(s) : s[k].up = FALSE
        /\ \A k \in 1 .. Len(r) : r[k].up = FALSE
    <3>1. /\ \A k \in 1 .. Len(s) : s[k] \in Card
          /\ \A k \in 1 .. Len(r) : r[k] \in Card
      BY <2>1, ElementOfSeq
    <3> QED
      BY <1>6, <1>7, <3>1
  <2> HIDE DEF s, r
  <2>3. s = r
    BY <2>1, <2>2, BareFace
  <2> QED
    BY <2>3 DEF s, r
<1>9. p[Waste] = q[Waste]
  <2> DEFINE s == p[Waste]
             r == q[Waste]
  <2>1. s \in Seq(Card) /\ r \in Seq(Card) /\ Facing(s, TRUE) = Facing(r, TRUE)
    BY <1>1, <1>2, <1>3, <1>6
  <2>2. /\ \A k \in 1 .. Len(s) : s[k].up = TRUE
        /\ \A k \in 1 .. Len(r) : r[k].up = TRUE
    <3>1. /\ \A k \in 1 .. Len(s) : s[k] \in Card
          /\ \A k \in 1 .. Len(r) : r[k] \in Card
      BY <2>1, ElementOfSeq
    <3> QED
      BY <1>6, <1>7, <3>1
  <2> HIDE DEF s, r
  <2>3. s = r
    BY <2>1, <2>2, BareFace
  <2> QED
    BY <2>3 DEF s, r
<1>10. \A t \in PileType : p[t] = q[t]
  BY <1>4, <1>5, <1>8, <1>9 DEF PileType
<1> QED
  BY <1>10 DEF GoodBoard, Boards

---------------------------------------------------------------------------
(* The search leaves nothing out: the invariant.                           *)

(* A board whose position the search has met.                              *)
Met(p, met) == GoodBoard(p) /\ CanonicalHash(p) \in met

(* A board met, up to the order of columns and of slots.                   *)
Reaches(q, met) == \E p : Met(p, met) /\ Twin(p, q)

(* A frame of the stack still has the move from p to q to try.             *)
ToTry(p, q, s) ==
  \E k \in 1 .. Len(s) :
    /\ s[k].state = p
    /\ \E i \in 1 .. Len(s[k].pending) : Twin(AfterSolverMove(p, s[k].pending[i]), q)

(* Every step of play from a board that was met leads to one that was met, *)
(* or is yet to be tried.                                                  *)
Explored(met, s) ==
  \A p : Met(p, met) =>
           /\ OnePlace(p) /\ ~ CheckWin(p)
           /\ \A q \in PlaySteps(p, draw_count, FALSE) : Reaches(q, met) \/ ToTry(p, q, s)

(* draws counts the draws since the last other move of the line.           *)
DrawChain(s) ==
  /\ s # << >> => s[1].draws = 0
  /\ \A k \in 1 .. Len(s) - 1 :
       \/ s[k + 1].draws = 0
       \/ s[k + 1].draws = s[k].draws + 1 /\ s[k + 1].state = AfterStock(s[k].state)

(* A draw or a recycle keeps stock and waste together as they are.         *)
LEMMA StockKeepsTotal ==
  ASSUME NEW p, GoodBoard(p), draw_count \in DrawCounts
  PROVE  GoodBoard(AfterStock(p)) /\ TotalOf(AfterStock(p)) = TotalOf(p)
<1> DEFINE n == draw_count
<1>1. n \in Nat \ {0} /\ n \in Nat
  BY SolverAssumption
<1> HIDE DEF n
<1>2. CASE p[Stock] # << >>
  <2> DEFINE q == AfterDraw(p, n)
  <2>1. GoodBoard(q)
    BY <1>1, DrawGood
  <2> HIDE DEF q
  <2>2. q = AfterDraw(p, n)
    BY DEF q
  <2>3. TotalOf(q) = TotalOf(p)
    BY <1>1, <1>2, <2>1, <2>2, DrawTurns
  <2>4. AfterStock(p) = q
    BY <1>2 DEF AfterStock, q, n
  <2> QED
    BY <2>1, <2>3, <2>4
<1>3. CASE p[Stock] = << >>
  <2> DEFINE q == AfterRecycle(p)
  <2>1. GoodBoard(q)
    BY <1>3, RecycleGood
  <2> HIDE DEF q
  <2>2. q = AfterRecycle(p)
    BY DEF q
  <2>3. TotalOf(q) = TotalOf(p)
    BY <1>3, <2>1, <2>2, RecycleTurns
  <2>4. AfterStock(p) = q
    BY <1>3 DEF AfterStock, q
  <2> QED
    BY <2>1, <2>3, <2>4
<1> QED
  BY <1>2, <1>3

(* Where the solver no longer cares to draw, the draw leads back into the  *)
(* line.                                                                   *)
LEMMA LongDraws ==
  ASSUME NEW s, NEW met, Line(s, met), DrawChain(s), s # << >>, draw_count \in DrawCounts,
         NEW p, p = s[Len(s)].state, p[Stock] \o p[Waste] # << >>,
         ~ DrawWorthwhile(p, s[Len(s)].draws)
  PROVE  \E k \in 1 .. Len(s) : s[k].state = AfterStock(p)
<1> DEFINE n == Len(s)
           D == s[n].draws
           T == TotalOf(p)
           q == AfterStock(p)
<1>1. s \in Seq(Frame) /\ n \in Nat \ {0} /\ n \in 1 .. n
  BY EmptySeq, LenProperties DEF Line
<1>2. \A k \in 1 .. n : s[k] \in Frame /\ s[k].draws \in Nat /\ GoodBoard(s[k].state)
  BY DEF Line, Sound, Frame
<1>3. GoodBoard(p) /\ D \in Nat
  BY <1>1, <1>2
<1>4. T \in Nat \ {0} /\ D >= T + 2
  <2> DEFINE c == Len(p[Stock])
             W == Len(p[Waste])
  <2>1. /\ p[Stock] \in Seq(Card) /\ p[Waste] \in Seq(Card) /\ c \in Nat /\ W \in Nat
        /\ T = c + W
    BY <1>3, OrderFacts DEF TotalOf
  <2>2. ~ (D <= c + W + 1)
    BY DEF DrawWorthwhile
  <2>3. c # 0 \/ W # 0
    <3>1. p[Stock] # << >> \/ p[Waste] # << >>
      BY <2>1
    <3> QED
      BY <2>1, <3>1, EmptySeq
  <2> HIDE DEF c, W, T, D
  <2> QED
    BY <1>3, <2>1, <2>2, <2>3
<1>5. GoodBoard(q)
  BY <1>3, StockKeepsTotal
<1>6. /\ s[1].draws = 0
      /\ \A k \in 1 .. n - 1 :
           \/ s[k + 1].draws = 0
           \/ s[k + 1].draws = s[k].draws + 1 /\ s[k + 1].state = AfterStock(s[k].state)
  BY DEF DrawChain
<1> HIDE DEF n, D, T, q
<1> DEFINE S == {j \in 0 .. T + 2 :
                   /\ n - j \in 1 .. n
                   /\ s[n - j].draws = D - j
                   /\ TotalOf(s[n - j].state) = T
                   /\ j # 0 => s[n - j + 1].state = AfterStock(s[n - j].state)}
<1>7. \A j \in 0 .. T + 2 : j \in S
  <2>1. 0 \in S
    <3>1. 0 \in 0 .. T + 2 /\ n - 0 = n /\ D - 0 = D
      BY <1>1, <1>3, <1>4
    <3>2. s[n].draws = D /\ TotalOf(s[n].state) = T
      BY DEF n, D, T
    <3> QED
      BY <1>1, <3>1, <3>2
  <2>2. ASSUME NEW j \in 1 .. T + 2, j - 1 \in S
        PROVE  j \in S
    <3>1. PICK k \in Int : k = n - j
      BY <1>1
    <3>2. n - (j - 1) = k + 1 /\ D - (j - 1) = D - j + 1
      BY <1>1, <1>3, <1>4, <3>1
    <3>3. /\ k + 1 \in 1 .. n /\ s[k + 1].draws = D - j + 1 /\ TotalOf(s[k + 1].state) = T
      BY <2>2, <3>2
    <3>4. D - j + 1 \in Nat \ {0}
      BY <1>3, <1>4
    <3>5. k # 0
      BY <1>6, <3>3, <3>4
    <3>6. k \in 1 .. n - 1 /\ k \in 1 .. n
      BY <1>1, <3>1, <3>3, <3>5
    <3>7. s[k + 1].draws = s[k].draws + 1 /\ s[k + 1].state = AfterStock(s[k].state)
      BY <1>6, <3>3, <3>4, <3>6
    <3>8. s[k].draws = D - j
      <4>1. s[k].draws \in Nat
        BY <1>2, <3>6 DEF n
      <4>2. s[k].draws + 1 = D - j + 1
        BY <3>3, <3>7
      <4> QED
        BY <1>3, <1>4, <4>1, <4>2
    <3>9. TotalOf(s[k].state) = T
      <4>1. GoodBoard(s[k].state)
        BY <1>2, <3>6 DEF n
      <4>2. TotalOf(AfterStock(s[k].state)) = TotalOf(s[k].state)
        BY <4>1, StockKeepsTotal
      <4> QED
        BY <3>3, <3>7, <4>2
    <3>10. j \in 0 .. T + 2
      BY <1>4
    <3> QED
      BY <3>1, <3>6, <3>7, <3>8, <3>9, <3>10
  <2>3. T + 2 \in Nat
    BY <1>4
  <2> HIDE DEF S
  <2> QED
    BY <2>1, <2>2, <2>3, Climbs
<1>8. \A j \in 0 .. T + 2 : /\ n - j \in 1 .. n
                            /\ TotalOf(s[n - j].state) = T
                            /\ j # 0 => s[n - j + 1].state = AfterStock(s[n - j].state)
  BY <1>7
<1> DEFINE at(k) == n - (T + 2) + k
           b == [k \in 0 .. T + 3 |-> IF k = T + 3 THEN q ELSE s[at(k)].state]
<1>9. b[T + 3] = q /\ \A k \in 0 .. T + 2 : b[k] = s[at(k)].state
  <2>1. T + 3 \in 0 .. T + 3 /\ \A k \in 0 .. T + 2 : k \in 0 .. T + 3 /\ k # T + 3
    BY <1>4
  <2> HIDE DEF at
  <2> QED
    BY <2>1
<1> HIDE DEF b
<1>10. \A k \in 0 .. T + 2 : at(k) \in 1 .. n
  <2>1. ASSUME NEW k \in 0 .. T + 2
        PROVE  at(k) \in 1 .. n
    <3>1. (T + 2) - k \in 0 .. T + 2 /\ n - ((T + 2) - k) = at(k)
      BY <1>1, <1>4
    <3> HIDE DEF at
    <3> QED
      BY <1>8, <3>1
  <2> QED
    BY <2>1
<1>11. \A k \in 0 .. T + 3 : k = T + 3 \/ k \in 0 .. T + 2
  BY <1>4
<1>12. \A k \in 0 .. T + 3 : GoodBoard(b[k])
  <2> HIDE DEF at
  <2> QED
    BY <1>2, <1>5, <1>9, <1>10, <1>11 DEF n
<1>13. TotalOf(b[0]) = T
  <2>1. 0 \in 0 .. T + 2 /\ T + 2 \in 0 .. T + 2 /\ at(0) = n - (T + 2)
    BY <1>1, <1>4
  <2>2. b[0] = s[n - (T + 2)].state
    <3> HIDE DEF at
    <3> QED
      BY <1>9, <2>1
  <2> QED
    BY <1>8, <2>1, <2>2
<1>14. ASSUME NEW k \in 1 .. T + 3
       PROVE  b[k] = AfterStock(b[k - 1])
  <2>1. k - 1 \in 0 .. T + 2
    BY <1>4
  <2>2. CASE k = T + 3
    <3>1. at(k - 1) = n
      BY <1>1, <1>4, <2>2
    <3>2. b[k - 1] = s[n].state
      <4> HIDE DEF at
      <4> QED
        BY <1>9, <2>1, <3>1
    <3> QED
      BY <1>9, <2>2, <3>2 DEF q, n
  <2>3. CASE k # T + 3
    <3>1. PICK j \in Int : j = T + 3 - k
      BY <1>4
    <3>2. /\ j \in 0 .. T + 2 /\ j # 0 /\ k \in 0 .. T + 2
          /\ n - j + 1 = at(k) /\ n - j = at(k - 1)
      BY <1>1, <1>4, <2>3, <3>1
    <3>3. s[n - j + 1].state = AfterStock(s[n - j].state)
      BY <1>8, <3>2
    <3> HIDE DEF at
    <3> QED
      BY <1>9, <2>1, <3>2, <3>3
  <2> QED
    BY <2>2, <2>3
<1>15. PICK i, k \in 0 .. T + 3 : i < k /\ b[i] = b[k]
  BY <1>4, <1>12, <1>13, <1>14, DrawsReturn
<1>16. i \in 0 .. T + 2
  BY <1>4, <1>15
<1>17. CASE k = T + 3
  <2> HIDE DEF at
  <2>1. at(i) \in 1 .. n /\ s[at(i)].state = q
    BY <1>9, <1>10, <1>15, <1>16, <1>17
  <2> QED
    BY <2>1 DEF q, n
<1>18. CASE k # T + 3
  <2>1. k \in 0 .. T + 2
    BY <1>4, <1>18
  <2>2. at(i) # at(k)
    BY <1>1, <1>4, <1>15
  <2> HIDE DEF at
  <2>3. at(i) \in 1 .. n /\ at(k) \in 1 .. n /\ s[at(i)].state = s[at(k)].state
    BY <1>9, <1>10, <1>15, <1>16, <2>1
  <2> QED
    BY <2>2, <2>3 DEF Line, n
<1> QED
  BY <1>17, <1>18

(* The frames of a stack of which the last move to try was taken.          *)
LEMMA TakenFrames ==
  ASSUME NEW s \in Seq(Frame), s # << >>, Last(s).pending # << >>,
         NEW r, r = [s EXCEPT ![Len(s)].pending = Tail(@)]
  PROVE  /\ Len(r) = Len(s)
         /\ \A k \in 1 .. Len(s) : r[k].state = s[k].state /\ r[k].draws = s[k].draws
         /\ \A k \in 1 .. Len(s) - 1 : r[k].pending = s[k].pending
         /\ r[Len(s)].pending = Tail(s[Len(s)].pending)
<1> DEFINE n == Len(s)
           g == [s[n] EXCEPT !.pending = Tail(@)]
<1>1. n \in Nat \ {0} /\ n \in 1 .. n /\ DOMAIN s = 1 .. n
  BY EmptySeq, LenProperties
<1>2. \A k \in 1 .. n : s[k] \in Frame
  BY ElementOfSeq
<1>3. s[n] \in Frame /\ s[n].pending \in Seq(Move) /\ s[n].pending # << >>
  BY <1>1, <1>2 DEF Frame, Last
<1>4. Tail(s[n].pending) \in Seq(Move)
  BY <1>3, HeadTailProperties
<1>5. /\ g \in Frame /\ g.state = s[n].state /\ g.draws = s[n].draws
      /\ g.pending = Tail(s[n].pending)
  BY <1>3, <1>4 DEF Frame
<1>6. /\ r \in [1 .. n -> Frame]
      /\ \A k \in 1 .. n : r[k] = IF k = n THEN g ELSE s[k]
  <2>1. r = [k \in 1 .. n |-> IF k = n THEN g ELSE s[k]]
    BY <1>1
  <2> HIDE DEF g, n
  <2> QED
    BY <1>2, <1>5, <2>1 DEF n
<1> HIDE DEF g, n
<1>7. Len(r) = n
  BY <1>1, <1>6, SeqOfFunction
<1>8. \A k \in 1 .. n - 1 : k \in 1 .. n /\ k # n
  BY <1>1
<1>9. \A k \in 1 .. n : r[k].state = s[k].state /\ r[k].draws = s[k].draws
  BY <1>5, <1>6
<1>10. r[n].pending = Tail(s[n].pending)
  BY <1>1, <1>5, <1>6
<1>11. \A k \in 1 .. n - 1 : r[k].pending = s[k].pending
  BY <1>6, <1>8
<1> QED
  BY <1>7, <1>9, <1>10, <1>11 DEF n

LEMMA PoppedFrames ==
  ASSUME NEW s \in Seq(Frame), s # << >>
  PROVE  Len(Front(s)) = Len(s) - 1 /\ \A k \in 1 .. Len(s) - 1 : Front(s)[k] = s[k]
<1> DEFINE n == Len(s) - 1
<1>1. n \in Nat /\ 1 .. n \subseteq 1 .. Len(s)
  BY EmptySeq, LenProperties
<1>2. \A i \in 1 .. n : s[i] \in Frame
  BY <1>1, ElementOfSeq
<1>3. Front(s) = SubSeq(s, 1, n)
  BY DEF Front
<1> HIDE DEF n
<1>4. /\ Len(SubSeq(s, 1, n)) = IF 1 <= n THEN n - 1 + 1 ELSE 0
      /\ \A i \in 1 .. n - 1 + 1 : SubSeq(s, 1, n)[i] = s[1 + i - 1]
  BY <1>1, <1>2, SubSeqProperties
<1>5. (IF 1 <= n THEN n - 1 + 1 ELSE 0) = n /\ 1 .. n - 1 + 1 = 1 .. n
  BY <1>1
<1>6. \A i \in 1 .. n : 1 + i - 1 = i
  BY <1>1
<1>7. Len(Front(s)) = n /\ \A k \in 1 .. n : Front(s)[k] = s[k]
  BY <1>3, <1>4, <1>5, <1>6
<1> QED
  BY <1>7 DEF n

(* What is left to try once a move was taken, and once a frame is popped.  *)
LEMMA TakenTries ==
  ASSUME NEW s \in Seq(Frame), s # << >>, Last(s).pending # << >>,
         NEW r, r = [s EXCEPT ![Len(s)].pending = Tail(@)],
         NEW p, NEW q, ToTry(p, q, s)
  PROVE  \/ ToTry(p, q, r)
         \/ p = Last(s).state /\ Twin(AfterSolverMove(p, Head(Last(s).pending)), q)
<1> DEFINE n == Len(s)
<1>1. n \in Nat \ {0} /\ n \in 1 .. n /\ Last(s) = s[n] /\ s[n] \in Frame
  BY EmptySeq, LenProperties, ElementOfSeq DEF Last
<1>2. /\ Len(r) = n
      /\ \A k \in 1 .. n : r[k].state = s[k].state
      /\ \A k \in 1 .. n - 1 : r[k].pending = s[k].pending
      /\ r[n].pending = Tail(s[n].pending)
  BY TakenFrames
<1>3. PICK k \in 1 .. n :
        /\ s[k].state = p
        /\ \E i \in 1 .. Len(s[k].pending) : Twin(AfterSolverMove(p, s[k].pending[i]), q)
  BY DEF ToTry
<1>4. PICK i \in 1 .. Len(s[k].pending) : Twin(AfterSolverMove(p, s[k].pending[i]), q)
  BY <1>3
<1> DEFINE w == s[n].pending
<1>5. /\ w \in Seq(Move) /\ w # << >> /\ Len(w) \in Nat \ {0} /\ Head(w) = w[1]
      /\ Len(Tail(w)) = Len(w) - 1 /\ \A j \in 1 .. Len(w) - 1 : Tail(w)[j] = w[j + 1]
  <2>1. w \in Seq(Move) /\ w # << >>
    BY <1>1 DEF Frame
  <2> HIDE DEF w
  <2> QED
    BY <2>1, EmptySeq, LenProperties, HeadTailProperties
<1> HIDE DEF n, w
<1>6. CASE k # n
  <2>1. k \in 1 .. n - 1
    BY <1>1, <1>6
  <2> QED
    BY <1>2, <1>3, <1>4, <2>1 DEF ToTry
<1>7. CASE k = n /\ i = 1
  <2>1. Head(Last(s).pending) = s[k].pending[i] /\ p = Last(s).state
    BY <1>1, <1>3, <1>5, <1>7 DEF w
  <2> QED
    BY <1>4, <2>1
<1>8. CASE k = n /\ i # 1
  <2>1. s[k].pending = w /\ r[k].pending = Tail(w)
    BY <1>2, <1>8 DEF w
  <2>2. i \in 1 .. Len(w)
    BY <2>1
  <2> PICK j \in Int : j = i - 1
    BY <2>2
  <2>3. j \in 1 .. Len(w) - 1 /\ j + 1 = i
    BY <1>5, <1>8, <2>2
  <2>4. r[k].pending[j] = s[k].pending[i] /\ j \in 1 .. Len(r[k].pending)
    BY <1>5, <2>1, <2>3
  <2>5. r[k].state = p
    BY <1>2, <1>3
  <2> QED
    BY <1>2, <1>4, <2>4, <2>5 DEF ToTry
<1> QED
  BY <1>6, <1>7, <1>8

LEMMA PoppedTries ==
  ASSUME NEW s \in Seq(Frame), s # << >>, Last(s).pending = << >>,
         NEW p, NEW q, ToTry(p, q, s)
  PROVE  ToTry(p, q, Front(s))
<1> DEFINE n == Len(s)
           r == Front(s)
<1>1. n \in Nat \ {0} /\ Last(s) = s[n]
  BY EmptySeq, LenProperties DEF Last
<1>2. Len(r) = n - 1 /\ \A k \in 1 .. n - 1 : r[k] = s[k]
  BY PoppedFrames
<1>3. PICK k \in 1 .. n :
        /\ s[k].state = p
        /\ \E i \in 1 .. Len(s[k].pending) : Twin(AfterSolverMove(p, s[k].pending[i]), q)
  BY DEF ToTry
<1>4. k # n
  <2>1. 1 .. Len(<< >>) = {}
    OBVIOUS
  <2> QED
    BY <1>1, <1>3, <2>1
<1> HIDE DEF n, r
<1>5. k \in 1 .. n - 1
  BY <1>1, <1>4
<1>6. ToTry(p, q, r)
  BY <1>2, <1>3, <1>5 DEF ToTry
<1> QED
  BY <1>6 DEF r

LEMMA PushedTries ==
  ASSUME NEW s \in Seq(Frame), NEW f \in Frame, NEW p, NEW q, ToTry(p, q, s)
  PROVE  ToTry(p, q, Append(s, f))
<1> DEFINE r == Append(s, f)
<1>1. Len(r) = Len(s) + 1 /\ Len(s) \in Nat /\ \A k \in 1 .. Len(s) : r[k] = s[k]
  OBVIOUS
<1> HIDE DEF r
<1>2. \A k \in 1 .. Len(s) : k \in 1 .. Len(r)
  BY <1>1
<1>3. ToTry(p, q, r)
  BY <1>1, <1>2 DEF ToTry
<1> QED
  BY <1>3 DEF r

(* draws counts the draws of the shorter and of the longer line as well.   *)
LEMMA TakenChain ==
  ASSUME NEW s \in Seq(Frame), s # << >>, Last(s).pending # << >>, DrawChain(s),
         NEW r, r = [s EXCEPT ![Len(s)].pending = Tail(@)]
  PROVE  DrawChain(r)
<1>1. Len(s) \in Nat \ {0}
  BY EmptySeq, LenProperties
<1>2. /\ Len(r) = Len(s)
      /\ \A k \in 1 .. Len(s) : r[k].state = s[k].state /\ r[k].draws = s[k].draws
  BY TakenFrames
<1>3. /\ 1 \in 1 .. Len(s)
      /\ \A k \in 1 .. Len(s) - 1 : k \in 1 .. Len(s) /\ k + 1 \in 1 .. Len(s)
  BY <1>1
<1> QED
  BY <1>2, <1>3 DEF DrawChain

LEMMA PoppedChain ==
  ASSUME NEW s \in Seq(Frame), s # << >>, DrawChain(s)
  PROVE  DrawChain(Front(s))
<1> DEFINE r == Front(s)
<1>1. Len(s) \in Nat \ {0}
  BY EmptySeq, LenProperties
<1>2. Len(r) = Len(s) - 1 /\ \A k \in 1 .. Len(s) - 1 : r[k] = s[k]
  BY PoppedFrames
<1>3. r # << >> => r[1] = s[1]
  <2>1. r = << >> \/ Len(r) # 0
    <3>1. r \in Seq(Frame)
      <4>1. r = SubSeq(s, 1, Len(s) - 1)
        BY DEF Front
      <4>2. \A i \in 1 .. Len(s) - 1 : s[i] \in Frame
        BY <1>1, ElementOfSeq
      <4> HIDE DEF r
      <4> QED
        BY <1>1, <4>1, <4>2, SubSeqProperties
    <3> HIDE DEF r
    <3> QED
      BY <3>1, EmptySeq
  <2> HIDE DEF r
  <2> QED
    BY <1>1, <1>2, <2>1
<1> HIDE DEF r
<1>4. \A k \in 1 .. Len(r) - 1 : /\ k \in 1 .. Len(s) - 1 /\ k + 1 \in 1 .. Len(s) - 1
  BY <1>1, <1>2
<1>5. DrawChain(r)
  BY <1>2, <1>3, <1>4 DEF DrawChain
<1> QED
  BY <1>5 DEF r

LEMMA PushedChain ==
  ASSUME NEW s \in Seq(Frame), s # << >>, DrawChain(s), NEW f \in Frame,
         \/ f.draws = 0
         \/ f.draws = Last(s).draws + 1 /\ f.state = AfterStock(Last(s).state)
  PROVE  DrawChain(Append(s, f))
<1> DEFINE r == Append(s, f)
           n == Len(s)
<1>1. n \in Nat \ {0} /\ Last(s) = s[n]
  BY EmptySeq, LenProperties DEF Last
<1>2. /\ Len(r) = n + 1 /\ r[n + 1] = f /\ (n + 1) - 1 = n
      /\ \A k \in 1 .. n : r[k] = s[k]
  BY <1>1
<1> HIDE DEF r
<1>3. s[1].draws = 0 /\ 1 \in 1 .. n
  BY <1>1 DEF DrawChain
<1>4. ASSUME NEW k \in 1 .. n
      PROVE  \/ r[k + 1].draws = 0
             \/ r[k + 1].draws = r[k].draws + 1 /\ r[k + 1].state = AfterStock(r[k].state)
  <2>1. CASE k = n
    BY <1>1, <1>2, <2>1
  <2>2. CASE k # n
    <3>1. k \in 1 .. n - 1 /\ k + 1 \in 1 .. n
      BY <1>1, <2>2
    <3> QED
      BY <1>2, <3>1 DEF DrawChain
  <2> QED
    BY <2>1, <2>2
<1>5. DrawChain(r)
  BY <1>2, <1>3, <1>4 DEF DrawChain
<1> QED
  BY <1>5 DEF r

(* A frame just opened has every step of play from its board to try, or    *)
(* knows where it leads.                                                   *)
LEMMA OpenedCovers ==
  ASSUME NEW s, NEW met, Line(s, met), DrawChain(s), s # << >>, draw_count \in DrawCounts,
         NEW f, f = s[Len(s)], f.pending = EnumerateMoves(f.state, f.draws),
         OnePlace(f.state), NEW q \in PlaySteps(f.state, draw_count, FALSE)
  PROVE  Reaches(q, met) \/ ToTry(f.state, q, s)
<1> DEFINE n == Len(s)
           p == f.state
<1>1. s \in Seq(Frame) /\ n \in Nat \ {0} /\ n \in 1 .. n
  BY EmptySeq, LenProperties DEF Line
<1>2. \A k \in 1 .. n : GoodBoard(s[k].state) /\ CanonicalHash(s[k].state) \in met
  BY DEF Line, Sound
<1>3. GoodBoard(p) /\ Met(p, met)
  BY <1>1, <1>2 DEF Met
<1>4. \/ Twin(p, q)
      \/ \E m : /\ Listed(m, EnumerateMoves(p, f.draws))
                /\ Twin(AfterSolverMove(p, m), q)
      \/ /\ p[Stock] \o p[Waste] # << >> /\ q = AfterStock(p)
         /\ ~ DrawWorthwhile(p, f.draws)
  <2> HIDE DEF p
  <2> QED
    BY <1>3, EveryStepCovered DEF p
<1>5. CASE Twin(p, q)
  BY <1>3, <1>5 DEF Reaches
<1>6. ASSUME NEW m, Listed(m, EnumerateMoves(p, f.draws)), Twin(AfterSolverMove(p, m), q)
      PROVE  ToTry(p, q, s)
  <2>1. PICK i \in 1 .. Len(f.pending) : f.pending[i] = m
    BY <1>6 DEF Listed
  <2> QED
    BY <1>1, <1>6, <2>1 DEF ToTry
<1>7. CASE /\ p[Stock] \o p[Waste] # << >> /\ q = AfterStock(p)
           /\ ~ DrawWorthwhile(p, f.draws)
  <2>1. PICK k \in 1 .. n : s[k].state = q
    <3> HIDE DEF p
    <3>1. p = s[Len(s)].state /\ ~ DrawWorthwhile(p, s[Len(s)].draws)
      BY <1>7 DEF p
    <3> QED
      BY <1>7, <3>1, LongDraws
  <2>2. Met(q, met)
    BY <1>2, <2>1 DEF Met
  <2> QED
    BY <2>2, TwinSame DEF Reaches
<1> QED
  BY <1>4, <1>5, <1>6, <1>7

(* A play from p to a won board without a take-back, or no play at all     *)
(* where p is won.                                                         *)
WinsFrom(p, line) ==
  /\ line \in Seq(Boards)
  /\ line # << >>
  /\ line[1] = p
  /\ \A k \in 1 .. Len(line) - 1 :
       line[k + 1] \in PlaySteps(line[k], draw_count, FALSE)
  /\ CheckWin(line[Len(line)])

(* With nothing left to try, no line of play leads out of what was met.    *)
LEMMA NothingWins ==
  ASSUME NEW met, Explored(met, << >>), GoodBoard(root), CanonicalHash(root) \in met,
         draw_count \in DrawCounts, NEW line
  PROVE  ~ WinsFrom(root, line)
<1> SUFFICES ASSUME WinsFrom(root, line)
             PROVE  FALSE
  OBVIOUS
<1> DEFINE n == Len(line)
<1>1. line \in Seq(Boards) /\ n \in Nat \ {0} /\ draw_count \in Nat
  BY EmptySeq, LenProperties, SolverAssumption DEF WinsFrom
<1>2. \A p, q : ~ ToTry(p, q, << >>)
  BY DEF ToTry
<1>3. \A p : Met(p, met) =>
               /\ ~ CheckWin(p) /\ GoodBoard(p)
               /\ \A q \in PlaySteps(p, draw_count, FALSE) : Reaches(q, met)
  BY <1>2 DEF Explored, Met
<1> HIDE DEF n
<1> DEFINE m == n - 1
           S == {k \in 0 .. m : GoodBoard(line[k + 1]) /\ Reaches(line[k + 1], met)}
<1>4. m \in Nat /\ m \in 0 .. m /\ 0 \in 0 .. m /\ m + 1 = n
  BY <1>1
<1>5. 0 \in S
  <2>1. line[0 + 1] = root
    BY DEF WinsFrom
  <2>2. Reaches(root, met)
    BY TwinSame DEF Reaches, Met
  <2> HIDE DEF m
  <2> QED
    BY <1>4, <2>1, <2>2
<1>6. ASSUME NEW k \in 1 .. m, k - 1 \in S
      PROVE  k \in S
  <2> DEFINE q == line[k]
             r == line[k + 1]
  <2>1. k \in 0 .. m /\ (k - 1) + 1 = k
    BY <1>4
  <2>2. GoodBoard(q) /\ Reaches(q, met)
    BY <1>6, <2>1
  <2>3. r \in PlaySteps(q, draw_count, FALSE)
    BY DEF WinsFrom, n
  <2> HIDE DEF q, r, m
  <2>4. PICK p : Met(p, met) /\ Twin(p, q)
    BY <2>2 DEF Reaches
  <2>5. PICK t \in PlaySteps(p, draw_count, FALSE) : Twin(t, r)
    BY <1>3, <2>2, <2>3, <2>4, TwinStep
  <2>6. PICK u : Met(u, met) /\ Twin(u, t)
    BY <1>3, <2>4, <2>5 DEF Reaches
  <2>7. Twin(u, r)
    BY <2>5, <2>6, TwinOfTwin
  <2>8. GoodBoard(r)
    BY <1>1, <2>2, <2>3, PlayGood
  <2> QED
    BY <2>1, <2>6, <2>7, <2>8 DEF Reaches, r
<1>7. m \in S
  <2> HIDE DEF S, m
  <2>1. \A k \in 0 .. m : k \in S
    BY <1>4, <1>5, <1>6, Climbs
  <2> QED
    BY <1>4, <2>1
<1>8. Reaches(line[n], met)
  BY <1>4, <1>7
<1>9. PICK p : Met(p, met) /\ Twin(p, line[n])
  BY <1>8 DEF Reaches
<1>10. CheckWin(p)
  BY <1>9, TwinWon DEF WinsFrom, n
<1> QED
  BY <1>3, <1>9, <1>10

(* No play wins, of any length, without a card taken back.                 *)
UnwinnableIsRight == result = "Unwinnable" => \A line : ~ WinsFrom(root, line)

(* The invariant of the search that the verdict rests on.                  *)
CompleteInv ==
  /\ OnePlace(root)
  /\ phase = "search" => /\ Explored(visited, stack)
                         /\ DrawChain(stack)
                         /\ CanonicalHash(root) \in visited
  /\ UnwinnableIsRight

(* The parts of the invariant depend on the board asked about, the draw    *)
(* mode, the positions met and the stack only.                             *)
LEMMA SameExplored ==
  ASSUME root' = root, draw_count' = draw_count, Explored(visited', stack')
  PROVE  Explored(visited, stack)'
<1>1. \A p, m : AfterSolverMove(p, m)' = AfterSolverMove(p, m)
  BY DEF AfterSolverMove
<1>2. PICK met, s : met = visited' /\ s = stack'
  OBVIOUS
<1>3. \A p, q : ToTry(p, q, stack)' <=> ToTry(p, q, s)
  BY <1>1, <1>2 DEF ToTry
<1>4. \A q : Reaches(q, visited)' <=> Reaches(q, met)
  BY <1>2 DEF Reaches, Met
<1>5. Explored(met, s)
  BY <1>2
<1> QED
  BY <1>2, <1>3, <1>4, <1>5 DEF Explored, Met

LEMMA SameChain ==
  ASSUME draw_count' = draw_count, DrawChain(stack')
  PROVE  DrawChain(stack)'
<1>1. PICK s : s = stack'
  OBVIOUS
<1>2. \A p : AfterStock(p)' = AfterStock(p)
  BY DEF AfterStock
<1>3. DrawChain(s)
  BY <1>1
<1> QED
  BY <1>1, <1>2, <1>3 DEF DrawChain

LEMMA LineAfter ==
  ASSUME root' = root, draw_count' = draw_count, Line(stack, visited)'
  PROVE  Line(stack', visited')
<1>1. \A p, m : AfterSolverMove(p, m)' = AfterSolverMove(p, m)
  BY DEF AfterSolverMove
<1>2. \A p, m, q : Plays(p, m, q)' <=> Plays(p, m, q)
  BY DEF Plays
<1>3. \A p : Accepts(p)' = Accepts(p)
  BY <1>1, <1>2 DEF Accepts
<1>4. \A f : Sound(f)' <=> Sound(f)
  BY <1>3 DEF Sound
<1> QED
  BY <1>2, <1>4, Zenon DEF Line

(* The next move tried leads to a board met, or opens a frame that lists   *)
(* whatever can be played from it.                                         *)
LEMMA TryExplores ==
  ASSUME SearchInv, CompleteInv, Try, SearchInv', phase' = "search"
  PROVE  Explored(visited', stack') /\ DrawChain(stack')
<1> DEFINE n     == Len(stack)
           frame == Last(stack)
           m     == Head(frame.pending)
           next  == AfterSolverMove(frame.state, m)
           draws == IF IsDraw(m) THEN frame.draws + 1 ELSE 0
           rest  == [stack EXCEPT ![Len(stack)].pending = Tail(@)]
           mv    == RootMoveOfChild(frame, m)
           child == [state |-> next, draws |-> draws,
                     pending |-> EnumerateMoves(next, draws), root_move |-> mv]
<1>1. /\ phase = "search" /\ stack # << >> /\ frame.pending # << >>
      /\ root' = root /\ draw_count' = draw_count
  BY DEF Try, Searching
<1>2. /\ ~ CheckWin(next)
      /\ visited' = visited \cup {CanonicalHash(next)}
      /\ stack' = IF CanonicalHash(next) \in visited THEN rest
                                                    ELSE Append(rest, child)
  BY DEF Try, Answer
<1>3. /\ Line(stack, visited) /\ Line(stack', visited') /\ draw_count \in DrawCounts
      /\ Explored(visited, stack) /\ DrawChain(stack)
  BY <1>1, LineAfter DEF SearchInv, CompleteInv
<1>4. n \in Nat \ {0} /\ n \in 1 .. n /\ frame = stack[n] /\ stack \in Seq(Frame)
  BY <1>1, <1>3, EmptySeq, LenProperties DEF Line, Last
<1>5. Sound(frame) /\ CanonicalHash(frame.state) \in visited
  BY <1>3, <1>4 DEF Line
<1>6. GoodBoard(frame.state) /\ OnePlace(frame.state)
  BY <1>3, <1>5 DEF Sound, Explored, Met
<1>7. /\ next \in PlaySteps(frame.state, draw_count, FALSE)
      /\ GoodBoard(next)
      /\ mv \in Move
  <2> HIDE DEF next, mv, m
  <2> QED
    BY <1>1, <1>3, MadeMove DEF next, mv, m
<1>8. draws \in Nat
  BY <1>5 DEF Sound, Frame
<1>9. OnePlace(next)
  <2>1. draw_count \in Nat
    BY <1>3, SolverAssumption
  <2> HIDE DEF next, frame
  <2> QED
    BY <1>6, <1>7, <2>1, PlayOnePlace
<1>10. \/ child.draws = 0
       \/ child.draws = frame.draws + 1 /\ child.state = AfterStock(frame.state)
  BY DEF AfterSolverMove, AfterStock
<1>11. /\ child.state = next /\ child.draws = draws
       /\ child.pending = EnumerateMoves(child.state, child.draws)
  OBVIOUS
<1>12. /\ Line(rest, visited) /\ Len(rest) = n /\ rest # << >> /\ rest \in Seq(Frame)
       /\ Last(rest).draws = frame.draws /\ Last(rest).state = frame.state
       /\ DrawChain(rest)
  <2>1. Line(rest, visited) /\ Len(rest) = n
    BY <1>1, <1>3, TakenLine
  <2>2. \A k \in 1 .. n : rest[k].state = stack[k].state /\ rest[k].draws = stack[k].draws
    BY <1>1, <1>4, TakenFrames
  <2>3. DrawChain(rest)
    BY <1>1, <1>3, <1>4, TakenChain
  <2> HIDE DEF rest, n
  <2>4. rest \in Seq(Frame) /\ rest # << >>
    BY <1>4, <2>1, EmptySeq DEF Line
  <2>5. Last(rest) = rest[n]
    BY <2>1 DEF Last
  <2> QED
    BY <1>4, <2>1, <2>2, <2>3, <2>4, <2>5
<1>13. \A p, q : ToTry(p, q, stack) => \/ ToTry(p, q, rest)
                                       \/ p = frame.state /\ Twin(next, q)
  <2>1. ASSUME NEW p, NEW q, ToTry(p, q, stack)
        PROVE  \/ ToTry(p, q, rest)
               \/ p = frame.state /\ Twin(next, q)
    <3>1. \/ ToTry(p, q, rest)
          \/ p = frame.state /\ Twin(AfterSolverMove(p, m), q)
      <4> HIDE DEF rest
      <4> QED
        BY <1>1, <1>4, <2>1, TakenTries DEF rest
    <3> QED
      BY <3>1
  <2> QED
    BY <2>1
<1>14. CanonicalHash(next) \notin visited =>
         /\ Sound(child) /\ stack' = Append(rest, child)
         /\ stack' # << >> /\ stack'[Len(stack')] = child
         /\ DrawChain(stack')
  <2> SUFFICES ASSUME CanonicalHash(next) \notin visited
               PROVE  /\ Sound(child) /\ stack' = Append(rest, child)
                      /\ stack' # << >> /\ stack'[Len(stack')] = child
                      /\ DrawChain(stack')
    OBVIOUS
  <2>1. Sound(child)
    <3>1. child = [state |-> next, draws |-> draws,
                   pending |-> EnumerateMoves(next, draws), root_move |-> mv]
      OBVIOUS
    <3> HIDE DEF child, next, draws, mv
    <3> QED
      BY <1>2, <1>7, <1>8, <3>1, OpenedFrame
  <2>2. child \in Frame
    BY <2>1 DEF Sound
  <2>3. stack' = Append(rest, child)
    BY <1>2
  <2> HIDE DEF rest, child, frame
  <2>4. DrawChain(Append(rest, child))
    BY <1>10, <1>12, <2>2, PushedChain
  <2>5. PICK s : s = stack'
    OBVIOUS
  <2>6. s = Append(rest, child) /\ s # << >> /\ s[Len(s)] = child
    BY <1>12, <2>2, <2>3, <2>5
  <2> QED
    BY <2>1, <2>3, <2>4, <2>5, <2>6
<1> HIDE DEF n, m, next, draws, rest, child, mv, frame
<1>15. PICK met, s : met = visited' /\ s = stack'
  OBVIOUS
<1>16. visited \subseteq met /\ CanonicalHash(next) \in met
  BY <1>2, <1>15
<1>17. \A p, q : ToTry(p, q, rest) => ToTry(p, q, s)
  <2>1. CASE CanonicalHash(next) \in visited
    BY <1>2, <1>15, <2>1
  <2>2. CASE CanonicalHash(next) \notin visited
    <3>1. child \in Frame /\ s = Append(rest, child)
      BY <1>14, <1>15, <2>2 DEF Sound
    <3> QED
      BY <1>12, <3>1, PushedTries
  <2> QED
    BY <2>1, <2>2
<1>18. ASSUME NEW p, Met(p, visited)
       PROVE  /\ OnePlace(p) /\ ~ CheckWin(p)
              /\ \A q \in PlaySteps(p, draw_count, FALSE) :
                   Reaches(q, met) \/ ToTry(p, q, s)
  <2>1. /\ OnePlace(p) /\ ~ CheckWin(p)
        /\ \A q \in PlaySteps(p, draw_count, FALSE) :
             Reaches(q, visited) \/ ToTry(p, q, stack)
    BY <1>3, <1>18 DEF Explored
  <2>2. ASSUME NEW q \in PlaySteps(p, draw_count, FALSE)
        PROVE  Reaches(q, met) \/ ToTry(p, q, s)
    <3>1. CASE Reaches(q, visited)
      BY <1>16, <3>1 DEF Reaches, Met
    <3>2. CASE ToTry(p, q, rest)
      BY <1>17, <3>2
    <3>3. CASE Twin(next, q)
      BY <1>7, <1>16, <3>3 DEF Reaches, Met
    <3> QED
      BY <1>13, <2>1, <3>1, <3>2, <3>3
  <2> QED
    BY <2>1, <2>2
<1>19. ASSUME NEW p, Met(p, met), ~ Met(p, visited)
       PROVE  /\ OnePlace(p) /\ ~ CheckWin(p)
              /\ \A q \in PlaySteps(p, draw_count, FALSE) :
                   Reaches(q, met) \/ ToTry(p, q, s)
  <2>1. /\ GoodBoard(p) /\ CanonicalHash(p) = CanonicalHash(next)
        /\ CanonicalHash(next) \notin visited
    BY <1>2, <1>15, <1>19 DEF Met
  <2>2. p = next
    BY <1>7, <2>1, HashKnowsBoard
  <2>3. Line(s, met) /\ DrawChain(s) /\ s # << >> /\ child = s[Len(s)]
    BY <1>3, <1>14, <1>15, <2>1
  <2>4. ASSUME NEW q \in PlaySteps(p, draw_count, FALSE)
        PROVE  Reaches(q, met) \/ ToTry(p, q, s)
    <3>1. q \in PlaySteps(child.state, draw_count, FALSE) /\ OnePlace(child.state)
      BY <1>9, <1>11, <2>2
    <3>2. Reaches(q, met) \/ ToTry(child.state, q, s)
      BY <1>3, <1>11, <2>3, <3>1, OpenedCovers
    <3> QED
      BY <1>11, <2>2, <3>2
  <2> QED
    BY <1>2, <1>9, <2>2, <2>4
<1>20. Explored(met, s)
  BY <1>18, <1>19 DEF Explored
<1>21. DrawChain(stack')
  <2>1. CASE CanonicalHash(next) \in visited
    BY <1>2, <1>12, <2>1
  <2>2. CASE CanonicalHash(next) \notin visited
    BY <1>14, <2>2
  <2> QED
    BY <2>1, <2>2
<1> QED
  BY <1>15, <1>20, <1>21

(* So does the frame of the board asked about.                             *)
LEMMA AskExplores ==
  ASSUME SearchInv, CompleteInv, NEW c \in Config, Ask(c), SearchInv', phase' = "search"
  PROVE  /\ Explored(visited', stack') /\ DrawChain(stack')
         /\ CanonicalHash(root) \in visited'
<1> DEFINE f == [state |-> root, draws |-> 0, root_move |-> NoMove,
                 pending |-> EnumerateMoves(root, 0)]
<1>1. /\ root' = root /\ draw_count' = draw_count /\ ~ CheckWin(root)
      /\ visited' = {CanonicalHash(root)} /\ stack' = << f >>
  BY DEF Ask, Answer
<1>2. f.state = root /\ f.draws = 0 /\ f.pending = EnumerateMoves(f.state, f.draws)
  OBVIOUS
<1> HIDE DEF f
<1>3. PICK met, s : met = visited' /\ s = stack'
  OBVIOUS
<1>4. s = << f >> /\ Len(s) = 1 /\ s[1] = f /\ s # << >> /\ met = {CanonicalHash(root)}
  BY <1>1, <1>3
<1>5. Line(s, met) /\ GoodBoard(root) /\ OnePlace(root) /\ draw_count \in DrawCounts
  BY <1>1, <1>3, LineAfter DEF SearchInv, CompleteInv
<1>6. DrawChain(s)
  <2>1. 1 .. Len(s) - 1 = {}
    BY <1>4
  <2> QED
    BY <1>2, <1>4, <2>1 DEF DrawChain
<1>7. \A q \in PlaySteps(root, draw_count, FALSE) : Reaches(q, met) \/ ToTry(root, q, s)
  <2>1. f = s[Len(s)]
    BY <1>4
  <2> QED
    BY <1>2, <1>4, <1>5, <1>6, <2>1, OpenedCovers
<1>8. \A p : Met(p, met) => p = root
  BY <1>4, <1>5, HashKnowsBoard DEF Met
<1>9. Explored(met, s)
  BY <1>1, <1>5, <1>7, <1>8 DEF Explored
<1> QED
  BY <1>3, <1>4, <1>6, <1>9

LEMMA NextCompleteInv ==
  SearchInv /\ WinInv /\ CompleteInv /\ [SolverNext]_solverVars => CompleteInv'
<1> SUFFICES ASSUME SearchInv, WinInv, CompleteInv, [SolverNext]_solverVars
             PROVE  CompleteInv'
  OBVIOUS
<1>0. SearchInv'
  BY NextSearchInv
<1>1. ASSUME root' = root, draw_count' = draw_count
      PROVE  /\ \A line : WinsFrom(root, line)' <=> WinsFrom(root, line)
             /\ OnePlace(root)' /\ CanonicalHash(root)' = CanonicalHash(root)
  BY <1>1 DEF WinsFrom, CompleteInv
<1>2. CASE Play
  <2>1. draw_count \in Nat
    BY SolverAssumption DEF SearchInv
  <2>2. OnePlace(root')
    <3>1. PICK q : q = root'
      OBVIOUS
    <3>2. q \in PlaySteps(root, draw_count, TRUE) /\ GoodBoard(root) /\ OnePlace(root)
      BY <1>2, <3>1 DEF Play, SearchInv, CompleteInv
    <3>3. OnePlace(q)
      BY <2>1, <3>2, PlayOnePlace
    <3> QED
      BY <3>1, <3>3
  <2>3. phase' = "play" /\ result' = "none"
    BY <1>2 DEF Play, search, WinInv
  <2>4. OnePlace(root)'
    BY <2>2
  <2> QED
    BY <2>3, <2>4 DEF CompleteInv, UnwinnableIsRight
<1>3. ASSUME NEW c \in Config, Ask(c)
      PROVE  CompleteInv'
  <2>1. /\ root' = root /\ draw_count' = draw_count
        /\ phase = "play" /\ result = "none"
        /\ result' \in {"none", "Winnable", "Inconclusive"}
    BY <1>3 DEF Ask, Answer, WinInv
  <2>2. CASE phase' = "search"
    <3>1. /\ Explored(visited', stack') /\ DrawChain(stack')
          /\ CanonicalHash(root) \in visited'
      BY <1>0, <1>3, <2>2, AskExplores
    <3>2. Explored(visited, stack)' /\ DrawChain(stack)'
      BY <2>1, <3>1, SameExplored, SameChain
    <3> QED
      BY <1>1, <2>1, <3>1, <3>2 DEF CompleteInv, UnwinnableIsRight
  <2> QED
    BY <1>1, <2>1, <2>2 DEF CompleteInv, UnwinnableIsRight
<1>4. CASE GiveUp
  BY <1>1, <1>4 DEF GiveUp, Answer, CompleteInv, UnwinnableIsRight
<1>5. CASE Backtrack
  <2>1. /\ root' = root /\ draw_count' = draw_count /\ phase = "search"
        /\ stack # << >> /\ Last(stack).pending = << >>
        /\ stack' = Front(stack) /\ visited' = visited /\ result' = result
    BY <1>5 DEF Backtrack, Searching, Popped
  <2>2. /\ stack \in Seq(Frame) /\ Explored(visited, stack) /\ DrawChain(stack)
        /\ CanonicalHash(root) \in visited /\ UnwinnableIsRight
    BY <2>1 DEF SearchInv, Line, CompleteInv
  <2>3. Explored(visited', stack')
    <3>1. \A p, q : ToTry(p, q, stack) => ToTry(p, q, Front(stack))
      BY <2>1, <2>2, PoppedTries
    <3>2. Explored(visited, Front(stack))
      BY <2>2, <3>1 DEF Explored
    <3> QED
      BY <2>1, <3>2
  <2>4. DrawChain(stack')
    BY <2>1, <2>2, PoppedChain
  <2>5. Explored(visited, stack)' /\ DrawChain(stack)'
    BY <2>1, <2>3, <2>4, SameExplored, SameChain
  <2> QED
    BY <1>1, <2>1, <2>2, <2>5 DEF CompleteInv, UnwinnableIsRight
<1>6. CASE Try
  <2>1. /\ root' = root /\ draw_count' = draw_count /\ phase = "search"
        /\ result' \in {result, "Winnable"} /\ visited \subseteq visited'
    BY <1>6 DEF Try, Searching, Answer
  <2>2. CASE phase' = "search"
    <3>1. Explored(visited', stack') /\ DrawChain(stack')
      BY <1>0, <1>6, <2>2, TryExplores
    <3>2. Explored(visited, stack)' /\ DrawChain(stack)'
      BY <2>1, <3>1, SameExplored, SameChain
    <3>3. CanonicalHash(root) \in visited'
      BY <2>1 DEF CompleteInv
    <3> QED
      BY <1>1, <2>1, <3>2, <3>3 DEF CompleteInv, UnwinnableIsRight
  <2> QED
    BY <1>1, <2>1, <2>2 DEF CompleteInv, UnwinnableIsRight
<1>7. CASE Exhausted
  <2>1. /\ root' = root /\ draw_count' = draw_count /\ phase = "search"
        /\ stack = << >> /\ phase' = "answered"
    BY <1>7 DEF Exhausted, Answer
  <2>2. \A line : ~ WinsFrom(root, line)
    BY <2>1, NothingWins DEF CompleteInv, SearchInv
  <2> QED
    BY <1>1, <2>1, <2>2 DEF CompleteInv, UnwinnableIsRight
<1>8. CASE UNCHANGED solverVars
  <2>1. /\ root' = root /\ draw_count' = draw_count /\ phase' = phase
        /\ stack' = stack /\ visited' = visited /\ result' = result
    BY <1>8 DEF solverVars
  <2>2. phase' = "search" => Explored(visited, stack)' /\ DrawChain(stack)'
    BY <2>1, SameExplored, SameChain DEF CompleteInv
  <2> QED
    BY <1>1, <2>1, <2>2 DEF CompleteInv, UnwinnableIsRight
<1> QED
  BY <1>2, <1>3, <1>4, <1>5, <1>6, <1>7, <1>8 DEF SolverNext, SearchStep

(* Unwinnable is never wrong, whatever the deck and the budgets: when the  *)
(* search runs out of moves, no play of any length wins the board without  *)
(* a card taken back.  So nothing is lost by what solver.rs prunes:        *)
(* positions met already, known by what canonical_hash hashes; all slots   *)
(* but one for a card; a king's column that would only change place; and   *)
(* the draws after a full cycle of stock and waste.                        *)
THEOREM UnwinnableCorrect == SolverSpec => []UnwinnableIsRight
<1>1. SolverInit => CompleteInv
  <2> SUFFICES ASSUME SolverInit
               PROVE  CompleteInv
    OBVIOUS
  <2>1. PICK d \in SolverDecks : root = DealKlondike(d)
    BY DEF SolverInit, DealtBoards
  <2>2. OnePlace(root)
    BY <2>1, SolverDecksAssumption, DealOnePlace
  <2> QED
    BY <2>2 DEF SolverInit, CompleteInv, UnwinnableIsRight
<1>2. SolverInit => WinInv
  BY DEF SolverInit, WinInv, WinnableIsRight
<1>3. CompleteInv => UnwinnableIsRight
  BY DEF CompleteInv
<1> QED
  BY <1>1, <1>2, <1>3, InitSearchInv, NextSearchInv, NextWinInv, NextCompleteInv, PTL
     DEF SolverSpec

---------------------------------------------------------------------------
(* The verdicts against the boards that can be won.                        *)

(* A play that wins goes from each board of WinnableForward ...            *)
LEMMA WonByPlay ==
  ASSUME draw_count \in DrawCounts, NEW p \in WinnableForward[draw_count]
  PROVE  \E line : WinsFrom(p, line)
<1> DEFINE n   == draw_count
           won == WinnableForward[n]
           d   == Distance[n]
           bad == {q \in won : \A line : ~ WinsFrom(q, line)}
           R   == {d[q] : q \in bad}
<1>1. /\ won \subseteq Live[n] /\ Live[n] \subseteq Boards /\ d \in [won -> Nat]
      /\ \A q \in won : \/ CheckWin(q)
                        \/ \E t \in PlaySteps(q, n, FALSE) \cap won : d[t] < d[q]
  BY LiveAssumption, DistanceAssumption
<1> HIDE DEF won, d
<1>2. ASSUME bad # {}
      PROVE  FALSE
  <2>1. R \in SUBSET Nat /\ R # {}
    BY <1>1, <1>2
  <2>2. PICK m \in R : \A k \in R : m <= k
    <3> HIDE DEF R
    <3> QED
      BY <2>1, LeastNatural
  <2>3. PICK q \in bad : d[q] = m
    BY <2>2
  <2>4. /\ q \in won /\ q \in Boards /\ d[q] \in Nat
        /\ \A line : ~ WinsFrom(q, line)
        /\ \A t \in bad : d[q] <= d[t]
    BY <1>1, <2>2, <2>3
  <2> HIDE DEF bad, R
  <2>5. ~ CheckWin(q)
    <3>1. SUFFICES ASSUME CheckWin(q)
                   PROVE  WinsFrom(q, << q >>)
      BY <2>4
    <3> DEFINE line == << q >>
    <3>2. line \in Seq(Boards) /\ line # << >> /\ line[1] = q /\ Len(line) = 1
      BY <2>4
    <3> HIDE DEF line
    <3>3. 1 .. Len(line) - 1 = {}
      BY <3>2
    <3>4. WinsFrom(q, line)
      BY <3>1, <3>2, <3>3 DEF WinsFrom
    <3> QED
      BY <3>4 DEF line
  <2>6. PICK t \in PlaySteps(q, n, FALSE) \cap won : d[t] < d[q]
    BY <1>1, <2>4, <2>5
  <2>7. t \notin bad
    BY <1>1, <2>4, <2>6
  <2>8. PICK rest : WinsFrom(t, rest)
    BY <2>6, <2>7 DEF bad
  <2> DEFINE l    == Len(rest)
             line == [k \in 1 .. l + 1 |-> IF k = 1 THEN q ELSE rest[k - 1]]
  <2>9. /\ rest \in Seq(Boards) /\ l \in Nat \ {0} /\ rest[1] = t
        /\ \A k \in 1 .. l - 1 : rest[k + 1] \in PlaySteps(rest[k], n, FALSE)
        /\ CheckWin(rest[l])
    BY <2>8, EmptySeq, LenProperties DEF WinsFrom
  <2>10. \A k \in 1 .. l : rest[k] \in Boards
    BY <2>9, ElementOfSeq
  <2> HIDE DEF l
  <2>11. /\ line \in [1 .. l + 1 -> Boards]
         /\ line[1] = q
         /\ \A k \in 1 .. l : line[k + 1] = rest[k]
    <3>1. \A k \in 1 .. l + 1 : k = 1 \/ k - 1 \in 1 .. l
      BY <2>9
    <3>2. \A k \in 1 .. l : k + 1 \in 1 .. l + 1 /\ k + 1 # 1 /\ (k + 1) - 1 = k
      BY <2>9
    <3>3. 1 \in 1 .. l + 1
      BY <2>9
    <3> QED
      BY <2>4, <2>10, <3>1, <3>2, <3>3
  <2> HIDE DEF line
  <2>12. line \in Seq(Boards) /\ Len(line) = l + 1 /\ line # << >> /\ (l + 1) - 1 = l
    <3>1. line \in Seq(Boards) /\ Len(line) = l + 1
      BY <2>9, <2>11, SeqOfFunction
    <3> QED
      BY <2>9, <3>1, EmptySeq
  <2>13. ASSUME NEW k \in 1 .. l
         PROVE  line[k + 1] \in PlaySteps(line[k], n, FALSE)
    <3>1. CASE k = 1
      BY <2>6, <2>9, <2>11, <3>1
    <3>2. CASE k # 1
      <4>1. PICK j \in Int : j = k - 1
        BY <3>2
      <4>2. j \in 1 .. l - 1 /\ j \in 1 .. l /\ j + 1 = k
        BY <2>9, <3>2, <4>1
      <4>3. line[k] = rest[j] /\ line[k + 1] = rest[j + 1]
        BY <2>11, <4>2
      <4> QED
        BY <2>9, <4>2, <4>3
    <3> QED
      BY <3>1, <3>2
  <2>14. CheckWin(line[l + 1])
    <3>1. l \in 1 .. l
      BY <2>9
    <3> QED
      BY <2>9, <2>11, <3>1
  <2>15. WinsFrom(q, line)
    BY <2>11, <2>12, <2>13, <2>14 DEF WinsFrom
  <2> QED
    BY <2>4, <2>15
<1> QED
  BY <1>2 DEF won

(* ... and a play that wins goes through no other boards.                  *)
LEMMA PlayIsWon ==
  ASSUME draw_count \in DrawCounts, NEW line \in Seq(Boards), line # << >>,
         line[1] \in Live[draw_count],
         \A k \in 1 .. Len(line) - 1 :
           line[k + 1] \in PlaySteps(line[k], draw_count, FALSE),
         CheckWin(line[Len(line)])
  PROVE  \A k \in 1 .. Len(line) : line[k] \in WinnableForward[draw_count]
<1> DEFINE n   == draw_count
           l   == Len(line)
           won == WinnableForward[n]
           m   == l - 1
           S   == {k \in 0 .. m : line[k + 1] \in Live[n]}
           R   == {k \in 0 .. m : line[l - k] \in won}
<1>1. l \in Nat \ {0}
  BY EmptySeq, LenProperties
<1>2. /\ \A p \in Live[n] : PlaySteps(p, n, TRUE) \subseteq Live[n]
      /\ \A p \in Live[n] : CheckWin(p) \/ PlaySteps(p, n, FALSE) \cap won # {} => p \in won
  BY LiveAssumption, DistanceAssumption
<1>3. \A p : PlaySteps(p, n, FALSE) \subseteq PlaySteps(p, n, TRUE)
  <2>1. \A p, x : x \in PossibleInstructions(p, FALSE) => x \in PossibleInstructions(p, TRUE)
    <3> SUFFICES ASSUME NEW p, NEW x, x \in PossibleInstructions(p, FALSE)
                 PROVE  x \in PossibleInstructions(p, TRUE)
      OBVIOUS
    <3>1. PICK from, to, k :
            x = <<from, to, k>> /\ Offered(p, FALSE, from, to, k)
      BY InstructionsOffered
    <3>2. Offered(p, TRUE, from, to, k)
      BY <3>1 DEF Offered
    <3> QED
      BY <3>1, <3>2, InstructionsOffered
  <2> QED
    BY <2>1 DEF PlaySteps
<1> HIDE DEF won, l
<1>4. m \in Nat /\ 0 \in 0 .. m /\ m + 1 = l /\ l - 0 = l
  BY <1>1
<1>5. 0 \in S
  BY <1>4
<1>6. ASSUME NEW k \in 1 .. m, k - 1 \in S
      PROVE  k \in S
  <2>1. k \in 0 .. m /\ (k - 1) + 1 = k
    BY <1>4
  <2>2. line[k] \in Live[n]
    BY <1>6, <2>1
  <2>3. line[k + 1] \in PlaySteps(line[k], n, FALSE)
    BY DEF l
  <2> HIDE DEF m
  <2> QED
    BY <1>2, <1>3, <2>1, <2>2, <2>3
<1>7. \A k \in 0 .. m : k \in S
  <2> HIDE DEF S, m
  <2> QED
    BY <1>4, <1>5, <1>6, Climbs
<1>8. \A k \in 1 .. l : line[k] \in Live[n]
  <2>1. ASSUME NEW k \in 1 .. l
        PROVE  line[k] \in Live[n]
    <3>1. k - 1 \in 0 .. m /\ (k - 1) + 1 = k
      BY <1>1
    <3>2. k - 1 \in S
      BY <1>7, <3>1
    <3> QED
      BY <3>1, <3>2
  <2> QED
    BY <2>1
<1>9. 0 \in R
  <2>1. l \in 1 .. l
    BY <1>1
  <2>2. line[l] \in won
    BY <1>2, <1>8, <2>1 DEF l
  <2> HIDE DEF m
  <2> QED
    BY <1>4, <2>2
<1>10. ASSUME NEW k \in 1 .. m, k - 1 \in R
       PROVE  k \in R
  <2>1. PICK j \in Int : j = l - k
    BY <1>1
  <2>2. /\ k \in 0 .. m /\ j \in 1 .. l /\ j \in 1 .. l - 1 /\ l - (k - 1) = j + 1
    BY <1>1, <2>1
  <2>3. line[j + 1] \in won
    BY <1>10, <2>2
  <2>4. line[j + 1] \in PlaySteps(line[j], n, FALSE)
    BY <2>2 DEF l
  <2>5. line[j] \in won
    BY <1>2, <1>8, <2>2, <2>3, <2>4
  <2> HIDE DEF m
  <2> QED
    BY <2>1, <2>2, <2>5
<1>11. \A k \in 0 .. m : k \in R
  <2> HIDE DEF R, m
  <2> QED
    BY <1>4, <1>9, <1>10, Climbs
<1>12. ASSUME NEW k \in 1 .. l
       PROVE  line[k] \in won
  <2>1. l - k \in 0 .. m /\ l - (l - k) = k
    BY <1>1
  <2>2. l - k \in R
    BY <1>11, <2>1
  <2> QED
    BY <2>1, <2>2
<1> QED
  BY <1>12 DEF won, l

LiveInv == root \in Live[draw_count]

LEMMA NextLiveInv == SearchInv /\ LiveInv /\ [SolverNext]_solverVars => LiveInv'
<1> SUFFICES ASSUME SearchInv, LiveInv, [SolverNext]_solverVars
             PROVE  LiveInv'
  OBVIOUS
<1>1. CASE Play
  BY <1>1, LiveAssumption DEF LiveInv, SearchInv, Play
<1>2. CASE root' = root /\ draw_count' = draw_count
  BY <1>2 DEF LiveInv
<1> QED
  BY <1>1, <1>2 DEF SolverNext, SearchStep, Ask, GiveUp, Backtrack, Try, Exhausted,
                    solverVars

(* Both verdicts are right on every board of every game, and the move that *)
(* comes with Winnable, which the hint shows, is one after which the game  *)
(* can be won: for every deck, every number of piles and ranks and every   *)
(* pair of budgets (solve of solver.rs).                                   *)
THEOREM VerdictCorrect == SolverSpec => []VerdictRight
<1>1. SolverInit => CompleteInv /\ WinInv /\ LiveInv
  <2> SUFFICES ASSUME SolverInit
               PROVE  OnePlace(root) /\ LiveInv
    BY DEF SolverInit, CompleteInv, UnwinnableIsRight, WinInv, WinnableIsRight
  <2>1. PICK d \in SolverDecks : root = DealKlondike(d)
    BY DEF SolverInit, DealtBoards
  <2>2. OnePlace(root)
    BY <2>1, SolverDecksAssumption, DealOnePlace
  <2>3. LiveInv
    BY LiveAssumption DEF SolverInit, LiveInv
  <2> QED
    BY <2>2, <2>3
<1>2. SearchInv /\ WinInv /\ CompleteInv /\ LiveInv => VerdictRight
  <2> SUFFICES ASSUME SearchInv, WinInv, CompleteInv, LiveInv
               PROVE  VerdictRight
    OBVIOUS
  <2>1. draw_count \in DrawCounts /\ WinnableIsRight /\ UnwinnableIsRight
    BY DEF SearchInv, WinInv, CompleteInv
  <2>2. ASSUME result = "Winnable", ~ CheckWin(root)
        PROVE  \E p \in WinnableForward[draw_count] : Plays(root, first_move, p)
    <3>1. PICK line : WinsWith(line, first_move)
      BY <2>1, <2>2 DEF WinnableIsRight
    <3>2. /\ line \in Seq(Boards) /\ Len(line) >= 2 /\ Len(line) \in Nat
          /\ line[1] = root /\ Plays(root, first_move, line[2])
      BY <3>1, LenProperties DEF WinsWith
    <3>3. line # << >> /\ 2 \in 1 .. Len(line)
      BY <3>2, EmptySeq
    <3>4. \A k \in 1 .. Len(line) : line[k] \in WinnableForward[draw_count]
      BY <2>1, <3>1, <3>2, <3>3, PlayIsWon DEF WinsWith, LiveInv
    <3> QED
      BY <3>2, <3>3, <3>4
  <2>3. ASSUME result = "Unwinnable"
        PROVE  root \notin WinnableForward[draw_count]
    BY <2>1, <2>3, WonByPlay DEF UnwinnableIsRight
  <2> QED
    BY <2>2, <2>3 DEF VerdictRight
<1> QED
  BY <1>1, <1>2, InitSearchInv, NextSearchInv, NextWinInv, NextCompleteInv, NextLiveInv, PTL
     DEF SolverSpec

---------------------------------------------------------------------------
(* The board without legal moves.                                          *)

(* Where has_legal_moves finds nothing no step of play is left, but a card *)
(* taken back from a foundation.                                           *)
StuckIsOver == ~ HasLegalMoves(root) => PlaySteps(root, draw_count, FALSE) = {}

(* Every move the game lists lifts a face-up card that has a place to go.  *)
LEMMA NothingLeft ==
  ASSUME NEW p, GoodBoard(p), ~ HasLegalMoves(p), NEW n
  PROVE  PlaySteps(p, n, FALSE) = {}
<1>1. \A t \in Tableaus \cup {Stock, Waste} : p[t] \in Seq(Card) /\ Len(p[t]) \in Nat
  BY PileKinds, LenProperties DEF GoodBoard, GoodPile
<1>2. p[Stock] = << >> /\ p[Waste] = << >>
  <2>1. p[Stock] \o p[Waste] = << >>
    BY DEF HasLegalMoves
  <2> QED
    BY <1>1, <2>1
<1>3. ASSUME NEW t \in Tableaus, NEW k \in 1 .. Len(p[t]), p[t][k].up
      PROVE  /\ \A f \in Foundations : ~ CanPlaceOnFoundation(p[t][k], p[f])
             /\ \A to \in Tableaus : ~ CanPlaceOnTableau(p[t][k], p[to])
  BY <1>3 DEF HasLegalMoves
<1>4. ASSUME NEW from, NEW to, NEW k, Offered(p, FALSE, from, to, k)
      PROVE  FALSE
  <2> DEFINE s == p[from]
             j == Len(s) - k + 1
  <2>1. /\ from \in Tableaus
        /\ k \in 1 .. RunLength(s)
        /\ \/ k = 1 /\ to \in Foundations /\ CanPlaceOnFoundation(Last(s), p[to])
           \/ to \in Tableaus /\ CanPlaceOnTableau(s[j], p[to])
    BY <1>2, <1>4 DEF Offered
  <2>2. s \in Seq(Card) /\ Len(s) \in Nat
    BY <1>1, <2>1
  <2> HIDE DEF s
  <2>3. RunLength(s) \in 0 .. Len(s) /\ \A i \in 1 .. RunLength(s) : s[Len(s) - i + 1].up
    BY <2>2, RunLengthFacts
  <2>4. j \in 1 .. Len(s) /\ s[j].up /\ (k = 1 => Last(s) = s[j])
    BY <2>1, <2>2, <2>3 DEF Last
  <2> HIDE DEF j
  <2> QED
    BY <1>3, <2>1, <2>4 DEF s
<1>5. PossibleInstructions(p, FALSE) = {}
  BY <1>4, InstructionsOffered
<1> QED
  BY <1>2, <1>5 DEF PlaySteps

(* The game-over screen is never wrong about a game that could still be    *)
(* won without a take-back: has_legal_moves looks at covered cards too,    *)
(* but at no run and no take-back, and misses no move that the game lists. *)
THEOREM StuckCorrect == SolverSpec => [](StuckIsOver /\ StuckIsLost)
<1>1. SearchInv => StuckIsOver /\ StuckIsLost
  <2> SUFFICES ASSUME SearchInv, ~ HasLegalMoves(root)
               PROVE  /\ PlaySteps(root, draw_count, FALSE) = {}
                      /\ ~ CheckWin(root) => root \notin WinnableForward[draw_count]
    BY DEF StuckIsOver, StuckIsLost
  <2>1. PlaySteps(root, draw_count, FALSE) = {} /\ draw_count \in DrawCounts
    BY NothingLeft DEF SearchInv
  <2> QED
    BY <2>1, DistanceAssumption
<1> QED
  BY <1>1, InitSearchInv, NextSearchInv, PTL DEF SolverSpec
=============================================================================
