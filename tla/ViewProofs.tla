----------------------------- MODULE ViewProofs -----------------------------
(***************************************************************************)
(* Proofs about three components that stand around a game and share no     *)
(* state with each other: Replay, for every set of moves, every length of  *)
(* a won game, every cap and every bound; Screens, for every bound on open *)
(* screens and on events; and Table, for every shape of the table, every   *)
(* deck and saved game, every window and every bound on doings.            *)
(***************************************************************************)
EXTENDS GameStateProofs, Replay, Screens, Table

---------------------------------------------------------------------------
(* Replay: what led to the board of a game dealt and played here is in its *)
(* recording, whatever was undone, watched, stopped and recorded before.   *)

(* How long the recording is: playback begins with room in it, records no  *)
(* more than is in flight in its first frame, and is cut back to that in   *)
(* each of the next ones; what is in flight at its end stays.              *)
Marked == MaxRecorded + MaxInbox

SizeInv ==
  /\ pc \in {"after", "settled"} => inbox = << >>
  /\ Len(recording) + Len(inbox) <= Longest
  /\ baseline # NoBaseline => baseline <= Marked
  /\ phase # "Inactive" =>
       /\ pc = "input" => Len(recording) <= Marked
       /\ pc = "settled" => baseline # NoBaseline /\ Len(recording) <= baseline
       /\ baseline = NoBaseline =>
            /\ Len(recording) + Len(inbox) <= Marked
            /\ pc = "input" => Len(recording) <= MaxRecorded

(* A playback takes the place of the player's own game.                    *)
OwnInv == own => phase = "Inactive" /\ IsSubSequence(board, recording)

ReplayInv == ReplayTypeOK /\ SizeInv /\ OwnInv

---------------------------------------------------------------------------
(* Lengths and sequences.                                                  *)
LEMMA Bounds ==
  /\ Longest \in Nat /\ Marked \in Nat /\ NoBaseline = Longest + 1
  /\ Longest = Marked + MaxInbox /\ Marked = MaxRecorded + MaxInbox
  /\ MaxRecorded \in Nat /\ MaxInbox \in Nat /\ UndoCap \in Nat \ {0}
  /\ WinAt \in Nat \ {0} /\ HistoryCap \in Nat \ {0}
BY SizesAssumption DEF Longest, Marked, NoBaseline

LEMMA RecordingFacts ==
  ASSUME NEW r
  PROVE  r \in Recordings <=> r \in Seq(Moves) /\ Len(r) <= Longest
<1>1. ASSUME r \in Recordings
      PROVE  r \in Seq(Moves) /\ Len(r) <= Longest
  <2>1. PICK n \in 0 .. Longest : r \in [1 .. n -> Moves]
    BY <1>1 DEF Recordings
  <2>2. n \in Nat /\ n <= Longest
    BY <2>1, Bounds
  <2> QED
    BY <2>1, <2>2
<1>2. ASSUME r \in Seq(Moves), Len(r) <= Longest
      PROVE  r \in Recordings
  <2>1. Len(r) \in 0 .. Longest /\ r \in [1 .. Len(r) -> Moves]
    BY <1>2, Bounds
  <2> QED
    BY <2>1 DEF Recordings
<1> QED
  BY <1>1, <1>2

LEMMA EmptyFacts ==
  /\ << >> \in Seq(Moves) /\ << >> \in Recordings /\ << >> \in Seq(Recordings)
  /\ Len(<< >>) = 0
<1> DEFINE e == << >>
<1>1. e \in Seq(Moves) /\ e \in Seq(Recordings) /\ Len(e) = 0
  OBVIOUS
<1> HIDE DEF e
<1>2. Len(e) <= Longest
  BY <1>1, Bounds
<1>3. e \in Recordings
  BY <1>1, <1>2, RecordingFacts
<1> QED
  BY <1>1, <1>3 DEF e

LEMMA AppendFacts ==
  ASSUME NEW s \in Seq(Moves), NEW m \in Moves
  PROVE  /\ Append(s, m) \in Seq(Moves) /\ Len(Append(s, m)) = Len(s) + 1
         /\ Len(s) \in Nat
         /\ \A i \in 1 .. Len(s) : Append(s, m)[i] = s[i]
         /\ Append(s, m)[Len(s) + 1] = m
OBVIOUS

(* A sequence cut at its beginning, as the guard cuts the recording.        *)
LEMMA CutFacts ==
  ASSUME NEW T, NEW s \in Seq(T), NEW n \in Nat, n <= Len(s)
  PROVE  SubSeq(s, 1, n) \in Seq(T) /\ Len(SubSeq(s, 1, n)) = n
<1>1. \A i \in 1 .. n : s[i] \in T
  OBVIOUS
<1> QED
  BY <1>1, SubSeqProperties

LEMMA FrontFacts ==
  ASSUME NEW s \in Seq(Moves), s # << >>
  PROVE  /\ Front(s) \in Seq(Moves) /\ Len(Front(s)) = Len(s) - 1
         /\ Len(s) \in Nat \ {0}
         /\ \A i \in 1 .. Len(s) - 1 : Front(s)[i] = s[i]
<1>1. Len(s) \in Nat \ {0} /\ Front(s) = SubSeq(s, 1, Len(s) - 1)
  BY EmptySeq DEF Front
<1>2. Len(s) - 1 \in Nat /\ Len(s) - 1 <= Len(s)
  BY <1>1
<1>3. Front(s) \in Seq(Moves) /\ Len(Front(s)) = Len(s) - 1
  BY <1>1, <1>2, CutFacts
<1>4. ASSUME NEW i \in 1 .. Len(s) - 1
      PROVE  Front(s)[i] = s[i]
  BY <1>1, <1>4, SubSeqProperties
<1> QED
  BY <1>1, <1>3, <1>4

---------------------------------------------------------------------------
(* What is missing from no recording stays so.                             *)
LEMMA NothingYet ==
  ASSUME NEW t \in Seq(Moves)
  PROVE  IsSubSequence(<< >>, t)
<1> DEFINE f == [i \in {} |-> i]
<1>1. Len(<< >>) = 0 /\ 1 .. Len(<< >>) = {}
  OBVIOUS
<1>2. f \in [1 .. Len(<< >>) -> 1 .. Len(t)]
  BY <1>1
<1> QED
  BY <1>1, <1>2 DEF IsSubSequence

LEMMA BothLonger ==
  ASSUME NEW s \in Seq(Moves), NEW t \in Seq(Moves), NEW m \in Moves,
         IsSubSequence(s, t)
  PROVE  IsSubSequence(Append(s, m), Append(t, m))
<1> DEFINE n == Len(s)
           k == Len(t)
           s2 == Append(s, m)
           t2 == Append(t, m)
<1>1. PICK f \in [1 .. n -> 1 .. k] :
        /\ \A i, j \in 1 .. n : i < j => f[i] < f[j]
        /\ \A i \in 1 .. n : s[i] = t[f[i]]
  BY DEF IsSubSequence
<1> DEFINE g == [i \in 1 .. n + 1 |-> IF i <= n THEN f[i] ELSE k + 1]
<1>2. /\ n \in Nat /\ k \in Nat /\ Len(s2) = n + 1 /\ Len(t2) = k + 1
      /\ \A i \in 1 .. n : s2[i] = s[i]
      /\ \A i \in 1 .. k : t2[i] = t[i]
      /\ s2[n + 1] = m /\ t2[k + 1] = m
  BY AppendFacts
<1> HIDE DEF n, k, s2, t2
<1>3. g \in [1 .. n + 1 -> 1 .. k + 1]
  BY <1>1, <1>2
<1>4. ASSUME NEW i \in 1 .. n + 1, NEW j \in 1 .. n + 1, i < j
      PROVE  g[i] < g[j]
  BY <1>1, <1>2, <1>4
<1>5. ASSUME NEW i \in 1 .. n + 1
      PROVE  s2[i] = t2[g[i]]
  <2>1. CASE i <= n
    BY <1>1, <1>2, <2>1
  <2>2. CASE ~ (i <= n)
    BY <1>2, <2>2
  <2> QED
    BY <2>1, <2>2
<1> HIDE DEF g
<1> QED
  BY <1>2, <1>3, <1>4, <1>5 DEF IsSubSequence, s2, t2

LEMMA OneLess ==
  ASSUME NEW s \in Seq(Moves), NEW t \in Seq(Moves), s # << >>, IsSubSequence(s, t)
  PROVE  IsSubSequence(Front(s), t)
<1> DEFINE n == Len(s)
           k == Len(t)
           r == Front(s)
<1>1. PICK f \in [1 .. n -> 1 .. k] :
        /\ \A i, j \in 1 .. n : i < j => f[i] < f[j]
        /\ \A i \in 1 .. n : s[i] = t[f[i]]
  BY DEF IsSubSequence
<1> DEFINE g == [i \in 1 .. n - 1 |-> f[i]]
<1>2. /\ n \in Nat \ {0} /\ k \in Nat /\ Len(r) = n - 1
      /\ \A i \in 1 .. n - 1 : r[i] = s[i]
  BY FrontFacts
<1> HIDE DEF n, k, r
<1>3. g \in [1 .. n - 1 -> 1 .. k]
  BY <1>1, <1>2
<1>4. \A i, j \in 1 .. n - 1 : i < j => g[i] < g[j]
  BY <1>1, <1>2
<1>5. \A i \in 1 .. n - 1 : r[i] = t[g[i]]
  BY <1>1, <1>2
<1> HIDE DEF g
<1> QED
  BY <1>2, <1>3, <1>4, <1>5 DEF IsSubSequence, r, k

---------------------------------------------------------------------------
LEMMA HistoryFacts ==
  ASSUME NEW replays \in Seq(Recordings), Len(replays) <= HistoryCap,
         NEW r \in Recordings
  PROVE  /\ WithReplay(replays, r) \in Seq(Recordings)
         /\ Len(WithReplay(replays, r)) <= HistoryCap
<1> DEFINE longer == <<r>> \o replays
           n      == IF Len(replays) < HistoryCap THEN Len(replays) + 1 ELSE HistoryCap
<1>1. /\ longer \in Seq(Recordings) /\ Len(longer) = Len(replays) + 1
      /\ Len(replays) \in Nat
  <2>1. <<r>> \in Seq(Recordings) /\ Len(<<r>>) = 1
    OBVIOUS
  <2> QED
    BY <2>1, ConcatProperties, LenProperties
<1>2. n \in Nat /\ n <= Len(longer) /\ n <= HistoryCap
  BY <1>1, Bounds
<1>3. WithReplay(replays, r) = SubSeq(longer, 1, n)
  BY DEF WithReplay
<1> HIDE DEF longer, n
<1> QED
  BY <1>1, <1>2, <1>3, CutFacts

LEMMA ReplayInitInv == ReplayInit => ReplayInv
<1> SUFFICES ASSUME ReplayInit
             PROVE  ReplayInv
  OBVIOUS
<1>1. /\ << >> \in Seq(Moves) /\ << >> \in Recordings /\ << >> \in Seq(Recordings)
      /\ Len(<< >>) = 0
  BY EmptyFacts
<1>2. board \in Seq(Moves) /\ Len(board) <= WinAt /\ Len(board) \in Nat
  <2>1. CASE board = << >>
    BY <1>1, <2>1, Bounds
  <2>2. ASSUME NEW m \in Moves, board = <<m>>
        PROVE  board \in Seq(Moves) /\ Len(board) <= WinAt /\ Len(board) \in Nat
    <3>1. board \in Seq(Moves) /\ Len(board) = 1
      BY <2>2
    <3> QED
      BY <3>1, Bounds
  <2> QED
    BY <2>1, <2>2 DEF ReplayInit, Dealt
<1>3. own \in BOOLEAN /\ (own => board = << >>)
  BY DEF ReplayInit, Dealt
<1>4. ReplayTypeOK
  <2>1. /\ cursor \in 0 .. Len(tape) /\ undos \in 0 .. MaxInbox
        /\ undoable \in 0 .. UndoCap /\ undoable <= Len(board)
        /\ baseline \in 0 .. NoBaseline
        /\ Len(inbox) <= MaxInbox /\ Len(history) <= HistoryCap
    BY <1>1, <1>2, Bounds DEF ReplayInit
  <2> QED
    BY <1>1, <1>2, <1>3, <2>1 DEF ReplayInit, ReplayTypeOK
<1>5. SizeInv
  BY <1>1, Bounds DEF ReplayInit, SizeInv
<1>6. OwnInv
  BY <1>1, <1>3, NothingYet DEF ReplayInit, OwnInv
<1> QED
  BY <1>4, <1>5, <1>6 DEF ReplayInv

(* A move or a draw is asked for: at the start of a frame, with room.       *)
LEMMA RequestStep ==
  ASSUME ReplayInv, pc = "input", NEW m \in Moves, Request(m),
         Room \/ phase = "Playing",
         UNCHANGED <<pc, game, recording, baseline, history, tape, held, back_pending,
                     undos, signals>>,
         cursor' \in 0 .. Len(tape),
         \/ phase' = phase
         \/ phase = "Playing" /\ phase' = "Completed"
  PROVE  ReplayInv'
<1> DEFINE R == Len(recording)
           I == Len(inbox)
<1>1. /\ inbox' \in Seq(Moves) /\ Len(inbox') = I + 1 /\ I < MaxInbox
      /\ I \in Nat /\ R \in Nat
  BY AppendFacts, RecordingFacts DEF ReplayInv, ReplayTypeOK, Request
<1>2. ReplayTypeOK'
  BY <1>1, Bounds DEF ReplayInv, ReplayTypeOK, game, signals
<1>3. phase' # "Inactive" => phase # "Inactive"
  OBVIOUS
<1>4. SizeInv'
  <2>1. /\ recording' = recording /\ baseline' = baseline /\ pc' = "input"
    OBVIOUS
  <2>2. /\ baseline # NoBaseline => baseline <= Marked
        /\ phase # "Inactive" =>
             /\ R <= Marked
             /\ baseline = NoBaseline => R <= MaxRecorded
        /\ Room => R + I < MaxRecorded
    BY DEF ReplayInv, SizeInv, Room
  <2> HIDE DEF R, I
  <2>3. R + (I + 1) <= Longest
    BY <1>1, <2>2, Bounds
  <2>4. phase # "Inactive" /\ baseline = NoBaseline => R + (I + 1) <= Marked
    BY <1>1, <2>2, Bounds
  <2> QED
    BY <1>1, <1>3, <2>1, <2>2, <2>3, <2>4, Bounds DEF SizeInv, R, I
<1>5. OwnInv'
  BY <1>3 DEF ReplayInv, OwnInv, game
<1> QED
  BY <1>2, <1>4, <1>5 DEF ReplayInv

LEMMA HandleMoveStep ==
  ASSUME ReplayInv, HandleMove
  PROVE  ReplayInv'
<1> DEFINE m == Head(inbox)
           R == Len(recording)
           I == Len(inbox)
<1>1. /\ recording \in Seq(Moves) /\ R \in Nat /\ R <= Longest
      /\ inbox \in Seq(Moves) /\ inbox # << >>
      /\ board \in Seq(Moves) /\ Len(board) \in Nat /\ Len(board) <= WinAt
      /\ undoable \in 0 .. UndoCap /\ undoable <= Len(board)
  BY RecordingFacts, LenProperties DEF ReplayInv, ReplayTypeOK, HandleMove
<1>2. /\ m \in Moves /\ inbox' \in Seq(Moves) /\ I \in Nat \ {0}
      /\ Len(inbox') = I - 1
  BY <1>1, HeadTailProperties, LenProperties, EmptySeq DEF HandleMove
<1>3. pc = "mutate" /\ pc' = pc /\ baseline' = baseline /\ phase' = phase
  BY DEF HandleMove, player
<1>4. /\ R + I <= Longest /\ I <= MaxInbox
      /\ baseline # NoBaseline => baseline <= Marked
      /\ phase # "Inactive" /\ baseline = NoBaseline => R + I <= Marked
  BY <1>3 DEF ReplayInv, SizeInv, ReplayTypeOK
<1>5. CASE Fits(board, m)
  <2>1. /\ board' = Append(board, m) /\ recording' = Append(recording, m)
        /\ undoable' = (IF undoable < UndoCap THEN undoable + 1 ELSE undoable)
        /\ changed' = TRUE /\ won' = (won \/ IsWon(board'))
    BY <1>5 DEF HandleMove, Accept, Recorded
  <2>2. Len(board) # WinAt
    BY <1>5 DEF Fits, IsWon
  <2>3. /\ board' \in Seq(Moves) /\ Len(board') = Len(board) + 1
        /\ recording' \in Seq(Moves) /\ Len(recording') = R + 1
    BY <1>1, <1>2, <2>1, AppendFacts
  <2> HIDE DEF m
  <2>4. Len(board') <= WinAt
    BY <1>1, <2>2, <2>3, Bounds
  <2>5. undoable' \in 0 .. UndoCap /\ undoable' <= Len(board')
    BY <1>1, <2>1, <2>3, Bounds
  <2> HIDE DEF R, I
  <2>6. Len(recording') + Len(inbox') = R + I /\ R + 1 <= Longest /\ I - 1 <= MaxInbox
    BY <1>1, <1>2, <1>4, <2>3, Bounds
  <2>7. recording' \in Recordings
    BY <2>3, <2>6, RecordingFacts
  <2>8. ReplayTypeOK'
    <3>1. won \in BOOLEAN
      BY DEF ReplayInv, ReplayTypeOK
    <3>2. won' \in BOOLEAN
      BY <2>1, <3>1 DEF IsWon
    <3> QED
      BY <1>2, <1>3, <2>1, <2>3, <2>4, <2>5, <2>6, <2>7, <3>2
      DEF HandleMove, ReplayInv, ReplayTypeOK, player
  <2>9. SizeInv'
    BY <1>3, <1>4, <2>6 DEF SizeInv
  <2>10. OwnInv'
    <3>1. own' = own
      BY DEF HandleMove
    <3> QED
      BY <1>1, <1>2, <1>3, <2>1, <3>1, BothLonger DEF ReplayInv, OwnInv
  <2> QED
    BY <2>8, <2>9, <2>10 DEF ReplayInv
<1>6. CASE ~ Fits(board, m)
  <2>1. UNCHANGED <<board, undoable, recording, signals>>
    BY <1>6 DEF HandleMove
  <2> HIDE DEF m, R, I
  <2>2. /\ R + (I - 1) <= Longest /\ I - 1 <= MaxInbox
        /\ phase # "Inactive" /\ baseline = NoBaseline => R + (I - 1) <= Marked
    BY <1>1, <1>2, <1>4, Bounds
  <2>3. ReplayTypeOK'
    BY <1>2, <1>3, <2>1, <2>2 DEF HandleMove, ReplayInv, ReplayTypeOK, player, signals
  <2>4. SizeInv'
    BY <1>2, <1>3, <1>4, <2>1, <2>2 DEF SizeInv, R
  <2>5. OwnInv'
    BY <1>3, <2>1 DEF HandleMove, ReplayInv, OwnInv
  <2> QED
    BY <2>3, <2>4, <2>5 DEF ReplayInv
<1> QED
  BY <1>5, <1>6

LEMMA HandleUndoStep ==
  ASSUME ReplayInv, HandleUndo
  PROVE  ReplayInv'
<1>1. /\ board \in Seq(Moves) /\ Len(board) \in Nat /\ Len(board) <= WinAt
      /\ undoable \in 0 .. UndoCap /\ undoable <= Len(board)
      /\ recording \in Seq(Moves) /\ undos \in 0 .. MaxInbox /\ undos > 0
  BY RecordingFacts, LenProperties DEF ReplayInv, ReplayTypeOK, HandleUndo
<1>2. undos' \in 0 .. MaxInbox
  BY <1>1, Bounds DEF HandleUndo
<1>3. /\ board' \in Seq(Moves) /\ Len(board') <= WinAt
      /\ undoable' \in 0 .. UndoCap /\ undoable' <= Len(board')
      /\ changed' \in BOOLEAN
  <2>1. CASE undoable > 0 /\ ~ IsWon(board)
    <3>1. board' = Front(board) /\ undoable' = undoable - 1 /\ changed' = TRUE
      BY <2>1 DEF HandleUndo
    <3>2. board # << >>
      BY <1>1, <2>1
    <3>3. Front(board) \in Seq(Moves) /\ Len(Front(board)) = Len(board) - 1
      BY <1>1, <3>2, FrontFacts
    <3> QED
      BY <1>1, <2>1, <3>1, <3>3, Bounds
  <2>2. CASE ~ (undoable > 0 /\ ~ IsWon(board))
    BY <1>1, <2>2 DEF HandleUndo, ReplayInv, ReplayTypeOK
  <2> QED
    BY <2>1, <2>2
<1>4. ReplayTypeOK'
  BY <1>2, <1>3 DEF HandleUndo, ReplayInv, ReplayTypeOK, player
<1>5. SizeInv'
  BY DEF HandleUndo, ReplayInv, SizeInv, player
<1>6. OwnInv'
  <2>1. own' = own /\ recording' = recording /\ phase' = phase
    BY DEF HandleUndo, player
  <2>2. board' = board \/ (board # << >> /\ board' = Front(board))
    BY <1>1 DEF HandleUndo
  <2> QED
    BY <1>1, <2>1, <2>2, OneLess DEF ReplayInv, OwnInv
<1> QED
  BY <1>4, <1>5, <1>6 DEF ReplayInv

(* The guard of the recording: idle unless a replay plays.                  *)
LEMMA SkipStep ==
  ASSUME ReplayInv, SkipDuringPlayback
  PROVE  ReplayInv'
<1> DEFINE R == Len(recording)
<1>1. /\ recording \in Seq(Moves) /\ R \in Nat /\ R <= Longest
      /\ baseline \in 0 .. NoBaseline /\ inbox = << >> /\ Len(inbox) = 0
      /\ R + Len(inbox) <= Longest
  BY RecordingFacts, LenProperties DEF ReplayInv, ReplayTypeOK, SizeInv, SkipDuringPlayback
<1>2. /\ pc = "after" /\ pc' = "settled" /\ UNCHANGED <<game, inbox, undos>>
      /\ phase' = phase
  BY DEF SkipDuringPlayback, requests, player
<1>3. CASE phase = "Inactive"
  <2>1. baseline' = NoBaseline /\ recording' = recording
    BY <1>3 DEF SkipDuringPlayback, KeepRecording
  <2>2. ReplayTypeOK'
    BY <1>2, <2>1, Bounds
       DEF SkipDuringPlayback, ReplayInv, ReplayTypeOK, game, player, requests, signals
  <2>3. SizeInv'
    BY <1>1, <1>2, <1>3, <2>1 DEF SizeInv
  <2>4. OwnInv'
    BY <1>2, <2>1 DEF ReplayInv, OwnInv, game
  <2> QED
    BY <2>2, <2>3, <2>4 DEF ReplayInv
<1>4. CASE phase # "Inactive"
  <2>1. /\ baseline' = (IF baseline = NoBaseline THEN R ELSE baseline)
        /\ recording' = (IF R > baseline' THEN SubSeq(recording, 1, baseline')
                         ELSE recording)
    BY <1>4 DEF SkipDuringPlayback, KeepRecording
  <2>2. baseline' \in Nat /\ baseline' <= Marked
    <3>1. CASE baseline = NoBaseline
      <4>1. R <= Marked
        BY <1>1, <1>4, <3>1, Bounds DEF ReplayInv, SizeInv
      <4> QED
        BY <1>1, <2>1, <3>1, <4>1
    <3>2. CASE baseline # NoBaseline
      BY <1>1, <2>1, <3>2, Bounds DEF ReplayInv, SizeInv
    <3> QED
      BY <3>1, <3>2
  <2> HIDE DEF R
  <2>3. /\ recording' \in Seq(Moves) /\ Len(recording') <= baseline'
        /\ Len(recording') \in Nat
    <3>1. CASE R > baseline'
      <4>1. /\ SubSeq(recording, 1, baseline') \in Seq(Moves)
            /\ Len(SubSeq(recording, 1, baseline')) = baseline'
        <5>1. baseline' <= Len(recording)
          BY <1>1, <2>2, <3>1 DEF R
        <5> QED
          BY <1>1, <2>2, <5>1, CutFacts
      <4> QED
        BY <2>1, <2>2, <3>1, <4>1
    <3>2. CASE ~ (R > baseline')
      BY <1>1, <2>1, <2>2, <3>2 DEF R
    <3> QED
      BY <3>1, <3>2
  <2>4. recording' \in Recordings /\ baseline' \in 0 .. NoBaseline
        /\ baseline' # NoBaseline /\ Len(recording') <= Longest
    BY <2>2, <2>3, Bounds, RecordingFacts
  <2>5. ReplayTypeOK'
    BY <1>2, <2>4
       DEF SkipDuringPlayback, ReplayInv, ReplayTypeOK, game, player, requests, signals
  <2>6. SizeInv'
    BY <1>1, <1>2, <2>2, <2>3, <2>4 DEF SizeInv
  <2>7. OwnInv'
    BY <1>2, <1>4 DEF ReplayInv, OwnInv, game
  <2> QED
    BY <2>5, <2>6, <2>7 DEF ReplayInv
<1> QED
  BY <1>3, <1>4

LEMMA WatchStep ==
  ASSUME ReplayInv, WatchReplay
  PROVE  ReplayInv'
<1>1. tape' \in Recordings
  <2>1. PICK r \in Range(history) : tape' = r
    BY DEF WatchReplay
  <2>2. history \in [1 .. Len(history) -> Recordings]
    BY DEF ReplayInv, ReplayTypeOK
  <2> QED
    BY <2>1, <2>2 DEF Range
<1>2. /\ pc = "input" /\ pc' = "input" /\ phase' = "Playing" /\ cursor' = 0
      /\ held' = FALSE /\ board' = << >> /\ undoable' = 0 /\ own' = FALSE
      /\ UNCHANGED <<recording, baseline, history, back_pending, inbox, undos, changed, won>>
  BY DEF WatchReplay, requests, signals
<1>3. Len(tape') \in Nat
  BY <1>1, RecordingFacts, LenProperties
<1>4. ReplayTypeOK'
  <2>1. /\ cursor' \in 0 .. Len(tape') /\ undoable' \in 0 .. UndoCap
        /\ board' \in Seq(Moves) /\ Len(board') <= WinAt /\ undoable' <= Len(board')
    BY <1>2, <1>3, EmptyFacts, Bounds
  <2> QED
    BY <1>1, <1>2, <2>1 DEF ReplayInv, ReplayTypeOK
<1>5. SizeInv'
  <2>1. /\ Len(recording) + Len(inbox) < MaxRecorded
        /\ Len(recording) \in Nat /\ Len(inbox) \in Nat
    BY RecordingFacts, LenProperties DEF WatchReplay, Room, ReplayInv, ReplayTypeOK
  <2>2. baseline # NoBaseline => baseline <= Marked
    BY DEF ReplayInv, SizeInv
  <2>3. /\ Len(recording) + Len(inbox) <= Longest
        /\ Len(recording) + Len(inbox) <= Marked
        /\ Len(recording) <= MaxRecorded /\ Len(recording) <= Marked
    BY <2>1, Bounds
  <2> QED
    BY <1>2, <2>2, <2>3 DEF SizeInv
<1>6. OwnInv'
  BY <1>2 DEF OwnInv
<1> QED
  BY <1>4, <1>5, <1>6 DEF ReplayInv

---------------------------------------------------------------------------
(* One step per action.                                                    *)
LEMMA ReplayNextInv == ReplayInv /\ [ReplayNext]_replayVars => ReplayInv'
<1> SUFFICES ASSUME ReplayInv, [ReplayNext]_replayVars
             PROVE  ReplayInv'
  OBVIOUS
<1>1. /\ recording \in Seq(Moves) /\ Len(recording) \in Nat /\ Len(recording) <= Longest
      /\ tape \in Seq(Moves) /\ Len(tape) \in Nat /\ cursor \in 0 .. Len(tape)
      /\ << >> \in Seq(Moves) /\ << >> \in Recordings /\ Len(<< >>) = 0
      /\ inbox \in Seq(Moves) /\ Len(inbox) \in Nat /\ Len(inbox) <= MaxInbox
  <2>1. /\ recording \in Seq(Moves) /\ Len(recording) <= Longest
        /\ tape \in Seq(Moves) /\ cursor \in 0 .. Len(tape)
        /\ inbox \in Seq(Moves) /\ Len(inbox) <= MaxInbox
    BY RecordingFacts DEF ReplayInv, ReplayTypeOK
  <2> QED
    BY <2>1, EmptyFacts, LenProperties
<1>2. CASE PlayerMove
  <2>1. PICK m \in Moves : Request(m)
    BY <1>2 DEF PlayerMove
  <2> QED
    BY <1>1, <1>2, <2>1, RequestStep DEF PlayerMove, player
<1>3. CASE Advance \/ Step
  <2>1. /\ pc = "input" /\ phase = "Playing" /\ cursor < Len(tape)
        /\ Request(tape[cursor + 1]) /\ cursor' = cursor + 1
    BY <1>3 DEF Advance, Step
  <2>2. tape[cursor + 1] \in Moves /\ cursor' \in 0 .. Len(tape)
    BY <1>1, <2>1
  <2>3. phase' = phase \/ phase' = "Completed"
    BY <1>3 DEF Advance, Step, PhaseAt
  <2>4. UNCHANGED <<pc, game, recording, baseline, history, tape, held, back_pending,
                    undos, signals>>
    BY <1>3 DEF Advance, Step
  <2> QED
    BY <2>1, <2>2, <2>3, <2>4, RequestStep
<1>4. CASE HandleMove
  BY <1>4, HandleMoveStep
<1>5. CASE HandleUndo
  BY <1>5, HandleUndoStep
<1>6. CASE SkipDuringPlayback
  BY <1>6, SkipStep
<1>7. CASE WatchReplay
  BY <1>7, WatchStep
<1>8. CASE PlayerUndo \/ StepBack
  <2>1. ReplayTypeOK'
    <3>1. undos' \in 0 .. MaxInbox /\ cursor' \in 0 .. Len(tape)
          /\ back_pending' \in BOOLEAN
      <4>1. undos \in 0 .. MaxInbox /\ back_pending \in BOOLEAN
        BY DEF ReplayInv, ReplayTypeOK
      <4>2. /\ undos < MaxInbox /\ undos' = undos + 1
            /\ \/ cursor' = cursor /\ back_pending' = back_pending
               \/ cursor > 0 /\ cursor' = cursor - 1 /\ back_pending' = TRUE
        BY <1>8 DEF PlayerUndo, StepBack, player
      <4>3. Len(tape) \in Nat /\ cursor \in 0 .. Len(tape) /\ MaxInbox \in Nat
        BY <1>1, Bounds
      <4>4. undos' \in 0 .. MaxInbox
        BY <4>1, <4>2, <4>3
      <4>5. cursor' \in 0 .. Len(tape)
        BY <4>2, <4>3
      <4> QED
        BY <4>1, <4>2, <4>4, <4>5
    <3>2. UNCHANGED <<pc, board, undoable, own, recording, baseline, history, phase,
                      tape, held, inbox, changed, won>>
      BY <1>8 DEF PlayerUndo, StepBack, game, player, signals
    <3> QED
      BY <3>1, <3>2 DEF ReplayInv, ReplayTypeOK
  <2>2. SizeInv'
    BY <1>8 DEF PlayerUndo, StepBack, ReplayInv, SizeInv, player
  <2>3. OwnInv'
    BY <1>8 DEF PlayerUndo, StepBack, ReplayInv, OwnInv, game, player
  <2> QED
    BY <2>1, <2>2, <2>3 DEF ReplayInv
<1>9. CASE NewGame
  <2>1. /\ pc = "input" /\ board' = << >> /\ undoable' = 0 /\ recording' = << >>
        /\ own' = (phase = "Inactive") /\ phase' = phase /\ pc' = pc
        /\ inbox' = inbox /\ baseline' = baseline
    BY <1>9 DEF NewGame, player, requests
  <2>2. ReplayTypeOK'
    <3>1. /\ board' \in Seq(Moves) /\ Len(board') <= WinAt /\ undoable' <= Len(board')
          /\ undoable' \in 0 .. UndoCap
      BY <1>1, <2>1, Bounds
    <3> QED
      BY <1>1, <1>9, <2>1, <3>1 DEF NewGame, ReplayInv, ReplayTypeOK, player, requests
  <2>3. SizeInv'
    BY <1>1, <2>1, Bounds DEF ReplayInv, SizeInv
  <2>4. OwnInv'
    BY <1>1, <2>1, NothingYet DEF OwnInv
  <2> QED
    BY <2>2, <2>3, <2>4 DEF ReplayInv
<1>10. CASE BeginMutation \/ EndOfMutation
  <2>1. /\ UNCHANGED <<game, recording, baseline, history, player, back_pending,
                       requests, signals>>
        /\ \/ pc = "input" /\ pc' = "mutate"
           \/ pc = "mutate" /\ pc' = "after" /\ inbox = << >>
    BY <1>10 DEF BeginMutation, EndOfMutation
  <2>2. ReplayTypeOK'
    BY <2>1 DEF ReplayInv, ReplayTypeOK, game, player, requests, signals
  <2>3. SizeInv'
    BY <2>1 DEF ReplayInv, SizeInv, game, player, requests
  <2>4. OwnInv'
    BY <2>1 DEF ReplayInv, OwnInv, game, player
  <2> QED
    BY <2>2, <2>3, <2>4 DEF ReplayInv
<1>11. CASE RecordWin
  <2>1. history' \in Seq(Recordings) /\ Len(history') <= HistoryCap
    BY <1>11, HistoryFacts DEF RecordWin, ReplayInv, ReplayTypeOK
  <2>2. ReplayTypeOK'
    BY <1>11, <2>1 DEF RecordWin, ReplayInv, ReplayTypeOK, game, player, requests
  <2>3. SizeInv' /\ OwnInv'
    BY <1>11 DEF RecordWin, ReplayInv, SizeInv, OwnInv, game, player, requests
  <2> QED
    BY <2>2, <2>3 DEF ReplayInv
<1>12. CASE EndOfFrame
  <2>1. /\ pc = "settled" /\ pc' = "input"
        /\ UNCHANGED <<game, recording, baseline, history, player, requests, won>>
        /\ changed' = FALSE /\ back_pending' = (back_pending /\ ~ changed)
    BY <1>12 DEF EndOfFrame
  <2>2. ReplayTypeOK'
    BY <2>1 DEF ReplayInv, ReplayTypeOK, game, player, requests
  <2>3. SizeInv'
    <3>1. phase # "Inactive" => baseline # NoBaseline /\ Len(recording) <= baseline
      BY <2>1 DEF ReplayInv, SizeInv
    <3>2. baseline # NoBaseline => baseline <= Marked /\ baseline \in Nat
      BY Bounds DEF ReplayInv, SizeInv, ReplayTypeOK
    <3>3. phase # "Inactive" => Len(recording) <= Marked
      BY <1>1, <3>1, <3>2, Bounds
    <3> QED
      BY <2>1, <3>1, <3>3 DEF ReplayInv, SizeInv, game, player, requests
  <2>4. OwnInv'
    BY <2>1 DEF ReplayInv, OwnInv, game, player
  <2> QED
    BY <2>2, <2>3, <2>4 DEF ReplayInv
<1>13. CASE StopReplay \/ AutoClear
  <2>1. /\ UNCHANGED <<pc, game, recording, baseline, history, back_pending, requests,
                       signals>>
        /\ phase' = "Inactive" /\ tape' = << >> /\ cursor' = 0 /\ held' = FALSE
    BY <1>13 DEF StopReplay, AutoClear
  <2>2. ReplayTypeOK'
    <3>1. cursor' \in 0 .. Len(tape')
      BY <1>1, <2>1
    <3> QED
      BY <1>1, <2>1, <3>1 DEF ReplayInv, ReplayTypeOK, game, requests, signals
  <2>3. SizeInv' /\ OwnInv'
    BY <2>1 DEF ReplayInv, SizeInv, OwnInv, game, requests
  <2> QED
    BY <2>2, <2>3 DEF ReplayInv
<1>14. CASE TogglePausePlayback \/ Complete
  <2>1. /\ phase = "Playing" /\ phase' \in {"Playing", "Completed"}
        /\ held' \in BOOLEAN
        /\ UNCHANGED <<pc, game, recording, baseline, history, tape, cursor,
                       back_pending, requests, signals>>
    BY <1>14 DEF TogglePausePlayback, Complete, PhaseAt, ReplayInv, ReplayTypeOK
  <2>2. ReplayTypeOK'
    BY <2>1 DEF ReplayInv, ReplayTypeOK, game, requests, signals
  <2>3. SizeInv' /\ OwnInv'
    BY <2>1 DEF ReplayInv, SizeInv, OwnInv, game, requests
  <2> QED
    BY <2>2, <2>3 DEF ReplayInv
<1>15. CASE UNCHANGED replayVars
  BY <1>15 DEF ReplayInv, ReplayTypeOK, SizeInv, OwnInv, replayVars, game, player, requests, signals
<1> QED
  BY <1>2, <1>3, <1>4, <1>5, <1>6, <1>7, <1>8, <1>9, <1>10, <1>11, <1>12, <1>13, <1>14,
     <1>15 DEF ReplayNext, Frame

(* Every history stays within the inductive invariant.                     *)
THEOREM ReplayInductive == ReplaySpec => []ReplayInv
BY ReplayInitInv, ReplayNextInv, PTL DEF ReplaySpec

(* NothingMissing: nothing that led to the board of a game dealt and played *)
(* in this run is missing from its recording: the guard of a playback, cut  *)
(* short or not, never takes a move of the player's next game.  (And every  *)
(* variable has its type: the recording stays within its bound, the history *)
(* within the code's cap.)                                                  *)
THEOREM NothingMissingCorrect == ReplaySpec => []NothingMissing
<1>1. ReplayInv => NothingMissing
  BY DEF ReplayInv, OwnInv, NothingMissing
<1> QED
  BY <1>1, ReplayInductive, PTL

---------------------------------------------------------------------------
(* Screens: the settings panel follows its flag.                           *)

(* What systems ask one another for.                                       *)
Asked == {"settings", "setup", "logout", "deletion", "stats", "achievements",
          "help", "profile", "leaderboard", "seed", "pause", "forfeit"}
Tasks == {"login", "deletion", "fetch", "winDelay"}
Targets == (UNION {s.buttons : s \in Screens})
             \cup {"pause", "menu", "modes"} \cup Names
Played  == {NoInput} \cup Keys \cup (Names \cup {"hud", "scrim"}) \X Targets

(* A panel that is open, or will be when the commands are applied, has its *)
(* flag, or the flag has changed since sync_settings_panel_visibility last *)
(* looked; and a panel not yet in the world has been asked for by that     *)
(* system in this very frame, in which it does not run again: a flag that  *)
(* is cleared meanwhile finds the panel in the world in the next frame.    *)
PanelInv ==
  /\ "settings" \in (open \ despawning) \cup spawning => flag \/ flagChanged
  /\ "settings" \in spawning => "settingsPanel" \in ran

ScreensInv == ScreensTypeOK /\ asked \subseteq Asked /\ PanelInv

LEMMA NamesFacts ==
  Names = {"stats", "achievements", "leaderboard", "profile", "help", "home", "seed",
           "settings", "setup", "deletion", "pause", "forfeit", "name", "onboarding",
           "win", "dialog", "menu", "modes"}
<1>1. \A n : n \in Names <=> \E s \in Screens : n = s.name
  BY DEF Names
<1>2. /\ StatsScreen.name = "stats" /\ AchievementsScreen.name = "achievements"
      /\ LeaderboardScreen.name = "leaderboard" /\ ProfileScreen.name = "profile"
      /\ HelpScreen.name = "help" /\ HomeScreen.name = "home"
      /\ PlayBySeedScreen.name = "seed" /\ SettingsPanel.name = "settings"
      /\ SyncSetupScreen.name = "setup" /\ DeleteConfirmScreen.name = "deletion"
      /\ PauseScreen.name = "pause" /\ ForfeitConfirmScreen.name = "forfeit"
      /\ DisplayNameModal.name = "name" /\ OnboardingScreen.name = "onboarding"
      /\ WinSummaryOverlay.name = "win" /\ SessionDialog.name = "dialog"
      /\ MenuPopover.name = "menu" /\ ModesPopover.name = "modes"
  BY DEF StatsScreen, AchievementsScreen, LeaderboardScreen, ProfileScreen,
         HelpScreen, HomeScreen, PlayBySeedScreen, SettingsPanel,
         SyncSetupScreen, DeleteConfirmScreen, PauseScreen,
         ForfeitConfirmScreen, DisplayNameModal, OnboardingScreen,
         WinSummaryOverlay, SessionDialog, MenuPopover, ModesPopover, Screen
<1> QED
  BY <1>1, <1>2 DEF Screens

LEMMA PlayedFacts ==
  /\ NoInput \in Played
  /\ ScreensTypeOK => input \in Played
<1>1. NoInput \in Played
  BY DEF Played
<1>2. ScreensTypeOK => input \in Played
  BY Zenon DEF ScreensTypeOK, Played, Targets
<1> QED
  BY <1>1, <1>2

(* What the steps of a system leave of the invariant, in three parts: how  *)
(* it takes its turn, the commands it gives, and all the rest.             *)
Turn ==
  /\ input' \in {input, NoInput} /\ ran \subseteq ran' /\ asked' \subseteq Asked

Commands ==
  /\ spawning' \subseteq spawning \cup (Names \ {"settings"})
  /\ despawning \subseteq despawning' /\ despawning' \subseteq open

Rest ==
  /\ open' = open /\ quiet' = quiet
  /\ UNCHANGED settings \/ (flag' \in BOOLEAN /\ flagChanged' = TRUE)
  /\ homeShown' \in BOOLEAN /\ tasks' \subseteq Tasks /\ events' \in 0 .. MaxEvents

Calm == Turn /\ Commands /\ Rest

LEMMA CalmKeeps == ScreensInv /\ Calm => ScreensInv'
<1> SUFFICES ASSUME ScreensInv, Calm
             PROVE  ScreensInv'
  OBVIOUS
<1>1. ScreensTypeOK'
  <2>1. Asked \subseteq Names \cup {"logout"}
    BY NamesFacts DEF Asked
  <2>2. input' \in Played
    BY PlayedFacts DEF ScreensInv, Calm, Turn
  <2>3. flag' \in BOOLEAN /\ flagChanged' \in BOOLEAN
    BY DEF ScreensInv, ScreensTypeOK, Calm, Rest, settings
  <2> QED
    BY <2>1, <2>2, <2>3
       DEF ScreensInv, ScreensTypeOK, Calm, Turn, Commands, Rest, Tasks, Played, Targets
<1>2. asked' \subseteq Asked
  BY DEF Calm, Turn
<1>3. PanelInv'
  BY DEF ScreensInv, PanelInv, Calm, Turn, Commands, Rest, settings
<1> QED
  BY <1>1, <1>2, <1>3 DEF ScreensInv

(* How the helpers of the module make up such a step.                      *)
LEMMA DoneFacts ==
  ASSUME ScreensInv, NEW s, NEW rs \in SUBSET Asked, Done(s, rs)
  PROVE  Turn
BY DEF ScreensInv, Done, Turn

LEMMA WriteFacts ==
  ASSUME ScreensInv, NEW m, NEW b, NEW rs \in SUBSET Asked, Clicked(m, b), Write(rs)
  PROVE  Turn
BY DEF ScreensInv, Write, Clicked, Turn

LEMMA SpawnFacts ==
  ASSUME ScreensInv, NEW m \in Names \ {"settings"}, Spawn(m)
  PROVE  Commands
BY DEF ScreensInv, ScreensTypeOK, Spawn, Commands

LEMMA DespawnFacts ==
  ASSUME ScreensInv, NEW ms, Despawn(ms)
  PROVE  Commands
BY DEF ScreensInv, ScreensTypeOK, Despawn, Commands

LEMMA RespawnFacts ==
  ASSUME ScreensInv, NEW m \in open \ {"settings"}, Respawn(m)
  PROVE  Commands
BY DEF ScreensInv, ScreensTypeOK, Respawn, Commands

LEMMA NoCommandsFacts ==
  ASSUME ScreensInv, NoCommands
  PROVE  Commands
BY DEF ScreensInv, ScreensTypeOK, NoCommands, commands, Commands

LEMMA ToggleFacts ==
  ASSUME ScreensInv, NEW m \in Names \ {"settings"}, NEW gated, Toggle(m, gated)
  PROVE  Commands
BY SpawnFacts, DespawnFacts, NoCommandsFacts DEF Toggle

LEMMA RestFacts ==
  ASSUME ScreensInv, ScreensOnly
  PROVE  Rest
BY DEF ScreensInv, ScreensTypeOK, ScreensOnly, pending, Rest, Tasks

LEMMA TypeFacts ==
  ASSUME ScreensInv
  PROVE  /\ homeShown \in BOOLEAN /\ tasks \subseteq Tasks /\ events \in 0 .. MaxEvents
         /\ MaxEvents \in Nat /\ flag \in BOOLEAN
         /\ (events < MaxEvents => events + 1 \in 0 .. MaxEvents)
BY ScreensAssumption DEF ScreensInv, ScreensTypeOK, Tasks

---------------------------------------------------------------------------
(* The steps of the systems, one lemma for each part of the module.        *)

LEMMA SettingsSteps ==
  ASSUME ScreensInv
  PROVE  /\ ToggleSettings => Calm
         /\ SettingsButtons => Calm
         /\ OpenSyncSetup => Calm
         /\ ClickLogin => Calm
         /\ PollLogin => Calm
         /\ CancelSetup => Calm
         /\ Logout => Calm
<1>1. CASE ToggleSettings
  <2>1. Turn
    BY <1>1, DoneFacts DEF ToggleSettings
  <2>2. Commands
    BY <1>1, NoCommandsFacts DEF ToggleSettings, NoCommands
  <2>3. Rest
    BY <1>1, TypeFacts DEF ToggleSettings, SetFlag, Rest, pending
  <2> QED
    BY <2>1, <2>2, <2>3 DEF Calm
<1>2. CASE SettingsButtons
  <2>1. Turn
    BY <1>2, WriteFacts DEF SettingsButtons, Asked
  <2>2. Commands
    BY <1>2, NoCommandsFacts DEF SettingsButtons, NoCommands
  <2>3. Rest
    BY <1>2, TypeFacts DEF SettingsButtons, SetFlag, Rest, pending
  <2> QED
    BY <2>1, <2>2, <2>3 DEF Calm
<1>3. CASE OpenSyncSetup
  <2>1. Turn
    BY <1>3, DoneFacts DEF OpenSyncSetup
  <2>2. Commands
    BY <1>3, SpawnFacts, NoCommandsFacts, NamesFacts DEF OpenSyncSetup
  <2> QED
    BY <1>3, <2>1, <2>2, RestFacts DEF OpenSyncSetup, Calm
<1>4. CASE ClickLogin
  <2>1. Turn
    BY <1>4, WriteFacts DEF ClickLogin
  <2>2. Commands
    BY <1>4, NoCommandsFacts DEF ClickLogin, NoCommands
  <2>3. Rest
    BY <1>4, TypeFacts DEF ClickLogin, Start, Event, Rest, pending, Tasks
  <2> QED
    BY <2>1, <2>2, <2>3 DEF Calm
<1>5. CASE PollLogin
  <2>1. Turn
    BY <1>5, DoneFacts DEF PollLogin
  <2>2. Commands
    BY <1>5, DespawnFacts, NoCommandsFacts DEF PollLogin
  <2>3. Rest
    BY <1>5, TypeFacts DEF PollLogin, End, SetFlag, Rest, Tasks
  <2> QED
    BY <2>1, <2>2, <2>3 DEF Calm
<1>6. CASE CancelSetup
  <2>1. Turn
    BY <1>6, DoneFacts, WriteFacts DEF CancelSetup
  <2> QED
    BY <1>6, <2>1, DespawnFacts, RestFacts DEF CancelSetup, Calm
<1>7. CASE Logout
  <2>1. Turn
    BY <1>7, DoneFacts DEF Logout
  <2>2. Commands
    BY <1>7, NoCommandsFacts DEF Logout, NoCommands
  <2>3. Rest
    BY <1>7, TypeFacts DEF Logout, SetFlag, Rest, pending
  <2> QED
    BY <2>1, <2>2, <2>3 DEF Calm
<1> QED
  BY <1>1, <1>2, <1>3, <1>4, <1>5, <1>6, <1>7

LEMMA DeletionSteps ==
  ASSUME ScreensInv
  PROVE  /\ OpenDeleteConfirm => Calm
         /\ CancelDelete => Calm
         /\ ConfirmDelete => Calm
         /\ PollDelete => Calm
<1>1. CASE OpenDeleteConfirm
  <2>1. Turn
    BY <1>1, DoneFacts DEF OpenDeleteConfirm
  <2>2. Commands
    BY <1>1, SpawnFacts, NoCommandsFacts, NamesFacts DEF OpenDeleteConfirm
  <2> QED
    BY <1>1, <2>1, <2>2, RestFacts DEF OpenDeleteConfirm, Calm
<1>2. CASE CancelDelete
  <2>1. Turn
    BY <1>2, DoneFacts, WriteFacts DEF CancelDelete
  <2> QED
    BY <1>2, <2>1, DespawnFacts, RestFacts DEF CancelDelete, Calm
<1>3. CASE ConfirmDelete
  <2>1. Turn
    BY <1>3, WriteFacts DEF ConfirmDelete
  <2>2. Commands
    BY <1>3, DespawnFacts, NoCommandsFacts DEF ConfirmDelete
  <2>3. Rest
    BY <1>3, TypeFacts DEF ConfirmDelete, Start, Rest, Tasks
  <2> QED
    BY <2>1, <2>2, <2>3 DEF Calm
<1>4. CASE PollDelete
  <2>1. Turn
    BY <1>4, DoneFacts DEF PollDelete, Asked
  <2>2. Commands
    BY <1>4, NoCommandsFacts DEF PollDelete, NoCommands
  <2>3. Rest
    BY <1>4, TypeFacts DEF PollDelete, End, Rest, Tasks
  <2> QED
    BY <2>1, <2>2, <2>3 DEF Calm
<1> QED
  BY <1>1, <1>2, <1>3, <1>4

LEMMA ReadingSteps ==
  ASSUME ScreensInv
  PROVE  /\ ToggleStats => Calm
         /\ ToggleAchievements => Calm
         /\ ToggleHelp => Calm
         /\ ToggleProfile => Calm
         /\ CloseScreen => Calm
         /\ ToggleLeaderboard => Calm
         /\ CloseLeaderboard => Calm
         /\ PollFetch => Calm
         /\ SetDisplayName => Calm
<1>1. ASSUME NEW m \in {"stats", "achievements", "help"}, NEW gated \in BOOLEAN,
             Toggle(m, gated), Done(m, {}), ScreensOnly
      PROVE  Calm
  BY <1>1, DoneFacts, ToggleFacts, RestFacts, NamesFacts DEF Calm
<1>2. CASE ToggleStats \/ ToggleAchievements \/ ToggleHelp
  BY <1>1, <1>2 DEF ToggleStats, ToggleAchievements, ToggleHelp
<1>3. CASE ToggleProfile
  <2>1. Turn
    BY <1>3, DoneFacts DEF ToggleProfile
  <2>2. Commands
    BY <1>3, ToggleFacts, NoCommandsFacts, NamesFacts DEF ToggleProfile
  <2> QED
    BY <1>3, <2>1, <2>2, RestFacts DEF ToggleProfile, Calm
<1>4. CASE CloseScreen
  <2>1. Turn
    BY <1>4, WriteFacts DEF CloseScreen
  <2> QED
    BY <1>4, <2>1, DespawnFacts, RestFacts DEF CloseScreen, Calm
<1>5. CASE ToggleLeaderboard
  <2>1. Turn
    BY <1>5 DEF ToggleLeaderboard, Turn, ScreensInv
  <2>2. Commands
    BY <1>5, ToggleFacts, NamesFacts DEF ToggleLeaderboard
  <2>3. Rest
    BY <1>5, TypeFacts DEF ToggleLeaderboard, Start, Event, Rest, pending, Tasks
  <2> QED
    BY <2>1, <2>2, <2>3 DEF Calm
<1>6. CASE CloseLeaderboard
  <2>1. Turn
    BY <1>6 DEF CloseLeaderboard, Clicked, Turn, ScreensInv
  <2>2. Rest
    BY <1>6, TypeFacts DEF CloseLeaderboard, Rest, pending
  <2> QED
    BY <1>6, <2>1, <2>2, DespawnFacts DEF CloseLeaderboard, Calm
<1>7. CASE PollFetch
  <2>1. Turn
    BY <1>7, DoneFacts DEF PollFetch
  <2>2. Commands
    BY <1>7, RespawnFacts, NoCommandsFacts DEF PollFetch, Rebuilds
  <2>3. Rest
    BY <1>7, TypeFacts DEF PollFetch, End, Rest, Tasks
  <2> QED
    BY <2>1, <2>2, <2>3 DEF Calm
<1>8. CASE SetDisplayName
  <2>1. Turn
    BY <1>8, WriteFacts DEF SetDisplayName
  <2>2. Commands
    BY <1>8, SpawnFacts, NoCommandsFacts, NamesFacts DEF SetDisplayName
  <2> QED
    BY <1>8, <2>1, <2>2, RestFacts DEF SetDisplayName, Calm
<1> QED
  BY <1>2, <1>3, <1>4, <1>5, <1>6, <1>7, <1>8

LEMMA HomeSteps ==
  ASSUME ScreensInv
  PROVE  /\ LaunchHome => Calm
         /\ ToggleHome => Calm
         /\ ClickHomeCard => Calm
         /\ HomeDigits => Calm
         /\ CancelHome => Calm
         /\ ClickProfileChip => Calm
         /\ RepaintHome => Calm
<1>1. CASE LaunchHome
  <2>1. Turn
    BY <1>1, DoneFacts DEF LaunchHome
  <2>2. Commands
    BY <1>1, SpawnFacts, NamesFacts DEF LaunchHome
  <2>3. Rest
    BY <1>1, TypeFacts DEF LaunchHome, Rest, pending
  <2> QED
    BY <2>1, <2>2, <2>3 DEF Calm
<1>2. CASE ToggleHome
  BY <1>2, DoneFacts, ToggleFacts, RestFacts, NamesFacts DEF ToggleHome, Calm
<1>3. CASE ClickHomeCard
  <2>1. Turn
    BY <1>3, WriteFacts DEF ClickHomeCard, Asked
  <2>2. Commands
    BY <1>3, DespawnFacts, NoCommandsFacts DEF ClickHomeCard
  <2> QED
    BY <1>3, <2>1, <2>2, RestFacts DEF ClickHomeCard, Calm
<1>4. CASE HomeDigits
  <2>1. Turn
    BY <1>4, DoneFacts DEF HomeDigits, Asked
  <2>2. Commands
    BY <1>4, DespawnFacts, NoCommandsFacts DEF HomeDigits
  <2> QED
    BY <1>4, <2>1, <2>2, RestFacts DEF HomeDigits, Calm
<1>5. CASE CancelHome
  <2>1. Turn
    BY <1>5, DoneFacts, WriteFacts DEF CancelHome
  <2>2. Commands
    BY <1>5, DespawnFacts, NoCommandsFacts DEF CancelHome
  <2> QED
    BY <1>5, <2>1, <2>2, RestFacts DEF CancelHome, Calm
<1>6. CASE ClickProfileChip
  <2>1. Turn
    BY <1>6, WriteFacts DEF ClickProfileChip, Asked
  <2> QED
    BY <1>6, <2>1, NoCommandsFacts, RestFacts DEF ClickProfileChip, Calm
<1>7. CASE RepaintHome
  <2>1. Turn
    BY <1>7, WriteFacts DEF RepaintHome
  <2>2. Commands
    BY <1>7, RespawnFacts, NoCommandsFacts DEF RepaintHome
  <2> QED
    BY <1>7, <2>1, <2>2, RestFacts DEF RepaintHome, Calm
<1> QED
  BY <1>1, <1>2, <1>3, <1>4, <1>5, <1>6, <1>7

(* The keys of the slides are heard only while slides are open, and nobody *)
(* asks for a slide, so that no other screen is closed for one.            *)
LEMMA OnboardingSteps ==
  ASSUME ScreensInv
  PROVE  /\ OnboardingButtons => Calm
         /\ OnboardingKeys => Calm
<1>1. ASSUME "onboarding" \in open, TurnSlide \/ CompleteOnboarding \/ NoCommands
      PROVE  Commands
  BY <1>1, RespawnFacts, DespawnFacts, NoCommandsFacts DEF TurnSlide, CompleteOnboarding
<1>2. CASE OnboardingButtons
  <2>1. Turn
    BY <1>2, WriteFacts DEF OnboardingButtons
  <2>2. "onboarding" \in open
    BY <1>2, NamesFacts DEF OnboardingButtons, Clicked
  <2>3. Commands
    BY <1>1, <1>2, <2>2 DEF OnboardingButtons
  <2> QED
    BY <1>2, <2>1, <2>3, RestFacts DEF OnboardingButtons, Calm
<1>3. CASE OnboardingKeys
  <2>1. Turn
    BY <1>3, DoneFacts DEF OnboardingKeys
  <2>2. "onboarding" \in open
    <3>1. "onboarding" \in Listeners(input)
      BY <1>3 DEF OnboardingKeys, Due, ScreensInv, Asked
    <3>2. input \in {<<"key", "Esc">>, <<"key", "Enter">>, <<"key", "Left">>}
      BY <1>3 DEF OnboardingKeys, Pressed
    <3> QED
      BY <3>1, <3>2 DEF Listeners, WhileOpen, NoInput
  <2>3. Commands
    BY <1>1, <1>3, <2>2 DEF OnboardingKeys
  <2> QED
    BY <1>3, <2>1, <2>3, RestFacts DEF OnboardingKeys, Calm
<1> QED
  BY <1>2, <1>3

LEMMA WinAndSeedSteps ==
  ASSUME ScreensInv
  PROVE  /\ OpenSeedDialog => Calm
         /\ ConfirmSeed => Calm
         /\ CancelSeed => Calm
         /\ Win => Calm
         /\ ShowWinSummary => Calm
         /\ LeaveWinSummary => Calm
<1>1. CASE OpenSeedDialog
  <2>1. Turn
    BY <1>1, DoneFacts DEF OpenSeedDialog
  <2>2. Commands
    BY <1>1, SpawnFacts, NoCommandsFacts, NamesFacts DEF OpenSeedDialog
  <2> QED
    BY <1>1, <2>1, <2>2, RestFacts DEF OpenSeedDialog, Calm
<1>2. CASE ConfirmSeed
  <2>1. Turn
    BY <1>2, DoneFacts, WriteFacts DEF ConfirmSeed
  <2>2. Commands
    BY <1>2, DespawnFacts, NoCommandsFacts DEF ConfirmSeed
  <2> QED
    BY <1>2, <2>1, <2>2, RestFacts DEF ConfirmSeed, Calm
<1>3. CASE CancelSeed
  <2>1. Turn
    BY <1>3, DoneFacts, WriteFacts DEF CancelSeed
  <2>2. Commands
    BY <1>3, DespawnFacts, NoCommandsFacts DEF CancelSeed
  <2> QED
    BY <1>3, <2>1, <2>2, RestFacts DEF CancelSeed, Calm
<1>4. CASE Win
  <2>1. Turn
    BY <1>4, DoneFacts DEF Win
  <2>2. Rest
    BY <1>4, TypeFacts DEF Win, Event, Start, Rest, Tasks
  <2> QED
    BY <1>4, <2>1, <2>2, DespawnFacts DEF Win, Calm
<1>5. CASE ShowWinSummary
  <2>1. Turn
    BY <1>5, DoneFacts DEF ShowWinSummary
  <2>2. Commands
    BY <1>5, SpawnFacts, NoCommandsFacts, NamesFacts DEF ShowWinSummary
  <2>3. Rest
    BY <1>5, TypeFacts DEF ShowWinSummary, End, Rest, Tasks
  <2> QED
    BY <2>1, <2>2, <2>3 DEF Calm
<1>6. CASE LeaveWinSummary
  <2>1. Turn
    BY <1>6, DoneFacts, WriteFacts DEF LeaveWinSummary
  <2> QED
    BY <1>6, <2>1, DespawnFacts, RestFacts DEF LeaveWinSummary, Calm
<1> QED
  BY <1>1, <1>2, <1>3, <1>4, <1>5, <1>6

LEMMA PauseSteps ==
  ASSUME ScreensInv
  PROVE  /\ TogglePause => Calm
         /\ AutoResume => Calm
         /\ PauseButtons => Calm
         /\ HandleForfeitRequest => Calm
         /\ AnswerForfeit => Calm
         /\ OpenSessionDialog => Calm
         /\ AnswerSessionDialog => Calm
<1>1. CASE TogglePause
  <2>1. Turn
    BY <1>1, DoneFacts DEF TogglePause
  <2>2. Commands
    BY <1>1, ToggleFacts, NoCommandsFacts, NamesFacts DEF TogglePause
  <2> QED
    BY <1>1, <2>1, <2>2, RestFacts DEF TogglePause, Calm
<1>2. CASE AutoResume
  <2>1. Turn
    BY <1>2, DoneFacts DEF AutoResume
  <2>2. Commands
    BY <1>2, DespawnFacts, NoCommandsFacts DEF AutoResume
  <2> QED
    BY <1>2, <2>1, <2>2, RestFacts DEF AutoResume, Calm
<1>3. CASE PauseButtons
  <2>1. Turn
    BY <1>3, WriteFacts DEF PauseButtons, Asked
  <2> QED
    BY <1>3, <2>1, NoCommandsFacts, RestFacts DEF PauseButtons, Calm
<1>4. CASE HandleForfeitRequest
  <2>1. Turn
    BY <1>4, DoneFacts DEF HandleForfeitRequest
  <2>2. Commands
    BY <1>4, SpawnFacts, NoCommandsFacts, NamesFacts DEF HandleForfeitRequest
  <2> QED
    BY <1>4, <2>1, <2>2, RestFacts DEF HandleForfeitRequest, Calm
<1>5. CASE AnswerForfeit
  <2>1. Turn
    BY <1>5, WriteFacts, DoneFacts DEF AnswerForfeit
  <2>2. Commands
    BY <1>5, DespawnFacts DEF AnswerForfeit, Forfeited, Declined
  <2> QED
    BY <1>5, <2>1, <2>2, RestFacts DEF AnswerForfeit, Calm
<1>6. CASE OpenSessionDialog
  <2>1. Turn
    BY <1>6, DoneFacts DEF OpenSessionDialog
  <2>2. Commands
    BY <1>6, SpawnFacts, NamesFacts DEF OpenSessionDialog
  <2>3. Rest
    BY <1>6, TypeFacts DEF OpenSessionDialog, Event, Rest
  <2> QED
    BY <2>1, <2>2, <2>3 DEF Calm
<1>7. CASE AnswerSessionDialog
  <2>1. Turn
    BY <1>7, WriteFacts DEF AnswerSessionDialog
  <2> QED
    BY <1>7, <2>1, DespawnFacts, RestFacts DEF AnswerSessionDialog, Calm
<1> QED
  BY <1>1, <1>2, <1>3, <1>4, <1>5, <1>6, <1>7

LEMMA HudSteps ==
  ASSUME ScreensInv
  PROVE  /\ HudButtons => Calm
         /\ MenuButton => Calm
         /\ ModesButton => Calm
         /\ MenuOptionClick => Calm
         /\ ClosePopover => Calm
         /\ EscapePopovers => Calm
         /\ ClickScrim => Calm
<1>1. CASE HudButtons
  <2>1. Turn
    BY <1>1, WriteFacts DEF HudButtons, Asked
  <2> QED
    BY <1>1, <2>1, NoCommandsFacts, RestFacts DEF HudButtons, Calm
<1>2. CASE MenuButton
  <2>1. Turn
    BY <1>2, WriteFacts DEF MenuButton
  <2>2. Commands
    BY <1>2, ToggleFacts, NamesFacts DEF MenuButton
  <2> QED
    BY <1>2, <2>1, <2>2, RestFacts DEF MenuButton, Calm
<1>3. CASE ModesButton
  <2>1. Turn
    BY <1>3, WriteFacts DEF ModesButton
  <2>2. Commands
    BY <1>3, ToggleFacts, NamesFacts DEF ModesButton
  <2> QED
    BY <1>3, <2>1, <2>2, RestFacts DEF ModesButton, Calm
<1>4. CASE MenuOptionClick
  <2>1. PICK o \in MenuPopover.buttons \ {"backdrop"} :
          /\ Clicked("menu", o)
          /\ IF o = "modes"
             THEN /\ despawning' = despawning \cup ({"menu"} \cap open)
                  /\ spawning' = spawning \cup {"modes"}
                  /\ Write({})
             ELSE Despawn({"menu"}) /\ Write({o})
          /\ ScreensOnly
    BY <1>4 DEF MenuOptionClick
  <2>2. o = "modes" \/ o \in Asked
    BY DEF MenuPopover, Screen, Asked
  <2>3. Turn
    BY <2>1, <2>2, WriteFacts
  <2>4. Commands
    <3>1. CASE o = "modes"
      BY <2>1, <3>1, NamesFacts DEF ScreensInv, ScreensTypeOK, Commands
    <3>2. CASE o # "modes"
      BY <2>1, <3>2, DespawnFacts
    <3> QED
      BY <3>1, <3>2
  <2> QED
    BY <2>1, <2>3, <2>4, RestFacts DEF Calm
<1>5. CASE ClosePopover
  <2>1. Turn
    BY <1>5, WriteFacts DEF ClosePopover
  <2>2. Commands
    BY <1>5, DespawnFacts DEF ClosePopover
  <2> QED
    BY <1>5, <2>1, <2>2, RestFacts DEF ClosePopover, Calm
<1>6. CASE EscapePopovers
  BY <1>6, DoneFacts, DespawnFacts, RestFacts DEF EscapePopovers, Calm
<1>7. CASE ClickScrim
  <2>1. Turn
    BY <1>7, WriteFacts DEF ClickScrim
  <2>2. Commands
    BY <1>7, DespawnFacts, NoCommandsFacts DEF ClickScrim
  <2> QED
    BY <1>7, <2>1, <2>2, RestFacts DEF ClickScrim, Calm
<1> QED
  BY <1>1, <1>2, <1>3, <1>4, <1>5, <1>6, <1>7

---------------------------------------------------------------------------
(* The steps that are not calm: commands are applied, a frame begins, and  *)
(* the flag becomes a panel or the panel goes.                             *)

LEMMA InputFacts ==
  ASSUME ScreensInv
  PROVE  Inputs \subseteq Played
<1> DEFINE Areas == Names \cup {"hud", "scrim"}
<1>1. \A s \in Screens : s.name \in Names /\ s.buttons \subseteq Targets
  BY DEF Names, Targets
<1>2. Open \subseteq Screens
  BY DEF Open
<1>3. WaysOut \subseteq Areas \X Targets
  BY <1>1, <1>2 DEF WaysOut
<1>4. Clicks \subseteq Areas \X Targets
  <2>1. {"pause", "help", "modes", "menu"} \subseteq Targets /\ Names \subseteq Targets
    <3>1. Names \subseteq Targets /\ {"pause", "menu", "modes"} \subseteq Targets
      BY DEF Targets
    <3>2. "help" \in Names
      BY NamesFacts
    <3> QED
      BY <3>1, <3>2
  <2>2. UNION {{s.name} \X s.buttons : s \in Open} \subseteq Areas \X Targets
    BY <1>1, <1>2
  <2>3. {<<"scrim", s.name>> : s \in {t \in Open : t.dismissible}}
          \subseteq Areas \X Targets
    BY <1>1, <1>2, <2>1
  <2> QED
    BY <2>1, <2>2, <2>3 DEF Clicks
<1>5. Inputs \subseteq {NoInput} \cup Keys \cup Areas \X Targets
  BY <1>3, <1>4 DEF Inputs
<1> QED
  BY <1>5 DEF Played

LEMMA FlushStep == ScreensInv /\ Flush => ScreensInv'
<1> SUFFICES ASSUME ScreensInv, Flush
             PROVE  ScreensInv'
  OBVIOUS
<1>1. ScreensTypeOK'
  BY DEF ScreensInv, ScreensTypeOK, Flush, settings, pending
<1>2. PanelInv'
  BY DEF ScreensInv, PanelInv, Flush, settings
<1> QED
  BY <1>1, <1>2 DEF ScreensInv, Flush

LEMMA FrameStep == ScreensInv /\ (NextFrame \/ Settle) => ScreensInv'
<1> SUFFICES ASSUME ScreensInv, NextFrame \/ Settle
             PROVE  ScreensInv'
  OBVIOUS
<1>1. input' \in Played
  BY InputFacts, PlayedFacts DEF NextFrame, Settle
<1>2. /\ UNCHANGED <<open, commands, asked, settings, homeShown, pending>>
      /\ quiet' \in BOOLEAN
  BY DEF NextFrame, Settle, ScreensInv, ScreensTypeOK
<1>3. ScreensTypeOK'
  BY <1>1, <1>2
     DEF ScreensInv, ScreensTypeOK, commands, settings, pending, Played, Targets
<1>4. PanelInv'
  BY <1>2
     DEF ScreensInv, PanelInv, NextFrame, Settle, FrameDone, commands,
         settings
<1> QED
  BY <1>2, <1>3, <1>4 DEF ScreensInv

(* The panel is asked for only with the flag, and one that is in the world *)
(* goes with it: none is on its way then, this system not having run.      *)
LEMMA SyncPanelStep == ScreensInv /\ SyncSettingsPanel => ScreensInv'
<1> SUFFICES ASSUME ScreensInv, SyncSettingsPanel
             PROVE  ScreensInv'
  OBVIOUS
<1>1. Turn
  BY DoneFacts DEF SyncSettingsPanel
<1>2. ScreensTypeOK'
  <2>1. Asked \subseteq Names \cup {"logout"}
    BY NamesFacts DEF Asked
  <2>2. spawning' \subseteq Names /\ despawning' \subseteq open
    BY NamesFacts
       DEF SyncSettingsPanel, Spawn, Despawn, NoCommands, commands,
           ScreensInv, ScreensTypeOK
  <2>3. input' \in Played
    BY <1>1, PlayedFacts DEF ScreensInv, Turn
  <2> QED
    BY <1>1, <2>1, <2>2, <2>3
       DEF ScreensInv, ScreensTypeOK, SyncSettingsPanel, Turn, pending, Played, Targets
<1>3. PanelInv'
  <2>1. /\ "settings" \notin spawning /\ "settingsPanel" \in ran'
        /\ open' = open /\ flag' = flag
    BY DEF SyncSettingsPanel, Done, ScreensInv, PanelInv
  <2>2. CASE flag
    BY <2>1, <2>2 DEF PanelInv
  <2>3. CASE ~ flag
    BY <2>1, <2>3 DEF SyncSettingsPanel, Despawn, PanelInv
  <2> QED
    BY <2>2, <2>3
<1> QED
  BY <1>1, <1>2, <1>3 DEF ScreensInv, Turn

LEMMA ScreensInitInv ==
  ASSUME ScreensInit
  PROVE  ScreensInv
<1>1. ScreensTypeOK
  <2>1. open \subseteq Names
    BY NamesFacts DEF ScreensInit
  <2>2. events \in 0 .. MaxEvents
    BY ScreensAssumption DEF ScreensInit
  <2> QED
    BY <2>1, <2>2 DEF ScreensInit, ScreensTypeOK
<1> QED
  BY <1>1 DEF ScreensInit, ScreensInv, PanelInv

LEMMA ScreensNextInv == ScreensInv /\ [ScreensNext]_screensVars => ScreensInv'
<1> SUFFICES ASSUME ScreensInv, [ScreensNext]_screensVars
             PROVE  ScreensInv'
  OBVIOUS
<1>1. CASE Flush \/ NextFrame \/ Settle \/ SyncSettingsPanel
  BY <1>1, FlushStep, FrameStep, SyncPanelStep
<1>2. CASE \/ ToggleSettings \/ SettingsButtons \/ OpenSyncSetup \/ ClickLogin
           \/ PollLogin \/ CancelSetup \/ Logout
  BY <1>2, SettingsSteps, CalmKeeps
<1>3. CASE OpenDeleteConfirm \/ CancelDelete \/ ConfirmDelete \/ PollDelete
  BY <1>3, DeletionSteps, CalmKeeps
<1>4. CASE \/ ToggleStats \/ ToggleAchievements \/ ToggleHelp \/ ToggleProfile
           \/ CloseScreen \/ ToggleLeaderboard \/ CloseLeaderboard \/ PollFetch
           \/ SetDisplayName
  BY <1>4, ReadingSteps, CalmKeeps
<1>5. CASE \/ LaunchHome \/ ToggleHome \/ ClickHomeCard \/ HomeDigits \/ CancelHome
           \/ ClickProfileChip \/ RepaintHome
  BY <1>5, HomeSteps, CalmKeeps
<1>6. CASE OnboardingButtons \/ OnboardingKeys
  BY <1>6, OnboardingSteps, CalmKeeps
<1>7. CASE \/ OpenSeedDialog \/ ConfirmSeed \/ CancelSeed
           \/ Win \/ ShowWinSummary \/ LeaveWinSummary
  BY <1>7, WinAndSeedSteps, CalmKeeps
<1>8. CASE \/ TogglePause \/ AutoResume \/ PauseButtons \/ HandleForfeitRequest
           \/ AnswerForfeit \/ OpenSessionDialog \/ AnswerSessionDialog
  BY <1>8, PauseSteps, CalmKeeps
<1>9. CASE \/ HudButtons \/ MenuButton \/ ModesButton \/ MenuOptionClick
           \/ ClosePopover \/ EscapePopovers \/ ClickScrim
  BY <1>9, HudSteps, CalmKeeps
<1>10. CASE UNCHANGED screensVars
  BY <1>10
     DEF screensVars, commands, settings, pending, ScreensInv, ScreensTypeOK, PanelInv
<1> QED
  BY <1>1, <1>2, <1>3, <1>4, <1>5, <1>6, <1>7, <1>8, <1>9, <1>10 DEF ScreensNext

(* Every history of screens stays within the inductive invariant.          *)
THEOREM ScreensInductive == ScreensSpec => []ScreensInv
<1>1. ScreensInit => ScreensInv
  BY ScreensInitInv
<1> QED
  BY <1>1, ScreensNextInv, PTL DEF ScreensSpec

(* PanelFollowsFlag: no settings panel outlives its flag, for every bound  *)
(* on open screens and on events, whichever of the six systems has         *)
(* cleared it and whatever was on its way to be spawned in that frame.     *)
(* (And every variable has its type: nothing is closed that is not open.)  *)
THEOREM PanelCorrect == ScreensSpec => []PanelFollowsFlag
<1>1. ScreensInv => PanelFollowsFlag
  BY DEF ScreensInv, PanelInv, PanelFollowsFlag, AtRest
<1> QED
  BY <1>1, ScreensInductive, PTL

---------------------------------------------------------------------------
(* Table: the invariant.                                                   *)

(* A request to bring the sprites in line with the game is on its way.     *)
NeedsSync  == "sync" \in todo \/ \E c \in queued : c.by = "sync"
HasCascade == "cascade" \in todo \/ \E c \in queued : c.by = "cascade"

IsSprite(s) ==
  s = [at |-> s.at, up |-> s.up, hidden |-> s.hidden, tilted |-> s.tilted,
       slide |-> s.slide, tween |-> s.tween, shake |-> s.shake]

Drawing(d) ==
  /\ d = [f \in DOMAIN d |-> d[f]] /\ DOMAIN d \subseteq Face
  /\ \A f \in DOMAIN d : IsSprite(d[f]) /\ Cardinality(d[f].shake) <= 1

(* The sprites are those of the board p, and show what it says of them.    *)
FacedAs(s, p, f) ==
  s.up = CardAt(p, SpotOf(p, f)).up /\ s.hidden = Buried(p, SpotOf(p, f))
Faced(d, p) == DOMAIN d = FacesOf(p) /\ \A f \in DOMAIN d : FacedAs(d[f], p, f)

(* No trace of a cascade.                                                  *)
UprightOne(s) == ~ s.tilted /\ s.tween # Outside
Upright(d)    == \A f \in DOMAIN d : UprightOne(d[f])

(* A tilted card is on its way out, or home to a foundation: it belongs    *)
(* to a game that was won.                                                 *)
OnFoundation(w) == \E sz \in {0, 1}, i \in Slots :
                     w = [x |-> <<sz, 3 + i, 0>>, y |-> <<sz, 0, 0, 0>>]
GoneOne(s) == s.tilted => s.tween \in {Nowhere, Outside} \/ OnFoundation(s.tween)
Gone(d)    == \A f \in DOMAIN d : GoneOne(d[f])

Playable(p) == GoodBoard(p) /\ OnePlace(p)

BoardsInv ==
  /\ Playable(live) /\ past \in Seq(Boards)
  /\ \A k \in 1 .. Len(past) : Playable(past[k])

TypedInv ==
  /\ begun \in BOOLEAN /\ size \in {0, 1}
  /\ {resized, instant, paused} \subseteq BOOLEAN
  /\ drag.cards \subseteq Face /\ drag.origin \in PileType
  /\ rejected \subseteq PileType /\ settling \subseteq Face
  /\ done \in Nat /\ (done = 0 => drag = NoDrag /\ (begun \/ live = NewDeal))

LitInv ==
  /\ lit.piles \subseteq PileType /\ lit.card \in Card
  /\ lit.piles \subseteq Takers(lit.card)
  /\ paused => lit = NoLit

(* What a system has seen has since changed in place alone.                *)
QueueInv ==
  /\ IsFiniteSet(queued)
  /\ \A c \in queued :
       /\ DOMAIN c.seen = DOMAIN drawn
       /\ IF c.by = "sync" THEN c.of = FacesOf(live) ELSE c.of \subseteq DOMAIN drawn
       /\ \A f \in DOMAIN drawn : /\ c.seen[f].tilted = drawn[f].tilted
                                  /\ c.seen[f].tween = drawn[f].tween

DrawnInv ==
  /\ Drawing(drawn)
  /\ NeedsSync \/ Faced(drawn, live)
  /\ sign = (live[Stock] = << >>)

(* After a deal has ended a won game, the next sync frees every card.      *)
Leaves(d) == \A f \in DOMAIN d \cap FacesOf(live) : d[f].tilted => d[f].tween # Home(live, f)

CascadeInv ==
  /\ Gone(drawn)
  /\ HasCascade => Won
  /\ ~ Won => IF NeedsSync THEN Leaves(drawn) ELSE Upright(drawn)

TableInv == BoardsInv /\ TypedInv /\ LitInv /\ QueueInv /\ DrawnInv /\ CascadeInv

---------------------------------------------------------------------------
(* Boards.                                                                 *)

LEMMA OnePlaceOfPositions ==
  ASSUME NEW p, \A f \in Face : Cardinality(Positions(p, f)) = 1,
         \A f \in Face : IsFiniteSet(Positions(p, f))
  PROVE  OnePlace(p)
<1>1. ASSUME NEW f \in Face
      PROVE  \E m : Positions(p, f) = {m}
  BY <1>1, FS_Singleton
<1>2. ASSUME NEW t \in PileType, NEW k \in 1 .. Len(p[t]), NEW f \in Face,
             SameFace(p[t][k], f)
      PROVE  <<t, k>> \in Positions(p, f)
  BY <1>2 DEF Positions, Places, SameFace
<1>3. ASSUME NEW f \in Face
      PROVE  \E t \in PileType : \E k \in 1 .. Len(p[t]) : SameFace(p[t][k], f)
  <2>1. PICK m : m \in Positions(p, f)
    BY <1>1
  <2>2. PICK t \in PileType : m \in {t} \X (1 .. Len(p[t]))
    BY <2>1 DEF Positions, Places
  <2>3. m[1] = t /\ m[2] \in 1 .. Len(p[t]) /\ SameFace(p[m[1]][m[2]], f)
    BY <2>1, <2>2 DEF Positions, SameFace
  <2> QED
    BY <2>3
<1>4. ASSUME NEW f \in Face, NEW t \in PileType, NEW u \in PileType,
             NEW k \in 1 .. Len(p[t]), NEW l \in 1 .. Len(p[u]),
             SameFace(p[t][k], f), SameFace(p[u][l], f)
      PROVE  t = u /\ k = l
  <2>1. <<t, k>> = <<u, l>>
    BY <1>1, <1>2, <1>4
  <2> QED
    BY <2>1
<1> QED
  BY <1>3, <1>4 DEF OnePlace

LEMMA PileTypeFinite == IsFiniteSet(PileType)
<1>1. IsFiniteSet({Stock}) /\ IsFiniteSet({Waste})
  BY FS_Singleton
<1>2. IsFiniteSet({Stock} \cup {Waste})
  BY <1>1, FS_Union
<1>3. IsFiniteSet({Stock} \cup {Waste} \cup Foundations)
  BY <1>2, PilesFinite, FS_Union
<1>4. IsFiniteSet({Stock} \cup {Waste} \cup Foundations \cup Tableaus)
  BY <1>3, PilesFinite, FS_Union
<1> QED
  BY <1>4, {Stock, Waste} = {Stock} \cup {Waste} DEF PileType

LEMMA SavedPlayable == Playable(Saved)
<1>1. GoodBoard(Saved)
  BY SavedAssumption, GoodBoardMeaning
<1>2. IsFiniteSet(Places(PileType, Saved))
  BY SavedAssumption, PlacesFinite, PileTypeFinite
<1>3. \A f \in Face : Positions(Saved, f) \subseteq Places(PileType, Saved)
  BY DEF Positions
<1>4. \A f \in Face : IsFiniteSet(Positions(Saved, f))
  BY <1>2, <1>3, FS_Subset
<1> QED
  BY <1>1, <1>4, OnePlaceOfPositions, SavedAssumption DEF Playable

LEMMA NewDealPlayable == Playable(NewDeal) /\ ~ CheckWin(NewDeal)
BY DeckAssumption, DealGood, DealOnePlace, DealNotWon DEF Playable, NewDeal

LEMMA PlayableAfterMove ==
  ASSUME NEW p, Playable(p), NEW from \in PileType, NEW to \in PileType, NEW n,
         MoveAllowed(p, TRUE, from, to, n)
  PROVE  Playable(AfterMove(p, from, to, n))
<1>1. n \in 1 .. Len(p[from])
  BY DEF MoveAllowed
<1> QED
  BY <1>1, MoveGood, MoveOnePlace DEF Playable

LEMMA PlayableAfterOffer ==
  ASSUME NEW p, Playable(p), NEW m \in PossibleInstructions(p, TRUE)
  PROVE  Playable(AfterMove(p, m[1], m[2], m[3]))
<1>1a. \E from, to, n : m = <<from, to, n>> /\ Offered(p, TRUE, from, to, n)
  BY InstructionsOffered
<1>1. PICK from, to, n : m = <<from, to, n>> /\ Offered(p, TRUE, from, to, n)
  BY <1>1a
<1>2. from \in PileType /\ to \in PileType /\ n \in 1 .. Len(p[from])
  BY <1>1, OfferedInRange DEF Playable
<1>3. MoveAllowed(p, TRUE, from, to, n)
  BY <1>1, <1>2, OfferedIsAllowed DEF Playable
<1>4. Playable(AfterMove(p, from, to, n))
  BY <1>2, <1>3, PlayableAfterMove
<1> QED
  BY <1>1, <1>4

LEMMA PlayableAfterStock ==
  ASSUME NEW p, Playable(p)
  PROVE  /\ Playable(AfterDraw(p, CardsPerDraw))
         /\ p[Stock] = << >> => Playable(AfterRecycle(p))
<1>1. CardsPerDraw \in Nat
  BY TableAssumption
<1> QED
  BY <1>1, DrawGood, DrawOnePlace, RecycleGood, RecycleOnePlace DEF Playable

LEMMA SpotFacts ==
  ASSUME NEW p, Playable(p)
  PROVE  /\ FacesOf(p) \subseteq Face
         /\ \A s \in Spots(p) : /\ s[1] \in PileType /\ s[2] \in 1 .. Len(p[s[1]])
                              /\ CardAt(p, s) \in Card /\ FaceOf(CardAt(p, s)) \in Face
         /\ \A f \in FacesOf(p) : /\ SpotOf(p, f) \in Spots(p)
                                /\ FaceOf(CardAt(p, SpotOf(p, f))) = f
<1>1. ASSUME NEW s \in Spots(p)
      PROVE  /\ s[1] \in PileType /\ s[2] \in 1 .. Len(p[s[1]])
             /\ CardAt(p, s) \in Card /\ FaceOf(CardAt(p, s)) \in Face
  <2>1. PICK t \in PileType : s \in {t} \X (1 .. Len(p[t]))
    BY DEF Spots, Places
  <2>2. s[1] = t /\ s[2] \in 1 .. Len(p[t])
    BY <2>1
  <2>3. p[t] \in Seq(Card)
    BY DEF Playable, GoodBoard, GoodPile
  <2>4. p[t][s[2]] \in Card
    BY <2>2, <2>3, ElementOfSeq
  <2> QED
    BY <2>2, <2>4 DEF CardAt, FaceOf, Card, Face
<1>2. ASSUME NEW f \in FacesOf(p)
      PROVE  \E s \in Spots(p) : FaceOf(CardAt(p, s)) = f
  BY DEF FacesOf, Rendered
<1>3. FacesOf(p) \subseteq Face
  BY <1>1, <1>2
<1>4. ASSUME NEW f \in FacesOf(p)
      PROVE  SpotOf(p, f) \in Spots(p) /\ FaceOf(CardAt(p, SpotOf(p, f))) = f
  BY <1>2 DEF SpotOf
<1> QED
  BY <1>1, <1>3, <1>4

---------------------------------------------------------------------------
(* Sprites.                                                                *)

(* e is d with some sprites moved and nothing else about them changed.     *)
Shifted(d, e) ==
  /\ DOMAIN e = DOMAIN d /\ e = [f \in DOMAIN e |-> e[f]]
  /\ \A f \in DOMAIN d : \E v : e[f] = [d[f] EXCEPT !.at = v]

LEMMA ShiftedFacts ==
  ASSUME NEW d, NEW e, Drawing(d), Shifted(d, e)
  PROVE  /\ Drawing(e) /\ DOMAIN e = DOMAIN d
         /\ \A f \in DOMAIN d : /\ e[f].up = d[f].up /\ e[f].hidden = d[f].hidden
                              /\ e[f].tilted = d[f].tilted /\ e[f].tween = d[f].tween
<1>1. ASSUME NEW f \in DOMAIN d
      PROVE  /\ e[f].up = d[f].up /\ e[f].hidden = d[f].hidden
             /\ e[f].tilted = d[f].tilted /\ e[f].tween = d[f].tween
             /\ IsSprite(e[f]) /\ Cardinality(e[f].shake) <= 1
  <2>1. PICK v : e[f] = [d[f] EXCEPT !.at = v]
    BY DEF Shifted
  <2>2. IsSprite(d[f]) /\ Cardinality(d[f].shake) <= 1
    BY DEF Drawing
  <2> DEFINE s == d[f]
             t == e[f]
  <2>3. s = [at |-> s.at, up |-> s.up, hidden |-> s.hidden, tilted |-> s.tilted,
             slide |-> s.slide, tween |-> s.tween, shake |-> s.shake]
    BY <2>2 DEF IsSprite
  <2>4. t = [s EXCEPT !.at = v]
    BY <2>1
  <2> HIDE DEF s, t
  <2>5. t = [at |-> v, up |-> s.up, hidden |-> s.hidden, tilted |-> s.tilted,
             slide |-> s.slide, tween |-> s.tween, shake |-> s.shake]
    BY <2>3, <2>4
  <2>6. /\ t.up = s.up /\ t.hidden = s.hidden /\ t.tilted = s.tilted
        /\ t.tween = s.tween /\ t.shake = s.shake /\ IsSprite(t)
    BY <2>5 DEF IsSprite
  <2> QED
    BY <2>2, <2>6 DEF s, t
<1>2. DOMAIN e = DOMAIN d /\ e = [f \in DOMAIN e |-> e[f]] /\ DOMAIN d \subseteq Face
  BY DEF Shifted, Drawing
<1> QED
  BY <1>1, <1>2 DEF Drawing

LEMMA ShiftedSame ==
  ASSUME NEW d, Drawing(d)
  PROVE  Shifted(d, d)
<1>1. ASSUME NEW f \in DOMAIN d
      PROVE  d[f] = [d[f] EXCEPT !.at = d[f].at]
  BY DEF Drawing, IsSprite
<1> QED
  BY <1>1 DEF Shifted, Drawing

LEMMA CarriedShifted ==
  ASSUME NEW d, NEW cards, Drawing(d)
  PROVE  Shifted(d, Carried(d, cards))
<1>1. ASSUME NEW f \in DOMAIN d
      PROVE  \E v : Carried(d, cards)[f] = [d[f] EXCEPT !.at = v]
  <2>1. d[f] = [d[f] EXCEPT !.at = d[f].at]
    BY DEF Drawing, IsSprite
  <2> QED
    BY <2>1 DEF Carried
<1> QED
  BY <1>1 DEF Shifted, Carried

LEMMA SpriteFacts ==
  ASSUME NEW p, NEW f
  PROVE  /\ IsSprite(Sprite(p, f)) /\ Cardinality(Sprite(p, f).shake) <= 1
         /\ FacedAs(Sprite(p, f), p, f) /\ UprightOne(Sprite(p, f))
         /\ ~ Sprite(p, f).tilted /\ Sprite(p, f).tween = Nowhere
         /\ Sprite(p, f).at = Home(p, f)
<1>1. Cardinality({}) <= 1
  BY FS_EmptySet
<1>2. Nowhere # Outside
  BY DEF Nowhere, Outside
<1> QED
  BY <1>1, <1>2 DEF Sprite, IsSprite, FacedAs, UprightOne

---------------------------------------------------------------------------
(* A frame that goes on after a doing.                                     *)

LEMMA TableAtRest ==
  ASSUME TableInv, BetweenFrames
  PROVE  /\ ~ NeedsSync /\ ~ HasCascade /\ Faced(drawn, live)
         /\ todo = {} /\ queued = {} /\ (~ Won => Upright(drawn))
BY DEF TableInv, BetweenFrames, DrawnInv, CascadeInv, NeedsSync, HasCascade

LEMMA AddedFinite ==
  ASSUME NEW S, NEW x, IsFiniteSet(S)
  PROVE  IsFiniteSet(S \cup {x})
BY FS_AddElement

LEMMA FromUpright ==
  ASSUME NEW d, Upright(d)
  PROVE  Gone(d) /\ \A f \in DOMAIN d : ~ d[f].tilted
BY DEF Upright, UprightOne, Gone, GoneOne

LEMMA CardExists == Card # {}
<1>1. Face # {}
  <2>1. 0 \in 0 .. NumColumns - 1 /\ NumColumns \in Nat
    BY PilesAssumption
  <2>2. DealtBefore(NumColumns) \in Nat /\ DealtBefore(0) \in Nat
        /\ DealtBefore(0) + 0 + 1 <= DealtBefore(NumColumns)
    BY <2>1, DealtBeforeFacts
  <2>3. Deck \in Seq(Face) /\ Len(Deck) \in Nat /\ 1 \in 1 .. Len(Deck)
    BY <2>2, DeckAssumption, LenProperties DEF IsDeck
  <2> QED
    BY <2>3, ElementOfSeq
<1>2. PICK f \in Face : TRUE
  BY <1>1
<1>3. Turned(f, TRUE) \in Card
  BY <1>2 DEF Turned, Face, Card
<1> QED
  BY <1>3

(* From a frame's start, with a change of the game reported to the sync.   *)
LEMMA GoesOn ==
  ASSUME TableInv, BetweenFrames, NEW d, NEW due, GoOn(d, due),
         Drawing(d), DOMAIN d = DOMAIN drawn,
         \A f \in DOMAIN d : d[f].up = drawn[f].up /\ d[f].hidden = drawn[f].hidden,
         BoardsInv', TypedInv',
         "sync" \notin due => live' = live,
         "cascade" \in due => Won',
         Gone(d),
         ~ Won' => IF "sync" \in due THEN Leaves(d)' ELSE Upright(d)
  PROVE  TableInv'
<1>0. /\ todo = {} /\ queued = {} /\ Faced(drawn, live)
      /\ LitInv /\ sign = (live[Stock] = << >>)
  BY TableAtRest DEF TableInv, DrawnInv
<1>1. /\ drawn' = d /\ lit' = PutOut(due) /\ queued' = {}
      /\ sign' = IF "sync" \in due THEN live'[Stock] = << >> ELSE sign
      /\ todo' = due \cup (IF resized' THEN {"snap"} ELSE {})
                 \cup (IF paused' THEN {} ELSE Moving(d) \cup SetMoving(due))
  BY <1>0 DEF GoOn
<1>2. "sync" \in todo' <=> "sync" \in due
  BY <1>1 DEF Moving, SetMoving
<1>3. "cascade" \in todo' <=> "cascade" \in due
  BY <1>1 DEF Moving, SetMoving
<1>4. (NeedsSync' <=> "sync" \in due) /\ (HasCascade' <=> "cascade" \in due)
  BY <1>1, <1>2, <1>3 DEF NeedsSync, HasCascade
<1>5. QueueInv'
  <2>1. IsFiniteSet({})
    BY FS_EmptySet
  <2> QED
    BY <1>1, <2>1 DEF QueueInv
<1>6. LitInv'
  <2>1. CASE lit' = NoLit
    <3>2. NoLit.piles = {} /\ NoLit.card \in Card
      BY CardExists DEF NoLit
    <3> QED
      BY <2>1, <3>2 DEF LitInv
  <2>2. CASE lit' # NoLit
    <3>1. lit' = lit /\ "sync" \notin due /\ ~ paused'
      BY <1>1, <2>2 DEF PutOut
    <3>2. live' = live
      BY <3>1
    <3>3. Takers(lit.card)' = Takers(lit.card)
      BY <3>1, <3>2 DEF Takers
    <3> QED
      BY <1>0, <3>1, <3>3 DEF LitInv
  <2> QED
    BY <2>1, <2>2
<1>7. DrawnInv'
  <2>1. Drawing(drawn)'
    BY <1>1 DEF Drawing, IsSprite
  <2>2. sign' = (live'[Stock] = << >>)
    BY <1>0, <1>1
  <2>3. NeedsSync' \/ Faced(drawn, live)'
    <3> SUFFICES ASSUME ~ NeedsSync' PROVE Faced(drawn, live)'
      OBVIOUS
    <3>1. "sync" \notin due /\ live' = live
      BY <1>4
    <3>2. Faced(d, live)
      BY <1>0 DEF Faced, FacedAs
    <3> QED
      BY <1>1, <3>1, <3>2
  <2> QED
    BY <2>1, <2>2, <2>3 DEF DrawnInv
<1>8. CascadeInv'
  <2>1. Gone(drawn)'
    BY <1>1 DEF Gone, GoneOne, OnFoundation
  <2>2. Won' \/ ~ HasCascade'
    BY <1>4
  <2>3. ASSUME ~ Won'
        PROVE  IF NeedsSync' THEN Leaves(drawn)' ELSE Upright(drawn)'
    <3>1. CASE "sync" \in due
      BY <1>1, <1>4, <2>3, <3>1 DEF Leaves
    <3>2. CASE "sync" \notin due
      <4>1. Upright(d)
        BY <2>3, <3>2
      <4>2. Upright(drawn)'
        BY <1>1, <4>1 DEF Upright, UprightOne
      <4> QED
        BY <1>4, <3>2, <4>2
    <3> QED
      BY <3>1, <3>2
  <2> QED
    BY <2>1, <2>2, <2>3 DEF CascadeInv
<1> QED
  BY <1>5, <1>6, <1>7, <1>8 DEF TableInv

(* No place is off the table.                                              *)
LEMMA PlaceFacts ==
  ASSUME NEW p, NEW s
  PROVE  /\ Place(p, s) # Nowhere /\ Place(p, s) # Outside
         /\ Place(p, s).x[2] = GridColumn(s[1])
         /\ Place(p, s).y[2] = IF s[1] \in Tableaus THEN 1 ELSE 0
<1> DEFINE X == <<size, GridColumn(s[1]), IF s[1] = Waste THEN Fanned(p, s[2]) ELSE 0>>
           downs == Cardinality({j \in 1 .. s[2] - 1 : ~ p[s[1]][j].up})
           Y == IF s[1] \in Tableaus THEN <<size, 1, downs, s[2] - 1 - downs>>
                ELSE <<size, 0, 0, 0>>
<1>1. Place(p, s) = [x |-> X, y |-> Y]
  BY DEF Place
<1>2. Len(X) = 3 /\ X[2] = GridColumn(s[1])
  OBVIOUS
<1>3. Y[2] = IF s[1] \in Tableaus THEN 1 ELSE 0
  OBVIOUS
<1> HIDE DEF X, Y
<1>4. Place(p, s).x = X /\ Place(p, s).y = Y
  BY <1>1
<1>5. Len(Nowhere.x) = 1 /\ Len(Outside.x) = 1
  BY DEF Nowhere, Outside
<1>6. X # Nowhere.x /\ X # Outside.x
  BY <1>2, <1>5
<1>7. Place(p, s) # Nowhere /\ Place(p, s) # Outside
  BY <1>4, <1>6
<1> QED
  BY <1>2, <1>3, <1>4, <1>7

(* A card of a deal belongs nowhere a cascade has left it.                 *)
LEMMA DealtElsewhere ==
  ASSUME NEW f \in FacesOf(NewDeal)
  PROVE  /\ Home(NewDeal, f) \notin {Nowhere, Outside}
         /\ ~ OnFoundation(Home(NewDeal, f))
<1> DEFINE s == SpotOf(NewDeal, f)
<1>1. s \in Spots(NewDeal) /\ s[1] \in PileType /\ s[2] \in 1 .. Len(NewDeal[s[1]])
  BY NewDealPlayable, SpotFacts
<1>2. Home(NewDeal, f) = Place(NewDeal, s)
  BY DEF Home
<1> HIDE DEF s
<1>3. s[1] = Stock \/ s[1] \in Tableaus
  <2>1. \A t \in PileType : t # Stock /\ t \notin Tableaus => NewDeal[t] = << >>
    BY DEF NewDeal, DealKlondike
  <2>2. Len(NewDeal[s[1]]) # 0
    <3>1. Len(NewDeal[s[1]]) \in Nat
      BY <1>1, NewDealPlayable, LenProperties DEF Playable, GoodBoard, GoodPile
    <3> QED
      BY <1>1, <3>1
  <2> QED
    BY <1>1, <2>1, <2>2
<1>4. ASSUME OnFoundation(Place(NewDeal, s))
      PROVE  FALSE
  <2>1. PICK sz \in {0, 1}, i \in Slots :
          Place(NewDeal, s) = [x |-> <<sz, 3 + i, 0>>, y |-> <<sz, 0, 0, 0>>]
    BY <1>4 DEF OnFoundation
  <2>2. Place(NewDeal, s).x[2] = 3 + i /\ Place(NewDeal, s).y[2] = 0
    BY <2>1
  <2>3. i \in Nat
    BY PilesAssumption DEF Slots
  <2>4. s[1] \notin Tableaus /\ GridColumn(s[1]) = 3 + i
    BY <2>2, PlaceFacts
  <2>5. GridColumn(s[1]) = 0
    BY <1>3, <2>4, PileKinds DEF GridColumn
  <2> QED
    BY <2>3, <2>4, <2>5
<1> QED
  BY <1>2, <1>4, PlaceFacts

LEMMA ShiftedCascade ==
  ASSUME NEW d, NEW e, Drawing(d), Shifted(d, e)
  PROVE  (Gone(d) => Gone(e)) /\ (Upright(d) => Upright(e))
BY ShiftedFacts DEF Gone, GoneOne, Upright, UprightOne

(* A doing that moves sprites at most.                                     *)
LEMMA Continues ==
  ASSUME TableInv, BetweenFrames, NEW d, NEW due, GoOn(d, due), Shifted(drawn, d),
         BoardsInv', TypedInv',
         "sync" \notin due => live' = live,
         "cascade" \in due => Won',
         ~ Won \/ live' = live \/ (live' = NewDeal /\ size' = size)
  PROVE  TableInv'
<1>1. Drawing(drawn) /\ Gone(drawn) /\ (~ Won => Upright(drawn))
  BY TableAtRest DEF TableInv, DrawnInv, CascadeInv
<1>2. /\ Drawing(d) /\ DOMAIN d = DOMAIN drawn
      /\ \A f \in DOMAIN d : d[f].up = drawn[f].up /\ d[f].hidden = drawn[f].hidden
  BY <1>1, ShiftedFacts
<1>3. Gone(d) /\ (~ Won => Upright(d))
  BY <1>1, ShiftedCascade
<1>4. ASSUME ~ Won'
      PROVE  IF "sync" \in due THEN Leaves(d)' ELSE Upright(d)
  <2>1. CASE ~ Won
    <3>1. Upright(d) /\ \A f \in DOMAIN d : ~ d[f].tilted
      BY <1>3, <2>1, FromUpright
    <3> QED
      BY <3>1 DEF Leaves
  <2>2. CASE Won
    <3>1. live' # live
      BY <1>4, <2>2 DEF Won
    <3>2. live' = NewDeal /\ size' = size /\ "sync" \in due
      BY <2>2, <3>1
    <3>3. ASSUME NEW f \in DOMAIN d \cap FacesOf(NewDeal), d[f].tilted
          PROVE  d[f].tween # Home(NewDeal, f)
      BY <1>3, <3>3, DealtElsewhere DEF Gone, GoneOne
    <3>4. \A f : Home(NewDeal, f)' = Home(NewDeal, f)
      BY <3>2 DEF Home, Place
    <3>5. Leaves(d)'
      BY <3>2, <3>3, <3>4 DEF Leaves
    <3> QED
      BY <3>2, <3>5
  <2> QED
    BY <2>1, <2>2
<1> QED
  BY <1>2, <1>3, <1>4, GoesOn

---------------------------------------------------------------------------
(* What the player does.                                                   *)

LEMMA FacesFromFacts ==
  ASSUME Playable(live), NEW t \in PileType, NEW k \in Nat \ {0}
  PROVE  FacesFrom(<<t, k>>) \subseteq Face /\ FacesIn(t) \subseteq Face
<1>1. live[t] \in Seq(Card) /\ Len(live[t]) \in Nat
  BY LenProperties DEF Playable, GoodBoard, GoodPile
<1>2. ASSUME NEW j \in Nat \ {0}, NEW i \in j .. Len(live[t])
      PROVE  FaceOf(CardAt(live, <<t, i>>)) \in Face
  <2>1. i \in 1 .. Len(live[t])
    BY <1>1
  <2>2. live[t][i] \in Card
    BY <1>1, <2>1, ElementOfSeq
  <2> QED
    BY <2>2 DEF CardAt, FaceOf, Card, Face
<1> QED
  BY <1>2, 1 \in Nat \ {0} DEF FacesFrom, FacesIn

LEMMA StillInFace == StillFaces \subseteq Face
BY DEF StillFaces

LEMMA PushedPast ==
  ASSUME NEW p, Playable(p), NEW q, q \in Seq(Boards),
         \A k \in 1 .. Len(q) : Playable(q[k])
  PROVE  /\ <<p>> \o q \in Seq(Boards)
         /\ \A k \in 1 .. Len(<<p>> \o q) : Playable((<<p>> \o q)[k])
<1>1. <<p>> \in Seq(Boards) /\ Len(<<p>>) = 1 /\ <<p>>[1] = p
  BY DEF Playable, GoodBoard
<1>2. Len(q) \in Nat
  BY LenProperties
<1>3. /\ <<p>> \o q \in Seq(Boards) /\ Len(<<p>> \o q) = 1 + Len(q)
      /\ \A k \in 1 .. 1 + Len(q) :
           (<<p>> \o q)[k] = IF k <= 1 THEN <<p>>[k] ELSE q[k - 1]
  BY <1>1, ConcatProperties
<1> DEFINE r == <<p>> \o q
<1>4. r \in Seq(Boards) /\ Len(r) = 1 + Len(q)
  BY <1>3
<1>5. \A k \in 1 .. 1 + Len(q) : r[k] = IF k <= 1 THEN <<p>>[k] ELSE q[k - 1]
  BY <1>3
<1> HIDE DEF r
<1>6. ASSUME NEW k \in 1 .. Len(r)
      PROVE  Playable(r[k])
  <2>1. CASE k = 1
    BY <1>1, <1>2, <1>4, <1>5, <2>1
  <2>2. CASE k # 1
    <3>1. k - 1 \in 1 .. Len(q) /\ r[k] = q[k - 1]
      BY <1>2, <1>4, <1>5, <2>2
    <3> QED
      BY <3>1
  <2> QED
    BY <2>1, <2>2
<1> QED
  BY <1>4, <1>6 DEF r

LEMMA PoppedPast ==
  ASSUME NEW q, q \in Seq(Boards), q # << >>, \A k \in 1 .. Len(q) : Playable(q[k])
  PROVE  /\ Playable(Head(q)) /\ Tail(q) \in Seq(Boards)
         /\ \A k \in 1 .. Len(Tail(q)) : Playable(Tail(q)[k])
<1>1. Len(q) \in Nat /\ Len(q) # 0
  BY LenProperties, EmptySeq
<1>2. Head(q) = q[1]
  OBVIOUS
<1>3. /\ Tail(q) \in Seq(Boards) /\ Len(Tail(q)) = Len(q) - 1
      /\ \A k \in 1 .. Len(q) - 1 : Tail(q)[k] = q[k + 1]
  BY HeadTailProperties
<1>4. \A k \in 1 .. Len(q) - 1 : k + 1 \in 1 .. Len(q)
  BY <1>1
<1> QED
  BY <1>1, <1>2, <1>3, <1>4

(* A change of the game to b.                                              *)
LEMMA PlayInv ==
  ASSUME TableInv, BetweenFrames, ~ Won, NEW b, Playable(b), NEW dragging,
         Play(b, dragging), UNCHANGED <<window, paused>>,
         dragging.cards \subseteq Face /\ dragging.origin \in PileType,
         rejected' \subseteq PileType, done' \in Nat \ {0}
  PROVE  TableInv'
<1> DEFINE due == {"sync"} \cup (IF CheckWin(b) THEN {"cascade"} ELSE {})
<1>1. /\ drag' = dragging /\ live' = b /\ past' = <<live>> \o past /\ begun' = begun
      /\ settling' = (IF CheckWin(b) THEN {} ELSE StillFaces)
      /\ GoOn(Carried(drawn, dragging.cards), due)
  BY DEF Play
<1>2. BoardsInv'
  BY <1>1, PushedPast DEF TableInv, BoardsInv, Playable
<1>3. TypedInv'
  BY <1>1, StillInFace DEF TableInv, TypedInv, window
<1>4. "cascade" \in due => Won'
  BY <1>1 DEF Won
<1>5. Shifted(drawn, Carried(drawn, dragging.cards))
  BY CarriedShifted DEF TableInv, DrawnInv
<1>6. "sync" \in due
  OBVIOUS
<1> HIDE DEF due
<1> QED
  BY <1>1, <1>2, <1>3, <1>4, <1>5, <1>6, Continues

LEMMA PlayMoveInv == TableInv /\ PlayMove => TableInv'
<1> SUFFICES ASSUME TableInv, PlayMove PROVE TableInv'
  OBVIOUS
<1>1. /\ BetweenFrames /\ ~ Won /\ UNCHANGED <<window, paused, rejected>>
      /\ done' = done + 1
  BY DEF PlayMove, Doing
<1>2. /\ drag.cards \subseteq Face /\ drag.origin \in PileType
      /\ rejected \subseteq PileType /\ done \in Nat /\ Playable(live)
  BY DEF TableInv, TypedInv, BoardsInv
<1>3. done' \in Nat \ {0} /\ rejected' \subseteq PileType
  BY <1>1, <1>2
<1>4. CASE \E m \in PossibleInstructions(live, TRUE) :
             Play(AfterMove(live, m[1], m[2], m[3]), drag)
  BY <1>1, <1>2, <1>3, <1>4, PlayableAfterOffer, PlayInv
<1>5. CASE live[Stock] # << >> /\ Play(AfterDraw(live, CardsPerDraw), drag)
  BY <1>1, <1>2, <1>3, <1>5, PlayableAfterStock, PlayInv
<1>6. CASE live[Stock] = << >> /\ live[Waste] # << >> /\ Play(AfterRecycle(live), drag)
  BY <1>1, <1>2, <1>3, <1>6, PlayableAfterStock, PlayInv
<1> QED
  BY <1>4, <1>5, <1>6 DEF PlayMove

LEMMA FollowingShifted ==
  ASSUME TableInv
  PROVE  Shifted(drawn, Following) /\ Shifted(drawn, drawn)
BY CarriedShifted, ShiftedSame DEF TableInv, DrawnInv, Following

LEMMA UndoMoveInv == TableInv /\ UndoMove => TableInv'
<1> SUFFICES ASSUME TableInv, UndoMove PROVE TableInv'
  OBVIOUS
<1>1. /\ BetweenFrames /\ ~ Won /\ past # << >> /\ done' = done + 1
      /\ UNCHANGED <<begun, window, paused, drag, rejected>>
      /\ live' = Head(past) /\ past' = Tail(past) /\ settling' = StillFaces
      /\ GoOn(Following, {"sync"})
  BY DEF UndoMove, Doing
<1>2. BoardsInv'
  BY <1>1, PoppedPast DEF TableInv, BoardsInv
<1>3. TypedInv'
  BY <1>1, StillInFace DEF TableInv, TypedInv, window
<1> QED
  BY <1>1, <1>2, <1>3, FollowingShifted, Continues

LEMMA RestoreInv == TableInv /\ Restore => TableInv'
<1> SUFFICES ASSUME TableInv, Restore PROVE TableInv'
  OBVIOUS
<1>1. /\ BetweenFrames /\ done = 0 /\ ~ begun
      /\ UNCHANGED <<window, paused, drag, rejected, done>>
      /\ live' = Saved /\ past' = << >> /\ begun' = TRUE /\ settling' = StillFaces
      /\ GoOn(drawn, {"sync"})
  BY DEF Restore
<1>2. ~ Won
  BY <1>1, NewDealPlayable DEF TableInv, TypedInv, Won
<1>3. BoardsInv'
  BY <1>1, SavedPlayable, EmptySeq DEF BoardsInv
<1>4. TypedInv'
  BY <1>1, StillInFace DEF TableInv, TypedInv, window
<1> QED
  BY <1>1, <1>2, <1>3, <1>4, FollowingShifted, Continues

LEMMA AskNewGameInv == TableInv /\ AskNewGame => TableInv'
<1> SUFFICES ASSUME TableInv, AskNewGame PROVE TableInv'
  OBVIOUS
<1>1. PICK dealt, animated \in BOOLEAN :
        /\ IF dealt THEN live' = NewDeal /\ past' = << >> /\ begun' = FALSE
           ELSE UNCHANGED liveGame
        /\ settling' = (IF animated THEN {} ELSE StillFaces)
        /\ GoOn(IF dealt THEN [f \in DOMAIN drawn |-> [Following[f] EXCEPT !.at = StockPlace]]
                ELSE Following,
                (IF dealt THEN {"sync"} ELSE {})
                \cup (IF animated /\ past' = << >> /\ ~ begun' THEN {"deal"} ELSE {}))
  BY DEF AskNewGame
<1>2. /\ BetweenFrames /\ done' = done + 1
      /\ UNCHANGED <<window, paused, drag, rejected>>
  BY DEF AskNewGame, Doing
<1>3. BoardsInv'
  <2>1. CASE dealt
    BY <1>1, <2>1, NewDealPlayable, EmptySeq DEF BoardsInv
  <2>2. CASE ~ dealt
    BY <1>1, <2>2 DEF TableInv, BoardsInv, liveGame
  <2> QED
    BY <2>1, <2>2
<1>4. TypedInv'
  <2>1. begun' \in BOOLEAN
    BY <1>1 DEF TableInv, TypedInv, liveGame
  <2>2. settling' \subseteq Face
    BY <1>1, StillInFace
  <2>3. done' \in Nat /\ done' # 0
    BY <1>2 DEF TableInv, TypedInv
  <2> QED
    BY <1>2, <2>1, <2>2, <2>3 DEF TableInv, TypedInv, window
<1> DEFINE d == IF dealt THEN [f \in DOMAIN drawn |-> [Following[f] EXCEPT !.at = StockPlace]]
                ELSE Following
           due == (IF dealt THEN {"sync"} ELSE {})
                  \cup (IF animated /\ past' = << >> /\ ~ begun' THEN {"deal"} ELSE {})
<1>5. Shifted(drawn, d)
  <2>1. CASE dealt
    <3>1. ASSUME NEW f \in DOMAIN drawn
          PROVE  \E v : [Following[f] EXCEPT !.at = StockPlace] = [drawn[f] EXCEPT !.at = v]
      <4>1. PICK w : Following[f] = [drawn[f] EXCEPT !.at = w]
        BY FollowingShifted DEF Shifted
      <4>2. IsSprite(drawn[f])
        BY DEF TableInv, DrawnInv, Drawing
      <4>3. [Following[f] EXCEPT !.at = StockPlace] = [drawn[f] EXCEPT !.at = StockPlace]
        BY <4>1, <4>2 DEF IsSprite
      <4> QED
        BY <4>3
    <3>2. d = [f \in DOMAIN drawn |-> [Following[f] EXCEPT !.at = StockPlace]]
      BY <2>1
    <3> QED
      BY <3>1, <3>2 DEF Shifted
  <2> QED
    BY <2>1, FollowingShifted
<1>6. GoOn(d, due)
  BY <1>1
<1>7. "cascade" \notin due /\ ("sync" \in due <=> dealt)
  OBVIOUS
<1> HIDE DEF d, due
<1>8. dealt => live' = NewDeal /\ size' = size
  BY <1>1, <1>2 DEF window
<1>9. ~ dealt => live' = live
  BY <1>1 DEF liveGame
<1> QED
  BY <1>2, <1>3, <1>4, <1>5, <1>6, <1>7, <1>8, <1>9, Continues

(* A doing that leaves the game as it is.                                  *)
LEMMA GameKept ==
  ASSUME TableInv, BetweenFrames, NEW d, NEW due, GoOn(d, due), Shifted(drawn, d),
         UNCHANGED liveGame, "cascade" \notin due, TypedInv'
  PROVE  TableInv'
<1>1. live' = live
  BY DEF liveGame
<1>2. BoardsInv'
  BY DEF TableInv, BoardsInv, liveGame
<1> QED
  BY <1>1, <1>2, Continues

LEMMA IdleInv == TableInv /\ Idle => TableInv'
<1> SUFFICES ASSUME TableInv, Idle PROVE TableInv'
  OBVIOUS
<1>1. /\ BetweenFrames /\ GoOn(Following, {}) /\ UNCHANGED liveGame
      /\ UNCHANGED <<liveGame, window, paused, drag, rejected, settling, done>>
  BY DEF Idle
<1>2. TypedInv'
  BY <1>1 DEF TableInv, TypedInv, window, liveGame
<1> QED
  BY <1>1, <1>2, FollowingShifted, GameKept

LEMMA WindowInv == TableInv /\ (Resize \/ ChangeSettings) => TableInv'
<1> SUFFICES ASSUME TableInv, Resize \/ ChangeSettings PROVE TableInv'
  OBVIOUS
<1>1. CASE Resize
  <2>1. /\ BetweenFrames /\ GoOn(Following, {}) /\ UNCHANGED liveGame
        /\ done' = done + 1 /\ size' = 1 - size /\ resized' = TRUE
        /\ settling' = StillFaces
        /\ UNCHANGED <<liveGame, instant, paused, drag, rejected>>
    BY <1>1 DEF Resize, Doing
  <2>2. TypedInv'
    BY <2>1, StillInFace DEF TableInv, TypedInv, liveGame
  <2> QED
    BY <2>1, <2>2, FollowingShifted, GameKept
<1>2. CASE ChangeSettings
  <2>1. /\ BetweenFrames /\ GoOn(Following, {"sync"}) /\ UNCHANGED liveGame
        /\ done' = done + 1 /\ instant' \in BOOLEAN
        /\ settling' = StillFaces
        /\ UNCHANGED <<liveGame, size, resized, paused, drag, rejected>>
    BY <1>2 DEF ChangeSettings, Doing
  <2>2. TypedInv'
    BY <2>1, StillInFace DEF TableInv, TypedInv, liveGame
  <2> QED
    BY <2>1, <2>2, FollowingShifted, GameKept
<1> QED
  BY <1>1, <1>2

LEMMA PauseInv == TableInv /\ Pause => TableInv'
<1> SUFFICES ASSUME TableInv, Pause PROVE TableInv'
  OBVIOUS
<1>1. /\ BetweenFrames /\ done' = done + 1
      /\ UNCHANGED <<liveGame, window, rejected>> /\ drag' = NoDrag
  BY DEF Pause, Doing
<1>2. CASE drag = NoDrag
  <2>1. paused' = ~ paused /\ UNCHANGED settling /\ GoOn(drawn, {})
    BY <1>2 DEF Pause
  <2>2. TypedInv'
    BY <1>1, <1>2, <2>1 DEF TableInv, TypedInv, liveGame, window
  <2> QED
    BY <1>1, <2>1, <2>2, FollowingShifted, GameKept
<1>3. CASE drag # NoDrag
  <2>1. UNCHANGED paused /\ settling' = StillFaces /\ GoOn(drawn, {"sync"})
    BY <1>3 DEF Pause
  <2>2. NoDrag.cards \subseteq Face /\ NoDrag.origin \in PileType
    BY PileKinds DEF NoDrag
  <2>3. TypedInv'
    BY <1>1, <2>1, <2>2, StillInFace DEF TableInv, TypedInv, liveGame, window
  <2> QED
    BY <1>1, <2>1, <2>3, FollowingShifted, GameKept
<1> QED
  BY <1>2, <1>3

LEMMA GrabInv == TableInv /\ Grab => TableInv'
<1> SUFFICES ASSUME TableInv, Grab PROVE TableInv'
  OBVIOUS
<1>1. PICK s \in Spots(live) :
        /\ drag' = [cards |-> FacesFrom(s), origin |-> s[1]]
        /\ GoOn(Carried(drawn, FacesFrom(s)), {})
  BY DEF Grab
<1>2. /\ BetweenFrames /\ done' = done + 1
      /\ UNCHANGED <<liveGame, window, paused, rejected, settling>>
  BY DEF Grab, Doing
<1>3. Playable(live)
  BY DEF TableInv, BoardsInv
<1>4. PICK t \in PileType : s \in {t} \X (1 .. Len(live[t]))
  BY DEF Spots, Places
<1>5. s = <<t, s[2]>> /\ s[1] = t /\ s[2] \in 1 .. Len(live[t])
  BY <1>4
<1>6. s[2] \in Nat \ {0}
  <2>1. Len(live[t]) \in Nat
    BY <1>3, LenProperties DEF Playable, GoodBoard, GoodPile
  <2> QED
    BY <1>5, <2>1
<1>7. FacesFrom(s) \subseteq Face
  BY <1>3, <1>5, <1>6, FacesFromFacts
<1>8. TypedInv'
  BY <1>1, <1>2, <1>5, <1>7 DEF TableInv, TypedInv, liveGame, window
<1>9. Shifted(drawn, Carried(drawn, FacesFrom(s)))
  BY CarriedShifted DEF TableInv, DrawnInv
<1> QED
  BY <1>1, <1>2, <1>8, <1>9, GameKept

LEMMA DroppingFacts ==
  ASSUME TableInv, Dropping
  PROVE  /\ BetweenFrames /\ UNCHANGED <<window, paused, done>> /\ drag' = NoDrag
         /\ done \in Nat \ {0}
         /\ NoDrag.cards \subseteq Face /\ NoDrag.origin \in PileType
         /\ drag.cards \subseteq Face /\ drag.origin \in PileType
BY PileKinds DEF TableInv, TypedInv, Dropping, NoDrag

LEMMA DropInv == TableInv /\ (Drop \/ DropOutside) => TableInv'
<1> SUFFICES ASSUME TableInv, Drop \/ DropOutside PROVE TableInv'
  OBVIOUS
<1>1. Dropping
  BY DEF Drop, DropOutside
<1>2. CASE Drop
  <2>1. PICK t \in (Foundations \cup Tableaus) \ {drag.origin} :
          \/ /\ ~ Won
             /\ MoveAllowed(live, TRUE, drag.origin, t, Cardinality(drag.cards))
             /\ Play(AfterMove(live, drag.origin, t, Cardinality(drag.cards)), NoDrag)
             /\ UNCHANGED rejected
          \/ /\ UNCHANGED liveGame
             /\ rejected' = {t}
             /\ settling' = StillFaces \ Aside(t)
             /\ GoOn(drawn, {"sync", "shake"})
    BY <1>2 DEF Drop
  <2>2. t \in PileType
    BY PileKinds
  <2>3. Playable(live) /\ rejected \subseteq PileType
    BY DEF TableInv, BoardsInv, TypedInv
  <2>4. CASE /\ ~ Won
             /\ MoveAllowed(live, TRUE, drag.origin, t, Cardinality(drag.cards))
             /\ Play(AfterMove(live, drag.origin, t, Cardinality(drag.cards)), NoDrag)
             /\ UNCHANGED rejected
    <3> DEFINE b == AfterMove(live, drag.origin, t, Cardinality(drag.cards))
    <3>1. Playable(b)
      BY <1>1, <2>2, <2>3, <2>4, DroppingFacts, PlayableAfterMove
    <3>2. Play(b, NoDrag) /\ ~ Won /\ rejected' \subseteq PileType
      BY <2>3, <2>4
    <3> HIDE DEF b
    <3>3. /\ BetweenFrames /\ UNCHANGED <<window, paused>> /\ done' \in Nat \ {0}
          /\ NoDrag.cards \subseteq Face /\ NoDrag.origin \in PileType
      BY <1>1, DroppingFacts
    <3> QED
      BY <3>1, <3>2, <3>3, PlayInv
  <2>5. CASE /\ UNCHANGED liveGame
             /\ rejected' = {t}
             /\ settling' = StillFaces \ Aside(t)
             /\ GoOn(drawn, {"sync", "shake"})
    <3>1. TypedInv'
      BY <1>1, <2>2, <2>5, DroppingFacts, StillInFace
      DEF TableInv, TypedInv, liveGame, window
    <3> QED
      BY <1>1, <2>5, <3>1, DroppingFacts, FollowingShifted, GameKept
  <2> QED
    BY <2>1, <2>4, <2>5
<1>3. CASE DropOutside
  <2>1. /\ UNCHANGED liveGame /\ rejected' = rejected /\ settling' = StillFaces
        /\ GoOn(drawn, {"sync"})
    BY <1>3 DEF DropOutside
  <2>2. TypedInv'
    BY <1>1, <2>1, DroppingFacts, StillInFace DEF TableInv, TypedInv, liveGame, window
  <2> QED
    BY <1>1, <2>1, <2>2, DroppingFacts, FollowingShifted, GameKept
<1> QED
  BY <1>2, <1>3

(* A game that is won has every card on a foundation.                      *)
LEMMA WonOnFoundations ==
  ASSUME NEW p, Playable(p), CheckWin(p), NEW t \in PileType, NEW k \in 1 .. Len(p[t])
  PROVE  t \in Foundations
<1>1. \A u \in PileType : p[u] \in Seq(Card) /\ Len(p[u]) \in Nat
  BY LenProperties DEF Playable, GoodBoard, GoodPile
<1>2. \A u \in PileType : \A j \in 1 .. Len(p[u]) : p[u][j] \in Card
  BY <1>1, ElementOfSeq
<1>3. \A i \in Slots : /\ Foundation(i) \in PileType /\ Len(p[Foundation(i)]) = King
                       /\ \A j \in 1 .. King :
                            /\ p[Foundation(i)][j].suit = p[Foundation(i)][1].suit
                            /\ p[Foundation(i)][j].rank = j
  BY PileKinds DEF CheckWin, IsValidFoundationPile
<1>4. King \in Nat \ {0} /\ 1 \in 1 .. King
  BY RanksAssumption
<1> DEFINE suit == [i \in Slots |-> p[Foundation(i)][1].suit]
<1>5. \A i \in Slots : suit[i] \in Suits
  <2>1. ASSUME NEW i \in Slots
        PROVE  p[Foundation(i)][1].suit \in Suits
    <3>1. p[Foundation(i)][1] \in Card
      BY <1>2, <1>3, <1>4
    <3> QED
      BY <3>1 DEF Card
  <2> QED
    BY <2>1
<1>6. ASSUME NEW i \in Slots, NEW j \in Slots, suit[i] = suit[j]
      PROVE  i = j
  <2> DEFINE f == [suit |-> suit[i], rank |-> 1]
  <2>1. f \in Face
    BY <1>4, <1>5 DEF Face, Ranks, Ace
  <2>2. /\ SameFace(p[Foundation(i)][1], f) /\ SameFace(p[Foundation(j)][1], f)
        /\ 1 \in 1 .. Len(p[Foundation(i)]) /\ 1 \in 1 .. Len(p[Foundation(j)])
    BY <1>3, <1>4, <1>6 DEF SameFace
  <2>3. Foundation(i) = Foundation(j)
    BY <1>3, <2>1, <2>2 DEF Playable, OnePlace
  <2> QED
    BY <2>3 DEF Foundation
<1>7. suit \in Injection(Slots, Suits)
  BY <1>5, <1>6 DEF Injection, IsInjective
<1>8. IsFiniteSet(Suits) /\ Cardinality(Slots) = Cardinality(Suits)
  <2>1. NumSlots \in Nat
    BY PilesAssumption
  <2>2. Cardinality(0 .. NumSlots - 1) = NumSlots
    BY <2>1, FS_Interval
  <2> QED
    BY <2>2, SuitsAssumption, SlotPerSuit DEF Slots
<1>9. suit \in Surjection(Slots, Suits)
  BY <1>7, <1>8, FS_Injection
<1>10. p[t][k] \in Card
  BY <1>2
<1>11. p[t][k].suit \in Suits /\ p[t][k].rank \in 1 .. King
  BY <1>10 DEF Card, Ranks, Ace
<1>12. PICK i \in Slots : suit[i] = p[t][k].suit
  BY <1>9, <1>11 DEF Surjection
<1> DEFINE f == FaceOf(p[t][k])
<1>13. f \in Face /\ SameFace(p[t][k], f)
  BY <1>10 DEF FaceOf, Card, Face, SameFace
<1>14. /\ SameFace(p[Foundation(i)][p[t][k].rank], f)
       /\ p[t][k].rank \in 1 .. Len(p[Foundation(i)])
  BY <1>3, <1>11, <1>12 DEF SameFace, FaceOf
<1>15. t = Foundation(i)
  BY <1>3, <1>13, <1>14 DEF Playable, OnePlace
<1> QED
  BY <1>15, PileKinds

(* The cards of a pile have their home there, on this board.               *)
LEMMA HomeOfWon ==
  ASSUME TableInv, Won, NEW t \in PileType, NEW f \in FacesIn(t)
  PROVE  OnFoundation(Home(live, f))
<1>1. PICK k \in 1 .. Len(live[t]) : f = FaceOf(CardAt(live, <<t, k>>))
  BY DEF FacesIn, FacesFrom
<1>2. Playable(live) /\ size \in {0, 1} /\ CheckWin(live)
  BY DEF TableInv, BoardsInv, TypedInv, Won
<1>3. <<t, k>> \in Spots(live)
  BY DEF Spots, Places
<1>4. SpotOf(live, f) \in Spots(live)
  BY <1>1, <1>3 DEF SpotOf
<1> DEFINE s == SpotOf(live, f)
<1>5. s[1] \in PileType /\ s[2] \in 1 .. Len(live[s[1]])
  BY <1>2, <1>4, SpotFacts
<1> HIDE DEF s
<1>6. s[1] \in Foundations
  BY <1>2, <1>5, WonOnFoundations
<1>7. PICK i \in Slots : s[1] = Foundation(i)
  BY <1>6 DEF Foundations
<1>8. s[1] # Waste /\ s[1] # Stock /\ s[1] \notin Tableaus
  BY <1>6, PileKinds
<1>9. GridColumn(s[1]) = 3 + i
  <2>1. s[1][2] = i
    BY <1>7 DEF Foundation
  <2> QED
    BY <1>6, <1>8, <2>1 DEF GridColumn
<1>10. Place(live, s) = [x |-> <<size, 3 + i, 0>>, y |-> <<size, 0, 0, 0>>]
  BY <1>8, <1>9 DEF Place
<1> QED
  BY <1>2, <1>10 DEF OnFoundation, Home, s

LEMMA DropRejectedInv == TableInv /\ DropRejected => TableInv'
<1> SUFFICES ASSUME TableInv, DropRejected PROVE TableInv'
  OBVIOUS
<1> DEFINE d == [f \in DOMAIN drawn |->
                   IF f \in drag.cards \cap FacesIn(drag.origin)
                   THEN [drawn[f] EXCEPT !.tween = Home(live, f)] ELSE drawn[f]]
           due == {"sync", "shake"}
<1>1. Dropping /\ UNCHANGED liveGame /\ GoOn(d, due)
  BY DEF DropRejected
<1>2. PICK t \in (Foundations \cup Tableaus) \ {drag.origin} :
        rejected' = {t} /\ settling' = StillFaces \ Aside(t)
  BY DEF DropRejected
<1>3. BoardsInv' /\ live' = live
  BY <1>1 DEF TableInv, BoardsInv, liveGame
<1>4. TypedInv'
  BY <1>1, <1>2, PileKinds, DroppingFacts, StillInFace
  DEF TableInv, TypedInv, liveGame, window
<1>5. Drawing(drawn) /\ Gone(drawn) /\ BetweenFrames /\ (~ Won => Upright(drawn))
  BY <1>1, TableAtRest DEF TableInv, DrawnInv, CascadeInv, Dropping
<1>6. ASSUME NEW f \in DOMAIN drawn
      PROVE  /\ IsSprite(d[f]) /\ Cardinality(d[f].shake) <= 1
             /\ d[f].up = drawn[f].up /\ d[f].hidden = drawn[f].hidden
             /\ d[f].tilted = drawn[f].tilted
             /\ \/ d[f].tween = drawn[f].tween
                \/ d[f].tween = Home(live, f) /\ f \in FacesIn(drag.origin)
  <2>1. IsSprite(drawn[f]) /\ Cardinality(drawn[f].shake) <= 1
    BY <1>5 DEF Drawing
  <2>2. CASE f \in drag.cards \cap FacesIn(drag.origin)
    <3>1. d[f] = [drawn[f] EXCEPT !.tween = Home(live, f)]
      BY <2>2
    <3> DEFINE h == Home(live, f)
               e == d[f]
               s == drawn[f]
    <3>2. e = [s EXCEPT !.tween = h] /\ IsSprite(s)
      BY <2>1, <3>1
    <3> HIDE DEF h, e, s
    <3>3. e = [at |-> s.at, up |-> s.up, hidden |-> s.hidden, tilted |-> s.tilted,
               slide |-> s.slide, tween |-> h, shake |-> s.shake]
      BY <3>2 DEF IsSprite
    <3>4. IsSprite(e) /\ e.up = s.up /\ e.hidden = s.hidden /\ e.tilted = s.tilted
          /\ e.tween = h /\ e.shake = s.shake
      BY <3>3 DEF IsSprite
    <3> QED
      BY <2>1, <2>2, <3>4 DEF h, e, s
  <2>3. CASE f \notin drag.cards \cap FacesIn(drag.origin)
    <3>1. d[f] = drawn[f]
      BY <2>3
    <3> QED
      BY <2>1, <3>1
  <2> QED
    BY <2>2, <2>3
<1>7. DOMAIN d = DOMAIN drawn /\ d = [f \in DOMAIN d |-> d[f]]
  OBVIOUS
<1>8. "sync" \in due /\ "cascade" \notin due
  OBVIOUS
<1> HIDE DEF d, due
<1>9. Drawing(d)
  BY <1>5, <1>6, <1>7 DEF Drawing
<1>10. Gone(d)
  <2>1. ASSUME NEW f \in DOMAIN drawn, d[f].tilted
        PROVE  d[f].tween \in {Nowhere, Outside} \/ OnFoundation(d[f].tween)
    <3>1. drawn[f].tilted
      BY <1>6, <2>1
    <3>2. Won
      BY <1>5, <3>1 DEF Upright, UprightOne
    <3>3. CASE d[f].tween = drawn[f].tween
      BY <1>5, <3>1, <3>3 DEF Gone, GoneOne
    <3>4. CASE d[f].tween = Home(live, f) /\ f \in FacesIn(drag.origin)
      BY <1>1, <3>2, <3>4, DroppingFacts, HomeOfWon
    <3> QED
      BY <1>6, <3>3, <3>4
  <2> QED
    BY <1>7, <2>1 DEF Gone, GoneOne
<1>11a. PICK e : e = d
  OBVIOUS
<1>11. ~ Won' => Leaves(e)'
  <2> SUFFICES ASSUME ~ Won' PROVE Leaves(e)'
    OBVIOUS
  <2>1. ~ Won
    BY <1>3 DEF Won
  <2>2. \A f \in DOMAIN e : ~ e[f].tilted
    BY <1>5, <1>6, <1>7, <1>11a, <2>1 DEF Upright, UprightOne
  <2> QED
    BY <2>2 DEF Leaves
<1>12. \A f \in DOMAIN d : d[f].up = drawn[f].up /\ d[f].hidden = drawn[f].hidden
  BY <1>6, <1>7
<1>13. /\ GoOn(e, due) /\ Drawing(e) /\ DOMAIN e = DOMAIN drawn /\ Gone(e)
       /\ \A f \in DOMAIN e : e[f].up = drawn[f].up /\ e[f].hidden = drawn[f].hidden
  BY <1>1, <1>7, <1>9, <1>10, <1>11a, <1>12
<1> QED
  BY <1>3, <1>4, <1>5, <1>8, <1>11, <1>13, GoesOn

LEMMA DoubleClickInv == TableInv /\ DoubleClickRejected => TableInv'
<1> SUFFICES ASSUME TableInv, DoubleClickRejected PROVE TableInv'
  OBVIOUS
<1>1. /\ BetweenFrames /\ done' = done + 1 /\ GoOn(drawn, {"shake"})
      /\ UNCHANGED <<liveGame, window, paused, drag>>
  BY DEF DoubleClickRejected, Doing
<1>2. PICK s \in Spots(live) :
        rejected' = {s[1]} /\ settling' = settling \ Aside(s[1])
  BY DEF DoubleClickRejected
<1>3. s[1] \in PileType
  BY SpotFacts DEF TableInv, BoardsInv
<1>4. TypedInv'
  BY <1>1, <1>2, <1>3 DEF TableInv, TypedInv, liveGame, window
<1> QED
  BY <1>1, <1>4, FollowingShifted, GameKept

LEMMA TakersAreFoundations ==
  ASSUME NEW card
  PROVE  Takers(card) \subseteq PileType
BY PileKinds DEF Takers

(* The light of a right click goes on and out.                             *)
LEMMA LightInv == TableInv /\ (RightClick \/ Expire) => TableInv'
<1> SUFFICES ASSUME TableInv, RightClick \/ Expire PROVE TableInv'
  OBVIOUS
<1>1. /\ UNCHANGED <<liveGame, window, paused, drag, drawn, sign, frame, settling>>
      /\ done' = done + 1 \/ done' = done
      /\ ~ paused /\ BetweenFrames
  BY DEF RightClick, Expire, Doing
<1>2. /\ live' = live /\ drawn' = drawn /\ sign' = sign /\ queued' = queued
      /\ todo' = todo /\ size' = size
  BY <1>1 DEF liveGame, frame, window
<1>3. BoardsInv' /\ TypedInv'
  BY <1>1 DEF TableInv, BoardsInv, TypedInv, liveGame, frame, window
<1>4. \/ lit'.piles = Takers(lit'.card) /\ lit'.card \in Card
      \/ lit' = NoLit
  <2>1. CASE RightClick
    <3>1. PICK f \in DOMAIN drawn :
            lit' = [piles |-> Takers(CardAt(live, Spot(f))), card |-> CardAt(live, Spot(f))]
      BY <2>1 DEF RightClick
    <3>2. f \in FacesOf(live)
      BY <1>1, TableAtRest DEF Faced
    <3>3. CardAt(live, Spot(f)) \in Card
      BY <3>2, SpotFacts DEF TableInv, BoardsInv, Spot
    <3> QED
      BY <3>1, <3>3
  <2>2. CASE Expire
    BY <2>2 DEF Expire
  <2> QED
    BY <2>1, <2>2
<1>5. LitInv'
  <2>1. Takers(lit.card)' = Takers(lit'.card)
    BY <1>2 DEF Takers
  <2>2. NoLit.piles = {} /\ NoLit.card \in Card
    BY CardExists DEF NoLit
  <2>3. ~ paused'
    BY <1>1
  <2> QED
    BY <1>4, <2>1, <2>2, <2>3, TakersAreFoundations DEF LitInv
<1>6. QueueInv'
  BY <1>1, FS_EmptySet DEF QueueInv, BetweenFrames, frame
<1>7. NeedsSync' = NeedsSync /\ HasCascade' = HasCascade /\ Won' = Won
  BY <1>2 DEF NeedsSync, HasCascade, Won
<1>8. DrawnInv'
  BY <1>2, <1>7 DEF TableInv, DrawnInv
<1>9. CascadeInv'
  <2>1. Leaves(drawn)' <=> Leaves(drawn)
    BY <1>2 DEF Leaves, Home, Place
  <2>2. (Gone(drawn)' <=> Gone(drawn)) /\ (Upright(drawn)' <=> Upright(drawn))
    BY <1>2
  <2> QED
    BY <1>7, <2>1, <2>2 DEF TableInv, CascadeInv
<1> QED
  BY <1>3, <1>5, <1>6, <1>8, <1>9 DEF TableInv

---------------------------------------------------------------------------
(* The systems of a frame.                                                 *)

AskedFor(system, some) == [by |-> system, seen |-> drawn, of |-> some]

(* A system runs: sprites change in place alone, the rest is asked for.    *)
LEMMA SystemRuns ==
  ASSUME TableInv, NEW system, NEW some, Run(system),
         \/ queued' = queued /\ system # "sync"
         \/ queued' = queued \cup {AskedFor(system, some)},
         IF system = "sync" THEN some = FacesOf(live) ELSE some \subseteq DOMAIN drawn,
         Shifted(drawn, drawn'),
         UNCHANGED <<liveGame, size, instant, paused, drag, lit, settling, done>>,
         resized' \in BOOLEAN, rejected' \subseteq PileType,
         sign' = (live[Stock] = << >>)
  PROVE  TableInv'
<1>1. /\ live' = live /\ size' = size /\ lit' = lit /\ paused' = paused
      /\ system \in todo /\ todo' = todo \ {system}
  BY DEF liveGame, Run
<1>2. Drawing(drawn) /\ QueueInv
  BY DEF TableInv, DrawnInv
<1>3. /\ Drawing(drawn') /\ DOMAIN drawn' = DOMAIN drawn
      /\ \A f \in DOMAIN drawn : /\ drawn'[f].up = drawn[f].up
                                /\ drawn'[f].hidden = drawn[f].hidden
                                /\ drawn'[f].tilted = drawn[f].tilted
                                /\ drawn'[f].tween = drawn[f].tween
  BY <1>2, ShiftedFacts
<1>4. /\ AskedFor(system, some).by = system /\ AskedFor(system, some).seen = drawn
      /\ AskedFor(system, some).of = some
  BY DEF AskedFor
<1>5. NeedsSync' <=> NeedsSync
  <2>1. CASE system = "sync"
    <3>1. NeedsSync
      BY <1>1, <2>1 DEF NeedsSync
    <3>2. AskedFor(system, some) \in queued'
      BY <2>1
    <3> QED
      BY <1>4, <2>1, <3>1, <3>2 DEF NeedsSync
  <2>2. CASE system # "sync"
    <3>1. "sync" \in todo' <=> "sync" \in todo
      BY <1>1, <2>2
    <3>2. (\E c \in queued' : c.by = "sync") <=> (\E c \in queued : c.by = "sync")
      BY <1>4, <2>2
    <3> QED
      BY <3>1, <3>2 DEF NeedsSync
  <2> QED
    BY <2>1, <2>2
<1>6. HasCascade' => HasCascade
  <2> SUFFICES ASSUME HasCascade' PROVE HasCascade
    OBVIOUS
  <2>1. CASE "cascade" \in todo'
    BY <1>1, <2>1 DEF HasCascade
  <2>2. CASE \E c \in queued' : c.by = "cascade"
    <3>1. PICK c \in queued' : c.by = "cascade"
      BY <2>2
    <3>2. c \in queued \/ c = AskedFor(system, some)
      OBVIOUS
    <3> QED
      BY <1>1, <1>4, <3>1, <3>2 DEF HasCascade
  <2> QED
    BY <2>1, <2>2 DEF HasCascade
<1>7. BoardsInv' /\ TypedInv'
  BY <1>1 DEF TableInv, BoardsInv, TypedInv, liveGame
<1>8. LitInv'
  <2>1. Takers(lit.card)' = Takers(lit.card)
    BY <1>1 DEF Takers
  <2> QED
    BY <1>1, <2>1 DEF TableInv, LitInv
<1>9. QueueInv'
  <2>1. IsFiniteSet(queued')
    BY <1>2, AddedFinite DEF QueueInv
  <2>2. ASSUME NEW c \in queued'
        PROVE  /\ DOMAIN c.seen = DOMAIN drawn'
               /\ IF c.by = "sync" THEN c.of = FacesOf(live)
                  ELSE c.of \subseteq DOMAIN drawn'
               /\ \A f \in DOMAIN drawn' : /\ c.seen[f].tilted = drawn'[f].tilted
                                          /\ c.seen[f].tween = drawn'[f].tween
    <3>1. CASE c \in queued
      BY <1>2, <1>3, <3>1 DEF QueueInv
    <3>2. CASE c = AskedFor(system, some)
      BY <1>3, <1>4, <3>2
    <3> QED
      BY <3>1, <3>2
  <2>3. \A p : FacesOf(p)' = FacesOf(p)
    BY DEF FacesOf, Rendered, Spots
  <2> QED
    BY <1>1, <2>1, <2>2 DEF QueueInv
<1>10. DrawnInv'
  <2>1. NeedsSync' \/ Faced(drawn', live)
    BY <1>3, <1>5 DEF TableInv, DrawnInv, Faced, FacedAs
  <2> QED
    BY <1>1, <1>3, <2>1 DEF DrawnInv
<1>11. CascadeInv'
  <2>1. Gone(drawn') /\ (Upright(drawn) => Upright(drawn'))
    BY <1>2, ShiftedCascade DEF TableInv, CascadeInv
  <2>2. Leaves(drawn) => Leaves(drawn)'
    <3> SUFFICES ASSUME Leaves(drawn) PROVE Leaves(drawn)'
      OBVIOUS
    <3>1. \A f : Home(live, f)' = Home(live, f)
      BY <1>1 DEF Home, Place
    <3>2. \A f \in DOMAIN drawn' \cap FacesOf(live) :
            drawn'[f].tilted => drawn'[f].tween # Home(live, f)
      BY <1>3 DEF Leaves
    <3> QED
      BY <1>1, <3>1, <3>2 DEF Leaves
  <2>3. Won' <=> Won
    BY <1>1 DEF Won
  <2> QED
    BY <1>5, <1>6, <2>1, <2>2, <2>3 DEF TableInv, CascadeInv
<1> QED
  BY <1>7, <1>8, <1>9, <1>10, <1>11 DEF TableInv

LEMMA StaysThere ==
  ASSUME NEW d, Drawing(d), NEW f \in DOMAIN d
  PROVE  d[f] = [d[f] EXCEPT !.at = d[f].at]
BY DEF Drawing, IsSprite

LEMMA Unmoved ==
  ASSUME OnlySprites, TableInv
  PROVE  /\ UNCHANGED <<liveGame, size, instant, paused, drag, lit, settling, done>>
         /\ resized' \in BOOLEAN /\ sign' = (live[Stock] = << >>)
         /\ rejected \subseteq PileType /\ Drawing(drawn) /\ Shifted(drawn, drawn)
BY FollowingShifted DEF OnlySprites, window, TableInv, TypedInv, DrawnInv

LEMMA AskCases ==
  ASSUME NEW system, system # "sync", NEW some, Ask(system, some)
  PROVE  queued' = queued \/ queued' = queued \cup {AskedFor(system, some)}
BY DEF Ask, AskedFor

LEMMA AskersInv ==
  TableInv /\ (SyncCards \/ Deal \/ StartShake \/ Cascade) => TableInv'
<1> SUFFICES ASSUME TableInv, SyncCards \/ Deal \/ StartShake \/ Cascade PROVE TableInv'
  OBVIOUS
<1>1. OnlySprites /\ drawn' = drawn
  BY DEF SyncCards, Deal, StartShake, Cascade
<1>2. Shifted(drawn, drawn')
  BY <1>1, Unmoved
<1>3. CASE SyncCards
  <2>1. /\ Run("sync") /\ rejected' = rejected
        /\ queued' = queued \cup {AskedFor("sync", FacesOf(live))}
    BY <1>3 DEF SyncCards, AskedFor
  <2> QED
    BY <1>1, <1>2, <2>1, Unmoved, SystemRuns
<1>4. CASE Deal
  <2>1. Run("deal") /\ rejected' = rejected /\ Ask("deal", DOMAIN drawn)
    BY <1>4 DEF Deal
  <2> QED
    BY <1>1, <1>2, <2>1, Unmoved, AskCases, SystemRuns
<1>5. CASE StartShake
  <2>1. /\ Run("shake") /\ rejected' = {}
        /\ \/ Ask("shake", DOMAIN drawn \cap UNION {FacesIn(t) : t \in rejected})
           \/ queued' = queued
    BY <1>5 DEF StartShake
  <2> DEFINE some == DOMAIN drawn \cap UNION {FacesIn(t) : t \in rejected}
  <2>2. queued' = queued \/ queued' = queued \cup {AskedFor("shake", some)}
    BY <2>1, AskCases
  <2>3. some \subseteq DOMAIN drawn
    OBVIOUS
  <2> HIDE DEF some
  <2> QED
    BY <1>1, <1>2, <2>1, <2>2, <2>3, Unmoved, SystemRuns
<1>6. CASE Cascade
  <2>1. Run("cascade") /\ rejected' = rejected /\ Ask("cascade", DOMAIN drawn)
    BY <1>6 DEF Cascade
  <2> QED
    BY <1>1, <1>2, <2>1, Unmoved, AskCases, SystemRuns
<1> QED
  BY <1>3, <1>4, <1>5, <1>6

LEMMA TicksInv ==
  TableInv /\ (TickSlides \/ TickTweens \/ TickShakes \/ Snap) => TableInv'
<1> SUFFICES ASSUME TableInv, TickSlides \/ TickTweens \/ TickShakes \/ Snap
             PROVE  TableInv'
  OBVIOUS
<1>0. Drawing(drawn) /\ rejected \subseteq PileType
  BY DEF TableInv, DrawnInv, TypedInv
<1>1. CASE TickSlides
  <2>1. /\ Run("slides") /\ rejected' = rejected /\ OnlySprites
    BY <1>1 DEF TickSlides
  <2>2. PICK ended \in {{}, {f \in DOMAIN drawn : drawn[f].slide # Nowhere}} :
          /\ drawn' = [f \in DOMAIN drawn |->
                      LET s == drawn[f]
                      IN  IF f \in ended THEN [s EXCEPT !.at = s.slide]
                          ELSE IF s.slide # Nowhere THEN [s EXCEPT !.at = Toward(@, s.slide)]
                          ELSE s]
          /\ Ask("slides", ended)
    BY <1>1 DEF TickSlides
  <2>3. DOMAIN drawn' = DOMAIN drawn /\ drawn' = [f \in DOMAIN drawn' |-> drawn'[f]]
    BY <2>2
  <2>4. ASSUME NEW f \in DOMAIN drawn
        PROVE  \E v : drawn'[f] = [drawn[f] EXCEPT !.at = v]
    <3>1. CASE f \in ended
      <4>1. drawn'[f] = [drawn[f] EXCEPT !.at = drawn[f].slide]
        BY <2>2, <3>1
      <4> QED
        BY <4>1
    <3>2. CASE f \notin ended /\ drawn[f].slide # Nowhere
      <4>1. drawn'[f] = [drawn[f] EXCEPT !.at = Toward(drawn[f].at, drawn[f].slide)]
        BY <2>2, <3>2
      <4> QED
        BY <4>1
    <3>3. CASE f \notin ended /\ ~ (drawn[f].slide # Nowhere)
      <4>1. drawn'[f] = drawn[f]
        BY <2>2, <3>3
      <4> QED
        BY <1>0, <4>1, StaysThere
    <3> QED
      BY <3>1, <3>2, <3>3
  <2>5. Shifted(drawn, drawn')
    BY <2>3, <2>4 DEF Shifted
  <2>6. ended \subseteq DOMAIN drawn
    OBVIOUS
  <2>7. queued' = queued \/ queued' = queued \cup {AskedFor("slides", ended)}
    BY <2>2, AskCases
  <2> QED
    BY <1>0, <2>1, <2>5, <2>6, <2>7, Unmoved, SystemRuns
<1>2. CASE TickTweens
  <2>1. /\ Run("tweens") /\ rejected' = rejected /\ OnlySprites
    BY <1>2 DEF TickTweens
  <2>2. PICK ended \in {{}, {f \in DOMAIN drawn : drawn[f].tween # Nowhere}} :
          /\ drawn' = [f \in DOMAIN drawn |->
                      LET s == drawn[f]
                      IN  IF f \in ended THEN [s EXCEPT !.at = s.tween]
                          ELSE IF s.tween # Nowhere THEN [s EXCEPT !.at = Toward(@, s.tween)]
                          ELSE s]
          /\ Ask("tweens", ended)
    BY <1>2 DEF TickTweens
  <2>3. DOMAIN drawn' = DOMAIN drawn /\ drawn' = [f \in DOMAIN drawn' |-> drawn'[f]]
    BY <2>2
  <2>4. ASSUME NEW f \in DOMAIN drawn
        PROVE  \E v : drawn'[f] = [drawn[f] EXCEPT !.at = v]
    <3>1. CASE f \in ended
      <4>1. drawn'[f] = [drawn[f] EXCEPT !.at = drawn[f].tween]
        BY <2>2, <3>1
      <4> QED
        BY <4>1
    <3>2. CASE f \notin ended /\ drawn[f].tween # Nowhere
      <4>1. drawn'[f] = [drawn[f] EXCEPT !.at = Toward(drawn[f].at, drawn[f].tween)]
        BY <2>2, <3>2
      <4> QED
        BY <4>1
    <3>3. CASE f \notin ended /\ ~ (drawn[f].tween # Nowhere)
      <4>1. drawn'[f] = drawn[f]
        BY <2>2, <3>3
      <4> QED
        BY <1>0, <4>1, StaysThere
    <3> QED
      BY <3>1, <3>2, <3>3
  <2>5. Shifted(drawn, drawn')
    BY <2>3, <2>4 DEF Shifted
  <2>6. ended \subseteq DOMAIN drawn
    OBVIOUS
  <2>7. queued' = queued \/ queued' = queued \cup {AskedFor("tweens", ended)}
    BY <2>2, AskCases
  <2> QED
    BY <1>0, <2>1, <2>5, <2>6, <2>7, Unmoved, SystemRuns
<1>3. CASE TickShakes
  <2>1. /\ Run("shakes") /\ rejected' = rejected /\ OnlySprites
    BY <1>3 DEF TickShakes
  <2>2. PICK ended \in {{}, {f \in DOMAIN drawn : drawn[f].shake # {}}} :
          /\ drawn' = [f \in DOMAIN drawn |->
                      LET s == drawn[f]
                      IN  IF f \in ended THEN [s EXCEPT !.at.x = ShakeEnded(s)]
                          ELSE IF s.shake # {} THEN [s EXCEPT !.at.x = Somewhere]
                          ELSE s]
          /\ Ask("shakes", ended)
    BY <1>3 DEF TickShakes
  <2>3. DOMAIN drawn' = DOMAIN drawn /\ drawn' = [f \in DOMAIN drawn' |-> drawn'[f]]
    BY <2>2
  <2>4. ASSUME NEW f \in DOMAIN drawn
        PROVE  \E v : drawn'[f] = [drawn[f] EXCEPT !.at = v]
    <3>1. CASE f \in ended
      <4>1. drawn'[f] = [drawn[f] EXCEPT !.at = [drawn[f].at EXCEPT !.x = ShakeEnded(drawn[f])]]
        BY <2>2, <3>1
      <4> QED
        BY <4>1
    <3>2. CASE f \notin ended /\ drawn[f].shake # {}
      <4>1. drawn'[f] = [drawn[f] EXCEPT !.at = [drawn[f].at EXCEPT !.x = Somewhere]]
        BY <2>2, <3>2
      <4> QED
        BY <4>1
    <3>3. CASE f \notin ended /\ ~ (drawn[f].shake # {})
      <4>1. drawn'[f] = drawn[f]
        BY <2>2, <3>3
      <4> QED
        BY <1>0, <4>1, StaysThere
    <3> QED
      BY <3>1, <3>2, <3>3
  <2>5. Shifted(drawn, drawn')
    BY <2>3, <2>4 DEF Shifted
  <2>6. ended \subseteq DOMAIN drawn
    OBVIOUS
  <2>7. queued' = queued \/ queued' = queued \cup {AskedFor("shakes", ended)}
    BY <2>2, AskCases
  <2> QED
    BY <1>0, <2>1, <2>5, <2>6, <2>7, Unmoved, SystemRuns
<1>4. CASE Snap
  <2>1. Run("snap")
        /\ UNCHANGED <<liveGame, size, instant, paused, drag, lit, rejected, settling, done>>
    BY <1>4 DEF Snap
  <2>2. CASE UNCHANGED <<drawn, sign, resized, queued>>
    <3>1. resized' \in BOOLEAN /\ sign' = (live[Stock] = << >>) /\ Shifted(drawn, drawn')
      BY <2>2, FollowingShifted DEF TableInv, TypedInv, DrawnInv
    <3> QED
      BY <1>0, <2>1, <2>2, <3>1, SystemRuns, {} \subseteq DOMAIN drawn
  <2>3. CASE /\ drawn' = [f \in DOMAIN drawn |->
                       IF f \in FacesOf(live) THEN [drawn[f] EXCEPT !.at = Home(live, f)]
                       ELSE drawn[f]]
             /\ Ask("snap", DOMAIN drawn \cap FacesOf(live))
             /\ sign' = (live[Stock] = << >>)
             /\ resized' = FALSE
    <3>1. DOMAIN drawn' = DOMAIN drawn /\ drawn' = [f \in DOMAIN drawn' |-> drawn'[f]]
      BY <2>3
    <3>2. ASSUME NEW f \in DOMAIN drawn
          PROVE  \E v : drawn'[f] = [drawn[f] EXCEPT !.at = v]
      BY <1>0, <2>3, StaysThere
    <3>3. Shifted(drawn, drawn')
      BY <3>1, <3>2 DEF Shifted
    <3>4. DOMAIN drawn \cap FacesOf(live) \subseteq DOMAIN drawn
      OBVIOUS
    <3>5. \/ queued' = queued
          \/ queued' = queued \cup {AskedFor("snap", DOMAIN drawn \cap FacesOf(live))}
      BY <2>3, AskCases
    <3> QED
      BY <1>0, <2>1, <2>3, <3>3, <3>4, <3>5, SystemRuns
  <2> QED
    BY <1>4, <2>2, <2>3 DEF Snap
<1> QED
  BY <1>1, <1>2, <1>3, <1>4

---------------------------------------------------------------------------
(* A sync point.                                                           *)

(* f[m] are the sprites after the first m commands of the order.           *)
Successive(f, d, order, n) ==
  f = [m \in 0 .. n |-> IF m = 0 THEN d ELSE Applied(f[m - 1], order[m])]

LEMMA SuccessiveExists ==
  ASSUME NEW d, NEW order, NEW n \in Nat
  PROVE  \E f : Successive(f, d, order, n)
<1> DEFINE Short == {m \in 0 .. n : ~ \E f : Successive(f, d, order, m)}
<1>1. ASSUME Short # {}
      PROVE  FALSE
  <2>1a. Short \in SUBSET Nat
    OBVIOUS
  <2>1. PICK m \in Short : \A y \in Short : m <= y
    <3> HIDE DEF Short
    <3> QED
      BY <1>1, <2>1a, LeastNatural
  <2>2. m \in 0 .. n /\ ~ \E f : Successive(f, d, order, m)
    BY <2>1
  <2>3. CASE m = 0
    <3> DEFINE g == [k \in 0 .. 0 |-> d]
    <3>1. g = [k \in 0 .. 0 |-> IF k = 0 THEN d ELSE Applied(g[k - 1], order[k])]
      OBVIOUS
    <3>2. Successive(g, d, order, 0)
      BY <3>1 DEF Successive
    <3> QED
      BY <2>2, <2>3, <3>2
  <2>4. CASE m # 0
    <3>1. m - 1 \in 0 .. n /\ m - 1 \notin Short /\ m \in 1 .. n
      BY <2>1, <2>2, <2>4
    <3>2. PICK f : Successive(f, d, order, m - 1)
      BY <3>1
    <3>2a. f = [k \in 0 .. m - 1 |-> IF k = 0 THEN d ELSE Applied(f[k - 1], order[k])]
      BY <3>2 DEF Successive
    <3> DEFINE g == [k \in 0 .. m |-> IF k = m THEN Applied(f[m - 1], order[m]) ELSE f[k]]
    <3>3. \A k \in 0 .. m - 1 : k \in 0 .. m /\ k # m
      BY <3>1
    <3>4. \A k \in 0 .. m - 1 : g[k] = f[k]
      BY <3>3
    <3>5. g[m] = Applied(f[m - 1], order[m])
      BY <3>1
    <3>6. DOMAIN g = 0 .. m /\ g = [k \in 0 .. m |-> g[k]]
      OBVIOUS
    <3> HIDE DEF g
    <3>7. ASSUME NEW k \in 0 .. m
          PROVE  g[k] = IF k = 0 THEN d ELSE Applied(g[k - 1], order[k])
      <4>1. CASE k = m
        <5>1. k - 1 \in 0 .. m - 1 /\ k # 0
          BY <3>1, <4>1
        <5> QED
          BY <3>4, <3>5, <4>1, <5>1
      <4>2. CASE k # m
        <5>1. k \in 0 .. m - 1 /\ (k # 0 => k - 1 \in 0 .. m - 1)
          BY <3>1, <4>2
        <5>2. f[k] = IF k = 0 THEN d ELSE Applied(f[k - 1], order[k])
          BY <3>2a, <5>1
        <5> QED
          BY <3>4, <5>1, <5>2
      <4> QED
        BY <4>1, <4>2
    <3>8. g = [k \in 0 .. m |-> IF k = 0 THEN d ELSE Applied(g[k - 1], order[k])]
      BY <3>6, <3>7
    <3>9. Successive(g, d, order, m)
      BY <3>8 DEF Successive
    <3> QED
      BY <2>2, <3>9
  <2> QED
    BY <2>3, <2>4
<1>2. n \in 0 .. n
  OBVIOUS
<1> QED
  BY <1>1, <1>2

LEMMA AppliedMeaning ==
  ASSUME NEW d, NEW order, Len(order) \in Nat
  PROVE  \E f : /\ Successive(f, d, order, Len(order))
               /\ AppliedInOrder(d, order) = f[Len(order)]
<1> DEFINE g == CHOOSE f : Successive(f, d, order, Len(order))
<1>1. Successive(g, d, order, Len(order))
  BY SuccessiveExists
<1>2. AppliedInOrder(d, order) = g[Len(order)]
  BY DEF AppliedInOrder, Successive
<1> HIDE DEF g
<1> QED
  BY <1>1, <1>2

(* A sprite given by its fields, and one field of it changed.              *)
Rec(A, U, H, T, L, W, K) ==
  [at |-> A, up |-> U, hidden |-> H, tilted |-> T, slide |-> L, tween |-> W, shake |-> K]

LEMMA RecFields ==
  ASSUME NEW A, NEW U, NEW H, NEW T, NEW L, NEW W, NEW K, NEW s,
         s = Rec(A, U, H, T, L, W, K)
  PROVE  /\ s.at = A /\ s.up = U /\ s.hidden = H /\ s.tilted = T /\ s.slide = L
         /\ s.tween = W /\ s.shake = K /\ IsSprite(s)
<1>1. /\ s.at = A /\ s.up = U /\ s.hidden = H /\ s.tilted = T /\ s.slide = L
      /\ s.tween = W /\ s.shake = K
  BY DEF Rec
<1> QED
  BY <1>1 DEF Rec, IsSprite

LEMMA RecOf ==
  ASSUME NEW s, IsSprite(s)
  PROVE  s = Rec(s.at, s.up, s.hidden, s.tilted, s.slide, s.tween, s.shake)
BY DEF IsSprite, Rec

LEMMA UpdatedFacts ==
  ASSUME NEW f, NEW seen, NEW s, IsSprite(s), NEW t, t = Updated(seen, s, f)
  PROVE  /\ IsSprite(t) /\ FacedAs(t, live, f)
         /\ seen.tween = Home(live, f) => t.tilted = s.tilted
         /\ seen.tween # Home(live, f) => ~ t.tilted
         /\ t.tween = IF seen.tween = Home(live, f) \/ seen.tween = Nowhere THEN s.tween
                      ELSE Nowhere
         /\ t.at = IF seen.tween = Home(live, f) THEN s.at
                   ELSE IF seen.at # Home(live, f) /\ ~ instant THEN seen.at
                   ELSE Home(live, f)
         /\ t.slide = IF seen.tween = Home(live, f) THEN s.slide
                      ELSE IF seen.at # Home(live, f) /\ ~ instant THEN Home(live, f)
                      ELSE Nowhere
         /\ \A K : s.shake = K => t.shake = K
<1> DEFINE new == Sprite(live, f)
           kept == seen.tween = Home(live, f)
           a == IF kept THEN s.at
                ELSE IF seen.at # new.at /\ ~ instant THEN seen.at ELSE new.at
           l == IF kept THEN s.slide
                ELSE IF seen.at # new.at /\ ~ instant THEN new.at ELSE Nowhere
           w == IF kept \/ seen.tween = Nowhere THEN s.tween ELSE Nowhere
           i == IF kept THEN s.tilted ELSE FALSE
<1>1. new.at = Home(live, f) /\ FacedAs(new, live, f)
  BY SpriteFacts
<1>2. t = Rec(a, new.up, new.hidden, i, l, w, s.shake)
  <2> DEFINE faced == [s EXCEPT !.up = new.up, !.hidden = new.hidden]
             freed == [faced EXCEPT !.tilted = FALSE,
                                    !.tween = IF seen.tween = Nowhere THEN @ ELSE Nowhere]
  <2>1. t = IF kept THEN faced
            ELSE IF seen.at # new.at /\ ~ instant
            THEN [freed EXCEPT !.at = seen.at, !.slide = new.at]
            ELSE [freed EXCEPT !.at = new.at, !.slide = Nowhere]
    BY <1>1 DEF Updated, KeepsTween
  <2> HIDE DEF new
  <2>2. PICK A, U, H, T, L, W, K :
          /\ s = Rec(A, U, H, T, L, W, K)
          /\ s.at = A /\ s.tilted = T /\ s.slide = L /\ s.tween = W /\ s.shake = K
    BY RecOf
  <2>3. faced = Rec(A, new.up, new.hidden, T, L, W, K)
    <3>1. faced = [[s EXCEPT !.up = new.up] EXCEPT !.hidden = new.hidden]
      OBVIOUS
    <3> HIDE DEF faced
    <3>2. [s EXCEPT !.up = new.up] = Rec(A, new.up, H, T, L, W, K)
      BY <2>2 DEF Rec
    <3> QED
      BY <3>1, <3>2 DEF Rec
  <2> DEFINE w0 == IF seen.tween = Nowhere THEN W ELSE Nowhere
  <2>3a. PICK no : no = FALSE
    OBVIOUS
  <2>4. freed = Rec(A, new.up, new.hidden, no, L, w0, K)
    <3> DEFINE g == [faced EXCEPT !.tilted = no]
    <3>1. freed = [g EXCEPT !.tween = IF seen.tween = Nowhere THEN g.tween ELSE Nowhere]
      BY <2>3a
    <3> HIDE DEF faced, freed
    <3>2. g = Rec(A, new.up, new.hidden, no, L, W, K)
      BY <2>3 DEF Rec
    <3> HIDE DEF g
    <3>3. g.tween = W
      BY <3>2, RecFields
    <3>4. freed = [g EXCEPT !.tween = w0]
      BY <3>1, <3>3
    <3> HIDE DEF w0
    <3> QED
      BY <3>2, <3>4 DEF Rec
  <2> HIDE DEF faced, freed, w0
  <2>5. CASE kept
    BY <2>1, <2>2, <2>3, <2>5
  <2>6. ASSUME NEW b, NEW c
        PROVE  [freed EXCEPT !.at = b, !.slide = c]
               = Rec(b, new.up, new.hidden, no, c, w0, K)
    <3> DEFINE r == [freed EXCEPT !.at = b]
    <3>1. [freed EXCEPT !.at = b, !.slide = c] = [r EXCEPT !.slide = c]
      OBVIOUS
    <3>2. r = Rec(b, new.up, new.hidden, no, L, w0, K)
      BY <2>4 DEF Rec
    <3> HIDE DEF r
    <3> QED
      BY <3>1, <3>2 DEF Rec
  <2>7. ~ kept => w = w0
    BY <2>2 DEF w0
  <2>8. CASE ~ kept /\ (seen.at # new.at /\ ~ instant)
    <3>1. t = [freed EXCEPT !.at = seen.at, !.slide = new.at]
      BY <2>1, <2>8
    <3>2. a = seen.at /\ l = new.at /\ i = no /\ w = w0
      BY <2>3a, <2>7, <2>8
    <3>3. s.shake = K
      BY <2>2
    <3> HIDE DEF a, i, l, w
    <3> QED
      BY <2>6, <3>1, <3>2, <3>3
  <2>9. CASE ~ kept /\ ~ (seen.at # new.at /\ ~ instant)
    <3>1. t = [freed EXCEPT !.at = new.at, !.slide = Nowhere]
      BY <2>1, <2>9
    <3>2. a = new.at /\ l = Nowhere /\ i = no /\ w = w0
      BY <2>3a, <2>7, <2>9
    <3>3. s.shake = K
      BY <2>2
    <3> HIDE DEF a, i, l, w
    <3> QED
      BY <2>6, <3>1, <3>2, <3>3
  <2> QED
    BY <2>5, <2>8, <2>9
<1> HIDE DEF new, a, i, l, w
<1>3. /\ t.up = new.up /\ t.hidden = new.hidden /\ t.tilted = i /\ t.tween = w
      /\ t.shake = s.shake /\ t.at = a /\ t.slide = l /\ IsSprite(t)
  BY <1>2, RecFields
<1>4. FacedAs(t, live, f)
  BY <1>1, <1>3 DEF FacedAs
<1>5. \A K : s.shake = K => t.shake = K
  BY <1>3
<1>6. /\ seen.tween = Home(live, f) => t.tilted = s.tilted
      /\ seen.tween # Home(live, f) => ~ t.tilted
  BY <1>3 DEF i
<1>7. /\ t.tween = IF seen.tween = Home(live, f) \/ seen.tween = Nowhere THEN s.tween
                   ELSE Nowhere
      /\ t.at = IF seen.tween = Home(live, f) THEN s.at
                ELSE IF seen.at # Home(live, f) /\ ~ instant THEN seen.at
                ELSE Home(live, f)
      /\ t.slide = IF seen.tween = Home(live, f) THEN s.slide
                   ELSE IF seen.at # Home(live, f) /\ ~ instant THEN Home(live, f)
                   ELSE Nowhere
  BY <1>1, <1>3 DEF w, a, l
<1> QED
  BY <1>3, <1>4, <1>5, <1>6, <1>7

LEMMA CommandedFields ==
  ASSUME NEW by, NEW seen, NEW s, IsSprite(s), NEW t, t = Commanded(by, seen, s)
  PROVE  /\ IsSprite(t) /\ t.up = s.up /\ t.hidden = s.hidden
         /\ by = "deal" => ~ t.tilted
         /\ by \notin {"deal", "cascade"} => t.tilted = s.tilted
         /\ t.at = IF by = "deal" THEN StockPlace ELSE IF by = "cascade" THEN seen.at ELSE s.at
         /\ t.slide = IF by = "deal" THEN seen.at
                      ELSE IF by \in {"cascade", "shake", "tweens", "shakes"} THEN s.slide
                      ELSE Nowhere
         /\ t.tween = IF by = "cascade" THEN Outside
                      ELSE IF by = "tweens" THEN Nowhere ELSE s.tween
         /\ by = "shake" => t.shake = {seen.at.x}
         /\ by = "shakes" => t.shake = {}
         /\ by \notin {"shake", "shakes"} => t.shake = s.shake
<1>1. PICK A, U, H, T, L, W, K :
        /\ s = Rec(A, U, H, T, L, W, K)
        /\ s.at = A /\ s.up = U /\ s.hidden = H /\ s.tilted = T /\ s.slide = L
        /\ s.tween = W /\ s.shake = K
  BY RecOf
<1>2. PICK no, yes : no = FALSE /\ yes = TRUE
  OBVIOUS
<1>3. PICK p, q : p = StockPlace /\ q = seen.at
  OBVIOUS
<1>4. CASE by = "deal"
  <2> DEFINE r1 == [s EXCEPT !.at = p]
             r2 == [r1 EXCEPT !.slide = q]
  <2>1. t = [r2 EXCEPT !.tilted = no]
    BY <1>2, <1>3, <1>4 DEF Commanded
  <2>2. r1 = Rec(p, U, H, T, L, W, K)
    BY <1>1 DEF Rec
  <2> HIDE DEF r1
  <2>3. r2 = Rec(p, U, H, T, q, W, K)
    BY <2>2 DEF Rec
  <2> HIDE DEF r2
  <2>4. t = Rec(p, U, H, no, q, W, K)
    BY <2>1, <2>3 DEF Rec
  <2>5. /\ t.at = p /\ t.up = U /\ t.hidden = H /\ t.tilted = no /\ t.slide = q
        /\ t.tween = W /\ t.shake = K /\ IsSprite(t)
    BY <2>4, RecFields
  <2> QED
    BY <1>1, <1>2, <1>3, <1>4, <2>5
<1>5. CASE by = "cascade"
  <2> DEFINE r1 == [s EXCEPT !.at = q]
             r2 == [r1 EXCEPT !.tween = Outside]
  <2>1. t = [r2 EXCEPT !.tilted = yes]
    BY <1>2, <1>3, <1>5 DEF Commanded
  <2>2. r1 = Rec(q, U, H, T, L, W, K)
    BY <1>1 DEF Rec
  <2> HIDE DEF r1
  <2>3. r2 = Rec(q, U, H, T, L, Outside, K)
    BY <2>2 DEF Rec
  <2> HIDE DEF r2
  <2>4. t = Rec(q, U, H, yes, L, Outside, K)
    BY <2>1, <2>3 DEF Rec
  <2>5. /\ t.at = q /\ t.up = U /\ t.hidden = H /\ t.slide = L
        /\ t.tween = Outside /\ t.shake = K /\ IsSprite(t)
    BY <2>4, RecFields
  <2> QED
    BY <1>1, <1>3, <1>5, <2>5
<1>6. ASSUME NEW k, t = [s EXCEPT !.shake = k]
      PROVE  /\ t.at = A /\ t.up = U /\ t.hidden = H /\ t.tilted = T /\ t.slide = L
             /\ t.tween = W /\ t.shake = k /\ IsSprite(t)
  <2>1. t = Rec(A, U, H, T, L, W, k)
    BY <1>1, <1>6 DEF Rec
  <2> QED
    BY <2>1, RecFields
<1>7. CASE by = "shake"
  <2>1. PICK k : k = {seen.at.x}
    OBVIOUS
  <2>2. t = [s EXCEPT !.shake = k]
    BY <1>7, <2>1 DEF Commanded
  <2> QED
    BY <1>1, <1>6, <1>7, <2>1, <2>2
<1>8. CASE by = "shakes"
  <2>1. t = [s EXCEPT !.shake = {}]
    BY <1>8 DEF Commanded
  <2> QED
    BY <1>1, <1>6, <1>8, <2>1
<1>9. CASE by = "tweens"
  <2>1. t = [s EXCEPT !.tween = Nowhere]
    BY <1>9 DEF Commanded
  <2>2. t = Rec(A, U, H, T, L, Nowhere, K)
    BY <1>1, <2>1 DEF Rec
  <2>3. /\ t.at = A /\ t.up = U /\ t.hidden = H /\ t.tilted = T /\ t.slide = L
        /\ t.tween = Nowhere /\ t.shake = K /\ IsSprite(t)
    BY <2>2, RecFields
  <2> QED
    BY <1>1, <1>9, <2>3
<1>10. CASE by \notin {"deal", "cascade", "shake", "shakes", "tweens"}
  <2>1. t = [s EXCEPT !.slide = Nowhere]
    BY <1>10 DEF Commanded
  <2>2. t = Rec(A, U, H, T, Nowhere, W, K)
    BY <1>1, <2>1 DEF Rec
  <2>3. /\ t.at = A /\ t.up = U /\ t.hidden = H /\ t.tilted = T /\ t.slide = Nowhere
        /\ t.tween = W /\ t.shake = K /\ IsSprite(t)
    BY <2>2, RecFields
  <2> QED
    BY <1>1, <1>10, <2>3
<1> QED
  BY <1>4, <1>5, <1>7, <1>8, <1>9, <1>10

LEMMA CommandedFacts ==
  ASSUME NEW by, NEW seen, NEW s, IsSprite(s), Cardinality(s.shake) <= 1,
         NEW t, t = Commanded(by, seen, s)
  PROVE  /\ IsSprite(t) /\ Cardinality(t.shake) <= 1
         /\ t.up = s.up /\ t.hidden = s.hidden
         /\ \/ t.tilted = s.tilted /\ t.tween \in {s.tween, Nowhere}
            \/ ~ t.tilted /\ t.tween = s.tween
            \/ by = "cascade" /\ t.tween = Outside
<1>1. Cardinality({}) <= 1 /\ Cardinality({seen.at.x}) <= 1
  <2>1. Cardinality({}) = 0
    BY FS_EmptySet
  <2>2. Cardinality({seen.at.x}) = 1
    BY FS_Singleton
  <2> QED
    BY <2>1, <2>2
<1>2. t.shake = s.shake \/ t.shake = {} \/ t.shake = {seen.at.x}
  BY CommandedFields
<1>3. Cardinality(t.shake) <= 1
  BY <1>1, <1>2
<1>4. IsSprite(t) /\ t.up = s.up /\ t.hidden = s.hidden
  BY CommandedFields
<1>5. CASE by = "deal"
  <2>1. ~ t.tilted /\ t.tween = s.tween
    BY <1>5, CommandedFields
  <2> QED
    BY <1>3, <1>4, <2>1
<1>6. CASE by = "cascade"
  <2>1. t.tween = Outside
    BY <1>6, CommandedFields
  <2> QED
    BY <1>3, <1>4, <1>6, <2>1
<1>7. CASE by \notin {"deal", "cascade"}
  <2>1. t.tilted = s.tilted /\ t.tween \in {s.tween, Nowhere}
    BY <1>7, CommandedFields
  <2> QED
    BY <1>3, <1>4, <2>1
<1> QED
  BY <1>5, <1>6, <1>7

(* What holds of the sprites at every command of a sync point; synced says *)
(* that one of them was a sync, or that none is called for.                *)
Between(d, synced) ==
  /\ Drawing(d) /\ DOMAIN d \in {DOMAIN drawn, FacesOf(live)} /\ Gone(d)
  /\ synced => Faced(d, live)
  /\ ~ Won =>
       /\ synced => Upright(d)
       /\ \A f \in DOMAIN d :
            IF f \in DOMAIN drawn
            THEN /\ d[f].tilted => drawn[f].tilted
                 /\ d[f].tween \in {drawn[f].tween, Nowhere}
            ELSE ~ d[f].tilted

LEMMA OtherApplied ==
  ASSUME TableInv, NEW d, NEW synced \in BOOLEAN, Between(d, synced),
         NEW c \in queued, c.by # "sync"
  PROVE  Between(Applied(d, c), synced)
<1> DEFINE e == Applied(d, c)
<1>1. e = [f \in DOMAIN d |-> IF f \in c.of THEN Commanded(c.by, c.seen[f], d[f]) ELSE d[f]]
  BY DEF Applied
<1>2. DOMAIN e = DOMAIN d /\ e = [f \in DOMAIN e |-> e[f]]
  BY <1>1
<1>3. \A f \in DOMAIN d : IsSprite(d[f]) /\ Cardinality(d[f].shake) <= 1
  BY DEF Between, Drawing
<1>4. ASSUME NEW f \in DOMAIN d
      PROVE  /\ IsSprite(e[f]) /\ Cardinality(e[f].shake) <= 1
             /\ e[f].up = d[f].up /\ e[f].hidden = d[f].hidden
             /\ \/ e[f].tilted = d[f].tilted /\ e[f].tween \in {d[f].tween, Nowhere}
                \/ ~ e[f].tilted /\ e[f].tween = d[f].tween
                \/ c.by = "cascade" /\ e[f].tween = Outside
  <2>1. CASE f \in c.of
    <3>1. e[f] = Commanded(c.by, c.seen[f], d[f])
      BY <1>1, <2>1
    <3>2. PICK s, t, by, seen : s = d[f] /\ t = e[f] /\ by = c.by /\ seen = c.seen[f]
      OBVIOUS
    <3> HIDE DEF e
    <3>3. t = Commanded(by, seen, s) /\ IsSprite(s) /\ Cardinality(s.shake) <= 1
      BY <1>3, <3>1, <3>2
    <3>4. /\ IsSprite(t) /\ Cardinality(t.shake) <= 1
          /\ t.up = s.up /\ t.hidden = s.hidden
          /\ \/ t.tilted = s.tilted /\ t.tween \in {s.tween, Nowhere}
             \/ ~ t.tilted /\ t.tween = s.tween
             \/ by = "cascade" /\ t.tween = Outside
      BY <3>3, CommandedFacts
    <3> QED
      BY <3>2, <3>4
  <2>2. CASE f \notin c.of
    <3>1. e[f] = d[f]
      BY <1>1, <2>2
    <3> HIDE DEF e
    <3> QED
      BY <1>3, <3>1
  <2> QED
    BY <2>1, <2>2
<1>5. ~ Won => c.by # "cascade"
  BY DEF TableInv, CascadeInv, HasCascade
<1> HIDE DEF e
<1>6. Drawing(e) /\ DOMAIN e \in {DOMAIN drawn, FacesOf(live)}
  BY <1>2, <1>4 DEF Between, Drawing
<1>7. Gone(e)
  BY <1>2, <1>4 DEF Between, Gone, GoneOne
<1>8. synced => Faced(e, live)
  BY <1>2, <1>4 DEF Between, Faced, FacedAs
<1>9. ASSUME ~ Won
      PROVE  /\ synced => Upright(e)
             /\ \A f \in DOMAIN e :
                  IF f \in DOMAIN drawn
                  THEN /\ e[f].tilted => drawn[f].tilted
                       /\ e[f].tween \in {drawn[f].tween, Nowhere}
                  ELSE ~ e[f].tilted
  <2>1. Nowhere # Outside
    BY DEF Nowhere, Outside
  <2>2. ASSUME NEW f \in DOMAIN e
        PROVE  \/ e[f].tilted = d[f].tilted /\ e[f].tween \in {d[f].tween, Nowhere}
               \/ ~ e[f].tilted /\ e[f].tween = d[f].tween
    BY <1>2, <1>4, <1>5, <1>9
  <2>3. synced => Upright(e)
    BY <1>2, <1>9, <2>1, <2>2 DEF Between, Upright, UprightOne
  <2>4. ASSUME NEW f \in DOMAIN e
        PROVE  IF f \in DOMAIN drawn
               THEN /\ e[f].tilted => drawn[f].tilted
                    /\ e[f].tween \in {drawn[f].tween, Nowhere}
               ELSE ~ e[f].tilted
    BY <1>2, <1>9, <2>2 DEF Between
  <2> QED
    BY <2>3, <2>4
<1> QED
  BY <1>6, <1>7, <1>8, <1>9 DEF Between, e

LEMMA SyncApplied ==
  ASSUME TableInv, NEW d, NEW synced \in BOOLEAN, Between(d, synced),
         NEW c \in queued, c.by = "sync"
  PROVE  Between(Applied(d, c), TRUE)
<1> DEFINE e == Applied(d, c)
<1>1. c.of = FacesOf(live) /\ DOMAIN c.seen = DOMAIN drawn
  BY DEF TableInv, QueueInv
<1>2. e = [f \in FacesOf(live) |->
             IF f \in DOMAIN drawn THEN Updated(c.seen[f], d[f], f) ELSE Sprite(live, f)]
  BY <1>1 DEF Applied
<1>3. DOMAIN e = FacesOf(live) /\ e = [f \in DOMAIN e |-> e[f]]
  BY <1>2
<1>4. FacesOf(live) \subseteq Face
  BY SpotFacts DEF TableInv, BoardsInv
<1>5. \A f \in DOMAIN d : IsSprite(d[f]) /\ Cardinality(d[f].shake) <= 1
  BY DEF Between, Drawing
<1>6. ASSUME NEW f \in FacesOf(live)
      PROVE  /\ IsSprite(e[f]) /\ Cardinality(e[f].shake) <= 1 /\ FacedAs(e[f], live, f)
             /\ GoneOne(e[f])
             /\ ~ Won => /\ UprightOne(e[f])
                         /\ f \in DOMAIN drawn => e[f].tween \in {drawn[f].tween, Nowhere}
  <2>1. CASE f \in DOMAIN drawn
    <3>1. f \in DOMAIN d
      BY <2>1 DEF Between
    <3> DEFINE kept == c.seen[f].tween = Home(live, f)
               s == d[f]
               t == e[f]
               seen == c.seen[f]
    <3>2. t = Updated(seen, s, f) /\ IsSprite(s) /\ Cardinality(s.shake) <= 1
      BY <1>2, <1>5, <2>1, <3>1
    <3> HIDE DEF e, t, s, seen
    <3>3. /\ IsSprite(t) /\ FacedAs(t, live, f)
          /\ seen.tween = Home(live, f) => t.tilted = s.tilted
          /\ seen.tween # Home(live, f) => ~ t.tilted
          /\ t.tween = IF seen.tween = Home(live, f) \/ seen.tween = Nowhere
                       THEN s.tween ELSE Nowhere
      BY <3>2, UpdatedFacts
    <3>3a. Cardinality(t.shake) <= 1
      <4>1. \A K : s.shake = K => t.shake = K
        BY <3>2, UpdatedFacts
      <4> QED
        BY <3>2, <4>1
    <3>4. GoneOne(s)
      BY <3>1 DEF Between, Gone, s
    <3>5. GoneOne(t)
      BY <3>3, <3>4 DEF GoneOne
    <3>6. ASSUME ~ Won
          PROVE  UprightOne(t) /\ t.tween \in {drawn[f].tween, Nowhere}
      <4>1. /\ s.tilted => drawn[f].tilted
            /\ s.tween \in {drawn[f].tween, Nowhere}
        BY <2>1, <3>1, <3>6 DEF Between, s
      <4>2. seen.tilted = drawn[f].tilted /\ seen.tween = drawn[f].tween
        BY <2>1 DEF TableInv, QueueInv, seen
      <4>3. Nowhere # Outside /\ Home(live, f) # Outside
        BY PlaceFacts DEF Nowhere, Outside, Home
      <4>4. drawn[f].tilted => drawn[f].tween # Home(live, f)
        <5>1. NeedsSync
          BY DEF NeedsSync
        <5> QED
          BY <2>1, <3>6, <5>1 DEF TableInv, CascadeInv, Leaves
      <4>5. ~ t.tilted
        BY <3>3, <4>1, <4>2, <4>4
      <4>6. t.tween # Outside
        BY <3>3, <4>1, <4>2, <4>3
      <4> QED
        BY <3>3, <4>1, <4>5, <4>6 DEF UprightOne
    <3> QED
      BY <3>3, <3>3a, <3>5, <3>6 DEF t
  <2>2. CASE f \notin DOMAIN drawn
    <3>1. e[f] = Sprite(live, f)
      BY <1>2, <2>2
    <3> HIDE DEF e
    <3>2. /\ IsSprite(e[f]) /\ Cardinality(e[f].shake) <= 1 /\ FacedAs(e[f], live, f)
          /\ UprightOne(e[f]) /\ ~ e[f].tilted
      BY <3>1, SpriteFacts
    <3> QED
      BY <2>2, <3>2 DEF GoneOne
  <2> QED
    BY <2>1, <2>2
<1> HIDE DEF e
<1>7. Drawing(e) /\ Gone(e) /\ Faced(e, live)
  BY <1>3, <1>4, <1>6 DEF Drawing, Gone, Faced
<1>8. ASSUME ~ Won
      PROVE  /\ Upright(e)
             /\ \A f \in DOMAIN e :
                  IF f \in DOMAIN drawn
                  THEN /\ e[f].tilted => drawn[f].tilted
                       /\ e[f].tween \in {drawn[f].tween, Nowhere}
                  ELSE ~ e[f].tilted
  <2>0. DOMAIN e = FacesOf(live)
    BY <1>3
  <2>1. \A f \in DOMAIN e : UprightOne(e[f])
    BY <1>6, <1>8, <2>0, Zenon
  <2>2. \A f \in DOMAIN e : ~ e[f].tilted
    BY <2>1 DEF UprightOne
  <2>3. \A f \in DOMAIN e : f \in DOMAIN drawn => e[f].tween \in {drawn[f].tween, Nowhere}
    BY <1>6, <1>8, <2>0, Zenon
  <2>4. Upright(e)
    BY <2>1 DEF Upright
  <2> QED
    BY <2>2, <2>3, <2>4
<1> QED
  BY <1>3, <1>7, <1>8 DEF Between, e

LEMMA BetweenAtFirst ==
  ASSUME TableInv
  PROVE  Between(drawn, ~ NeedsSync)
<1>1. Drawing(drawn) /\ Gone(drawn)
  BY DEF TableInv, DrawnInv, CascadeInv
<1>2. ~ NeedsSync => Faced(drawn, live)
  BY DEF TableInv, DrawnInv
<1>3. ~ Won => (~ NeedsSync => Upright(drawn))
  BY DEF TableInv, CascadeInv
<1> QED
  BY <1>1, <1>2, <1>3 DEF Between

(* After the first m commands of the order no sync is called for any more. *)
SyncedBy(order, m) == ~ NeedsSync \/ \E k \in 1 .. m : order[k].by = "sync"

LEMMA SyncedFacts ==
  ASSUME NEW order, NEW n \in Nat, \A m \in 1 .. n : order[m] \in queued,
         \A c \in queued : \E k \in 1 .. n : order[k] = c
  PROVE  /\ SyncedBy(order, 0) <=> ~ NeedsSync
         /\ SyncedBy(order, n) <=> ~ NeedsSync \/ \E c \in queued : c.by = "sync"
         /\ \A m \in 1 .. n :
              SyncedBy(order, m) <=> SyncedBy(order, m - 1) \/ order[m].by = "sync"
         /\ \A m : SyncedBy(order, m) \in BOOLEAN
<1>1. SyncedBy(order, 0) <=> ~ NeedsSync
  BY DEF SyncedBy
<1>2. SyncedBy(order, n) <=> ~ NeedsSync \/ \E c \in queued : c.by = "sync"
  BY DEF SyncedBy
<1>3. ASSUME NEW m \in 1 .. n
      PROVE  SyncedBy(order, m) <=> SyncedBy(order, m - 1) \/ order[m].by = "sync"
  <2>1. 1 .. m = (1 .. m - 1) \cup {m}
    OBVIOUS
  <2> QED
    BY <2>1 DEF SyncedBy
<1>4. \A m : SyncedBy(order, m) \in BOOLEAN
  BY DEF SyncedBy
<1> QED
  BY <1>1, <1>2, <1>3, <1>4

(* f[m] are the sprites after the first m commands of the order.           *)
Stepwise(f, order, n) ==
  /\ n \in Nat /\ AppliedInOrder(drawn, order) = f[n] /\ f[0] = drawn
  /\ \A m \in 0 .. n : Between(f[m], SyncedBy(order, m))
  /\ \A m \in 1 .. n : f[m] = Applied(f[m - 1], order[m]) /\ order[m] \in queued
  /\ \A c \in queued : \E k \in 1 .. n : order[k] = c

(* What every order of the commands makes of the sprites.                  *)
LEMMA AllApplied ==
  ASSUME TableInv, NEW order \in Orders(queued)
  PROVE  \E f, n : Stepwise(f, order, n)
<1> DEFINE n == Cardinality(queued)
           synced(m) == SyncedBy(order, m)
<1>1. n \in Nat
  BY FS_CardinalityType DEF TableInv, QueueInv
<1>2. order \in [1 .. n -> queued] /\ \A c \in queued : \E k \in 1 .. n : order[k] = c
  BY DEF Orders
<1> HIDE DEF n
<1>3. Len(order) = n
  BY <1>1, <1>2, SeqOfFunction
<1>4. PICK f : Successive(f, drawn, order, n) /\ AppliedInOrder(drawn, order) = f[n]
  BY <1>1, <1>3, AppliedMeaning
<1>5. f = [m \in 0 .. n |-> IF m = 0 THEN drawn ELSE Applied(f[m - 1], order[m])]
  BY <1>4 DEF Successive
<1>6. f[0] = drawn
  BY <1>1, <1>5
<1>6a. /\ synced(0) <=> ~ NeedsSync
       /\ \A m \in 1 .. n : synced(m) <=> synced(m - 1) \/ order[m].by = "sync"
       /\ \A m : synced(m) \in BOOLEAN
  BY <1>1, <1>2, SyncedFacts
<1> HIDE DEF synced
<1>7. ASSUME NEW m \in 1 .. n, Between(f[m - 1], synced(m - 1))
      PROVE  Between(f[m], synced(m))
  <2>1. f[m] = Applied(f[m - 1], order[m]) /\ order[m] \in queued
    BY <1>1, <1>2, <1>5
  <2>2. PICK was \in BOOLEAN : was = synced(m - 1) /\ Between(f[m - 1], was)
    BY <1>6a, <1>7
  <2>3. CASE order[m].by = "sync"
    <3>1. synced(m) = TRUE
      BY <1>6a, <2>3
    <3>2. Between(Applied(f[m - 1], order[m]), TRUE)
      BY <2>1, <2>2, <2>3, SyncApplied
    <3> QED
      BY <2>1, <3>1, <3>2
  <2>4. CASE order[m].by # "sync"
    <3>1. synced(m) = was
      BY <1>6a, <2>2, <2>4
    <3>2. Between(Applied(f[m - 1], order[m]), was)
      BY <2>1, <2>2, <2>4, OtherApplied
    <3> QED
      BY <2>1, <3>1, <3>2
  <2> QED
    BY <2>3, <2>4
<1> DEFINE Bad == {m \in 0 .. n : ~ Between(f[m], synced(m))}
<1>8. ASSUME Bad # {}
      PROVE  FALSE
  <2>1a. Bad \in SUBSET Nat
    OBVIOUS
  <2>1. PICK m \in Bad : \A y \in Bad : m <= y
    <3> HIDE DEF Bad
    <3> QED
      BY <1>8, <2>1a, LeastNatural
  <2>2. m \in 0 .. n /\ ~ Between(f[m], synced(m))
    BY <2>1
  <2>3. CASE m = 0
    <3>1. synced(0) = ~ NeedsSync
      BY <1>6a
    <3> QED
      BY <1>6, <2>2, <2>3, <3>1, BetweenAtFirst
  <2>4. CASE m # 0
    <3>1. m \in 1 .. n /\ m - 1 \in 0 .. n /\ m - 1 \notin Bad
      BY <1>1, <2>1, <2>2, <2>4
    <3>2. Between(f[m - 1], synced(m - 1))
      BY <3>1
    <3> QED
      BY <1>7, <2>2, <3>1, <3>2
  <2> QED
    BY <2>3, <2>4
<1>9. \A m \in 0 .. n : Between(f[m], SyncedBy(order, m))
  BY <1>8 DEF synced
<1>10. \A m \in 1 .. n : f[m] = Applied(f[m - 1], order[m]) /\ order[m] \in queued
  BY <1>1, <1>2, <1>5
<1> HIDE DEF Bad
<1>11. PICK k : k = n
  OBVIOUS
<1>12. Stepwise(f, order, k)
  BY <1>1, <1>2, <1>4, <1>6, <1>9, <1>10, <1>11 DEF Stepwise
<1> QED
  BY <1>12

LEMMA SyncPointInv == TableInv /\ SyncPoint => TableInv'
<1> SUFFICES ASSUME TableInv, SyncPoint PROVE TableInv'
  OBVIOUS
<1>1. /\ UNCHANGED <<todo, rejected>> /\ OnlySprites /\ queued' = {}
      /\ \E order \in Orders(queued) : drawn' = AppliedInOrder(drawn, order)
  BY DEF SyncPoint
<1>2. /\ live' = live /\ size' = size /\ lit' = lit /\ paused' = paused
      /\ todo' = todo /\ sign' = sign /\ Won' = Won
  BY <1>1 DEF OnlySprites, liveGame, window, Won
<1>3. PICK synced \in BOOLEAN :
        /\ Between(drawn', synced)
        /\ synced \/ (NeedsSync /\ ~ \E c \in queued : c.by = "sync")
  <2>1. PICK order \in Orders(queued) : drawn' = AppliedInOrder(drawn, order)
    BY <1>1
  <2>2. PICK f, n : Stepwise(f, order, n)
    BY AllApplied
  <2>3. PICK synced \in BOOLEAN : synced = SyncedBy(order, n)
    BY <2>2, SyncedFacts DEF Stepwise
  <2>4. n \in 0 .. n /\ Between(drawn', SyncedBy(order, n))
    BY <2>1, <2>2 DEF Stepwise
  <2>5. SyncedBy(order, n) <=> ~ NeedsSync \/ \E c \in queued : c.by = "sync"
    BY <2>2, SyncedFacts DEF Stepwise
  <2> QED
    BY <2>3, <2>4, <2>5
<1>4. NeedsSync' <=> "sync" \in todo
  BY <1>1, <1>2 DEF NeedsSync
<1>5. ~ NeedsSync' => synced
  BY <1>3, <1>4 DEF NeedsSync
<1>6. HasCascade' => HasCascade
  BY <1>1, <1>2 DEF HasCascade
<1>7. BoardsInv' /\ TypedInv'
  BY <1>1 DEF TableInv, BoardsInv, TypedInv, OnlySprites, liveGame, window
<1>8. LitInv'
  <2>1. Takers(lit.card)' = Takers(lit.card)
    BY <1>2 DEF Takers
  <2> QED
    BY <1>2, <2>1 DEF TableInv, LitInv
<1>9. QueueInv'
  <2>1. IsFiniteSet({})
    BY FS_EmptySet
  <2> QED
    BY <1>1, <2>1 DEF QueueInv
<1>10. DrawnInv'
  <2>1. Drawing(drawn') /\ (synced => Faced(drawn', live))
    BY <1>3 DEF Between
  <2>2. NeedsSync' \/ Faced(drawn', live)
    BY <1>5, <2>1
  <2>3. sign' = (live'[Stock] = << >>)
    BY <1>2 DEF TableInv, DrawnInv
  <2> QED
    BY <1>2, <2>1, <2>2, <2>3 DEF DrawnInv
<1>11. CascadeInv'
  <2>1. Gone(drawn')
    BY <1>3 DEF Between
  <2>2. HasCascade' => Won'
    BY <1>2, <1>6 DEF TableInv, CascadeInv
  <2>3. ASSUME ~ Won', ~ NeedsSync'
        PROVE  Upright(drawn')
    BY <1>2, <1>3, <1>5, <2>3 DEF Between
  <2>4. ASSUME ~ Won', NeedsSync'
        PROVE  Leaves(drawn)'
    <3>1. Leaves(drawn)
      BY <1>2, <1>4, <2>4 DEF TableInv, CascadeInv, NeedsSync
    <3>2. ASSUME NEW f \in DOMAIN drawn' \cap FacesOf(live), drawn'[f].tilted
          PROVE  drawn'[f].tween # Home(live, f)
      <4>1. /\ f \in DOMAIN drawn /\ drawn[f].tilted
            /\ drawn'[f].tween \in {drawn[f].tween, Nowhere}
        BY <1>2, <1>3, <2>4, <3>2 DEF Between
      <4>2. drawn[f].tween # Home(live, f)
        BY <3>1, <3>2, <4>1 DEF Leaves
      <4>3. Nowhere # Home(live, f)
        BY PlaceFacts DEF Home
      <4> QED
        BY <4>1, <4>2, <4>3
    <3>3. \A f : Home(live, f)' = Home(live, f)
      BY <1>2 DEF Home, Place
    <3> QED
      BY <1>2, <3>2, <3>3 DEF Leaves
  <2> QED
    BY <2>1, <2>2, <2>3, <2>4 DEF CascadeInv
<1> QED
  BY <1>7, <1>8, <1>9, <1>10, <1>11 DEF TableInv

---------------------------------------------------------------------------
(* The table.                                                              *)

LEMMA TableInitInv == TableInit => TableInv
<1> SUFFICES ASSUME TableInit PROVE TableInv
  OBVIOUS
<1>1. /\ live = NewDeal /\ past = << >> /\ begun = FALSE
      /\ size = 0 /\ resized = FALSE /\ instant = FALSE /\ paused = FALSE
      /\ drag = NoDrag /\ lit = NoLit /\ todo = {} /\ queued = {} /\ rejected = {}
      /\ settling = Face /\ done = 0 /\ sign = (live[Stock] = << >>)
  BY DEF TableInit
<1>2. drawn = [f \in FacesOf(live) |-> Sprite(live, f)]
  BY DEF TableInit
<1>3. Playable(live) /\ ~ Won
  BY <1>1, NewDealPlayable DEF Won
<1>4. ~ NeedsSync /\ ~ HasCascade
  BY <1>1 DEF NeedsSync, HasCascade
<1>5. BoardsInv
  BY <1>1, <1>3 DEF BoardsInv
<1>6. TypedInv
  BY <1>1 DEF TypedInv, NoDrag, PileType
<1>7. LitInv
  BY <1>1, CardExists DEF LitInv, NoLit
<1>8. QueueInv
  BY <1>1, FS_EmptySet DEF QueueInv
<1>9. /\ DOMAIN drawn = FacesOf(live) /\ drawn = [f \in DOMAIN drawn |-> drawn[f]]
      /\ \A f \in DOMAIN drawn : drawn[f] = Sprite(live, f)
  BY <1>2
<1>10. ASSUME NEW f \in DOMAIN drawn
       PROVE  /\ IsSprite(drawn[f]) /\ Cardinality(drawn[f].shake) <= 1
              /\ FacedAs(drawn[f], live, f) /\ UprightOne(drawn[f])
  <2>1. drawn[f] = Sprite(live, f)
    BY <1>9
  <2> QED
    BY <2>1, SpriteFacts, Zenon
<1>11. Upright(drawn)
  BY <1>10 DEF Upright
<1>12. DrawnInv
  BY <1>1, <1>3, <1>9, <1>10, SpotFacts DEF DrawnInv, Drawing, Faced
<1>13. CascadeInv
  BY <1>3, <1>4, <1>11, FromUpright DEF CascadeInv
<1> QED
  BY <1>5, <1>6, <1>7, <1>8, <1>12, <1>13 DEF TableInv

LEMMA TableNextInv == TableInv /\ [TableNext]_tableVars => TableInv'
<1> SUFFICES ASSUME TableInv, [TableNext]_tableVars PROVE TableInv'
  OBVIOUS
<1>1. CASE Does
  BY <1>1, PlayMoveInv, UndoMoveInv, RestoreInv, AskNewGameInv, WindowInv, PauseInv,
     GrabInv, DropInv, DropRejectedInv, DoubleClickInv, LightInv DEF Does
<1>2. CASE Idle
  BY <1>2, IdleInv
<1>3. CASE Systems
  BY <1>3, AskersInv, TicksInv DEF Systems
<1>4. CASE SyncPoint
  BY <1>4, SyncPointInv
<1>5. CASE UNCHANGED tableVars
  <2>1. /\ UNCHANGED <<live, past, begun>> /\ UNCHANGED <<size, resized, instant>>
        /\ UNCHANGED <<drawn, sign, lit>> /\ UNCHANGED <<todo, queued, rejected>>
        /\ UNCHANGED <<paused, drag, settling, done>>
    BY <1>5 DEF tableVars, liveGame, window, table, frame
  <2>2. BoardsInv' /\ TypedInv'
    BY <2>1 DEF TableInv, BoardsInv, TypedInv
  <2>3. LitInv'
    BY <2>1 DEF TableInv, LitInv, Takers
  <2>4. NeedsSync' = NeedsSync /\ HasCascade' = HasCascade /\ Won' = Won
    BY <2>1 DEF NeedsSync, HasCascade, Won
  <2>5. QueueInv' /\ DrawnInv'
    BY <2>1, <2>4 DEF TableInv, QueueInv, DrawnInv, Drawing, IsSprite, Faced, FacedAs,
                      FacesOf, Rendered, Spots, Buried, Shown
  <2>6. Leaves(drawn)' = Leaves(drawn)
    BY <2>1 DEF Leaves, Home, Place
  <2>7. CascadeInv'
    BY <2>1, <2>4, <2>6 DEF TableInv, CascadeInv, Gone, GoneOne, OnFoundation, Upright,
                            UprightOne
  <2> QED
    BY <2>2, <2>3, <2>5, <2>7 DEF TableInv
<1> QED
  BY <1>1, <1>2, <1>3, <1>4, <1>5 DEF TableNext

LEMMA TableInvariant == TableSpec => []TableInv
<1> QED
  BY TableInitInv, TableNextInv, PTL DEF TableSpec

(* The code moves, turns and removes sprites through commands that several *)
(* systems ask for in one frame and that are applied in no order the code  *)
(* states: for every board and every such order the sprites, the sign of   *)
(* the stock and the lit piles say between frames what the game says.      *)
THEOREM TableTrueCorrect == TableSpec => []TableTrue
<1>1. TableInv => TableTrue
  <2> SUFFICES ASSUME TableInv PROVE TableTrue
    OBVIOUS
  <2>1. TableTypeOK
    <3>1. live \in Boards /\ past \in Seq(Boards)
      BY GoodBoardMeaning DEF TableInv, BoardsInv, Playable
    <3>2. sign \in BOOLEAN
      BY DEF TableInv, DrawnInv
    <3>3. \A f \in DOMAIN drawn : f \in Face /\ Cardinality(drawn[f].shake) <= 1
      BY DEF TableInv, DrawnInv, Drawing
    <3>4. /\ begun \in BOOLEAN /\ size \in {0, 1}
          /\ {resized, instant, paused, sign} \subseteq BOOLEAN
          /\ drag.cards \subseteq Face /\ drag.origin \in PileType
          /\ rejected \subseteq PileType /\ settling \subseteq Face
      BY <3>2 DEF TableInv, TypedInv
    <3>5. lit.piles \subseteq PileType /\ lit.card \in Card
      BY DEF TableInv, LitInv
    <3> QED
      BY <3>1, <3>3, <3>4, <3>5 DEF TableTypeOK
  <2>2. ASSUME BetweenFrames
        PROVE  /\ DOMAIN drawn = FacesOf(live)
               /\ \A f \in DOMAIN drawn :
                    /\ drawn[f].up = CardAt(live, Spot(f)).up
                    /\ drawn[f].hidden = Buried(live, Spot(f))
               /\ sign = (live[Stock] = << >>)
               /\ lit.piles \subseteq Takers(lit.card)
               /\ paused => lit = NoLit
    <3>1. Faced(drawn, live)
      BY <2>2, TableAtRest
    <3>2. /\ DOMAIN drawn = FacesOf(live)
          /\ \A f \in DOMAIN drawn : /\ drawn[f].up = CardAt(live, Spot(f)).up
                                     /\ drawn[f].hidden = Buried(live, Spot(f))
      BY <3>1 DEF Faced, FacedAs, Spot
    <3>3. /\ sign = (live[Stock] = << >>) /\ lit.piles \subseteq Takers(lit.card)
          /\ paused => lit = NoLit
      BY DEF TableInv, DrawnInv, LitInv
    <3> QED
      BY <3>2, <3>3
  <2> QED
    BY <2>1, <2>2 DEF TableTrue
<1> QED
  BY <1>1, TableInvariant, PTL

(* A cascade's tweens and tilts end with the game they were for, by way of *)
(* the sync that follows its deal; the tweens that sync keeps lead to      *)
(* places of the new deal, where no cascade leads.                         *)
THEOREM CascadeEndsCorrect == TableSpec => []CascadeEnds
<1>1. TableInv => CascadeEnds
  BY TableAtRest DEF CascadeEnds, Upright, UprightOne
<1> QED
  BY <1>1, TableInvariant, PTL

---------------------------------------------------------------------------
(* Table: where the cards end that were still.                             *)

Goal(f) == Home(live, f)

IsPlace(v) == v = [x |-> v.x, y |-> v.y]
Placed(s)  == IsPlace(s.at) /\ IsPlace(s.slide) /\ IsPlace(s.tween)

(* A command is on its way that removes what moves the card.               *)
Ends(f, by)   == \E c \in queued : c.by \in by /\ f \in c.of
SlideEnds(f)  == Ends(f, {"slides", "snap"})
TweenEnds(f)  == Ends(f, {"tweens"})
ShakeEnds(f)  == Ends(f, {"shakes"})

(* Whatever moves the card leads to the place h; and it is there, in each  *)
(* coordinate, unless something that is not about to be removed moves it.  *)
Homeward(s, h) ==
  s.slide \in {Nowhere, h} /\ s.tween \in {Nowhere, h} /\ s.shake \subseteq {h.x}
ComesHome(s, h, slid, tweened, shaken) ==
  LET moved == (s.slide # Nowhere /\ ~ slid) \/ (s.tween # Nowhere /\ ~ tweened)
  IN  /\ s.at.x = h.x \/ moved \/ (s.shake # {} /\ ~ shaken)
      /\ s.at.y = h.y \/ moved
Lies(s, h) == s.at = h /\ s.slide = Nowhere /\ s.tween = Nowhere /\ s.shake = {}

(* The card is put right, if nothing but what is on its way comes of it:   *)
(* astray after a resize until the snap, awaited as long as a sync is due.  *)
OnItsWay(s, h, astray, awaited, slid, tweened, shaken) ==
  /\ Homeward(s, h)
  /\ astray => s.slide = Nowhere /\ s.tween = Nowhere
  /\ awaited => s.slide = Nowhere
  /\ astray \/ (awaited /\ s.tween = Nowhere) \/ ComesHome(s, h, slid, tweened, shaken)

Tended    == settling \ drag.cards
Struck(f) == "shake" \in todo /\ \E t \in rejected : f \in FacesIn(t)

SeenRight(c, f) ==
  /\ c.by = "sync" /\ Struck(f) /\ f \in DOMAIN c.seen => c.seen[f].at = Goal(f)
  /\ c.by = "shake" /\ f \in c.of => c.seen[f].at.x = Goal(f).x

CardSettles(s, f) ==
  /\ OnItsWay(s, Goal(f), resized, NeedsSync, SlideEnds(f), TweenEnds(f), ShakeEnds(f))
  /\ NeedsSync => ~ SlideEnds(f)
  /\ Struck(f) => Lies(s, Goal(f))
  /\ \A c \in queued : SeenRight(c, f)

SystemNames == {"sync", "deal", "shake", "cascade", "slides", "tweens", "shakes", "snap"}

PlacedInv ==
  /\ \A f \in DOMAIN drawn : Placed(drawn[f])
  /\ \A c \in queued : c.by \in SystemNames /\ \A f \in DOMAIN c.seen : IsPlace(c.seen[f].at)

OnceInv ==
  /\ \A by \in {"sync", "shake", "shakes"} : by \in todo => \A c \in queued : c.by # by
  /\ \A by \in {"deal", "cascade"} :
       by \in todo \/ (\E c \in queued : c.by = by) => settling = {}
  /\ NeedsSync /\ settling # {} => ~ resized /\ "snap" \notin todo

SettleInv ==
  PlacedInv /\ OnceInv /\ \A f \in Tended \cap DOMAIN drawn : CardSettles(drawn[f], f)

LEMMA PlacesArePlaces ==
  /\ IsPlace(Nowhere) /\ IsPlace(Hand) /\ IsPlace(Outside)
  /\ \A p, s : IsPlace(Place(p, s))
  /\ \A a, b : IsPlace(Toward(a, b))
  /\ IsPlace(StockPlace) /\ \A f : IsPlace(Goal(f))
<1>1. \A u, v : IsPlace([x |-> u, y |-> v])
  BY DEF IsPlace
<1>2. \A p, s : IsPlace(Place(p, s))
  BY <1>1 DEF Place
<1>3. \A a, b : IsPlace(Toward(a, b))
  BY <1>1 DEF Toward
<1>4. IsPlace(StockPlace) /\ \A f : IsPlace(Goal(f))
  BY <1>2 DEF StockPlace, Goal, Home
<1> QED
  BY <1>1, <1>2, <1>3, <1>4 DEF Nowhere, Hand, Outside

LEMMA GoalOnTable == \A f : Goal(f) # Nowhere /\ Goal(f) # Outside
BY PlaceFacts DEF Goal, Home

LEMMA GoalKept ==
  ASSUME live' = live, size' = size
  PROVE  \A f : Goal(f)' = Goal(f)
BY DEF Goal, Home, Place

LEMMA SamePlace ==
  ASSUME NEW v, NEW h, IsPlace(v), IsPlace(h), v.x = h.x, v.y = h.y
  PROVE  v = h
BY DEF IsPlace

(* The sprites d are those drawn, some of them elsewhere.                  *)
SameMotion(d) ==
  /\ DOMAIN d = DOMAIN drawn
  /\ \A f \in DOMAIN d : /\ Placed(d[f]) /\ d[f].slide = drawn[f].slide
                        /\ d[f].tween = drawn[f].tween /\ d[f].shake = drawn[f].shake

LEMMA MovedPlaced ==
  ASSUME NEW s, IsSprite(s), Placed(s), NEW v, IsPlace(v), NEW t, t = [s EXCEPT !.at = v]
  PROVE  /\ Placed(t) /\ t.at = v /\ t.slide = s.slide /\ t.tween = s.tween
         /\ t.shake = s.shake
<1>1. PICK A, U, H, T, L, W, K :
        /\ s = Rec(A, U, H, T, L, W, K)
        /\ s.slide = L /\ s.tween = W /\ s.shake = K
  BY RecOf
<1>2. t = Rec(v, U, H, T, L, W, K)
  BY <1>1 DEF Rec
<1>3. t.at = v /\ t.slide = L /\ t.tween = W /\ t.shake = K
  BY <1>2 DEF Rec
<1> QED
  BY <1>1, <1>3 DEF Placed

LEMMA CarriedMotion ==
  ASSUME TableInv, PlacedInv, NEW cards
  PROVE  /\ SameMotion(Carried(drawn, cards)) /\ SameMotion(drawn)
         /\ \A f \in DOMAIN drawn \ cards : Carried(drawn, cards)[f] = drawn[f]
<1> DEFINE d == Carried(drawn, cards)
<1>1. d = [f \in DOMAIN drawn |-> IF f \in cards THEN [drawn[f] EXCEPT !.at = Hand]
                                  ELSE drawn[f]]
  BY DEF Carried
<1>2. DOMAIN d = DOMAIN drawn /\ \A f \in DOMAIN drawn \ cards : d[f] = drawn[f]
  BY <1>1
<1>3. ASSUME NEW f \in DOMAIN drawn
      PROVE  /\ Placed(d[f]) /\ d[f].slide = drawn[f].slide
             /\ d[f].tween = drawn[f].tween /\ d[f].shake = drawn[f].shake
  <2>1. IsSprite(drawn[f]) /\ Placed(drawn[f])
    BY DEF TableInv, DrawnInv, Drawing, PlacedInv
  <2>2. CASE f \in cards
    <3>1. d[f] = [drawn[f] EXCEPT !.at = Hand]
      BY <1>1, <2>2
    <3> HIDE DEF d
    <3> QED
      BY <2>1, <3>1, MovedPlaced, PlacesArePlaces
  <2>3. CASE f \notin cards
    <3>1. d[f] = drawn[f]
      BY <1>1, <2>3
    <3> HIDE DEF d
    <3> QED
      BY <2>1, <3>1
  <2> QED
    BY <2>2, <2>3
<1> HIDE DEF d
<1>4. SameMotion(d)
  BY <1>2, <1>3 DEF SameMotion
<1>5. SameMotion(drawn)
  BY DEF SameMotion, PlacedInv
<1> QED
  BY <1>2, <1>4, <1>5 DEF d

---------------------------------------------------------------------------
(* Between frames.                                                         *)

LEMMA FrameBegins ==
  ASSUME BetweenFrames, NEW d, NEW due, GoOn(d, due),
         due \subseteq {"sync", "deal", "cascade", "shake"}
  PROVE  /\ drawn' = d /\ queued' = {}
         /\ \A by \in {"sync", "deal", "cascade", "shake"} : by \in todo' <=> by \in due
         /\ NeedsSync' <=> "sync" \in due
         /\ "snap" \in todo' => resized'
         /\ \A f : ~ SlideEnds(f)' /\ ~ TweenEnds(f)' /\ ~ ShakeEnds(f)'
<1>1. /\ drawn' = d /\ queued' = {}
      /\ todo' = due \cup (IF resized' THEN {"snap"} ELSE {})
                 \cup (IF paused' THEN {} ELSE Moving(d) \cup SetMoving(due))
  BY DEF GoOn, BetweenFrames
<1>2. Moving(d) \cup SetMoving(due) \subseteq {"slides", "tweens", "shakes"}
  BY DEF Moving, SetMoving
<1>3. \A by \in {"sync", "deal", "cascade", "shake"} : by \in todo' <=> by \in due
  BY <1>1, <1>2
<1>4. NeedsSync' <=> "sync" \in due
  BY <1>1, <1>3 DEF NeedsSync
<1>5. "snap" \in todo' => resized'
  BY <1>1, <1>2
<1>6. \A f : ~ SlideEnds(f)' /\ ~ TweenEnds(f)' /\ ~ ShakeEnds(f)'
  BY <1>1 DEF SlideEnds, TweenEnds, ShakeEnds, Ends
<1> QED
  BY <1>1, <1>3, <1>4, <1>5, <1>6

(* At the start of a frame a card is put right by what is due.             *)
LEMMA CardBegins ==
  ASSUME BetweenFrames, NEW d, NEW due, GoOn(d, due),
         due \subseteq {"sync", "deal", "cascade", "shake"}, NEW f,
         OnItsWay(d[f], Goal(f)', resized', "sync" \in due, FALSE, FALSE, FALSE),
         Struck(f)' => Lies(d[f], Goal(f)')
  PROVE  CardSettles(drawn[f], f)'
<1>1. PICK s, h, a, p : /\ s = d[f] /\ h = Goal(f)' /\ a \in BOOLEAN /\ (a <=> resized')
                        /\ p \in BOOLEAN /\ (p <=> "sync" \in due)
  <2>1. \E a \in BOOLEAN : a <=> resized'
    OBVIOUS
  <2> QED
    BY <2>1
<1>2. /\ drawn' = d /\ queued' = {} /\ (NeedsSync' <=> p)
      /\ ~ SlideEnds(f)' /\ ~ TweenEnds(f)' /\ ~ ShakeEnds(f)'
  BY <1>1, FrameBegins
<1>3. OnItsWay(s, h, a, p, FALSE, FALSE, FALSE)
  BY <1>1 DEF OnItsWay
<1>4. OnItsWay(s, h, resized', NeedsSync', SlideEnds(f)', TweenEnds(f)', ShakeEnds(f)')
  BY <1>1, <1>2, <1>3 DEF OnItsWay, ComesHome
<1> QED
  BY <1>1, <1>2, <1>4 DEF CardSettles

LEMMA SettlesAtStart ==
  ASSUME BetweenFrames, NEW d, NEW due, GoOn(d, due),
         due \subseteq {"sync", "deal", "cascade", "shake"},
         \A f \in DOMAIN d : Placed(d[f]),
         settling' # {} => "deal" \notin due /\ "cascade" \notin due,
         settling' # {} /\ "sync" \in due => ~ resized',
         \A f \in Tended' \cap DOMAIN d :
           /\ OnItsWay(d[f], Goal(f)', resized', "sync" \in due, FALSE, FALSE, FALSE)
           /\ Struck(f)' => Lies(d[f], Goal(f)')
  PROVE  SettleInv'
<1>1. /\ drawn' = d /\ queued' = {} /\ (NeedsSync' <=> "sync" \in due)
      /\ \A by \in {"sync", "deal", "cascade", "shake"} : by \in todo' <=> by \in due
      /\ "snap" \in todo' => resized'
  BY FrameBegins
<1>2. PlacedInv'
  BY <1>1 DEF PlacedInv
<1>3. OnceInv'
  <2>1. \A by \in {"deal", "cascade"} : by \in todo' => settling' = {}
    BY <1>1
  <2>2. NeedsSync' /\ settling' # {} => ~ resized' /\ "snap" \notin todo'
    BY <1>1
  <2> QED
    BY <1>1, <2>1, <2>2 DEF OnceInv
<1>4. \A f \in Tended' \cap DOMAIN drawn' : CardSettles(drawn[f], f)'
  BY <1>1, CardBegins
<1> QED
  BY <1>2, <1>3, <1>4 DEF SettleInv

LEMMA StillOnes ==
  ASSUME NEW f \in StillFaces
  PROVE  ~ resized /\ (f \in DOMAIN drawn => Still(drawn[f]))
BY DEF StillFaces

(* The cards that are still are put right by a sync, wherever they go.     *)
LEMMA ChangedStill ==
  ASSUME BetweenFrames, NEW d, SameMotion(d), NEW due, GoOn(d, due),
         "sync" \in due, due \subseteq {"sync", "deal", "cascade"},
         settling' \subseteq StillFaces, resized' = resized,
         settling' # {} => "deal" \notin due /\ "cascade" \notin due
  PROVE  SettleInv'
<1>0. "shake" \notin due /\ due \subseteq {"sync", "deal", "cascade", "shake"}
  OBVIOUS
<1>1. \A f : ~ Struck(f)'
  <2>1. "shake" \notin todo'
    BY <1>0, FrameBegins
  <2> QED
    BY <2>1 DEF Struck
<1>2. settling' # {} => ~ resized'
  BY StillOnes
<1>3. ASSUME NEW f \in Tended' \cap DOMAIN d
      PROVE  OnItsWay(d[f], Goal(f)', resized', "sync" \in due, FALSE, FALSE, FALSE)
  <2>1. f \in StillFaces /\ f \in DOMAIN drawn
    BY DEF Tended, SameMotion
  <2>2. d[f].slide = Nowhere /\ d[f].tween = Nowhere /\ d[f].shake = {}
    BY <2>1, StillOnes DEF SameMotion, Still
  <2> QED
    BY <2>2 DEF OnItsWay, Homeward
<1>4. \A f \in DOMAIN d : Placed(d[f])
  BY DEF SameMotion
<1> QED
  BY <1>0, <1>1, <1>2, <1>3, <1>4, SettlesAtStart

LEMMA FollowingMotion ==
  ASSUME TableInv, SettleInv
  PROVE  /\ SameMotion(Following) /\ SameMotion(drawn)
         /\ \A f \in DOMAIN drawn \ drag.cards : Following[f] = drawn[f]
BY CarriedMotion DEF SettleInv, Following

LEMMA PlaySettles ==
  ASSUME TableInv, SettleInv, BetweenFrames, NEW b, NEW dragging, Play(b, dragging),
         UNCHANGED window
  PROVE  SettleInv'
<1> DEFINE due == {"sync"} \cup (IF CheckWin(b) THEN {"cascade"} ELSE {})
           d == Carried(drawn, dragging.cards)
<1>1. /\ GoOn(d, due) /\ settling' = (IF CheckWin(b) THEN {} ELSE StillFaces)
      /\ resized' = resized
  BY DEF Play, window
<1>2. SameMotion(d)
  BY CarriedMotion DEF SettleInv
<1>3. /\ "sync" \in due /\ due \subseteq {"sync", "deal", "cascade"}
      /\ "deal" \notin due /\ (settling' # {} => "cascade" \notin due)
      /\ settling' \subseteq StillFaces
  BY <1>1
<1> HIDE DEF due, d
<1> QED
  BY <1>1, <1>2, <1>3, ChangedStill

LEMMA GameChangesSettle ==
  ASSUME TableInv, SettleInv, PlayMove \/ UndoMove \/ Restore \/ ChangeSettings
  PROVE  SettleInv'
<1>1. CASE PlayMove
  <2>1. BetweenFrames /\ UNCHANGED window /\ \E b, dragging : Play(b, dragging)
    BY <1>1 DEF PlayMove, Doing
  <2> QED
    BY <2>1, PlaySettles
<1>2. CASE UndoMove \/ ChangeSettings
  <2>1. /\ BetweenFrames /\ resized' = resized /\ settling' = StillFaces
        /\ GoOn(Following, {"sync"})
    BY <1>2 DEF UndoMove, ChangeSettings, Doing, window
  <2> QED
    BY <2>1, FollowingMotion, ChangedStill
<1>3. CASE Restore
  <2>1. /\ BetweenFrames /\ resized' = resized /\ settling' = StillFaces
        /\ GoOn(drawn, {"sync"})
    BY <1>3 DEF Restore, window
  <2> QED
    BY <2>1, FollowingMotion, ChangedStill
<1> QED
  BY <1>1, <1>2, <1>3

LEMMA NewGameSettles ==
  ASSUME TableInv, SettleInv, AskNewGame
  PROVE  SettleInv'
<1>1. PICK dealt, animated \in BOOLEAN :
        /\ dealt \/ animated
        /\ settling' = (IF animated THEN {} ELSE StillFaces)
        /\ GoOn(IF dealt THEN [f \in DOMAIN drawn |-> [Following[f] EXCEPT !.at = StockPlace]]
                ELSE Following,
                (IF dealt THEN {"sync"} ELSE {})
                \cup (IF animated /\ past' = << >> /\ ~ begun' THEN {"deal"} ELSE {}))
  BY DEF AskNewGame
<1>2. BetweenFrames /\ resized' = resized
  BY DEF AskNewGame, Doing, window
<1> DEFINE e == [f \in DOMAIN drawn |-> [Following[f] EXCEPT !.at = StockPlace]]
           d == IF dealt THEN e ELSE Following
           due == (IF dealt THEN {"sync"} ELSE {})
                  \cup (IF animated /\ past' = << >> /\ ~ begun' THEN {"deal"} ELSE {})
<1>3. SameMotion(d)
  <2>1. ASSUME NEW f \in DOMAIN drawn
        PROVE  /\ Placed(e[f]) /\ e[f].slide = drawn[f].slide
               /\ e[f].tween = drawn[f].tween /\ e[f].shake = drawn[f].shake
    <3>1. PICK s, t : s = Following[f] /\ t = [s EXCEPT !.at = StockPlace]
      OBVIOUS
    <3>2. /\ Placed(s) /\ s.slide = drawn[f].slide
          /\ s.tween = drawn[f].tween /\ s.shake = drawn[f].shake
      BY <3>1, FollowingMotion DEF SameMotion
    <3>3. IsSprite(s)
      BY <3>1, FollowingShifted, ShiftedFacts DEF TableInv, DrawnInv, Drawing
    <3>4. e[f] = t
      BY <3>1
    <3> HIDE DEF e
    <3>5. /\ Placed(t) /\ t.slide = s.slide /\ t.tween = s.tween /\ t.shake = s.shake
      BY <3>1, <3>2, <3>3, MovedPlaced, PlacesArePlaces
    <3> QED
      BY <3>2, <3>4, <3>5
  <2>2. DOMAIN e = DOMAIN drawn
    OBVIOUS
  <2> HIDE DEF e
  <2>3. SameMotion(e)
    BY <2>1, <2>2 DEF SameMotion
  <2> QED
    BY <2>3, FollowingMotion
<1>4. /\ GoOn(d, due) /\ due \subseteq {"sync", "deal"}
      /\ (dealt <=> "sync" \in due) /\ ("deal" \in due => animated)
  BY <1>1
<1> HIDE DEF d, due
<1>5. CASE dealt
  <2>1. settling' \subseteq StillFaces /\ (settling' # {} => "deal" \notin due)
    BY <1>1, <1>4
  <2>2. due \subseteq {"sync", "deal", "cascade"} /\ "cascade" \notin due
    BY <1>4
  <2> QED
    BY <1>2, <1>3, <1>4, <1>5, <2>1, <2>2, ChangedStill
<1>6. CASE ~ dealt
  <2>1. settling' = {} /\ Tended' = {}
    BY <1>1, <1>6 DEF Tended
  <2>2. \A f \in DOMAIN d : Placed(d[f])
    BY <1>3 DEF SameMotion
  <2>3. due \subseteq {"sync", "deal", "cascade", "shake"}
    BY <1>4
  <2> QED
    BY <1>2, <1>4, <2>1, <2>2, <2>3, SettlesAtStart
<1> QED
  BY <1>5, <1>6

(* A card that was being put right still is, if no more is due.            *)
LEMMA StillOnItsWay ==
  ASSUME TableInv, SettleInv, BetweenFrames, NEW f \in Tended \cap DOMAIN drawn,
         Goal(f)' = Goal(f), resized' = resized
  PROVE  OnItsWay(drawn[f], Goal(f)', resized', FALSE, FALSE, FALSE, FALSE)
<1>1. OnItsWay(drawn[f], Goal(f), resized, NeedsSync, SlideEnds(f), TweenEnds(f), ShakeEnds(f))
  BY DEF SettleInv, CardSettles
<1>2. ~ NeedsSync
  BY TableAtRest
<1>3. PICK s, h, a, l, w, k :
        /\ s = drawn[f] /\ h = Goal(f) /\ a = resized
        /\ l = SlideEnds(f) /\ w = TweenEnds(f) /\ k = ShakeEnds(f)
  OBVIOUS
<1>4. OnItsWay(s, h, a, FALSE, l, w, k)
  BY <1>1, <1>2, <1>3 DEF OnItsWay
<1>5. OnItsWay(s, h, a, FALSE, FALSE, FALSE, FALSE)
  BY <1>4 DEF OnItsWay, ComesHome
<1> QED
  BY <1>3, <1>5

(* Nothing changes but the sprites in hand.                                *)
LEMMA NothingChanges ==
  ASSUME TableInv, SettleInv, BetweenFrames, NEW d, GoOn(d, {}),
         UNCHANGED <<live, size, resized>>, SameMotion(d), Tended' \subseteq Tended,
         \A f \in Tended' \cap DOMAIN drawn : d[f] = drawn[f]
  PROVE  SettleInv'
<1> DEFINE due == {}
<1>1. GoOn(d, due) /\ due \subseteq {"sync", "deal", "cascade", "shake"}
  OBVIOUS
<1>2. "sync" \notin due /\ "deal" \notin due /\ "cascade" \notin due /\ "shake" \notin due
  OBVIOUS
<1> HIDE DEF due
<1>3. \A f : ~ Struck(f)'
  <2>1. "shake" \notin todo'
    BY <1>1, <1>2, FrameBegins
  <2> QED
    BY <2>1 DEF Struck
<1>4. ASSUME NEW f \in Tended' \cap DOMAIN d
      PROVE  OnItsWay(d[f], Goal(f)', resized', "sync" \in due, FALSE, FALSE, FALSE)
  <2>1. f \in Tended \cap DOMAIN drawn /\ d[f] = drawn[f]
    BY DEF SameMotion
  <2>2. Goal(f)' = Goal(f)
    BY GoalKept
  <2>3. OnItsWay(drawn[f], Goal(f)', resized', FALSE, FALSE, FALSE, FALSE)
    BY <2>1, <2>2, StillOnItsWay
  <2> QED
    BY <1>2, <2>1, <2>3 DEF OnItsWay
<1>5. \A f \in DOMAIN d : Placed(d[f])
  BY DEF SameMotion
<1> QED
  BY <1>1, <1>2, <1>3, <1>4, <1>5, SettlesAtStart

LEMMA QuietDoingsSettle ==
  ASSUME TableInv, SettleInv, Idle \/ Grab \/ (Pause /\ drag = NoDrag)
  PROVE  SettleInv'
<1>1. CASE Idle
  <2>1. /\ BetweenFrames /\ GoOn(Following, {}) /\ drag' = drag /\ settling' = settling
        /\ UNCHANGED <<live, size, resized>>
    BY <1>1 DEF Idle, liveGame, window
  <2>2. Tended' = Tended
    BY <2>1 DEF Tended
  <2>3. \A f \in Tended' \cap DOMAIN drawn : Following[f] = drawn[f]
    BY <2>2, FollowingMotion DEF Tended
  <2> QED
    BY <2>1, <2>2, <2>3, FollowingMotion, NothingChanges
<1>2. CASE Grab
  <2>1. PICK cards, origin : /\ drag' = [cards |-> cards, origin |-> origin]
                             /\ GoOn(Carried(drawn, cards), {})
    BY <1>2 DEF Grab
  <2>2. /\ BetweenFrames /\ settling' = settling /\ drag = NoDrag
        /\ UNCHANGED <<live, size, resized>>
    BY <1>2 DEF Grab, Doing, liveGame, window
  <2>3. drag.cards = {} /\ drag'.cards = cards
    BY <2>1, <2>2 DEF NoDrag
  <2>4. Tended' \subseteq Tended /\ Tended' \cap cards = {}
    BY <2>2, <2>3 DEF Tended
  <2>5. /\ SameMotion(Carried(drawn, cards))
        /\ \A f \in DOMAIN drawn \ cards : Carried(drawn, cards)[f] = drawn[f]
    BY CarriedMotion DEF SettleInv
  <2>6. \A f \in Tended' \cap DOMAIN drawn : Carried(drawn, cards)[f] = drawn[f]
    BY <2>4, <2>5
  <2> QED
    BY <2>1, <2>2, <2>4, <2>5, <2>6, NothingChanges
<1>3. CASE Pause /\ drag = NoDrag
  <2>1. /\ BetweenFrames /\ GoOn(drawn, {}) /\ drag' = drag /\ settling' = settling
        /\ UNCHANGED <<live, size, resized>>
    BY <1>3 DEF Pause, Doing, liveGame, window
  <2>2. Tended' = Tended
    BY <2>1 DEF Tended
  <2> QED
    BY <2>1, <2>2, FollowingMotion, NothingChanges
<1> QED
  BY <1>1, <1>2, <1>3

LEMMA ResizeSettles ==
  ASSUME TableInv, SettleInv, Resize
  PROVE  SettleInv'
<1> DEFINE due == {}
<1>1. /\ BetweenFrames /\ GoOn(Following, due) /\ resized' = TRUE /\ settling' = StillFaces
  BY DEF Resize, Doing
<1>2. /\ "sync" \notin due /\ "deal" \notin due /\ "cascade" \notin due /\ "shake" \notin due
      /\ due \subseteq {"sync", "deal", "cascade", "shake"}
  OBVIOUS
<1> HIDE DEF due
<1>3. \A f : ~ Struck(f)'
  <2>1. "shake" \notin todo'
    BY <1>1, <1>2, FrameBegins
  <2> QED
    BY <2>1 DEF Struck
<1>4. SameMotion(Following)
  BY FollowingMotion
<1>5. ASSUME NEW f \in Tended' \cap DOMAIN Following
      PROVE  OnItsWay(Following[f], Goal(f)', resized', "sync" \in due, FALSE, FALSE, FALSE)
  <2>1. f \in StillFaces /\ f \in DOMAIN drawn
    BY <1>1, <1>4 DEF Tended, SameMotion
  <2>2. /\ Following[f].slide = Nowhere /\ Following[f].tween = Nowhere
        /\ Following[f].shake = {}
    BY <1>4, <2>1, StillOnes DEF SameMotion, Still
  <2> QED
    BY <1>1, <2>2 DEF OnItsWay, Homeward
<1>6. \A f \in DOMAIN Following : Placed(Following[f])
  BY <1>4 DEF SameMotion
<1> QED
  BY <1>1, <1>2, <1>3, <1>5, <1>6, SettlesAtStart

(* A shake is due of a pile whose cards lie at their places, or are not    *)
(* among those that have to settle.                                        *)
LEMMA AsideLies ==
  ASSUME NEW t, NEW f \in FacesIn(t) \cap DOMAIN drawn, f \notin Aside(t)
  PROVE  Lies(drawn[f], Goal(f))
BY DEF Aside, Lies, Still, Goal

LEMMA StruckIn ==
  ASSUME live' = live, NEW t, rejected' = {t}, NEW f, Struck(f)'
  PROVE  f \in FacesIn(t)
BY DEF Struck, FacesIn, FacesFrom

LEMMA DoubleClickSettles ==
  ASSUME TableInv, SettleInv, DoubleClickRejected
  PROVE  SettleInv'
<1> DEFINE due == {"shake"}
<1>1. /\ BetweenFrames /\ GoOn(drawn, due) /\ drag' = drag
      /\ UNCHANGED <<live, size, resized>>
  BY DEF DoubleClickRejected, Doing, liveGame, window
<1>2. PICK t : rejected' = {t} /\ settling' = settling \ Aside(t)
  BY DEF DoubleClickRejected
<1>3. /\ "sync" \notin due /\ "deal" \notin due /\ "cascade" \notin due
      /\ due \subseteq {"sync", "deal", "cascade", "shake"}
  OBVIOUS
<1> HIDE DEF due
<1>4. ASSUME NEW f \in Tended' \cap DOMAIN drawn
      PROVE  /\ OnItsWay(drawn[f], Goal(f)', resized', "sync" \in due, FALSE, FALSE, FALSE)
             /\ Struck(f)' => Lies(drawn[f], Goal(f)')
  <2>1. f \in Tended \cap DOMAIN drawn /\ f \notin Aside(t)
    BY <1>1, <1>2 DEF Tended
  <2>2. Goal(f)' = Goal(f)
    BY <1>1, GoalKept
  <2>3. OnItsWay(drawn[f], Goal(f)', resized', FALSE, FALSE, FALSE, FALSE)
    BY <1>1, <2>1, <2>2, StillOnItsWay
  <2>4. Struck(f)' => f \in FacesIn(t)
    BY <1>1, <1>2, StruckIn
  <2>5. Struck(f)' => Lies(drawn[f], Goal(f))
    BY <2>1, <2>4, AsideLies
  <2>6. OnItsWay(drawn[f], Goal(f)', resized', "sync" \in due, FALSE, FALSE, FALSE)
    BY <1>3, <2>3 DEF OnItsWay
  <2> QED
    BY <2>2, <2>5, <2>6
<1>5. \A f \in DOMAIN drawn : Placed(drawn[f])
  BY DEF SettleInv, PlacedInv
<1> QED
  BY <1>1, <1>3, <1>4, <1>5, SettlesAtStart

LEMMA PauseDropOutsideSettle ==
  ASSUME TableInv, SettleInv, Pause \/ DropOutside
  PROVE  SettleInv'
<1>1. CASE Pause /\ drag = NoDrag
  BY <1>1, QuietDoingsSettle
<1>2. CASE (Pause /\ drag # NoDrag) \/ DropOutside
  <2>1. /\ BetweenFrames /\ resized' = resized /\ settling' = StillFaces
        /\ GoOn(drawn, {"sync"})
    BY <1>2 DEF Pause, Doing, DropOutside, Dropping, window
  <2> QED
    BY <2>1, FollowingMotion, ChangedStill
<1> QED
  BY <1>1, <1>2

(* A card lies in one pile.                                                *)
LEMMA PilesApart ==
  ASSUME TableInv, NEW t \in PileType, NEW u \in PileType, NEW f,
         f \in FacesIn(t), f \in FacesIn(u)
  PROVE  t = u
<1>1. Playable(live)
  BY DEF TableInv, BoardsInv
<1>2. PICK k \in 1 .. Len(live[t]) : f = FaceOf(live[t][k])
  BY DEF FacesIn, FacesFrom, CardAt
<1>3. PICK l \in 1 .. Len(live[u]) : f = FaceOf(live[u][l])
  BY DEF FacesIn, FacesFrom, CardAt
<1>4. SameFace(live[t][k], f) /\ SameFace(live[u][l], f)
  BY <1>2, <1>3 DEF SameFace, FaceOf
<1>5. f \in Face
  BY <1>1, FacesFromFacts, 1 \in Nat \ {0}
<1> QED
  BY <1>1, <1>4, <1>5 DEF Playable, OnePlace

(* A drop that is refused sends the cards in hand back to their pile, and  *)
(* has the cards of the other one shaken.                                  *)
LEMMA RefusedSettles ==
  ASSUME TableInv, SettleInv, BetweenFrames, NEW t, NEW d, GoOn(d, {"sync", "shake"}),
         UNCHANGED <<live, size, resized>>, rejected' = {t},
         settling' = StillFaces \ Aside(t), DOMAIN d = DOMAIN drawn,
         \A f \in DOMAIN d :
           \/ d[f] = drawn[f]
           \/ /\ Placed(d[f]) /\ d[f].tween = Goal(f) /\ f \notin FacesIn(t)
              /\ d[f].slide = drawn[f].slide /\ d[f].shake = drawn[f].shake
  PROVE  SettleInv'
<1> DEFINE due == {"sync", "shake"}
<1>1. /\ GoOn(d, due) /\ "sync" \in due /\ "deal" \notin due /\ "cascade" \notin due
      /\ due \subseteq {"sync", "deal", "cascade", "shake"}
  OBVIOUS
<1> HIDE DEF due
<1>2. \A f \in DOMAIN d : Placed(d[f])
  BY DEF SettleInv, PlacedInv
<1>3. settling' # {} => ~ resized'
  BY StillOnes
<1>4. ASSUME NEW f \in Tended' \cap DOMAIN d
      PROVE  /\ OnItsWay(d[f], Goal(f)', resized', "sync" \in due, FALSE, FALSE, FALSE)
             /\ Struck(f)' => Lies(d[f], Goal(f)')
  <2>1. f \in StillFaces /\ f \in DOMAIN drawn /\ f \notin Aside(t) /\ ~ resized'
    BY <1>3 DEF Tended
  <2>2. Goal(f)' = Goal(f)
    BY GoalKept
  <2>3. Still(drawn[f])
    BY <2>1, StillOnes
  <2>4. Struck(f)' => f \in FacesIn(t)
    BY StruckIn
  <2>5. CASE d[f] = drawn[f]
    <3>1. Struck(f)' => Lies(drawn[f], Goal(f))
      BY <2>1, <2>4, AsideLies
    <3>2. OnItsWay(d[f], Goal(f)', resized', "sync" \in due, FALSE, FALSE, FALSE)
      BY <1>1, <2>3, <2>5 DEF OnItsWay, Homeward, Still
    <3> QED
      BY <2>2, <2>5, <3>1, <3>2
  <2>6. CASE /\ d[f].tween = Goal(f) /\ f \notin FacesIn(t)
             /\ d[f].slide = drawn[f].slide /\ d[f].shake = drawn[f].shake
    <3>1. /\ d[f].slide = Nowhere /\ d[f].tween = Goal(f)' /\ d[f].shake = {}
      BY <2>2, <2>3, <2>6 DEF Still
    <3>2. Goal(f)' # Nowhere
      BY <2>2, GoalOnTable
    <3>3. OnItsWay(d[f], Goal(f)', resized', "sync" \in due, FALSE, FALSE, FALSE)
      BY <1>1, <2>1, <3>1, <3>2 DEF OnItsWay, Homeward, ComesHome
    <3> QED
      BY <2>4, <2>6, <3>3
  <2> QED
    BY <2>5, <2>6
<1> QED
  BY <1>1, <1>2, <1>3, <1>4, SettlesAtStart

LEMMA DropSettles ==
  ASSUME TableInv, SettleInv, Drop
  PROVE  SettleInv'
<1>1. /\ BetweenFrames /\ UNCHANGED window /\ UNCHANGED <<size, resized>>
  BY DEF Drop, Dropping, window
<1>2. PICK t \in Foundations \cup Tableaus :
        \/ \E b : Play(b, NoDrag)
        \/ /\ UNCHANGED liveGame /\ rejected' = {t}
           /\ settling' = StillFaces \ Aside(t)
           /\ GoOn(drawn, {"sync", "shake"})
  BY DEF Drop
<1>3. CASE \E b : Play(b, NoDrag)
  BY <1>1, <1>3, PlaySettles
<1>4. CASE /\ UNCHANGED liveGame /\ rejected' = {t}
           /\ settling' = StillFaces \ Aside(t)
           /\ GoOn(drawn, {"sync", "shake"})
  <2>1. live' = live
    BY <1>4 DEF liveGame
  <2> QED
    BY <1>1, <1>4, <2>1, RefusedSettles
<1> QED
  BY <1>2, <1>3, <1>4

LEMMA DropRejectedSettles ==
  ASSUME TableInv, SettleInv, DropRejected
  PROVE  SettleInv'
<1> DEFINE d == [f \in DOMAIN drawn |->
                   IF f \in drag.cards \cap FacesIn(drag.origin)
                   THEN [drawn[f] EXCEPT !.tween = Home(live, f)] ELSE drawn[f]]
<1>1. /\ BetweenFrames /\ UNCHANGED <<live, size, resized>> /\ GoOn(d, {"sync", "shake"})
  BY DEF DropRejected, Dropping, liveGame, window
<1>2. PICK t \in (Foundations \cup Tableaus) \ {drag.origin} :
        rejected' = {t} /\ settling' = StillFaces \ Aside(t)
  BY DEF DropRejected
<1>3. ASSUME NEW f \in DOMAIN drawn
      PROVE  \/ d[f] = drawn[f]
             \/ /\ Placed(d[f]) /\ d[f].tween = Goal(f) /\ f \notin FacesIn(t)
                /\ d[f].slide = drawn[f].slide /\ d[f].shake = drawn[f].shake
  <2>1. CASE f \in drag.cards \cap FacesIn(drag.origin)
    <3>1. IsSprite(drawn[f]) /\ Placed(drawn[f])
      BY DEF TableInv, DrawnInv, Drawing, SettleInv, PlacedInv
    <3>2. PICK s, h, e : s = drawn[f] /\ h = Goal(f) /\ e = [s EXCEPT !.tween = h]
      OBVIOUS
    <3>3. d[f] = e
      BY <2>1, <3>2 DEF Goal
    <3> HIDE DEF d
    <3>4. PICK A, U, H, T, L, W, K :
            /\ s = Rec(A, U, H, T, L, W, K)
            /\ s.at = A /\ s.slide = L /\ s.shake = K
      BY <3>1, <3>2, RecOf
    <3>5. e = Rec(A, U, H, T, L, h, K)
      BY <3>2, <3>4 DEF Rec
    <3>6. e.at = A /\ e.slide = L /\ e.tween = h /\ e.shake = K
      BY <3>5 DEF Rec
    <3>7. Placed(e)
      BY <3>1, <3>2, <3>4, <3>6, PlacesArePlaces DEF Placed
    <3>8. f \notin FacesIn(t)
      <4>1. t \in PileType /\ drag.origin \in PileType
        BY PileKinds DEF TableInv, TypedInv
      <4> QED
        BY <2>1, <4>1, PilesApart
    <3> QED
      BY <3>2, <3>3, <3>4, <3>6, <3>7, <3>8
  <2>2. CASE f \notin drag.cards \cap FacesIn(drag.origin)
    BY <2>2
  <2> QED
    BY <2>1, <2>2
<1>4. DOMAIN d = DOMAIN drawn
  OBVIOUS
<1> HIDE DEF d
<1> QED
  BY <1>1, <1>2, <1>3, <1>4, RefusedSettles

LEMMA SameSettles ==
  ASSUME SettleInv, UNCHANGED <<live, size, resized, drag, drawn, frame, settling>>
  PROVE  SettleInv'
<1>1. UNCHANGED <<todo, queued, rejected>>
  BY DEF frame
<1>2. /\ NeedsSync' = NeedsSync /\ Tended' = Tended /\ PlacedInv' /\ OnceInv'
      /\ \A f : SlideEnds(f)' = SlideEnds(f) /\ TweenEnds(f)' = TweenEnds(f)
               /\ ShakeEnds(f)' = ShakeEnds(f)
  BY <1>1 DEF NeedsSync, Tended, SettleInv, PlacedInv, OnceInv, SlideEnds, TweenEnds,
              ShakeEnds, Ends
<1>3. \A f : Goal(f)' = Goal(f) /\ Struck(f)' = Struck(f)
  BY <1>1, GoalKept DEF Struck, FacesIn, FacesFrom
<1>4. ASSUME NEW f \in Tended \cap DOMAIN drawn
      PROVE  CardSettles(drawn[f], f)'
  <2>1. CardSettles(drawn[f], f)
    BY DEF SettleInv
  <2>2. \A c \in queued' : SeenRight(c, f)'
    BY <1>1, <1>3, <2>1 DEF CardSettles, SeenRight
  <2> QED
    BY <1>1, <1>2, <1>3, <2>1, <2>2 DEF CardSettles, OnItsWay
<1> QED
  BY <1>2, <1>4 DEF SettleInv

LEMMA DoesSettle ==
  ASSUME TableInv, SettleInv, Does
  PROVE  SettleInv'
<1>1. CASE RightClick \/ Expire
  <2>1. UNCHANGED <<live, size, resized, drag, drawn, frame, settling>>
    BY <1>1 DEF RightClick, Expire, liveGame, window
  <2> QED
    BY <2>1, SameSettles
<1> QED
  BY <1>1, GameChangesSettle, NewGameSettles, ResizeSettles, PauseDropOutsideSettle,
     QuietDoingsSettle, DropSettles, DropRejectedSettles, DoubleClickSettles DEF Does

---------------------------------------------------------------------------
(* The systems.                                                            *)

(* What has been asked for now is what was, and what the system asks.      *)
LEMMA NowAsked ==
  ASSUME NEW system, NEW some, queued' \subseteq queued \cup {AskedFor(system, some)},
         queued \subseteq queued'
  PROVE  /\ \A c \in queued' :
              c \in queued \/ (c.by = system /\ c.seen = drawn /\ c.of = some)
         /\ \A f, by : Ends(f, by)' => Ends(f, by) \/ (system \in by /\ f \in some)
         /\ \A f, by : Ends(f, by) => Ends(f, by)'
<1>1. /\ AskedFor(system, some).by = system /\ AskedFor(system, some).seen = drawn
      /\ AskedFor(system, some).of = some
  BY DEF AskedFor
<1>2. \A c \in queued' :
        c \in queued \/ (c.by = system /\ c.seen = drawn /\ c.of = some)
  BY <1>1
<1> QED
  BY <1>2 DEF Ends

LEMMA HasAsked ==
  ASSUME NEW system, NEW some, NEW f \in some, Ask(system, some), NEW by, system \in by
  PROVE  Ends(f, by)'
<1>1. AskedFor(system, some) \in queued'
  BY DEF Ask, AskedFor
<1>2. AskedFor(system, some).by = system /\ AskedFor(system, some).of = some
  BY DEF AskedFor
<1> QED
  BY <1>1, <1>2 DEF Ends

LEMMA AskMonotone ==
  ASSUME NEW system, NEW some, Ask(system, some)
  PROVE  /\ queued' \subseteq queued \cup {AskedFor(system, some)}
         /\ queued \subseteq queued'
BY DEF Ask, AskedFor

(* What a system does to a card that has to settle.                        *)
LEMMA SystemSettles ==
  ASSUME TableInv, SettleInv, NEW system \in SystemNames, NEW some, Run(system),
         queued' \subseteq queued \cup {AskedFor(system, some)}, queued \subseteq queued',
         UNCHANGED <<live, size, drag, settling>>, resized' => resized,
         NeedsSync' = NeedsSync,
         rejected' = rejected \/ system = "shake",
         DOMAIN drawn' = DOMAIN drawn,
         \A f \in DOMAIN drawn : Placed(drawn'[f]),
         \A f \in Tended \cap DOMAIN drawn :
           /\ OnItsWay(drawn'[f], Goal(f), resized', NeedsSync, SlideEnds(f)', TweenEnds(f)',
                       ShakeEnds(f)')
           /\ NeedsSync => ~ SlideEnds(f)'
           /\ Struck(f) => Lies(drawn'[f], Goal(f))
           /\ system = "shake" /\ f \in some => drawn[f].at.x = Goal(f).x
  PROVE  SettleInv'
<1>1. system \in todo /\ todo' = todo \ {system}
  BY DEF Run
<1>2. \A c \in queued' : c \in queued \/ (c.by = system /\ c.seen = drawn /\ c.of = some)
  BY NowAsked
<1>3. PlacedInv'
  <2>1. \A c \in queued' :
          c.by \in SystemNames /\ \A f \in DOMAIN c.seen : IsPlace(c.seen[f].at)
    BY <1>2 DEF SettleInv, PlacedInv, Placed
  <2> QED
    BY <2>1 DEF PlacedInv
<1>4. OnceInv'
  <2>1. \A by \in {"sync", "shake", "shakes"} :
          by \in todo' => \A c \in queued' : c.by # by
    BY <1>1, <1>2 DEF SettleInv, OnceInv
  <2>2. \A by \in {"deal", "cascade"} :
          by \in todo' \/ (\E c \in queued' : c.by = by) => settling' = {}
    BY <1>1, <1>2 DEF SettleInv, OnceInv
  <2>3. NeedsSync' /\ settling' # {} => ~ resized' /\ "snap" \notin todo'
    BY <1>1 DEF SettleInv, OnceInv
  <2> QED
    BY <2>1, <2>2, <2>3 DEF OnceInv
<1>5. ASSUME NEW f \in Tended' \cap DOMAIN drawn'
      PROVE  CardSettles(drawn[f], f)'
  <2>1. f \in Tended \cap DOMAIN drawn
    BY DEF Tended
  <2>2. Goal(f)' = Goal(f)
    BY GoalKept
  <2>3. Struck(f)' => Struck(f) /\ system # "shake"
    BY <1>1 DEF Struck, FacesIn, FacesFrom
  <2>4. CardSettles(drawn[f], f)
    BY <2>1 DEF SettleInv
  <2>5. ASSUME NEW c \in queued'
        PROVE  SeenRight(c, f)'
    <3>1. CASE c \in queued
      <4>1. SeenRight(c, f)
        BY <2>4, <3>1 DEF CardSettles
      <4> QED
        BY <2>2, <2>3, <4>1 DEF SeenRight
    <3>2. CASE c.by = system /\ c.seen = drawn /\ c.of = some
      <4>1. Struck(f) => drawn[f].at = Goal(f)
        BY <2>4 DEF CardSettles, Lies
      <4>2. system = "shake" /\ f \in some => drawn[f].at.x = Goal(f).x
        BY <2>1
      <4> QED
        BY <2>2, <2>3, <3>2, <4>1, <4>2 DEF SeenRight
    <3> QED
      BY <1>2, <3>1, <3>2
  <2>6. PICK s, h : s = drawn'[f] /\ h = Goal(f)
    OBVIOUS
  <2>7. /\ OnItsWay(s, h, resized', NeedsSync, SlideEnds(f)', TweenEnds(f)', ShakeEnds(f)')
        /\ NeedsSync => ~ SlideEnds(f)'
        /\ Struck(f) => Lies(s, h)
    BY <2>1, <2>6
  <2>8. OnItsWay(s, h, resized', NeedsSync', SlideEnds(f)', TweenEnds(f)', ShakeEnds(f)')
    BY <2>7
  <2> QED
    BY <2>2, <2>3, <2>5, <2>6, <2>7, <2>8 DEF CardSettles
<1> QED
  BY <1>3, <1>4, <1>5 DEF SettleInv

(* A system that moves no card.                                            *)
LEMMA AskerSettles ==
  ASSUME TableInv, SettleInv, NEW system \in {"sync", "deal", "shake", "cascade"},
         NEW some, Run(system),
         queued' \subseteq queued \cup {AskedFor(system, some)}, queued \subseteq queued',
         OnlySprites, drawn' = drawn, NeedsSync' = NeedsSync,
         rejected' = rejected \/ system = "shake",
         \A f \in Tended \cap some : system = "shake" => Struck(f)
  PROVE  SettleInv'
<1>1. UNCHANGED <<live, size, drag, settling>> /\ resized' = resized
  BY DEF OnlySprites, liveGame, window
<1>2. ASSUME NEW f \in Tended \cap DOMAIN drawn
      PROVE  /\ OnItsWay(drawn'[f], Goal(f), resized', NeedsSync, SlideEnds(f)', TweenEnds(f)',
                         ShakeEnds(f)')
             /\ NeedsSync => ~ SlideEnds(f)'
             /\ Struck(f) => Lies(drawn'[f], Goal(f))
             /\ system = "shake" /\ f \in some => drawn[f].at.x = Goal(f).x
  <2>1. CardSettles(drawn[f], f)
    BY DEF SettleInv
  <2>2. /\ SlideEnds(f)' <=> SlideEnds(f)
        /\ TweenEnds(f)' <=> TweenEnds(f)
        /\ ShakeEnds(f)' <=> ShakeEnds(f)
    BY NowAsked DEF SlideEnds, TweenEnds, ShakeEnds
  <2>3. PICK s, h : s = drawn[f] /\ h = Goal(f)
    OBVIOUS
  <2>4. OnItsWay(s, h, resized, NeedsSync, SlideEnds(f), TweenEnds(f), ShakeEnds(f))
    BY <2>1, <2>3 DEF CardSettles
  <2>5. OnItsWay(s, h, resized', NeedsSync, SlideEnds(f)', TweenEnds(f)', ShakeEnds(f)')
    BY <1>1, <2>2, <2>4 DEF OnItsWay, ComesHome
  <2> QED
    BY <2>1, <2>2, <2>3, <2>5 DEF CardSettles, Lies
<1>3. system \in SystemNames /\ \A f \in DOMAIN drawn : Placed(drawn'[f])
  BY DEF SystemNames, SettleInv, PlacedInv
<1> QED
  BY <1>1, <1>2, <1>3, SystemSettles

LEMMA NeedKept ==
  ASSUME NEW system, NEW some, Run(system), system # "sync",
         queued' \subseteq queued \cup {AskedFor(system, some)}, queued \subseteq queued'
  PROVE  NeedsSync' = NeedsSync
<1>1. ("sync" \in todo') <=> ("sync" \in todo)
  BY DEF Run
<1>2. (\E c \in queued' : c.by = "sync") <=> (\E c \in queued : c.by = "sync")
  BY NowAsked
<1> QED
  BY <1>1, <1>2 DEF NeedsSync

LEMMA AskersSettle ==
  ASSUME TableInv, SettleInv, SyncCards \/ Deal \/ StartShake \/ Cascade
  PROVE  SettleInv'
<1>1. OnlySprites /\ drawn' = drawn
  BY DEF SyncCards, Deal, StartShake, Cascade
<1>2. CASE SyncCards
  <2>1. /\ Run("sync") /\ rejected' = rejected
        /\ queued' = queued \cup {AskedFor("sync", FacesOf(live))}
    BY <1>2 DEF SyncCards, AskedFor
  <2>2. NeedsSync' /\ NeedsSync
    <3>1. AskedFor("sync", FacesOf(live)).by = "sync"
      BY DEF AskedFor
    <3> QED
      BY <2>1, <3>1 DEF NeedsSync, Run
  <2>3. /\ queued' \subseteq queued \cup {AskedFor("sync", FacesOf(live))}
        /\ queued \subseteq queued'
    BY <2>1
  <2>4. NeedsSync' = NeedsSync
    BY <2>2 DEF NeedsSync
  <2> QED
    BY <1>1, <2>1, <2>3, <2>4, AskerSettles
<1>3. CASE Deal
  <2>1. Run("deal") /\ rejected' = rejected /\ Ask("deal", DOMAIN drawn)
    BY <1>3 DEF Deal
  <2> QED
    BY <1>1, <2>1, AskMonotone, NeedKept, AskerSettles
<1>4. CASE StartShake
  <2> DEFINE some == DOMAIN drawn \cap UNION {FacesIn(t) : t \in rejected}
  <2>1. /\ Run("shake") /\ (Ask("shake", some) \/ queued' = queued)
    BY <1>4 DEF StartShake
  <2>2. \A f \in some : Struck(f)
    BY <2>1 DEF Struck, Run
  <2> HIDE DEF some
  <2>3. queued' \subseteq queued \cup {AskedFor("shake", some)} /\ queued \subseteq queued'
    BY <2>1, AskMonotone
  <2> QED
    BY <1>1, <2>1, <2>2, <2>3, NeedKept, AskerSettles
<1>5. CASE Cascade
  <2>1. Run("cascade") /\ rejected' = rejected /\ Ask("cascade", DOMAIN drawn)
    BY <1>5 DEF Cascade
  <2> QED
    BY <1>1, <2>1, AskMonotone, NeedKept, AskerSettles
<1> QED
  BY <1>2, <1>3, <1>4, <1>5

(* A step towards a place keeps the coordinates that are there already.    *)
LEMMA TowardKeeps ==
  ASSUME NEW a, NEW h
  PROVE  /\ a.x = h.x => Toward(a, h).x = h.x
         /\ a.y = h.y => Toward(a, h).y = h.y
BY DEF Toward

(* A card whose slide goes on, or ends.                                    *)
LEMMA SlidOn ==
  ASSUME NEW s, IsSprite(s), Placed(s), NEW h, NEW astray \in BOOLEAN,
         NEW awaited \in BOOLEAN, NEW slid \in BOOLEAN, NEW slid1 \in BOOLEAN,
         NEW tweened \in BOOLEAN, NEW shaken \in BOOLEAN,
         OnItsWay(s, h, astray, awaited, slid, tweened, shaken),
         slid => slid1, s.slide # Nowhere,
         NEW t, \/ t = [s EXCEPT !.at = s.slide] /\ slid1
                \/ t = [s EXCEPT !.at = Toward(s.at, s.slide)] /\ slid1 = slid
  PROVE  OnItsWay(t, h, astray, awaited, slid1, tweened, shaken)
<1>1. PICK v : t = [s EXCEPT !.at = v] /\ IsPlace(v)
               /\ \/ v = s.slide /\ slid1
                  \/ v = Toward(s.at, s.slide) /\ slid1 = slid
  BY PlacesArePlaces DEF Placed
<1>2. /\ Placed(t) /\ t.at = v /\ t.slide = s.slide /\ t.tween = s.tween
      /\ t.shake = s.shake
  BY <1>1, MovedPlaced
<1>3. /\ s.slide = h /\ ~ astray /\ ~ awaited
      /\ ComesHome(s, h, slid, tweened, shaken)
  BY DEF OnItsWay, Homeward
<1>4. ComesHome(t, h, slid1, tweened, shaken)
  <2>1. CASE v = s.slide
    BY <1>2, <1>3, <2>1 DEF ComesHome
  <2>2. CASE v = Toward(s.at, s.slide) /\ slid1 = slid
    BY <1>2, <1>3, <2>2, TowardKeeps DEF ComesHome
  <2> QED
    BY <1>1, <2>1, <2>2
<1>5. Homeward(t, h)
  BY <1>2 DEF OnItsWay, Homeward
<1> QED
  BY <1>2, <1>3, <1>4, <1>5 DEF OnItsWay

LEMMA TweenedOn ==
  ASSUME NEW s, IsSprite(s), Placed(s), NEW h, NEW astray \in BOOLEAN,
         NEW awaited \in BOOLEAN, NEW slid \in BOOLEAN, NEW tweened1 \in BOOLEAN,
         NEW tweened \in BOOLEAN, NEW shaken \in BOOLEAN,
         OnItsWay(s, h, astray, awaited, slid, tweened, shaken),
         tweened => tweened1, s.tween # Nowhere,
         NEW t, \/ t = [s EXCEPT !.at = s.tween] /\ tweened1
                \/ t = [s EXCEPT !.at = Toward(s.at, s.tween)] /\ tweened1 = tweened
  PROVE  OnItsWay(t, h, astray, awaited, slid, tweened1, shaken)
<1>1. PICK v : t = [s EXCEPT !.at = v] /\ IsPlace(v)
               /\ \/ v = s.tween /\ tweened1
                  \/ v = Toward(s.at, s.tween) /\ tweened1 = tweened
  BY PlacesArePlaces DEF Placed
<1>2. /\ Placed(t) /\ t.at = v /\ t.slide = s.slide /\ t.tween = s.tween
      /\ t.shake = s.shake
  BY <1>1, MovedPlaced
<1>3. /\ s.tween = h /\ ~ astray /\ (awaited => s.slide = Nowhere)
      /\ ComesHome(s, h, slid, tweened, shaken)
  BY DEF OnItsWay, Homeward
<1>4. ComesHome(t, h, slid, tweened1, shaken)
  <2>1. CASE v = s.tween
    BY <1>2, <1>3, <2>1 DEF ComesHome
  <2>2. CASE v = Toward(s.at, s.tween) /\ tweened1 = tweened
    BY <1>2, <1>3, <2>2, TowardKeeps DEF ComesHome
  <2> QED
    BY <1>1, <2>1, <2>2
<1>5. Homeward(t, h)
  BY <1>2 DEF OnItsWay, Homeward
<1> QED
  BY <1>2, <1>3, <1>4, <1>5 DEF OnItsWay

(* A card whose shake goes on, not yet to be ended, or ends.               *)
LEMMA ShakenOn ==
  ASSUME NEW s, NEW h, NEW astray, NEW awaited, NEW slid, NEW tweened, NEW shaken,
         OnItsWay(s, h, astray, awaited, slid, tweened, FALSE), s.shake # {},
         NEW t, t.slide = s.slide, t.tween = s.tween, t.shake = s.shake,
         t.at.y = s.at.y, shaken => t.at.x \in s.shake
  PROVE  OnItsWay(t, h, astray, awaited, slid, tweened, shaken)
<1>1. Homeward(s, h) /\ s.shake \subseteq {h.x}
  BY DEF OnItsWay, Homeward
<1>2. ComesHome(s, h, slid, tweened, FALSE) => ComesHome(t, h, slid, tweened, shaken)
  BY <1>1 DEF ComesHome
<1>3. Homeward(t, h)
  BY <1>1 DEF Homeward
<1> QED
  BY <1>2, <1>3 DEF OnItsWay

LEMMA EndsBoolean ==
  \A f : /\ {SlideEnds(f), TweenEnds(f), ShakeEnds(f)} \subseteq BOOLEAN
        /\ {SlideEnds(f)', TweenEnds(f)', ShakeEnds(f)'} \subseteq BOOLEAN
        /\ NeedsSync \in BOOLEAN
BY DEF SlideEnds, TweenEnds, ShakeEnds, Ends, NeedsSync

LEMMA StillThere ==
  ASSUME TableInv, SettleInv, NEW f \in DOMAIN drawn
  PROVE  /\ IsSprite(drawn[f]) /\ Placed(drawn[f])
         /\ f \in Tended => CardSettles(drawn[f], f)
BY DEF TableInv, DrawnInv, Drawing, SettleInv, PlacedInv

(* One system's tick, by what it does to each card.                        *)
LEMMA TickSettles ==
  ASSUME TableInv, SettleInv, NEW system \in {"slides", "tweens", "shakes"},
         NEW ended, Run(system), Ask(system, ended), OnlySprites, rejected' = rejected,
         DOMAIN drawn' = DOMAIN drawn,
         \A f \in DOMAIN drawn :
           \E v : IsPlace(v) /\ drawn'[f] = [drawn[f] EXCEPT !.at = v],
         \A f \in Tended \cap DOMAIN drawn :
           /\ OnItsWay(drawn'[f], Goal(f), resized, NeedsSync, SlideEnds(f)', TweenEnds(f)',
                       ShakeEnds(f)')
           /\ NeedsSync => ~ SlideEnds(f)'
           /\ Struck(f) => drawn'[f] = drawn[f]
  PROVE  SettleInv'
<1>1. UNCHANGED <<live, size, drag, settling>> /\ resized' = resized
  BY DEF OnlySprites, liveGame, window
<1>2. queued' \subseteq queued \cup {AskedFor(system, ended)} /\ queued \subseteq queued'
  BY AskMonotone
<1>3. NeedsSync' = NeedsSync
  BY <1>2, NeedKept
<1>4. ASSUME NEW f \in DOMAIN drawn
      PROVE  Placed(drawn'[f])
  <2>1. PICK v, s, t : IsPlace(v) /\ s = drawn[f] /\ t = drawn'[f] /\ t = [s EXCEPT !.at = v]
    OBVIOUS
  <2>2. IsSprite(s) /\ Placed(s)
    BY <2>1, StillThere
  <2>3. Placed(t)
    BY <2>1, <2>2, MovedPlaced
  <2> QED
    BY <2>1, <2>3
<1>5. ASSUME NEW f \in Tended \cap DOMAIN drawn
      PROVE  /\ OnItsWay(drawn'[f], Goal(f), resized', NeedsSync, SlideEnds(f)', TweenEnds(f)',
                         ShakeEnds(f)')
             /\ NeedsSync => ~ SlideEnds(f)'
             /\ Struck(f) => Lies(drawn'[f], Goal(f))
             /\ system = "shake" /\ f \in ended => drawn[f].at.x = Goal(f).x
  <2>1. Struck(f) => Lies(drawn[f], Goal(f))
    BY StillThere DEF CardSettles
  <2>2. OnItsWay(drawn'[f], Goal(f), resized', NeedsSync, SlideEnds(f)', TweenEnds(f)',
                 ShakeEnds(f)')
    BY <1>1
  <2>3. Struck(f) => Lies(drawn'[f], Goal(f))
    BY <2>1
  <2> QED
    BY <2>2, <2>3
<1>6. system \in SystemNames
  BY DEF SystemNames
<1> QED
  BY <1>1, <1>2, <1>3, <1>4, <1>5, <1>6, SystemSettles

LEMMA SlidesSettle ==
  ASSUME TableInv, SettleInv, TickSlides
  PROVE  SettleInv'
<1>1. Run("slides") /\ rejected' = rejected /\ OnlySprites
  BY DEF TickSlides
<1>2. PICK ended \in {{}, {f \in DOMAIN drawn : drawn[f].slide # Nowhere}} :
        /\ drawn' = [f \in DOMAIN drawn |->
                    LET s == drawn[f]
                    IN  IF f \in ended THEN [s EXCEPT !.at = s.slide]
                        ELSE IF s.slide # Nowhere THEN [s EXCEPT !.at = Toward(@, s.slide)]
                        ELSE s]
        /\ Ask("slides", ended)
  BY DEF TickSlides
<1>3. DOMAIN drawn' = DOMAIN drawn
  BY <1>2
<1>4. ASSUME NEW f \in DOMAIN drawn
      PROVE  \/ /\ f \in ended /\ drawn[f].slide # Nowhere
                /\ drawn'[f] = [drawn[f] EXCEPT !.at = drawn[f].slide]
             \/ /\ f \notin ended /\ drawn[f].slide # Nowhere
                /\ drawn'[f] = [drawn[f] EXCEPT !.at = Toward(drawn[f].at, drawn[f].slide)]
             \/ /\ f \notin ended /\ drawn[f].slide = Nowhere
                /\ drawn'[f] = drawn[f]
  BY <1>2
<1>5. ASSUME NEW f \in DOMAIN drawn
      PROVE  \E v : IsPlace(v) /\ drawn'[f] = [drawn[f] EXCEPT !.at = v]
  <2>1. drawn[f] = [drawn[f] EXCEPT !.at = drawn[f].at]
    BY StaysThere DEF TableInv, DrawnInv
  <2>2. IsPlace(drawn[f].at) /\ IsPlace(drawn[f].slide)
        /\ IsPlace(Toward(drawn[f].at, drawn[f].slide))
    BY StillThere, PlacesArePlaces DEF Placed
  <2> QED
    BY <1>4, <2>1, <2>2
<1>6. ASSUME NEW f \in Tended \cap DOMAIN drawn
      PROVE  /\ OnItsWay(drawn'[f], Goal(f), resized, NeedsSync, SlideEnds(f)', TweenEnds(f)',
                         ShakeEnds(f)')
             /\ NeedsSync => ~ SlideEnds(f)'
             /\ Struck(f) => drawn'[f] = drawn[f]
  <2>1. IsSprite(drawn[f]) /\ Placed(drawn[f]) /\ CardSettles(drawn[f], f)
    BY StillThere
  <2>2. PICK s, t, h, a, p, l, w, k :
          /\ s = drawn[f] /\ t = drawn'[f] /\ h = Goal(f) /\ a = resized /\ p = NeedsSync
          /\ l = SlideEnds(f) /\ w = TweenEnds(f) /\ k = ShakeEnds(f)
    OBVIOUS
  <2>3. {a, p, l, w, k} \subseteq BOOLEAN
    BY <2>2, EndsBoolean DEF TableInv, TypedInv
  <2>4. /\ OnItsWay(s, h, a, p, l, w, k) /\ IsSprite(s) /\ Placed(s)
        /\ (p => ~ l) /\ (Struck(f) => Lies(s, h))
    BY <2>1, <2>2 DEF CardSettles
  <2>5. /\ TweenEnds(f)' <=> w
        /\ ShakeEnds(f)' <=> k
        /\ l => SlideEnds(f)'
        /\ f \notin ended => (SlideEnds(f)' <=> l)
        /\ f \in ended => SlideEnds(f)'
    BY <1>2, <2>2, AskMonotone, NowAsked, HasAsked DEF TweenEnds, ShakeEnds, SlideEnds
  <2>6. PICK l1 \in BOOLEAN : l1 = SlideEnds(f)'
    BY EndsBoolean
  <2>7. CASE s.slide = Nowhere
    <3>1. t = s /\ (l1 <=> l)
      BY <1>4, <2>2, <2>5, <2>6, <2>7
    <3> QED
      BY <2>2, <2>3, <2>4, <2>5, <2>6, <3>1 DEF OnItsWay, ComesHome
  <2>8. CASE s.slide # Nowhere
    <3>1. \/ t = [s EXCEPT !.at = s.slide] /\ l1
          \/ t = [s EXCEPT !.at = Toward(s.at, s.slide)] /\ l1 = l
      BY <1>4, <2>2, <2>3, <2>5, <2>6, <2>8
    <3>2. OnItsWay(t, h, a, p, l1, w, k)
      BY <2>3, <2>4, <2>5, <2>6, <2>8, <3>1, SlidOn
    <3>3. ~ p /\ ~ Struck(f)
      BY <2>4, <2>8 DEF OnItsWay, Lies
    <3> QED
      BY <2>2, <2>5, <2>6, <3>2, <3>3 DEF OnItsWay, ComesHome
  <2> QED
    BY <2>7, <2>8
<1> QED
  BY <1>1, <1>2, <1>3, <1>5, <1>6, TickSettles

LEMMA TweensSettle ==
  ASSUME TableInv, SettleInv, TickTweens
  PROVE  SettleInv'
<1>1. Run("tweens") /\ rejected' = rejected /\ OnlySprites
  BY DEF TickTweens
<1>2. PICK ended \in {{}, {f \in DOMAIN drawn : drawn[f].tween # Nowhere}} :
        /\ drawn' = [f \in DOMAIN drawn |->
                    LET s == drawn[f]
                    IN  IF f \in ended THEN [s EXCEPT !.at = s.tween]
                        ELSE IF s.tween # Nowhere THEN [s EXCEPT !.at = Toward(@, s.tween)]
                        ELSE s]
        /\ Ask("tweens", ended)
  BY DEF TickTweens
<1>3. DOMAIN drawn' = DOMAIN drawn
  BY <1>2
<1>4. ASSUME NEW f \in DOMAIN drawn
      PROVE  \/ /\ f \in ended /\ drawn[f].tween # Nowhere
                /\ drawn'[f] = [drawn[f] EXCEPT !.at = drawn[f].tween]
             \/ /\ f \notin ended /\ drawn[f].tween # Nowhere
                /\ drawn'[f] = [drawn[f] EXCEPT !.at = Toward(drawn[f].at, drawn[f].tween)]
             \/ /\ f \notin ended /\ drawn[f].tween = Nowhere
                /\ drawn'[f] = drawn[f]
  BY <1>2
<1>5. ASSUME NEW f \in DOMAIN drawn
      PROVE  \E v : IsPlace(v) /\ drawn'[f] = [drawn[f] EXCEPT !.at = v]
  <2>1. drawn[f] = [drawn[f] EXCEPT !.at = drawn[f].at]
    BY StaysThere DEF TableInv, DrawnInv
  <2>2. IsPlace(drawn[f].at) /\ IsPlace(drawn[f].tween)
        /\ IsPlace(Toward(drawn[f].at, drawn[f].tween))
    BY StillThere, PlacesArePlaces DEF Placed
  <2> QED
    BY <1>4, <2>1, <2>2
<1>6. ASSUME NEW f \in Tended \cap DOMAIN drawn
      PROVE  /\ OnItsWay(drawn'[f], Goal(f), resized, NeedsSync, SlideEnds(f)', TweenEnds(f)',
                         ShakeEnds(f)')
             /\ NeedsSync => ~ SlideEnds(f)'
             /\ Struck(f) => drawn'[f] = drawn[f]
  <2>1. IsSprite(drawn[f]) /\ Placed(drawn[f]) /\ CardSettles(drawn[f], f)
    BY StillThere
  <2>2. PICK s, t, h, a, p, l, w, k :
          /\ s = drawn[f] /\ t = drawn'[f] /\ h = Goal(f) /\ a = resized /\ p = NeedsSync
          /\ l = SlideEnds(f) /\ w = TweenEnds(f) /\ k = ShakeEnds(f)
    OBVIOUS
  <2>3. {a, p, l, w, k} \subseteq BOOLEAN
    BY <2>2, EndsBoolean DEF TableInv, TypedInv
  <2>4. /\ OnItsWay(s, h, a, p, l, w, k) /\ IsSprite(s) /\ Placed(s)
        /\ (p => ~ l) /\ (Struck(f) => Lies(s, h))
    BY <2>1, <2>2 DEF CardSettles
  <2>5. /\ SlideEnds(f)' <=> l
        /\ ShakeEnds(f)' <=> k
        /\ w => TweenEnds(f)'
        /\ f \notin ended => (TweenEnds(f)' <=> w)
        /\ f \in ended => TweenEnds(f)'
    BY <1>2, <2>2, AskMonotone, NowAsked, HasAsked DEF TweenEnds, ShakeEnds, SlideEnds
  <2>6. PICK w1 \in BOOLEAN : w1 = TweenEnds(f)'
    BY EndsBoolean
  <2>7. CASE s.tween = Nowhere
    <3>1. t = s /\ (w1 <=> w)
      BY <1>4, <2>2, <2>5, <2>6, <2>7
    <3> QED
      BY <2>2, <2>3, <2>4, <2>5, <2>6, <3>1 DEF OnItsWay, ComesHome
  <2>8. CASE s.tween # Nowhere
    <3>1. \/ t = [s EXCEPT !.at = s.tween] /\ w1
          \/ t = [s EXCEPT !.at = Toward(s.at, s.tween)] /\ w1 = w
      BY <1>4, <2>2, <2>3, <2>5, <2>6, <2>8
    <3>2. OnItsWay(t, h, a, p, l, w1, k)
      BY <2>3, <2>4, <2>5, <2>6, <2>8, <3>1, TweenedOn
    <3>3. ~ Struck(f)
      BY <2>4, <2>8 DEF Lies
    <3> QED
      BY <2>2, <2>4, <2>5, <2>6, <3>2, <3>3 DEF OnItsWay, ComesHome
  <2> QED
    BY <2>7, <2>8
<1> QED
  BY <1>1, <1>2, <1>3, <1>5, <1>6, TickSettles

LEMMA ShakesSettle ==
  ASSUME TableInv, SettleInv, TickShakes
  PROVE  SettleInv'
<1>1. Run("shakes") /\ rejected' = rejected /\ OnlySprites
  BY DEF TickShakes
<1>2. PICK ended \in {{}, {f \in DOMAIN drawn : drawn[f].shake # {}}} :
        /\ drawn' = [f \in DOMAIN drawn |->
                    LET s == drawn[f]
                    IN  IF f \in ended THEN [s EXCEPT !.at.x = ShakeEnded(s)]
                        ELSE IF s.shake # {} THEN [s EXCEPT !.at.x = Somewhere]
                        ELSE s]
        /\ Ask("shakes", ended)
  BY DEF TickShakes
<1>3. DOMAIN drawn' = DOMAIN drawn
  BY <1>2
<1>4. ASSUME NEW f \in DOMAIN drawn
      PROVE  \/ /\ drawn[f].shake # {}
                /\ \E x : /\ IF f \in ended THEN x \in drawn[f].shake ELSE x = Somewhere
                         /\ drawn'[f] = [drawn[f] EXCEPT !.at = [drawn[f].at EXCEPT !.x = x]]
             \/ f \notin ended /\ drawn[f].shake = {} /\ drawn'[f] = drawn[f]
  <2>1. CASE f \in ended
    <3>1. drawn[f].shake # {}
      BY <2>1
    <3>2. ShakeEnded(drawn[f]) \in drawn[f].shake
      BY <3>1 DEF ShakeEnded
    <3>3. drawn'[f] = [drawn[f] EXCEPT !.at = [drawn[f].at EXCEPT !.x = ShakeEnded(drawn[f])]]
      BY <1>2, <2>1
    <3> QED
      BY <2>1, <3>1, <3>2, <3>3
  <2>2. CASE f \notin ended /\ drawn[f].shake # {}
    <3>1. drawn'[f] = [drawn[f] EXCEPT !.at = [drawn[f].at EXCEPT !.x = Somewhere]]
      BY <1>2, <2>2
    <3> QED
      BY <2>2, <3>1
  <2>3. CASE f \notin ended /\ drawn[f].shake = {}
    BY <1>2, <2>3
  <2> QED
    BY <2>1, <2>2, <2>3
<1>5. ASSUME NEW f \in DOMAIN drawn
      PROVE  \E v : IsPlace(v) /\ drawn'[f] = [drawn[f] EXCEPT !.at = v]
  <2>1. drawn[f] = [drawn[f] EXCEPT !.at = drawn[f].at]
    BY StaysThere DEF TableInv, DrawnInv
  <2>2. IsPlace(drawn[f].at)
    BY StillThere DEF Placed
  <2>3. \A x : IsPlace([drawn[f].at EXCEPT !.x = x])
    BY <2>2 DEF IsPlace
  <2> QED
    BY <1>4, <2>1, <2>2, <2>3
<1>6. ASSUME NEW f \in Tended \cap DOMAIN drawn
      PROVE  /\ OnItsWay(drawn'[f], Goal(f), resized, NeedsSync, SlideEnds(f)', TweenEnds(f)',
                         ShakeEnds(f)')
             /\ NeedsSync => ~ SlideEnds(f)'
             /\ Struck(f) => drawn'[f] = drawn[f]
  <2>1. IsSprite(drawn[f]) /\ Placed(drawn[f]) /\ CardSettles(drawn[f], f)
    BY StillThere
  <2>2. PICK s, t, h, a, p, l, w, k :
          /\ s = drawn[f] /\ t = drawn'[f] /\ h = Goal(f) /\ a = resized /\ p = NeedsSync
          /\ l = SlideEnds(f) /\ w = TweenEnds(f) /\ k = ShakeEnds(f)
    OBVIOUS
  <2>3. {a, p, l, w, k} \subseteq BOOLEAN
    BY <2>2, EndsBoolean DEF TableInv, TypedInv
  <2>4. /\ OnItsWay(s, h, a, p, l, w, k) /\ IsSprite(s) /\ Placed(s)
        /\ (p => ~ l) /\ (Struck(f) => Lies(s, h))
    BY <2>1, <2>2 DEF CardSettles
  <2>5. ~ k
    BY <1>1, <2>2 DEF SettleInv, OnceInv, Run, ShakeEnds, Ends
  <2>6. /\ SlideEnds(f)' <=> l
        /\ TweenEnds(f)' <=> w
        /\ f \notin ended => ~ ShakeEnds(f)'
        /\ f \in ended => ShakeEnds(f)'
    BY <1>2, <2>2, <2>5, AskMonotone, NowAsked, HasAsked DEF TweenEnds, ShakeEnds, SlideEnds
  <2>7. PICK k1 \in BOOLEAN : k1 = ShakeEnds(f)'
    BY EndsBoolean
  <2>8. CASE s.shake = {}
    <3>1. t = s /\ ~ k1
      BY <1>4, <2>2, <2>6, <2>7, <2>8
    <3> QED
      BY <2>2, <2>3, <2>4, <2>6, <2>7, <3>1 DEF OnItsWay, ComesHome
  <2>9. CASE s.shake # {}
    <3>1. PICK x, v : /\ (k1 /\ x \in s.shake) \/ ~ k1
                      /\ v = [s.at EXCEPT !.x = x] /\ t = [s EXCEPT !.at = v]
      BY <1>4, <2>2, <2>6, <2>7, <2>9
    <3>2. OnItsWay(s, h, a, p, l, w, FALSE)
      BY <2>3, <2>4, <2>5
    <3>3. v = [x |-> x, y |-> s.at.y]
      BY <2>4, <3>1 DEF Placed, IsPlace
    <3>4. IsPlace(v) /\ v.x = x /\ v.y = s.at.y
      BY <3>3 DEF IsPlace
    <3>5. t.at = v /\ t.slide = s.slide /\ t.tween = s.tween /\ t.shake = s.shake
      BY <2>4, <3>1, <3>4, MovedPlaced
    <3>6. t.at.y = s.at.y /\ (k1 => t.at.x \in s.shake)
      BY <3>1, <3>4, <3>5
    <3>7. OnItsWay(t, h, a, p, l, w, k1)
      BY <2>9, <3>2, <3>5, <3>6, ShakenOn
    <3>8. ~ Struck(f)
      BY <2>4, <2>9 DEF Lies
    <3> QED
      BY <2>2, <2>4, <2>6, <2>7, <3>7, <3>8 DEF OnItsWay, ComesHome
  <2> QED
    BY <2>8, <2>9
<1> QED
  BY <1>1, <1>2, <1>3, <1>5, <1>6, TickSettles

LEMMA SnapSettles ==
  ASSUME TableInv, SettleInv, Snap
  PROVE  SettleInv'
<1>1. Run("snap") /\ UNCHANGED <<live, size, drag, settling, rejected>>
  BY DEF Snap, liveGame
<1>2. CASE UNCHANGED <<drawn, sign, resized, queued>>
  <2>1. /\ queued' \subseteq queued \cup {AskedFor("snap", {})} /\ queued \subseteq queued'
        /\ drawn' = drawn /\ resized' = resized /\ queued' = queued
    BY <1>2
  <2>2. NeedsSync' = NeedsSync
    BY <1>1, <2>1, NeedKept
  <2>3. ASSUME NEW f \in Tended \cap DOMAIN drawn
        PROVE  /\ OnItsWay(drawn'[f], Goal(f), resized', NeedsSync, SlideEnds(f)',
                           TweenEnds(f)', ShakeEnds(f)')
               /\ NeedsSync => ~ SlideEnds(f)'
               /\ Struck(f) => Lies(drawn'[f], Goal(f))
    <3>1. CardSettles(drawn[f], f)
      BY StillThere
    <3>2. /\ SlideEnds(f)' = SlideEnds(f) /\ TweenEnds(f)' = TweenEnds(f)
          /\ ShakeEnds(f)' = ShakeEnds(f)
      BY <2>1 DEF SlideEnds, TweenEnds, ShakeEnds, Ends
    <3> QED
      BY <2>1, <3>1, <3>2 DEF CardSettles
  <2>4. "snap" \in SystemNames /\ \A f \in DOMAIN drawn : Placed(drawn'[f])
    BY <2>1, StillThere DEF SystemNames
  <2> QED
    BY <1>1, <2>1, <2>2, <2>3, <2>4, SystemSettles
<1>3. CASE /\ drawn' = [f \in DOMAIN drawn |->
                       IF f \in FacesOf(live) THEN [drawn[f] EXCEPT !.at = Home(live, f)]
                       ELSE drawn[f]]
           /\ Ask("snap", DOMAIN drawn \cap FacesOf(live))
           /\ resized' = FALSE
  <2> DEFINE some == DOMAIN drawn \cap FacesOf(live)
  <2>1. DOMAIN drawn' = DOMAIN drawn /\ Ask("snap", some) /\ ~ resized'
    BY <1>3
  <2>2. queued' \subseteq queued \cup {AskedFor("snap", some)} /\ queued \subseteq queued'
    BY <2>1, AskMonotone
  <2>3. NeedsSync' = NeedsSync
    BY <1>1, <2>2, NeedKept
  <2>4. ASSUME NEW f \in DOMAIN drawn
        PROVE  \/ /\ f \in some /\ drawn'[f] = [drawn[f] EXCEPT !.at = Goal(f)]
               \/ /\ f \notin some /\ drawn'[f] = drawn[f]
    BY <1>3 DEF Goal
  <2> HIDE DEF some
  <2>5. ASSUME NEW f \in DOMAIN drawn
        PROVE  /\ Placed(drawn'[f])
               /\ f \in some => /\ drawn'[f].at = Goal(f)
                                /\ drawn'[f].slide = drawn[f].slide
                                /\ drawn'[f].tween = drawn[f].tween
                                /\ drawn'[f].shake = drawn[f].shake
    <3>1. PICK s, h, t : s = drawn[f] /\ h = Goal(f) /\ t = drawn'[f]
      OBVIOUS
    <3>2. IsSprite(s) /\ Placed(s) /\ IsPlace(h)
      BY <3>1, StillThere, PlacesArePlaces
    <3>3. CASE f \in some
      <4>1. t = [s EXCEPT !.at = h]
        BY <2>4, <3>1, <3>3
      <4>2. /\ Placed(t) /\ t.at = h /\ t.slide = s.slide /\ t.tween = s.tween
            /\ t.shake = s.shake
        BY <3>2, <4>1, MovedPlaced
      <4> QED
        BY <3>1, <4>2
    <3>4. CASE f \notin some
      BY <2>4, <3>1, <3>2, <3>4
    <3> QED
      BY <3>3, <3>4
  <2>6. ASSUME NEW f \in Tended \cap DOMAIN drawn
        PROVE  /\ OnItsWay(drawn'[f], Goal(f), resized', NeedsSync, SlideEnds(f)',
                           TweenEnds(f)', ShakeEnds(f)')
               /\ NeedsSync => ~ SlideEnds(f)'
               /\ Struck(f) => Lies(drawn'[f], Goal(f))
    <3>1. ~ NeedsSync
      BY <1>1 DEF SettleInv, OnceInv, Run, Tended
    <3>2. f \in some
      BY <3>1 DEF TableInv, DrawnInv, Faced, some
    <3>3. PICK s, h, t : s = drawn[f] /\ h = Goal(f) /\ t = drawn'[f]
      OBVIOUS
    <3>4. /\ t.at = h /\ t.slide = s.slide /\ t.tween = s.tween /\ t.shake = s.shake
      BY <2>5, <3>2, <3>3
    <3>5. Homeward(s, h) /\ (Struck(f) => Lies(s, h))
      BY <3>3, StillThere DEF CardSettles, OnItsWay
    <3>6. Homeward(t, h) /\ (Struck(f) => Lies(t, h))
      BY <3>4, <3>5 DEF Homeward, Lies
    <3>7. ComesHome(t, h, SlideEnds(f)', TweenEnds(f)', ShakeEnds(f)')
      BY <3>4 DEF ComesHome
    <3> QED
      BY <2>1, <3>1, <3>3, <3>6, <3>7 DEF OnItsWay
  <2>7. "snap" \in SystemNames
    BY DEF SystemNames
  <2> QED
    BY <1>1, <2>1, <2>2, <2>3, <2>5, <2>6, <2>7, SystemSettles
<1> QED
  BY <1>2, <1>3 DEF Snap

---------------------------------------------------------------------------
(* A sync point.                                                           *)

(* A card between the commands: those that have been applied no longer     *)
(* move it, those that are still to come are as good as applied.           *)
Midway(s, f, synced) ==
  /\ OnItsWay(s, Goal(f), resized, ~ synced, SlideEnds(f), TweenEnds(f), ShakeEnds(f))
  /\ ~ synced /\ drawn[f].tween # Nowhere =>
       ComesHome(s, Goal(f), SlideEnds(f), TweenEnds(f), ShakeEnds(f))
  /\ Struck(f) => Lies(s, Goal(f))

SettleBetween(d, synced) ==
  /\ \A f \in DOMAIN d : Placed(d[f])
  /\ \A f \in Tended \cap DOMAIN d : Midway(d[f], f, synced)

LEMMA ComesHomeAfter ==
  ASSUME NEW s, NEW h, NEW slid, NEW tweened, NEW shaken,
         ComesHome(s, h, slid, tweened, shaken),
         NEW t, t.at = s.at, t.slide = s.slide \/ slid, t.tween = s.tween \/ tweened,
         t.shake = s.shake \/ shaken \/ t.shake # {}
  PROVE  ComesHome(t, h, slid, tweened, shaken)
BY DEF ComesHome

LEMMA OnItsWayAfter ==
  ASSUME NEW s, NEW h, NEW astray, NEW awaited, NEW slid, NEW tweened, NEW shaken,
         OnItsWay(s, h, astray, awaited, slid, tweened, shaken),
         NEW t, t.at = s.at, t.slide = s.slide \/ slid, t.tween = s.tween \/ tweened,
         t.shake = s.shake \/ shaken \/ t.shake # {},
         t.slide \in {s.slide, Nowhere}, t.tween \in {s.tween, Nowhere},
         t.shake = s.shake \/ t.shake \subseteq {h.x}
  PROVE  OnItsWay(t, h, astray, awaited, slid, tweened, shaken)
<1>1. Homeward(t, h)
  BY DEF OnItsWay, Homeward
<1>2. ComesHome(s, h, slid, tweened, shaken) => ComesHome(t, h, slid, tweened, shaken)
  BY ComesHomeAfter
<1> QED
  BY <1>1, <1>2 DEF OnItsWay

(* What another system than the sync asked for.                            *)
LEMMA CommandedOn ==
  ASSUME TableInv, SettleInv, NEW c \in queued, c.by # "sync",
         NEW f \in Tended, f \in c.of, NEW s, IsSprite(s), NEW synced \in BOOLEAN,
         Midway(s, f, synced), NEW t, t = Commanded(c.by, c.seen[f], s)
  PROVE  Midway(t, f, synced)
<1>1. f \in DOMAIN drawn /\ c.by \in SystemNames
  BY DEF TableInv, QueueInv, SettleInv, PlacedInv
<1>2. c.by \in {"shake", "slides", "tweens", "shakes", "snap"}
  BY <1>1 DEF Tended, SettleInv, OnceInv, SystemNames
<1>3. CardSettles(drawn[f], f) /\ SeenRight(c, f)
  BY <1>1, StillThere DEF CardSettles
<1>4. PICK by, seen, h, l, w, k :
        /\ by = c.by /\ seen = c.seen[f] /\ h = Goal(f)
        /\ l = SlideEnds(f) /\ w = TweenEnds(f) /\ k = ShakeEnds(f)
  OBVIOUS
<1>5. /\ by = "shake" => seen.at.x = h.x /\ ~ Struck(f)
      /\ by \in {"slides", "snap"} => l
      /\ by = "tweens" => w
      /\ by = "shakes" => k
  <2>1. by = "shake" => seen.at.x = h.x
    BY <1>3, <1>4 DEF SeenRight
  <2>2. by = "shake" => ~ Struck(f)
    BY <1>4 DEF Struck, SettleInv, OnceInv
  <2> QED
    BY <1>4, <2>1, <2>2 DEF SlideEnds, TweenEnds, ShakeEnds, Ends
<1>6. t = Commanded(by, seen, s)
  BY <1>4
<1>7. /\ t.at = s.at
      /\ t.slide = IF by \in {"slides", "snap"} THEN Nowhere ELSE s.slide
      /\ t.tween = IF by = "tweens" THEN Nowhere ELSE s.tween
      /\ by = "shake" => t.shake = {h.x}
      /\ by = "shakes" => t.shake = {}
      /\ by \notin {"shake", "shakes"} => t.shake = s.shake
  <2>1. by \in {"shake", "slides", "tweens", "shakes", "snap"}
    BY <1>2, <1>4
  <2>2. /\ t.at = IF by = "deal" THEN StockPlace ELSE IF by = "cascade" THEN seen.at ELSE s.at
        /\ t.slide = IF by = "deal" THEN seen.at
                     ELSE IF by \in {"cascade", "shake", "tweens", "shakes"} THEN s.slide
                     ELSE Nowhere
        /\ t.tween = IF by = "cascade" THEN Outside
                     ELSE IF by = "tweens" THEN Nowhere ELSE s.tween
        /\ by = "shake" => t.shake = {seen.at.x}
        /\ by = "shakes" => t.shake = {}
        /\ by \notin {"shake", "shakes"} => t.shake = s.shake
    BY <1>6, CommandedFields
  <2> QED
    BY <1>5, <2>1, <2>2
<1>8. /\ t.slide = s.slide \/ l
      /\ t.tween = s.tween \/ w
      /\ t.shake = s.shake \/ k \/ t.shake # {}
      /\ t.slide \in {s.slide, Nowhere} /\ t.tween \in {s.tween, Nowhere}
      /\ t.shake = s.shake \/ t.shake \subseteq {h.x}
  BY <1>5, <1>7
<1>9. /\ OnItsWay(s, h, resized, ~ synced, l, w, k)
      /\ ~ synced /\ drawn[f].tween # Nowhere => ComesHome(s, h, l, w, k)
      /\ Struck(f) => Lies(s, h)
  BY <1>4 DEF Midway
<1>10. OnItsWay(t, h, resized, ~ synced, l, w, k)
  BY <1>7, <1>8, <1>9, OnItsWayAfter
<1>11. ComesHome(s, h, l, w, k) => ComesHome(t, h, l, w, k)
  BY <1>7, <1>8, ComesHomeAfter
<1>12. Struck(f) => Lies(t, h)
  BY <1>5, <1>7, <1>9 DEF Lies
<1> QED
  BY <1>4, <1>9, <1>10, <1>11, <1>12 DEF Midway

LEMMA UpdatedWhere ==
  ASSUME NEW f, NEW seen, NEW s, IsSprite(s), NEW t, t = Updated(seen, s, f),
         NEW h, h = Goal(f)
  PROVE  /\ t.tween = IF seen.tween = h \/ seen.tween = Nowhere THEN s.tween ELSE Nowhere
         /\ t.at = IF seen.tween = h THEN s.at
                   ELSE IF seen.at # h /\ ~ instant THEN seen.at ELSE h
         /\ t.slide = IF seen.tween = h THEN s.slide
                      ELSE IF seen.at # h /\ ~ instant THEN h ELSE Nowhere
         /\ t.shake = s.shake
<1>1. h = Home(live, f)
  BY DEF Goal
<1>2. t.tween = IF seen.tween = h \/ seen.tween = Nowhere THEN s.tween ELSE Nowhere
  BY <1>1, UpdatedFacts
<1>3. t.at = IF seen.tween = h THEN s.at
             ELSE IF seen.at # h /\ ~ instant THEN seen.at ELSE h
  BY <1>1, UpdatedFacts
<1>4. t.slide = IF seen.tween = h THEN s.slide
                ELSE IF seen.at # h /\ ~ instant THEN h ELSE Nowhere
  BY <1>1, UpdatedFacts
<1>5. t.shake = s.shake
  <2>1. \A K : s.shake = K => t.shake = K
    BY UpdatedFacts
  <2> QED
    BY <2>1
<1> QED
  BY <1>2, <1>3, <1>4, <1>5

(* What the sync asked for: the tween it keeps leads home.                 *)
LEMMA UpdatedOn ==
  ASSUME TableInv, SettleInv, NEW c \in queued, c.by = "sync",
         NEW f \in Tended \cap DOMAIN drawn, NEW s, IsSprite(s),
         NEW synced \in BOOLEAN, Midway(s, f, synced),
         NEW t, t = Updated(c.seen[f], s, f)
  PROVE  Midway(t, f, TRUE)
<1>1. NeedsSync /\ ~ resized /\ settling # {}
  BY DEF NeedsSync, SettleInv, OnceInv, Tended
<1>2. /\ CardSettles(drawn[f], f) /\ SeenRight(c, f)
      /\ c.seen[f].tween = drawn[f].tween /\ f \in DOMAIN c.seen
  BY StillThere DEF CardSettles, TableInv, QueueInv
<1>3. PICK seen, h, l, w, k :
        /\ seen = c.seen[f] /\ h = Goal(f)
        /\ l = SlideEnds(f) /\ w = TweenEnds(f) /\ k = ShakeEnds(f)
  OBVIOUS
<1>4. ~ l /\ (Struck(f) => seen.at = h) /\ h # Nowhere
  BY <1>1, <1>2, <1>3, GoalOnTable DEF CardSettles, SeenRight
<1>5. /\ OnItsWay(s, h, resized, ~ synced, l, w, k)
      /\ ~ synced /\ seen.tween # Nowhere => ComesHome(s, h, l, w, k)
      /\ Struck(f) => Lies(s, h)
  BY <1>2, <1>3 DEF Midway
<1>6. t = Updated(seen, s, f)
  BY <1>3
<1>8. /\ t.tween = IF seen.tween = h \/ seen.tween = Nowhere THEN s.tween ELSE Nowhere
      /\ t.at = IF seen.tween = h THEN s.at
                ELSE IF seen.at # h /\ ~ instant THEN seen.at ELSE h
      /\ t.slide = IF seen.tween = h THEN s.slide
                   ELSE IF seen.at # h /\ ~ instant THEN h ELSE Nowhere
      /\ t.shake = s.shake
  BY <1>3, <1>6, UpdatedWhere
<1>9. Homeward(t, h)
  BY <1>5, <1>8 DEF OnItsWay, Homeward
<1>10. Struck(f) => Lies(t, h)
  BY <1>4, <1>5, <1>8 DEF Lies
<1>11. ComesHome(t, h, l, w, k)
  <2>1. CASE seen.tween = h
    <3>1. t.at = s.at /\ t.slide = s.slide /\ t.tween = s.tween /\ t.shake = s.shake
      BY <1>8, <2>1
    <3>2. ComesHome(s, h, l, w, k)
      <4>1. CASE synced
        BY <1>1, <1>5, <4>1 DEF OnItsWay
      <4>2. CASE ~ synced
        BY <1>4, <1>5, <2>1, <4>2
      <4> QED
        BY <4>1, <4>2
    <3> QED
      BY <3>1, <3>2, ComesHomeAfter
  <2>2. CASE seen.tween # h
    <3>1. (t.slide = h) \/ t.at = h
      BY <1>8, <2>2
    <3> QED
      BY <1>4, <3>1 DEF ComesHome
  <2> QED
    BY <2>1, <2>2
<1>12. OnItsWay(t, h, resized, FALSE, l, w, k)
  BY <1>1, <1>9, <1>11 DEF OnItsWay
<1> QED
  BY <1>3, <1>10, <1>12 DEF Midway, OnItsWay

LEMMA StillPlaced ==
  ASSUME TableInv, SettleInv, NEW c \in queued, NEW f \in DOMAIN c.seen,
         NEW s, IsSprite(s), Placed(s), NEW t,
         \/ t = Updated(c.seen[f], s, f)
         \/ t = Commanded(c.by, c.seen[f], s)
  PROVE  Placed(t)
<1>1. PICK seen, by, h : seen = c.seen[f] /\ by = c.by /\ h = Goal(f)
  OBVIOUS
<1>2. IsPlace(seen.at) /\ IsPlace(h) /\ IsPlace(Nowhere) /\ IsPlace(Outside)
      /\ IsPlace(StockPlace)
  BY <1>1, PlacesArePlaces DEF SettleInv, PlacedInv
<1>3. CASE t = Updated(c.seen[f], s, f)
  <2>1. t = Updated(seen, s, f)
    BY <1>1, <1>3
  <2>2. /\ t.tween \in {s.tween, Nowhere} /\ t.at \in {s.at, seen.at, h}
        /\ t.slide \in {s.slide, h, Nowhere}
    <3>1. /\ t.tween = IF seen.tween = h \/ seen.tween = Nowhere THEN s.tween ELSE Nowhere
          /\ t.at = IF seen.tween = h THEN s.at
                    ELSE IF seen.at # h /\ ~ instant THEN seen.at ELSE h
          /\ t.slide = IF seen.tween = h THEN s.slide
                       ELSE IF seen.at # h /\ ~ instant THEN h ELSE Nowhere
      BY <1>1, <2>1, UpdatedWhere
    <3> QED
      BY <3>1
  <2> QED
    BY <1>2, <2>2 DEF Placed
<1>4. CASE t = Commanded(c.by, c.seen[f], s)
  <2>1. t = Commanded(by, seen, s)
    BY <1>1, <1>4
  <2>2. /\ t.tween \in {s.tween, Nowhere, Outside} /\ t.at \in {s.at, seen.at, StockPlace}
        /\ t.slide \in {s.slide, seen.at, Nowhere}
    <3>1. /\ t.at = IF by = "deal" THEN StockPlace
                    ELSE IF by = "cascade" THEN seen.at ELSE s.at
          /\ t.slide = IF by = "deal" THEN seen.at
                       ELSE IF by \in {"cascade", "shake", "tweens", "shakes"} THEN s.slide
                       ELSE Nowhere
          /\ t.tween = IF by = "cascade" THEN Outside
                       ELSE IF by = "tweens" THEN Nowhere ELSE s.tween
      BY <2>1, CommandedFields
    <3> QED
      BY <3>1
  <2> QED
    BY <1>2, <2>2 DEF Placed
<1> QED
  BY <1>3, <1>4

LEMMA SpritePlaced ==
  ASSUME NEW f, NEW t, t = Sprite(live, f)
  PROVE  Placed(t) /\ Lies(t, Goal(f))
<1>1. /\ t.at = Goal(f) /\ t.slide = Nowhere /\ t.tween = Nowhere /\ t.shake = {}
  BY DEF Sprite, Goal
<1> QED
  BY <1>1, PlacesArePlaces DEF Placed, Lies

LEMMA OthersSettle ==
  ASSUME TableInv, SettleInv, NEW d, NEW synced \in BOOLEAN, Between(d, synced),
         SettleBetween(d, synced), NEW c \in queued, c.by # "sync"
  PROVE  SettleBetween(Applied(d, c), synced)
<1>1. PICK e : e = Applied(d, c)
  OBVIOUS
<1>2. e = [f \in DOMAIN d |-> IF f \in c.of THEN Commanded(c.by, c.seen[f], d[f]) ELSE d[f]]
  BY <1>1 DEF Applied
<1>3. DOMAIN e = DOMAIN d /\ c.of \subseteq DOMAIN c.seen
  BY <1>2 DEF TableInv, QueueInv
<1>4. \A f \in DOMAIN d : IsSprite(d[f]) /\ Placed(d[f])
  BY DEF Between, Drawing, SettleBetween
<1>5. ASSUME NEW f \in DOMAIN d
      PROVE  Placed(e[f]) /\ (f \in Tended => Midway(e[f], f, synced))
  <2>1. PICK s, t : s = d[f] /\ t = e[f]
    OBVIOUS
  <2>2. IsSprite(s) /\ Placed(s) /\ (f \in Tended => Midway(s, f, synced))
    BY <1>4, <2>1 DEF SettleBetween
  <2>3. CASE f \in c.of
    <3>1. t = Commanded(c.by, c.seen[f], s)
      BY <1>2, <2>1, <2>3
    <3>2. Placed(t)
      BY <1>3, <2>2, <2>3, <3>1, StillPlaced
    <3>3. ASSUME f \in Tended
          PROVE  Midway(t, f, synced)
      BY <2>2, <2>3, <3>1, <3>3, CommandedOn
    <3> QED
      BY <2>1, <3>2, <3>3
  <2>4. CASE f \notin c.of
    <3>1. t = s
      BY <1>2, <2>1, <2>4
    <3> QED
      BY <2>1, <2>2, <3>1
  <2> QED
    BY <2>3, <2>4
<1> QED
  BY <1>1, <1>3, <1>5 DEF SettleBetween

LEMMA SyncSettles ==
  ASSUME TableInv, SettleInv, NEW d, NEW synced \in BOOLEAN, Between(d, synced),
         SettleBetween(d, synced), NEW c \in queued, c.by = "sync"
  PROVE  SettleBetween(Applied(d, c), TRUE)
<1>1. PICK e : e = Applied(d, c)
  OBVIOUS
<1>2. c.of = FacesOf(live) /\ DOMAIN c.seen = DOMAIN drawn
  BY DEF TableInv, QueueInv
<1>3. e = [f \in FacesOf(live) |->
             IF f \in DOMAIN drawn THEN Updated(c.seen[f], d[f], f) ELSE Sprite(live, f)]
  BY <1>1, <1>2 DEF Applied
<1>4. DOMAIN e = FacesOf(live)
  BY <1>3
<1>5. \A f \in DOMAIN d : IsSprite(d[f]) /\ Placed(d[f])
  BY DEF Between, Drawing, SettleBetween
<1>6. ASSUME NEW f \in FacesOf(live)
      PROVE  Placed(e[f]) /\ (f \in Tended => Midway(e[f], f, TRUE))
  <2>1. CASE f \in DOMAIN drawn
    <3>1. f \in DOMAIN d
      BY <2>1 DEF Between
    <3>2. PICK s, t : s = d[f] /\ t = e[f]
      OBVIOUS
    <3>3. /\ IsSprite(s) /\ Placed(s) /\ (f \in Tended => Midway(s, f, synced))
          /\ t = Updated(c.seen[f], s, f)
      BY <1>3, <1>5, <2>1, <3>1, <3>2 DEF SettleBetween
    <3>4. Placed(t)
      BY <1>2, <2>1, <3>3, StillPlaced
    <3>5. ASSUME f \in Tended
          PROVE  Midway(t, f, TRUE)
      BY <2>1, <3>3, <3>5, UpdatedOn
    <3> QED
      BY <3>2, <3>4, <3>5
  <2>2. CASE f \notin DOMAIN drawn
    <3>1. PICK t : t = e[f] /\ t = Sprite(live, f)
      BY <1>3, <2>2
    <3>2. Placed(t) /\ Lies(t, Goal(f))
      BY <3>1, SpritePlaced
    <3>3. Midway(t, f, TRUE)
      BY <3>2 DEF Midway, OnItsWay, Homeward, ComesHome, Lies
    <3> QED
      BY <3>1, <3>2, <3>3
  <2> QED
    BY <2>1, <2>2
<1> QED
  BY <1>1, <1>4, <1>6 DEF SettleBetween

LEMMA SettleAtFirst ==
  ASSUME TableInv, SettleInv
  PROVE  SettleBetween(drawn, ~ NeedsSync)
<1>1. ASSUME NEW f \in Tended \cap DOMAIN drawn
      PROVE  Midway(drawn[f], f, ~ NeedsSync)
  <2>1. CardSettles(drawn[f], f)
    BY StillThere
  <2>2. NeedsSync => ~ resized
    BY DEF SettleInv, OnceInv, Tended
  <2>3. PICK s, h, need, l, w, k :
          /\ s = drawn[f] /\ h = Goal(f) /\ need = NeedsSync
          /\ l = SlideEnds(f) /\ w = TweenEnds(f) /\ k = ShakeEnds(f)
    OBVIOUS
  <2>4. OnItsWay(s, h, resized, need, l, w, k) /\ (Struck(f) => Lies(s, h))
    BY <2>1, <2>3 DEF CardSettles
  <2>5. OnItsWay(s, h, resized, ~ ~ need, l, w, k)
    BY <2>4 DEF OnItsWay
  <2>6. need /\ s.tween # Nowhere => ComesHome(s, h, l, w, k)
    BY <2>2, <2>3, <2>4 DEF OnItsWay
  <2> QED
    BY <2>3, <2>4, <2>5, <2>6 DEF Midway
<1> QED
  BY <1>1, StillThere DEF SettleBetween

LEMMA AllSettle ==
  ASSUME TableInv, SettleInv, NEW order, NEW f, NEW n, Stepwise(f, order, n)
  PROVE  SettleBetween(f[n], SyncedBy(order, n))
<1> DEFINE synced(m) == SyncedBy(order, m)
<1>1. /\ n \in Nat /\ f[0] = drawn
      /\ \A m \in 0 .. n : Between(f[m], synced(m))
      /\ \A m \in 1 .. n : f[m] = Applied(f[m - 1], order[m]) /\ order[m] \in queued
  BY DEF Stepwise
<1>2. /\ synced(0) <=> ~ NeedsSync
      /\ \A m \in 1 .. n : synced(m) <=> synced(m - 1) \/ order[m].by = "sync"
      /\ \A m : synced(m) \in BOOLEAN
  BY SyncedFacts DEF Stepwise
<1> HIDE DEF synced
<1>3. ASSUME NEW m \in 1 .. n, SettleBetween(f[m - 1], synced(m - 1))
      PROVE  SettleBetween(f[m], synced(m))
  <2>1. /\ f[m] = Applied(f[m - 1], order[m]) /\ order[m] \in queued
        /\ Between(f[m - 1], synced(m - 1))
    BY <1>1
  <2>2. PICK was \in BOOLEAN : /\ was = synced(m - 1) /\ Between(f[m - 1], was)
                              /\ SettleBetween(f[m - 1], was)
    BY <1>2, <1>3, <2>1
  <2>3. CASE order[m].by = "sync"
    <3>1. synced(m) = TRUE
      BY <1>2, <2>3
    <3>2. SettleBetween(Applied(f[m - 1], order[m]), TRUE)
      BY <2>1, <2>2, <2>3, SyncSettles
    <3> QED
      BY <2>1, <3>1, <3>2
  <2>4. CASE order[m].by # "sync"
    <3>1. synced(m) = was
      BY <1>2, <2>2, <2>4
    <3>2. SettleBetween(Applied(f[m - 1], order[m]), was)
      BY <2>1, <2>2, <2>4, OthersSettle
    <3> QED
      BY <2>1, <3>1, <3>2
  <2> QED
    BY <2>3, <2>4
<1> DEFINE Bad == {m \in 0 .. n : ~ SettleBetween(f[m], synced(m))}
<1>4. ASSUME Bad # {}
      PROVE  FALSE
  <2>1a. Bad \in SUBSET Nat
    OBVIOUS
  <2>1. PICK m \in Bad : \A y \in Bad : m <= y
    <3> HIDE DEF Bad
    <3> QED
      BY <1>4, <2>1a, LeastNatural
  <2>2. m \in 0 .. n /\ ~ SettleBetween(f[m], synced(m))
    BY <2>1
  <2>3. CASE m = 0
    <3>1. synced(0) = ~ NeedsSync
      BY <1>2
    <3> QED
      BY <1>1, <2>2, <2>3, <3>1, SettleAtFirst
  <2>4. CASE m # 0
    <3>1. m \in 1 .. n /\ m - 1 \in 0 .. n /\ m - 1 \notin Bad
      BY <1>1, <2>1, <2>2, <2>4
    <3>2. SettleBetween(f[m - 1], synced(m - 1))
      BY <3>1
    <3> QED
      BY <1>3, <2>2, <3>1, <3>2
  <2> QED
    BY <2>3, <2>4
<1>5. n \in 0 .. n
  BY <1>1
<1> QED
  BY <1>4, <1>5 DEF synced

LEMMA SyncPointSettles ==
  ASSUME TableInv, SettleInv, SyncPoint
  PROVE  SettleInv'
<1>1. /\ UNCHANGED <<todo, rejected, live, size, resized, drag, settling>>
      /\ queued' = {} /\ \E order \in Orders(queued) : drawn' = AppliedInOrder(drawn, order)
  BY DEF SyncPoint, OnlySprites, liveGame, window
<1>1a. PICK e : e = drawn'
  OBVIOUS
<1>2. PICK synced \in BOOLEAN :
        /\ SettleBetween(e, synced)
        /\ synced = (~ NeedsSync \/ \E c \in queued : c.by = "sync")
  <2>1. PICK order \in Orders(queued) : drawn' = AppliedInOrder(drawn, order)
    BY <1>1
  <2>2. PICK f, n : Stepwise(f, order, n)
    BY AllApplied
  <2>3. e = f[n] /\ SettleBetween(f[n], SyncedBy(order, n))
    BY <1>1a, <2>1, <2>2, AllSettle DEF Stepwise
  <2>4. SyncedBy(order, n) = (~ NeedsSync \/ \E c \in queued : c.by = "sync")
    BY <2>2, SyncedFacts DEF Stepwise
  <2>5. SyncedBy(order, n) \in BOOLEAN
    BY <2>2, SyncedFacts DEF Stepwise
  <2> QED
    BY <2>3, <2>4, <2>5
<1>3. /\ NeedsSync' <=> "sync" \in todo
      /\ \A f : ~ SlideEnds(f)' /\ ~ TweenEnds(f)' /\ ~ ShakeEnds(f)'
  BY <1>1 DEF NeedsSync, SlideEnds, TweenEnds, ShakeEnds, Ends
<1>4. settling # {} => (NeedsSync' <=> ~ synced)
  <2>1. "sync" \in todo => \A c \in queued : c.by # "sync"
    BY DEF SettleInv, OnceInv
  <2>2. NeedsSync <=> "sync" \in todo \/ \E c \in queued : c.by = "sync"
    BY DEF NeedsSync
  <2>3. (~ NeedsSync \/ \E c \in queued : c.by = "sync") <=> "sync" \notin todo
    BY <2>1, <2>2
  <2>4. synced <=> "sync" \notin todo
    BY <1>2, <2>3
  <2> QED
    BY <1>3, <2>4
<1>4a. /\ \A f \in DOMAIN e : Placed(e[f])
       /\ \A f \in Tended \cap DOMAIN e : Midway(e[f], f, synced)
  BY <1>2 DEF SettleBetween
<1>5. PlacedInv'
  BY <1>1, <1>1a, <1>4a DEF PlacedInv
<1>6. OnceInv'
  <2>1. NeedsSync' => NeedsSync
    BY <1>3 DEF NeedsSync
  <2> QED
    BY <1>1, <2>1 DEF SettleInv, OnceInv
<1>7. ASSUME NEW f \in Tended' \cap DOMAIN drawn'
      PROVE  CardSettles(drawn[f], f)'
  <2>1. f \in Tended /\ settling # {} /\ Goal(f)' = Goal(f)
    BY <1>1, GoalKept DEF Tended
  <2>2. Midway(drawn'[f], f, synced)
    BY <1>1a, <1>4a, <2>1
  <2>3. PICK s, h, l, w, k :
          /\ s = drawn'[f] /\ h = Goal(f)
          /\ l = SlideEnds(f) /\ w = TweenEnds(f) /\ k = ShakeEnds(f)
    OBVIOUS
  <2>4. OnItsWay(s, h, resized, ~ synced, l, w, k) /\ (Struck(f) => Lies(s, h))
    BY <2>2, <2>3 DEF Midway
  <2>5. OnItsWay(s, h, resized, ~ synced, FALSE, FALSE, FALSE)
    BY <2>4 DEF OnItsWay, ComesHome
  <2>6. PICK need \in BOOLEAN : need = NeedsSync' /\ need = ~ synced
    <3>1. NeedsSync' \in BOOLEAN
      BY DEF NeedsSync
    <3> QED
      BY <1>4, <2>1, <3>1
  <2>7. PICK l1, w1, k1 \in BOOLEAN :
          /\ l1 = SlideEnds(f)' /\ w1 = TweenEnds(f)' /\ k1 = ShakeEnds(f)'
          /\ ~ l1 /\ ~ w1 /\ ~ k1
    BY <1>3, EndsBoolean
  <2>8. OnItsWay(s, h, resized', need, l1, w1, k1)
    BY <1>1, <2>5, <2>6, <2>7 DEF OnItsWay, ComesHome
  <2>9. Struck(f)' = Struck(f)
    BY <1>1 DEF Struck, FacesIn, FacesFrom
  <2>10. OnItsWay(drawn'[f], Goal(f)', resized', NeedsSync', SlideEnds(f)', TweenEnds(f)',
                  ShakeEnds(f)')
    BY <2>1, <2>3, <2>6, <2>7, <2>8
  <2>11. Struck(f)' => Lies(drawn'[f], Goal(f)')
    BY <2>1, <2>3, <2>4, <2>9
  <2> QED
    BY <1>1, <1>3, <2>10, <2>11 DEF CardSettles
<1> QED
  BY <1>5, <1>6, <1>7 DEF SettleInv

---------------------------------------------------------------------------
(* The cards that were still.                                              *)

LEMMA TableInitSettles == TableInit => SettleInv
<1> SUFFICES ASSUME TableInit PROVE SettleInv
  OBVIOUS
<1>1. /\ drawn = [f \in FacesOf(live) |-> Sprite(live, f)]
      /\ todo = {} /\ queued = {} /\ ~ resized
  BY DEF TableInit
<1>2. ~ NeedsSync /\ \A f : ~ Struck(f)
  BY <1>1 DEF NeedsSync, Struck
<1>3. ASSUME NEW f \in DOMAIN drawn
      PROVE  Placed(drawn[f]) /\ Lies(drawn[f], Goal(f))
  <2>1. PICK t : t = drawn[f] /\ t = Sprite(live, f)
    BY <1>1
  <2>2. Placed(t) /\ Lies(t, Goal(f))
    BY <2>1, SpritePlaced
  <2> QED
    BY <2>1, <2>2
<1>4. ASSUME NEW f \in DOMAIN drawn
      PROVE  CardSettles(drawn[f], f)
  <2>1. PICK s, h : s = drawn[f] /\ h = Goal(f)
    OBVIOUS
  <2>2. Lies(s, h)
    BY <1>3, <2>1
  <2>3. OnItsWay(s, h, resized, NeedsSync, SlideEnds(f), TweenEnds(f), ShakeEnds(f))
    BY <2>2 DEF OnItsWay, Homeward, ComesHome, Lies
  <2> QED
    BY <1>1, <1>2, <2>1, <2>3 DEF CardSettles
<1>5. PlacedInv
  BY <1>1, <1>3 DEF PlacedInv
<1>6. OnceInv
  BY <1>1, <1>2 DEF OnceInv
<1> QED
  BY <1>4, <1>5, <1>6 DEF SettleInv

LEMMA TableNextSettles ==
  ASSUME TableInv, SettleInv, [TableNext]_tableVars
  PROVE  SettleInv'
<1>1. CASE Does
  BY <1>1, DoesSettle
<1>2. CASE Idle
  BY <1>2, QuietDoingsSettle
<1>3. CASE Systems
  BY <1>3, AskersSettle, SlidesSettle, TweensSettle, ShakesSettle, SnapSettles DEF Systems
<1>4. CASE SyncPoint
  BY <1>4, SyncPointSettles
<1>5. CASE UNCHANGED tableVars
  BY <1>5, SameSettles DEF tableVars, liveGame, window, table, frame
<1> QED
  BY <1>1, <1>2, <1>3, <1>4, <1>5 DEF TableNext

(* Quiet leaves nothing that moves a card, and nothing under way.          *)
LEMMA QuietIsSettled == TableInv /\ SettleInv => StillCardsSettle
<1> SUFFICES ASSUME TableInv, SettleInv, Quiet, NEW f \in DOMAIN drawn \cap settling
             PROVE  drawn[f].at = Home(live, f)
  BY DEF StillCardsSettle
<1>1. todo = {} /\ queued = {} /\ drag = NoDrag /\ ~ resized /\ Moving(drawn) = {}
  BY DEF Quiet, BetweenFrames
<1>2. f \in Tended
  BY <1>1 DEF Tended, NoDrag
<1>3. /\ Placed(drawn[f])
      /\ OnItsWay(drawn[f], Goal(f), resized, NeedsSync, SlideEnds(f), TweenEnds(f),
                  ShakeEnds(f))
  BY <1>2, StillThere DEF CardSettles
<1>4. drawn[f].slide = Nowhere /\ drawn[f].tween = Nowhere /\ drawn[f].shake = {}
  BY <1>1 DEF Moving
<1>5. ~ NeedsSync
  BY <1>1 DEF NeedsSync
<1>6. drawn[f].at.x = Goal(f).x /\ drawn[f].at.y = Goal(f).y
  BY <1>1, <1>3, <1>4, <1>5 DEF OnItsWay, ComesHome
<1>7. drawn[f].at = Goal(f)
  BY <1>3, <1>6, PlacesArePlaces, SamePlace DEF Placed
<1> QED
  BY <1>7 DEF Goal

(* A slide, a tween, a shake, a snap and a sync may all be at a card in    *)
(* one frame, each with what it saw of it before the others, and what they *)
(* ask for takes effect in no stated order: for every board and all such   *)
(* orders, a card that lay still at the last change, and was not dealt or  *)
(* shaken out of its place, comes to rest at its place.                    *)
THEOREM StillCardsSettleCorrect == TableSpec => []StillCardsSettle
<1>1. TableInit => SettleInv
  BY TableInitSettles
<1>2. TableInv /\ SettleInv /\ [TableNext]_tableVars => SettleInv'
  BY TableNextSettles
<1>3. TableInv /\ SettleInv => StillCardsSettle
  BY QuietIsSettled
<1> QED
  BY <1>1, <1>2, <1>3, TableInvariant, PTL DEF TableSpec

=============================================================================
