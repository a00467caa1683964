----------------------------- MODULE SyncProofs ----------------------------
(***************************************************************************)
(* Every copy of a player's profile is sound: on any number of devices, in  *)
(* the server's row and on the way between them, whatever pulls, merges,    *)
(* games, pushes and lost answers happen in whatever order.                *)
(***************************************************************************)
EXTENDS Sync, ProfileProofs

Good         == {p \in Profiles : GoodProfile(p)}
GoodPayloads == [user : {Player, Stamp}, profile : Good]
Stages       == {"none", "sent", "loaded", "stored", "refused"}
Pushes       == [stage : Stages, payload : GoodPayloads, base : SUBSET GoodPayloads]
AtMostOne(S) == S = {} \/ \E x : S = {x}

(* The inductive invariant: the copies under way have the types and the     *)
(* soundness of those at rest.                                             *)
IInv ==
  /\ profile \in [Devices -> Good]
  /\ open \in [Devices -> BOOLEAN] /\ pulling \in [Devices -> BOOLEAN]
  /\ date \in [Devices -> Nat \ {0}] /\ day \in Nat \ {0}
  /\ answer \in [Devices -> SUBSET GoodPayloads]
  /\ push \in [Devices -> Pushes]
  /\ row \in SUBSET GoodPayloads
  /\ AtMostOne(row) /\ \A d \in Devices : AtMostOne(answer[d])
  /\ opted \in BOOLEAN /\ optingIn \in BOOLEAN
  /\ board \in [listed : BOOLEAN, score : Nat, time : Nat]

---------------------------------------------------------------------------
LEMMA GoodMember ==
  ASSUME NEW p
  PROVE  p \in Good <=> GoodProfile(p)
BY DEF Good, GoodProfile

LEMMA DefaultPayloadGood == DefaultPayload \in GoodPayloads /\ DefaultProfile \in Good
BY DefaultGood, GoodMember DEF DefaultPayload, DefaultProfile, GoodPayloads

LEMMA BuildPayloadGood ==
  ASSUME NEW p \in Good
  PROVE  BuildPayload(p) \in GoodPayloads
BY DEF BuildPayload, GoodPayloads

LEMMA MergedPayloadGood ==
  ASSUME NEW l \in GoodPayloads, NEW r \in GoodPayloads
  PROVE  MergeAt(l, r) \in GoodPayloads
<1>1. MergeProfiles(l.profile, r.profile) \in Good
  BY GoodMember, MergeProfilesGood DEF GoodPayloads
<1> QED
  BY <1>1 DEF MergeAt, GoodPayloads

LEMMA NoPushType == NoPush \in Pushes /\ [NoPush EXCEPT !.stage = "refused"] \in Pushes
BY DefaultPayloadGood DEF NoPush, Pushes, Stages

LEMMA MergedGood ==
  ASSUME NEW q \in Pushes
  PROVE  Merged(q) \in GoodPayloads
<1>1. q.payload \in GoodPayloads /\ q.base \in SUBSET GoodPayloads
  BY DEF Pushes
<1>2. CASE q.base = {}
  BY <1>1, <1>2 DEF Merged
<1>3. CASE q.base # {}
  <2> DEFINE S == {MergeAt(q.payload, r) : r \in q.base}
  <2>1. S # {} /\ S \subseteq GoodPayloads
    BY <1>1, <1>3, MergedPayloadGood
  <2>2. Merged(q) = CHOOSE m \in S : TRUE
    BY <1>3 DEF Merged
  <2> HIDE DEF S
  <2> QED
    BY <2>1, <2>2
<1> QED
  BY <1>2, <1>3

(* A row of the leaderboard keeps its type: the sentinel of no win is a     *)
(* natural number here, as it must be in the column it is compared in.      *)
LEMMA RankedType ==
  ASSUME NEW b \in [listed : BOOLEAN, score : Nat, time : Nat], NEW s \in Stats
  PROVE  Ranked(b, s) \in [listed : BOOLEAN, score : Nat, time : Nat]
<1>1. /\ b.score \in Nat /\ b.time \in Nat
      /\ s.best_single_score \in Nat /\ s.fastest_win_seconds \in Nat
  BY DEF Stats
<1>2. /\ Higher(b.score, s.best_single_score) \in Nat
      /\ Lower(b.time, s.fastest_win_seconds) \in Nat
  BY <1>1 DEF Higher, Lower
<1> QED
  BY <1>2 DEF Ranked

LEMMA InitInv == Init => IInv
<1> SUFFICES ASSUME Init
             PROVE  IInv
  OBVIOUS
<1>1. profile \in [Devices -> Good]
  BY DefaultPayloadGood DEF Init
<1>2. push \in [Devices -> Pushes]
  BY NoPushType DEF Init
<1>3. answer \in [Devices -> SUBSET GoodPayloads] /\ \A d \in Devices : AtMostOne(answer[d])
  BY DEF Init, AtMostOne
<1>4. row \in SUBSET GoodPayloads /\ AtMostOne(row)
  BY DEF Init, AtMostOne
<1>5. board \in [listed : BOOLEAN, score : Nat, time : Nat]
  BY NeverAssumption DEF Init
<1>6. /\ open \in [Devices -> BOOLEAN] /\ pulling \in [Devices -> BOOLEAN]
      /\ date \in [Devices -> Nat \ {0}] /\ day \in Nat \ {0}
      /\ opted \in BOOLEAN /\ optingIn \in BOOLEAN
  BY DaysAssumption DEF Init
<1> QED
  BY <1>1, <1>2, <1>3, <1>4, <1>5, <1>6 DEF IInv

---------------------------------------------------------------------------
(* An action of one device leaves the invariant when it does on the         *)
(* device's own variables.                                                 *)
LEMMA DeviceStep ==
  ASSUME IInv, NEW d \in Devices,
         \/ Start(d) \/ ManualSync(d) \/ PollPull(d) \/ PullFails(d)
         \/ \E w \in Wins : WinGame(d, w)
         \/ AbandonGame(d) \/ Exit(d) \/ Crash(d)
  PROVE  IInv'
<1>1. /\ profile[d] \in Good /\ GoodProfile(profile[d])
      /\ date[d] \in Nat \ {0} /\ WeekOf(day) \in Nat
      /\ answer[d] \in SUBSET GoodPayloads
  BY GoodMember, WeekOfType DEF IInv
<1>2. CASE Start(d)
  <2>1. [profile[d] EXCEPT !.progress = RollWeek(@, WeekOf(day))] \in Good
    BY <1>1, RollWeekGood, PartsGood, GoodMember DEF GoodProfile
  <2>2. profile' \in [Devices -> Good]
    BY <1>2, <2>1 DEF Start, IInv
  <2>3. /\ open' \in [Devices -> BOOLEAN] /\ pulling' \in [Devices -> BOOLEAN]
        /\ date' \in [Devices -> Nat \ {0}]
    BY <1>2 DEF Start, IInv
  <2> QED
    BY <1>2, <2>2, <2>3 DEF Start, IInv, cloud
<1>3. CASE ManualSync(d)
  BY <1>3 DEF ManualSync, IInv, cloud, rest
<1>4. CASE PollPull(d)
  <2>1. PICK remote \in answer[d] :
          profile' = [profile EXCEPT ![d] = MergeAt(BuildPayload(@), remote).profile]
    BY <1>4 DEF PollPull
  <2>2. MergeAt(BuildPayload(profile[d]), remote).profile \in Good
    <3>1. MergeAt(BuildPayload(profile[d]), remote) \in GoodPayloads
      BY <1>1, BuildPayloadGood, MergedPayloadGood
    <3> QED
      BY <3>1 DEF GoodPayloads
  <2>3. profile' \in [Devices -> Good]
    BY <2>1, <2>2 DEF IInv
  <2>4. /\ pulling' \in [Devices -> BOOLEAN]
        /\ answer' \in [Devices -> SUBSET GoodPayloads]
        /\ \A e \in Devices : AtMostOne(answer'[e])
    BY <1>4 DEF PollPull, IInv, AtMostOne
  <2> QED
    BY <1>4, <2>3, <2>4 DEF PollPull, IInv, cloud, rest
<1>5. CASE PullFails(d)
  BY <1>5 DEF PullFails, IInv, cloud, rest
<1>6. ASSUME NEW w \in Wins, WinGame(d, w)
      PROVE  IInv'
  <2>1. PICK p \in FinishGame(profile[d], w, date[d], day) :
          profile' = [profile EXCEPT ![d] = p]
    BY <1>6 DEF WinGame
  <2>2. w \in Win /\ day \in Nat \ {0}
    BY <1>6, WinsAssumption DEF IInv
  <2>3. p \in Good
    BY <1>1, <2>1, <2>2, FinishGameGood, GoodMember
  <2>4. profile' \in [Devices -> Good]
    BY <2>1, <2>3 DEF IInv
  <2> QED
    BY <1>6, <2>4 DEF WinGame, IInv, cloud
<1>7. CASE AbandonGame(d)
  <2>1. [profile[d] EXCEPT !.stats = RecordAbandoned(@)] \in Good
    BY <1>1, RecordAbandonedGood, PartsGood, GoodMember DEF GoodProfile
  <2>2. profile' \in [Devices -> Good]
    BY <1>7, <2>1 DEF AbandonGame, IInv
  <2> QED
    BY <1>7, <2>2 DEF AbandonGame, IInv, cloud
<1>8. ASSUME Closed(d), push' \in [Devices -> Pushes]
      PROVE  IInv'
  <2>1. /\ open' \in [Devices -> BOOLEAN] /\ pulling' \in [Devices -> BOOLEAN]
        /\ answer' \in [Devices -> SUBSET GoodPayloads]
        /\ \A e \in Devices : AtMostOne(answer'[e])
    BY <1>8 DEF Closed, IInv, AtMostOne
  <2> QED
    BY <1>8, <2>1 DEF Closed, IInv, cloud, rest
<1>9. CASE Exit(d)
  <2>1. [stage |-> "sent", payload |-> BuildPayload(profile[d]), base |-> {}] \in Pushes
    BY <1>1, BuildPayloadGood DEF Pushes, Stages
  <2>2. push' \in [Devices -> Pushes]
    BY <1>9, <2>1 DEF Exit, IInv
  <2> QED
    BY <1>8, <1>9, <2>2 DEF Exit
<1>10. CASE Crash(d)
  BY <1>8, <1>10 DEF Crash, IInv
<1> QED
  BY <1>2, <1>3, <1>4, <1>5, <1>6, <1>7, <1>9, <1>10

(* The handlers of the server.                                             *)
LEMMA ServerStep ==
  ASSUME IInv, NEW d \in Devices,
         \/ AnswerPull(d) \/ PushLost(d) \/ LoadRow(d) \/ StoreRow(d) \/ Rank(d)
  PROVE  IInv'
<1>1. push[d] \in Pushes
  BY DEF IInv
<1>2. CASE AnswerPull(d)
  <2> DEFINE a == IF row = {} THEN {DefaultPayload} ELSE row
  <2>1. a \in SUBSET GoodPayloads /\ AtMostOne(a)
    BY DefaultPayloadGood DEF IInv, AtMostOne
  <2>2. answer' = [answer EXCEPT ![d] = a]
    BY <1>2 DEF AnswerPull
  <2> HIDE DEF a
  <2>3. /\ answer' \in [Devices -> SUBSET GoodPayloads]
        /\ \A e \in Devices : AtMostOne(answer'[e])
    BY <2>1, <2>2 DEF IInv
  <2> QED
    BY <1>2, <2>3 DEF AnswerPull, IInv, cloud, rest
<1>3. ASSUME push' \in [Devices -> Pushes], UNCHANGED <<devs, opted, optingIn, rest>>,
             row' \in SUBSET GoodPayloads, AtMostOne(row'),
             board' \in [listed : BOOLEAN, score : Nat, time : Nat]
      PROVE  IInv'
  BY <1>3 DEF IInv, devs, rest
<1>4. CASE PushLost(d)
  <2>1. push' \in [Devices -> Pushes]
    BY <1>4, NoPushType DEF PushLost, IInv
  <2> QED
    BY <1>3, <1>4, <2>1 DEF PushLost, cloud, IInv
<1>5. CASE LoadRow(d)
  <2> DEFINE q == IF push[d].payload.user # Player THEN [NoPush EXCEPT !.stage = "refused"]
                  ELSE [push[d] EXCEPT !.stage = "loaded", !.base = row]
  <2>1. [push[d] EXCEPT !.stage = "loaded", !.base = row] \in Pushes
    BY <1>1 DEF IInv, Pushes, Stages
  <2>2. q \in Pushes
    BY <2>1, NoPushType
  <2>3. push' = [push EXCEPT ![d] = q]
    BY <1>5 DEF LoadRow
  <2> HIDE DEF q
  <2>4. push' \in [Devices -> Pushes]
    BY <2>2, <2>3 DEF IInv
  <2> QED
    BY <1>3, <1>5, <2>4 DEF LoadRow, cloud, IInv
<1>6. CASE StoreRow(d)
  <2>1. row' \in SUBSET GoodPayloads /\ AtMostOne(row')
    BY <1>1, <1>6, MergedGood DEF StoreRow, AtMostOne
  <2>2. push' \in [Devices -> Pushes]
    BY <1>1, <1>6 DEF StoreRow, IInv, Pushes, Stages
  <2>3. board' \in [listed : BOOLEAN, score : Nat, time : Nat]
    BY <1>6 DEF StoreRow, IInv
  <2> QED
    BY <1>3, <1>6, <2>1, <2>2, <2>3 DEF StoreRow
<1>7. CASE Rank(d)
  <2>1. Merged(push[d]).profile.stats \in Stats
    BY <1>1, MergedGood DEF GoodPayloads, Good, Profiles
  <2>2. board' \in [listed : BOOLEAN, score : Nat, time : Nat]
    BY <1>7, <2>1, RankedType DEF Rank, IInv
  <2>3. push' \in [Devices -> Pushes]
    BY <1>7, NoPushType DEF Rank, IInv
  <2>4. row' \in SUBSET GoodPayloads /\ AtMostOne(row')
    BY <1>7 DEF Rank, IInv
  <2> QED
    BY <1>3, <1>7, <2>2, <2>3, <2>4 DEF Rank
<1> QED
  BY <1>2, <1>4, <1>5, <1>6, <1>7

LEMMA StepInv == IInv /\ [Next]_vars => IInv'
<1> SUFFICES ASSUME IInv, [Next]_vars
             PROVE  IInv'
  OBVIOUS
<1>1. CASE OptIn
  BY <1>1 DEF OptIn, IInv, devs, rest
<1>2. CASE OptInRow
  <2>1. board' \in [listed : BOOLEAN, score : Nat, time : Nat]
    BY <1>2 DEF OptInRow, IInv
  <2> QED
    BY <1>2, <2>1 DEF OptInRow, IInv, devs, rest
<1>3. CASE OptOut
  BY <1>3 DEF OptOut, IInv, devs, rest
<1>4. CASE NextDay
  <2>1. day' \in Nat \ {0}
    BY <1>4 DEF NextDay, IInv
  <2> QED
    BY <1>4, <2>1 DEF NextDay, IInv, devs, cloud
<1>5. CASE UNCHANGED vars
  BY <1>5 DEF vars, devs, cloud, rest, IInv
<1> QED
  BY <1>1, <1>2, <1>3, <1>4, <1>5, DeviceStep, ServerStep DEF Next

(* Every history of the devices and the server stays within the invariant.  *)
THEOREM InductiveInvariant == Spec => []IInv
BY InitInv, StepInv, PTL DEF Spec

---------------------------------------------------------------------------
(* The copies of the specification are the profiles of the invariant.       *)
LEMMA CopiesGood == IInv => \A p \in Copies : p \in Good
<1> SUFFICES ASSUME IInv, NEW p \in Copies
             PROVE  p \in Good
  OBVIOUS
<1>1. Payloads \subseteq GoodPayloads
  <2> SUFFICES ASSUME NEW m \in Payloads
               PROVE  m \in GoodPayloads
    OBVIOUS
  <2>1. CASE m \in row
    BY <2>1 DEF IInv
  <2>2. ASSUME NEW d \in Devices, m \in answer[d] \cup push[d].base
        PROVE  m \in GoodPayloads
    BY <2>2 DEF IInv, Pushes
  <2>3. ASSUME NEW d \in Devices, m = push[d].payload
        PROVE  m \in GoodPayloads
    BY <2>3 DEF IInv, Pushes
  <2> QED
    BY <2>1, <2>2, <2>3 DEF Payloads
<1>2. CASE p \in {profile[d] : d \in Devices}
  BY <1>2 DEF IInv
<1>3. CASE p \in {m.profile : m \in Payloads}
  BY <1>1, <1>3 DEF GoodPayloads
<1> QED
  BY <1>2, <1>3 DEF Copies

(* TypeOK: every copy keeps the type of a profile and the leaderboard its   *)
(* columns'; the server holds at most one row of the player, a device at    *)
(* most one answer.                                                        *)
THEOREM TypeCorrect == Spec => []TypeOK
<1>1. ASSUME NEW S, AtMostOne(S)
      PROVE  Cardinality(S) <= 1
  <2>1. CASE S = {}
    BY <2>1, FS_EmptySet
  <2>2. ASSUME NEW x, S = {x}
        PROVE  Cardinality(S) <= 1
    <3>1. Cardinality({x}) = 1
      BY FS_Singleton
    <3> QED
      BY <2>2, <3>1
  <2> QED
    BY <1>1, <2>1, <2>2 DEF AtMostOne
<1>2. IInv => TypeOK
  <2> SUFFICES ASSUME IInv
               PROVE  TypeOK
    OBVIOUS
  <2>1. Copies \subseteq Profiles
    BY CopiesGood DEF Good
  <2>2. Cardinality(row) <= 1 /\ \A d \in Devices : Cardinality(answer[d]) <= 1
    BY <1>1 DEF IInv
  <2>3. \A d \in Devices : push[d].stage \in Stages
    BY DEF IInv, Pushes
  <2> QED
    BY <2>1, <2>2, <2>3 DEF IInv, TypeOK, Stages
<1> QED
  BY <1>2, InductiveInvariant, PTL

(* CopiesSound: no order of games, merges and pushes makes a copy whose     *)
(* counters, records or dates contradict one another.                      *)
THEOREM CopiesSoundCorrect == Spec => []CopiesSound
<1>1. IInv => CopiesSound
  BY CopiesGood, GoodMember, GoodIsSound DEF CopiesSound
<1> QED
  BY <1>1, InductiveInvariant, PTL

---------------------------------------------------------------------------
(* The leaderboard.                                                         *)
LEMMA RankedNoWorse ==
  ASSUME NEW b \in [listed : BOOLEAN, score : Nat, time : Nat], NEW s \in Stats
  PROVE  b.score <= Ranked(b, s).score /\ Ranked(b, s).time <= b.time
<1>1. /\ b.score \in Nat /\ b.time \in Nat
      /\ s.best_single_score \in Nat /\ s.fastest_win_seconds \in Nat
  BY DEF Stats
<1>2. /\ Ranked(b, s).score = Higher(b.score, s.best_single_score)
      /\ Ranked(b, s).time = Lower(b.time, s.fastest_win_seconds)
  BY DEF Ranked
<1> QED
  BY <1>1, <1>2 DEF Higher, Lower

LEMMA BoardStep ==
  IInv /\ [Next]_vars => board.score <= board'.score /\ board'.time <= board.time
<1> SUFFICES ASSUME IInv, [Next]_vars
             PROVE  board.score <= board'.score /\ board'.time <= board.time
  OBVIOUS
<1>1. /\ board \in [listed : BOOLEAN, score : Nat, time : Nat]
      /\ board.score \in Nat /\ board.time \in Nat
  BY DEF IInv
<1>2. ASSUME UNCHANGED board
      PROVE  board.score <= board'.score /\ board'.time <= board.time
  BY <1>1, <1>2
<1>3. ASSUME NEW d \in Devices, Rank(d)
      PROVE  board.score <= board'.score /\ board'.time <= board.time
  <2>1. push[d] \in Pushes
    BY DEF IInv
  <2>2. Merged(push[d]).profile.stats \in Stats
    BY <2>1, MergedGood DEF GoodPayloads, Good, Profiles
  <2>3. CASE board' = board
    BY <1>2, <2>3
  <2>4. CASE board' = Ranked(board, Merged(push[d]).profile.stats)
    BY <1>1, <2>2, <2>4, RankedNoWorse
  <2> QED
    BY <1>3, <2>3, <2>4 DEF Rank
<1>4. CASE OptInRow
  BY <1>1, <1>4 DEF OptInRow
<1>5. ASSUME NEW d \in Devices,
             \/ Start(d) \/ ManualSync(d) \/ PollPull(d) \/ PullFails(d)
             \/ \E w \in Wins : WinGame(d, w)
             \/ AbandonGame(d) \/ Exit(d) \/ Crash(d)
             \/ AnswerPull(d) \/ PushLost(d) \/ LoadRow(d) \/ StoreRow(d)
      PROVE  UNCHANGED board
  BY <1>5 DEF Start, ManualSync, PollPull, PullFails, WinGame, AbandonGame, Exit, Crash,
              Closed, AnswerPull, PushLost, LoadRow, StoreRow, cloud
<1>6. ASSUME OptIn \/ OptOut \/ NextDay \/ UNCHANGED vars
      PROVE  UNCHANGED board
  BY <1>6 DEF OptIn, OptOut, NextDay, vars, cloud
<1> QED
  BY <1>2, <1>3, <1>4, <1>5, <1>6 DEF Next

(* The leaderboard entry never falls behind a value it showed, although the *)
(* row it is computed from may (server sync.rs), for any set of devices and *)
(* however their pushes overlap.                                            *)
THEOREM BoardNeverRegressesCorrect == Spec => BoardNeverRegresses
<1>1. IInv /\ [Next]_vars => [board.score <= board'.score /\ board'.time <= board.time]_vars
  BY BoardStep
<1> QED
  BY <1>1, InductiveInvariant, PTL DEF Spec, BoardNeverRegresses

---------------------------------------------------------------------------
(* What the server stores, and whose it is: the payloads of the row and of  *)
(* the answers are the player's, and so is a push past the check of its     *)
(* user id.                                                                 *)
OwnInv ==
  /\ \A m \in row : m.user = Player
  /\ \A d \in Devices :
       /\ push[d].stage \in {"loaded", "stored"} => push[d].payload.user = Player
       /\ \A m \in answer[d] : m.user = Player

LEMMA MergedIsMerge ==
  ASSUME NEW q
  PROVE  \/ q.base = {} /\ Merged(q) = q.payload
         \/ \E r \in q.base : Merged(q) = MergeAt(q.payload, r)
<1>1. CASE q.base = {}
  BY <1>1 DEF Merged
<1>2. CASE q.base # {}
  <2> DEFINE S == {MergeAt(q.payload, r) : r \in q.base}
  <2>1. PICK r \in q.base : TRUE
    BY <1>2
  <2>2. MergeAt(q.payload, r) \in S
    BY <2>1
  <2>3. Merged(q) = CHOOSE m \in S : TRUE
    BY <1>2 DEF Merged
  <2>4. Merged(q) \in S
    BY <2>2, <2>3
  <2> QED
    BY <2>4
<1> QED
  BY <1>1, <1>2

LEMMA MergedUser ==
  ASSUME NEW q \in Pushes
  PROVE  Merged(q).user = q.payload.user
<1>1. q.payload \in GoodPayloads
  BY DEF Pushes
<1>2. \A r : MergeAt(q.payload, r).user = q.payload.user
  BY <1>1 DEF MergeAt, GoodPayloads
<1> QED
  BY <1>2, MergedIsMerge

LEMMA OwnStep == IInv /\ OwnInv /\ [Next]_vars => OwnInv'
<1> SUFFICES ASSUME IInv, OwnInv, [Next]_vars
             PROVE  OwnInv'
  OBVIOUS
<1>1. ASSUME NEW d \in Devices, NEW q, row' = row, answer' = answer,
             push' = [push EXCEPT ![d] = q],
             q.stage \in {"loaded", "stored"} => q.payload.user = Player
      PROVE  OwnInv'
  BY <1>1 DEF OwnInv, IInv
<1>2. ASSUME NEW d \in Devices, NEW S, row' = row, push' = push,
             answer' = [answer EXCEPT ![d] = S], \A m \in S : m.user = Player
      PROVE  OwnInv'
  BY <1>2 DEF OwnInv, IInv
<1>3. ASSUME UNCHANGED <<row, push, answer>>
      PROVE  OwnInv'
  BY <1>3 DEF OwnInv
<1>4. ASSUME NEW d \in Devices,
             \/ Start(d) \/ ManualSync(d) \/ PullFails(d)
             \/ \E w \in Wins : WinGame(d, w)
             \/ AbandonGame(d)
      PROVE  OwnInv'
  BY <1>3, <1>4 DEF Start, ManualSync, PullFails, WinGame, AbandonGame, cloud
<1>5. ASSUME NEW d \in Devices, PollPull(d) \/ Crash(d)
      PROVE  OwnInv'
  BY <1>2, <1>5 DEF PollPull, Crash, Closed, cloud
<1>6. ASSUME NEW d \in Devices, Exit(d)
      PROVE  OwnInv'
  <2>1. row' = row /\ answer' = [answer EXCEPT ![d] = {}]
    BY <1>6 DEF Exit, Closed, cloud
  <2>2. push' = [push EXCEPT ![d] = [stage |-> "sent", payload |-> BuildPayload(profile[d]),
                                     base |-> {}]]
    BY <1>6 DEF Exit
  <2> QED
    BY <2>1, <2>2 DEF OwnInv, IInv
<1>7. ASSUME NEW d \in Devices, AnswerPull(d)
      PROVE  OwnInv'
  <2> DEFINE a == IF row = {} THEN {DefaultPayload} ELSE row
  <2>1. \A m \in a : m.user = Player
    BY DEF OwnInv, DefaultPayload
  <2>2. answer' = [answer EXCEPT ![d] = a] /\ row' = row /\ push' = push
    BY <1>7 DEF AnswerPull, cloud
  <2> HIDE DEF a
  <2> QED
    BY <1>2, <2>1, <2>2
<1>8. ASSUME NEW d \in Devices, PushLost(d) \/ Rank(d)
      PROVE  OwnInv'
  BY <1>1, <1>8 DEF PushLost, Rank, devs, cloud, NoPush
<1>9. ASSUME NEW d \in Devices, LoadRow(d)
      PROVE  OwnInv'
  <2>1. row' = row /\ answer' = answer
    BY <1>9 DEF LoadRow, devs, cloud
  <2>2. CASE push[d].payload.user # Player
    <3>1. push' = [push EXCEPT ![d] = [NoPush EXCEPT !.stage = "refused"]]
      BY <1>9, <2>2 DEF LoadRow
    <3>2. [NoPush EXCEPT !.stage = "refused"].stage = "refused"
      BY DEF NoPush
    <3> QED
      BY <1>1, <2>1, <3>1, <3>2
  <2>3. CASE push[d].payload.user = Player
    <3> DEFINE q == [push[d] EXCEPT !.stage = "loaded", !.base = row]
    <3>1. push' = [push EXCEPT ![d] = q]
      BY <1>9, <2>3 DEF LoadRow
    <3>2. q.payload = push[d].payload
      BY DEF IInv, Pushes
    <3> HIDE DEF q
    <3> QED
      BY <1>1, <2>1, <2>3, <3>1, <3>2
  <2> QED
    BY <2>2, <2>3
<1>10. ASSUME NEW d \in Devices, StoreRow(d)
       PROVE  OwnInv'
  <2>1. push[d] \in Pushes /\ push[d].payload.user = Player
    BY <1>10 DEF StoreRow, IInv, OwnInv
  <2>2. Merged(push[d]).user = Player
    BY <2>1, MergedUser
  <2>3. \A m \in row' : m.user = Player
    BY <1>10, <2>2 DEF StoreRow
  <2>4. \A e \in Devices : push'[e].payload = push[e].payload
    BY <1>10, <2>1 DEF StoreRow, IInv, Pushes
  <2>5. \A e \in Devices : e # d => push'[e] = push[e]
    BY <1>10 DEF StoreRow, IInv
  <2>6. answer' = answer
    BY <1>10 DEF StoreRow, devs
  <2> QED
    BY <2>1, <2>3, <2>4, <2>5, <2>6 DEF OwnInv
<1>11. ASSUME OptIn \/ OptInRow \/ OptOut \/ NextDay \/ UNCHANGED vars
       PROVE  OwnInv'
  BY <1>3, <1>11 DEF OptIn, OptInRow, OptOut, NextDay, vars, devs, cloud
<1> QED
  BY <1>4, <1>5, <1>6, <1>7, <1>8, <1>9, <1>10, <1>11 DEF Next

LEMMA OwnAlways == Spec => []OwnInv
<1>1. Init => OwnInv
  BY DEF Init, OwnInv, NoPush
<1> QED
  BY <1>1, OwnStep, InductiveInvariant, PTL DEF Spec

(* Storing a push loses nothing of the row, for any set of devices and      *)
(* whatever id the clients stamp, unless the row has changed since the push *)
(* read it.                                                                 *)
THEOREM AdditiveCorrect == Spec => AdditiveUnlessOverlapping
<1>1. ASSUME IInv, OwnInv, Next, NEW d \in Devices,
             push[d].stage = "loaded", push'[d].stage = "stored", push[d].base = row,
             NEW old \in row, NEW new \in row'
      PROVE  NoLess(old.profile, new.profile)
  <2>1. StoreRow(d)
    <3>1. ASSUME NEW e \in Devices,
                 \/ Exit(e) \/ PushLost(e) \/ LoadRow(e) \/ Rank(e)
          PROVE  FALSE
      BY <1>1, <3>1 DEF Exit, PushLost, LoadRow, Rank, NoPush, IInv, Pushes
    <3>2. ASSUME NEW e \in Devices, StoreRow(e)
          PROVE  StoreRow(d)
      <4>1. push'[d] = push[d] \/ e = d
        BY <3>2 DEF StoreRow, IInv
      <4> QED
        BY <1>1, <3>2, <4>1
    <3>3. push' = push => FALSE
      BY <1>1
    <3>4. ASSUME NEW e \in Devices,
                 \/ Start(e) \/ ManualSync(e) \/ PollPull(e) \/ PullFails(e)
                 \/ \E w \in Wins : WinGame(e, w)
                 \/ AbandonGame(e) \/ Crash(e) \/ AnswerPull(e)
          PROVE  push' = push
      BY <3>4 DEF Start, ManualSync, PollPull, PullFails, WinGame, AbandonGame, Crash,
                  AnswerPull
    <3>5. OptIn \/ OptInRow \/ OptOut \/ NextDay => push' = push
      BY DEF OptIn, OptInRow, OptOut, NextDay
    <3> QED
      BY <1>1, <3>1, <3>2, <3>3, <3>4, <3>5 DEF Next
  <2>2. /\ push[d] \in Pushes /\ push[d].payload \in GoodPayloads
        /\ push[d].payload.user = Player /\ new = Merged(push[d])
    BY <1>1, <2>1 DEF StoreRow, IInv, OwnInv, Pushes
  <2>3. old \in GoodPayloads /\ old.user = Player /\ row = {old}
    BY <1>1 DEF IInv, OwnInv, AtMostOne
  <2>4. new = MergeAt(push[d].payload, old)
    BY <1>1, <2>2, <2>3, MergedIsMerge
  <2>5. new.profile = MergeProfiles(push[d].payload.profile, old.profile)
    BY <2>2, <2>3, <2>4 DEF MergeAt, GoodPayloads
  <2>6. GoodProfile(old.profile) /\ GoodProfile(push[d].payload.profile)
    BY <2>2, <2>3, GoodMember DEF GoodPayloads
  <2> QED
    BY <2>5, <2>6, MergeProfilesGrows
<1>2. IInv /\ OwnInv /\ [Next]_vars =>
        [ \A d \in Devices :
            (push[d].stage = "loaded" /\ push'[d].stage = "stored" /\ push[d].base = row)
              => \A old \in row, new \in row' : NoLess(old.profile, new.profile) ]_vars
  BY <1>1
<1> QED
  BY <1>2, OwnAlways, InductiveInvariant, PTL DEF Spec, AdditiveUnlessOverlapping

---------------------------------------------------------------------------
(* The payloads after a step were there before, or are the default answer,  *)
(* a device's profile or what a push has been merged to.                    *)
LEMMA NewPayloads ==
  ASSUME IInv, [Next]_vars, NEW m \in Payloads'
  PROVE  \/ m \in Payloads \/ m = DefaultPayload
         \/ \E d \in Devices : m = BuildPayload(profile[d]) \/ m = Merged(push[d])
<1> DEFINE Known(x) == \/ x \in Payloads \/ x = DefaultPayload
                       \/ \E d \in Devices : x = BuildPayload(profile[d]) \/ x = Merged(push[d])
<1>1. /\ \A x \in row : Known(x)
      /\ \A d \in Devices : /\ Known(push[d].payload)
                            /\ \A x \in push[d].base \cup answer[d] : Known(x)
  BY DEF Payloads
<1>2. /\ Known(DefaultPayload)
      /\ \A d \in Devices : Known(BuildPayload(profile[d])) /\ Known(Merged(push[d]))
  OBVIOUS
<1> HIDE DEF Known
<1>3. \A x \in row' : Known(x)
  <2>1. row' = row \/ \E d \in Devices : row' = {Merged(push[d])}
    BY DEF Next, Start, ManualSync, PollPull, PullFails, WinGame, AbandonGame, Exit, Crash,
           Closed, AnswerPull, PushLost, LoadRow, StoreRow, Rank, OptIn, OptInRow, OptOut,
           NextDay, vars, cloud
  <2> QED
    BY <1>1, <1>2, <2>1
<1>4. ASSUME NEW d \in Devices
      PROVE  \A x \in answer'[d] : Known(x)
  <2>1. \/ answer'[d] = answer[d] \/ answer'[d] = {}
        \/ answer'[d] = {DefaultPayload} \/ answer'[d] = row
    <3>1. ASSUME NEW e \in Devices, PollPull(e) \/ Closed(e)
          PROVE  answer'[d] = answer[d] \/ answer'[d] = {}
      BY <3>1 DEF PollPull, Closed, IInv
    <3>2. ASSUME NEW e \in Devices, AnswerPull(e)
          PROVE  \/ answer'[d] = answer[d] \/ answer'[d] = {DefaultPayload}
                 \/ answer'[d] = row
      BY <3>2 DEF AnswerPull, IInv
    <3>3. ASSUME NEW e \in Devices,
                 \/ Start(e) \/ ManualSync(e) \/ PullFails(e)
                 \/ \E w \in Wins : WinGame(e, w)
                 \/ AbandonGame(e)
                 \/ PushLost(e) \/ LoadRow(e) \/ StoreRow(e) \/ Rank(e)
          PROVE  answer' = answer
      BY <3>3 DEF Start, ManualSync, PullFails, WinGame, AbandonGame, PushLost, LoadRow,
                  StoreRow, Rank, devs
    <3>4. OptIn \/ OptInRow \/ OptOut \/ NextDay \/ UNCHANGED vars => answer' = answer
      BY DEF OptIn, OptInRow, OptOut, NextDay, devs, vars
    <3> QED
      BY <3>1, <3>2, <3>3, <3>4 DEF Next, Exit, Crash
  <2> QED
    BY <1>1, <1>2, <2>1
<1>5. ASSUME NEW d \in Devices
      PROVE  Known(push'[d].payload) /\ \A x \in push'[d].base : Known(x)
  <2> DEFINE All(q) == Known(q.payload) /\ \A x \in q.base : Known(x)
  <2>1. All(push[d])
    BY <1>1
  <2>2. All(NoPush) /\ All([NoPush EXCEPT !.stage = "refused"])
    BY <1>2 DEF NoPush
  <2>3. \A e \in Devices : All([stage |-> "sent", payload |-> BuildPayload(profile[e]),
                                base |-> {}])
    BY <1>2
  <2>4. \A e \in Devices : /\ All([push[e] EXCEPT !.stage = "loaded", !.base = row])
                          /\ All([push[e] EXCEPT !.stage = "stored"])
    BY <1>1 DEF IInv, Pushes
  <2> HIDE DEF All
  <2>5. ASSUME NEW e \in Devices, NEW q, push' = [push EXCEPT ![e] = q], All(q)
        PROVE  All(push'[d])
    BY <2>1, <2>5 DEF IInv
  <2>6. ASSUME NEW e \in Devices,
               Exit(e) \/ PushLost(e) \/ LoadRow(e) \/ StoreRow(e) \/ Rank(e)
        PROVE  All(push'[d])
    BY <2>2, <2>3, <2>4, <2>5, <2>6 DEF Exit, PushLost, LoadRow, StoreRow, Rank
  <2>7. ASSUME NEW e \in Devices,
               \/ Start(e) \/ ManualSync(e) \/ PollPull(e) \/ PullFails(e)
               \/ \E w \in Wins : WinGame(e, w)
               \/ AbandonGame(e) \/ Crash(e) \/ AnswerPull(e)
        PROVE  push' = push
    BY <2>7 DEF Start, ManualSync, PollPull, PullFails, WinGame, AbandonGame, Crash, AnswerPull
  <2>8. OptIn \/ OptInRow \/ OptOut \/ NextDay \/ UNCHANGED vars => push' = push
    BY DEF OptIn, OptInRow, OptOut, NextDay, vars
  <2>9. All(push'[d])
    BY <2>1, <2>6, <2>7, <2>8 DEF Next
  <2> QED
    BY <2>9 DEF All
<1>6. Known(m)
  BY <1>3, <1>4, <1>5 DEF Payloads
<1> QED
  BY <1>6 DEF Known

LEMMA PayloadsGood == IInv => Payloads \subseteq GoodPayloads
BY DEF IInv, Pushes, Payloads

---------------------------------------------------------------------------
(* No copy is of a week that has not begun, so that a device's weekly goals *)
(* are never rolled backwards.                                             *)
TimelyInv ==
  /\ \A m \in Payloads : m.profile.progress.week <= WeekOf(day)
  /\ \A d \in Devices : profile[d].progress.week <= WeekOf(day)

LEMMA MergeWeeks ==
  ASSUME NEW l \in GoodPayloads, NEW r \in GoodPayloads, NEW n \in Nat,
         l.profile.progress.week <= n, r.profile.progress.week <= n
  PROVE  MergeAt(l, r).profile.progress.week <= n
<1>1. GoodProfile(l.profile) /\ GoodProfile(r.profile)
  BY GoodMember DEF GoodPayloads
<1>2. MergeProfiles(l.profile, r.profile).progress.week <= n
  BY <1>1, MergeProfilesGrows DEF Higher
<1>3. l.user = r.user => MergeAt(l, r).profile = MergeProfiles(l.profile, r.profile)
  BY DEF MergeAt, GoodPayloads
<1> QED
  BY <1>2, <1>3 DEF MergeAt

LEMMA MergedTimely ==
  ASSUME IInv, NEW d \in Devices, TimelyInv
  PROVE  Merged(push[d]).profile.progress.week <= WeekOf(day)
<1>1. /\ push[d].payload \in GoodPayloads /\ push[d].base \in SUBSET GoodPayloads
      /\ WeekOf(day) \in Nat
      /\ push[d].payload \in Payloads /\ push[d].base \subseteq Payloads
  BY WeekOfType DEF IInv, Pushes, Payloads
<1>2. CASE Merged(push[d]) = push[d].payload
  BY <1>1, <1>2 DEF TimelyInv
<1>3. ASSUME NEW r \in push[d].base, Merged(push[d]) = MergeAt(push[d].payload, r)
      PROVE  Merged(push[d]).profile.progress.week <= WeekOf(day)
  BY <1>1, <1>3, MergeWeeks DEF TimelyInv
<1> QED
  BY <1>2, <1>3, MergedIsMerge

(* What a step does to a device's profile: it takes nothing from it and,    *)
(* when the answer of a pull has been merged, nothing from that either; the *)
(* merge of an answer needs the client's id to be the player's.             *)
Absorbs(d) ==
  /\ NoLess(profile[d], profile'[d])
  /\ Stamp = Player =>
       \A remote \in answer[d] :
         open'[d] /\ answer'[d] = {} => NoLess(remote.profile, profile'[d])

LEMMA ProfileStep ==
  ASSUME IInv, OwnInv, TimelyInv, Next, NEW d \in Devices
  PROVE  Absorbs(d) /\ profile'[d].progress.week <= WeekOf(day)
<1>1. /\ GoodProfile(profile[d]) /\ profile[d] \in Good
      /\ profile[d].progress.week <= WeekOf(day)
      /\ WeekOf(day) \in Nat /\ day \in Nat \ {0} /\ date[d] \in Nat \ {0}
      /\ answer[d] \in SUBSET GoodPayloads /\ AtMostOne(answer[d])
  BY GoodMember, WeekOfType DEF IInv, TimelyInv
<1>2. NoLess(profile[d], profile[d])
  BY <1>1, ProfileOrder
<1>3. ASSUME profile'[d] = profile[d],
             answer'[d] = answer[d] \/ answer[d] = {} \/ ~ open'[d]
      PROVE  Absorbs(d) /\ profile'[d].progress.week <= WeekOf(day)
  BY <1>1, <1>2, <1>3 DEF Absorbs
<1>4. ASSUME NEW p, NoLess(profile[d], p), p.progress.week <= WeekOf(day),
             profile' = [profile EXCEPT ![d] = p], answer' = answer
      PROVE  Absorbs(d) /\ profile'[d].progress.week <= WeekOf(day)
  <2>1. profile'[d] = p
    BY <1>4 DEF IInv
  <2> QED
    BY <1>4, <2>1 DEF Absorbs
<1>5. CASE Start(d)
  <2> DEFINE q == RollWeek(profile[d].progress, WeekOf(day))
             p == [profile[d] EXCEPT !.progress = q]
  <2>1. NoLessProgress(profile[d].progress, q) /\ q.week = WeekOf(day)
    BY <1>1, RollWeekGrows DEF GoodProfile
  <2>2. profile' = [profile EXCEPT ![d] = p] /\ answer' = answer
    BY <1>5 DEF Start
  <2> HIDE DEF q
  <2>3. /\ p.stats = profile[d].stats /\ p.achievements = profile[d].achievements
        /\ p.progress = q
    BY <1>1 DEF GoodProfile, Profiles
  <2> HIDE DEF p
  <2>4. NoLess(profile[d], p)
    BY <1>2, <2>1, <2>3 DEF NoLess
  <2>5. p.progress.week <= WeekOf(day)
    BY <1>1, <2>1, <2>3
  <2> QED
    BY <1>4, <2>2, <2>4, <2>5
<1>6. CASE PollPull(d)
  <2>1. PICK remote \in answer[d] :
          profile' = [profile EXCEPT ![d] = MergeAt(BuildPayload(@), remote).profile]
    BY <1>6 DEF PollPull
  <2> DEFINE m == MergeProfiles(profile[d], remote.profile)
             p == MergeAt(BuildPayload(profile[d]), remote).profile
  <2>2. /\ remote \in GoodPayloads /\ remote.user = Player
        /\ remote.profile.progress.week <= WeekOf(day) /\ GoodProfile(remote.profile)
    BY <1>1, <2>1, GoodMember DEF OwnInv, TimelyInv, Payloads, GoodPayloads
  <2>3. IF Stamp = Player THEN p = m ELSE p = profile[d]
    BY <2>2 DEF MergeAt, BuildPayload
  <2>4. /\ NoLess(profile[d], m) /\ NoLess(remote.profile, m)
        /\ m.progress.week <= WeekOf(day)
    BY <1>1, <2>2, MergeProfilesGrows DEF Higher
  <2>5. profile'[d] = p
    BY <2>1 DEF IInv
  <2>6. answer[d] = {remote}
    BY <1>1 DEF AtMostOne
  <2> HIDE DEF m, p
  <2>7. CASE Stamp = Player
    BY <2>3, <2>4, <2>5, <2>6, <2>7 DEF Absorbs
  <2>8. CASE Stamp # Player
    BY <1>1, <1>2, <2>3, <2>5, <2>8 DEF Absorbs
  <2> QED
    BY <2>7, <2>8
<1>7. ASSUME NEW w \in Wins, WinGame(d, w)
      PROVE  Absorbs(d) /\ profile'[d].progress.week <= WeekOf(day)
  <2>1. PICK p \in FinishGame(profile[d], w, date[d], day) :
          profile' = [profile EXCEPT ![d] = p]
    BY <1>7 DEF WinGame
  <2>2. NoLess(profile[d], p) /\ p.progress.week = WeekOf(day)
    BY <1>1, <2>1, WinsAssumption, FinishGameGrows
  <2>3. answer' = answer
    BY <1>7 DEF WinGame
  <2>4. p.progress.week <= WeekOf(day)
    BY <1>1, <2>2
  <2> QED
    BY <1>4, <2>1, <2>2, <2>3, <2>4
<1>8. CASE AbandonGame(d)
  <2> DEFINE s == RecordAbandoned(profile[d].stats)
             p == [profile[d] EXCEPT !.stats = s]
  <2>1. NoLessStats(profile[d].stats, s)
    BY <1>1, RecordAbandonedGrows DEF GoodProfile, GoodStats
  <2>2. profile' = [profile EXCEPT ![d] = p] /\ answer' = answer
    BY <1>8 DEF AbandonGame
  <2> HIDE DEF s
  <2>3. /\ p.stats = s /\ p.achievements = profile[d].achievements
        /\ p.progress = profile[d].progress
    BY <1>1 DEF GoodProfile, Profiles
  <2> HIDE DEF p
  <2>4. NoLess(profile[d], p)
    BY <1>2, <2>1, <2>3 DEF NoLess
  <2> QED
    BY <1>1, <1>4, <2>2, <2>3, <2>4
<1>9. ASSUME NEW e \in Devices, Closed(e)
      PROVE  Absorbs(d) /\ profile'[d].progress.week <= WeekOf(day)
  <2>1. profile'[d] = profile[d] /\ (answer'[d] = answer[d] \/ ~ open'[d])
    BY <1>9 DEF Closed, IInv
  <2> QED
    BY <1>3, <2>1
<1>10. ASSUME NEW e \in Devices, e # d,
              \/ Start(e) \/ PollPull(e) \/ (\E w \in Wins : WinGame(e, w)) \/ AbandonGame(e)
       PROVE  Absorbs(d) /\ profile'[d].progress.week <= WeekOf(day)
  <2>1. profile'[d] = profile[d] /\ answer'[d] = answer[d]
    BY <1>10 DEF Start, PollPull, WinGame, AbandonGame, IInv
  <2> QED
    BY <1>3, <2>1
<1>11. ASSUME NEW e \in Devices, AnswerPull(e)
       PROVE  Absorbs(d) /\ profile'[d].progress.week <= WeekOf(day)
  <2>1. profile' = profile /\ (answer'[d] = answer[d] \/ answer[d] = {})
    BY <1>11 DEF AnswerPull, IInv
  <2> QED
    BY <1>3, <2>1
<1>12. ASSUME profile' = profile, answer' = answer
       PROVE  Absorbs(d) /\ profile'[d].progress.week <= WeekOf(day)
  BY <1>3, <1>12
<1>13. ASSUME NEW e \in Devices,
              \/ ManualSync(e) \/ PullFails(e) \/ PushLost(e) \/ LoadRow(e)
              \/ StoreRow(e) \/ Rank(e)
       PROVE  profile' = profile /\ answer' = answer
  BY <1>13 DEF ManualSync, PullFails, PushLost, LoadRow, StoreRow, Rank, devs
<1>14. OptIn \/ OptInRow \/ OptOut \/ NextDay => profile' = profile /\ answer' = answer
  BY DEF OptIn, OptInRow, OptOut, NextDay, devs
<1> QED
  BY <1>5, <1>6, <1>7, <1>8, <1>9, <1>10, <1>11, <1>12, <1>13, <1>14
     DEF Next, Exit, Crash

LEMMA TimelyStep == IInv /\ IInv' /\ OwnInv /\ TimelyInv /\ [Next]_vars => TimelyInv'
<1> SUFFICES ASSUME IInv, IInv', OwnInv, TimelyInv, [Next]_vars
             PROVE  TimelyInv'
  OBVIOUS
<1>1. WeekOf(day) \in Nat /\ WeekOf(day') \in Nat /\ WeekOf(day) <= WeekOf(day')
  <2>1. /\ day \in Nat \ {0} /\ day' \in Nat \ {0}
    BY DEF IInv
  <2>2. day' = day \/ day' = day + 1
    BY DEF Next, Start, ManualSync, PollPull, PullFails, WinGame, AbandonGame, Exit, Crash,
           Closed, AnswerPull, PushLost, LoadRow, StoreRow, Rank, OptIn, OptInRow, OptOut,
           NextDay, vars, rest
  <2> QED
    BY <2>1, <2>2, WeekOfType, WeeksGrow
<1>2. ASSUME NEW p \in Good, p.progress.week <= WeekOf(day)
      PROVE  p.progress.week <= WeekOf(day')
  <2>1. p.progress.week \in Nat
    BY DEF Good, GoodProfile, GoodProgress, Progress
  <2> QED
    BY <1>1, <1>2, <2>1
<1>3. ASSUME NEW d \in Devices
      PROVE  profile'[d].progress.week <= WeekOf(day')
  <2>1. profile'[d].progress.week <= WeekOf(day)
    <3>1. CASE Next
      BY <3>1, ProfileStep
    <3>2. CASE UNCHANGED vars
      BY <3>2 DEF vars, devs, TimelyInv
    <3> QED
      BY <3>1, <3>2
  <2>2. profile'[d] \in Good
    BY DEF IInv
  <2> QED
    BY <1>2, <2>1, <2>2
<1>4. ASSUME NEW m \in Payloads'
      PROVE  m.profile.progress.week <= WeekOf(day')
  <2>1. m.profile.progress.week <= WeekOf(day)
    <3>1. CASE m \in Payloads
      BY <3>1 DEF TimelyInv
    <3>2. CASE m = DefaultPayload
      BY <1>1, <3>2 DEF DefaultPayload, DefaultProfile, DefaultProgress
    <3>3. ASSUME NEW d \in Devices, m = BuildPayload(profile[d]) \/ m = Merged(push[d])
          PROVE  m.profile.progress.week <= WeekOf(day)
      BY <3>3, MergedTimely DEF TimelyInv, BuildPayload
    <3> QED
      BY <3>1, <3>2, <3>3, NewPayloads
  <2>2. m.profile \in Good
    <3>1. Payloads' \subseteq GoodPayloads
      BY DEF IInv, Pushes, Payloads
    <3> QED
      BY <3>1 DEF GoodPayloads
  <2> QED
    BY <1>2, <2>1, <2>2
<1> QED
  BY <1>3, <1>4 DEF TimelyInv

LEMMA TimelyAlways == Spec => []TimelyInv
<1>1. Init => TimelyInv
  <2> SUFFICES ASSUME Init
               PROVE  TimelyInv
    OBVIOUS
  <2>1. 0 <= WeekOf(day)
    BY DaysAssumption, WeekOfType DEF Init
  <2>2. Payloads \subseteq {DefaultPayload}
    BY DEF Init, Payloads, NoPush
  <2> QED
    BY <2>1, <2>2
       DEF Init, TimelyInv, DefaultPayload, DefaultProfile, DefaultProgress
<1> QED
  BY <1>1, TimelyStep, OwnAlways, InductiveInvariant, PTL DEF Spec

---------------------------------------------------------------------------
(* A client that stamps an id other than the player's, as the shipped one    *)
(* does (sync_plugin.rs:412): a push is refused and every answer is the     *)
(* empty payload of a player without a row.                                *)
ForeignInv ==
  Stamp # Player =>
    /\ row = {}
    /\ \A d \in Devices :
         /\ answer[d] \subseteq {DefaultPayload}
         /\ push[d].stage \in {"none", "sent", "refused"}
         /\ push[d].stage = "sent" => push[d].payload.user = Stamp

LEMMA ForeignStep == IInv /\ ForeignInv /\ [Next]_vars => ForeignInv'
<1> SUFFICES ASSUME IInv, ForeignInv, [Next]_vars, Stamp # Player
             PROVE  ForeignInv'
  BY DEF ForeignInv
<1>1. ASSUME NEW d \in Devices, NEW q, row' = row, answer' = answer,
             push' = [push EXCEPT ![d] = q],
             q.stage \in {"none", "refused"}
      PROVE  ForeignInv'
  BY <1>1 DEF ForeignInv, IInv
<1>2. ASSUME NEW d \in Devices, NEW S, row' = row, push' = push,
             answer' = [answer EXCEPT ![d] = S], S \subseteq {DefaultPayload}
      PROVE  ForeignInv'
  BY <1>2 DEF ForeignInv, IInv
<1>3. ASSUME UNCHANGED <<row, push, answer>>
      PROVE  ForeignInv'
  BY <1>3 DEF ForeignInv
<1>4. ASSUME NEW d \in Devices,
             \/ Start(d) \/ ManualSync(d) \/ PullFails(d)
             \/ \E w \in Wins : WinGame(d, w)
             \/ AbandonGame(d)
      PROVE  ForeignInv'
  BY <1>3, <1>4 DEF Start, ManualSync, PullFails, WinGame, AbandonGame, cloud
<1>5. ASSUME NEW d \in Devices, PollPull(d) \/ Crash(d)
      PROVE  ForeignInv'
  BY <1>2, <1>5 DEF PollPull, Crash, Closed, cloud
<1>6. ASSUME NEW d \in Devices, Exit(d)
      PROVE  ForeignInv'
  <2>1. row' = row /\ answer' = [answer EXCEPT ![d] = {}]
    BY <1>6 DEF Exit, Closed, cloud
  <2>2. push' = [push EXCEPT ![d] = [stage |-> "sent", payload |-> BuildPayload(profile[d]),
                                     base |-> {}]]
    BY <1>6 DEF Exit
  <2>3. BuildPayload(profile[d]).user = Stamp
    BY DEF BuildPayload
  <2> QED
    BY <2>1, <2>2, <2>3 DEF ForeignInv, IInv
<1>7. ASSUME NEW d \in Devices, AnswerPull(d)
      PROVE  ForeignInv'
  <2>1. answer' = [answer EXCEPT ![d] = {DefaultPayload}] /\ row' = row /\ push' = push
    BY <1>7 DEF AnswerPull, ForeignInv, cloud
  <2> QED
    BY <1>2, <2>1
<1>8. ASSUME NEW d \in Devices, PushLost(d)
      PROVE  ForeignInv'
  BY <1>1, <1>8 DEF PushLost, devs, cloud, NoPush
<1>9. ASSUME NEW d \in Devices, LoadRow(d)
      PROVE  ForeignInv'
  <2>1. row' = row /\ answer' = answer
    BY <1>9 DEF LoadRow, devs, cloud
  <2>2. push[d].payload.user # Player
    BY <1>9 DEF LoadRow, ForeignInv
  <2>3. push' = [push EXCEPT ![d] = [NoPush EXCEPT !.stage = "refused"]]
    BY <1>9, <2>2 DEF LoadRow
  <2>4. [NoPush EXCEPT !.stage = "refused"].stage = "refused"
    BY DEF NoPush
  <2> QED
    BY <1>1, <2>1, <2>3, <2>4
<1>10. ASSUME NEW d \in Devices, StoreRow(d) \/ Rank(d)
       PROVE  ForeignInv'
  BY <1>10 DEF StoreRow, Rank, ForeignInv
<1>11. ASSUME OptIn \/ OptInRow \/ OptOut \/ NextDay \/ UNCHANGED vars
       PROVE  ForeignInv'
  BY <1>3, <1>11 DEF OptIn, OptInRow, OptOut, NextDay, vars, devs, cloud
<1> QED
  BY <1>4, <1>5, <1>6, <1>7, <1>8, <1>9, <1>10, <1>11 DEF Next

LEMMA ForeignAlways == Spec => []ForeignInv
<1>1. Init => ForeignInv
  BY DEF Init, ForeignInv, NoPush
<1> QED
  BY <1>1, ForeignStep, InductiveInvariant, PTL DEF Spec

(* The finding of sync_plugin.rs:412 for every set of devices, profile and  *)
(* order of events: when the id the clients stamp is not the player's, the  *)
(* server never stores a payload, and all that a device is ever answered is *)
(* the empty payload.                                                       *)
THEOREM ForeignStampNeverSyncs ==
  Spec => [](Stamp # Player =>
               row = {} /\ \A d \in Devices : answer[d] \subseteq {DefaultPayload})
<1>1. ForeignInv =>
        (Stamp # Player =>
           row = {} /\ \A d \in Devices : answer[d] \subseteq {DefaultPayload})
  BY DEF ForeignInv
<1> QED
  BY <1>1, ForeignAlways, PTL

(* A profile never has less than it began with.                             *)
StartedInv == \A d \in Devices : NoLess(DefaultProfile, profile[d])

LEMMA StartedStep ==
  IInv /\ IInv' /\ OwnInv /\ TimelyInv /\ StartedInv /\ [Next]_vars => StartedInv'
<1> SUFFICES ASSUME IInv, IInv', OwnInv, TimelyInv, StartedInv, [Next]_vars,
                    NEW d \in Devices
             PROVE  NoLess(DefaultProfile, profile'[d])
  BY DEF StartedInv
<1>1. NoLess(DefaultProfile, profile[d])
  BY DEF StartedInv
<1>2. GoodProfile(DefaultProfile) /\ GoodProfile(profile[d]) /\ GoodProfile(profile'[d])
  BY DefaultPayloadGood, GoodMember DEF IInv
<1>3. CASE Next
  <2>1. NoLess(profile[d], profile'[d])
    BY <1>3, ProfileStep DEF Absorbs
  <2> QED
    BY <1>1, <1>2, <2>1, ProfileOrder
<1>4. CASE UNCHANGED vars
  BY <1>1, <1>4 DEF vars, devs
<1> QED
  BY <1>3, <1>4

LEMMA StartedAlways == Spec => []StartedInv
<1>1. Init => StartedInv
  <2> SUFFICES ASSUME Init, NEW d \in Devices
               PROVE  NoLess(DefaultProfile, profile[d])
    BY DEF StartedInv
  <2>1. profile[d] = DefaultProfile
    BY DEF Init
  <2> QED
    BY <2>1, DefaultPayloadGood, GoodMember, ProfileOrder
<1> QED
  BY <1>1, StartedStep, TimelyAlways, OwnAlways, InductiveInvariant, PTL DEF Spec

(* However pulls, pushes and games interleave, on any set of devices and    *)
(* whatever id they stamp: no step takes anything from a device's profile,  *)
(* and taking up the answer of a pull takes nothing from either side        *)
(* (merge.rs: data is never silently discarded).  With the player's id the  *)
(* answer is merged; with another, as the client ships, merge_at ignores    *)
(* it, but it is then the empty payload, of which every profile has all.    *)
THEOREM DevicesAbsorbCorrect == Spec => DevicesAbsorb
<1>1. ASSUME IInv, IInv', OwnInv, TimelyInv, ForeignInv, StartedInv, Next,
             NEW d \in Devices
      PROVE  /\ NoLess(profile[d], profile'[d])
             /\ \A remote \in answer[d] :
                  open'[d] /\ answer'[d] = {} => NoLess(remote.profile, profile'[d])
  <2>1. Absorbs(d)
    BY <1>1, ProfileStep
  <2>2. CASE Stamp = Player
    BY <2>1, <2>2 DEF Absorbs
  <2>3. CASE Stamp # Player
    <3>1. \A remote \in answer[d] : remote.profile = DefaultProfile
      BY <1>1, <2>3 DEF ForeignInv, DefaultPayload
    <3>2. NoLess(DefaultProfile, profile[d]) /\ NoLess(profile[d], profile'[d])
      BY <1>1, <2>1 DEF StartedInv, Absorbs
    <3>3. GoodProfile(DefaultProfile) /\ GoodProfile(profile[d]) /\ GoodProfile(profile'[d])
      BY <1>1, DefaultPayloadGood, GoodMember DEF IInv
    <3>4. NoLess(DefaultProfile, profile'[d])
      BY <3>2, <3>3, ProfileOrder
    <3> QED
      BY <3>1, <3>2, <3>4
  <2> QED
    BY <2>2, <2>3
<1>2. IInv /\ IInv' /\ OwnInv /\ TimelyInv /\ ForeignInv /\ StartedInv /\ [Next]_vars =>
        [ \A d \in Devices :
            /\ NoLess(profile[d], profile'[d])
            /\ \A remote \in answer[d] :
                 open'[d] /\ answer'[d] = {} => NoLess(remote.profile, profile'[d]) ]_vars
  BY <1>1
<1> QED
  BY <1>2, StartedAlways, ForeignAlways, TimelyAlways, OwnAlways, InductiveInvariant, PTL
     DEF Spec, DevicesAbsorb

---------------------------------------------------------------------------
(* What was played backs every copy: a counter of it is at most what all     *)
(* devices have earned together, a record is one of the games won.          *)
Times  == {w.time : w \in earned.wins} \cup {Never}
Scores == {w.score : w \in earned.wins} \cup {0}

Backed(p) ==
  /\ p.stats.games_won <= earned.won
  /\ p.stats.games_played <= earned.played
  /\ p.stats.lifetime_score <= earned.score
  /\ p.progress.total_xp <= earned.xp
  /\ p.progress.challenge_index <= earned.challenges
  /\ p.stats.fastest_win_seconds \in Times
  /\ p.stats.best_single_score \in Scores

Earnings == [wins : SUBSET Win, played : Nat, won : Nat, score : Nat, xp : Nat, challenges : Nat]

CountInv ==
  /\ earned \in Earnings
  /\ \A m \in Payloads : Backed(m.profile)
  /\ \A d \in Devices : Backed(profile[d])
  /\ board.time \in Times /\ board.score \in Scores

LEMMA CountersAreNumbers ==
  ASSUME NEW p \in Good
  PROVE  /\ p.stats.games_won \in Nat /\ p.stats.games_played \in Nat
         /\ p.stats.lifetime_score \in Nat /\ p.progress.total_xp \in Nat
         /\ p.progress.challenge_index \in Nat
         /\ p.stats.fastest_win_seconds \in Nat /\ p.stats.best_single_score \in Nat
BY DEF Good, GoodProfile, GoodStats, GoodProgress, Stats, Progress

(* What is backed stays backed as more is played.                           *)
EarnedMore ==
  /\ earned.wins \subseteq earned'.wins
  /\ earned.played <= earned'.played /\ earned.won <= earned'.won
  /\ earned.score <= earned'.score /\ earned.xp <= earned'.xp
  /\ earned.challenges <= earned'.challenges

LEMMA StaysBacked ==
  ASSUME earned \in Earnings, earned' \in Earnings, EarnedMore
  PROVE  /\ \A p \in Good : Backed(p) => Backed(p)'
         /\ Times \subseteq Times' /\ Scores \subseteq Scores'
<1>1. Times \subseteq Times' /\ Scores \subseteq Scores'
  BY DEF EarnedMore, Times, Scores
<1>2. ASSUME NEW a \in Nat, NEW b \in Nat, NEW c \in Nat, a <= b, b <= c
      PROVE  a <= c
  BY <1>2
<1>3. ASSUME NEW p \in Good, Backed(p)
      PROVE  Backed(p)'
  <2>1. /\ p.stats.games_won <= earned'.won /\ p.stats.games_played <= earned'.played
        /\ p.stats.lifetime_score <= earned'.score /\ p.progress.total_xp <= earned'.xp
        /\ p.progress.challenge_index <= earned'.challenges
    BY <1>2, <1>3, CountersAreNumbers DEF Backed, EarnedMore, Earnings
  <2> QED
    BY <1>1, <1>3, <2>1 DEF Backed
<1> QED
  BY <1>1, <1>3

LEMMA MergeBacked ==
  ASSUME NEW l \in GoodPayloads, NEW r \in GoodPayloads, Backed(l.profile), Backed(r.profile)
  PROVE  Backed(MergeAt(l, r).profile)
<1>1. Backed(MergeProfiles(l.profile, r.profile))
  <2> DEFINE m == MergeProfiles(l.profile, r.profile)
  <2>1. GoodProfile(l.profile) /\ GoodProfile(r.profile)
    BY GoodMember DEF GoodPayloads
  <2>2. /\ m.stats.games_won \in {l.profile.stats.games_won, r.profile.stats.games_won}
        /\ m.stats.games_played \in {l.profile.stats.games_played, r.profile.stats.games_played}
        /\ m.stats.lifetime_score \in
             {l.profile.stats.lifetime_score, r.profile.stats.lifetime_score}
        /\ m.stats.best_single_score \in
             {l.profile.stats.best_single_score, r.profile.stats.best_single_score}
        /\ m.stats.fastest_win_seconds \in
             {l.profile.stats.fastest_win_seconds, r.profile.stats.fastest_win_seconds}
        /\ m.progress.total_xp \in {l.profile.progress.total_xp, r.profile.progress.total_xp}
        /\ m.progress.challenge_index \in
             {l.profile.progress.challenge_index, r.profile.progress.challenge_index}
    BY <2>1, MergeOfEither
  <2> HIDE DEF m
  <2>3. Backed(m)
    BY <2>2 DEF Backed
  <2> QED
    BY <2>3 DEF m
<1>2. MergeAt(l, r) = l \/ MergeAt(l, r).profile = MergeProfiles(l.profile, r.profile)
  BY DEF MergeAt, GoodPayloads
<1> QED
  BY <1>1, <1>2

LEMMA MergedBacked ==
  ASSUME IInv, CountInv, NEW d \in Devices
  PROVE  Backed(Merged(push[d]).profile)
<1>1. /\ push[d].payload \in GoodPayloads /\ push[d].base \in SUBSET GoodPayloads
      /\ push[d].payload \in Payloads /\ push[d].base \subseteq Payloads
  BY DEF IInv, Pushes, Payloads
<1>2. CASE Merged(push[d]) = push[d].payload
  BY <1>1, <1>2 DEF CountInv
<1>3. ASSUME NEW r \in push[d].base, Merged(push[d]) = MergeAt(push[d].payload, r)
      PROVE  Backed(Merged(push[d]).profile)
  BY <1>1, <1>3, MergeBacked DEF CountInv
<1> QED
  BY <1>2, <1>3, MergedIsMerge

LEMMA DefaultBacked == earned \in Earnings => Backed(DefaultProfile)
<1> SUFFICES ASSUME earned \in Earnings
             PROVE  Backed(DefaultProfile)
  OBVIOUS
<1>1. /\ DefaultProfile.stats.games_won = 0 /\ DefaultProfile.stats.games_played = 0
      /\ DefaultProfile.stats.lifetime_score = 0 /\ DefaultProfile.progress.total_xp = 0
      /\ DefaultProfile.progress.challenge_index = 0
      /\ DefaultProfile.stats.fastest_win_seconds = Never
      /\ DefaultProfile.stats.best_single_score = 0
  BY DEF DefaultProfile, DefaultStats, DefaultProgress
<1> QED
  BY <1>1 DEF Backed, Earnings, Times, Scores

(* A won game adds to what was earned what it adds to the profile.          *)
LEMMA WinBacked ==
  ASSUME IInv, TimelyInv, CountInv, NEW d \in Devices, NEW w \in Wins, WinGame(d, w)
  PROVE  earned' \in Earnings /\ EarnedMore /\ Backed(profile[d])'
<1>1. PICK p \in FinishGame(profile[d], w, date[d], day) :
        /\ profile' = [profile EXCEPT ![d] = p]
        /\ earned' = [wins |-> earned.wins \cup {w},
                      played |-> earned.played + 1, won |-> earned.won + 1,
                      score |-> earned.score + w.score,
                      xp |-> earned.xp + (p.progress.total_xp - profile[d].progress.total_xp),
                      challenges |-> earned.challenges
                                       + (IF w.mode = "Challenge" THEN 1 ELSE 0)]
  BY DEF WinGame
<1> DEFINE old == profile[d]
<1>2. /\ old \in Good /\ GoodProfile(old) /\ w \in Win /\ Backed(old)
      /\ day \in Nat \ {0} /\ date[d] \in Nat \ {0} /\ earned \in Earnings
      /\ old.progress.week <= WeekOf(day) /\ old.stats \in Stats
  BY GoodMember, WinsAssumption DEF IInv, TimelyInv, CountInv, GoodProfile, GoodStats
<1>3. profile'[d] = p
  BY <1>1 DEF IInv
<1>4. p \in Good /\ NoLess(old, p)
  BY <1>1, <1>2, FinishGameGood, FinishGameGrows, GoodMember
<1>5. /\ p.stats = UpdatePerModeBests(UpdateOnWin(old.stats, w), w)
      /\ p.progress.challenge_index = old.progress.challenge_index + ChallengeStep(w)
  BY <1>1, <1>2, FinishGameCounts
<1>6. /\ p.stats.games_won = old.stats.games_won + 1
      /\ p.stats.games_played = old.stats.games_played + 1
      /\ p.stats.lifetime_score = old.stats.lifetime_score + w.score
      /\ p.stats.best_single_score \in {old.stats.best_single_score, w.score}
      /\ p.stats.fastest_win_seconds \in {old.stats.fastest_win_seconds, w.time}
  BY <1>2, <1>5, WinCounted
<1>7. old.progress.total_xp <= p.progress.total_xp
  BY <1>4 DEF NoLess, NoLessProgress
<1> HIDE DEF old
<1>8. /\ earned'.wins = earned.wins \cup {w}
      /\ earned'.played = earned.played + 1 /\ earned'.won = earned.won + 1
      /\ earned'.score = earned.score + w.score
      /\ earned'.xp = earned.xp + (p.progress.total_xp - old.progress.total_xp)
      /\ earned'.challenges = earned.challenges + ChallengeStep(w)
  BY <1>1 DEF ChallengeStep, old
<1>9. /\ w.score \in Nat /\ ChallengeStep(w) \in Nat
      /\ p.progress.total_xp - old.progress.total_xp \in Nat
  BY <1>2, <1>4, <1>7, CountersAreNumbers DEF Win, ChallengeStep
<1>10. earned' \in Earnings
  <2>1. /\ earned.wins \cup {w} \in SUBSET Win
        /\ earned.played + 1 \in Nat /\ earned.won + 1 \in Nat
        /\ earned.score + w.score \in Nat
        /\ earned.xp + (p.progress.total_xp - old.progress.total_xp) \in Nat
        /\ earned.challenges + ChallengeStep(w) \in Nat
    BY <1>2, <1>9 DEF Earnings
  <2>2. earned' = [wins |-> earned.wins \cup {w},
                   played |-> earned.played + 1, won |-> earned.won + 1,
                   score |-> earned.score + w.score,
                   xp |-> earned.xp + (p.progress.total_xp - old.progress.total_xp),
                   challenges |-> earned.challenges + ChallengeStep(w)]
    BY <1>1 DEF ChallengeStep, old
  <2> QED
    BY <2>1, <2>2 DEF Earnings
<1>11. EarnedMore
  BY <1>2, <1>8, <1>9 DEF EarnedMore, Earnings
<1>12. /\ p.stats.games_won <= earned'.won /\ p.stats.games_played <= earned'.played
       /\ p.stats.lifetime_score <= earned'.score /\ p.progress.total_xp <= earned'.xp
       /\ p.progress.challenge_index <= earned'.challenges
  BY <1>2, <1>4, <1>5, <1>6, <1>8, <1>9, CountersAreNumbers DEF Backed, Earnings
<1>13. p.stats.fastest_win_seconds \in Times' /\ p.stats.best_single_score \in Scores'
  BY <1>2, <1>6, <1>8 DEF Backed, Times, Scores
<1> QED
  BY <1>3, <1>10, <1>11, <1>12, <1>13 DEF Backed

LEMMA AbandonBacked ==
  ASSUME IInv, CountInv, NEW d \in Devices, AbandonGame(d)
  PROVE  earned' \in Earnings /\ EarnedMore /\ Backed(profile[d])'
<1> DEFINE old == profile[d]
           p   == [old EXCEPT !.stats = RecordAbandoned(old.stats)]
<1>1. /\ profile'[d] = p /\ earned' = [earned EXCEPT !.played = earned.played + 1]
      /\ earned \in Earnings /\ old \in Good /\ Backed(old)
  BY DEF AbandonGame, IInv, CountInv
<1>2. old \in Profiles /\ old.stats \in Stats
  BY <1>1 DEF Good, Profiles
<1>3. /\ p.stats = RecordAbandoned(old.stats) /\ p.progress = old.progress
  BY <1>2 DEF Profiles
<1>4. /\ p.stats.games_played = old.stats.games_played + 1
      /\ p.stats.games_won = old.stats.games_won
      /\ p.stats.lifetime_score = old.stats.lifetime_score
      /\ p.stats.best_single_score = old.stats.best_single_score
      /\ p.stats.fastest_win_seconds = old.stats.fastest_win_seconds
  <2>1. ASSUME NEW s \in Stats
        PROVE  LET t == RecordAbandoned(s)
               IN  /\ t.games_played = s.games_played + 1 /\ t.games_won = s.games_won
                   /\ t.lifetime_score = s.lifetime_score
                   /\ t.best_single_score = s.best_single_score
                   /\ t.fastest_win_seconds = s.fastest_win_seconds
    BY <2>1 DEF RecordAbandoned, Stats
  <2> HIDE DEF old, p
  <2> QED
    BY <1>2, <1>3, <2>1
<1> HIDE DEF old, p
<1>5. /\ earned'.wins = earned.wins /\ earned'.played = earned.played + 1
      /\ earned'.won = earned.won /\ earned'.score = earned.score
      /\ earned'.xp = earned.xp /\ earned'.challenges = earned.challenges
      /\ earned' \in Earnings
  BY <1>1 DEF Earnings
<1>6. EarnedMore
  BY <1>1, <1>5 DEF EarnedMore, Earnings
<1>7. /\ p.stats.games_won <= earned'.won /\ p.stats.games_played <= earned'.played
      /\ p.stats.lifetime_score <= earned'.score /\ p.progress.total_xp <= earned'.xp
      /\ p.progress.challenge_index <= earned'.challenges
  BY <1>1, <1>3, <1>4, <1>5, CountersAreNumbers DEF Backed, Earnings
<1>8. p.stats.fastest_win_seconds \in Times' /\ p.stats.best_single_score \in Scores'
  BY <1>1, <1>4, <1>5 DEF Backed, Times, Scores
<1> QED
  BY <1>1, <1>5, <1>6, <1>7, <1>8 DEF Backed

(* The leaderboard takes its records from the row's statistics.             *)
LEMMA RankedBacked ==
  ASSUME IInv, CountInv, NEW s \in Stats,
         s.fastest_win_seconds \in Times, s.best_single_score \in Scores
  PROVE  Ranked(board, s).time \in Times /\ Ranked(board, s).score \in Scores
<1>1. /\ Ranked(board, s).score = Higher(board.score, s.best_single_score)
      /\ Ranked(board, s).time = Lower(board.time, s.fastest_win_seconds)
  BY DEF Ranked, IInv
<1> QED
  BY <1>1 DEF CountInv, Higher, Lower

LEMMA CountStep ==
  IInv /\ IInv' /\ OwnInv /\ TimelyInv /\ CountInv /\ [Next]_vars => CountInv'
<1> SUFFICES ASSUME IInv, IInv', OwnInv, TimelyInv, CountInv, [Next]_vars
             PROVE  CountInv'
  OBVIOUS
<1>1. earned \in Earnings
  BY DEF CountInv
<1>2. earned' \in Earnings /\ EarnedMore
  <2>1. ASSUME earned' = earned
        PROVE  earned' \in Earnings /\ EarnedMore
    BY <1>1, <2>1 DEF EarnedMore, Earnings
  <2>2. ASSUME NEW d \in Devices, (\E w \in Wins : WinGame(d, w)) \/ AbandonGame(d)
        PROVE  earned' \in Earnings /\ EarnedMore
    BY <2>2, WinBacked, AbandonBacked
  <2>3. ASSUME NEW d \in Devices,
               \/ Start(d) \/ ManualSync(d) \/ PollPull(d) \/ PullFails(d)
               \/ Exit(d) \/ Crash(d)
               \/ AnswerPull(d) \/ PushLost(d) \/ LoadRow(d) \/ StoreRow(d) \/ Rank(d)
        PROVE  earned' = earned
    BY <2>3 DEF Start, ManualSync, PollPull, PullFails, Exit, Crash, Closed, AnswerPull,
                PushLost, LoadRow, StoreRow, Rank, rest
  <2>4. OptIn \/ OptInRow \/ OptOut \/ NextDay \/ UNCHANGED vars => earned' = earned
    BY DEF OptIn, OptInRow, OptOut, NextDay, vars, rest
  <2> QED
    BY <2>1, <2>2, <2>3, <2>4 DEF Next
<1>3. /\ \A p \in Good : Backed(p) => Backed(p)'
      /\ Times \subseteq Times' /\ Scores \subseteq Scores'
  BY <1>1, <1>2, StaysBacked
<1>4. \A d \in Devices : profile[d] \in Good /\ Backed(profile[d])
  BY DEF IInv, CountInv
<1>5. ASSUME NEW m \in Payloads'
      PROVE  Backed(m.profile)'
  <2>1. m.profile \in Good
    <3>1. Payloads' \subseteq GoodPayloads
      BY DEF IInv, Pushes, Payloads
    <3> QED
      BY <3>1 DEF GoodPayloads
  <2>2. Backed(m.profile)
    <3>1. CASE m \in Payloads
      BY <3>1 DEF CountInv
    <3>2. CASE m = DefaultPayload
      BY <1>1, <3>2, DefaultBacked DEF DefaultPayload
    <3>3. ASSUME NEW d \in Devices, m = BuildPayload(profile[d]) \/ m = Merged(push[d])
          PROVE  Backed(m.profile)
      BY <1>4, <3>3, MergedBacked DEF BuildPayload
    <3> QED
      BY <3>1, <3>2, <3>3, NewPayloads
  <2>3. PICK p \in Good : p = m.profile
    BY <2>1
  <2>4. Backed(p)'
    BY <1>3, <2>2, <2>3
  <2> QED
    BY <2>3, <2>4
<1>6. ASSUME NEW d \in Devices
      PROVE  Backed(profile[d])'
  <2>1. ASSUME NEW p \in Good, Backed(p), profile'[d] = p
        PROVE  Backed(profile[d])'
    <3>1. Backed(p)'
      BY <1>3, <2>1
    <3> QED
      BY <2>1, <3>1 DEF Backed
  <2>2. CASE profile'[d] = profile[d]
    BY <1>4, <2>1, <2>2
  <2>3. CASE (\E w \in Wins : WinGame(d, w)) \/ AbandonGame(d)
    BY <2>3, WinBacked, AbandonBacked
  <2>4. CASE Start(d)
    <3> DEFINE p == [profile[d] EXCEPT !.progress = RollWeek(@, WeekOf(day))]
    <3>1. profile[d] \in Profiles
      BY <1>4 DEF Good
    <3>2. /\ p.stats = profile[d].stats
          /\ p.progress.total_xp = profile[d].progress.total_xp
          /\ p.progress.challenge_index = profile[d].progress.challenge_index
      BY <3>1 DEF Profiles, Progress, RollWeek
    <3>3. profile'[d] = p /\ p \in Good
      BY <2>4 DEF Start, IInv
    <3> HIDE DEF p
    <3>4. Backed(p)
      BY <1>4, <3>2 DEF Backed
    <3> QED
      BY <2>1, <3>3, <3>4
  <2>5. CASE PollPull(d)
    <3>1. PICK remote \in answer[d] :
            profile' = [profile EXCEPT ![d] = MergeAt(BuildPayload(@), remote).profile]
      BY <2>5 DEF PollPull
    <3>2. /\ remote \in GoodPayloads /\ remote \in Payloads
          /\ BuildPayload(profile[d]) \in GoodPayloads
          /\ BuildPayload(profile[d]).profile = profile[d]
      BY <1>4, BuildPayloadGood DEF IInv, Payloads, BuildPayload
    <3>3. Backed(MergeAt(BuildPayload(profile[d]), remote).profile)
      BY <1>4, <3>2, MergeBacked DEF CountInv
    <3>4. /\ profile'[d] = MergeAt(BuildPayload(profile[d]), remote).profile
          /\ profile'[d] \in Good
      BY <3>1 DEF IInv
    <3>5. PICK p \in Good : p = profile'[d]
      BY <3>4
    <3> QED
      BY <2>1, <3>3, <3>4, <3>5
  <2>6. ASSUME NEW e \in Devices, e # d,
               \/ Start(e) \/ PollPull(e) \/ (\E w \in Wins : WinGame(e, w)) \/ AbandonGame(e)
        PROVE  profile'[d] = profile[d]
    BY <2>6 DEF Start, PollPull, WinGame, AbandonGame, IInv
  <2>7. ASSUME NEW e \in Devices,
               \/ ManualSync(e) \/ PullFails(e) \/ Exit(e) \/ Crash(e)
               \/ AnswerPull(e) \/ PushLost(e) \/ LoadRow(e) \/ StoreRow(e) \/ Rank(e)
        PROVE  profile'[d] = profile[d]
    BY <2>7 DEF ManualSync, PullFails, Exit, Crash, Closed, AnswerPull, PushLost, LoadRow,
                StoreRow, Rank, devs
  <2>8. OptIn \/ OptInRow \/ OptOut \/ NextDay \/ UNCHANGED vars => profile'[d] = profile[d]
    BY DEF OptIn, OptInRow, OptOut, NextDay, devs, vars
  <2> QED
    BY <2>2, <2>3, <2>4, <2>5, <2>6, <2>7, <2>8 DEF Next
<1>7. board'.time \in Times /\ board'.score \in Scores
  <2>1. CASE board' = board
    BY <2>1 DEF CountInv
  <2>2. ASSUME NEW d \in Devices, Rank(d)
        PROVE  board'.time \in Times /\ board'.score \in Scores
    <3>1. Backed(Merged(push[d]).profile) /\ Merged(push[d]).profile.stats \in Stats
      BY MergedBacked, MergedGood DEF IInv, GoodPayloads, Good, Profiles
    <3>2. board' = board \/ board' = Ranked(board, Merged(push[d]).profile.stats)
      BY <2>2 DEF Rank
    <3> QED
      BY <2>1, <3>1, <3>2, RankedBacked DEF Backed
  <2>3. CASE OptInRow
    <3>1. board'.time = board.time /\ board'.score = board.score
      BY <2>3 DEF OptInRow, IInv
    <3> QED
      BY <3>1 DEF CountInv
  <2>4. ASSUME NEW d \in Devices,
               \/ Start(d) \/ ManualSync(d) \/ PollPull(d) \/ PullFails(d)
               \/ \E w \in Wins : WinGame(d, w)
               \/ AbandonGame(d) \/ Exit(d) \/ Crash(d)
               \/ AnswerPull(d) \/ PushLost(d) \/ LoadRow(d) \/ StoreRow(d)
        PROVE  board' = board
    BY <2>4 DEF Start, ManualSync, PollPull, PullFails, WinGame, AbandonGame, Exit, Crash,
                Closed, AnswerPull, PushLost, LoadRow, StoreRow, cloud
  <2>5. OptIn \/ OptOut \/ NextDay \/ UNCHANGED vars => board' = board
    BY DEF OptIn, OptOut, NextDay, vars, cloud
  <2> QED
    BY <2>1, <2>2, <2>3, <2>4, <2>5 DEF Next
<1> QED
  BY <1>2, <1>3, <1>5, <1>6, <1>7 DEF CountInv

(* No order of games, pulls, merges and pushes counts a game, a point or a  *)
(* unit of XP twice (merge.rs takes maxima, never sums), and every record   *)
(* in a copy or on the leaderboard was played, for any set of devices.      *)
THEOREM NothingCountedTwiceCorrect == Spec => []NothingCountedTwice
<1>1. Init => CountInv
  <2> SUFFICES ASSUME Init
               PROVE  CountInv
    OBVIOUS
  <2>1. earned \in Earnings
    BY DEF Init, Earnings
  <2>2. Payloads \subseteq {DefaultPayload} /\ \A d \in Devices : profile[d] = DefaultProfile
    BY DEF Init, Payloads, NoPush
  <2>3. Backed(DefaultProfile)
    BY <2>1, DefaultBacked
  <2>4. board.time \in Times /\ board.score \in Scores
    BY DEF Init, Times, Scores
  <2> QED
    BY <2>1, <2>2, <2>3, <2>4 DEF CountInv, DefaultPayload
<1>2. CountInv => NothingCountedTwice
  BY DEF CountInv, NothingCountedTwice, Copies, Backed, Times, Scores
<1> QED
  BY <1>1, <1>2, CountStep, TimelyAlways, OwnAlways, InductiveInvariant, PTL DEF Spec
=============================================================================
