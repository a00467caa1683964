--------------------------- MODULE AccountProofs ---------------------------
(***************************************************************************)
(* Account keeps its promise for any number of pairs and accounts: every   *)
(* step of it is a step of SessionPromise or leaves session, since and     *)
(* harmed alone.                                                           *)
(***************************************************************************)
EXTENDS Account, TLAPS

\* A pair in the server's table belongs to the account there is, and no pair
\* anywhere is newer than the last one issued or of a later account.
Old(p) == p # None => p.n <= issued /\ p.user <= user

Serials ==
    /\ \A p \in jtis : Known(p.user) /\ p.n <= issued
    /\ Old(key.access) /\ Old(key.refresh)
    /\ \A t \in Tasks : Old(tasks[t].token)
    /\ login.pc = "answer" => /\ Old(login.token)
                              /\ since < login.token.n

\* A new pair on its way to the keychain works.
AnswersLive ==
    ~harmed => \A t \in Tasks :
                 tasks[t].pc \in {"answer", "store"} => tasks[t].token \in jtis

\* A task that has consumed a token and will bring a new one.
Carries(t) ==
    \/ tasks[t].pc = "insert" /\ Known(tasks[t].token.user)
    \/ tasks[t].pc \in {"answer", "store"} /\ tasks[t].token \in jtis

\* The session outlasts the requests under way if each is carried through.
Sound == key.refresh \in jtis \/ \E t \in Tasks : Carries(t)

\* Session is "live".
Usable == key.refresh \in jtis \/ \E t \in Tasks : Rotating(t)

\* Without a fault, a session that still works does not depend on a token that
\* one request holds and another has spent.
Kept == ~harmed /\ backend = "Server" /\ Usable => Sound

\* A step that is no fault takes nothing away from that.
Held == ~harmed' /\ Sound => Sound'

\* The new pair a task brings is nowhere else yet, so nobody can consume it.
Unshared ==
    \A x \in Tasks : tasks[x].pc \in {"answer", "store"} =>
       /\ tasks[x].token # key.refresh
       /\ login.pc = "answer" => tasks[x].token # login.token
       /\ \A y \in Tasks \ {x} : tasks[y].pc \in InRefresh =>
             tasks[y].token # tasks[x].token

\* Which tasks there can be.
Phases ==
    /\ phase = "off" => \A t \in Tasks : tasks[t].pc = "idle"
    /\ phase = "up" => tasks["exit"].pc = "idle"

IInv == TypeOK /\ Serials /\ Unshared /\ Phases /\ AnswersLive /\ Kept

-----------------------------------------------------------------------------

LEMMA PairFacts ==
    \A p \in Pair : p # None /\ p.user \in 1..MaxUsers /\ p.n \in 1..MaxIssued
BY NoneAssumption DEF Pair

\* The field-wise reading of TaskState.
LEMMA TaskFacts ==
    ASSUME TypeOK, NEW t \in Tasks
    PROVE  /\ tasks[t].pc \in Holding \cup {"idle", "begin", "load", "again", "done"}
           /\ tasks[t].token \in Token
           /\ tasks[t].pc \in Holding => tasks[t].token \in Pair
           /\ tasks[t].pc \notin Holding => tasks[t].token = None
BY DEF TypeOK, TaskState, Token, Holding, InRefresh

\* The three kinds of state a task is put into.
LEMMA NewStates ==
    /\ \A pc \in Holding, p \in Pair :
         [pc |-> pc, token |-> p, result |-> "none"] \in TaskState
    /\ \A pc \in {"idle", "begin", "load", "again"} :
         [pc |-> pc, token |-> None, result |-> "none"] \in TaskState
    /\ \A r \in Results : [pc |-> "done", token |-> None, result |-> r] \in TaskState
BY DEF TaskState

\* A step of one task, seen from all.
LEMMA OneTask ==
    ASSUME TypeOK, NEW t \in Tasks, NEW r \in TaskState,
           tasks' = [tasks EXCEPT ![t] = r]
    PROVE  /\ tasks' \in [Tasks -> TaskState]
           /\ tasks'[t] = r
           /\ \A x \in Tasks \ {t} : tasks'[x] = tasks[x]
BY DEF TypeOK

LEMMA InitIInv == Init => IInv
<1> SUFFICES ASSUME Init PROVE IInv
    OBVIOUS
<1>1. Idle \in TaskState /\ [pc |-> "idle", token |-> None] \in LoginState
  BY DEF Idle, TaskState, LoginState
<1>2. NoKey \in [access : Token, refresh : Token]
  BY DEF NoKey, Token
<1>3. tasks \in [Tasks -> TaskState]
  BY <1>1 DEF Init
<1>4. TypeOK
  <2>1. 1 \in 1..MaxUsers /\ 0 \in 0..MaxIssued /\ 0 \in 0..0
    BY BoundsAssumption
  <2> QED
    BY <1>1, <1>2, <1>3, <2>1 DEF Init, TypeOK
<1>5. Serials
  BY DEF Init, Serials, Old, NoKey, Idle
<1>6. Unshared /\ Phases /\ AnswersLive /\ Kept
  BY DEF Init, Unshared, Phases, AnswersLive, Kept, Idle, Tasks
<1> QED
  BY <1>4, <1>5, <1>6 DEF IInv

-----------------------------------------------------------------------------

LEMMA StartedType == Started \in TaskState
BY NewStates DEF Started, Results

\* The steps of a task keep the types.
LEMMA TaskStepType ==
    ASSUME TypeOK, NEW t \in Tasks, TaskStep(t) \/ TaskFault(t)
    PROVE  TypeOK'
<1> DEFINE S(pc, p) == [pc |-> pc, token |-> p, result |-> "none"]
           D == [pc |-> "done", token |-> None, result |-> "ended"]
<1>a. /\ tasks[t].pc \in Holding => tasks[t].token \in Pair
      /\ key \in [access : Token, refresh : Token]
  BY TaskFacts DEF TypeOK
<1>b. D \in TaskState
  BY NewStates DEF Results
<1>c. S("load", None) \in TaskState /\ S("again", None) \in TaskState
  BY NewStates
<1>d. \A p \in Pair : \A pc \in Holding : S(pc, p) \in TaskState
  BY NewStates
<1>e. \A r \in TaskState : tasks' = [tasks EXCEPT ![t] = r] => tasks' \in [Tasks -> TaskState]
  BY OneTask
<1>f. Ended(t) => tasks' \in [Tasks -> TaskState]
  BY <1>b, <1>e DEF Ended
<1>g. ASSUME NEW p \in Pair, NEW pc \in Holding, Goto(t, pc, p)
      PROVE  tasks' \in [Tasks -> TaskState]
  BY <1>d, <1>e, <1>g DEF Goto
<1>h. Goto(t, "load", None) \/ Goto(t, "again", None) => tasks' \in [Tasks -> TaskState]
  BY <1>c, <1>e DEF Goto
<1> HIDE DEF S, D
<1>1. CASE LoadAccess(t)
  <2>1. key.access # None => key.access \in Pair
    BY <1>a DEF Token
  <2>2. {"request", "retry"} \subseteq Holding
    BY DEF Holding
  <2>3. tasks' \in [Tasks -> TaskState]
    BY <1>1, <1>f, <1>g, <2>1, <2>2 DEF LoadAccess
  <2> QED
    BY <1>1, <2>3 DEF LoadAccess, TypeOK, server, history
<1>2. CASE Served(t) \/ RequestFails(t)
  BY <1>2, <1>f DEF Served, RequestFails, TypeOK, server, history
<1>3. CASE Unauthorized(t)
  BY <1>3, <1>f, <1>h DEF Unauthorized, TypeOK, server, history
<1>4. CASE LoadRefresh(t)
  <2>1. key.refresh # None => key.refresh \in Pair
    BY <1>a DEF Token
  <2>2. "select" \in Holding
    BY DEF Holding, InRefresh
  <2>3. tasks' \in [Tasks -> TaskState]
    BY <1>4, <1>f, <1>g, <2>1, <2>2 DEF LoadRefresh
  <2> QED
    BY <1>4, <2>3 DEF LoadRefresh, TypeOK, server, history
<1>5. CASE Select(t)
  <2>1. "select" \in Holding /\ "delete" \in Holding
    BY DEF Holding, InRefresh
  <2>2. tasks' \in [Tasks -> TaskState]
    BY <1>5, <1>a, <1>f, <1>g, <2>1 DEF Select
  <2> QED
    BY <1>5, <2>2 DEF Select, TypeOK, server, history
<1>6. CASE Consume(t)
  <2>1. "delete" \in Holding /\ "insert" \in Holding
    BY DEF Holding, InRefresh
  <2>2. tasks' \in [Tasks -> TaskState]
    BY <1>6, <1>a, <1>g, <2>1 DEF Consume
  <2> QED
    BY <1>6, <2>2 DEF Consume, TypeOK, history
<1>7. CASE Issue(t)
  <2> DEFINE new == [user |-> tasks[t].token.user, n |-> issued + 1]
  <2>1. "insert" \in Holding /\ "answer" \in Holding
    BY DEF Holding, InRefresh
  <2>2. CASE Known(new.user) /\ issued < MaxIssued
    <3>1. new \in Pair
      BY <1>7, <1>a, <2>1, <2>2, BoundsAssumption DEF Issue, Pair, TypeOK
    <3>2. /\ jtis' = jtis \cup {new} /\ issued' = issued + 1 /\ Goto(t, "answer", new)
          /\ UNCHANGED <<phase, backend, key, status, login, user, gone, expired,
                         since, harmed>>
      BY <1>7, <2>2 DEF Issue
    <3>3. tasks' \in [Tasks -> TaskState]
      BY <3>1, <3>2, <1>g, <2>1
    <3>4. jtis' \subseteq Pair /\ issued' \in 0..MaxIssued
          /\ expired' \in 0..issued' /\ since' \in 0..issued'
      BY <3>1, <3>2, <2>2, BoundsAssumption DEF TypeOK
    <3> QED
      BY <3>2, <3>3, <3>4 DEF TypeOK
  <2>3. CASE ~(Known(new.user) /\ issued < MaxIssued)
    <3>1. /\ Ended(t) /\ harmed' \in BOOLEAN
          /\ UNCHANGED <<phase, backend, key, status, login, user, gone, expired,
                         since, jtis, issued>>
      BY <1>7, <2>3 DEF Issue
    <3> QED
      BY <3>1, <1>f DEF TypeOK
  <2> QED
    BY <2>2, <2>3
<1>8. CASE StoreAccess(t)
  <2>1. "answer" \in Holding /\ "store" \in Holding
    BY DEF Holding, InRefresh
  <2>2. tasks' \in [Tasks -> TaskState]
    BY <1>8, <1>a, <1>g, <2>1 DEF StoreAccess
  <2>3. key' \in [access : Token, refresh : Token]
    BY <1>8, <1>a, <2>1 DEF StoreAccess, Token
  <2> QED
    BY <1>8, <2>2, <2>3 DEF StoreAccess, TypeOK, server, history
<1>9. CASE StoreRefresh(t)
  <2>1. "store" \in Holding
    BY DEF Holding, InRefresh
  <2>2. tasks' \in [Tasks -> TaskState]
    BY <1>9, <1>h DEF StoreRefresh
  <2>3. key' \in [access : Token, refresh : Token]
    BY <1>9, <1>a, <2>1 DEF StoreRefresh, Token
  <2> QED
    BY <1>9, <2>2, <2>3 DEF StoreRefresh, TypeOK, server, history
<1>10. CASE DatabaseFails(t)
  BY <1>10, <1>f DEF DatabaseFails, TypeOK, server
<1>11. CASE RefreshFails(t)
  BY <1>11, <1>f DEF RefreshFails, TypeOK
<1>12. CASE KeychainFails(t)
  <2>1. harmed' \in BOOLEAN
    BY <1>12 DEF KeychainFails, TypeOK
  <2> QED
    BY <1>12, <1>f, <2>1 DEF KeychainFails, TypeOK, server
<1> QED
  BY <1>1, <1>2, <1>3, <1>4, <1>5, <1>6, <1>7, <1>8, <1>9, <1>10, <1>11, <1>12
     DEF TaskStep, TaskFault

LEMMA MainThreadType ==
    ASSUME TypeOK, Serials, MainThread PROVE TypeOK'
<1>a. "pull" \in Tasks /\ "upload" \in Tasks /\ "exit" \in Tasks
  BY DEF Tasks
<1>b. Started \in TaskState /\ Idle \in TaskState
      /\ [pc |-> "begin", token |-> None, result |-> "none"] \in TaskState
  BY StartedType, NewStates DEF Idle
<1>c. \A t \in Tasks : \A r \in TaskState :
        tasks' = [tasks EXCEPT ![t] = r] => tasks' \in [Tasks -> TaskState]
  BY OneTask
<1>1. CASE Launch
  BY <1>1, <1>a, <1>b, <1>c DEF Launch, TypeOK, server, history
<1>2. CASE ManualSync
  BY <1>2, <1>a, <1>b, <1>c DEF ManualSync, TypeOK, server, history
<1>3. CASE Upload
  BY <1>3, <1>a, <1>b, <1>c DEF Upload, TypeOK, server, history
<1>4. CASE BeginExit
  BY <1>4, <1>a, <1>b, <1>c DEF BeginExit, TypeOK, server, history
<1>5. CASE PollPull
  BY <1>5, <1>a, <1>b, <1>c DEF PollPull, Shown, TypeOK, server, history
<1>6. CASE PollUpload
  BY <1>6, <1>a, <1>b, <1>c DEF PollUpload, TypeOK, server, history
<1>7. CASE Logout
  <2>1. key' \in [access : Token, refresh : Token]
    BY <1>7 DEF Logout, NoKey, Token, TypeOK
  <2> QED
    BY <1>7, <2>1 DEF Logout, TypeOK, server, history
<1>8. CASE ClickLogin
  BY <1>8 DEF ClickLogin, LoginState, TypeOK, server, history
<1>9. CASE PollLogin
  <2>1. login.token \in Pair
    BY <1>9 DEF PollLogin, TypeOK, LoginState
  <2>2. key' \in [access : Token, refresh : Token]
    BY <1>9, <2>1 DEF PollLogin, Token
  <2>3. tasks' \in [Tasks -> TaskState] /\ status' \in {"Idle", "Syncing", "Reported"}
    BY <1>9, <1>a, <1>b, <1>c DEF PollLogin, TypeOK
  <2>4. login' \in LoginState /\ harmed' \in BOOLEAN
    BY <1>9 DEF PollLogin, LoginState
  <2>5. since' \in 0..issued
    BY <1>9, <2>1, PairFacts DEF PollLogin, Serials, Old, TypeOK
  <2> QED
    BY <1>9, <2>2, <2>3, <2>4, <2>5 DEF PollLogin, TypeOK, server
<1>10. CASE LoginHalfStored
  <2>1. login.token \in Pair
    BY <1>10 DEF LoginHalfStored, TypeOK, LoginState
  <2>2. key' \in [access : Token, refresh : Token] /\ login' \in LoginState
    BY <1>10, <2>1 DEF LoginHalfStored, Token, TypeOK, LoginState
  <2> QED
    BY <1>10, <2>2 DEF LoginHalfStored, TypeOK, server, history
<1> QED
  BY <1>1, <1>2, <1>3, <1>4, <1>5, <1>6, <1>7, <1>8, <1>9, <1>10 DEF MainThread

LEMMA ElsewhereType ==
    ASSUME TypeOK, Elsewhere \/ Exit PROVE TypeOK'
<1>1. CASE Authenticate
  <2> DEFINE new == [user |-> user', n |-> issued']
  <2>1. user' \in 1..MaxUsers /\ gone' \in BOOLEAN /\ issued' \in 1..MaxIssued
    <3>1. issued' \in 1..MaxIssued
      BY <1>1, BoundsAssumption DEF Authenticate, TypeOK
    <3>2. CASE gone
      <4>1. user < MaxUsers /\ user' = user + 1 /\ gone' = FALSE
        BY <1>1, <3>2 DEF Authenticate
      <4>2. user' \in 1..MaxUsers
        BY <4>1, BoundsAssumption DEF TypeOK
      <4> QED
        BY <4>1, <4>2, <3>1
    <3>3. CASE ~gone
      <4>1. UNCHANGED <<user, gone>>
        BY <1>1, <3>3 DEF Authenticate
      <4> QED
        BY <4>1, <3>1 DEF TypeOK
    <3> QED
      BY <3>2, <3>3
  <2>2. new \in Pair
    BY <2>1 DEF Pair
  <2>3. jtis' = jtis \cup {new} /\ login' = [pc |-> "answer", token |-> new]
    BY <1>1 DEF Authenticate
  <2>4. jtis' \subseteq Pair /\ login' \in LoginState
    BY <2>2, <2>3 DEF TypeOK, LoginState
  <2>5. expired' \in 0..issued' /\ since' \in 0..issued'
    BY <1>1, BoundsAssumption DEF Authenticate, TypeOK, history
  <2> QED
    BY <1>1, <2>1, <2>4, <2>5, BoundsAssumption DEF Authenticate, TypeOK, history
<1>2. CASE LoginFails
  BY <1>2 DEF LoginFails, LoginState, TypeOK, server, history
<1>3. CASE Exit \/ Kill
  <2>1. Idle \in TaskState /\ [pc |-> "idle", token |-> None] \in LoginState
    BY NewStates DEF Idle, LoginState
  <2>2. ProcessEnds /\ harmed' \in BOOLEAN
    BY <1>3 DEF Exit, Kill, TypeOK
  <2>3. tasks' \in [Tasks -> TaskState] /\ jtis' \subseteq Pair
    BY <2>1, <2>2 DEF ProcessEnds, TypeOK
  <2> QED
    BY <2>1, <2>2, <2>3 DEF ProcessEnds, TypeOK
<1>4. CASE AccessExpires
  BY <1>4, BoundsAssumption DEF AccessExpires, TypeOK, client, history
<1>5. CASE RefreshExpires
  BY <1>5 DEF RefreshExpires, TypeOK, client
<1>6. CASE DeletedElsewhere
  BY <1>6 DEF DeletedElsewhere, TypeOK, client
<1> QED
  BY <1>1, <1>2, <1>3, <1>4, <1>5, <1>6 DEF Elsewhere

LEMMA TypeStep == TypeOK /\ Serials /\ [Next]_vars => TypeOK'
<1> SUFFICES ASSUME TypeOK, Serials, [Next]_vars PROVE TypeOK'
    OBVIOUS
<1>1. CASE UNCHANGED vars
  BY <1>1 DEF vars, client, server, history, TypeOK
<1>2. CASE Next
  BY <1>2, TaskStepType, MainThreadType, ElsewhereType DEF Next
<1> QED
  BY <1>1, <1>2

-----------------------------------------------------------------------------

\* A step of one task that ends outside the refresh: nothing that works is
\* lost, unless by a fault, and nothing that does not begins to.
LEMMA Quiet ==
    ASSUME IInv, TypeOK', NEW t \in Tasks, NEW r \in TaskState,
           tasks' = [tasks EXCEPT ![t] = r],
           r.pc \notin InRefresh, Old(r.token),
           jtis' \subseteq jtis,
           UNCHANGED <<key, backend, login, user, gone, issued, since>>,
           harmed' \/ (jtis' = jtis /\ harmed' = harmed /\ ~Carries(t))
    PROVE  Serials' /\ Unshared' /\ AnswersLive' /\ Held /\ (Usable' => Usable)
<1>1. tasks'[t] = r /\ \A x \in Tasks \ {t} : tasks'[x] = tasks[x]
  BY OneTask DEF IInv
<1>2. r.pc \notin {"select", "delete", "insert", "answer", "store"}
  BY DEF InRefresh
<1>3. Serials'
  BY <1>1 DEF IInv, Serials, Old, Known
<1>4. Unshared' /\ AnswersLive'
  BY <1>1, <1>2 DEF IInv, Unshared, AnswersLive, InRefresh
<1>5. Held
  <2> SUFFICES ASSUME ~harmed', Sound
               PROVE  (key.refresh \in jtis)' \/ \E x \in Tasks : Carries(x)'
    BY DEF Held, Sound
  <2>1. jtis' = jtis /\ ~Carries(t)
    OBVIOUS
  <2>2. key.refresh \in jtis \/ \E x \in Tasks : Carries(x)
    BY DEF Sound
  <2>3. \A x \in Tasks \ {t} : Carries(x) => Carries(x)'
    BY <1>1, <2>1 DEF Carries, Known
  <2> QED
    BY <2>1, <2>2, <2>3
<1>6. Usable' => Usable
  <2>1. \A x \in Tasks \ {t} : Rotating(x)' => Rotating(x)
    BY <1>1 DEF Rotating, Known
  <2>2. ~Rotating(t)'
    BY <1>1, <1>2 DEF Rotating
  <2> QED
    BY <2>1, <2>2 DEF Usable
<1> QED
  BY <1>3, <1>4, <1>5, <1>6

\* A step of one task that ends inside it, the table unchanged.
LEMMA Moving ==
    ASSUME IInv, TypeOK', NEW t \in Tasks, NEW r \in TaskState,
           tasks' = [tasks EXCEPT ![t] = r],
           Old(r.token),
           UNCHANGED <<key, backend, login, user, gone, issued, since, harmed, jtis>>,
           r.pc \in InRefresh => \A x \in Tasks \ {t} :
              tasks[x].pc \in {"answer", "store"} => tasks[x].token # r.token,
           r.pc \notin {"answer", "store"},
           Carries(t) => Carries(t)',
           Rotating(t)' => Usable
    PROVE  Serials' /\ Unshared' /\ AnswersLive' /\ Held /\ (Usable' => Usable)
<1>1. tasks'[t] = r /\ \A x \in Tasks \ {t} : tasks'[x] = tasks[x]
  BY OneTask DEF IInv
<1>3. Serials'
  BY <1>1 DEF IInv, Serials, Old, Known
<1>4. Unshared' /\ AnswersLive'
  BY <1>1 DEF IInv, Unshared, AnswersLive
<1>5. Held
  <2>3. \A x \in Tasks \ {t} : Carries(x) => Carries(x)'
    BY <1>1 DEF Carries, Known
  <2> QED
    BY <2>3 DEF Held, Sound
<1>6. Usable' => Usable
  <2>1. \A x \in Tasks \ {t} : Rotating(x)' => Rotating(x)
    BY <1>1 DEF Rotating, Known
  <2> QED
    BY <2>1 DEF Usable
<1> QED
  BY <1>3, <1>4, <1>5, <1>6

LEMMA TaskStepKeeps ==
    ASSUME IInv, TypeOK', NEW t \in Tasks, TaskStep(t) \/ TaskFault(t)
    PROVE  Serials' /\ Unshared' /\ AnswersLive' /\ Held /\ (Usable' => Usable)
<1> DEFINE S(pc, p) == [pc |-> pc, token |-> p, result |-> "none"]
           D == [pc |-> "done", token |-> None, result |-> "ended"]
<1>a. /\ D \in TaskState /\ D.pc \notin InRefresh /\ Old(D.token)
      /\ \A pc \in {"load", "again"} :
           S(pc, None) \in TaskState /\ S(pc, None).pc \notin InRefresh /\ Old(S(pc, None).token)
  BY NewStates DEF Results, InRefresh, Old
<1>b. \A pc \in Holding : \A p \in Pair : S(pc, p) \in TaskState /\ S(pc, p).pc = pc /\ S(pc, p).token = p
  BY NewStates
<1>c. /\ Ended(t) => tasks' = [tasks EXCEPT ![t] = D]
      /\ \A pc, p : Goto(t, pc, p) => tasks' = [tasks EXCEPT ![t] = S(pc, p)]
  BY DEF Ended, Goto
<1>d. /\ tasks[t].pc \in Holding => tasks[t].token \in Pair
      /\ Old(tasks[t].token) /\ Old(key.access) /\ Old(key.refresh)
      /\ key.access \in Token /\ key.refresh \in Token
  BY TaskFacts DEF IInv, Serials, TypeOK
<1>e. /\ \A pc \in {"request", "retry", "select", "delete", "insert", "answer", "store"} : pc \in Holding
      /\ \A pc \in {"request", "retry"} : pc \notin InRefresh
  BY DEF Holding, InRefresh
<1>f. ASSUME tasks' = [tasks EXCEPT ![t] = D], jtis' \subseteq jtis,
             UNCHANGED <<key, backend, login, user, gone, issued, since>>,
             harmed' \/ (jtis' = jtis /\ harmed' = harmed /\ ~Carries(t))
      PROVE  Serials' /\ Unshared' /\ AnswersLive' /\ Held /\ (Usable' => Usable)
  <2> HIDE DEF D
  <2> QED
    BY <1>a, <1>f, Quiet
<1>g. ASSUME NEW pc \in {"load", "again"}, Goto(t, pc, None), ~Carries(t),
             UNCHANGED <<key, backend, login, user, gone, issued, since, jtis, harmed>>
      PROVE  Serials' /\ Unshared' /\ AnswersLive' /\ Held /\ (Usable' => Usable)
  <2>1. tasks' = [tasks EXCEPT ![t] = S(pc, None)]
    BY <1>c, <1>g
  <2> HIDE DEF S
  <2> QED
    BY <1>a, <1>g, <2>1, Quiet
<1>h. ASSUME NEW pc \in Holding, NEW p \in Pair, Goto(t, pc, p), Old(p),
             UNCHANGED <<key, backend, login, user, gone, issued, since, harmed, jtis>>,
             pc \in InRefresh => \A x \in Tasks \ {t} :
                tasks[x].pc \in {"answer", "store"} => tasks[x].token # p,
             pc \notin {"answer", "store"},
             Carries(t) => Carries(t)',
             Rotating(t)' => Usable
      PROVE  Serials' /\ Unshared' /\ AnswersLive' /\ Held /\ (Usable' => Usable)
  <2>1. tasks' = [tasks EXCEPT ![t] = S(pc, p)]
    BY <1>c, <1>h
  <2>2. S(pc, p) \in TaskState /\ S(pc, p).pc = pc /\ S(pc, p).token = p
    BY <1>b
  <2> HIDE DEF S
  <2> QED
    BY <1>h, <2>1, <2>2, Moving
<1> HIDE DEF S, D
<1>1. CASE LoadAccess(t)
  <2>1. UNCHANGED <<key, backend, login, user, gone, issued, since, harmed, jtis>> /\ ~Carries(t)
    BY <1>1 DEF LoadAccess, server, history, Carries
  <2>2. CASE key.access = None
    BY <1>1, <1>c, <1>f, <2>1, <2>2 DEF LoadAccess
  <2>3. CASE key.access # None
    <3> DEFINE pc == IF tasks[t].pc = "begin" THEN "request" ELSE "retry"
    <3>1. pc \in Holding /\ pc \in {"request", "retry"} /\ key.access \in Pair
      BY <1>d, <1>e, <2>3 DEF Token
    <3>2. Goto(t, pc, key.access)
      BY <1>1, <2>3 DEF LoadAccess
    <3>3. ~Rotating(t)'
      BY <3>1, <3>2, OneTask, NewStates DEF Rotating, Goto, IInv
    <3>4. pc \notin InRefresh /\ pc \notin {"answer", "store"}
      BY <1>e, <3>1
    <3> HIDE DEF pc
    <3> QED
      BY <1>d, <1>h, <2>1, <3>1, <3>2, <3>3, <3>4
  <2> QED
    BY <2>2, <2>3
<1>2. CASE Served(t) \/ RequestFails(t)
  BY <1>2, <1>c, <1>f DEF Served, RequestFails, server, history, Carries
<1>3. CASE Unauthorized(t)
  <2>1. UNCHANGED <<key, backend, login, user, gone, issued, since, harmed, jtis>> /\ ~Carries(t)
    BY <1>3 DEF Unauthorized, server, history, Carries
  <2>2. Goto(t, "load", None) \/ Ended(t)
    BY <1>3 DEF Unauthorized
  <2> QED
    BY <1>c, <1>f, <1>g, <2>1, <2>2
<1>4. CASE LoadRefresh(t)
  <2>1. UNCHANGED <<key, backend, login, user, gone, issued, since, harmed, jtis>> /\ ~Carries(t)
    BY <1>4 DEF LoadRefresh, server, history, Carries
  <2>2. CASE key.refresh = None
    BY <1>4, <1>c, <1>f, <2>1, <2>2 DEF LoadRefresh
  <2>3. CASE key.refresh # None
    <3>1. key.refresh \in Pair /\ "select" \in Holding
      BY <1>d, <1>e, <2>3 DEF Token
    <3>2. Goto(t, "select", key.refresh)
      BY <1>4, <2>3 DEF LoadRefresh
    <3>3. tasks'[t].pc = "select" /\ tasks'[t].token = key.refresh
      BY <3>1, <3>2, OneTask, NewStates DEF Goto, IInv
    <3>4. Rotating(t)' => Usable
      BY <2>1, <3>3 DEF Rotating, Usable
    <3>5. \A x \in Tasks \ {t} :
             tasks[x].pc \in {"answer", "store"} => tasks[x].token # key.refresh
      BY DEF IInv, Unshared
    <3> QED
      BY <1>d, <1>h, <2>1, <3>1, <3>2, <3>4, <3>5
  <2> QED
    BY <2>2, <2>3
<1>5. CASE Select(t)
  <2>1. UNCHANGED <<key, backend, login, user, gone, issued, since, harmed, jtis>> /\ ~Carries(t)
    BY <1>5 DEF Select, server, history, Carries
  <2>2. CASE tasks[t].token \notin jtis
    BY <1>5, <1>c, <1>f, <2>1, <2>2 DEF Select
  <2>3. CASE tasks[t].token \in jtis
    <3>1. Rotating(t)
      BY <1>5, <2>3 DEF Select, Rotating
    <3>2. tasks[t].token \in Pair /\ "delete" \in Holding
      BY <1>5, <1>d, <1>e DEF Select
    <3>3. Goto(t, "delete", tasks[t].token)
      BY <1>5, <2>3 DEF Select
    <3>4. \A x \in Tasks \ {t} :
             tasks[x].pc \in {"answer", "store"} => tasks[x].token # tasks[t].token
      BY <1>5 DEF Select, IInv, Unshared, InRefresh
    <3> QED
      BY <1>d, <1>h, <2>1, <3>1, <3>2, <3>3, <3>4 DEF Usable
  <2> QED
    BY <2>2, <2>3
<1>6. CASE StoreAccess(t)
  <2>1. UNCHANGED <<backend, login, user, gone, issued, since, harmed, jtis>>
        /\ key'.refresh = key.refresh /\ key'.access = tasks[t].token
    BY <1>6 DEF StoreAccess, server, history, IInv, TypeOK
  <2>2. tasks'[t].pc = "store" /\ tasks'[t].token = tasks[t].token
        /\ \A x \in Tasks \ {t} : tasks'[x] = tasks[x]
    BY <1>6, <1>b, <1>d, <1>e, <1>c, OneTask DEF StoreAccess, IInv
  <2>3. Serials' /\ AnswersLive' /\ Unshared'
    <3>1. Serials' /\ AnswersLive'
      BY <1>6, <1>d, <2>1, <2>2 DEF StoreAccess, IInv, Serials, AnswersLive, Old, Known
    <3>2. Unshared'
      BY <1>6, <2>1, <2>2 DEF StoreAccess, IInv, Unshared, InRefresh
    <3> QED
      BY <3>1, <3>2
  <2>4. \A x \in Tasks : Carries(x) => Carries(x)'
    BY <1>6, <2>1, <2>2 DEF StoreAccess, Carries, Known
  <2>5. \A x \in Tasks : Rotating(x)' => Rotating(x)
    BY <1>6, <2>1, <2>2 DEF StoreAccess, Rotating, Known
  <2> QED
    BY <2>1, <2>3, <2>4, <2>5 DEF Held, Sound, Usable
<1>7. CASE StoreRefresh(t)
  <2>1. UNCHANGED <<backend, login, user, gone, issued, since, harmed, jtis>>
        /\ key'.access = key.access /\ key'.refresh = tasks[t].token
    BY <1>7 DEF StoreRefresh, server, history, IInv, TypeOK
  <2>2. tasks'[t].pc = "again" /\ tasks'[t].token = None
        /\ \A x \in Tasks \ {t} : tasks'[x] = tasks[x]
    BY <1>7, NewStates, OneTask DEF StoreRefresh, Goto, IInv
  <2>3. Serials' /\ AnswersLive' /\ Unshared'
    <3>1. Serials' /\ AnswersLive'
      BY <1>7, <1>d, <2>1, <2>2 DEF StoreRefresh, IInv, Serials, AnswersLive, Old, Known
    <3>2. Unshared'
      BY <1>7, <2>1, <2>2 DEF StoreRefresh, IInv, Unshared, InRefresh
    <3> QED
      BY <3>1, <3>2
  <2>4. ~harmed => tasks[t].token \in jtis
    BY <1>7 DEF StoreRefresh, IInv, AnswersLive
  <2>5. \A x \in Tasks : Rotating(x)' => Rotating(x)
    BY <1>7, <2>1, <2>2 DEF StoreRefresh, Rotating, Known
  <2>6. tasks[t].token \in jtis => Rotating(t)
    BY <1>7 DEF StoreRefresh, Rotating
  <2> QED
    BY <2>1, <2>3, <2>4, <2>5, <2>6 DEF Held, Sound, Usable
<1>8. CASE Consume(t)
  <2>1. UNCHANGED <<key, backend, login, user, gone, issued, since, harmed>>
        /\ jtis' = jtis \ {tasks[t].token}
    BY <1>8 DEF Consume, history
  <2>2. tasks'[t].pc = "insert" /\ tasks'[t].token = tasks[t].token
        /\ \A x \in Tasks \ {t} : tasks'[x] = tasks[x]
    BY <1>8, <1>b, <1>d, <1>e, <1>c, OneTask DEF Consume, IInv
  <2>3. Serials'
    BY <2>1, <2>2 DEF IInv, Serials, Old, Known
  <2>4. \A x \in Tasks \ {t} :
           tasks[x].pc \in {"answer", "store"} => tasks[x].token # tasks[t].token
    BY <1>8 DEF Consume, IInv, Unshared, InRefresh
  <2>5. Unshared' /\ AnswersLive'
    BY <1>8, <2>1, <2>2, <2>4 DEF Consume, IInv, Unshared, AnswersLive, InRefresh
  <2>6. \A x \in Tasks \ {t} : Carries(x) => Carries(x)'
    BY <2>1, <2>2, <2>4 DEF Carries, Known
  <2>7. tasks[t].token \in jtis => Carries(t)'
    BY <2>1, <2>2 DEF Carries, Known, IInv, Serials
  <2>8. tasks[t].token \notin jtis => jtis' = jtis
    BY <2>1
  <2>9. ~Carries(t)
    BY <1>8 DEF Consume, Carries
  <2>10. Held
    BY <2>1, <2>6, <2>7, <2>8, <2>9 DEF Held, Sound
  <2>11. \A x \in Tasks : Rotating(x)' => Rotating(x)
    BY <1>8, <2>1, <2>2 DEF Consume, Rotating, Known
  <2> QED
    BY <2>1, <2>3, <2>5, <2>10, <2>11 DEF Usable
<1>9. CASE Issue(t)
  <2> DEFINE new == [user |-> tasks[t].token.user, n |-> issued + 1]
  <2>1. UNCHANGED <<key, backend, login, user, gone, since>> /\ tasks[t].pc = "insert"
        /\ new.user = tasks[t].token.user /\ new.n = issued + 1
    BY <1>9 DEF Issue
  <2>2. CASE Known(new.user) /\ issued < MaxIssued
    <3>1. jtis' = jtis \cup {new} /\ issued' = issued + 1 /\ harmed' = harmed
          /\ Goto(t, "answer", new)
      BY <1>9, <2>2 DEF Issue
    <3>2. new \in Pair /\ "answer" \in Holding
      <4>1. tasks[t].token \in Pair
        BY <2>1, <1>d, <1>e
      <4> QED
        BY <4>1, <2>2, <1>e, BoundsAssumption DEF Pair, IInv, TypeOK
    <3>a. PICK q \in Pair : q = new
      BY <3>2
    <3>b. /\ jtis' = jtis \cup {q} /\ Goto(t, "answer", q)
          /\ q.user = tasks[t].token.user /\ q.n = issued + 1 /\ Known(q.user)
      BY <2>1, <2>2, <3>1, <3>a
    <3> HIDE DEF new
    <3>3. tasks'[t].pc = "answer" /\ tasks'[t].token = q
          /\ \A x \in Tasks \ {t} : tasks'[x] = tasks[x]
      BY <1>b, <1>c, <3>b, <3>2, OneTask DEF IInv
    <3>4. issued \in Nat /\ user \in Nat /\ since \in Nat
      BY BoundsAssumption DEF IInv, TypeOK
    <3>5. \A p \in Pair : Old(p) => p # q
      BY <3>b, <3>4, PairFacts DEF Old
    <3>6. /\ \A p \in jtis : p # q
          /\ key.refresh # q
          /\ login.pc = "answer" => login.token # q
          /\ \A x \in Tasks : tasks[x].pc \in Holding => tasks[x].token # q
      <4>1. \A p \in jtis : p \in Pair /\ Old(p)
        BY DEF IInv, TypeOK, Serials, Old, Known
      <4>2. login.pc = "answer" => login.token \in Pair /\ Old(login.token)
        BY DEF IInv, TypeOK, LoginState, Serials
      <4>3. \A x \in Tasks : tasks[x].pc \in Holding =>
               tasks[x].token \in Pair /\ Old(tasks[x].token)
        BY TaskFacts DEF IInv, Serials
      <4>4. key.refresh = None \/ key.refresh \in Pair
        BY <1>d DEF Token
      <4>5. None # q
        BY NoneAssumption
      <4> QED
        BY <3>5, <4>1, <4>2, <4>3, <4>4, <4>5, <1>d
    <3>7. Serials'
      <4>0. \A p : Old(p) /\ p \in Token => Old(p)'
        BY <2>1, <3>1, <3>4, PairFacts DEF Old, Token
      <4>1. Old(q)'
        BY <2>1, <3>1, <3>4, <3>b DEF Old, Known
      <4>2. \A p \in jtis' : Known(p.user)' /\ (p.n <= issued)'
        BY <2>1, <3>1, <3>4, <3>b, PairFacts DEF Known, IInv, Serials, TypeOK
      <4>3. \A x \in Tasks : (Old(tasks[x].token))'
        <5>1. \A x \in Tasks : Old(tasks[x].token) /\ tasks[x].token \in Token
          BY TaskFacts DEF IInv, Serials
        <5>2. \A x \in Tasks \ {t} : (Old(tasks[x].token))'
          BY <3>3, <4>0, <5>1 DEF Old
        <5>3. (Old(tasks[t].token))'
          BY <3>3, <4>1 DEF Old
        <5> QED
          BY <5>2, <5>3
      <4>4. (Old(key.access) /\ Old(key.refresh))'
        BY <2>1, <4>0, <1>d
      <4>5. (login.pc = "answer" => Old(login.token) /\ since < login.token.n)'
        BY <2>1, <4>0 DEF IInv, Serials, TypeOK, LoginState, Token
      <4> QED
        BY <4>2, <4>3, <4>4, <4>5 DEF Serials
    <3>8. Unshared' /\ AnswersLive'
      <4>1. \A pc \in InRefresh : pc \in Holding
        BY DEF Holding
      <4>2. \A x \in Tasks : tasks[x].pc \in {"answer", "store"} => tasks[x].pc \in Holding
        BY <1>e
      <4>3. Unshared'
        BY <2>1, <3>3, <3>6, <4>1, <4>2 DEF IInv, Unshared
      <4>4. AnswersLive'
        BY <3>1, <3>3, <3>b DEF IInv, AnswersLive
      <4> QED
        BY <4>3, <4>4
    <3>9. \A x \in Tasks : Carries(x) => Carries(x)'
      BY <2>1, <3>1, <3>3, <3>b DEF Carries, Known
    <3>10. \A x \in Tasks \ {t} : Rotating(x)' => Rotating(x)
      <4>1. \A x \in Tasks : tasks[x].pc \in {"select", "answer", "store"} => tasks[x].token # q
        BY <1>e, <3>6
      <4> QED
        BY <2>1, <3>1, <3>3, <3>b, <4>1 DEF Rotating, Known
    <3>11. Rotating(t)
      BY <2>1, <3>b DEF Rotating
    <3>12. Held
      BY <2>1, <3>1, <3>9, <3>b DEF Held, Sound
    <3>13. Usable' => Usable
      BY <3>11 DEF Usable
    <3> QED
      BY <3>7, <3>8, <3>12, <3>13
  <2>3. CASE ~(Known(new.user) /\ issued < MaxIssued)
    <3>1. Ended(t) /\ UNCHANGED <<jtis, issued>>
          /\ harmed' = (harmed \/ Known(new.user))
      BY <1>9, <2>3 DEF Issue
    <3>2. ~Known(new.user) => ~Carries(t) /\ harmed' = harmed
      BY <2>1, <3>1 DEF Carries, IInv, TypeOK
    <3>3. Known(new.user) => harmed'
      BY <3>1
    <3> QED
      BY <1>c, <1>f, <2>1, <3>1, <3>2, <3>3
  <2> QED
    BY <2>2, <2>3
<1>10. CASE DatabaseFails(t)
  BY <1>10, <1>c, <1>f DEF DatabaseFails, server
<1>11. CASE RefreshFails(t)
  BY <1>11, <1>c, <1>f DEF RefreshFails
<1>12. CASE KeychainFails(t)
  <2>1. Ended(t) /\ UNCHANGED <<phase, backend, key, status, login, server, since>>
        /\ harmed' = (harmed \/ Refreshing(t))
        /\ tasks[t].pc \in {"begin", "again", "load", "answer", "store"}
    BY <1>12 DEF KeychainFails
  <2>2. ~Refreshing(t) => ~Carries(t) /\ harmed' = harmed
    BY <2>1 DEF Carries, Refreshing, InRefresh, IInv, TypeOK
  <2>3. Refreshing(t) => harmed'
    BY <2>1
  <2> QED
    BY <1>c, <1>f, <2>1, <2>2, <2>3 DEF server
<1> QED
  BY <1>1, <1>2, <1>3, <1>4, <1>5, <1>6, <1>7, <1>8, <1>9, <1>10, <1>11, <1>12
     DEF TaskStep, TaskFault

-----------------------------------------------------------------------------

LEMMA PhasesStep == IInv /\ [Next]_vars => Phases'
<1> SUFFICES ASSUME IInv, [Next]_vars PROVE Phases'
    OBVIOUS
<1>1. CASE UNCHANGED vars
  BY <1>1 DEF vars, client, IInv, Phases
<1>2. ASSUME NEW t \in Tasks, TaskStep(t) \/ TaskFault(t) PROVE Phases'
  <2>1. tasks[t].pc # "idle" /\ phase' = phase
    BY <1>2 DEF TaskStep, TaskFault, LoadAccess, Served, Unauthorized, LoadRefresh, Select,
       Consume, Issue, StoreAccess, StoreRefresh, RequestFails, DatabaseFails, RefreshFails,
       KeychainFails
  <2>2. \A x \in Tasks \ {t} : tasks'[x] = tasks[x]
    BY <1>2 DEF TaskStep, TaskFault, LoadAccess, Served, Unauthorized, LoadRefresh, Select,
       Consume, Issue, StoreAccess, StoreRefresh, RequestFails, DatabaseFails, RefreshFails,
       KeychainFails, Goto, Ended, IInv, TypeOK
  <2>3. phase \in {"off", "up", "exiting"} /\ "exit" \in Tasks
    BY DEF IInv, TypeOK, Tasks
  <2> QED
    BY <2>1, <2>2, <2>3 DEF IInv, Phases
<1>3. CASE MainThread
  <2>1. "exit" \in Tasks /\ "pull" # "exit" /\ "upload" # "exit"
    BY DEF Tasks
  <2>2. CASE BeginExit
    BY <2>2 DEF BeginExit, Phases
  <2>3. CASE ~BeginExit
    <3>1. phase' = "up" /\ (phase = "up" \/ phase = "off")
      BY <1>3, <2>3 DEF MainThread, Launch, ManualSync, Upload, PollPull, PollUpload, Logout,
         ClickLogin, PollLogin, LoginHalfStored
    <3>2. tasks'["exit"] = tasks["exit"]
      BY <1>3, <2>1, <2>3 DEF MainThread, Launch, ManualSync, Upload, PollPull, PollUpload, Logout,
         ClickLogin, PollLogin, LoginHalfStored, IInv, TypeOK
    <3> QED
      BY <2>1, <3>1, <3>2 DEF IInv, Phases
  <2> QED
    BY <2>2, <2>3
<1>4. CASE Exit \/ Elsewhere
  <2>1. CASE ProcessEnds
    BY <2>1 DEF ProcessEnds, Phases, Idle
  <2>2. CASE ~ProcessEnds
    <3>1. UNCHANGED <<phase, tasks>>
      BY <1>4, <2>2 DEF Elsewhere, Exit, Kill, Authenticate, LoginFails, AccessExpires,
         RefreshExpires, DeletedElsewhere, client
    <3> QED
      BY <3>1 DEF IInv, Phases
  <2> QED
    BY <2>1, <2>2
<1> QED
  BY <1>1, <1>2, <1>3, <1>4 DEF Next

\* A step of the main thread that starts a task or takes its result.
LEMMA MainThreadKeeps ==
    ASSUME IInv, TypeOK', MainThread, ~Logout, ~PollLogin
    PROVE  /\ Serials' /\ Unshared' /\ AnswersLive' /\ Held /\ (Usable' => Usable)
           /\ UNCHANGED <<backend, since, harmed>>
<1>a. "pull" \in Tasks /\ "upload" \in Tasks /\ "exit" \in Tasks
  BY DEF Tasks
<1>b. \A r \in {Started, Idle} : r \in TaskState /\ r.pc \notin InRefresh /\ r.token = None
  BY StartedType, NewStates DEF Started, Idle, InRefresh
<1>c. Old(None)
  BY DEF Old
<1>1. CASE ClickLogin
  BY <1>1 DEF ClickLogin, server, history, IInv, Serials, Unshared, AnswersLive, Held, Sound,
     Carries, Usable, Rotating, Old, Known
<1>2. ASSUME NEW t \in Tasks, NEW r \in {Started, Idle}, tasks' = [tasks EXCEPT ![t] = r],
             UNCHANGED <<key, backend, login, server, history>>,
             ~Refreshing(t)
      PROVE  Serials' /\ Unshared' /\ AnswersLive' /\ Held /\ (Usable' => Usable)
  <2>1. ~Carries(t)
    BY <1>2 DEF Refreshing, Carries, InRefresh
  <2> QED
    BY <1>b, <1>c, <1>2, <2>1, Quiet DEF server, history
<1>3. CASE Launch
  BY <1>3, <1>a, <1>2 DEF Launch, IInv, Phases, Refreshing, InRefresh, history
<1>4. CASE ManualSync
  BY <1>4, <1>a, <1>2 DEF ManualSync, Busy, Refreshing, InRefresh, history
<1>5. CASE Upload
  BY <1>5, <1>a, <1>2 DEF Upload, Busy, Refreshing, InRefresh, history
<1>6. CASE BeginExit
  BY <1>6, <1>a, <1>2 DEF BeginExit, IInv, Phases, Refreshing, InRefresh, history
<1>7. CASE PollPull
  BY <1>7, <1>a, <1>2 DEF PollPull, Refreshing, InRefresh, history
<1>8. CASE PollUpload
  BY <1>8, <1>a, <1>2 DEF PollUpload, Refreshing, InRefresh, history
<1>9. CASE LoginHalfStored
  <2>1. /\ key'.access = login.token /\ key'.refresh = key.refresh
        /\ login.pc = "answer" /\ login'.pc = "idle"
        /\ UNCHANGED <<phase, backend, status, tasks, server, history>>
    BY <1>9 DEF LoginHalfStored, IInv, TypeOK
  <2>2. Serials'
    BY <2>1 DEF server, history, IInv, Serials, Old, Known
  <2>3. Unshared' /\ AnswersLive'
    BY <2>1 DEF server, history, IInv, Unshared, AnswersLive
  <2>4. Held /\ (Usable' => Usable)
    BY <2>1 DEF server, history, Held, Sound, Carries, Usable, Rotating, Known
  <2> QED
    BY <2>1, <2>2, <2>3, <2>4 DEF history
<1> QED
  BY <1>1, <1>3, <1>4, <1>5, <1>6, <1>7, <1>8, <1>9 DEF MainThread

LEMMA LogoutKeeps ==
    ASSUME IInv, Logout
    PROVE  Serials' /\ Unshared' /\ AnswersLive' /\ Kept'
<1>1. \A x \in Tasks : tasks[x].pc \in {"answer", "store"} => tasks[x].token # None
  BY TaskFacts, PairFacts DEF IInv, Holding, InRefresh
<1> QED
  <2>1. /\ key'.access \in {None, key.access} /\ key'.refresh \in {None, key.refresh}
        /\ backend' = "Local"
        /\ UNCHANGED <<phase, status, login, tasks, server, history>>
    BY DEF Logout, NoKey, IInv, TypeOK
  <2>2. Serials'
    BY <2>1 DEF server, history, IInv, Serials, Old, Known
  <2>3. Unshared' /\ AnswersLive' /\ Kept'
    BY <1>1, <2>1 DEF server, history, IInv, Unshared, AnswersLive, Kept
  <2> QED
    BY <2>2, <2>3

LEMMA PollLoginKeeps ==
    ASSUME IInv, TypeOK', PollLogin
    PROVE  /\ Serials' /\ Unshared' /\ AnswersLive' /\ Kept'
           /\ since' > since /\ backend' = "Server"
           /\ ~harmed' => Usable'
<1>1. /\ key'.access = login.token /\ key'.refresh = login.token
      /\ login.pc = "answer" /\ login'.pc = "idle"
      /\ backend' = "Server" /\ since' = login.token.n
      /\ UNCHANGED <<user, gone, jtis, expired, issued>>
      /\ harmed' = (login.token \notin jtis \/ StaleAnswer)
  BY DEF PollLogin, server
<1>2. \A x \in Tasks : \/ tasks'[x] = tasks[x]
                       \/ tasks'[x].pc = "begin" /\ tasks'[x].token = None
  <2>1. CASE Busy("pull")
    BY <2>1 DEF PollLogin
  <2>2. CASE ~Busy("pull")
    <3>1. tasks' = [tasks EXCEPT !["pull"] = [pc |-> "begin", token |-> None, result |-> "none"]]
      BY <2>2 DEF PollLogin
    <3>2. "pull" \in Tasks
      BY DEF Tasks
    <3> QED
      BY <3>1, <3>2, OneTask, NewStates DEF IInv
  <2> QED
    BY <2>1, <2>2
<1>3. Serials'
  BY <1>1, <1>2 DEF IInv, Serials, Old, Known
<1>4. Unshared'
  BY <1>1, <1>2 DEF IInv, Unshared, InRefresh
<1>5. AnswersLive'
  BY <1>1, <1>2 DEF AnswersLive, StaleAnswer
<1>6. Kept' /\ (~harmed' => Usable')
  BY <1>1 DEF Kept, Sound, Usable
<1>7. since' > since
  BY <1>1 DEF IInv, Serials, TypeOK
<1> QED
  BY <1>1, <1>3, <1>4, <1>5, <1>6, <1>7

LEMMA AuthenticateKeeps ==
    ASSUME IInv, TypeOK', Authenticate
    PROVE  Serials' /\ Unshared' /\ AnswersLive' /\ Held /\ (Usable' => Usable)
<1>1. PICK q \in Pair : /\ q = [user |-> user', n |-> issued']
                        /\ jtis' = jtis \cup {q}
                        /\ login' = [pc |-> "answer", token |-> q]
  <2>1. [user |-> user', n |-> issued'] \in Pair
    <3>1. user' \in 1..MaxUsers /\ issued' \in 1..MaxIssued
      BY BoundsAssumption DEF Authenticate, IInv, TypeOK
    <3> QED
      BY <3>1 DEF Pair
  <2> QED
    BY <2>1 DEF Authenticate
<1>2. /\ q.user = user' /\ q.n = issued + 1 /\ issued' = issued + 1
      /\ login'.pc = "answer" /\ login'.token = q
      /\ UNCHANGED <<backend, key, tasks, expired, since, harmed>>
  BY <1>1 DEF Authenticate, history
<1>3. issued \in Nat /\ user \in Nat /\ user' \in Nat /\ since \in Nat /\ since <= issued
  BY BoundsAssumption DEF IInv, TypeOK
<1>4. CASE gone
  <2>1. user' = user + 1 /\ gone' = FALSE
    BY <1>4 DEF Authenticate
  <2>2. jtis = {}
    BY <1>4 DEF IInv, Serials, Known
  <2>3. \A x \in Tasks : ~Carries(x) /\ ~Rotating(x)
    BY <1>4, <2>2 DEF Carries, Rotating, Known
  <2>4. \A p \in Token : Old(p) => Old(p)' /\ p # q
    BY <1>2, <1>3, <2>1, PairFacts DEF Old, Token
  <2>5. \A x \in Tasks : tasks[x].token \in Token /\ Old(tasks[x].token)
    BY TaskFacts DEF IInv, Serials
  <2>6. key.access \in Token /\ Old(key.access) /\ key.refresh \in Token /\ Old(key.refresh)
    BY DEF IInv, Serials, TypeOK
  <2>7. Old(q)' /\ since < q.n
    BY <1>2, <1>3, PairFacts DEF Old
  <2>8. Known(q.user)'
    BY <1>2, <2>1 DEF Known
  <2>9. Serials'
    <3>1. \A p \in jtis' : Known(p.user)' /\ (p.n <= issued)'
      BY <1>1, <1>2, <1>3, <2>2, <2>8
    <3>2. (Old(key.access) /\ Old(key.refresh))'
      BY <1>2, <2>4, <2>6
    <3>3. \A x \in Tasks : (Old(tasks[x].token))'
      BY <1>2, <2>4, <2>5
    <3>4. (login.pc = "answer" => Old(login.token) /\ since < login.token.n)'
      BY <1>2, <2>7
    <3> QED
      BY <3>1, <3>2, <3>3, <3>4 DEF Serials
  <2>10. Unshared'
    BY <1>2, <2>4, <2>5 DEF IInv, Unshared
  <2>11. ~Sound
    BY <2>2, <2>3 DEF Sound
  <2>12. ~(key.refresh \in jtis)'
    BY <1>1, <1>2, <2>2, <2>4, <2>6
  <2>13. \A x \in Tasks : ~Rotating(x)'
    <3>1. \A x \in Tasks : tasks[x].pc \in {"delete", "insert"} => tasks[x].token.user # user'
      <4>1. \A x \in Tasks : tasks[x].pc \in {"delete", "insert"} => tasks[x].token \in Pair
        BY TaskFacts DEF IInv, Holding, InRefresh
      <4> QED
        BY <2>1, <2>5, <4>1, <1>3, PairFacts DEF Old
    <3> QED
      BY <1>1, <1>2, <2>2, <2>4, <2>5, <3>1 DEF Rotating, Known
  <2>14. AnswersLive'
    <3>1. ~harmed => \A x \in Tasks : tasks[x].pc \notin {"answer", "store"}
      BY <2>2 DEF IInv, AnswersLive
    <3> QED
      BY <1>2, <3>1 DEF AnswersLive
  <2>15. Held
    BY <2>11 DEF Held
  <2> QED
    BY <2>9, <2>10, <2>12, <2>13, <2>14, <2>15 DEF Usable
<1>5. CASE ~gone
  <2>1. user' = user /\ gone' = gone
    BY <1>5 DEF Authenticate
  <2>4. \A p \in Token : Old(p) => Old(p)' /\ p # q
    BY <1>2, <1>3, <2>1, PairFacts DEF Old, Token
  <2>5. \A x \in Tasks : tasks[x].token \in Token /\ Old(tasks[x].token)
    BY TaskFacts DEF IInv, Serials
  <2>6. key.access \in Token /\ Old(key.access) /\ key.refresh \in Token /\ Old(key.refresh)
    BY DEF IInv, Serials, TypeOK
  <2>7. Old(q)' /\ since < q.n
    BY <1>2, <1>3, PairFacts DEF Old
  <2>9. Serials'
    <3>1. \A p \in jtis' : Known(p.user)' /\ (p.n <= issued)'
      BY <1>1, <1>2, <1>3, <1>5, <2>1, PairFacts DEF IInv, TypeOK, Serials, Known
    <3>2. (Old(key.access) /\ Old(key.refresh))'
      BY <1>2, <2>4, <2>6
    <3>3. \A x \in Tasks : (Old(tasks[x].token))'
      BY <1>2, <2>4, <2>5
    <3>4. (login.pc = "answer" => Old(login.token) /\ since < login.token.n)'
      BY <1>2, <2>7
    <3> QED
      BY <3>1, <3>2, <3>3, <3>4 DEF Serials
  <2>10. Unshared'
    BY <1>2, <2>4, <2>5 DEF IInv, Unshared
  <2>11. AnswersLive'
    BY <1>1, <1>2 DEF IInv, AnswersLive
  <2>12. Held
    BY <1>1, <1>2, <2>1 DEF Held, Sound, Carries, Known
  <2>13. Usable' => Usable
    BY <1>1, <1>2, <2>1, <2>4, <2>5, <2>6 DEF Usable, Rotating, Known
  <2> QED
    BY <2>9, <2>10, <2>11, <2>12, <2>13
<1> QED
  BY <1>4, <1>5

\* Leaving: no request is left, and only one that was in the middle of an
\* exchange can have made the difference.
LEMMA ProcessEndsKeeps ==
    ASSUME IInv, TypeOK', ProcessEnds
    PROVE  /\ Serials' /\ Unshared' /\ AnswersLive' /\ Kept' /\ (Usable' => Usable)
           /\ ~Exchanging'
           /\ (\A x \in Tasks : ~Refreshing(x)) => (Usable => Usable')
<1>1. /\ \A x \in Tasks : tasks'[x] = Idle
      /\ login'.pc = "idle"
      /\ jtis' \subseteq jtis
      /\ UNCHANGED <<backend, key, user, gone, expired, issued, since>>
  BY DEF ProcessEnds
<1>2. Serials' /\ Unshared'
  BY <1>1 DEF IInv, Serials, Unshared, Old, Known, Idle
<1>3. AnswersLive' /\ ~Exchanging'
  BY <1>1 DEF AnswersLive, Exchanging, Refreshing, InRefresh, Idle
<1>4. \A x \in Tasks : ~Rotating(x)'
  BY <1>1 DEF Rotating, Idle
<1>5. Kept' /\ (Usable' => Usable)
  BY <1>1, <1>4 DEF Kept, Sound, Usable
<1>6. ASSUME \A x \in Tasks : ~Refreshing(x), Usable PROVE Usable'
  <2>1. {tasks[t].token : t \in {x \in Tasks : tasks[x].pc \in {"select", "delete"}}} = {}
    BY <1>6 DEF Refreshing, InRefresh
  <2>2. jtis' = jtis
    BY <2>1 DEF ProcessEnds
  <2>3. \A x \in Tasks : ~Rotating(x)
    BY <1>6 DEF Rotating, Refreshing, InRefresh
  <2> QED
    BY <1>1, <1>6, <2>2, <2>3 DEF Usable
<1> QED
  BY <1>2, <1>3, <1>5, <1>6

LEMMA ElsewhereKeeps ==
    ASSUME IInv, TypeOK', Elsewhere, ~Kill
    PROVE  /\ Serials' /\ Unshared' /\ AnswersLive' /\ Held /\ (Usable' => Usable)
           /\ UNCHANGED <<phase, backend, since>>
           /\ harmed' = harmed \/ harmed' = TRUE
<1>1. CASE Authenticate
  BY <1>1, AuthenticateKeeps DEF Authenticate, history
<1>2. CASE LoginFails
  BY <1>2 DEF LoginFails, server, history, IInv, Serials, Unshared, AnswersLive, Held, Sound,
     Carries, Usable, Rotating, Old, Known
<1>4. CASE AccessExpires
  BY <1>4 DEF AccessExpires, client, history, IInv, Serials, Unshared, AnswersLive, Held, Sound,
     Carries, Usable, Rotating, Old, Known
<1>5. CASE RefreshExpires
  BY <1>5 DEF RefreshExpires, client, IInv, Serials, Unshared, AnswersLive, Held,
     Usable, Rotating, Old, Known
<1>6. CASE DeletedElsewhere
  BY <1>6 DEF DeletedElsewhere, client, IInv, Serials, Unshared, AnswersLive, Held,
     Usable, Rotating, Old, Known
<1> QED
  BY <1>1, <1>2, <1>4, <1>5, <1>6 DEF Elsewhere

-----------------------------------------------------------------------------

\* What the lemmas above say of a step that is no login, no logout and no end.
LEMMA PlainKept ==
    ASSUME IInv, TypeOK', Held, Usable' => Usable, UNCHANGED backend,
           harmed' = harmed \/ harmed' = TRUE
    PROVE  Kept'
BY DEF IInv, Kept, Held, TypeOK

LEMMA FaultIsOne ==
    ASSUME IInv, NEW t \in Tasks, TaskStep(t) \/ TaskFault(t)
    PROVE  UNCHANGED <<phase, backend, since>> /\ (harmed' = harmed \/ harmed' = TRUE)
BY DEF TaskStep, TaskFault, LoadAccess, Served, Unauthorized, LoadRefresh, Select,
   Consume, Issue, StoreAccess, StoreRefresh, RequestFails, DatabaseFails, RefreshFails,
   KeychainFails, server, history, IInv, TypeOK

LEMMA Step == IInv /\ [Next]_vars => IInv'
<1> SUFFICES ASSUME IInv, [Next]_vars PROVE IInv'
    OBVIOUS
<1>1. TypeOK' /\ Phases'
  BY TypeStep, PhasesStep DEF IInv
<1>2. CASE UNCHANGED vars
  BY <1>1, <1>2 DEF vars, client, server, history, IInv, Serials, Unshared, AnswersLive, Kept,
     Sound, Usable, Rotating, Carries, Old, Known
<1>3. ASSUME NEW t \in Tasks, TaskStep(t) \/ TaskFault(t) PROVE IInv'
  BY <1>1, <1>3, TaskStepKeeps, FaultIsOne, PlainKept DEF IInv
<1>4. CASE MainThread
  <2>1. CASE ~Logout /\ ~PollLogin
    BY <1>1, <1>4, <2>1, MainThreadKeeps, PlainKept DEF IInv
  <2> QED
    BY <1>1, <2>1, LogoutKeeps, PollLoginKeeps DEF IInv
<1>5. CASE Exit \/ Elsewhere
  <2>1. CASE ProcessEnds
    BY <1>1, <2>1, ProcessEndsKeeps DEF IInv
  <2>2. CASE ~ProcessEnds
    BY <1>1, <1>5, <2>2, ElsewhereKeeps, PlainKept DEF IInv, Exit, Kill
  <2> QED
    BY <2>1, <2>2
<1> QED
  BY <1>2, <1>3, <1>4, <1>5 DEF Next

\* No task holds a token outside the steps that need one, and every token,
\* in the keychain or in a task, is one the server has issued.
THEOREM TypeCorrect == Spec => []TypeOK
<1>1. IInv => TypeOK
  BY DEF IInv
<1> QED
  BY InitIInv, Step, <1>1, PTL DEF Spec

\* How the state of SessionPromise reads here.
LEMMA Reading ==
    ASSUME TypeOK, TypeOK'
    PROVE  /\ Session = IF backend = "Local" THEN "none" ELSE IF Usable THEN "live" ELSE "lost"
           /\ Session' = IF backend' = "Local" THEN "none"
                         ELSE IF Usable' THEN "live" ELSE "lost"
           /\ backend = "Local" \/ backend = "Server"
           /\ harmed \in BOOLEAN /\ harmed' \in BOOLEAN
           /\ Exchanging \in BOOLEAN /\ Exchanging' \in BOOLEAN
BY DEF Session, Usable, TypeOK, Exchanging

\* What a step that is no login, no logout and no end of the program does to
\* the session.
LEMMA PlainStep ==
    ASSUME IInv, IInv', UNCHANGED <<backend, since>>,
           (phase # "off") <=> (phase' # "off"),
           harmed' = harmed \/ harmed' = TRUE, Usable' => Usable, Held
    PROVE  [Promise!Next]_(Promise!vars)
<1>1. TypeOK /\ TypeOK'
  BY DEF IInv
<1>2. /\ Session = IF backend = "Local" THEN "none" ELSE IF Usable THEN "live" ELSE "lost"
      /\ Session' = IF backend = "Local" THEN "none" ELSE IF Usable' THEN "live" ELSE "lost"
      /\ backend = "Local" \/ backend = "Server"
      /\ harmed \in BOOLEAN /\ harmed' \in BOOLEAN
      /\ Exchanging \in BOOLEAN /\ Exchanging' \in BOOLEAN
      /\ (phase # "off") = (phase' # "off")
  BY <1>1, Reading
<1>3. CASE harmed'
  <2>1. Session' = Session \/ (Session = "live" /\ Session' = "lost")
    BY <1>2
  <2> QED
    BY <1>2, <1>3, <2>1 DEF Promise!Next, Promise!Harm
<1>4. CASE ~harmed'
  <2>1. Session' = Session /\ harmed' = harmed
    <3>1. backend = "Server" /\ Usable => Sound'
      BY <1>2, <1>4 DEF IInv, Kept, Held
    <3>2. Sound' => Usable'
      BY DEF Sound, Usable, Carries, Rotating
    <3> QED
      BY <1>2, <1>4, <3>1, <3>2
  <2>2. CASE Exchanging' = Exchanging
    BY <1>2, <2>1, <2>2 DEF Promise!vars
  <2>3. CASE Exchanging' # Exchanging
    <3>1. phase # "off"
      <4>1. phase = "off" => ~Exchanging /\ ~Exchanging'
        BY DEF IInv, Phases, Exchanging, Refreshing, InRefresh
      <4> QED
        BY <1>2, <2>3, <4>1
    <3>2. Exchanging' = ~Exchanging
      BY <1>2, <2>3
    <3> QED
      BY <1>2, <2>1, <3>1, <3>2 DEF Promise!Next, Promise!Exchange
  <2> QED
    BY <2>2, <2>3
<1> QED
  BY <1>2, <1>3, <1>4

\* The program's launch.
LEMMA LaunchStarts ==
    ASSUME IInv, IInv', Launch
    PROVE  Promise!Next
<1>1. UNCHANGED <<backend, key, login, server, history>> /\ phase = "off" /\ phase' = "up"
      /\ tasks' = [tasks EXCEPT !["pull"] = Started]
  BY DEF Launch
<1>2. \A x \in Tasks : tasks[x].pc = "idle" /\ tasks'[x].pc \in {"idle", "begin", "done"}
  BY <1>1 DEF IInv, TypeOK, Phases, Started, Tasks
<1>3. \A x \in Tasks : ~Refreshing(x) /\ ~Refreshing(x)' /\ ~Rotating(x) /\ ~Rotating(x)'
  BY <1>2 DEF Refreshing, InRefresh, Rotating
<1>4. Session' = Session
  BY <1>1, <1>3 DEF Session, server
<1>5. ~Exchanging /\ ~Exchanging'
  BY <1>3 DEF Exchanging
<1>6. Exchanging' = Exchanging
  BY <1>5 DEF Exchanging
<1> QED
  BY <1>1, <1>4, <1>6 DEF Promise!Next, Promise!Start, history

\* The end of it.
LEMMA EndsLeave ==
    ASSUME IInv, IInv', Exit \/ Kill
    PROVE  Promise!Next
<1>1. ProcessEnds /\ TypeOK /\ TypeOK' /\ phase # "off" /\ phase' = "off"
      /\ UNCHANGED <<backend, since>>
  BY DEF Exit, Kill, ProcessEnds, IInv
<1>2. /\ Usable' => Usable
      /\ ~Exchanging'
      /\ (\A x \in Tasks : ~Refreshing(x)) => (Usable => Usable')
  BY <1>1, ProcessEndsKeeps
<1>3. /\ Session = IF backend = "Local" THEN "none" ELSE IF Usable THEN "live" ELSE "lost"
      /\ Session' = IF backend = "Local" THEN "none" ELSE IF Usable' THEN "live" ELSE "lost"
      /\ Exchanging \in BOOLEAN /\ Exchanging' = FALSE
  BY <1>1, <1>2, Reading DEF Exchanging
<1>4. Session' = Session \/ (Session = "live" /\ Session' = "lost")
  BY <1>2, <1>3
<1>5. CASE harmed' = harmed /\ (Session' = Session \/ Exchanging)
  <2>1. Session' = Session \/ (Exchanging /\ Session = "live" /\ Session' = "lost")
    BY <1>4, <1>5
  <2> QED
    BY <1>1, <1>3, <1>5, <2>1 DEF Promise!Next, Promise!Leave
<1>6. CASE harmed' = TRUE
  BY <1>1, <1>3, <1>4, <1>6 DEF Promise!Next, Promise!Harm
<1>7. CASE Exit
  <2>1. harmed' = harmed /\ ~Refreshing("exit")
    BY <1>7 DEF Exit, Refreshing, InRefresh
  <2>2. ~Exchanging => \A x \in Tasks : ~Refreshing(x)
    BY <2>1 DEF Exchanging
  <2>3. ~Exchanging => Session' = Session
    BY <1>2, <1>3, <2>2
  <2> QED
    BY <1>5, <2>1, <2>3
<1>8. CASE Kill
  <2>1. CASE \E x \in Tasks : Refreshing(x)
    BY <1>6, <1>8, <2>1 DEF Kill
  <2>2. CASE \A x \in Tasks : ~Refreshing(x)
    <3>1. harmed' = harmed
      BY <1>1, <1>8, <2>2 DEF Kill, TypeOK
    <3>2. Session' = Session
      BY <1>2, <1>3, <2>2
    <3> QED
      BY <1>5, <3>1, <3>2
  <2> QED
    BY <2>1, <2>2
<1> QED
  BY <1>7, <1>8

\* Account implements SessionPromise: however many requests refresh at once,
\* whatever logins and logouts come between, a session is lost only after a
\* fault, or because the player quits (push_on_exit) while a request other than
\* the farewell push is exchanging its tokens; and only a login brings a lost
\* one back.
THEOREM KeepsPromise == Spec => PromiseKept
<1>1. Init => Promise!Init
  BY DEF Init, Promise!Init, Session, Exchanging, Refreshing, InRefresh, Idle
<1>2. IInv /\ IInv' /\ [Next]_vars => [Promise!Next]_(Promise!vars)
  <2> SUFFICES ASSUME IInv, IInv', [Next]_vars PROVE [Promise!Next]_(Promise!vars)
      OBVIOUS
  <2>0. TypeOK /\ TypeOK'
    BY DEF IInv
  <2>1. CASE UNCHANGED vars
    BY <2>1 DEF vars, client, server, history, Session, Rotating, Known, Promise!vars,
       Exchanging, Refreshing
  <2>2. ASSUME NEW t \in Tasks, TaskStep(t) \/ TaskFault(t)
        PROVE  [Promise!Next]_(Promise!vars)
    <3>1. (Usable' => Usable) /\ Held
      BY <2>0, <2>2, TaskStepKeeps
    <3> QED
      BY <2>2, <3>1, FaultIsOne, PlainStep
  <2>3. CASE Launch
    BY <2>3, LaunchStarts
  <2>4. CASE Logout
    <3>1. Session' = "none" /\ phase = "up" /\ phase' = phase /\ tasks' = tasks
          /\ UNCHANGED <<since, harmed>>
      BY <2>4 DEF Logout, history, Session
    <3>2. Exchanging' = Exchanging
      BY <3>1 DEF Exchanging, Refreshing
    <3> QED
      BY <3>1, <3>2 DEF Promise!Next, Promise!Disconnect
  <2>5. CASE PollLogin
    <3>1. since' > since /\ backend' = "Server" /\ (~harmed' => Usable')
      BY <2>0, <2>5, PollLoginKeeps
    <3>2. Session' = IF Usable' THEN "live" ELSE "lost"
      BY <3>1 DEF Session, Usable
    <3>3. harmed' \in BOOLEAN
      BY <2>0 DEF TypeOK
    <3>4. phase = "up" /\ phase' = phase
      BY <2>5 DEF PollLogin
    <3>5. \A x \in Tasks : Refreshing(x)' <=> Refreshing(x)
      <4>1. CASE Busy("pull")
        BY <2>5, <4>1 DEF PollLogin, Refreshing
      <4>2. CASE ~Busy("pull")
        BY <2>0, <2>5, <4>2 DEF PollLogin, Refreshing, InRefresh, Busy, TypeOK
      <4> QED
        BY <4>1, <4>2
    <3>6. Exchanging' = Exchanging
      BY <3>5 DEF Exchanging
    <3> QED
      BY <3>1, <3>2, <3>3, <3>4, <3>6 DEF Promise!Next, Promise!Connect
  <2>6. CASE MainThread /\ ~Launch /\ ~Logout /\ ~PollLogin
    <3>1. phase # "off" /\ phase' # "off"
      BY <2>6 DEF MainThread, ManualSync, Upload, BeginExit, PollPull, PollUpload,
         ClickLogin, LoginHalfStored
    <3> QED
      BY <2>0, <2>6, <3>1, MainThreadKeeps, PlainStep
  <2>7. CASE Exit \/ Kill
    BY <2>7, EndsLeave
  <2>8. CASE Elsewhere /\ ~Kill
    BY <2>0, <2>8, ElsewhereKeeps, PlainStep
  <2> QED
    BY <2>1, <2>2, <2>3, <2>4, <2>5, <2>6, <2>7, <2>8 DEF Next
<1> QED
  BY InitIInv, Step, <1>1, <1>2, PTL DEF Spec, PromiseKept, Promise!Spec
=============================================================================
