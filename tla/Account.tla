------------------------------ MODULE Account ------------------------------
(***************************************************************************)
(* The session of one player with the sync server: the pair of tokens in   *)
(* the keychain of the device, the requests that use it, and the server's  *)
(* table of live refresh tokens.                                           *)
(*                                                                         *)
(* Every request of the client runs in a task of its own: it loads the     *)
(* access token, sends the request and, on 401, exchanges the refresh      *)
(* token for a new pair, stores the pair with two keychain writes and      *)
(* tries once more. Nothing keeps two tasks from doing this at once. The   *)
(* server handles an exchange in four separate awaits. Either side may     *)
(* fail between any two of them. A token pair is [user, n]: the account it *)
(* was issued to and a serial number.                                      *)
(***************************************************************************)
EXTENDS Naturals

CONSTANTS
    None,         \* no token
    MaxIssued,    \* bound: token pairs the server issues
    MaxUsers      \* bound: accounts the player's name has over time

ASSUME BoundsAssumption == MaxIssued \in Nat /\ MaxUsers \in Nat \ {0}

Pair == [user : 1..MaxUsers, n : 1..MaxIssued]

ASSUME NoneAssumption == None \notin Pair

\* The requests the engine can have under way at once: the pull, a replay
\* upload (or another request the player's doings start: they all go the same
\* way), and the push when the program exits. The deletion of the account is
\* that of another device: the dialog for it does not open (see Screens).
Tasks == {"pull", "upload", "exit"}

VARIABLES
    phase,     \* the program: "off", "up" or "exiting"
    backend,   \* settings.sync_backend (saved): "Local" or "Server"
    key,       \* the keychain's two entries
    status,    \* SyncStatusResource
    login,     \* PendingAuthTask
    tasks,     \* the request tasks: how far each is, and the pair it holds
    user,      \* server: the account that owns the name
    gone,      \* server: that account has been deleted
    jtis,      \* server: table refresh_tokens
    expired,   \* the access tokens of the pairs up to this one have passed
               \* their 24 hours (they do in the order they were issued)
    issued,    \* server: pairs issued so far
    since,     \* history: the pair the last login brought
    harmed     \* history: a fault since that login

client == <<phase, backend, key, status, login, tasks>>
server == <<user, gone, jtis, expired, issued>>
history == <<since, harmed>>
vars == <<client, server, history>>

Token == Pair \cup {None}
NoKey == [access |-> None, refresh |-> None]
Idle == [pc |-> "idle", token |-> None, result |-> "none"]
Results == {"none", "ended", "unsupported"}

\* Where a task can be. In "select" .. "insert" the server is handling its
\* refresh request, in "answer" the new pair is on its way back, in "store"
\* the access token of the new pair is stored and the refresh token is not.
InRefresh == {"select", "delete", "insert", "answer", "store"}
Holding == InRefresh \cup {"request", "retry"}

TaskState ==
    [pc : Holding, token : Pair, result : {"none"}]
      \cup [pc : {"idle", "begin", "load", "again"}, token : {None}, result : {"none"}]
      \cup [pc : {"done"}, token : {None}, result : Results]
LoginState ==
    [pc : {"idle", "asking"}, token : {None}] \cup [pc : {"answer"}, token : Pair]

Busy(t) == tasks[t].pc # "idle"
Refreshing(t) == tasks[t].pc \in InRefresh
Goto(t, pc, token) ==
    tasks' = [tasks EXCEPT ![t] = [pc |-> pc, token |-> token, result |-> "none"]]

\* A request has been answered or has failed: what it brought is not
\* modelled here (see Sync and Device).
Ended(t) ==
    tasks' = [tasks EXCEPT ![t] = [pc |-> "done", token |-> None, result |-> "ended"]]

\* The pair's access token is refused; the account u owns the name.
Expired(p) == p.n <= expired
Known(u) == u = user /\ ~gone

Init ==
    /\ phase = "off" /\ backend = "Local" /\ key = NoKey /\ status = "Idle"
    /\ login = [pc |-> "idle", token |-> None]
    /\ tasks = [t \in Tasks |-> Idle]
    /\ user = 1 /\ gone = FALSE /\ jtis = {} /\ expired = 0 /\ issued = 0
    /\ since = 0 /\ harmed = FALSE

-----------------------------------------------------------------------------
(* Starting requests.                                                      *)

\* A task spawned now: the local provider answers without a request.
Started ==
    IF backend = "Server"
    THEN [pc |-> "begin", token |-> None, result |-> "none"]
    ELSE [pc |-> "done", token |-> None, result |-> "unsupported"]

\* start_pull: one pull at launch.
Launch ==
    /\ phase = "off"
    /\ phase' = "up" /\ status' = "Syncing"
    /\ tasks' = [tasks EXCEPT !["pull"] = Started]
    /\ UNCHANGED <<backend, key, login, server, history>>

\* handle_manual_sync_request: ignored while a pull is under way.
ManualSync ==
    /\ phase = "up" /\ ~Busy("pull")
    /\ tasks' = [tasks EXCEPT !["pull"] = Started]
    /\ status' = "Syncing"
    /\ UNCHANGED <<phase, backend, key, login, server, history>>

\* push_replay_on_win, and every other request the player's doings start.
\* (Without a server the upload ends at once and leaves no trace. One at a
\* time here; a second win within one upload starts the next beside it.)
Upload ==
    /\ phase = "up" /\ ~Busy("upload") /\ backend = "Server"
    /\ tasks' = [tasks EXCEPT !["upload"] = Started]
    /\ UNCHANGED <<phase, backend, key, status, login, server, history>>

\* push_on_exit: the main thread blocks on this push; the others go on.
BeginExit ==
    /\ phase = "up"
    /\ phase' = "exiting"
    /\ tasks' = [tasks EXCEPT !["exit"] = Started]
    /\ UNCHANGED <<backend, key, status, login, server, history>>

-----------------------------------------------------------------------------
(* A request: load the access token, send it, and on 401 refresh and send  *)
(* it once more.                                                           *)

\* Sends the request though no token was found.
LoadAccessAnyway(t) ==
    /\ tasks[t].pc \in {"begin", "again"}
    /\ Goto(t, IF tasks[t].pc = "begin" THEN "request" ELSE "retry", key.access)
    /\ UNCHANGED <<phase, backend, key, status, login, server, history>>

\* access_token
LoadAccess(t) ==
    /\ tasks[t].pc \in {"begin", "again"}
    /\ IF key.access = None
       THEN Ended(t)
       ELSE Goto(t, IF tasks[t].pc = "begin" THEN "request" ELSE "retry", key.access)
    /\ UNCHANGED <<phase, backend, key, status, login, server, history>>

\* The server carries the request out: require_auth looks at nothing but the
\* token itself.
Served(t) ==
    /\ tasks[t].pc \in {"request", "retry"}
    /\ ~Expired(tasks[t].token)
    /\ Ended(t)
    /\ UNCHANGED <<phase, backend, key, status, login, server, history>>

Unauthorized(t) ==
    /\ \/ /\ tasks[t].pc = "request" /\ Expired(tasks[t].token)
          /\ Goto(t, "load", None)
       \/ /\ tasks[t].pc = "retry" /\ Expired(tasks[t].token)
          /\ Ended(t)
    /\ UNCHANGED <<phase, backend, key, status, login, server, history>>

\* The request or its answer is lost, or the server answers 5xx.
RequestFails(t) ==
    /\ tasks[t].pc \in {"request", "retry"}
    /\ Ended(t)
    /\ UNCHANGED <<phase, backend, key, status, login, server, history>>

-----------------------------------------------------------------------------
(* refresh_token in the client, refresh in the server.                     *)

LoadRefresh(t) ==
    /\ tasks[t].pc = "load"
    /\ IF key.refresh = None
       THEN Ended(t)
       ELSE Goto(t, "select", key.refresh)
    /\ UNCHANGED <<phase, backend, key, status, login, server, history>>

\* SELECT jti: a consumed or revoked token is refused.
Select(t) ==
    /\ tasks[t].pc = "select"
    /\ IF tasks[t].token \in jtis
       THEN Goto(t, "delete", tasks[t].token)
       ELSE Ended(t)
    /\ UNCHANGED <<phase, backend, key, status, login, server, history>>

\* DELETE jti: also succeeds when another request has just done it.
Consume(t) ==
    /\ tasks[t].pc = "delete"
    /\ jtis' = jtis \ {tasks[t].token}
    /\ Goto(t, "insert", tasks[t].token)
    /\ UNCHANGED <<phase, backend, key, status, login, user, gone, expired,
                   issued, history>>

\* make_access_token, make_refresh_token, INSERT jti: the new row refers to
\* the account, so the insert fails once that is deleted. (So does it when
\* the bound on pairs is reached, which counts as a fault of the database.)
Issue(t) ==
    /\ tasks[t].pc = "insert"
    /\ LET new == [user |-> tasks[t].token.user, n |-> issued + 1] IN
       IF Known(new.user) /\ issued < MaxIssued
       THEN /\ jtis' = jtis \cup {new}
            /\ issued' = issued + 1
            /\ Goto(t, "answer", new)
            /\ UNCHANGED harmed
       ELSE /\ Ended(t)
            /\ harmed' = (harmed \/ Known(new.user))
            /\ UNCHANGED <<jtis, issued>>
    /\ UNCHANGED <<phase, backend, key, status, login, user, gone, expired, since>>

\* The database refuses the DELETE or the INSERT: the client sees a failed
\* refresh.
DatabaseFails(t) ==
    /\ tasks[t].pc \in {"delete", "insert"}
    /\ Ended(t)
    /\ harmed' = TRUE
    /\ UNCHANGED <<phase, backend, key, status, login, server, since>>

\* The connection breaks: the server may or may not have got as far as
\* consuming the token.
RefreshFails(t) ==
    /\ tasks[t].pc \in {"select", "delete", "insert", "answer"}
    /\ Ended(t)
    /\ \/ UNCHANGED jtis
       \/ tasks[t].pc \in {"select", "delete"} /\ jtis' = jtis \ {tasks[t].token}
    /\ harmed' = TRUE
    /\ UNCHANGED <<phase, backend, key, status, login, user, gone, expired, issued,
                   since>>

\* store_tokens: the access token first, the refresh token second.
StoreAccess(t) ==
    /\ tasks[t].pc = "answer"
    /\ key' = [key EXCEPT !.access = tasks[t].token]
    /\ Goto(t, "store", tasks[t].token)
    /\ UNCHANGED <<phase, backend, status, login, server, history>>

\* Keeps the old refresh token, as with a server that does not rotate.
StoreRefreshNot(t) ==
    /\ tasks[t].pc = "store"
    /\ Goto(t, "again", None)
    /\ UNCHANGED <<phase, backend, key, status, login, server, history>>

StoreRefresh(t) ==
    /\ tasks[t].pc = "store"
    /\ key' = [key EXCEPT !.refresh = tasks[t].token]
    /\ Goto(t, "again", None)
    /\ UNCHANGED <<phase, backend, status, login, server, history>>

\* The keychain refuses an access: every caller gives up at once. In "answer"
\* neither token of the new pair is stored, in "store" only the access token.
KeychainFails(t) ==
    /\ tasks[t].pc \in {"begin", "again", "load", "answer", "store"}
    /\ Ended(t)
    /\ harmed' = (harmed \/ Refreshing(t))
    /\ UNCHANGED <<phase, backend, key, status, login, server, since>>

-----------------------------------------------------------------------------
(* Results on the main thread.                                             *)

\* Forgets that the local provider's answer is an answer too.
ShownRemoteOnly(result) == IF result = "ended" THEN "Reported" ELSE "Syncing"

\* LastSynced or an error message (an expired session also opens the Connect
\* form); nothing for the local provider.
Shown(result) == IF result = "ended" THEN "Reported" ELSE "Idle"

PollPull ==
    /\ phase = "up" /\ tasks["pull"].pc = "done"
    /\ status' = Shown(tasks["pull"].result)
    /\ tasks' = [tasks EXCEPT !["pull"] = Idle]
    /\ UNCHANGED <<phase, backend, key, login, server, history>>

PollUpload ==
    /\ phase = "up" /\ tasks["upload"].pc = "done"
    /\ tasks' = [tasks EXCEPT !["upload"] = Idle]
    /\ UNCHANGED <<phase, backend, key, status, login, server, history>>

\* handle_logout: by Disconnect in the settings panel. The keychain may
\* refuse to delete either entry; the first refusal leaves the second too.
Logout ==
    /\ phase = "up" /\ backend = "Server"
    /\ backend' = "Local"
    /\ key' \in {NoKey, [key EXCEPT !.access = None], key}
    /\ UNCHANGED <<phase, status, login, tasks, server, history>>

\* handle_auth_button: one login under way at a time.
ClickLogin ==
    /\ phase = "up" /\ login.pc = "idle"
    /\ login' = [pc |-> "asking", token |-> None]
    /\ UNCHANGED <<phase, backend, key, status, tasks, server, history>>

\* login, or register where the name is free: a new pair.
Authenticate ==
    /\ login.pc = "asking" /\ issued < MaxIssued
    /\ IF gone THEN user < MaxUsers /\ user' = user + 1 /\ gone' = FALSE
               ELSE UNCHANGED <<user, gone>>
    /\ issued' = issued + 1
    /\ LET new == [user |-> user', n |-> issued'] IN
       /\ jtis' = jtis \cup {new}
       /\ login' = [pc |-> "answer", token |-> new]
    /\ UNCHANGED <<phase, backend, key, status, tasks, expired, history>>

\* Wrong credentials, a name already taken, or no answer.
LoginFails ==
    /\ login.pc \in {"asking", "answer"}
    /\ login' = [pc |-> "idle", token |-> None]
    /\ UNCHANGED <<phase, backend, key, status, tasks, server, history>>

\* poll_auth_task, when the keychain refuses the second entry: an error in
\* the form, the settings as before. (When it refuses the first, the login
\* has failed without a trace: LoginFails.)
LoginHalfStored ==
    /\ phase = "up" /\ login.pc = "answer"
    /\ key' = [key EXCEPT !.access = login.token]
    /\ login' = [pc |-> "idle", token |-> None]
    /\ UNCHANGED <<phase, backend, status, tasks, server, history>>

\* A pair that no longer lives in the server's table, in the hands of a task
\* that will still store it.
StaleAnswer ==
    \E t \in Tasks : tasks[t].pc \in {"answer", "store"} /\ tasks[t].token \notin jtis

\* poll_auth_task: store both tokens, configure the backend, ask for a pull.
PollLogin ==
    /\ phase = "up"
    /\ login.pc = "answer"
    /\ key' = [access |-> login.token, refresh |-> login.token]
    /\ backend' = "Server"
    /\ IF Busy("pull")
       THEN UNCHANGED <<tasks, status>>
       ELSE /\ tasks' = [tasks EXCEPT !["pull"] =
                           [pc |-> "begin", token |-> None, result |-> "none"]]
            /\ status' = "Syncing"
    /\ since' = login.token.n
    /\ harmed' = (login.token \notin jtis \/ StaleAnswer)
    /\ login' = [pc |-> "idle", token |-> None]
    /\ UNCHANGED <<phase, server>>

-----------------------------------------------------------------------------
(* The end of the program, and what happens on its own.                    *)

\* The process ends, and its requests with it: what has reached the server
\* by then is handled to the end or not.
ProcessEnds ==
    /\ phase' = "off" /\ status' = "Idle"
    /\ login' = [pc |-> "idle", token |-> None]
    /\ tasks' = [t \in Tasks |-> Idle]
    /\ \E used \in SUBSET {tasks[t].token : t \in {x \in Tasks :
                                tasks[x].pc \in {"select", "delete"}}} :
         jtis' = jtis \ used
    /\ UNCHANGED <<backend, key, user, gone, expired, issued, since>>

\* Does not wait for the push.
ExitAtOnce ==
    /\ phase = "exiting"
    /\ ProcessEnds
    /\ UNCHANGED harmed

\* The player quits: only the farewell push is waited for, and what other
\* requests were doing is abandoned. No fault: the program ends so by itself.
Exit ==
    /\ phase = "exiting" /\ tasks["exit"].pc = "done"
    /\ ProcessEnds
    /\ UNCHANGED harmed

\* A crash, or the system kills the program.
Kill ==
    /\ phase # "off"
    /\ ProcessEnds
    /\ harmed' = (harmed \/ \E t \in Tasks : Refreshing(t))

\* (The last pair the bound allows stays: its exchange could only fail.)
AccessExpires ==
    /\ expired < issued /\ expired + 1 < MaxIssued
    /\ expired' = expired + 1
    /\ UNCHANGED <<client, user, gone, jtis, issued, history>>

\* Thirty days without a refresh: the oldest row is pruned, the token invalid.
RefreshExpires ==
    /\ \E p \in jtis : /\ \A q \in jtis : p.n <= q.n
                      /\ jtis' = jtis \ {p}
    /\ harmed' = TRUE
    /\ UNCHANGED <<client, user, gone, expired, issued, since>>

\* The player deletes the account from another device.
DeletedElsewhere ==
    /\ ~gone /\ jtis # {}
    /\ gone' = TRUE /\ jtis' = {} /\ harmed' = TRUE
    /\ UNCHANGED <<client, user, expired, issued, since>>

-----------------------------------------------------------------------------

\* What the client's task does next, and what the server does for it.
TaskStep(t) ==
    \/ LoadAccess(t) \/ Served(t) \/ Unauthorized(t) \/ LoadRefresh(t)
    \/ Select(t) \/ Consume(t) \/ Issue(t)
    \/ StoreAccess(t) \/ StoreRefresh(t)

TaskFault(t) ==
    RequestFails(t) \/ DatabaseFails(t) \/ RefreshFails(t) \/ KeychainFails(t)

MainThread ==
    \/ Launch \/ ManualSync \/ Upload \/ BeginExit
    \/ PollPull \/ PollUpload \/ Logout
    \/ ClickLogin \/ PollLogin \/ LoginHalfStored

Elsewhere ==
    \/ Authenticate \/ LoginFails \/ Kill
    \/ AccessExpires \/ RefreshExpires \/ DeletedElsewhere

Next ==
    \/ \E t \in Tasks : TaskStep(t) \/ TaskFault(t)
    \/ MainThread \/ Exit \/ Elsewhere

\* The thread of the pull's task runs, the server answers what reaches it,
\* and the main loop polls. No request is assumed to succeed.
Fairness == WF_vars(TaskStep("pull")) /\ WF_vars(PollPull)

Spec == Init /\ [][Next]_vars /\ Fairness

-----------------------------------------------------------------------------
(* Properties.                                                             *)

TypeOK ==
    /\ phase \in {"off", "up", "exiting"}
    /\ backend \in {"Local", "Server"}
    /\ key \in [access : Token, refresh : Token]
    /\ status \in {"Idle", "Syncing", "Reported"}
    /\ login \in LoginState
    /\ tasks \in [Tasks -> TaskState]
    /\ user \in 1..MaxUsers /\ gone \in BOOLEAN
    /\ jtis \subseteq Pair
    /\ issued \in 0..MaxIssued /\ expired \in 0..issued
    /\ since \in 0..issued /\ harmed \in BOOLEAN

\* A task that holds, or is about to be given, a token that works.
Rotating(t) ==
    \/ tasks[t].pc \in {"delete", "insert"} /\ Known(tasks[t].token.user)
    \/ tasks[t].pc \in {"select", "answer", "store"} /\ tasks[t].token \in jtis

\* The session as the player has it: connected, and either the refresh token
\* in the keychain is one the server accepts or a task is about to store one.
Session ==
    IF backend = "Local" THEN "none"
    ELSE IF key.refresh \in jtis \/ \E t \in Tasks : Rotating(t) THEN "live"
    ELSE "lost"

\* A request that will be abandoned when the player quits is in the middle of
\* an exchange.
Exchanging == \E t \in Tasks \ {"exit"} : Refreshing(t)

Promise == INSTANCE SessionPromise WITH
    session <- Session, running <- phase # "off", exchanging <- Exchanging

\* However many requests meet a 401 at once, and whatever logins and logouts
\* happen meanwhile, the client never stores a refresh token the server has
\* already consumed: while the program runs the session is lost only after a
\* fault. When the player quits, the farewell push has always finished its own
\* exchange; only an exchange of another request can then cost the session.
PromiseKept == Promise!Spec

\* "Refreshed transparently without the user having to log in again"
\* (docs/sync_test_runbook.md:315): if nothing has gone wrong, the player who
\* quits is still logged in at the next launch. push_on_exit waits for no other
\* request, so one that has just spent the refresh token takes it along.
QuitKeepsSession ==
    [][phase = "exiting" /\ phase' = "off" /\ ~harmed' =>
         Session' = Session]_vars

\* "Syncing" in the settings panel does not stay for ever: a pull that was
\* started is reported as done, failed or unsupported, if the program runs on.
PullEnds ==
    (phase = "up" /\ status = "Syncing") ~> (phase # "up" \/ status # "Syncing")
=============================================================================
