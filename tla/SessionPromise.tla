--------------------------- MODULE SessionPromise ---------------------------
(***************************************************************************)
(* What a connected player is promised about the session with the sync     *)
(* server, without tokens, tasks or tables: a session once connected stays *)
(* usable until the player disconnects, whatever requests are under way at *)
(* once, with two exceptions. Something outside the program's control may  *)
(* go wrong (harmed). And the program may be left in the middle of an      *)
(* exchange of tokens: it does not wait for one, and leaving may then cost *)
(* the session though nothing has gone wrong. Once it is lost nothing but  *)
(* a new login brings it back. Account implements this module.             *)
(***************************************************************************)
EXTENDS Naturals

VARIABLES
    session,     \* "none", "live" or "lost"
    since,       \* the login the session began with
    harmed,      \* a fault has occurred since then
    running,     \* the program runs
    exchanging   \* a request other than the farewell exchanges its tokens

vars == <<session, since, harmed, running, exchanging>>

Init ==
    /\ session = "none" /\ since = 0 /\ harmed = FALSE
    /\ running = FALSE /\ exchanging = FALSE

Start ==
    /\ ~running /\ running' = TRUE
    /\ UNCHANGED <<session, since, harmed, exchanging>>

\* An exchange begins, or the last one under way ends.
Exchange ==
    /\ running
    /\ exchanging' = ~exchanging
    /\ UNCHANGED <<session, since, harmed, running>>

\* The player connects. That what the login brought has become useless
\* already counts as a fault.
Connect ==
    /\ running
    /\ since' > since
    /\ \/ harmed' \in BOOLEAN /\ session' = "live"
       \/ harmed' = TRUE /\ session' = "lost"
    /\ UNCHANGED <<running, exchanging>>

Disconnect ==
    /\ running
    /\ session' = "none"
    /\ UNCHANGED <<since, harmed, running, exchanging>>

\* The player leaves, and no exchange survives it.
Leave ==
    /\ running /\ running' = FALSE /\ exchanging' = FALSE
    /\ session' = session \/ (exchanging /\ session = "live" /\ session' = "lost")
    /\ UNCHANGED <<since, harmed>>

\* Something goes wrong, or takes a late effect, and may cost the session; the
\* worst that goes wrong is that the program is killed.
Harm ==
    /\ harmed' = TRUE
    /\ session' = session \/ (session = "live" /\ session' = "lost")
    /\ running' \in {running, FALSE} /\ exchanging' \in BOOLEAN
    /\ UNCHANGED since

Next == Start \/ Exchange \/ Connect \/ Disconnect \/ Leave \/ Harm

Spec == Init /\ [][Next]_vars
=============================================================================
