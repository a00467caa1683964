# Formal models of Ferrous Solitaire

TLA+ models of the Klondike program in this repository: the rules and the game
state machine, the solver, the life of games in the engine, how mouse and keys
become requests, the screens and the card sprites, recording and playback, the
player's profile with its files, and its synchronisation with the server, tokens
included. TLC checks small instances; TLAPS proves the invariants that matter most
for every value of the constants.

- `X.tla` is a component's specification with its properties, `MCX.tla` and `*.cfg`
  instantiate it for TLC, `XProofs.tla` holds its theorems.
- `PROJECT.json` maps every definition to the source lines it models, and lists
  the runs, mutants, findings, hazards and theorems.

## 1. The system

| Part | State it keeps | Operations | Talks to |
|---|---|---|---|
| `solitaire_core` rules (card, pile, deck, rules) | none | deal, placement rules, run rule | GameState, solver, input |
| `GameState` (game_state, scoring) | piles, score, counters, flags, undo stack | draw, recycle, move_cards, undo, hints, save/load | the engine's game plugin |
| Solver | visited positions, a stack of frames | bounded search for a win | winnable deals, hints |
| Auto-complete | active flag, cooldown | one foundation move per tick | GameState, by move requests |
| Session (game, statistics, pause plugins) | live game, restored game, dialogs, seed search, saved game | new game, forfeit, restore, undo, pause, auto-save, exit | GameState, statistics, screens |
| Replay (replay, replay_playback) | recording, history, playback cursor | record, play, pause, step, step back, stop | the live game, by requests |
| Input (input, selection, radial menu) | drag, selection, lift, radial menu | press, drag, drop, keys, menu | the game, by requests |
| Screens (the screen plugins, ui_modal) | the screens open, settings flag, tasks | open, close, repaint | each other, by requests and scrims |
| Table (card, table, animation plugins) | card sprites, animations, highlights | sync with the game, slide, tween, shake, deal, cascade, snap | reads game, drag, layout |
| Profile (`solitaire_sync`, `solitaire_data`, core achievements) | statistics, achievement records, progress | win, abandon, XP, goals, daily completion, unlock, reward | the engine's plugins, the merge |
| Merge (`solitaire_sync::merge`) | none | merge_at | client and server |
| Win pipeline (six engine plugins) | the profile in memory and in three files | one system per part, on `GameWonEvent` | each other, through resources |
| Sync client (`sync_plugin`) | a pull task | pull at launch and on demand, merge, push at exit | server, profile |
| HTTP client, tokens (sync_client, auth_tokens, sync_setup) | two tokens in the keychain | request, refresh, retry, login, logout | server |
| Server (`solitaire_server`) | `users`, `refresh_tokens`, `sync_state`, `leaderboard` | pull, push, opt-in, opt-out, login, refresh; challenge, replays | clients |
| Time attack, catalogs, themes, audio, web player, settings | see section 6 | | |

The behaviours that are hard here:

- **Long sequences.** A `GameState` is consistent only because every move, draw,
  recycle and undo keeps it so; its flags are caches refreshed by some operations.
- **A frame's systems.** Bevy runs systems in any order its constraints allow.
  Events are read in this frame or the next, spawns and insertions are commands
  that take effect at a later point of the schedule: what a system reads may be
  older than what has been asked for.
- **Shared state without an owner.** One drag for mouse, keyboard and touch, one
  pause flag for six writers, one transform for five animations, one game for
  the player and a playback.
- **Files and kills.** A profile is three files, a token pair two keychain
  entries, a saved game one file with several writers.
- **Concurrent devices and requests.** Pulls and pushes are lost, late and
  overlap; two requests refresh the same token; the server uses no transaction.
- **Time.** Midnight, the turn of the week and the expiry of tokens.

What makes each part right is stated with its run in section 3.

## 2. Modules and how they follow the code

    KlondikeRules <- GameState <- AutoComplete      Profile <- Merge <- Device
    KlondikeRules <- Solver <- Verdicts             Profile <- Merge <- Sync
    KlondikeRules <- Input, Table
    GameStateProofs <- PlayProofs (Input, Solver), ViewProofs (Replay, Screens, Table)
    SessionPromise <= Account (refinement)          Session, Replay, Screens alone

**KlondikeRules** (card.rs, pile.rs, deck.rs, rules.rs, the board effects in
game_state.rs). A board maps `PileType` to a sequence of cards with a `face_up`
bit. `AfterDraw`, `AfterRecycle`, `AfterMove` are what the three operations do to
it; `MoveAllowed` the checks of `move_cards`; `PossibleInstructions` and
`NextAutoCompleteMoves` the two generators. The shuffle is a set of decks.

**GameState** (game_state.rs, scoring.rs). One action per operation: `Draw`,
`Recycle`, `MoveCards`, `Undo`, `ChangeSetting` (the house rule the engine
forwards), `SaveAndLoad` (the undo stack is not serialised). A refused operation
changes nothing and is the absence of a step; errors and early returns are guards.

**AutoComplete** (auto_complete_plugin.rs, composed with GameState). `Detect`,
`Drive` and, a frame later, `CarryOut`, against a player who may play, undo, deal
anew, forfeit, pause or relaunch between any two of them.

**Solver** (solver.rs, and `has_legal_moves` of game_plugin.rs). A game is played;
on any board the search may be asked for. `Try`, `Backtrack`, `GiveUp` and
`Exhausted` are the branches of one turn of its loop over the explicit stack.
A position's hash is the tuple that is hashed: no collisions. **Verdicts** adds what
its answers are held against, as two constants: `Live`, boards that play does not leave,
and `Distance`, a number of steps to a win for each board of Live that can be won. Two
assumptions say so; exactly the boards of Live that can be won satisfy the second.
MCSolver computes both by exhausting play, and TLC checks the assumptions.

**Session** (game_plugin.rs, the requests of stats_plugin.rs and pause_plugin.rs).
`pc` orders a frame: systems ahead of the statistics' reader, those between it and
GameMutation, handle_new_game, the moves. `requests` and `unread` are the two
readers' views of the same events; `opening`, `closing` and `spawning` the deferred
spawns and despawns, so that two requests of one frame both see no dialog, and two
systems of one frame may each open a screen. (Other despawns take effect at once.)
A board is reduced to moved, won and stuck.

**Replay** (solitaire_data replay.rs, replay_playback.rs, the recording in
game_plugin.rs). A board is the list of moves that led to it. `baseline` is
the guard that cuts the recording back while a playback runs. Playback's ticks
write requests; whether the live game takes them is up to it.

**Input** (input_plugin.rs, selection_plugin.rs, radial_menu.rs, toggle_pause). A
frame has one mouse event and one key; `TogglePause`, `Chain` (the mouse pipeline,
which is `.chain()`ed), `SelectionKeys`, `Radial`, `GameMutation` and
`ClearSelection` run once each in any order the schedule leaves open.

**Screens** (settings, sync setup, statistics, achievements, help, profile,
leaderboard, home, onboarding, seed, win summary, pause, HUD popovers, ui_modal).
One action per system and outcome; `ran` keeps which systems have run in the
frame, `spawning` and `despawning` are the commands not yet applied.

**Table** (card_plugin.rs, layout.rs, animation_plugin.rs, feedback_anim_plugin.rs,
card_animation). A frame is one doing of the player and the systems it makes due
(`todo`), each run once; what they insert or remove is `queued` and takes effect at
a `SyncPoint`, system by system in any order. A place is an x and a y that are
equal exactly when the coordinates are; between two places they are `Somewhere`.
All animations of a kind end in the same frame or not: no sprite's way depends on
another's, so that each of them alone goes every way there is.

**Profile** (solitaire_sync stats, progress, achievements, their extensions in
solitaire_data, core achievement.rs, the engine's handlers). Pure operators;
`FinishGame` composes the handlers of a win in the two orders the schedule allows.
Dates and weeks are numbers, 0 for none; card backs and backgrounds one set.

**Merge** (merge.rs). `MergeAt` and the field rules. `NoLess` is the order a merge
must never go down in; it leaves out what goes down by design (running streaks,
the average, losses, wins per draw mode, last week's counters).

**Device** (stats, progress, weekly goals, daily challenge, challenge, achievement
and sync plugins, storage.rs). A win sets `frame.todo`; each of six systems is an
action whose guard is the plugin's ordering constraint, and between them a pull's
answer may be merged. Files written by one system are one `Save` each; `Crash` may
come between any two steps. `NextDay` is local midnight.

**Sync** (sync_plugin.rs, server sync.rs, leaderboard.rs, migrations). Per device a
profile, a pull and a push; on the server the row, the opt-in bit and the
leaderboard entry. A push is `Exit`, then `LoadRow`, `StoreRow`, `Rank`, the awaits
of the handler. A won game is one step, a member of `FinishGame`: what
FrameCreditsOneWin and SavedAtRest of Device justify.

**Account** (sync_client.rs, auth_tokens.rs, sync_setup_plugin.rs, sync_plugin.rs,
server auth.rs). Three tasks that may have requests under way: the pull, another
request, the push at exit. Each loads the access token, and on 401 goes through the refresh:
select, delete, insert, answer, and two keychain writes, with a fault possible
at every one: the network's, the database's, and the keychain's, which may refuse
either access, the second write after the first included, in a refresh, a login or a
logout. Expiries and the deletion of the account elsewhere come in between. `Kill`
and `Exit` both end the process with whatever its tasks are doing; a kill in an
exchange is a fault (`harmed`), the player's quitting is not.

**SessionPromise** is what the player is promised about that session: once
connected it is lost only after a fault, or when the program is left (`Leave`) while a
request other than the farewell push is exchanging its tokens. `Account` implements it
(`Promise == INSTANCE SessionPromise WITH session <- Session, ...`), where `Session`
is live while the keychain, or a task about to store it, has a token the server
accepts. The second exception is what the code does, not what its documents say:
finding 2 of section 4.

The client stamps payloads with the nil UUID (`Stamp`). As shipped, the server
refuses them and `merge_at` ignores the answers (run `sync_nil`), which would make
every merge property true for want of a merge. The runs `device` and `sync`
therefore set `Stamp` to the player's id, the intent stated in lib.rs ("Must match
the authenticated user"). The theorems hold for any stamp.

## 3. Runs

Times are for two workers.

| Run | Instance and bounds | States | Time |
|---|---|---|---|
| `game` | two suits of three ranks, two columns, draw one and three; Classic, Zen, Challenge; 8 moves, 1 undo, undo cap 2; auto-complete beside the player | 494 k | 110 s |
| `device` | Sunday and Monday, two saved profiles, two kinds of win, two remote answers, 2 games, 2 launches, kills | 6.0 M | 180 s |
| `sync` | two devices (symmetric), two kinds of win, 2 games, 3 launches, two days | 2.1 M | 120 s |
| `sync_nil` | as `sync`, nil stamp, one day; a finding | - | 1 s |
| `session` | three deals, three requests waiting; launches, exits and kills | 16.1 M | 130 s |
| `replay` | two moves, a win takes both, undo cap 1, history cap 1, recordings of two, one request in flight | 566 k | 60 s |
| `screens` | two screens open beside the first run's slides, one win, dialog, fetch or login | 2.2 M | 130 s |
| `account` | three token pairs, two accounts over time | 2.0 M | 165 s |
| `account_quit` | as `account`; a finding | - | 1 s |
| `solver` | three decks of two suits and three ranks, draw one and three, budgets of moves 4 and 2000, of states 6 and 2000 | 15 k | 45 s |
| `input` | two suits of three ranks, two columns, three moves deep | 12 M | 105 s |
| `table` | two suits of two ranks, one column, two doings (drops, ticks and the restore at launch are free), a saved game one move from its win | 1.2 M | 170 s |

What each shows (the type invariants of Session, Replay, Screens, Input, Solver and
Table are a conjunct of one of their properties):

- **`game`**: TypeOK; CardsConserved, each card once on every board held;
  BoardsKept, the boards held, live or for undo, have columns of hidden cards under
  one legal run and foundations of one suit from the Ace up; FlagsExact, is_won and
  is_auto_completable are never stale; InstructionsExact, hints offer what
  move_cards accepts and no less; UndoIsPast, the undo stack is a gapless past of the
  board; ScoreEarned, no mixture of moves, take-backs, recycles and undos earns points
  the foundations do not show, and Zen none; AutoCompleteFinishes, a game that can be
  completed by itself is won, unless the player interferes for ever or leaves it
  paused. One run has them all: AutoSpec has the operations of GameState and deals anew.
  All but AutoCompleteFinishes are also proved for every deck and bound.
- **`device`**: TypeOK; ProfilesSound, sums and maxima in memory and on disk agree;
  FrameCreditsOneWin, any order of the six systems credits a win once and whole;
  SavedAtRest; DiskNeverLoses, no step makes the files less.
- **`sync`**: TypeOK; CopiesSound, everywhere and in transit; NothingCountedTwice;
  DevicesAbsorb, a merge takes all of both sides; AdditiveUnlessOverlapping, the
  server's row loses nothing except to a push that overlaps another;
  BoardNeverRegresses, the leaderboard's best never falls.
- **`session`**: EndedNeverReturns, a game won or replaced comes back neither from
  the file nor from the restore prompt; PausedIsVisible; GameOverTrue, the screen
  does not outlive the dead end; DialogAbandonsCounted, a played game the dialog's
  Yes replaces has been counted lost.
- **`replay`**: NothingMissing, all that led to the board is in the recording, in
  order; PlaybackEnds.
- **`screens`**: PanelFollowsFlag, no settings panel outlives its flag; Escapable, a
  player who opens nothing more gets back to the table. (A flag raised while another
  screen is open does stay up without a panel: the code looks at it once per change.)
- **`account`**: TypeOK; PromiseKept, the refinement; PullEnds, "Syncing" is left.
- **`account_quit`**: QuitKeepsSession, that an orderly quit without a fault leaves the
  session as it was, is refuted.
- **`solver`**: StackIsPlay, the search explores lines of play of the live game and
  its first move is one; VerdictRight, "Winnable" and "Unwinnable" agree with
  exhaustive reachability (without take-backs, which the search never makes);
  StuckIsLost, where has_legal_moves says no, no play without a take-back
  wins; SearchEnds.
- **`input`**: DragsOwned, between frames a drag has its button down or its lift;
  LiftFresh, what is lifted by keyboard and each destination offered are true of the
  board; PausedAsksNothing, a paused frame makes no request.
- **`table`**: TableTrue, between frames the sprites, their faces, the stock's sign
  and the lit piles are the game's; StillCardsSettle, a card that nothing was
  moving at the last change lies at its place once all is quiet; CascadeEnds, the
  cascade of a won game does not reach into the next.

Why the bounds are enough for the cases to happen:

- The deck, dealt with a card hidden in a column, can be won within 8 moves; recycles,
  take-backs and undos each occur in them too; the undo cap of 2 is passed by every
  longer game, so the oldest snapshot is dropped.
- The device starts one win short of a weekly goal, one day short of the seven-day
  streak, with a history at its cap, at the end of a week; the remote answers hold
  an older unlock, another draw mode's wins, a later week. Goal bonus, streak reward,
  truncation, the week's roll and a merge across weeks all occur.
- Two devices and two games give every case of a merge; three launches let a device
  pull what it pushed, with both pushes in flight. Two concurrent refreshes and the
  push at exit share a token; three pairs are a login and two refreshes, or
  two logins and one. The access token of the last pair does not expire: its
  exchange could only meet the bound.
- Session's three deals are one given up, one restored or dealt at launch, and one
  a late search brings. Of three waiting requests one can be refused, a dialog's Yes
  be left over behind it, and a third be read with the Yes frames later.
- Replay's undo cap of 1 forgets a move a longer game undoes in vain; a win
  takes more than the history holds; each request may be refused or be late.
- Two stacked screens give every pair of screens, in every order of opening.
- The solver's small budgets end the search in the middle, the large ones never;
  there are winnable decks, lost boards, a lost deck, boards only a take-back wins.
- The table's two doings, with a drop between or after them, give every pair of
  animations on one card. It has a card that leaves the waste's window, a face-down
  one, a recycle, and, from the saved game, a win and a new deal over its cascade.
- Achievements and goals are subsets that cover each kind of reward and of unlock;
  `Never` stands for `u64::MAX`.

Deadlock checking is off where the story is bounded and may stop.

**Fairness.** `AutoComplete`: weak fairness of `Detect`, `Drive`, `CarryOut`, systems of
every frame. `Replay`: weak fairness of `Frame`, and strong fairness of the ticks
`Advance`, `Complete`, `AutoClear`: they are systems of every frame too, but each is
enabled at one place of a frame only, so that weak fairness says nothing of them.
`Screens`: weak fairness of `ScreensNext`; every order of systems within a frame runs
them all, by the guard of `NextFrame`. `Account`: the thread of the pull's task runs and
the main loop polls; the request's outcome is a choice among success and the faults, so
that a server which neither answers nor closes the connection is left out. `Solver`: the
loop of the search runs. Nothing is assumed of the player, of midnight or of kills.

Every property has a mutant, a definition changed the way a plausible bug would
change it (named in a comment before the definition), that the same run refutes.

## 4. Findings

1. **The shipped client never syncs** (`sync_nil`). build_payload's comment says the
   server replaces the nil id; push answers 400 to a mismatch and merge_at keeps the
   local payload.

2. **Quitting can cost the session** (`account_quit`). The sync runbook (line 315) and
   ARCHITECTURE.md (line 1078) promise that an expired token is refreshed transparently.
   push_on_exit waits for its own push only: a pull or an upload whose refresh token the
   server has consumed and whose new pair is not stored yet is abandoned with it, and
   the player has to log in again though nothing has failed.

Met while modelling; the models follow the code, and the properties are stated
around them:

- GameState: the score's comment says it "can be negative" (game_state.rs:130); every
  operation that lowers it clamps it at 0 (255, 403, 430), and TypeOK has it in Nat.
- Zen: stats.rs:67-68 (solitaire_sync) says of Zen that "scoring is still on";
  game_state.rs:86 says it "stays at 0", and so the code has it (250, 373, 402, 427),
  as does the Zen clause of ScoreEarned. Zen's best score is therefore always 0.
- Solver: solver.rs:135-137 says that Winnable guarantees a first move; a root that is
  won already is Winnable without one. VerdictRight excepts it.

- Session: handle_new_game returns while any ModalScrim is open (game_plugin.rs:441),
  so a New Game asked for from the game-over screen is dropped. A request that the
  player then cancels has already been counted as a loss, and a forfeit is counted
  by both of its readers. A Yes behind a refused request waits for a later frame; a
  game restored in between is replaced uncounted. A seed search may end in a deal the
  player no longer waits for.
- Screens: the Delete Account dialog (sync_setup_plugin.rs:567) and the display-name
  editor (leaderboard_plugin.rs:715) refuse to open while the screen with their
  button is up, hence always.
- Replay: undone moves stay in the recording, although replay.rs:16-19 says the
  recording is the path to the win; a watched win is a GameWonEvent like any other
  (replay_playback.rs:186).
- Device: a kill between achievements.json and progress.json loses a reward for
  good; the daily date is that of the launch, also after midnight.
- Sync: of two overlapping pushes one is lost until that device pushes again, while
  ARCHITECTURE.md calls sync "additive, never destructive".
- GameState: take_from_foundation is commented "Off by default" and constructed as
  true (game_state.rs:149, 196).
- has_legal_moves (game_plugin.rs:1047) ignores take-backs from foundations, as
  the solver does: a game it calls over may have a take-back left that wins. The other
  way it says yes where nothing helps: its comment (1041-1046) counts a draw cycle
  without a useful drop as stuck, but any card in stock or waste makes it answer yes
  (1055-1060); and a face-up card under others counts as playable on a foundation.
  StuckIsLost is about its "no" only.
- Input: a drop that names a pile and a count is carried out on the pile as it is a
  step later, after a draw or an undo made during the drag; the radial menu
  offers the destinations of a covered card with a count of one; the keyboard lift
  offers an Ace the other foundations, which the game refuses.
- Table: a tick that ends a slide removes, by its deferred command, also the slide a
  change has begun in the same frame; a shake returns its card to the x at which
  it began, wherever the card belongs by then; start_deal_anim sends each card to
  where it is, which handle_new_game has just set to the stock, so that
  in some orders a new deal waits at the stock until the next change. The comment of
  handle_win_cascade that cards have no other animation when it starts is not so
  for the card of the winning move. The rule in card_animation/mod.rs that slide and
  tween are not on one card is broken by a rejected drop of a card lifted in a slide.

## 5. Proofs

All theorems are of the form Spec => []P, Spec => [][A]_vars or a refinement, checked by
tlapm from no assumptions but the named ASSUMEs of the modules (constants are of their
sets, decks are decks, saved profiles are sound and of no week that has not begun, as
they are unless the clock was set back), which TLC evaluates in the passing runs.

**GameStateProofs**: TypeOK, BoardsKept, FlagsExact, InstructionsExact and UndoIsPast
for every deck, number of columns, ranks, mode and undo cap. None is inductive alone: an
undo brings back a snapshot, so `IInv` asks `GoodBoard` of every board *held*. A column
needs both its structure and that a lifted run is a run (`LiftGood`) to stay built when
the run lands on another (`TableauGood`); the recycle needs the facing of the waste
(`RecycleGood`). The flags rest on no snapshot being a won board, since nothing is
played after a win. InstructionsExact needs no invariant of its own: on a good board the
cards the generator lifts are the ones move_cards accepts, compared pile by pile; that
the least count of a run exists is an argument on a least number. UndoIsPast is
inductive as `Linked`, stated of any stack, so that it survives the front of the stack
being dropped.
CardsConserved is an injection: no two places of a board hold the same card
(`OnePlace`), and each operation carries a board's places to the other's one to one
(`CarriedOver`); the deal is stretches of the deck, disjoint by their ends. ScoreEarned
compares the score with the worth of its board, on every board held: an operation
raises the score by no more than the worth (`MoveWorth`), and as no board has more
hidden or unplayed than was dealt (`WithinDeal`) the worth is never negative, so that
clamping a penalty at 0 does not get ahead of it.

**ProfileProofs**: lemmas shared by the two below. A `Good` profile is typed and sound;
every operator maps good profiles to good ones. The hard ones are the average against
the fastest win (integer division, `AverageAboveFastest`), the history cut to its cap
(`NewestFits`) and the statistics of a merge, whose sums agree because wins per draw
mode come from the side with more wins (`MergeStatsGood`). The order `NoLess` is
reflexive and transitive on good profiles and every operator goes up in it, the weekly
counters as long as the week does not go back (`RollWeekGrows`).

**DeviceProofs**: TypeOK, ProfilesSound, FrameCreditsOneWin, SavedAtRest and
DiskNeverLoses. `IInv` makes memory and disk good, and the frame typed; a file saved on
its own keeps the disk good since soundness is a conjunction of conditions on single
files. `RestInv`: a file differs from memory only while it waits to be written; so a
save left out of a system, or a second change of a file already written, would break it.
`GainInv`: the disk is never ahead of memory and no week is ahead of the calendar's, so
writing or losing one file of three never takes anything from another. `FrameInv`: while
a won game is credited the profile is known from the one before the win and the set of
systems that have run (`Stage`), up to the one thing their order decides, whether the
achievements saw the streak of the daily challenge.

**SyncProofs**: TypeOK, CopiesSound, NothingCountedTwice, BoardNeverRegresses,
AdditiveUnlessOverlapping and DevicesAbsorb for any set of devices. `IInv` puts goodness
on every copy, those in answers, pushes and their bases included. `OwnInv`: the row, the
answers and the pushes past the check of the user id are the player's. `TimelyInv`: no
copy is of a week to come. `CountInv`: every copy is backed by what was played, which
holds because a payload after a step is an old one, a device's profile or a merge
(`NewPayloads`), and each counter of a merge is one of its sides' (`MergeOfEither`).
None assumes anything of the id the clients stamp. With a foreign one, as shipped, the
merge of an answer changes nothing; that DevicesAbsorb holds all the same rests on
ForeignStampNeverSyncs, a theorem of its own: no push of such a client is ever stored
(`ForeignInv`), so that each answer is the empty profile, which any profile absorbs
(`StartedInv`).

**AccountProofs**: TypeOK and PromiseKept, the refinement of SessionPromise, for any
number of tokens and accounts. `IInv` adds: serials only grow and no copy of a token is
newer than the last issued (`Serials`); the pair a task is about to store is nowhere
else (`Unshared`) and works unless harmed (`AnswersLive`); which tasks a phase can have
(`Phases`); and `Kept`, that without a fault a session that still works rests on a token
in the keychain, or on its way there (`Sound`), and not on one that another request has
spent. Each action is then a step of SessionPromise or a stutter; `Exit` is a
`Leave`, which may lose the session only while another task's exchange is under way,
because the farewell push has by then stored what it exchanged. The proof
is of the safety part; PullEnds is TLC's.

**PlayProofs** (Input and Solver): DragsOwned, PausedAsksNothing, LiftFresh,
StackIsPlay, VerdictRight and StuckIsLost for every deck and bound. Input's are about
moments between frames or whole frames, so their invariants say what holds in the middle
of one, by the set of systems that have run: a drag whose button came up is cleared by
the chain (`DragInv`), and the radial menu is closed in the frame of whatever pauses,
before or after (`PauseInv`).
LiftFresh is proved on top of them, and of GameStateProofs (whose constants and
assumptions it inherits): draws, recycles, accepted moves, undos and the deal keep the
live board and every board undo can reach `Good`. On a good board LiftFrom takes a
face-up run in sequence, so each destination it lists is a move the game accepts
(`LiftFacts`). `LiftInv` then says when that may stop being true: only once GameMutation
has run, has raised the change event and ClearSelection, which ends the lift, has not
run - and nothing that reads the lift can run in between (`FrameInv`). Without that
exception it is not inductive. `HandsInv` carries the types and that whatever is chosen
or dragged names a pile. The two loops over a sequence (requests, destinations) are
recursive functions, of which `Iterates` shows that they exist and `Stays` what they keep.
Solver's rest on `EnumeratedAccepted`: on a good board every move of enumerate_moves is
one the live game accepts, though it asks other questions (one slot per suit, the longest
face-up run); a run has at most one card per rank (`RunWithinRanks`), which bounds the
counts. `SearchInv` makes each frame's board good and open, its pending moves accepted,
its hash among those met - so that a child with a new hash repeats no board - and holds
the budgets. Winnable is then shown by the boards of the stack and the winning one
(`LineWins`). That Unwinnable is right says that no pruning cuts the last way to win.
`Explored`: every step of play from a position met leads to one that was met, or to a
move yet to be tried, up to a renaming of columns and of slots (`Twin`); once the stack
is empty no play leaves the positions met, and none of these is won. Each cut has its
lemmas: twins have twin steps, which covers the one slot per suit and the king that only
changes columns; two good boards with the same hash are one board, though facing
and the cards under a foundation's top are not hashed; and draws beyond the bound lead
back into the line (`LongDraws`). For the last, stock and waste are read as one order
with a cut in it (`Turns`): a pass turns each group of three around, so two passes bring
the order back, by an induction along the chain of draws (`Circles`).
A board with a distance wins by descent on it (`WonByPlay`), and a play that wins goes
through no other boards (`PlayIsWon`), so both verdicts carry over to VerdictRight. The
same for StuckIsLost: without legal moves no step of play is left (`StuckIsOver`).

**SessionProofs**: TypeOK, EndedNeverReturns, PausedIsVisible, GameOverTrue and
DialogAbandonsCounted for any number of deals and waiting requests. `EndedInv`: deals
are numbered, the live game has ended only if it is won, and the game that waits for the
restore prompt is another one; without that last part a new game would end the game on
offer. PausedIsVisible counts a pause screen whose spawn is still a command: whoever
takes the flag down despawns it. `ScreensInv` speaks of the phases between the change and check_no_moves.
`CountedInv` says, phase by phase, that a Yes in the queue is still unread by the
statistics or its game is counted; a Yes left over behind a refused request keeps it
because only a played game's requests are refused.

**ViewProofs** (Replay, Screens, Table): NothingMissing of Replay and PanelFollowsFlag of
Screens, for every set of moves and every bound. A playback cuts the recording back to what it was in the
playback's first frame, and the next game's first move may be asked for in the frame the
playback ends in: `SizeInv` says at each place of a frame how much the recording can
hold and when the cut has been taken, `OwnInv` that a game of the player's own is
recorded and no playback is on. Of the panel, `PanelInv` adds the commands: the flag is
up or its change unseen wherever a panel is open *or about to be*, and a panel about to
be opened was asked for in this frame, by the one system that looks at the flag. All
other steps are `Calm`: they open no panel, take back no despawn, and the flag has
changed if they touch it.
TableTrue and CascadeEnds of Table hold for every shape of the table, deck, saved game
and number of doings, and for any order of any number of commands at a sync point.
`TableInv` says what holds in the middle of a frame: the sprites show the board, or a
sync is due or queued (`NeedsSync`); what a system has seen agrees with what is drawn in
all that a sync asks of it (`QueueInv`), although the ticks have moved sprites since; a
cascade is asked for only while the game is won. CascadeEnds is not inductive by itself:
a sync keeps the tween of a card that leads home, so a tilted card of the old game must
lead to no place of the new one. `Gone` says it leads out of the window or to a
foundation (a rejected drop over a won game), and a deal puts no card there
(`DealtElsewhere`); `Leaves` carries that to the sync. At a sync point `Between` is kept
by every command, in an induction over the order (`AllApplied`): a sync makes it whole
whatever came before, and no other command undoes it. `SavedAssumption` says the saved
game was played by the rules, which GameStateProofs shows of every game.
StillCardsSettle rests on a second invariant, `SettleInv`, of the cards that lay still at
the last change and are not in the player's hand (`Tended`). Each is on its way
(`OnItsWay`): whatever moves it leads to its place (`Homeward`), and it is there already
in each coordinate unless something moves it that no queued command is about to remove.
The exceptions are what will be made good: a card left astray by a resize until the snap
has run, and one whose sync is still due, which no slide moves meanwhile. The invariant
must also say what the systems have *seen*: the sync puts a card back to where it saw it
and a shake to the x it saw, so both must have seen a struck card at its place
(`SeenRight`); and that sync, shake and shakes each ask once a frame (`OnceInv`), or a
command would undo its own system's later one. `Midway` is its form between two commands,
kept by each in the induction over the order (`AllSettle`).

**Only model-checked**: the liveness properties, AutoCompleteFinishes, PlaybackEnds,
Escapable, PullEnds and SearchEnds, which are out of the prover's reach as ENABLED is.
So is what a recursive definition or an unbounded sum computes for every input; RECURSIVE
operators are in MCSolver alone, to compute Live and Distance.

## 6. Not modelled

- Saturation of u32/u64 counters and i32 scores: no game of feasible length
  reaches them. The random shuffle; the seconds counter; hash collisions.
- The touch pipeline and its long press; hints and their visuals; fullscreen.
- On the table: depth, shadows, labels, card images, flip, settle, flourish, animation
  chains, hover, toasts, the draw-three fan's second constant on Android, two doings
  of the player in one frame.
- In the screens: what they show, scrolling, focus rings, text fields.
- Time attack (a countdown with its own session file); the catalogs of seeds
  (constant tables); themes, assets, audio, splash, settings values and platform
  storage (presentation and whole-file I/O); the web player (a thin wrapper over
  solitaire_core); the server's challenge and replay endpoints (one query each).
- Failed writes (logged by the code and otherwise ignored) and corrupt files (loaded
  as defaults). Conflict reports: no code of the engine reads them.
- On the server: password hashing, signatures, avatars, rate limits.

## 7. Plan

1. **Time attack**: the countdown against pause, win, quit and its session file.
2. **Touch**: the second drag pipeline beside the mouse's, with its early returns
   that leave touch events unread.
3. **Composition**: Replay over GameState instead of lists of moves; Device's win as
   an abstract atomic credit, implemented at rest.
4. **Table**: two doings in one frame; draw three with its wider waste.
