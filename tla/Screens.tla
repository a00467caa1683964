------------------------------ MODULE Screens ------------------------------
(***************************************************************************)
(* The screens of the engine that cover the table: who opens and closes    *)
(* them, by key, by click and by request, and what a system sees of a      *)
(* screen another system has just opened or closed.                        *)
(*                                                                         *)
(* A frame has one input of the player, and every system runs once in it,  *)
(* in an order the schedule leaves open: ran holds the systems that have.  *)
(* Spawns and despawns are commands, applied at a sync point of the        *)
(* schedule or at the end of the frame (Flush).  A request is read in the  *)
(* frame it is written in, or in the next one when its reader has run.     *)
(* The content of a screen is left out, and so is all that its buttons do  *)
(* to anything but screens.                                                *)
(* The initial predicate, the next-state relation and the specification    *)
(* carry the name of the module, so that one module can extend it beside   *)
(* another component and prove about both.                                 *)
(***************************************************************************)
EXTENDS Naturals, FiniteSets

CONSTANTS
  MaxOpen,    (* the player opens a screen only while fewer are open,      *)
              (* those of the first run not counted                        *)
  MaxEvents   (* bound on wins, session dialogs, fetches and logins        *)

ASSUME ScreensAssumption == MaxOpen \in Nat /\ MaxEvents \in Nat

VARIABLES
  input,       (* the player's input of this frame                         *)
  ran,         (* the systems that have run in this frame                  *)
  open,        (* the screens and HUD popovers in the world                *)
  spawning, despawning,   (* commands not applied yet                      *)
  asked,       (* request events nobody has read                           *)
  flag,        (* SettingsScreen                                           *)
  flagChanged, (* sync_settings_panel_visibility has not seen its change   *)
  homeShown,   (* LaunchHomeShown                                          *)
  tasks,       (* background tasks and timers under way                    *)
  events,      (* how many of the MaxEvents events have happened           *)
  quiet        (* the player opens nothing any more                        *)

commands == <<spawning, despawning>>
settings == <<flag, flagChanged>>
pending  == <<tasks, events>>

screensVars ==
  <<input, ran, open, commands, asked, settings, homeShown, pending, quiet>>

---------------------------------------------------------------------------
(* What the spawn functions give their screens: a layer, the buttons that  *)
(* open or close screens, and whether a click beside the card dismisses it. *)

Screen(name, layer, buttons, dismissible) ==
  [name |-> name, layer |-> layer, buttons |-> buttons,
   dismissible |-> dismissible]

StatsScreen        == Screen("stats", 210, {"done"}, TRUE)
AchievementsScreen == Screen("achievements", 210, {"done"}, TRUE)
LeaderboardScreen  == Screen("leaderboard", 210, {"done", "setName"}, TRUE)
ProfileScreen      == Screen("profile", 210, {"done"}, TRUE)
HelpScreen         == Screen("help", 210, {"done"}, TRUE)
HomeScreen         == Screen("home", 210, {"cancel", "mode", "bySeed",
                                           "profile", "repaint"}, TRUE)
PlayBySeedScreen   == Screen("seed", 210, {"cancel", "play"}, TRUE)
SettingsPanel      == Screen("settings", 210, {"done", "connect",
                                               "disconnect", "delete"}, FALSE)
SyncSetupScreen    == Screen("setup", 211, {"cancel", "login"}, FALSE)
DeleteConfirmScreen == Screen("deletion", 212, {"cancel", "forever"}, FALSE)
PauseScreen        == Screen("pause", 220, {"resume", "forfeit"}, FALSE)
ForfeitConfirmScreen == Screen("forfeit", 225, {"answer"}, FALSE)
DisplayNameModal   == Screen("name", 225, {"save", "cancel"}, FALSE)
OnboardingScreen   == Screen("onboarding", 230, {"next", "back", "skip"}, FALSE)
WinSummaryOverlay  == Screen("win", 300, {"again"}, FALSE)

(* The other dialogs of module Session: confirm, restore, game over.       *)
SessionDialog      == Screen("dialog", 210, {"answer"}, FALSE)

(* The HUD's popovers, which have no scrim.                                *)
MenuPopover        == Screen("menu", 55, {"help", "modes", "stats",
                               "achievements", "profile", "settings",
                               "leaderboard", "backdrop"}, FALSE)
ModesPopover       == Screen("modes", 55, {"mode", "backdrop"}, FALSE)

Popovers == {MenuPopover.name, ModesPopover.name}

Screens ==
  {StatsScreen, AchievementsScreen, LeaderboardScreen, ProfileScreen,
   HelpScreen, HomeScreen, PlayBySeedScreen, SettingsPanel, SyncSetupScreen,
   DeleteConfirmScreen, PauseScreen, ForfeitConfirmScreen, DisplayNameModal,
   OnboardingScreen, WinSummaryOverlay, SessionDialog, MenuPopover,
   ModesPopover}

Names == {s.name : s \in Screens}
Open  == {s \in Screens : s.name \in open}

(* The entities with a ModalScrim.                                         *)
Scrims == open \ Popovers
Others(m) == Scrims \ {m}

---------------------------------------------------------------------------
(* The player's input of a frame: nothing, a key, or a click.  A scrim     *)
(* does not keep a click from the buttons below it.                        *)

NoInput == <<"none", "none">>

Keys == {"key"} \X {"O", "S", "A", "P", "L", "F1", "M", "digit", "Enter",
                    "Left", "Esc"}

Clicks ==
  (UNION {{s.name} \X s.buttons : s \in Open})
    \cup ({"hud"} \X {"pause", "help", "modes", "menu"})
    \cup {<<"scrim", s.name>> : s \in {t \in Open : t.dismissible}}

ClosingButtons == {"done", "cancel", "skip", "again", "resume", "answer",
                   "backdrop"}

(* The ways out of the screens on top.  The popovers come first: while one *)
(* is open the pause screen refuses to resume.                             *)
WaysOut ==
  LET first == IF open \cap Popovers # {} THEN {MenuPopover, ModesPopover}
               ELSE {s \in Open : \A t \in Open : t.layer <= s.layer}
  IN UNION {{s.name} \X (s.buttons \cap ClosingButtons) : s \in first \cap Open}

(* The systems that have something to do for an input: those that listen   *)
(* to the key, where it takes an open screen while it is open, or the one  *)
(* handler of the button.                                                  *)
WhileOpen(m, s) == IF m \in open THEN {s} ELSE {}

Listeners(i) ==
  IF i = NoInput THEN {}
  ELSE IF i[1] # "key" THEN (IF i[1] \in Names \ open THEN {} ELSE {"click"})
  ELSE CASE i[2] = "O"     -> {"settings"}
         [] i[2] = "S"     -> {"stats"}
         [] i[2] = "A"     -> {"achievements"}
         [] i[2] = "P"     -> {"profile"}
         [] i[2] = "L"     -> {"leaderboard"}
         [] i[2] = "F1"    -> {"help"}
         [] i[2] = "M"     -> {"home"}
         [] i[2] = "digit" -> WhileOpen("home", "homeDigits")
         [] i[2] = "Enter" -> WhileOpen("seed", "seedConfirm")
                              \cup WhileOpen("win", "winKeys")
                              \cup WhileOpen("forfeit", "forfeitKeys")
                              \cup WhileOpen("onboarding", "onboarding")
         [] i[2] = "Left"  -> WhileOpen("onboarding", "onboarding")
         [] i[2] = "Esc"   -> {"pause"}
                              \cup WhileOpen("profile", "profile")
                              \cup WhileOpen("home", "homeCancel")
                              \cup WhileOpen("seed", "seedCancel")
                              \cup WhileOpen("setup", "setupCancel")
                              \cup WhileOpen("deletion", "deleteCancel")
                              \cup WhileOpen("forfeit", "forfeitKeys")
                              \cup WhileOpen("onboarding", "onboarding")
                              \cup WhileOpen("menu", "popovers")
                              \cup WhileOpen("modes", "popovers")

Pressed(k)    == input = <<"key", k>>
Clicked(m, b) == /\ input = <<m, b>> /\ input' = NoInput
                 /\ m \in Names => m \in open

---------------------------------------------------------------------------
(* Systems and commands.                                                   *)

(* System s is due: for the input, or for a request.                       *)
Due(s) == s \notin ran /\ (s \in Listeners(input) \/ s \in asked)

(* A system writes the requests rs.  A reader that has run in this frame   *)
(* reads them in the next one.                                             *)
Write(rs) ==
  /\ asked' = asked \cup rs
  /\ \E late \in SUBSET (rs \ asked) : ran' = ran \cup late

(* System s has run and has written the requests rs.                       *)
Done(s, rs) ==
  /\ asked' = (asked \ {s}) \cup rs
  /\ \E late \in SUBSET (rs \ asked) : ran' = ran \cup {s} \cup late
  /\ UNCHANGED input

Spawn(m)      == spawning' = spawning \cup {m} /\ UNCHANGED despawning
Despawn(ms)   == despawning' = despawning \cup (ms \cap open)
                 /\ UNCHANGED spawning
Respawn(m)    == /\ despawning' = despawning \cup {m}
                 /\ spawning' = spawning \cup {m}
NoCommands    == UNCHANGED commands

(* What a system leaves alone whose effect is on screens only.             *)
ScreensOnly == UNCHANGED <<open, settings, homeShown, pending, quiet>>

(* A sync point.  A system that listens to the key of this frame while a   *)
(* screen is open may have run before that screen came up.                 *)
Flush ==
  /\ spawning \cup despawning # {}
  /\ open' = (open \ despawning) \cup spawning
  /\ spawning' = {} /\ despawning' = {}
  /\ UNCHANGED <<input, asked, settings, homeShown, pending, quiet>>
  /\ \E early \in SUBSET (Listeners(input)' \ Listeners(input)) :
        ran' = ran \cup early

FrameDone ==
  /\ Listeners(input) \cup asked \subseteq ran
  /\ flagChanged => "settingsPanel" \in ran
  /\ "pause" \in open /\ Others("pause") # {} => "autoResume" \in ran
  /\ ~ homeShown => "dialog" \in open
  /\ spawning = {} /\ despawning = {}

(* The inputs of a player who opens screens, and of one who only wants out *)
(* and waits for what the last click has asked for.                        *)
Inputs ==
  IF ~ quiet
  THEN {NoInput} \cup WaysOut
       \cup IF Cardinality(open \ {"onboarding"}) < MaxOpen THEN Keys \cup Clicks ELSE {}
  ELSE IF open = {} \/ asked # {} THEN {NoInput} ELSE WaysOut

NextFrame ==
  /\ FrameDone
  /\ \E i \in Inputs : input' = i
  /\ ran' = {}
  /\ UNCHANGED <<open, commands, asked, settings, homeShown, pending, quiet>>

Settle ==
  /\ ~ quiet /\ quiet' = TRUE
  /\ FrameDone /\ ran' = {} /\ input' = NoInput
  /\ UNCHANGED <<open, commands, asked, settings, homeShown, pending>>

---------------------------------------------------------------------------
(* The settings panel, the form to connect, and the deletion of the account. *)

SetFlag(b) == flag' = b /\ flagChanged' = TRUE

(* toggle_settings_screen: whatever else is open.                          *)
ToggleSettings ==
  /\ Due("settings")
  /\ SetFlag(~ flag)
  /\ Done("settings", {})
  /\ UNCHANGED <<open, commands, homeShown, pending, quiet>>

(* sync_settings_panel_visibility: looks once at each change of the flag.  *)
(* As a bug: it does nothing while another screen is open.                 *)
SyncSettingsPanelAlone ==
  /\ flagChanged /\ "settingsPanel" \notin ran
  /\ flagChanged' = FALSE
  /\ IF Others("settings") # {} THEN NoCommands
     ELSE IF flag THEN Spawn("settings") ELSE Despawn({"settings"})
  /\ Done("settingsPanel", {})
  /\ UNCHANGED <<open, flag, homeShown, pending, quiet>>

SyncSettingsPanel ==
  /\ flagChanged /\ "settingsPanel" \notin ran
  /\ flagChanged' = FALSE
  /\ IF ~ flag THEN Despawn({"settings"})
     ELSE IF Scrims = {} THEN Spawn("settings") ELSE NoCommands
  /\ Done("settingsPanel", {})
  /\ UNCHANGED <<open, flag, homeShown, pending, quiet>>

(* handle_settings_buttons and handle_sync_buttons.                        *)
SettingsButtons ==
  /\ \/ Clicked("settings", "done") /\ SetFlag(FALSE) /\ Write({})
     \/ /\ Clicked("settings", "connect")
        /\ SetFlag(FALSE) /\ Write({"setup"})
     \/ /\ Clicked("settings", "disconnect")
        /\ UNCHANGED settings /\ Write({"logout"})
     \/ /\ Clicked("settings", "delete")
        /\ UNCHANGED settings /\ Write({"deletion"})
  /\ UNCHANGED <<open, commands, homeShown, pending, quiet>>

(* open_sync_setup_modal: the settings panel may still be despawning.      *)
OpenSyncSetup ==
  /\ Due("setup")
  /\ IF Scrims \subseteq {"settings"} THEN Spawn("setup") ELSE NoCommands
  /\ Done("setup", {})
  /\ ScreensOnly

Start(task) == tasks' = tasks \cup {task}
End(task)   == tasks' = tasks \ {task}

(* Logins, wins and dialogs happen MaxEvents times.                        *)
Event == events < MaxEvents /\ events' = events + 1

(* handle_auth_button                                                      *)
ClickLogin ==
  /\ Clicked("setup", "login")
  /\ IF "login" \notin tasks /\ events < MaxEvents
     THEN Start("login") /\ Event ELSE UNCHANGED pending
  /\ Write({})
  /\ UNCHANGED <<open, commands, settings, homeShown, quiet>>

(* poll_auth_task: a login that succeeds closes the form, and the settings. *)
PollLogin ==
  /\ "login" \in tasks /\ "login" \notin ran
  /\ End("login")
  /\ \/ Despawn({"setup"}) /\ SetFlag(FALSE)
     \/ NoCommands /\ UNCHANGED settings
  /\ Done("login", {})
  /\ UNCHANGED <<open, homeShown, events, quiet>>

(* handle_cancel: Esc closes the form whatever is above it.                *)
CancelSetup ==
  /\ \/ Due("setupCancel") /\ Done("setupCancel", {})
     \/ Clicked("setup", "cancel") /\ Write({})
  /\ Despawn({"setup"})
  /\ ScreensOnly

(* handle_logout                                                           *)
Logout ==
  /\ Due("logout")
  /\ SetFlag(FALSE)
  /\ Done("logout", {})
  /\ UNCHANGED <<open, commands, homeShown, pending, quiet>>

(* open_delete_confirm_modal                                               *)
OpenDeleteConfirm ==
  /\ Due("deletion")
  /\ IF Scrims = {} THEN Spawn("deletion") ELSE NoCommands
  /\ Done("deletion", {})
  /\ ScreensOnly

(* handle_delete_cancel                                                    *)
CancelDelete ==
  /\ \/ Due("deleteCancel") /\ Done("deleteCancel", {})
     \/ Clicked("deletion", "cancel") /\ Write({})
  /\ Despawn({"deletion"})
  /\ ScreensOnly

(* handle_delete_confirm                                                   *)
ConfirmDelete ==
  /\ Clicked("deletion", "forever")
  /\ IF "deletion" \in tasks THEN NoCommands /\ UNCHANGED tasks
     ELSE Despawn({"deletion"}) /\ Start("deletion")
  /\ Write({})
  /\ UNCHANGED <<open, settings, homeShown, events, quiet>>

(* poll_delete_task                                                        *)
PollDelete ==
  /\ "deletion" \in tasks /\ "deleted" \notin ran
  /\ End("deletion")
  /\ \E rs \in {{"logout"}, {}} : Done("deleted", rs)
  /\ UNCHANGED <<open, commands, settings, homeShown, events, quiet>>

---------------------------------------------------------------------------
(* The screens to read.  Stats, leaderboard and profile open over whatever *)
(* is open; achievements, help and home only over an empty table.          *)

Toggle(m, gated) ==
  IF m \in open THEN Despawn({m})
  ELSE IF gated /\ Scrims # {} THEN NoCommands ELSE Spawn(m)

ToggleStats ==
  Due("stats") /\ Toggle("stats", FALSE) /\ Done("stats", {}) /\ ScreensOnly

ToggleAchievements ==
  /\ Due("achievements") /\ Toggle("achievements", TRUE)
  /\ Done("achievements", {}) /\ ScreensOnly

ToggleHelp ==
  Due("help") /\ Toggle("help", TRUE) /\ Done("help", {}) /\ ScreensOnly

(* toggle_profile_screen: Esc only closes.                                 *)
ToggleProfile ==
  /\ Due("profile")
  /\ IF "profile" \in open \/ Pressed("P") \/ "profile" \in asked
     THEN Toggle("profile", FALSE) ELSE NoCommands
  /\ Done("profile", {})
  /\ ScreensOnly

(* The Done buttons of these screens and of the help screen.               *)
CloseScreen ==
  /\ \E m \in {"stats", "achievements", "profile", "help"} :
        Clicked(m, "done") /\ Despawn({m})
  /\ Write({})
  /\ ScreensOnly

(* The leaderboard's systems are chained: the toggle and the Done button   *)
(* come before the fetch is polled.                                        *)
BeforeFetch == "fetch" \notin ran

(* toggle_leaderboard_screen, with ClosedThisFrame as a mark in ran.       *)
ToggleLeaderboard ==
  /\ Due("leaderboard") /\ BeforeFetch
  /\ Toggle("leaderboard", FALSE)
  /\ IF "leaderboard" \notin open /\ "fetch" \notin tasks /\ events < MaxEvents
     THEN Start("fetch") /\ Event ELSE UNCHANGED pending
  /\ ran' = ran \cup {"leaderboard"}
                \cup (IF "leaderboard" \in open THEN {"closedThisFrame"} ELSE {})
  /\ asked' = asked \ {"leaderboard"}
  /\ UNCHANGED <<input, open, settings, homeShown, quiet>>

(* handle_leaderboard_close_button                                         *)
CloseLeaderboard ==
  /\ Clicked("leaderboard", "done") /\ BeforeFetch
  /\ Despawn({"leaderboard"})
  /\ ran' = ran \cup {"closedThisFrame"}
  /\ UNCHANGED <<open, asked, settings, homeShown, pending, quiet>>

(* Whether update_leaderboard_panel rebuilds the panel.  As a bug: also    *)
(* when it is not open.                                                    *)
RebuildsAlways == "closedThisFrame" \notin ran
Rebuilds == "leaderboard" \in open /\ "closedThisFrame" \notin ran

(* poll_leaderboard_fetch, update_leaderboard_panel                        *)
PollFetch ==
  /\ "fetch" \in tasks /\ "fetch" \notin ran
  /\ "leaderboard" \in Listeners(input) \cup asked => "leaderboard" \in ran
  /\ input # <<"leaderboard", "done">>
  /\ End("fetch")
  /\ IF Rebuilds THEN Respawn("leaderboard") ELSE NoCommands
  /\ Done("fetch", {})
  /\ UNCHANGED <<open, settings, homeShown, events, quiet>>

(* handle_set_display_name_button.  Its button is part of a screen that is *)
(* open when it is clicked, so that the editor never opens.                *)
SetDisplayName ==
  /\ Clicked("leaderboard", "setName")
  /\ IF Scrims = {} THEN Spawn("name") ELSE NoCommands
  /\ Write({})
  /\ ScreensOnly

---------------------------------------------------------------------------
(* Home, onboarding, the seed dialog and the win summary.                  *)

(* spawn_home_on_launch, in the first frame after the splash in which no   *)
(* restored game waits for an answer, whatever else is open.               *)
LaunchHome ==
  /\ ~ homeShown /\ "home" \notin open /\ "dialog" \notin open
  /\ "home" \notin ran
  /\ homeShown' = TRUE
  /\ Spawn("home")
  /\ Done("home", {})
  /\ UNCHANGED <<open, settings, pending, quiet>>

ToggleHome ==
  Due("home") /\ Toggle("home", TRUE) /\ Done("home", {}) /\ ScreensOnly

(* handle_home_card_click, handle_home_difficulty_chip_click: a card asks  *)
(* for its mode, or for the seed dialog, and home goes.  A mode that is    *)
(* still locked leaves home open.                                          *)
ClickHomeCard ==
  /\ \/ Clicked("home", "mode") /\ Write({}) /\ (Despawn({"home"}) \/ NoCommands)
     \/ Clicked("home", "bySeed") /\ Write({"seed"}) /\ Despawn({"home"})
  /\ ScreensOnly

(* handle_home_digit_keys: the same by key, whatever is above home.        *)
HomeDigits ==
  /\ Due("homeDigits")
  /\ \/ Despawn({"home"}) /\ \E rs \in {{}, {"seed"}} : Done("homeDigits", rs)
     \/ NoCommands /\ Done("homeDigits", {})
  /\ ScreensOnly

(* handle_home_cancel_button: Esc only when home is alone.                 *)
CancelHome ==
  /\ \/ Clicked("home", "cancel") /\ Despawn({"home"}) /\ Write({})
     \/ /\ Due("homeCancel")
        /\ IF Others("home") = {} THEN Despawn({"home"}) ELSE NoCommands
        /\ Done("homeCancel", {})
  /\ ScreensOnly

(* handle_home_profile_chip                                                *)
ClickProfileChip ==
  /\ Clicked("home", "profile")
  /\ Write({"profile"})
  /\ NoCommands /\ ScreensOnly

(* handle_home_draw_mode_buttons, handle_home_difficulty_toggle: repainted *)
(* by a respawn, when nothing is above it.                                 *)
RepaintHome ==
  /\ Clicked("home", "repaint")
  /\ IF "home" \in open /\ Others("home") = {} THEN Respawn("home") ELSE NoCommands
  /\ Write({})
  /\ ScreensOnly

(* complete_onboarding, and the next or the previous slide.                *)
CompleteOnboarding == Despawn({"onboarding"})
TurnSlide == Respawn("onboarding")

(* handle_onboarding_buttons: Next on the last slide is the end.           *)
OnboardingButtons ==
  /\ \/ Clicked("onboarding", "next") /\ (TurnSlide \/ CompleteOnboarding)
     \/ Clicked("onboarding", "back") /\ (TurnSlide \/ NoCommands)
     \/ Clicked("onboarding", "skip") /\ CompleteOnboarding
  /\ Write({})
  /\ ScreensOnly

(* handle_onboarding_keyboard: whatever is above it.                       *)
OnboardingKeys ==
  /\ Due("onboarding")
  /\ \/ Pressed("Esc") /\ CompleteOnboarding
     \/ Pressed("Enter") /\ (TurnSlide \/ CompleteOnboarding)
     \/ Pressed("Left") /\ (TurnSlide \/ NoCommands)
  /\ Done("onboarding", {})
  /\ ScreensOnly

(* handle_open_dialog                                                      *)
OpenSeedDialog ==
  /\ Due("seed")
  /\ IF Scrims = {} THEN Spawn("seed") ELSE NoCommands
  /\ Done("seed", {})
  /\ ScreensOnly

(* handle_confirm: nothing happens while no number has been typed.         *)
ConfirmSeed ==
  /\ \/ Clicked("seed", "play") /\ Write({})
     \/ Due("seedConfirm") /\ Done("seedConfirm", {})
  /\ Despawn({"seed"}) \/ NoCommands
  /\ ScreensOnly

(* handle_cancel                                                           *)
CancelSeed ==
  /\ \/ Clicked("seed", "cancel") /\ Despawn({"seed"}) /\ Write({})
     \/ /\ Due("seedCancel")
        /\ IF Others("seed") = {} THEN Despawn({"seed"}) ELSE NoCommands
        /\ Done("seedCancel", {})
  /\ ScreensOnly

(* spawn_win_summary_after_delay: a win starts the delay; what is open     *)
(* when it ends decides whether the summary is ever shown.                 *)
Win ==
  /\ Event /\ "winSummary" \notin ran
  /\ Start("winDelay")
  /\ Despawn({"win"})
  /\ Done("winSummary", {})
  /\ UNCHANGED <<open, settings, homeShown, quiet>>

ShowWinSummary ==
  /\ "winDelay" \in tasks /\ "winSummary" \notin ran
  /\ End("winDelay")
  /\ IF Scrims = {} THEN Spawn("win") ELSE NoCommands
  /\ Done("winSummary", {})
  /\ UNCHANGED <<open, settings, homeShown, events, quiet>>

(* handle_win_summary_buttons, handle_win_summary_keyboard                 *)
LeaveWinSummary ==
  /\ \/ Clicked("win", "again") /\ Write({})
     \/ Due("winKeys") /\ Done("winKeys", {})
  /\ Despawn({"win"})
  /\ ScreensOnly

---------------------------------------------------------------------------
(* Pause, the dialogs of a session, and the HUD.                           *)

(* toggle_pause.  A replay that plays, a selected card or a drag on the    *)
(* table keeps the pause screen from opening.                              *)
TogglePause ==
  /\ Due("pause")
  /\ IF Others("pause") # {} \/ open \cap Popovers # {} THEN NoCommands
     ELSE \/ Toggle("pause", FALSE)
          \/ "pause" \notin open /\ NoCommands
  /\ Done("pause", {})
  /\ ScreensOnly

(* auto_resume_on_overlay.  As a bug: the pause screen stays.              *)
AutoResumeNever ==
  /\ "autoResume" \notin ran
  /\ "pause" \in open /\ Others("pause") # {}
  /\ NoCommands
  /\ Done("autoResume", {})
  /\ ScreensOnly

AutoResume ==
  /\ "autoResume" \notin ran
  /\ "pause" \in open /\ Others("pause") # {}
  /\ IF Others("pause") = {"forfeit"} THEN NoCommands ELSE Despawn({"pause"})
  /\ Done("autoResume", {})
  /\ ScreensOnly

(* handle_pause_resume_button, handle_pause_forfeit_button                 *)
PauseButtons ==
  /\ \/ Clicked("pause", "resume") /\ Write({"pause"})
     \/ Clicked("pause", "forfeit") /\ Write({"forfeit"})
  /\ NoCommands /\ ScreensOnly

(* handle_forfeit_request, for a game that is not won yet.                 *)
HandleForfeitRequest ==
  /\ Due("forfeit")
  /\ (IF "forfeit" \in open THEN NoCommands ELSE Spawn("forfeit")) \/ NoCommands
  /\ Done("forfeit", {})
  /\ ScreensOnly

(* close_forfeit_modal: Yes closes the pause screen too.  By click, or by  *)
(* key (Y and N do no more to screens than the buttons); toggle_pause has  *)
(* run by then, and still sees the dialog an Esc closes.                   *)
Forfeited == Despawn({"forfeit", "pause"})
Declined  == Despawn({"forfeit"})

AnswerForfeit ==
  /\ \/ Clicked("forfeit", "answer") /\ Write({}) /\ (Forfeited \/ Declined)
     \/ /\ Due("forfeitKeys")
        /\ "pause" \in Listeners(input) \cup asked => "pause" \in ran
        /\ IF Pressed("Esc") THEN Declined ELSE Forfeited
        /\ Done("forfeitKeys", {})
  /\ ScreensOnly

(* The other dialogs of a session open by themselves.                      *)
OpenSessionDialog ==
  /\ Event /\ "dialog" \notin ran /\ "dialog" \notin open
  /\ Spawn("dialog")
  /\ Done("dialog", {})
  /\ UNCHANGED <<open, settings, homeShown, tasks, quiet>>

AnswerSessionDialog ==
  /\ Clicked("dialog", "answer")
  /\ Despawn({"dialog"})
  /\ Write({})
  /\ ScreensOnly

(* handle_pause_button, handle_help_button                                 *)
HudButtons ==
  /\ \E b \in {"pause", "help"} : Clicked("hud", b) /\ Write({b})
  /\ NoCommands /\ ScreensOnly

(* handle_menu_button                                                      *)
MenuButton ==
  /\ Clicked("hud", "menu")
  /\ Toggle("menu", TRUE)
  /\ Write({})
  /\ ScreensOnly

(* handle_modes_button                                                     *)
ModesButton ==
  /\ Clicked("hud", "modes")
  /\ Toggle("modes", FALSE)
  /\ Write({})
  /\ ScreensOnly

(* handle_menu_option_click                                                *)
MenuOptionClick ==
  \E o \in MenuPopover.buttons \ {"backdrop"} :
     /\ Clicked("menu", o)
     /\ IF o = "modes"
        THEN /\ despawning' = despawning \cup ({"menu"} \cap open)
             /\ spawning' = spawning \cup {"modes"}
             /\ Write({})
        ELSE Despawn({"menu"}) /\ Write({o})
     /\ ScreensOnly

(* handle_mode_option_click, and the clicks beside a popover.              *)
ClosePopover ==
  /\ \/ /\ \E p \in Popovers : Clicked(p, "backdrop") /\ Despawn({p})
        /\ Write({})
     \/ Clicked("modes", "mode") /\ Despawn({"modes"}) /\ Write({})
  /\ ScreensOnly

(* close_modes_popover_on_escape, close_menu_popover_on_escape             *)
EscapePopovers ==
  /\ Due("popovers")
  /\ Despawn(Popovers)
  /\ Done("popovers", {})
  /\ ScreensOnly

(* dismiss_modal_on_scrim_click: one dismissible screen, whichever the     *)
(* query meets first.                                                      *)
ClickScrim ==
  /\ \E m \in Names : Clicked("scrim", m) /\ (Despawn({m}) \/ NoCommands)
  /\ Write({})
  /\ ScreensOnly

---------------------------------------------------------------------------
(* A launch: the slides of a first run are open before the first frame.    *)
ScreensInit ==
  /\ input = NoInput /\ ran = {} /\ asked = {}
  /\ open \in {{}, {"onboarding"}}
  /\ spawning = {} /\ despawning = {}
  /\ flag = FALSE /\ flagChanged = TRUE
  /\ homeShown = FALSE
  /\ tasks = {} /\ events = 0
  /\ quiet = FALSE

(* The player's own doing is Settle and the choice of an input; every      *)
(* other step is a system's.                                               *)
ScreensNext ==
  \/ Flush \/ NextFrame \/ Settle
  \/ ToggleSettings \/ SyncSettingsPanel \/ SettingsButtons
  \/ OpenSyncSetup \/ ClickLogin \/ PollLogin \/ CancelSetup \/ Logout
  \/ OpenDeleteConfirm \/ CancelDelete \/ ConfirmDelete \/ PollDelete
  \/ ToggleStats \/ ToggleAchievements \/ ToggleHelp \/ ToggleProfile
  \/ CloseScreen \/ ToggleLeaderboard \/ CloseLeaderboard \/ PollFetch
  \/ SetDisplayName
  \/ LaunchHome \/ ToggleHome \/ ClickHomeCard \/ HomeDigits \/ CancelHome
  \/ ClickProfileChip \/ RepaintHome \/ OnboardingButtons \/ OnboardingKeys
  \/ OpenSeedDialog \/ ConfirmSeed \/ CancelSeed
  \/ Win \/ ShowWinSummary \/ LeaveWinSummary
  \/ TogglePause \/ AutoResume \/ PauseButtons \/ HandleForfeitRequest
  \/ AnswerForfeit \/ OpenSessionDialog \/ AnswerSessionDialog
  \/ HudButtons \/ MenuButton \/ ModesButton \/ MenuOptionClick
  \/ ClosePopover \/ EscapePopovers \/ ClickScrim

(* Frames follow one another, and each system runs in its frame.           *)
ScreensSpec ==
  ScreensInit /\ [][ScreensNext]_screensVars /\ WF_screensVars(ScreensNext)

---------------------------------------------------------------------------
ScreensTypeOK ==
  /\ input \in {NoInput} \cup Keys \cup (Names \cup {"hud", "scrim"}) \X
                 ((UNION {s.buttons : s \in Screens})
                    \cup {"pause", "menu", "modes"} \cup Names)
  /\ open \subseteq Names /\ spawning \subseteq Names
  /\ despawning \subseteq open
  /\ asked \subseteq Names \cup {"logout"}
  /\ flag \in BOOLEAN /\ flagChanged \in BOOLEAN
  /\ homeShown \in BOOLEAN
  /\ tasks \subseteq {"login", "deletion", "fetch", "winDelay"}
  /\ events \in 0 .. MaxEvents
  /\ quiet \in BOOLEAN

AtRest == spawning = {} /\ despawning = {}

(* Settings is a flag that one system turns into a panel, and six systems  *)
(* clear the flag: whichever did, and whatever was being spawned in the    *)
(* same frame, no panel outlives its flag.  (And every variable has its    *)
(* type: nothing is closed that is not open.)                              *)
PanelFollowsFlag ==
  /\ ScreensTypeOK
  /\ AtRest /\ ~ flagChanged /\ ~ flag => "settings" \notin open

(* A player who opens nothing any more gets back to the table, whatever    *)
(* was piled up: no screen can be left open for good.                      *)
Escapable == <>quiet => <>[](open = {})
=============================================================================
