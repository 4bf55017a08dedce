---------------------------- MODULE DesktopShell ----------------------------
(***************************************************************************)
(* The desktop app's main process (electron/main.js): it spawns the engine *)
(* and waits for its health, opens the window, watches the page in it      *)
(* (renderer-recovery.js), says once that the engine failed                *)
(* (fatal-error.js), and stops the engine on the way out                   *)
(* (backend-process.js).  Each action is one turn of the main process's    *)
(* event loop, or a step of the engine, of the page or of the researcher.  *)
(***************************************************************************)
EXTENDS Naturals

CONSTANTS MaxPages,  \* renderer processes in a run
          NoKill     \* no kill was asked for

ASSUME PagesAssumption == MaxPages \in Nat \ {0}
ASSUME KillAssumption == NoKill \notin Nat  \* processes are numbers

VARIABLES
  platform,       \* "win32" or "posix"
  \* the engine and what node will report of it
  engine, killed, news, drain, grace, taskkillFailed,
  \* module state of main.js; whether the app is gone
  startup, backendExited, isQuitting, crashReported, engineDialog, exited,
  \* the windows, and what they were asked
  splash, window, closeAsked, quitting,
  \* the page in the window
  page, pid, dirty, goneNews,
  \* attachRendererRecovery
  crashDialogOpen, hangDialog, deliberateKill, expired, fallbacks, reloadDue, signalled

engineVars == <<engine, killed, news, drain, grace, taskkillFailed>>
mainVars == <<startup, backendExited, crashReported, engineDialog>>
quitVars == <<isQuitting, quitting, exited>>
windowVars == <<splash, window, closeAsked>>
pageVars == <<page, pid, dirty, goneNews>>
recoveryVars == <<crashDialogOpen, hangDialog, deliberateKill, expired, fallbacks,
                  reloadDue, signalled>>
vars == <<platform, engineVars, mainVars, quitVars, windowVars, pageVars, recoveryVars>>

Alive == engine \in {"starting", "healthy"}
\* showMessageBoxSync holds the main process: no event is handled under it.
Turn == ~exited /\ engineDialog # "up"
NoWindow(s, w) == s = "gone" /\ w \in {"none", "closed"}

------------------------------------------------------------------------------
\* Quitting: before-quit, stopBackend, and the windows asked to close.

\* Mutant: the Windows kill is started and not waited for.
StopEngineUnwaited ==
  IF ~Alive THEN UNCHANGED engineVars
  ELSE /\ engine' = "stopping"
       /\ killed' = TRUE
       /\ grace' = IF platform = "posix" THEN "set" ELSE grace
       /\ UNCHANGED <<news, drain, taskkillFailed>>

\* stopBackend: SIGTERM and a grace period, or taskkill until it is done.
StopEngine ==
  \/ /\ ~Alive
     /\ UNCHANGED engineVars
  \/ /\ Alive /\ platform = "posix"
     /\ engine' = "stopping"
     /\ killed' = TRUE
     /\ grace' = "set"
     /\ UNCHANGED <<news, drain, taskkillFailed>>
  \/ /\ Alive /\ platform = "win32"
     /\ engine' = "ended"
     /\ news' = news \cup {"exit", "close"}
     /\ UNCHANGED <<killed, drain, grace, taskkillFailed>>
  \/ /\ Alive /\ platform = "win32"
     /\ taskkillFailed' = TRUE
     /\ UNCHANGED <<engine, killed, news, drain, grace>>

\* app.quit(): before-quit runs at once; with no window left the app is gone.
Quit(s, w) ==
  /\ isQuitting' = TRUE
  /\ StopEngine
  /\ quitting' = TRUE
  /\ exited' = NoWindow(s, w)

\* Electron then asks every window there is to close.
QuitWindows ==
  /\ Quit(splash, window)
  /\ splash' = IF splash = "open" THEN "closing" ELSE splash
  /\ closeAsked' = (window \in {"hidden", "shown"})
  /\ UNCHANGED window

\* Mutant: the crash dialog does not hold it up.
AllClosedAlways(s, w) ==
  IF ~NoWindow(s, w) THEN UNCHANGED <<quitVars, engineVars>>
  ELSE IF quitting THEN exited' = TRUE /\ UNCHANGED <<isQuitting, quitting, engineVars>>
  ELSE Quit(s, w)

\* A window went.  If it was the last one, a quit under way is over; else
\* 'window-all-closed' quits, but not under the crash dialog.
AllClosed(s, w) ==
  IF ~NoWindow(s, w) THEN UNCHANGED <<quitVars, engineVars>>
  ELSE IF quitting THEN exited' = TRUE /\ UNCHANGED <<isQuitting, quitting, engineVars>>
  ELSE IF engineDialog # "no" THEN UNCHANGED <<quitVars, engineVars>>
  ELSE Quit(s, w)

\* The menu's Quit, or an update to restart into.
QuitAsked ==
  /\ Turn
  /\ platform = "posix" \/ (startup = "up" /\ page = "alive")
  /\ QuitWindows
  /\ UNCHANGED <<platform, mainVars, pageVars, recoveryVars>>

\* SIGTERM set child.killed, which is what the timer looks at.
GraceOver ==
  /\ Turn
  /\ grace = "set"
  /\ grace' = "over"
  /\ IF ~backendExited /\ ~killed THEN engine' = "ended" /\ news' = news \cup {"exit", "close"}
     ELSE UNCHANGED <<engine, news>>
  /\ UNCHANGED <<platform, killed, drain, taskkillFailed, mainVars, quitVars, windowVars,
                 pageVars, recoveryVars>>

------------------------------------------------------------------------------
\* The crash dialog of the engine: reportCrash and showCrashDialog.

Report ==
  IF crashReported \/ isQuitting THEN UNCHANGED <<crashReported, engineDialog, splash>>
  ELSE /\ crashReported' = TRUE
       /\ engineDialog' = "up"
       /\ splash' = IF splash = "open" THEN "closing" ELSE splash

CopyDetails ==
  /\ engineDialog = "up"
  /\ engineDialog' = "copying"
  /\ UNCHANGED <<platform, engineVars, startup, backendExited, crashReported, quitVars,
                 windowVars, pageVars, recoveryVars>>

\* The dialog comes back once the clipboard has answered.
AskAgain ==
  /\ Turn
  /\ engineDialog = "copying"
  /\ engineDialog' = "up"
  /\ UNCHANGED <<platform, engineVars, startup, backendExited, crashReported, quitVars,
                 windowVars, pageVars, recoveryVars>>

QuitDialog ==
  /\ engineDialog = "up"
  /\ ~exited
  /\ engineDialog' = "no"
  /\ QuitWindows
  /\ UNCHANGED <<platform, startup, backendExited, crashReported, pageVars, recoveryVars>>

------------------------------------------------------------------------------
\* The engine and its child-process events.

Ended == engine' = "ended" /\ \E n \in {{"exit"}, {"exit", "close"}} : news' = news \cup n

EngineHealthy ==
  /\ engine = "starting"
  /\ engine' = "healthy"
  /\ UNCHANGED <<platform, killed, news, drain, grace, taskkillFailed, mainVars, quitVars,
                 windowVars, pageVars, recoveryVars>>

\* It was never started: neither 'exit' nor 'close' will come.
EngineNeverStarts ==
  /\ engine = "starting"
  /\ startup = "health"
  /\ engine' = "never"
  /\ news' = news \cup {"error"}
  /\ UNCHANGED <<platform, killed, drain, grace, taskkillFailed, mainVars, quitVars,
                 windowVars, pageVars, recoveryVars>>

\* It dies, or finishes the shutdown it was asked for.  Its stdio may be held
\* open elsewhere: then 'close' never comes.
EngineEnds ==
  /\ engine \in {"starting", "healthy", "stopping"}
  /\ Ended
  /\ UNCHANGED <<platform, killed, drain, grace, taskkillFailed, mainVars, quitVars,
                 windowVars, pageVars, recoveryVars>>

\* Mutant: 'exit' waits for 'close' to report.
OnExitWaiting ==
  /\ Turn
  /\ "exit" \in news
  /\ news' = news \ {"exit"}
  /\ backendExited' = TRUE
  /\ UNCHANGED <<platform, engine, killed, drain, grace, taskkillFailed, startup, crashReported,
                 engineDialog, quitVars, windowVars, pageVars, recoveryVars>>

OnExit ==
  /\ Turn
  /\ "exit" \in news
  /\ news' = news \ {"exit"}
  /\ backendExited' = TRUE
  /\ drain' = (drain \/ ~isQuitting)
  /\ UNCHANGED <<platform, engine, killed, grace, taskkillFailed, startup, crashReported,
                 engineDialog, quitVars, windowVars, pageVars, recoveryVars>>

DrainOver ==
  /\ Turn
  /\ drain
  /\ drain' = FALSE
  /\ Report
  /\ UNCHANGED <<platform, engine, killed, news, grace, taskkillFailed, startup, backendExited,
                 quitVars, window, closeAsked, pageVars, recoveryVars>>

OnClose ==
  /\ Turn
  /\ "close" \in news /\ "exit" \notin news
  /\ news' = news \ {"close"}
  /\ Report
  /\ UNCHANGED <<platform, engine, killed, drain, grace, taskkillFailed, startup, backendExited,
                 quitVars, window, closeAsked, pageVars, recoveryVars>>

OnError ==
  /\ Turn
  /\ "error" \in news
  /\ news' = news \ {"error"}
  /\ backendExited' = TRUE
  /\ Report
  /\ UNCHANGED <<platform, engine, killed, drain, grace, taskkillFailed, startup, quitVars,
                 window, closeAsked, pageVars, recoveryVars>>

------------------------------------------------------------------------------
\* startup(): waitForHealth, createMainWindow.

\* /health answered 200.  Nothing asks whether the app is quitting.
OpenWindow ==
  /\ Turn
  /\ startup = "health"
  /\ engine = "healthy"
  /\ startup' = "load"
  /\ window' = "hidden"
  /\ page' = "alive"
  /\ pid' = 1
  /\ UNCHANGED <<platform, engineVars, backendExited, crashReported, engineDialog, quitVars,
                 splash, closeAsked, dirty, goneNews, recoveryVars>>

\* The engine exited first, or a minute passed.
HealthFails ==
  /\ Turn
  /\ startup = "health"
  /\ engine # "healthy"
  /\ startup' = "failed"
  /\ Report
  /\ UNCHANGED <<platform, engineVars, backendExited, quitVars, window, closeAsked, pageVars,
                 recoveryVars>>

Loaded ==
  /\ Turn
  /\ startup = "load"
  /\ page = "alive" /\ engine = "healthy"
  /\ startup' = "up"
  /\ UNCHANGED <<platform, engineVars, backendExited, crashReported, engineDialog, quitVars,
                 windowVars, pageVars, recoveryVars>>

LoadFails ==
  /\ Turn
  /\ startup = "load"
  /\ engine # "healthy"
  /\ startup' = "failed"
  /\ Report
  /\ UNCHANGED <<platform, engineVars, backendExited, quitVars, window, closeAsked, pageVars,
                 recoveryVars>>

ReadyToShow ==
  /\ Turn
  /\ window = "hidden" /\ page = "alive"
  /\ window' = "shown"
  /\ splash' = IF splash = "open" THEN "closing" ELSE splash
  /\ UNCHANGED <<platform, engineVars, mainVars, quitVars, closeAsked, pageVars, recoveryVars>>

------------------------------------------------------------------------------
\* Windows closing.

CloseSplash ==
  /\ Turn
  /\ splash = "open"
  /\ splash' = "closing"
  /\ UNCHANGED <<platform, engineVars, mainVars, quitVars, window, closeAsked, pageVars,
                 recoveryVars>>

SplashGone ==
  /\ Turn
  /\ splash = "closing"
  /\ splash' = "gone"
  /\ AllClosed("gone", window)
  /\ UNCHANGED <<platform, mainVars, window, closeAsked, pageVars, recoveryVars>>

CloseWindow ==
  /\ Turn
  /\ window = "shown" /\ ~closeAsked /\ ~crashDialogOpen /\ ~hangDialog
  /\ closeAsked' = TRUE
  /\ UNCHANGED <<platform, engineVars, mainVars, quitVars, splash, window, pageVars, recoveryVars>>

\* The page lets its window go, or it is dead; a hung one does neither.  'closed'
\* ends the recovery's interest in the window.
WindowGone ==
  /\ Turn
  /\ closeAsked
  /\ page = "gone" \/ (page = "alive" /\ ~dirty)
  /\ window' = "closed"
  /\ closeAsked' = FALSE
  /\ AllClosed(splash, "closed")
  /\ page' = "gone" /\ goneNews' = FALSE
  /\ hangDialog' = FALSE /\ crashDialogOpen' = FALSE
  /\ deliberateKill' = NoKill
  /\ UNCHANGED <<platform, mainVars, splash, pid, dirty, expired, fallbacks, reloadDue, signalled>>

\* WritingCanvas's beforeunload keeps it: Electron forgets the quit, main.js
\* does not.
WindowKept ==
  /\ Turn
  /\ closeAsked
  /\ page = "alive" /\ dirty
  /\ closeAsked' = FALSE
  /\ quitting' = FALSE
  /\ UNCHANGED <<platform, engineVars, mainVars, isQuitting, exited, splash, window, pageVars,
                 recoveryVars>>

------------------------------------------------------------------------------
\* The page.

Type ==
  /\ page = "alive" /\ window = "shown" /\ startup = "up" /\ ~exited
  /\ ~dirty
  /\ dirty' = TRUE
  /\ UNCHANGED <<platform, engineVars, mainVars, quitVars, windowVars, page, pid, goneNews,
                 recoveryVars>>

Saved ==
  /\ page = "alive" /\ engine = "healthy" /\ ~exited
  /\ dirty
  /\ dirty' = FALSE
  /\ UNCHANGED <<platform, engineVars, mainVars, quitVars, windowVars, page, pid, goneNews,
                 recoveryVars>>

Hang ==
  /\ page = "alive" /\ pid < MaxPages /\ ~exited
  /\ page' = "hung"
  /\ UNCHANGED <<platform, engineVars, mainVars, quitVars, windowVars, pid, dirty, goneNews,
                 recoveryVars>>

\* 'responsive' takes the question away.
Recover ==
  /\ Turn
  /\ page = "hung"
  /\ page' = "alive"
  /\ hangDialog' = FALSE
  /\ UNCHANGED <<platform, engineVars, mainVars, quitVars, windowVars, pid, dirty, goneNews,
                 crashDialogOpen, deliberateKill, expired, fallbacks, reloadDue, signalled>>

Gone == page' = "gone" /\ goneNews' = TRUE /\ UNCHANGED <<pid, dirty>>

PageDies ==
  /\ page \in {"alive", "hung"} /\ pid < MaxPages /\ ~exited
  /\ Gone
  /\ UNCHANGED <<platform, engineVars, mainVars, quitVars, windowVars, recoveryVars>>

------------------------------------------------------------------------------
\* attachRendererRecovery.

WindowAlive == window \in {"hidden", "shown"} /\ ~isQuitting
KillAskedFor == deliberateKill # NoKill  \* mutant: whenever it was
KillInFlight == deliberateKill # NoKill /\ ~expired

Reload == /\ page' = "alive"
          /\ pid' = pid + 1
          /\ dirty' = FALSE
          /\ UNCHANGED goneNews

\* Mutant: the question about the hang stays beside the one about the crash.
OnGoneKeepingTheQuestion ==
  /\ Turn
  /\ goneNews
  /\ goneNews' = FALSE
  /\ deliberateKill' = NoKill
  /\ IF KillInFlight
     THEN /\ reloadDue' = TRUE
          /\ UNCHANGED <<crashDialogOpen, hangDialog>>
     ELSE /\ crashDialogOpen' = (crashDialogOpen \/ WindowAlive)
          /\ UNCHANGED <<reloadDue, hangDialog>>
  /\ UNCHANGED <<platform, engineVars, mainVars, quitVars, windowVars, page, pid, dirty,
                 expired, fallbacks, signalled>>

\* 'render-process-gone': the kill that was asked for reloads on the next tick,
\* anything else asks.
OnGone ==
  /\ Turn
  /\ goneNews
  /\ goneNews' = FALSE
  /\ deliberateKill' = NoKill
  /\ IF KillInFlight
     THEN /\ reloadDue' = TRUE
          /\ UNCHANGED <<crashDialogOpen, hangDialog>>
     ELSE /\ crashDialogOpen' = (crashDialogOpen \/ WindowAlive)
          /\ hangDialog' = (hangDialog /\ ~(WindowAlive /\ ~crashDialogOpen))
          /\ UNCHANGED reloadDue
  /\ UNCHANGED <<platform, engineVars, mainVars, quitVars, windowVars, page, pid, dirty,
                 expired, fallbacks, signalled>>

ReloadTick ==
  /\ Turn
  /\ reloadDue
  /\ reloadDue' = FALSE
  /\ IF WindowAlive THEN Reload ELSE UNCHANGED pageVars
  /\ UNCHANGED <<platform, engineVars, mainVars, quitVars, windowVars, crashDialogOpen,
                 hangDialog, deliberateKill, expired, fallbacks, signalled>>

\* Reload this page, or open the project list.
AnswerCrash ==
  /\ Turn
  /\ crashDialogOpen
  /\ crashDialogOpen' = FALSE
  /\ IF WindowAlive THEN Reload ELSE UNCHANGED pageVars
  /\ UNCHANGED <<platform, engineVars, mainVars, quitVars, windowVars, hangDialog,
                 deliberateKill, expired, fallbacks, reloadDue, signalled>>

AnswerCrashQuit ==
  /\ Turn
  /\ crashDialogOpen /\ WindowAlive
  /\ crashDialogOpen' = FALSE
  /\ QuitWindows
  /\ UNCHANGED <<platform, mainVars, pageVars, hangDialog, deliberateKill, expired, fallbacks,
                 reloadDue, signalled>>

OnUnresponsive ==
  /\ Turn
  /\ page = "hung"
  /\ WindowAlive /\ ~hangDialog /\ ~crashDialogOpen /\ ~KillInFlight
  /\ hangDialog' = TRUE
  /\ UNCHANGED <<platform, engineVars, mainVars, quitVars, windowVars, pageVars,
                 crashDialogOpen, deliberateKill, expired, fallbacks, reloadDue, signalled>>

AnswerHangWait ==
  /\ Turn
  /\ hangDialog
  /\ hangDialog' = FALSE
  /\ UNCHANGED <<platform, engineVars, mainVars, quitVars, windowVars, pageVars,
                 crashDialogOpen, deliberateKill, expired, fallbacks, reloadDue, signalled>>

\* Reload the window: the renderer is told to crash, a timer stands by to end
\* it by its id.
AnswerHangReload ==
  /\ Turn
  /\ hangDialog /\ WindowAlive
  /\ hangDialog' = FALSE
  /\ deliberateKill' = pid
  /\ expired' = FALSE
  /\ fallbacks' = fallbacks \cup {pid}
  /\ UNCHANGED <<platform, engineVars, mainVars, quitVars, windowVars, pageVars,
                 crashDialogOpen, reloadDue, signalled>>

\* Mutant: the timer does not look at whose kill is in flight.
FallbackUnasked(p) ==
  /\ Turn
  /\ p \in fallbacks
  /\ fallbacks' = fallbacks \ {p}
  /\ signalled' = signalled \cup {p}
  /\ IF p = pid /\ page \in {"alive", "hung"} THEN Gone ELSE UNCHANGED pageVars
  /\ UNCHANGED <<platform, engineVars, mainVars, quitVars, windowVars, crashDialogOpen,
                 hangDialog, deliberateKill, expired, reloadDue>>

\* The timer of the kill of process p; the kill may fail.
Fallback(p) ==
  /\ Turn
  /\ p \in fallbacks
  /\ fallbacks' = fallbacks \ {p}
  /\ \/ /\ deliberateKill = p
        /\ signalled' = signalled \cup {p}
        /\ IF page \in {"alive", "hung"} THEN Gone ELSE UNCHANGED pageVars
     \/ /\ deliberateKill = p
        /\ UNCHANGED <<signalled, pageVars>>
     \/ /\ deliberateKill # p
        /\ UNCHANGED <<signalled, pageVars>>
  /\ UNCHANGED <<platform, engineVars, mainVars, quitVars, windowVars, crashDialogOpen,
                 hangDialog, deliberateKill, expired, reloadDue>>

\* DELIBERATE_KILL_GRACE_MS has passed, so the fallback's timer has run.
Expire ==
  /\ KillInFlight
  /\ deliberateKill \notin fallbacks
  /\ expired' = TRUE
  /\ UNCHANGED <<platform, engineVars, mainVars, quitVars, windowVars, pageVars,
                 crashDialogOpen, hangDialog, deliberateKill, fallbacks, reloadDue, signalled>>

------------------------------------------------------------------------------
ShellInit ==
  /\ platform \in {"win32", "posix"}
  /\ engine = "starting" /\ killed = FALSE /\ news = {} /\ drain = FALSE
  /\ grace = "unset" /\ taskkillFailed = FALSE
  /\ startup = "health" /\ backendExited = FALSE /\ isQuitting = FALSE
  /\ crashReported = FALSE /\ engineDialog = "no" /\ exited = FALSE
  /\ splash = "open" /\ window = "none" /\ closeAsked = FALSE /\ quitting = FALSE
  /\ page = "none" /\ pid = 0 /\ dirty = FALSE /\ goneNews = FALSE
  /\ crashDialogOpen = FALSE /\ hangDialog = FALSE /\ deliberateKill = NoKill
  /\ expired = FALSE /\ fallbacks = {} /\ reloadDue = FALSE /\ signalled = {}

EngineEvents == OnExit \/ DrainOver \/ OnClose \/ OnError \/ HealthFails \/ LoadFails
PageEvents == OnGone \/ ReloadTick \/ OnUnresponsive \/ Expire
              \/ \E p \in fallbacks : Fallback(p)

ShellNext ==
  \/ QuitAsked \/ GraceOver \/ CopyDetails \/ AskAgain \/ QuitDialog
  \/ EngineHealthy \/ EngineNeverStarts \/ EngineEnds \/ EngineEvents
  \/ OpenWindow \/ Loaded \/ ReadyToShow
  \/ CloseSplash \/ SplashGone \/ CloseWindow \/ WindowGone \/ WindowKept
  \/ Type \/ Saved \/ Hang \/ Recover \/ PageDies \/ PageEvents
  \/ AnswerCrash \/ AnswerCrashQuit \/ AnswerHangWait \/ AnswerHangReload

ShellSpec == ShellInit /\ [][ShellNext]_vars

\* The event loop delivers what happened and runs the timers that are due.
FairShellSpec ==
  /\ ShellSpec
  /\ WF_vars(OnExit) /\ WF_vars(DrainOver) /\ WF_vars(OnError)
  /\ WF_vars(OnGone) /\ WF_vars(ReloadTick) /\ WF_vars(OnUnresponsive) /\ WF_vars(Expire)
  /\ \A p \in 1..MaxPages : WF_vars(Fallback(p))

------------------------------------------------------------------------------
\* The fallback of a hang ends the very process the researcher asked about, and
\* only while nothing has reported its end: afterwards its id may be any
\* process's (renderer-recovery.js: "Only THIS kill's process").
KillsOnlyTheAsked ==
  [][\A p \in signalled' \ signalled :
       p = pid /\ (page # "gone" \/ goneNews)]_vars

\* A page that crashed or hangs is never left alone: the researcher is asked, or
\* it comes back, whatever earlier dialogs, kills and timers are still about.
\* Only an app that believes it is quitting, or says that its engine failed, is
\* excused.
Offered == crashDialogOpen \/ hangDialog \/ page = "alive"
BrokenPageIsOffered ==
  page \in {"hung", "gone"} /\ window # "closed"
    ~> Offered \/ isQuitting \/ crashReported \/ window = "closed"

\* The two questions about one page are never on the screen together.
OneQuestionAtATime == ~(crashDialogOpen /\ hangDialog)

\* An engine that ended or never started is said, even when its stdio stays
\* open, unless the app is quitting (main.js: 'exit' and 'close').
EngineFailureIsSaid ==
  engine \in {"ended", "never"} /\ ~exited ~> crashReported \/ isQuitting

\* While the crash dialog waits for the clipboard only the researcher's own Quit
\* ends the app: the splash it closed was the last window.
DialogStays ==
  [][engineDialog = "copying" /\ isQuitting' /\ ~isQuitting
     => QuitAsked \/ AnswerCrashQuit]_vars

\* An app that is gone leaves no engine behind that nobody told to stop; on
\* Windows, where an installer then overwrites its files, none at all
\* (backend-process.js: the kill must block).
NoEngineLeft ==
  exited => \/ engine \in {"ended", "never"}
            \/ engine = "stopping" /\ platform = "posix"
            \/ taskkillFailed

------------------------------------------------------------------------------
\* Two statements of the source that no run of this project claims, because TLC
\* refutes them (README, section 5).

\* main.js of a dead page: it gets a dialog and a way back.
DeadPageIsOffered ==
  page = "gone" /\ ~goneNews /\ window = "shown" /\ ~closeAsked /\ ~quitting /\ ~exited
    => crashDialogOpen \/ reloadDue

\* backend-process.js of a stop: SIGKILL after the grace period.
GraceIsFinal == grace = "over" => engine = "ended"
=============================================================================
