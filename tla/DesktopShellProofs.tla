------------------------- MODULE DesktopShellProofs -------------------------
(***************************************************************************)
(* Proofs about DesktopShell, for any number of pages: an app that is gone *)
(* leaves no engine nobody stopped, the two questions about a page exclude *)
(* one another, the fallback ends the asked process only, and the engine's *)
(* crash dialog is not quit from under the researcher.                     *)
(***************************************************************************)
EXTENDS DesktopShell, TLAPS

\* Whoever quits has told the engine to stop, unless Windows refused.
StoppedByQuit ==
  /\ quitting \/ exited => isQuitting
  /\ isQuitting => ~Alive \/ taskkillFailed
  /\ engine \in {"starting", "healthy", "stopping", "ended", "never"}
  /\ engine = "stopping" => platform = "posix"

\* What is asked and what is under way belong to the page there is: a question
\* about a crash, and a reload that is due, to a page whose end was reported; a
\* question about a hang, and a kill, to one whose end was not.
AboutThisPage ==
  /\ pid \in Nat /\ fallbacks \subseteq Nat
  /\ startup = "health" => page = "none" /\ deliberateKill = NoKill /\ ~hangDialog
  /\ goneNews => page = "gone"
  /\ crashDialogOpen => page = "gone" /\ ~goneNews
  /\ reloadDue => page = "gone" /\ ~goneNews /\ ~crashDialogOpen
  /\ hangDialog /\ WindowAlive => page # "gone" \/ goneNews
  /\ hangDialog => ~KillInFlight
  /\ deliberateKill # NoKill => deliberateKill = pid /\ (page # "gone" \/ goneNews)

ShellInv == StoppedByQuit /\ AboutThisPage /\ OneQuestionAtATime
------------------------------------------------------------------------------
(* Quitting stops the engine *)

\* A quit tells the engine to stop, waits for a Windows kill or notes that it failed.
LEMMA QuitStops ==
  ASSUME StoppedByQuit, platform' = platform, NEW s, NEW w, Quit(s, w)
  PROVE  StoppedByQuit'
<1>1. isQuitting' /\ StopEngine
  BY DEF Quit
<1>2. /\ ~Alive' \/ taskkillFailed'
      /\ engine' \in {"starting", "healthy", "stopping", "ended", "never"}
      /\ engine' = "stopping" => platform' = "posix"
  <2>1. CASE ~Alive /\ UNCHANGED engineVars
    BY <2>1 DEF StoppedByQuit, Alive, engineVars
  <2>2. CASE platform = "posix" /\ engine' = "stopping"
    BY <2>2 DEF Alive
  <2>3. CASE engine' = "ended"
    BY <2>3 DEF Alive
  <2>4. CASE taskkillFailed' = TRUE /\ engine' = engine
    BY <2>4 DEF StoppedByQuit
  <2> QED  BY <1>1, <2>1, <2>2, <2>3, <2>4 DEF StopEngine
<1> QED  BY <1>1, <1>2 DEF StoppedByQuit

\* When the last window closes, the app quits and stops its engine, or nothing happens.
LEMMA AllClosedStops ==
  ASSUME StoppedByQuit, platform' = platform, NEW s, NEW w, AllClosed(s, w)
  PROVE  StoppedByQuit'
<1>1. CASE Quit(s, w)
  BY <1>1, QuitStops
<1>2. CASE UNCHANGED <<quitVars, engineVars>>
  BY <1>2 DEF StoppedByQuit, Alive, quitVars, engineVars
<1>3. CASE quitting /\ exited' = TRUE /\ UNCHANGED <<isQuitting, quitting, engineVars>>
  BY <1>3 DEF StoppedByQuit, Alive, engineVars
<1> QED  BY <1>1, <1>2, <1>3 DEF AllClosed

\* The engine's own steps: it never comes alive again.
LEMMA StoppedStep == StoppedByQuit /\ [ShellNext]_vars => StoppedByQuit'
<1> SUFFICES ASSUME StoppedByQuit, [ShellNext]_vars PROVE StoppedByQuit'
  OBVIOUS
<1>1. ASSUME UNCHANGED <<platform, engine, taskkillFailed, quitVars>>
      PROVE  StoppedByQuit'
  BY <1>1 DEF StoppedByQuit, Alive, quitVars
<1>2. CASE QuitAsked \/ QuitDialog \/ AnswerCrashQuit
  BY <1>2, QuitStops DEF QuitAsked, QuitDialog, AnswerCrashQuit, QuitWindows
<1>3. CASE SplashGone \/ WindowGone
  BY <1>3, AllClosedStops DEF SplashGone, WindowGone
<1>4. CASE EngineHealthy \/ EngineNeverStarts \/ EngineEnds \/ GraceOver
  BY <1>4 DEF EngineHealthy, EngineNeverStarts, EngineEnds, GraceOver, Ended, StoppedByQuit,
              Alive, quitVars
<1>5. CASE WindowKept
  BY <1>5 DEF WindowKept, StoppedByQuit, Alive, engineVars
<1>6. CASE OnExit \/ DrainOver \/ OnClose \/ OnError \/ HealthFails \/ LoadFails
  BY <1>1, <1>6 DEF OnExit, DrainOver, OnClose, OnError, HealthFails, LoadFails, engineVars
<1>7. CASE \/ CopyDetails \/ AskAgain \/ OpenWindow \/ Loaded \/ ReadyToShow \/ CloseSplash
           \/ CloseWindow \/ Type \/ Saved \/ Hang \/ Recover \/ PageDies
  BY <1>1, <1>7 DEF CopyDetails, AskAgain, OpenWindow, Loaded, ReadyToShow, CloseSplash,
                    CloseWindow, Type, Saved, Hang, Recover, PageDies, engineVars
<1>8. CASE OnGone \/ ReloadTick \/ OnUnresponsive \/ Expire
  BY <1>1, <1>8 DEF OnGone, ReloadTick, OnUnresponsive, Expire, engineVars
<1>9. CASE AnswerCrash \/ AnswerHangWait \/ AnswerHangReload
  BY <1>1, <1>9 DEF AnswerCrash, AnswerHangWait, AnswerHangReload, engineVars
<1>10. ASSUME NEW p, Fallback(p)
       PROVE  StoppedByQuit'
  BY <1>1, <1>10 DEF Fallback, engineVars
<1>11. CASE UNCHANGED vars
  BY <1>1, <1>11 DEF vars, engineVars
<1> QED
  BY <1>2, <1>3, <1>4, <1>5, <1>6, <1>7, <1>8, <1>9, <1>10, <1>11
     DEF ShellNext, EngineEvents, PageEvents

------------------------------------------------------------------------------
(* The page that is asked about is the page there is *)

PageInv == AboutThisPage /\ OneQuestionAtATime

\* A quit once begun is not taken back, so a window that is of interest after a
\* step that leaves the windows alone was so before.
LEMMA PageStep == PageInv /\ [ShellNext]_vars => PageInv'
<1> SUFFICES ASSUME PageInv, [ShellNext]_vars PROVE PageInv'
  OBVIOUS
<1> USE DEF PageInv, AboutThisPage, OneQuestionAtATime, KillInFlight
<1>1. ASSUME UNCHANGED <<pageVars, recoveryVars>>, startup' = "health" => startup = "health",
             WindowAlive' => WindowAlive
      PROVE  PageInv'
  BY <1>1 DEF pageVars, recoveryVars
<1>2. CASE OpenWindow
  <2>1. startup' # "health" /\ page' = "alive" /\ pid' = 1 /\ goneNews' = goneNews
        /\ UNCHANGED recoveryVars /\ startup = "health"
    BY <1>2 DEF OpenWindow
  <2> QED  BY <2>1 DEF recoveryVars
<1>3. CASE WindowGone
  <2>1. /\ page' = "gone" /\ ~goneNews' /\ ~hangDialog' /\ ~crashDialogOpen'
        /\ deliberateKill' = NoKill /\ page # "none"
        /\ pid' = pid /\ fallbacks' = fallbacks /\ startup' = startup
    BY <1>3 DEF WindowGone, mainVars
  <2> QED  BY <2>1
<1>4. CASE ReadyToShow
  <2>1. UNCHANGED <<pageVars, recoveryVars, startup, isQuitting>> /\ window = "hidden"
    BY <1>4 DEF ReadyToShow, mainVars, quitVars
  <2> QED  BY <1>1, <2>1 DEF WindowAlive
<1>5. CASE Type \/ Saved
  <2>1. UNCHANGED <<page, pid, goneNews, recoveryVars, startup, window, isQuitting>>
    BY <1>5 DEF Type, Saved, mainVars, windowVars, quitVars
  <2> QED  BY <2>1 DEF recoveryVars, WindowAlive
<1>6. CASE Hang
  BY <1>6 DEF Hang, mainVars, windowVars, quitVars, recoveryVars, WindowAlive
<1>7. CASE Recover
  BY <1>7 DEF Recover, mainVars, windowVars, quitVars, WindowAlive
<1>8. CASE PageDies
  BY <1>8 DEF PageDies, Gone, mainVars, windowVars, quitVars, recoveryVars, WindowAlive
<1>9. CASE OnGone
  <2>1. /\ page = "gone" /\ ~crashDialogOpen /\ ~reloadDue
        /\ ~goneNews' /\ deliberateKill' = NoKill
        /\ UNCHANGED <<page, pid, fallbacks, startup>> /\ (WindowAlive' <=> WindowAlive)
    BY <1>9 DEF OnGone, mainVars, windowVars, quitVars, WindowAlive
  <2>2. CASE KillInFlight
    <3>1. UNCHANGED <<crashDialogOpen, hangDialog>>
      BY <1>9, <2>2 DEF OnGone
    <3>2. ~(hangDialog' /\ WindowAlive')
      BY <2>1, <2>2, <3>1
    <3> QED  BY <2>1, <3>1, <3>2
  <2>3. CASE ~KillInFlight
    <3>1. /\ (crashDialogOpen' <=> WindowAlive) /\ reloadDue' = reloadDue
          /\ (hangDialog' <=> hangDialog /\ ~WindowAlive)
      BY <1>9, <2>1, <2>3 DEF OnGone
    <3> QED  BY <2>1, <3>1
  <2> QED  BY <2>2, <2>3
<1>10. CASE ReloadTick
  <2>1. CASE WindowAlive
    BY <1>10, <2>1 DEF ReloadTick, Reload, mainVars, windowVars, quitVars, WindowAlive
  <2>2. CASE ~WindowAlive
    BY <1>10, <2>2 DEF ReloadTick, pageVars, mainVars, windowVars, quitVars, WindowAlive
  <2> QED  BY <2>1, <2>2
<1>11. CASE AnswerCrash
  <2>1. CASE WindowAlive
    BY <1>11, <2>1 DEF AnswerCrash, Reload, mainVars, windowVars, quitVars, WindowAlive
  <2>2. CASE ~WindowAlive
    BY <1>11, <2>2 DEF AnswerCrash, pageVars, mainVars, windowVars, quitVars, WindowAlive
  <2> QED  BY <2>1, <2>2
<1>12. CASE AnswerCrashQuit
  <2>1. isQuitting' /\ UNCHANGED <<mainVars, pageVars, hangDialog, deliberateKill, expired, fallbacks,
                                reloadDue>>
        /\ ~crashDialogOpen'
    BY <1>12 DEF AnswerCrashQuit, QuitWindows, Quit
  <2> QED  BY <2>1 DEF mainVars, pageVars, WindowAlive
<1>13. CASE OnUnresponsive
  BY <1>13 DEF OnUnresponsive, pageVars, mainVars
<1>14. CASE AnswerHangWait
  BY <1>14 DEF AnswerHangWait, pageVars, mainVars
<1>15. CASE AnswerHangReload
  BY <1>15 DEF AnswerHangReload, pageVars, mainVars
<1>16. CASE Expire
  BY <1>16 DEF Expire, pageVars, mainVars, windowVars, quitVars, WindowAlive
<1>17. ASSUME NEW p \in fallbacks, Fallback(p)
       PROVE  PageInv'
  <2>1. /\ UNCHANGED <<mainVars, quitVars, windowVars, crashDialogOpen, hangDialog, deliberateKill,
                       expired, reloadDue>>
        /\ fallbacks' = fallbacks \ {p}
    BY <1>17 DEF Fallback
  <2>2. CASE Gone /\ page \in {"alive", "hung"}
    BY <2>1, <2>2 DEF Gone, mainVars, quitVars, windowVars, WindowAlive
  <2>3. CASE UNCHANGED pageVars
    BY <2>1, <2>3 DEF pageVars, mainVars, quitVars, windowVars, WindowAlive
  <2> QED  BY <1>17, <2>2, <2>3 DEF Fallback
<1>18. CASE QuitAsked \/ QuitDialog
  <2>1. isQuitting' /\ UNCHANGED <<startup, pageVars, recoveryVars>>
    BY <1>18 DEF QuitAsked, QuitDialog, QuitWindows, Quit, mainVars
  <2> QED  BY <1>1, <2>1 DEF WindowAlive
<1>19. CASE SplashGone
  <2>1. UNCHANGED <<startup, window, pageVars, recoveryVars>> /\ AllClosed("gone", window)
    BY <1>19 DEF SplashGone, mainVars
  <2>2. isQuitting' = isQuitting \/ isQuitting'
    BY <2>1 DEF AllClosed, Quit, quitVars
  <2> QED  BY <1>1, <2>1, <2>2 DEF WindowAlive
<1>20. CASE \/ GraceOver \/ CopyDetails \/ AskAgain \/ EngineHealthy \/ EngineNeverStarts
            \/ EngineEnds \/ OnExit \/ Loaded \/ CloseSplash \/ CloseWindow \/ WindowKept
  <2>1. UNCHANGED <<pageVars, recoveryVars, window, isQuitting>>
    BY <1>20 DEF GraceOver, CopyDetails, AskAgain, EngineHealthy, EngineNeverStarts, EngineEnds,
                 OnExit, Loaded, CloseSplash, CloseWindow, WindowKept, windowVars, quitVars
  <2>2. startup' = startup \/ startup' = "up"
    BY <1>20 DEF GraceOver, CopyDetails, AskAgain, EngineHealthy, EngineNeverStarts, EngineEnds,
                 OnExit, Loaded, CloseSplash, CloseWindow, WindowKept, mainVars
  <2> QED  BY <1>1, <2>1, <2>2 DEF WindowAlive
<1>21. CASE DrainOver \/ OnClose \/ OnError \/ HealthFails \/ LoadFails
  <2>1. UNCHANGED <<pageVars, recoveryVars, window, isQuitting>>
    BY <1>21 DEF DrainOver, OnClose, OnError, HealthFails, LoadFails, quitVars
  <2>2. startup' = startup \/ startup' = "failed"
    BY <1>21 DEF DrainOver, OnClose, OnError, HealthFails, LoadFails
  <2> QED  BY <1>1, <2>1, <2>2 DEF WindowAlive
<1>22. CASE UNCHANGED vars
  BY <1>1, <1>22 DEF vars, mainVars, windowVars, quitVars, WindowAlive
<1> QED
  BY <1>2, <1>3, <1>4, <1>5, <1>6, <1>7, <1>8, <1>9, <1>10, <1>11, <1>12, <1>13, <1>14, <1>15,
     <1>16, <1>17, <1>18, <1>19, <1>20, <1>21, <1>22 DEF ShellNext, EngineEvents, PageEvents

\* The inductive invariant: quitting stops the engine, and what is asked is about
\* the page there is.
THEOREM ShellInvariant == ShellSpec => []ShellInv
<1>1. ShellInit => ShellInv
  BY DEF ShellInit, ShellInv, StoppedByQuit, AboutThisPage, OneQuestionAtATime, Alive, KillInFlight
<1>2. ShellInv /\ [ShellNext]_vars => ShellInv'
  BY StoppedStep, PageStep DEF ShellInv, PageInv
<1> QED  BY <1>1, <1>2, PTL DEF ShellSpec

\* An app that is gone leaves no engine that nobody told to stop, and on Windows
\* none at all unless its kill failed (backend-process.js: the kill must block).
THEOREM NoEngineIsLeft == ShellSpec => []NoEngineLeft
<1>1. ShellInv => NoEngineLeft
  BY DEF ShellInv, StoppedByQuit, NoEngineLeft, Alive
<1> QED  BY <1>1, ShellInvariant, PTL

\* The question about a crash and the one about a hang are never up together.
THEOREM OneQuestionAlways == ShellSpec => []OneQuestionAtATime
<1>1. ShellInv => OneQuestionAtATime
  BY DEF ShellInv
<1> QED  BY <1>1, ShellInvariant, PTL

\* The fallback of a hang signals the process that was asked about, and only
\* while nothing has reported its end.
THEOREM OnlyTheAskedIsKilled == ShellSpec => KillsOnlyTheAsked
<1> DEFINE Asked == \A p \in signalled' \ signalled : p = pid /\ (page # "gone" \/ goneNews)
<1>1. ShellInv /\ [ShellNext]_vars => [Asked]_vars
  <2> SUFFICES ASSUME ShellInv, ShellNext PROVE Asked
    BY DEF vars
  <2>1. ASSUME signalled' = signalled  PROVE Asked
    BY <2>1
  <2>2. ASSUME NEW q \in fallbacks, Fallback(q)
        PROVE  Asked
    <3>1. CASE signalled' = signalled
      BY <2>1, <3>1
    <3>2. CASE deliberateKill = q /\ signalled' = signalled \cup {q}
      <4>1. q # NoKill
        BY KillAssumption DEF ShellInv, AboutThisPage
      <4> QED  BY <3>2, <4>1 DEF ShellInv, AboutThisPage
    <3> QED  BY <2>2, <3>1, <3>2 DEF Fallback
  <2>3. CASE \/ QuitAsked \/ GraceOver \/ CopyDetails \/ AskAgain \/ QuitDialog
             \/ EngineHealthy \/ EngineNeverStarts \/ EngineEnds \/ EngineEvents
    BY <2>1, <2>3 DEF QuitAsked, GraceOver, CopyDetails, AskAgain, QuitDialog, EngineHealthy,
       EngineNeverStarts, EngineEnds, EngineEvents, OnExit, DrainOver, OnClose, OnError,
       HealthFails, LoadFails, recoveryVars
  <2>4. CASE \/ OpenWindow \/ Loaded \/ ReadyToShow \/ CloseSplash \/ SplashGone \/ CloseWindow
             \/ WindowGone \/ WindowKept \/ Type \/ Saved \/ Hang \/ Recover \/ PageDies
    BY <2>1, <2>4 DEF OpenWindow, Loaded, ReadyToShow, CloseSplash, SplashGone, CloseWindow,
       WindowGone, WindowKept, Type, Saved, Hang, Recover, PageDies, recoveryVars
  <2>5. CASE \/ OnGone \/ ReloadTick \/ OnUnresponsive \/ Expire \/ AnswerCrash
             \/ AnswerCrashQuit \/ AnswerHangWait \/ AnswerHangReload
    BY <2>1, <2>5 DEF OnGone, ReloadTick, OnUnresponsive, Expire, AnswerCrash, AnswerCrashQuit,
       AnswerHangWait, AnswerHangReload
  <2> QED  BY <2>2, <2>3, <2>4, <2>5 DEF ShellNext, PageEvents
<1> QED  BY <1>1, ShellInvariant, PTL DEF ShellSpec, KillsOnlyTheAsked

\* While the crash dialog waits for the clipboard, no window that closes quits the app.
THEOREM DialogAlwaysStays == ShellSpec => DialogStays
<1> DEFINE Stays == engineDialog = "copying" /\ isQuitting' /\ ~isQuitting
                      => QuitAsked \/ AnswerCrashQuit
<1>1. [ShellNext]_vars => [Stays]_vars
  <2> SUFFICES ASSUME ShellNext, engineDialog = "copying", isQuitting', ~isQuitting
               PROVE  QuitAsked \/ AnswerCrashQuit
    BY DEF vars
  <2>1. ~QuitDialog
    BY DEF QuitDialog
  <2>2. ~SplashGone /\ ~WindowGone
    <3>1. ASSUME NEW s, NEW w  PROVE ~AllClosed(s, w)
      BY DEF AllClosed, quitVars
    <3> QED  BY <3>1 DEF SplashGone, WindowGone
  <2>3. ~(isQuitting' = isQuitting)
    OBVIOUS
  <2>4. ~(\/ GraceOver \/ CopyDetails \/ AskAgain \/ EngineHealthy \/ EngineNeverStarts
          \/ EngineEnds \/ EngineEvents)
    BY <2>3 DEF GraceOver, CopyDetails, AskAgain, EngineHealthy, EngineNeverStarts, EngineEnds,
       EngineEvents, OnExit, DrainOver, OnClose, OnError, HealthFails, LoadFails, quitVars
  <2>5. ~(\/ OpenWindow \/ Loaded \/ ReadyToShow \/ CloseSplash \/ CloseWindow \/ WindowKept
          \/ Type \/ Saved \/ Hang \/ Recover \/ PageDies)
    BY <2>3 DEF OpenWindow, Loaded, ReadyToShow, CloseSplash, CloseWindow, WindowKept, Type,
       Saved, Hang, Recover, PageDies, quitVars
  <2>6. ~(PageEvents \/ AnswerCrash \/ AnswerHangWait \/ AnswerHangReload)
    BY <2>3 DEF PageEvents, OnGone, ReloadTick, OnUnresponsive, Expire, Fallback, AnswerCrash,
       AnswerHangWait, AnswerHangReload, quitVars
  <2> QED  BY <2>1, <2>2, <2>4, <2>5, <2>6 DEF ShellNext
<1> QED  BY <1>1, PTL DEF ShellSpec, DialogStays
=============================================================================
