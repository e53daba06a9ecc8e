---------------------------- MODULE DesktopShell ----------------------------
(***************************************************************************)
(* The desktop shell, electron/main.js: it spawns the Go server, polls its *)
(* port until it answers, opens a window with a tray icon, shows a dialog  *)
(* when the server crashes or does not come up, and takes the server down  *)
(* before it exits.                                                        *)
(*                                                                         *)
(* Electron runs the callbacks one at a time; each is an action.  Timers,  *)
(* HTTP requests, the server process, the user and the operating system    *)
(* choose the order.  Left out: what a dialog or the log file says.        *)
(***************************************************************************)
EXTENDS Integers

CONSTANTS
    MaxRetries, \* maxRetries of checkServerAvailability
    MaxQuits    \* bound: quits that find the server still set

ASSUME ShellConstants == MaxRetries \in Nat \ {0} /\ MaxQuits \in Nat \ {0}

VARIABLES
    isDev, isMac,  \* NODE_ENV = development; process.platform = darwin
    portTaken,     \* some other process answers on the port
    server,        \* the child: "none", "failed" to spawn, "running", "gone"
    exitCode,      \* of the child: "none" yet, "clean" (0 or null), "error"
    serverProcess, \* the variable serverProcess is set
    startup,       \* the promise of startServer
    booted,        \* the callbacks of whenReady have run
    attempts,      \* currentAttempt
    requests, retryTimers, \* tryConnect: requests under way, timers armed
    window,        \* mainWindow
    orphans,       \* windows that mainWindow no longer refers to
    tray, dialogs, \* the tray icon, the message boxes that are open
    isQuitting,    \* app.isQuitting
    killTimers,    \* 5 s timers of before-quit
    closeHandlers, \* 'close' handlers that before-quit added
    exited         \* the Electron process is gone

platform == <<isDev, isMac, portTaken>>
child    == <<server, exitCode, serverProcess>>
polling  == <<startup, attempts, requests, retryTimers>>
screen   == <<window, orphans, tray>>
quitting == <<isQuitting, killTimers, closeHandlers, exited>>
vars == <<platform, child, polling, booted, screen, dialogs, quitting>>

Servers  == {"none", "failed", "running", "gone"}
Windows  == {"none", "shown", "hidden"}
Promises == {"none", "pending", "resolved", "rejected"}
Boxes    == {"crash", "crashLog", "startup", "startupLog"}

Init ==
    /\ isDev \in BOOLEAN /\ isMac \in BOOLEAN /\ portTaken \in BOOLEAN
    /\ server = "none" /\ exitCode = "none" /\ serverProcess = FALSE
    /\ startup = "none" /\ booted = FALSE
    /\ attempts = 0 /\ requests = 0 /\ retryTimers = 0
    /\ window = "none" /\ orphans = 0 /\ tray = FALSE
    /\ dialogs = {}
    /\ isQuitting = FALSE /\ killTimers = 0 /\ closeHandlers = 0 /\ exited = FALSE

-----------------------------------------------------------------------------
(* Starting the server and waiting for its port.                           *)

\* startServer: in production it spawns the binary; either way it starts to poll.
StartServer ==
    /\ startup = "none" /\ ~exited
    /\ startup' = "pending"
    /\ attempts' = 1 /\ requests' = 1
    /\ IF isDev THEN UNCHANGED <<server, serverProcess>>
       ELSE server' \in {"running", "failed"} /\ serverProcess' = TRUE
    /\ UNCHANGED <<platform, exitCode, retryTimers, booted, screen, dialogs, quitting>>

\* A promise is settled once.
Settle(outcome) == startup' = IF startup = "pending" THEN outcome ELSE startup

TryConnect ==
    /\ retryTimers > 0 /\ ~exited
    /\ retryTimers' = retryTimers - 1
    /\ attempts' = attempts + 1 /\ requests' = requests + 1
    /\ UNCHANGED <<platform, child, startup, booted, screen, dialogs, quitting>>

\* Something answered; whether it is our server is not asked.
Connected ==
    /\ requests > 0 /\ ~exited
    /\ server = "running" \/ portTaken
    /\ requests' = requests - 1
    /\ Settle("resolved")
    /\ UNCHANGED <<platform, child, attempts, retryTimers, booted, screen, dialogs, quitting>>

\* Mutant of RetryOrReject: the last failure is swallowed.
RetryOrForget(n) ==
    /\ retryTimers' = IF attempts >= MaxRetries THEN retryTimers ELSE retryTimers + n
    /\ UNCHANGED startup

\* The end of the handlers of 'error' and 'timeout'; n of them run.
RetryOrReject(n) ==
    IF attempts >= MaxRetries
    THEN Settle("rejected") /\ UNCHANGED retryTimers
    ELSE retryTimers' = retryTimers + n /\ UNCHANGED startup

ConnectError ==
    /\ requests > 0 /\ ~exited
    /\ requests' = requests - 1
    /\ RetryOrReject(1)
    /\ UNCHANGED <<platform, child, attempts, booted, screen, dialogs, quitting>>

\* req.destroy() in the 'timeout' handler raises 'error' as well.
ConnectTimeout ==
    /\ requests > 0 /\ ~exited
    /\ requests' = requests - 1
    /\ RetryOrReject(2)
    /\ UNCHANGED <<platform, child, attempts, booted, screen, dialogs, quitting>>

\* The 'error' event of a child that could not be spawned; 'close' follows.
SpawnError ==
    /\ server = "failed" /\ exitCode = "none" /\ ~exited
    /\ exitCode' = "error"
    /\ Settle("rejected")
    /\ UNCHANGED <<platform, server, serverProcess, attempts, requests, retryTimers,
                   booted, screen, dialogs, quitting>>

-----------------------------------------------------------------------------
(* Windows, tray and boot.                                                 *)

\* createWindow: mainWindow is replaced, the old window stays open.
CreateWindow ==
    /\ window' = "shown"
    /\ orphans' = IF window = "none" THEN orphans ELSE orphans + 1

\* The 'close' handler of the window hides it unless the application quits.
AfterClose == IF window = "none" THEN "none"
              ELSE IF isQuitting THEN "none" ELSE "hidden"

\* whenReady: tray and window, or the dialog of a failed start.
Boot ==
    /\ startup \in {"resolved", "rejected"} /\ ~booted /\ ~exited
    /\ booted' = TRUE
    /\ IF startup = "resolved"
       THEN tray' = TRUE /\ CreateWindow /\ UNCHANGED dialogs
       ELSE dialogs' = dialogs \cup {"startup"} /\ UNCHANGED screen
    /\ UNCHANGED <<platform, child, polling, quitting>>

TrayShow ==
    /\ tray /\ ~exited
    /\ IF window = "none" THEN CreateWindow ELSE window' = "shown" /\ UNCHANGED orphans
    /\ UNCHANGED <<platform, child, polling, booted, tray, dialogs, quitting>>

TrayClick ==
    /\ tray /\ ~exited
    /\ IF window = "none" THEN CreateWindow
       ELSE /\ window' = IF window = "shown" THEN "hidden" ELSE "shown"
            /\ UNCHANGED orphans
    /\ UNCHANGED <<platform, child, polling, booted, tray, dialogs, quitting>>

CloseWindow ==
    /\ window = "shown" /\ ~exited
    /\ window' = AfterClose
    /\ UNCHANGED <<platform, child, polling, booted, orphans, tray, dialogs, quitting>>

\* The handlers of a forgotten window act on mainWindow: it is hidden instead, or,
\* when quitting, forgotten in its turn.
CloseOrphan ==
    /\ orphans > 0 /\ ~exited
    /\ window' = AfterClose
    /\ orphans' = IF isQuitting /\ window = "none" THEN orphans - 1 ELSE orphans
    /\ UNCHANGED <<platform, child, polling, booted, tray, dialogs, quitting>>

\* macOS: the Dock icon is clicked while no window exists.
Activate ==
    /\ isMac /\ startup # "none" /\ window = "none" /\ orphans = 0 /\ ~exited
    /\ CreateWindow
    /\ UNCHANGED <<platform, child, polling, booted, tray, dialogs, quitting>>

-----------------------------------------------------------------------------
(* Quitting.                                                               *)

\* before-quit with a server: hold the quit, SIGTERM, arm timer and handler.
BeforeQuit ==
    /\ killTimers < MaxQuits
    /\ killTimers' = killTimers + 1 /\ closeHandlers' = closeHandlers + 1
    /\ UNCHANGED <<window, orphans, exited>>

\* Without one Electron closes the windows; one that refuses cancels the quit.
CloseAllWindows ==
    /\ UNCHANGED <<killTimers, closeHandlers>>
    /\ IF isQuitting' \/ (window = "none" /\ orphans = 0)
       THEN exited' = TRUE /\ window' = "none" /\ orphans' = 0
       ELSE exited' = FALSE /\ window' = (IF window = "none" THEN "none" ELSE "hidden")
            /\ UNCHANGED orphans

\* Mutant of Quit: the server is left to itself.
QuitAtOnce == CloseAllWindows

\* app.quit(); isQuitting' is set by the caller.
Quit == IF serverProcess THEN BeforeQuit ELSE CloseAllWindows

TrayQuit ==
    /\ tray /\ ~exited
    /\ isQuitting' = TRUE
    /\ Quit
    /\ UNCHANGED <<platform, child, polling, booted, tray, dialogs>>

\* Cmd+Q, log-out: app.quit() without isQuitting.
SystemQuit ==
    /\ startup # "none" /\ ~exited
    /\ UNCHANGED isQuitting
    /\ Quit
    /\ UNCHANGED <<platform, child, polling, booted, tray, dialogs>>

\* The crash dialog and the one after its log was saved.
AnswerCrash(box) ==
    /\ box \in dialogs \cap {"crash", "crashLog"} /\ ~exited
    /\ dialogs' = dialogs \ {box}
    /\ isQuitting' = TRUE
    /\ Quit
    /\ UNCHANGED <<platform, child, polling, booted, tray>>

\* Mutant of AnswerStartup: the dialog is closed and nothing quits.
AnswerStartupStays(box) ==
    /\ box \in dialogs \cap {"startup", "startupLog"} /\ ~exited
    /\ dialogs' = dialogs \ {box}
    /\ UNCHANGED <<platform, child, polling, booted, screen, quitting>>

\* The dialog of a failed start quits without setting isQuitting.
AnswerStartup(box) ==
    /\ box \in dialogs \cap {"startup", "startupLog"} /\ ~exited
    /\ dialogs' = dialogs \ {box}
    /\ UNCHANGED isQuitting
    /\ Quit
    /\ UNCHANGED <<platform, child, polling, booted, tray>>

\* "View log" saves and opens the log and asks once more.
ViewLog(box) ==
    /\ box \in dialogs \cap {"crash", "startup"} /\ ~exited
    /\ dialogs' = (dialogs \ {box})
                    \cup {IF box = "crash" THEN "crashLog" ELSE "startupLog"}
    /\ UNCHANGED <<platform, child, polling, booted, screen, quitting>>

\* Mutant of KillTimer: it leaves the exit to the handler of 'close'.
KillTimerWaits ==
    /\ killTimers > 0 /\ ~exited
    /\ killTimers' = killTimers - 1
    /\ server' = IF serverProcess /\ server = "running" THEN "gone" ELSE server
    /\ UNCHANGED <<platform, exitCode, serverProcess, polling, booted, screen, dialogs,
                   isQuitting, closeHandlers, exited>>

\* Five seconds after before-quit: SIGKILL, app.exit().
KillTimer ==
    /\ killTimers > 0 /\ ~exited
    /\ killTimers' = killTimers - 1 /\ exited' = TRUE
    /\ server' = IF serverProcess /\ server = "running" THEN "gone" ELSE server
    /\ UNCHANGED <<platform, exitCode, serverProcess, polling, booted, screen, dialogs,
                   isQuitting, closeHandlers>>

\* 'close' of the child: the handler of startServer, then those of before-quit.
ServerClose(code) ==
    /\ ~exited
    /\ \/ server = "running"
       \/ server = "failed" /\ exitCode = "error" /\ code = "error"
    /\ server' = "gone" /\ exitCode' = code
    /\ IF code = "error"
       THEN dialogs' = dialogs \cup {"crash"} /\ UNCHANGED window
       ELSE window' = AfterClose /\ UNCHANGED dialogs
    /\ serverProcess' = (serverProcess /\ closeHandlers = 0)
    /\ exited' = (closeHandlers > 0)
    /\ UNCHANGED <<platform, polling, booted, orphans, tray, isQuitting, killTimers,
                   closeHandlers>>

Poll == TryConnect \/ Connected \/ ConnectError \/ ConnectTimeout

Next ==
    \/ StartServer \/ SpawnError \/ TryConnect \/ Connected \/ ConnectError \/ ConnectTimeout
    \/ Boot \/ TrayShow \/ TrayClick \/ CloseWindow \/ CloseOrphan \/ Activate
    \/ TrayQuit \/ SystemQuit \/ KillTimer
    \/ \E box \in Boxes : AnswerCrash(box) \/ AnswerStartup(box) \/ ViewLog(box)
    \/ \E code \in {"clean", "error"} : ServerClose(code)

\* Timers fire, and a request is answered, refused or times out (10 s).  Nothing
\* is assumed of the user, or of the server when it is told to stop.
Fairness == WF_vars(Poll) /\ WF_vars(Boot) /\ WF_vars(KillTimer)

Spec == Init /\ [][Next]_vars /\ Fairness

-----------------------------------------------------------------------------
(* Properties.                                                             *)

TypeOK ==
    /\ isDev \in BOOLEAN /\ isMac \in BOOLEAN /\ portTaken \in BOOLEAN
    /\ server \in Servers /\ exitCode \in {"none", "clean", "error"}
    /\ serverProcess \in BOOLEAN /\ startup \in Promises /\ booted \in BOOLEAN
    /\ attempts \in Nat /\ requests \in Nat /\ retryTimers \in Nat
    /\ window \in Windows /\ orphans \in Nat /\ tray \in BOOLEAN
    /\ dialogs \in SUBSET Boxes
    /\ isQuitting \in BOOLEAN /\ exited \in BOOLEAN
    /\ killTimers \in 0..MaxQuits /\ closeHandlers \in Nat

\* Whatever way the application ends (tray, dialog, system, before-quit's timer
\* or the server's own end), it never leaves its server process behind.
NoServerLeft == exited => server # "running"

\* The two handlers of a timed-out request each arm a timer, so attempts run past
\* maxRetries; they stay below twice as many, however requests fail.
AttemptsBounded == attempts <= 2 * MaxRetries - 1

\* A window is open only once something answered on the port; on macOS activate
\* may open one early, and only then can boot open a second beside it.
WindowsNeedServer ==
    /\ window # "none" => startup = "resolved" \/ isMac
    /\ orphans > 0 => isMac

\* Once started, an application that is still running can be reached or is on its
\* way out: a tray icon, a dialog or a pending kill.  (A development build on
\* macOS may be left with nothing but a hidden window.)
NeverInvisible ==
    booted /\ ~exited /\ ~(isDev /\ isMac) => tray \/ dialogs # {} \/ killTimers > 0

\* A quit that was asked for from the tray or a crash dialog, or that has sent
\* SIGTERM, ends the application even when the server ignores the signal.
QuitEnds == isQuitting \/ killTimers > 0 ~> exited

\* startServer settles: polling can neither go on for ever nor stop silently.
StartupSettles == startup = "pending" ~> startup # "pending" \/ exited

\* When the server exits normally its window is closed, as the handler's comment
\* says ("close the window directly").
CleanExitClosesWindow == exitCode = "clean" => window = "none"
=============================================================================
