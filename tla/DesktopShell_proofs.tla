------------------------ MODULE DesktopShell_proofs ------------------------
(***************************************************************************)
(* Proofs for the desktop shell: type correctness, no server is left       *)
(* behind, the bound on connection attempts, which windows can exist, and  *)
(* that a running application can be reached.                              *)
(***************************************************************************)
EXTENDS DesktopShell, TLAPS

\* The child is referred to for as long as it runs, and in production until the
\* application exits; before the start there is nothing to poll or to show.
ChildInv ==
    /\ server = "running" => serverProcess
    /\ startup # "none" /\ ~isDev /\ ~exited => serverProcess
    /\ startup = "none" => attempts = 0 /\ requests = 0 /\ retryTimers = 0

\* Every request was an attempt, so the attempts limit the timers two failing
\* handlers can arm; past MaxRetries no timer is armed any more.
PollInv ==
    /\ retryTimers + 2 * requests <= attempts + 1
    /\ attempts + retryTimers <= 2 * MaxRetries - 1

\* What each thing on the screen says about the start.
ScreenInv ==
    /\ tray => booted /\ startup = "resolved"
    /\ booted => startup \in {"resolved", "rejected"}
    /\ booted /\ startup = "resolved" => tray
    /\ ~booted /\ window # "none" => isMac
    /\ dialogs \cap {"startup", "startupLog"} # {} => startup = "rejected"

\* The inductive invariant.
ShellInv ==
    /\ TypeOK /\ ChildInv /\ PollInv /\ ScreenInv
    /\ NoServerLeft /\ WindowsNeedServer /\ NeverInvisible

LEMMA InitShellInv == Init => ShellInv
<1> SUFFICES ASSUME Init PROVE ShellInv
  OBVIOUS
<1>1. TypeOK
  <2>1. killTimers \in 0..MaxQuits /\ closeHandlers \in Nat /\ attempts \in Nat
        /\ requests \in Nat /\ retryTimers \in Nat /\ orphans \in Nat
    BY ShellConstants DEF Init
  <2>2. dialogs \in SUBSET Boxes
    BY DEF Init
  <2>3. server \in Servers /\ exitCode \in {"none", "clean", "error"}
        /\ startup \in Promises /\ window \in Windows
    BY DEF Init, Servers, Windows, Promises
  <2>4. isDev \in BOOLEAN /\ isMac \in BOOLEAN /\ portTaken \in BOOLEAN
        /\ serverProcess \in BOOLEAN /\ booted \in BOOLEAN /\ tray \in BOOLEAN
        /\ isQuitting \in BOOLEAN /\ exited \in BOOLEAN
    BY DEF Init
  <2>5. QED
    BY <2>1, <2>2, <2>3, <2>4 DEF TypeOK
<1>2. ChildInv /\ PollInv
  BY ShellConstants DEF Init, ChildInv, PollInv
<1>3. ScreenInv /\ NoServerLeft /\ WindowsNeedServer /\ NeverInvisible
  BY DEF Init, ScreenInv, NoServerLeft, WindowsNeedServer, NeverInvisible
<1>4. QED
  BY <1>1, <1>2, <1>3 DEF ShellInv

\* Starting, polling and the spawn error leave screen and dialogs alone.
LEMMA PollPreserves ==
    ASSUME ShellInv, StartServer \/ SpawnError \/ Poll
    PROVE  ShellInv'
<1> USE DEF platform, child, polling, screen, quitting
<1>0. TypeOK /\ ChildInv /\ PollInv /\ ScreenInv /\ NoServerLeft /\ WindowsNeedServer
      /\ NeverInvisible
  BY DEF ShellInv
<1>1. CASE StartServer
  <2>1. TypeOK'
    BY <1>0, <1>1, ShellConstants, ZenonT(30) DEF StartServer, TypeOK, Servers, Windows, Promises, Boxes
  <2>2. ChildInv'
    BY <1>0, <1>1, ShellConstants DEF StartServer, TypeOK, ChildInv
  <2>3. PollInv'
    BY <1>0, <1>1, ShellConstants DEF StartServer, TypeOK, ChildInv, PollInv
  <2>4. ScreenInv'
    BY <1>0, <1>1, ShellConstants DEF StartServer, TypeOK, ChildInv, ScreenInv
  <2>5. NoServerLeft'
    BY <1>0, <1>1, ShellConstants DEF StartServer, TypeOK, ChildInv, NoServerLeft
  <2>6. WindowsNeedServer'
    BY <1>0, <1>1, ShellConstants DEF StartServer, TypeOK, ScreenInv, WindowsNeedServer
  <2>7. NeverInvisible'
    BY <1>0, <1>1, ShellConstants DEF StartServer, TypeOK, ScreenInv, NeverInvisible
  <2>9. QED
    BY <2>1, <2>2, <2>3, <2>4, <2>5, <2>6, <2>7 DEF ShellInv
<1>2. CASE SpawnError
  BY <1>0, <1>2 DEF SpawnError, Settle, ShellInv, TypeOK, ChildInv, PollInv,
     ScreenInv, NoServerLeft, WindowsNeedServer, NeverInvisible, Promises
<1>3. CASE TryConnect
  BY <1>0, <1>3, ShellConstants DEF TryConnect, ShellInv, TypeOK, ChildInv, PollInv,
     ScreenInv, NoServerLeft, WindowsNeedServer, NeverInvisible
<1>4. CASE Connected
  BY <1>0, <1>4 DEF Connected, Settle, ShellInv, TypeOK, ChildInv, PollInv,
     ScreenInv, NoServerLeft, WindowsNeedServer, NeverInvisible, Promises
<1>5. CASE ConnectError
  BY <1>0, <1>5, ShellConstants DEF ConnectError, RetryOrReject, Settle, ShellInv,
     TypeOK, ChildInv, PollInv, ScreenInv, NoServerLeft, WindowsNeedServer,
     NeverInvisible, Promises
<1>6. CASE ConnectTimeout
  BY <1>0, <1>6, ShellConstants DEF ConnectTimeout, RetryOrReject, Settle, ShellInv,
     TypeOK, ChildInv, PollInv, ScreenInv, NoServerLeft, WindowsNeedServer,
     NeverInvisible, Promises
<1>7. QED
  BY <1>1, <1>2, <1>3, <1>4, <1>5, <1>6 DEF Poll

\* Boot, tray and windows.
LEMMA ScreenPreserves ==
    ASSUME ShellInv,
           Boot \/ TrayShow \/ TrayClick \/ CloseWindow \/ CloseOrphan \/ Activate
    PROVE  ShellInv'
<1> USE DEF platform, child, polling, screen, quitting
<1>0. TypeOK /\ ChildInv /\ PollInv /\ ScreenInv /\ NoServerLeft /\ WindowsNeedServer
      /\ NeverInvisible
  BY DEF ShellInv
<1>1. CASE Boot
  <2>1. TypeOK'
    <3>1. CASE startup = "resolved"
      BY <1>0, <1>1, <3>1 DEF Boot, CreateWindow, TypeOK, Windows
    <3>2. CASE startup # "resolved"
      BY <1>0, <1>1, <3>2 DEF Boot, TypeOK, Boxes
    <3>3. QED
      BY <3>1, <3>2
  <2>2. ChildInv'
    BY <1>0, <1>1 DEF Boot, CreateWindow, TypeOK, ChildInv
  <2>3. PollInv'
    BY <1>0, <1>1 DEF Boot, CreateWindow, TypeOK, ChildInv, PollInv
  <2>4. ScreenInv'
    BY <1>0, <1>1 DEF Boot, CreateWindow, TypeOK, ChildInv, ScreenInv
  <2>5. NoServerLeft'
    BY <1>0, <1>1 DEF Boot, CreateWindow, TypeOK, ChildInv, NoServerLeft
  <2>6. WindowsNeedServer'
    BY <1>0, <1>1 DEF Boot, CreateWindow, TypeOK, ScreenInv, WindowsNeedServer
  <2>7. NeverInvisible'
    BY <1>0, <1>1 DEF Boot, CreateWindow, TypeOK, ScreenInv, NeverInvisible
  <2>9. QED
    BY <2>1, <2>2, <2>3, <2>4, <2>5, <2>6, <2>7 DEF ShellInv
<1>2. CASE TrayShow
  <2>1. TypeOK'
    BY <1>0, <1>2 DEF TrayShow, CreateWindow, TypeOK, Servers, Windows, Promises, Boxes
  <2>2. ChildInv'
    BY <1>0, <1>2 DEF TrayShow, CreateWindow, TypeOK, ChildInv
  <2>3. PollInv'
    BY <1>0, <1>2 DEF TrayShow, CreateWindow, TypeOK, ChildInv, PollInv
  <2>4. ScreenInv'
    BY <1>0, <1>2 DEF TrayShow, CreateWindow, TypeOK, ChildInv, ScreenInv
  <2>5. NoServerLeft'
    BY <1>0, <1>2 DEF TrayShow, CreateWindow, TypeOK, ChildInv, NoServerLeft
  <2>6. WindowsNeedServer'
    BY <1>0, <1>2 DEF TrayShow, CreateWindow, TypeOK, ScreenInv, WindowsNeedServer
  <2>7. NeverInvisible'
    BY <1>0, <1>2 DEF TrayShow, CreateWindow, TypeOK, ScreenInv, NeverInvisible
  <2>9. QED
    BY <2>1, <2>2, <2>3, <2>4, <2>5, <2>6, <2>7 DEF ShellInv
<1>3. CASE TrayClick
  <2>1. TypeOK'
    BY <1>0, <1>3 DEF TrayClick, CreateWindow, TypeOK, Servers, Windows, Promises, Boxes
  <2>2. ChildInv'
    BY <1>0, <1>3 DEF TrayClick, CreateWindow, TypeOK, ChildInv
  <2>3. PollInv'
    BY <1>0, <1>3 DEF TrayClick, CreateWindow, TypeOK, ChildInv, PollInv
  <2>4. ScreenInv'
    BY <1>0, <1>3 DEF TrayClick, CreateWindow, TypeOK, ChildInv, ScreenInv
  <2>5. NoServerLeft'
    BY <1>0, <1>3 DEF TrayClick, CreateWindow, TypeOK, ChildInv, NoServerLeft
  <2>6. WindowsNeedServer'
    BY <1>0, <1>3 DEF TrayClick, CreateWindow, TypeOK, ScreenInv, WindowsNeedServer
  <2>7. NeverInvisible'
    BY <1>0, <1>3 DEF TrayClick, CreateWindow, TypeOK, ScreenInv, NeverInvisible
  <2>9. QED
    BY <2>1, <2>2, <2>3, <2>4, <2>5, <2>6, <2>7 DEF ShellInv
<1>4. CASE CloseWindow
  BY <1>0, <1>4 DEF CloseWindow, AfterClose, ShellInv, TypeOK, ChildInv, PollInv,
     ScreenInv, NoServerLeft, WindowsNeedServer, NeverInvisible, Windows
<1>5. CASE CloseOrphan
  BY <1>0, <1>5 DEF CloseOrphan, AfterClose, ShellInv, TypeOK, ChildInv, PollInv,
     ScreenInv, NoServerLeft, WindowsNeedServer, NeverInvisible, Windows
<1>6. CASE Activate
  BY <1>0, <1>6 DEF Activate, CreateWindow, ShellInv, TypeOK, ChildInv, PollInv,
     ScreenInv, NoServerLeft, WindowsNeedServer, NeverInvisible, Windows
<1>7. QED
  BY <1>1, <1>2, <1>3, <1>4, <1>5, <1>6

\* What app.quit() guarantees, whoever calls it.
LEMMA QuitEffect ==
    ASSUME ShellInv, ~exited, Quit, isQuitting' \in BOOLEAN
    PROVE  /\ exited' \in BOOLEAN /\ killTimers' \in 0..MaxQuits /\ closeHandlers' \in Nat
           /\ window' \in Windows /\ orphans' \in Nat
           /\ window = "none" => window' = "none"
           /\ orphans' > 0 => orphans > 0
           /\ exited' => server # "running"
           /\ isQuitting' => exited' \/ killTimers' > 0
           /\ killTimers > 0 => exited' \/ killTimers' > 0
           /\ window = "none" /\ orphans = 0 => exited' \/ killTimers' > 0
           /\ serverProcess => killTimers' > 0 /\ exited' = exited
<1>0. TypeOK /\ ChildInv
  BY DEF ShellInv
<1>1. CASE serverProcess
  <2>1. BeforeQuit
    BY <1>1 DEF Quit
  <2>2. QED
    BY <1>0, <1>1, <2>1, ShellConstants DEF TypeOK, ChildInv, BeforeQuit, Windows
<1>2. CASE ~serverProcess
  <2>1. CloseAllWindows
    BY <1>2 DEF Quit
  <2>2. server # "running"
    BY <1>0, <1>2 DEF ChildInv
  <2>3. CASE isQuitting' \/ (window = "none" /\ orphans = 0)
    <3>1. exited' = TRUE /\ window' = "none" /\ orphans' = 0
          /\ UNCHANGED <<killTimers, closeHandlers>>
      BY <2>1, <2>3 DEF CloseAllWindows
    <3>2. /\ exited' \in BOOLEAN /\ killTimers' \in 0..MaxQuits
          /\ closeHandlers' \in Nat
      BY <1>0, <3>1 DEF TypeOK
    <3>3. window' \in Windows /\ orphans' \in Nat /\ ~(orphans' > 0)
      BY <3>1 DEF Windows
    <3>4. QED
      BY <1>2, <2>2, <3>1, <3>2, <3>3
  <2>4. CASE ~(isQuitting' \/ (window = "none" /\ orphans = 0))
    BY <1>0, <1>2, <2>1, <2>2, <2>4 DEF TypeOK, CloseAllWindows, Windows
  <2>5. QED
    BY <2>3, <2>4
<1>3. QED
  BY <1>1, <1>2

\* Every way of asking to quit.
LEMMA QuitPreserves ==
    ASSUME ShellInv,
           \/ TrayQuit \/ SystemQuit
           \/ \E box \in Boxes : AnswerCrash(box) \/ AnswerStartup(box)
    PROVE  ShellInv'
<1> USE DEF platform, child, polling
<1>0. TypeOK /\ ChildInv /\ PollInv /\ ScreenInv /\ NoServerLeft /\ WindowsNeedServer
      /\ NeverInvisible
  BY DEF ShellInv
<1>1. CASE TrayQuit
  <2>1. ~exited /\ Quit /\ isQuitting' \in BOOLEAN
    BY <1>1 DEF TrayQuit
  <2>2. QED
    BY <1>0, <1>1, <2>1, QuitEffect DEF TrayQuit, ShellInv, TypeOK, ChildInv, PollInv,
       ScreenInv, NoServerLeft, WindowsNeedServer, NeverInvisible
<1>2. CASE SystemQuit
  <2>1. ~exited /\ Quit /\ isQuitting' \in BOOLEAN
    BY <1>0, <1>2 DEF SystemQuit, TypeOK
  <2>2. QED
    BY <1>0, <1>2, <2>1, QuitEffect DEF SystemQuit, ShellInv, TypeOK, ChildInv, PollInv,
       ScreenInv, NoServerLeft, WindowsNeedServer, NeverInvisible
<1>3. ASSUME NEW box \in Boxes, AnswerCrash(box) PROVE ShellInv'
  <2>1. ~exited /\ Quit /\ isQuitting' \in BOOLEAN
    BY <1>3 DEF AnswerCrash
  <2>2. QED
    BY <1>0, <1>3, <2>1, QuitEffect DEF AnswerCrash, ShellInv, TypeOK, ChildInv, PollInv,
       ScreenInv, NoServerLeft, WindowsNeedServer, NeverInvisible
<1>4. ASSUME NEW box \in Boxes, AnswerStartup(box) PROVE ShellInv'
  <2>1. ~exited /\ Quit /\ isQuitting' \in BOOLEAN
    BY <1>0, <1>4 DEF AnswerStartup, TypeOK
  <2>2. startup = "rejected"
    BY <1>0, <1>4 DEF AnswerStartup, ScreenInv
  <2>3. exited' \/ killTimers' > 0 \/ (isDev /\ isMac)
    BY <1>0, <2>1, <2>2, QuitEffect DEF TypeOK, ChildInv, WindowsNeedServer
  <2>4. QED
    BY <1>0, <1>4, <2>1, <2>2, <2>3, QuitEffect DEF AnswerStartup, ShellInv, TypeOK,
       ChildInv, PollInv, ScreenInv, NoServerLeft, WindowsNeedServer, NeverInvisible
<1>5. QED
  BY <1>1, <1>2, <1>3, <1>4

\* Logs, the kill timer and the end of the child.
LEMMA EndPreserves ==
    ASSUME ShellInv,
           \/ KillTimer
           \/ \E box \in Boxes : ViewLog(box)
           \/ \E code \in {"clean", "error"} : ServerClose(code)
    PROVE  ShellInv'
<1> USE DEF platform, child, polling, screen, quitting
<1>0. TypeOK /\ ChildInv /\ PollInv /\ ScreenInv /\ NoServerLeft /\ WindowsNeedServer
      /\ NeverInvisible
  BY DEF ShellInv
<1>1. CASE KillTimer
  <2>1. TypeOK'
    BY <1>0, <1>1, ShellConstants DEF KillTimer, TypeOK, Servers, Windows, Promises, Boxes
  <2>2. ChildInv'
    BY <1>0, <1>1, ShellConstants DEF KillTimer, TypeOK, ChildInv
  <2>3. PollInv'
    BY <1>0, <1>1, ShellConstants DEF KillTimer, TypeOK, ChildInv, PollInv
  <2>4. ScreenInv'
    BY <1>0, <1>1, ShellConstants DEF KillTimer, TypeOK, ChildInv, ScreenInv
  <2>5. NoServerLeft'
    BY <1>0, <1>1, ShellConstants DEF KillTimer, TypeOK, ChildInv, NoServerLeft
  <2>6. WindowsNeedServer'
    BY <1>0, <1>1, ShellConstants DEF KillTimer, TypeOK, ScreenInv, WindowsNeedServer
  <2>7. NeverInvisible'
    BY <1>0, <1>1, ShellConstants DEF KillTimer, TypeOK, ScreenInv, NeverInvisible
  <2>9. QED
    BY <2>1, <2>2, <2>3, <2>4, <2>5, <2>6, <2>7 DEF ShellInv
<1>2. ASSUME NEW box \in Boxes, ViewLog(box) PROVE ShellInv'
  BY <1>0, <1>2 DEF ViewLog, ShellInv, TypeOK, ChildInv, PollInv, ScreenInv,
     NoServerLeft, WindowsNeedServer, NeverInvisible, Boxes
<1>3. ASSUME NEW code \in {"clean", "error"}, ServerClose(code) PROVE ShellInv'
  <2>1. TypeOK'
    <3>1. serverProcess' \in BOOLEAN /\ exited' \in BOOLEAN /\ exitCode' \in {"clean", "error"}
      BY <1>0, <1>3 DEF ServerClose, TypeOK
    <3>2. window' \in Windows /\ dialogs' \in SUBSET Boxes /\ server' \in Servers
      BY <1>0, <1>3 DEF ServerClose, AfterClose, TypeOK, Servers, Windows, Boxes
    <3>3. QED
      BY <1>0, <1>3, <3>1, <3>2 DEF ServerClose, TypeOK
  <2>2. ChildInv'
    BY <1>0, <1>3 DEF ServerClose, AfterClose, TypeOK, ChildInv
  <2>3. PollInv'
    BY <1>0, <1>3 DEF ServerClose, AfterClose, TypeOK, ChildInv, PollInv
  <2>4. ScreenInv'
    BY <1>0, <1>3 DEF ServerClose, AfterClose, TypeOK, ChildInv, ScreenInv
  <2>5. NoServerLeft'
    BY <1>0, <1>3 DEF ServerClose, AfterClose, TypeOK, ChildInv, NoServerLeft
  <2>6. WindowsNeedServer'
    BY <1>0, <1>3 DEF ServerClose, AfterClose, TypeOK, ScreenInv, WindowsNeedServer
  <2>7. NeverInvisible'
    BY <1>0, <1>3 DEF ServerClose, AfterClose, TypeOK, ScreenInv, NeverInvisible
  <2>9. QED
    BY <2>1, <2>2, <2>3, <2>4, <2>5, <2>6, <2>7 DEF ShellInv
<1>4. QED
  BY <1>1, <1>2, <1>3

LEMMA NextShellInv == ShellInv /\ [Next]_vars => ShellInv'
<1> SUFFICES ASSUME ShellInv, [Next]_vars PROVE ShellInv'
  OBVIOUS
<1>1. CASE Next
  BY <1>1, PollPreserves, ScreenPreserves, QuitPreserves, EndPreserves DEF Next, Poll
<1>2. CASE UNCHANGED vars
  BY <1>2 DEF vars, platform, child, polling, screen, quitting, ShellInv, TypeOK,
     ChildInv, PollInv, ScreenInv, NoServerLeft, WindowsNeedServer, NeverInvisible
<1>3. QED
  BY <1>1, <1>2

\* The inductive invariant holds of every behaviour of the shell.
THEOREM ShellInvariant == Spec => []ShellInv
  BY InitShellInv, NextShellInv, PTL DEF Spec

\* Every variable keeps its type.
THEOREM ShellTypes == Spec => []TypeOK
  BY ShellInvariant, PTL DEF ShellInv

\* No way of quitting leaves the server process behind.
THEOREM ServerTakenDown == Spec => []NoServerLeft
  BY ShellInvariant, PTL DEF ShellInv

\* checkServerAvailability connects fewer than twice maxRetries times, for every
\* maxRetries and every mix of errors and timeouts.
THEOREM AttemptsAreBounded == Spec => []AttemptsBounded
<1>1. ShellInv => AttemptsBounded
  BY ShellConstants DEF ShellInv, TypeOK, PollInv, AttemptsBounded
<1>2. QED
  BY <1>1, ShellInvariant, PTL

\* Windows are opened after an answer; only macOS can be early or have two.
THEOREM WindowsFollowServer == Spec => []WindowsNeedServer
  BY ShellInvariant, PTL DEF ShellInv

\* A started application stays within reach until it exits.
THEOREM StaysReachable == Spec => []NeverInvisible
  BY ShellInvariant, PTL DEF ShellInv
=============================================================================
