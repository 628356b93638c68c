--------------------------- MODULE DesktopProofs ---------------------------
(***************************************************************************)
(* Proofs about Desktop, for any number of retries, timeouts and quits:    *)
(* type correctness with the bound on connection attempts, that no server  *)
(* is left behind (NoOrphan), and that the tray controls the one window    *)
(* there is (WindowTracked).                                               *)
(***************************************************************************)
EXTENDS Desktop, TLAPS

(* Connections. Every chain of attempts is one connection, one destroyed
   connection or one timer, and each timeout splits a chain in two; a timer is an
   attempt to come. *)
ConnInv ==
    /\ start \in {"pending", "resolved", "rejected"}
    /\ timeouts \in 0..MaxTimeouts /\ attempt \in Nat \ {0}
    /\ open \in Nat /\ destroyed \in 0..timeouts /\ retries \in Nat
    /\ open + destroyed + retries <= 1 + timeouts
    /\ attempt + retries <= MaxRetries + timeouts

(* The process. A quit that was meant has a listener to end it. *)
ProcInv ==
    /\ app \in {"up", "exited"} /\ isQuitting \in BOOLEAN
    /\ server \in {"none", "up", "ended", "failed"} /\ closing \in BOOLEAN
    /\ signal \in {"none", "TERM", "KILL"} /\ listeners \in Nat /\ killers \in Nat
    /\ NoOrphan
    /\ closing => server # "up"
    /\ isQuitting /\ app = "up" => listeners > 0

UiType ==
    /\ mac \in BOOLEAN /\ early \in BOOLEAN /\ tray \in BOOLEAN /\ dock \in BOOLEAN
    /\ mainWindow \in {0} \cup Windows /\ win \in [Windows -> {"none", "shown", "hidden"}]

(* Windows. Before the server answers there is none, and when there is none the
   icon is in the dock. *)
UiInv ==
    /\ UiType
    /\ tray => start = "resolved"
    /\ mac \/ dock
    /\ ~early =>
         /\ \A w \in Windows : win[w] # "none" => w = mainWindow
         /\ dock \/ \A w \in Windows : win[w] # "shown"
         /\ start # "resolved" => mainWindow = 0
         /\ mainWindow # 0 => win[mainWindow] # "none"
         /\ app = "up" /\ mainWindow = 0 => dock

RestInv ==
    /\ dev \in BOOLEAN /\ quits \in 0..MaxQuits
    /\ dialogs \subseteq {"start", "crash", "startlog", "crashlog"}

(* The inductive invariant *)
DesktopInv == ConnInv /\ ProcInv /\ UiInv /\ RestInv

(* It holds at first. *)
LEMMA InitInv == Init => DesktopInv
<1> SUFFICES ASSUME Init PROVE DesktopInv
  OBVIOUS
<1>1. ConnInv
  BY DesktopAssumption DEF Init, ConnInv
<1>2. ProcInv
  BY DEF Init, ProcInv, NoOrphan
<1>3. UiInv
  BY DEF Init, UiInv, UiType
<1>4. RestInv
  BY DesktopAssumption DEF Init, RestInv
<1> QED BY <1>1, <1>2, <1>3, <1>4 DEF DesktopInv

(* A failed connection starts one timer or none. *)
LEMMA ConnNext == DesktopInv /\ [Next]_vars => ConnInv'
<1> SUFFICES ASSUME DesktopInv, [Next]_vars PROVE ConnInv'
  OBVIOUS
<1>1. ConnInv
  BY DEF DesktopInv
<1>2. ASSUME UNCHANGED conn PROVE ConnInv'
  BY <1>1, <1>2 DEF ConnInv, conn
<1>3. ASSUME tryConnect PROVE ConnInv'
  BY <1>1, <1>3, DesktopAssumption DEF tryConnect, ConnInv
<1>4. ASSUME Responds PROVE ConnInv'
  BY <1>1, <1>4 DEF Responds, Resolve, ConnInv
<1>5. ASSUME RetryOrGiveUp
      PROVE  /\ start' \in {"pending", "resolved", "rejected"}
             /\ \/ attempt < MaxRetries /\ retries' = retries + 1
                \/ retries' = retries
  BY <1>1, <1>5, DesktopAssumption DEF RetryOrGiveUp, Reject, ConnInv
<1>6. ASSUME ConnectError PROVE ConnInv'
  <2>1. CASE open > 0 /\ open' = open - 1 /\ UNCHANGED destroyed
    BY <1>1, <1>5, <1>6, <2>1, DesktopAssumption DEF ConnectError, ConnInv
  <2>2. CASE destroyed > 0 /\ destroyed' = destroyed - 1 /\ UNCHANGED open
    BY <1>1, <1>5, <1>6, <2>2, DesktopAssumption DEF ConnectError, ConnInv
  <2> QED BY <1>6, <2>1, <2>2 DEF ConnectError
<1>7. ASSUME ConnectTimeout PROVE ConnInv'
  BY <1>1, <1>5, <1>7, DesktopAssumption DEF ConnectTimeout, ConnInv
<1>8. ASSUME SpawnFails PROVE ConnInv'
  BY <1>1, <1>8 DEF SpawnFails, ConnInv
<1>9. CASE ServerEnds \/ User \/ ServerClosed \/ KillTimer
  <2>1. UNCHANGED conn
    BY <1>9 DEF ServerEnds, User, AnswerDialog, UserQuits, UserClosesWindow, TrayShow, Activate,
       ServerClosed, KillTimer, conn
  <2> QED BY <1>2, <2>1
<1>10. CASE UNCHANGED vars
  BY <1>2, <1>10 DEF vars
<1> QED
  BY <1>3, <1>4, <1>6, <1>7, <1>8, <1>9, <1>10 DEF Next, Environment

(* Asking the app to quit: it goes only when there is no process. *)
LEMMA QuitProc ==
  ASSUME ProcInv, app = "up", quit, isQuitting' \in BOOLEAN, UNCHANGED <<server, closing>>
  PROVE  ProcInv'
<1>1. CASE server # "none"
  BY <1>1 DEF quit, ProcInv, NoOrphan
<1>2. CASE server = "none"
  BY <1>2 DEF quit, ProcInv, NoOrphan
<1> QED BY <1>1, <1>2

(* The app exits when the process is gone or has been killed. *)
LEMMA ProcNext == DesktopInv /\ [Next]_vars => ProcInv'
<1> SUFFICES ASSUME DesktopInv, [Next]_vars PROVE ProcInv'
  OBVIOUS
<1>1. ProcInv /\ UiType
  BY DEF DesktopInv, UiInv
<1>2. ASSUME UNCHANGED <<app, proc, listeners, killers, isQuitting>> PROVE ProcInv'
  BY <1>1, <1>2 DEF ProcInv, NoOrphan, proc
<1>3. ASSUME KillTimer PROVE ProcInv'
  BY <1>1, <1>3 DEF KillTimer, ProcInv, NoOrphan
<1>4. ASSUME ServerEnds PROVE ProcInv'
  BY <1>1, <1>4 DEF ServerEnds, ProcInv, NoOrphan
<1>5. ASSUME ServerClosed PROVE ProcInv'
  BY <1>1, <1>5 DEF ServerClosed, ProcInv, NoOrphan
<1>6. ASSUME SpawnFails PROVE ProcInv'
  BY <1>1, <1>6 DEF SpawnFails, ProcInv, NoOrphan
<1>7. ASSUME NEW d \in dialogs, AnswerDialog(d) PROVE ProcInv'
  <2>1. CASE UNCHANGED <<isQuitting, app, signal, listeners, killers>>
    BY <1>2, <1>7, <2>1 DEF AnswerDialog, proc
  <2>2. CASE quit /\ isQuitting' = (isQuitting \/ d \in {"crash", "crashlog"})
    BY <1>1, <1>7, <2>2, QuitProc DEF AnswerDialog
  <2> QED BY <1>7, <2>1, <2>2 DEF AnswerDialog
<1>8. ASSUME UserQuits PROVE ProcInv'
  <2>1. isQuitting' \in BOOLEAN
    BY <1>1, <1>8 DEF UserQuits, ProcInv
  <2> QED BY <1>1, <1>8, <2>1, QuitProc DEF UserQuits
<1>9. ASSUME \/ tryConnect \/ Responds \/ ConnectError \/ ConnectTimeout
             \/ (\E w \in Windows : UserClosesWindow(w)) \/ TrayShow \/ Activate \/ UNCHANGED vars
      PROVE  ProcInv'
  BY <1>2, <1>9 DEF tryConnect, Responds, ConnectError, ConnectTimeout, UserClosesWindow, TrayShow,
     Activate, vars, proc
<1> QED
  BY <1>3, <1>4, <1>5, <1>6, <1>7, <1>8, <1>9 DEF Next, Environment, User

(* A new window takes the place of none. *)
LEMMA CreateUi ==
  ASSUME UiInv, createWindow, UNCHANGED <<mac, app>>, tray' \in BOOLEAN, early' \in BOOLEAN,
         tray' => start' = "resolved", early => early',
         ~early' => mainWindow = 0 /\ app = "up" /\ start' = "resolved"
  PROVE  UiInv'
<1>1. PICK w \in Windows \ Opened : win' = [win EXCEPT ![w] = "shown"] /\ mainWindow' = w /\ UNCHANGED dock
  BY DEF createWindow
<1>2. UiType' /\ (mac' \/ dock')
  BY <1>1 DEF UiInv, UiType
<1>3. w # 0 /\ win'[w] = "shown" /\ \A v \in Windows \ {w} : win'[v] = win[v]
  BY <1>1 DEF UiInv, UiType, Windows
<1>4. ~early' => ~early /\ dock /\ \A v \in Windows : win[v] = "none"
  BY DEF UiInv, UiType, Windows
<1> QED BY <1>1, <1>2, <1>3, <1>4 DEF UiInv

(* Hiding the window keeps it the window of the variable. *)
LEMMA HideUi ==
  ASSUME UiInv, HideMain, UNCHANGED <<mac, tray, early, start>>, app = "exited" => app' = "exited"
  PROVE  UiInv'
<1>1. UiType' /\ (mac' \/ dock')
  BY DEF UiInv, UiType, HideMain
<1>2. /\ mainWindow' = mainWindow /\ mainWindow # 0 /\ win'[mainWindow] = "hidden"
      /\ \A v \in Windows \ {mainWindow} : win'[v] = win[v]
  BY DEF UiInv, UiType, HideMain, Windows
<1> QED BY <1>1, <1>2 DEF UiInv

(* A window that is closed for good, when the icon is there or the app ends. *)
LEMMA CloseUi ==
  ASSUME UiInv, NEW w \in Windows, CloseWindow(w), UNCHANGED <<mac, tray, early, start>>,
         win[w] # "none" \/ w = mainWindow, app = "exited" => app' = "exited",
         win[w] = "shown" \/ app' = "exited" \/ ~isQuitting
  PROVE  UiInv'
<1>1. CASE ~isQuitting
  BY <1>1, HideUi DEF CloseWindow
<1>2. CASE isQuitting
  <2>1. win' = [win EXCEPT ![w] = "none"] /\ mainWindow' = 0 /\ UNCHANGED dock
    BY <1>2 DEF CloseWindow
  <2>2. UiType' /\ (mac' \/ dock')
    BY <2>1 DEF UiInv, UiType
  <2>3. win'[w] = "none" /\ \A v \in Windows \ {w} : win'[v] = win[v]
    BY <2>1 DEF UiInv, UiType
  <2>4. ~early => w = mainWindow
    BY DEF UiInv
  <2>5. ~early => \A v \in Windows : win'[v] = "none"
    BY <2>3, <2>4 DEF UiInv, UiType
  <2>6. ~early => app' = "exited" \/ dock
    BY <1>2 DEF UiInv
  <2> QED BY <2>1, <2>2, <2>5, <2>6 DEF UiInv
<1> QED BY <1>1, <1>2

(* Quitting closes no window of an app that stays up. *)
LEMMA QuitUi ==
  ASSUME UiInv, app = "up", quit, UNCHANGED <<mac, tray, early, start>>
  PROVE  UiInv'
<1>1. CASE HideMain
  BY <1>1, HideUi
<1>2. CASE UNCHANGED ui
  BY <1>2 DEF UiInv, UiType, ui
<1> QED BY <1>1, <1>2 DEF quit

(* Showing the window brings the icon back. *)
LEMMA ShowUi ==
  ASSUME UiInv, ShowMain, tray, app = "up", UNCHANGED <<mac, tray, early, start, app>>
  PROVE  UiInv'
<1>1. CASE mainWindow = 0
  BY <1>1, CreateUi DEF ShowMain, UiInv, UiType
<1>2. CASE mainWindow # 0
  <2>1. win' = [win EXCEPT ![mainWindow] = "shown"] /\ dock' = (dock \/ mac) /\ UNCHANGED mainWindow
    BY <1>2 DEF ShowMain
  <2>2. UiType' /\ dock'
    BY <2>1 DEF UiInv, UiType
  <2>3. win'[mainWindow] = "shown" /\ \A v \in Windows \ {mainWindow} : win'[v] = win[v]
    BY <1>2, <2>1 DEF UiInv, UiType
  <2> QED BY <1>2, <2>1, <2>2, <2>3 DEF UiInv
<1> QED BY <1>1, <1>2

(* The window stays tracked. *)
LEMMA UiNext == DesktopInv /\ [Next]_vars => UiInv'
<1> SUFFICES ASSUME DesktopInv, [Next]_vars PROVE UiInv'
  OBVIOUS
<1>1. UiInv /\ ProcInv /\ ConnInv
  BY DEF DesktopInv
<1>2. ASSUME UNCHANGED <<mac, early, tray, ui>>, app = "exited" => app' = "exited",
             start' = start \/ (start = "pending" /\ start' = "rejected")
      PROVE  UiInv'
  <2>1. app' = "up" => app = "up"
    BY <1>1, <1>2 DEF ProcInv
  <2> QED BY <1>1, <1>2, <2>1 DEF UiInv, UiType, ui
<1>3. ASSUME KillTimer \/ ServerEnds \/ SpawnFails \/ tryConnect PROVE UiInv'
  <2>1. UNCHANGED <<mac, early, tray, ui>> /\ (app = "exited" => app' = "exited")
    BY <1>3 DEF KillTimer, ServerEnds, SpawnFails, tryConnect
  <2>2. start' = start \/ (start = "pending" /\ start' = "rejected")
    BY <1>3 DEF KillTimer, ServerEnds, SpawnFails, tryConnect, conn
  <2> QED BY <1>2, <2>1, <2>2
<1>4. ASSUME ConnectError \/ ConnectTimeout PROVE UiInv'
  <2>1. UNCHANGED <<mac, early, tray, ui, app>>
    BY <1>4 DEF ConnectError, ConnectTimeout
  <2>2. start' = start \/ (start = "pending" /\ start' = "rejected")
    BY <1>4 DEF ConnectError, ConnectTimeout, RetryOrGiveUp, Reject
  <2> QED BY <1>2, <2>1, <2>2
<1>5. ASSUME Responds PROVE UiInv'
  <2>1. CASE start # "pending"
    BY <1>2, <1>5, <2>1 DEF Responds, Resolve
  <2>2. CASE start = "pending"
    BY <1>1, <1>5, <2>2, CreateUi DEF Responds, Resolve, UiInv, UiType
  <2> QED BY <2>1, <2>2
<1>6. ASSUME ServerClosed PROVE UiInv'
  <2>1. CASE UNCHANGED ui
    BY <1>2, <1>6, <2>1 DEF ServerClosed, conn
  <2>2. CASE mainWindow # 0 /\ CloseWindow(mainWindow)
    <3>1. mainWindow \in Windows
      BY <1>1, <2>2 DEF UiInv, UiType
    <3>2. isQuitting => app' = "exited"
      BY <1>1, <1>6 DEF ServerClosed, ProcInv
    <3>3. UNCHANGED <<mac, tray, early, start>> /\ app = "up"
      BY <1>6 DEF ServerClosed, conn
    <3> QED BY <1>1, <2>2, <3>1, <3>2, <3>3, CloseUi
  <2> QED BY <1>6, <2>1, <2>2 DEF ServerClosed
<1>7. ASSUME NEW d \in dialogs, AnswerDialog(d) PROVE UiInv'
  <2>1. CASE quit
    BY <1>1, <1>7, <2>1, QuitUi DEF AnswerDialog, conn
  <2>2. CASE UNCHANGED <<app, ui>>
    BY <1>2, <1>7, <2>2 DEF AnswerDialog, conn
  <2> QED BY <1>7, <2>1, <2>2 DEF AnswerDialog
<1>8. ASSUME UserQuits PROVE UiInv'
  BY <1>1, <1>8, QuitUi DEF UserQuits, conn
<1>9. ASSUME NEW w \in Windows, UserClosesWindow(w) PROVE UiInv'
  BY <1>1, <1>9, CloseUi DEF UserClosesWindow, conn
<1>10. ASSUME TrayShow PROVE UiInv'
  <2>1. CASE ShowMain
    BY <1>1, <1>10, <2>1, ShowUi DEF TrayShow, conn
  <2>2. CASE mainWindow # 0 /\ win' = [win EXCEPT ![mainWindow] = "hidden"] /\ UNCHANGED <<dock, mainWindow>>
    <3>1. UNCHANGED <<mac, tray, early, start, app>>
      BY <1>10 DEF TrayShow, conn
    <3>2. UiType' /\ win'[mainWindow] = "hidden" /\ \A v \in Windows \ {mainWindow} : win'[v] = win[v]
      BY <1>1, <2>2, <3>1 DEF UiInv, UiType
    <3> QED BY <1>1, <2>2, <3>1, <3>2 DEF UiInv
  <2> QED BY <1>10, <2>1, <2>2 DEF TrayShow
<1>11. ASSUME Activate PROVE UiInv'
  <2>1. \A w \in Windows : win[w] = "none"
    BY <1>11 DEF Activate, Opened
  <2>2. ~early => mainWindow = 0
    BY <1>1, <2>1 DEF UiInv, UiType
  <2> QED BY <1>1, <1>11, <2>2, CreateUi DEF Activate, conn, UiInv, UiType
<1>12. ASSUME UNCHANGED vars PROVE UiInv'
  BY <1>2, <1>12 DEF vars, conn
<1> QED
  BY <1>3, <1>4, <1>5, <1>6, <1>7, <1>8, <1>9, <1>10, <1>11, <1>12 DEF Next, Environment, User

(* The message boxes. *)
LEMMA RestNext == DesktopInv /\ [Next]_vars => RestInv'
<1> SUFFICES ASSUME DesktopInv, [Next]_vars PROVE RestInv'
  OBVIOUS
<1>1. RestInv
  BY DEF DesktopInv
<1>2. ASSUME dialogs' \subseteq dialogs \cup {"start", "crash", "startlog", "crashlog"}, UNCHANGED <<dev, quits>>
      PROVE  RestInv'
  BY <1>1, <1>2 DEF RestInv
<1>3. ASSUME KillTimer \/ ServerEnds \/ SpawnFails \/ tryConnect \/ ServerClosed PROVE RestInv'
  BY <1>2, <1>3 DEF KillTimer, ServerEnds, SpawnFails, tryConnect, ServerClosed
<1>4. ASSUME ConnectError \/ ConnectTimeout \/ Responds PROVE RestInv'
  BY <1>2, <1>4 DEF ConnectError, ConnectTimeout, RetryOrGiveUp, Reject, Responds, Resolve
<1>5. ASSUME NEW d \in dialogs, AnswerDialog(d) PROVE RestInv'
  BY <1>2, <1>5 DEF AnswerDialog
<1>6. ASSUME UserQuits PROVE RestInv'
  BY <1>1, <1>6, DesktopAssumption DEF UserQuits, RestInv
<1>7. ASSUME (\E w \in Windows : UserClosesWindow(w)) \/ TrayShow \/ Activate \/ UNCHANGED vars PROVE RestInv'
  BY <1>2, <1>7 DEF UserClosesWindow, TrayShow, Activate, vars
<1> QED
  BY <1>3, <1>4, <1>5, <1>6, <1>7 DEF Next, Environment, User

(* The inductive invariant holds in every reachable state. *)
THEOREM SpecInv == Spec => []DesktopInv
<1>1. Init => DesktopInv
  BY InitInv
<1>2. DesktopInv /\ [Next]_vars => DesktopInv'
  BY ConnNext, ProcNext, UiNext, RestNext DEF DesktopInv
<1> QED BY <1>1, <1>2, PTL DEF Spec

(* Type correctness: with any number of timeouts, checkServerAvailability makes at
   most maxRetries attempts and one more for each timeout. *)
THEOREM TypeCorrect == Spec => []TypeOK
<1>1. DesktopInv => TypeOK
  <2> SUFFICES ASSUME DesktopInv PROVE TypeOK
    OBVIOUS
  <2>1. timeouts \in 0..MaxTimeouts /\ attempt \in 1..(MaxRetries + timeouts)
        /\ open \in 0..(1 + timeouts) /\ destroyed \in 0..timeouts /\ retries \in 0..(1 + timeouts)
    BY DesktopAssumption DEF DesktopInv, ConnInv
  <2> QED BY <2>1 DEF DesktopInv, ConnInv, ProcInv, UiInv, UiType, RestInv, TypeOK
<1> QED BY <1>1, SpecInv, PTL

(* The shell leaves no server behind: whichever of the close event, the kill timer
   and the user is first, the app exits after the process has ended or after it was
   sent SIGKILL (before-quit). *)
THEOREM NoServerLeft == Spec => []NoOrphan
<1>1. DesktopInv => NoOrphan
  BY DEF DesktopInv, ProcInv
<1> QED BY <1>1, SpecInv, PTL

(* The variable mainWindow holds the one window there is, and on macOS a window on
   the screen has its icon in the dock, unless activate opened one before the
   server answered. *)
THEOREM WindowStaysTracked == Spec => []WindowTracked
<1>1. DesktopInv => WindowTracked
  BY DEF DesktopInv, UiInv, UiType, WindowTracked, Opened, Windows
<1> QED BY <1>1, SpecInv, PTL
=============================================================================
