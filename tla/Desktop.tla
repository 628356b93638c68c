------------------------------ MODULE Desktop ------------------------------
(***************************************************************************)
(* The desktop shell (electron/main.js): it starts the server as a child   *)
(* process, waits until its port answers, shows it in a window, hides the  *)
(* window to the tray, and takes the server down when it quits.            *)
(*                                                                         *)
(* A callback is one step. Electron, the operating system, the server and  *)
(* the user are the environment: ports answer, refuse or hang, the server  *)
(* ends when it likes, and any button is pressed at any time. In           *)
(* development nothing is started and the port is that of Vite.            *)
(***************************************************************************)
EXTENDS Integers, FiniteSets

CONSTANTS
    MaxRetries,   \* maxRetries of checkServerAvailability
    MaxTimeouts,  \* bound: connections that time out
    MaxQuits      \* bound: times the user asks to quit

ASSUME DesktopAssumption ==
    MaxRetries \in Nat \ {0} /\ MaxTimeouts \in Nat /\ MaxQuits \in Nat

VARIABLES
    dev,        \* NODE_ENV is development
    mac,        \* the platform is darwin
    app,        \* "up", or "exited"
    start,      \* promise of startServer: "pending", "resolved" or "rejected"
    attempt,    \* currentAttempt
    open,       \* connections under way
    destroyed,  \* connections destroyed after a timeout, whose error is to come
    retries,    \* pending setTimeout(tryConnect, retryDelay)
    timeouts,   \* connections that timed out
    server,     \* process: "none", "up", "ended" or, with a nonzero code, "failed"
    closing,    \* the close event of the process is to come
    signal,     \* last signal sent to it: "none", "TERM" or "KILL"
    listeners,  \* close listeners that before-quit has added
    killers,    \* pending 5 s timers of before-quit
    mainWindow, \* the window the variable mainWindow holds, or 0
    win,        \* per window: "none", "shown" or "hidden"
    dock,       \* the dock icon is shown
    tray,       \* there is a tray icon
    isQuitting, \* app.isQuitting
    dialogs,    \* open message boxes: "start", "crash", and "startlog", "crashlog"
                \* after the log was asked for
    quits,      \* times the user asked to quit
    early       \* history: a window was opened before the server answered

conn == <<start, attempt, open, destroyed, retries, timeouts>>
proc == <<server, closing, signal>>
ui == <<mainWindow, win, dock>>
vars == <<dev, mac, app, conn, proc, listeners, killers, ui, tray, isQuitting, dialogs, quits, early>>

-----------------------------------------------------------------------------
Windows == {1, 2}
Opened == {w \in Windows : win[w] # "none"}

Init ==
    /\ dev \in BOOLEAN /\ mac \in BOOLEAN /\ app = "up"
    /\ start = "pending" /\ attempt = 1 /\ open = 1 /\ destroyed = 0 /\ retries = 0
    /\ timeouts = 0
    /\ server = IF dev THEN "none" ELSE "up"
    /\ closing = FALSE /\ signal = "none" /\ listeners = 0 /\ killers = 0
    /\ mainWindow = 0 /\ win = [w \in Windows |-> "none"] /\ dock = TRUE /\ tray = FALSE
    /\ isQuitting = FALSE /\ dialogs = {} /\ quits = 0 /\ early = FALSE

-----------------------------------------------------------------------------
(* Windows. *)

(* createWindow: the variable forgets a window it held before. *)
createWindow ==
    \E w \in Windows \ Opened :
        /\ win' = [win EXCEPT ![w] = "shown"] /\ mainWindow' = w
        /\ UNCHANGED dock

(* The listener of a window's close event hides the window of the variable. *)
HideMain ==
    /\ mainWindow # 0 /\ win' = [win EXCEPT ![mainWindow] = "hidden"]
    /\ dock' = (dock /\ ~mac)
    /\ UNCHANGED mainWindow

(* close and closed of window w *)
CloseWindow(w) ==
    IF isQuitting
      THEN win' = [win EXCEPT ![w] = "none"] /\ mainWindow' = 0 /\ UNCHANGED dock
      ELSE HideMain

-----------------------------------------------------------------------------
(* Quitting. *)

(* mutant: the shell waits for the server to end *)
quitWaits ==
    IF server # "none"
      THEN /\ signal' = IF server = "up" THEN "TERM" ELSE signal
           /\ listeners' = listeners + 1
           /\ UNCHANGED <<app, killers, ui>>
      ELSE /\ app' = "exited"
           /\ UNCHANGED <<signal, listeners, killers, ui>>

(* app.quit() after isQuitting' was set. before-quit stops it as long as there is
   a server process, also one that has ended; otherwise the windows are closed,
   and one that stays stops it. *)
quit ==
    IF server # "none"
      THEN /\ signal' = IF server = "up" /\ signal = "none" THEN "TERM" ELSE signal
           /\ listeners' = listeners + 1 /\ killers' = killers + 1
           /\ UNCHANGED <<app, ui>>
      ELSE /\ IF isQuitting' \/ Opened = {}
                THEN app' = "exited" /\ UNCHANGED ui
                ELSE HideMain /\ UNCHANGED app
           /\ UNCHANGED <<signal, listeners, killers>>

(* mutant: the process is not killed when its time is over *)
KillTimerLeaves ==
    /\ app = "up" /\ killers > 0
    /\ app' = "exited" /\ killers' = killers - 1
    /\ UNCHANGED <<dev, mac, conn, proc, listeners, ui, tray, isQuitting, dialogs, quits, early>>

KillTimer ==
    /\ app = "up" /\ killers > 0
    /\ signal' = IF server = "up" THEN "KILL" ELSE signal
    /\ app' = "exited" /\ killers' = killers - 1
    /\ UNCHANGED <<dev, mac, conn, server, closing, listeners, ui, tray, isQuitting, dialogs,
                   quits, early>>

-----------------------------------------------------------------------------
(* The server process. *)

(* It ends by itself or after a signal: with code 0 or none, or with an error. *)
ServerEnds ==
    /\ server = "up"
    /\ server' \in IF signal = "KILL" THEN {"ended"} ELSE {"ended", "failed"}
    /\ closing' = (app = "up")
    /\ UNCHANGED <<dev, mac, app, conn, signal, listeners, killers, ui, tray, isQuitting, dialogs,
                   quits, early>>

(* The close event: the listener of startServer, then those of before-quit. *)
ServerClosed ==
    /\ app = "up" /\ closing
    /\ closing' = FALSE
    /\ IF server = "failed"
         THEN dialogs' = dialogs \cup {"crash"} /\ UNCHANGED ui
         ELSE /\ IF mainWindow # 0 THEN CloseWindow(mainWindow) ELSE UNCHANGED ui
              /\ UNCHANGED dialogs
    /\ app' = IF listeners > 0 THEN "exited" ELSE app
    /\ UNCHANGED <<dev, mac, conn, server, signal, listeners, killers, tray, isQuitting, quits, early>>

(* The binary cannot be started: error and close. *)
SpawnFails ==
    /\ app = "up" /\ start = "pending" /\ server = "up" /\ attempt = 1 /\ signal = "none"
    /\ server' = "failed" /\ closing' = TRUE
    /\ start' = "rejected" /\ dialogs' = dialogs \cup {"start"}
    /\ UNCHANGED <<dev, mac, app, attempt, open, destroyed, retries, timeouts, signal, listeners,
                   killers, ui, tray, isQuitting, quits, early>>

-----------------------------------------------------------------------------
(* checkServerAvailability *)

(* What follows when the promise is settled; the first settlement counts. *)
Resolve ==
    IF start = "pending"
      THEN /\ start' = "resolved" /\ tray' = TRUE
           /\ createWindow
           /\ UNCHANGED dialogs
      ELSE UNCHANGED <<start, tray, ui, dialogs>>

Reject ==
    IF start = "pending"
      THEN start' = "rejected" /\ dialogs' = dialogs \cup {"start"}
      ELSE UNCHANGED <<start, dialogs>>

(* mutant: the last attempt is not reported *)
RetryOrGiveUpNever ==
    IF attempt >= MaxRetries
      THEN UNCHANGED <<retries, start, dialogs>>
      ELSE retries' = retries + 1 /\ UNCHANGED <<start, dialogs>>

(* mutant: one attempt too many *)
RetryOrGiveUpLate ==
    IF attempt > MaxRetries
      THEN Reject /\ UNCHANGED retries
      ELSE retries' = retries + 1 /\ UNCHANGED <<start, dialogs>>

RetryOrGiveUp ==
    IF attempt >= MaxRetries
      THEN Reject /\ UNCHANGED retries
      ELSE retries' = retries + 1 /\ UNCHANGED <<start, dialogs>>

tryConnect ==
    /\ app = "up" /\ retries > 0
    /\ retries' = retries - 1 /\ attempt' = attempt + 1 /\ open' = open + 1
    /\ UNCHANGED <<dev, mac, app, start, destroyed, timeouts, proc, listeners, killers, ui, tray,
                   isQuitting, dialogs, quits, early>>

(* Something answers on the port: the server, or a program that was there before. *)
Responds ==
    /\ app = "up" /\ open > 0
    /\ open' = open - 1
    /\ Resolve
    /\ UNCHANGED <<dev, mac, app, attempt, destroyed, retries, timeouts, proc, listeners, killers,
                   isQuitting, quits, early>>

(* The error event, of a connection that is refused or was destroyed *)
ConnectError ==
    /\ app = "up"
    /\ \/ open > 0 /\ open' = open - 1 /\ UNCHANGED destroyed
       \/ destroyed > 0 /\ destroyed' = destroyed - 1 /\ UNCHANGED open
    /\ RetryOrGiveUp
    /\ UNCHANGED <<dev, mac, app, attempt, timeouts, proc, listeners, killers, ui, tray, isQuitting,
                   quits, early>>

(* The timeout event: the connection is destroyed, which gives an error too. *)
ConnectTimeout ==
    /\ app = "up" /\ open > 0 /\ timeouts < MaxTimeouts
    /\ open' = open - 1 /\ destroyed' = destroyed + 1 /\ timeouts' = timeouts + 1
    /\ RetryOrGiveUp
    /\ UNCHANGED <<dev, mac, app, attempt, proc, listeners, killers, ui, tray, isQuitting, quits,
                   early>>

-----------------------------------------------------------------------------
(* The user. *)

(* The buttons of the message boxes. A crash is followed by a quit that closes
   windows; a failed start is not. *)
AnswerDialog(d) ==
    /\ app = "up" /\ d \in dialogs
    /\ \/ /\ d \in {"start", "crash"}
          /\ dialogs' = (dialogs \ {d}) \cup {IF d = "start" THEN "startlog" ELSE "crashlog"}
          /\ UNCHANGED <<isQuitting, app, signal, listeners, killers, ui>>
       \/ /\ dialogs' = dialogs \ {d}
          /\ isQuitting' = (isQuitting \/ d \in {"crash", "crashlog"})
          /\ quit
    /\ UNCHANGED <<dev, mac, conn, server, closing, tray, quits, early>>

(* Quit in the tray menu, or the quit of the system, which does not say so *)
UserQuits ==
    /\ app = "up" /\ quits < MaxQuits /\ quits' = quits + 1
    /\ \/ tray /\ isQuitting' = TRUE
       \/ UNCHANGED isQuitting
    /\ quit
    /\ UNCHANGED <<dev, mac, conn, server, closing, tray, dialogs, early>>

UserClosesWindow(w) ==
    /\ app = "up" /\ win[w] = "shown"
    /\ CloseWindow(w)
    /\ UNCHANGED <<dev, mac, app, conn, proc, listeners, killers, tray, isQuitting, dialogs, quits,
                   early>>

(* mutant: the window comes back without the dock icon *)
ShowMainOnly ==
    IF mainWindow = 0 THEN createWindow
    ELSE win' = [win EXCEPT ![mainWindow] = "shown"] /\ UNCHANGED <<dock, mainWindow>>

ShowMain ==
    IF mainWindow = 0 THEN createWindow
    ELSE /\ win' = [win EXCEPT ![mainWindow] = "shown"]
         /\ dock' = (dock \/ mac)
         /\ UNCHANGED mainWindow

(* Show in the tray menu, and a click on the icon *)
TrayShow ==
    /\ app = "up" /\ tray
    /\ \/ ShowMain
       \/ IF mainWindow # 0 /\ win[mainWindow] = "shown"
            THEN win' = [win EXCEPT ![mainWindow] = "hidden"] /\ UNCHANGED <<dock, mainWindow>>
            ELSE ShowMain
    /\ UNCHANGED <<dev, mac, app, conn, proc, listeners, killers, tray, isQuitting, dialogs, quits,
                   early>>

(* activate of macOS: a click on the dock icon, and the launch itself *)
Activate ==
    /\ app = "up" /\ mac /\ Opened = {}
    /\ createWindow
    /\ early' = (early \/ start # "resolved")
    /\ UNCHANGED <<dev, mac, app, conn, proc, listeners, killers, tray, isQuitting, dialogs, quits>>

-----------------------------------------------------------------------------
Environment == ServerEnds \/ SpawnFails \/ Responds \/ ConnectTimeout

User ==
    \/ \E d \in dialogs : AnswerDialog(d)
    \/ UserQuits \/ \E w \in Windows : UserClosesWindow(w)
    \/ TrayShow \/ Activate

Next == Environment \/ User \/ ServerClosed \/ KillTimer \/ tryConnect \/ ConnectError

(* Timers fire and events are delivered; a connection ends one way or another. *)
Fairness ==
    /\ WF_vars(ServerClosed) /\ WF_vars(KillTimer) /\ WF_vars(tryConnect)
    /\ WF_vars(Responds \/ ConnectError \/ ConnectTimeout)

Spec == Init /\ [][Next]_vars /\ Fairness

-----------------------------------------------------------------------------
(* Properties. *)

(* Type invariant. maxRetries is the number of attempts but for timeouts: each of them starts a
   second chain of retries, which ends with one attempt of its own. *)
TypeOK ==
    /\ dev \in BOOLEAN /\ mac \in BOOLEAN /\ app \in {"up", "exited"}
    /\ start \in {"pending", "resolved", "rejected"}
    /\ timeouts \in 0..MaxTimeouts /\ attempt \in 1..(MaxRetries + timeouts)
    /\ open \in 0..(1 + timeouts) /\ destroyed \in 0..timeouts /\ retries \in 0..(1 + timeouts)
    /\ server \in {"none", "up", "ended", "failed"} /\ closing \in BOOLEAN
    /\ signal \in {"none", "TERM", "KILL"} /\ listeners \in Nat /\ killers \in Nat
    /\ mainWindow \in {0} \cup Windows /\ win \in [Windows -> {"none", "shown", "hidden"}]
    /\ dock \in BOOLEAN /\ tray \in BOOLEAN /\ isQuitting \in BOOLEAN /\ early \in BOOLEAN
    /\ dialogs \subseteq {"start", "crash", "startlog", "crashlog"} /\ quits \in 0..MaxQuits

(* The app leaves no server behind: when it has exited, the process has ended or
   has been killed. *)
NoOrphan == app = "exited" => server # "up" \/ signal = "KILL"

(* Unless a window was opened before the server answered, the one window there is
   is the one the tray shows and hides, and on macOS it is never on the screen
   without the icon in the dock. *)
WindowTracked ==
    ~early => /\ Opened \subseteq {mainWindow} \ {0}
              /\ dock \/ \A w \in Windows : win[w] # "shown"

(* A start comes to an end: the window, or the message that it failed. *)
StartSettles == start = "pending" ~> (start # "pending" \/ app = "exited")

(* A quit comes to an end, whatever the server does with the signal, and also when
   it was gone before. *)
QuitEnds == isQuitting ~> app = "exited"

=============================================================================
