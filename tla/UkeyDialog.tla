----------------------------- MODULE UkeyDialog -----------------------------
(***************************************************************************)
(* The service's side of the UKey PIN dialog: the session manager of       *)
(* cm_ukey_auth_dialog_manager.cpp, the connection to the system dialog    *)
(* service of cm_system_dialog_connection.cpp and the idle unload of       *)
(* cm_sa.cpp.                                                              *)
(*                                                                         *)
(* Every handler of the manager holds mutex_ from start to end and is one  *)
(* step.  Three kinds of threads meet there: IPC threads, the one timer    *)
(* thread, which has taken a task off its queue before it waits for the    *)
(* mutex, and the callbacks of the connection, which hold a mutex of their *)
(* own only while they look at it.                                         *)
(*                                                                         *)
(* Time is a countdown per task.  It passes when nothing is due and no     *)
(* message is on its way: handlers and IPC take less than a unit.  A       *)
(* request id names the call it was generated for.                         *)
(***************************************************************************)
EXTENDS Integers, FiniteSets

CONSTANTS
    Calls,                \* calls that open a dialog
    Bundles,              \* bundles of drivers
    Requested,            \* timeouts callers ask for, 0: none given
    MinTotal, DefaultTotal, MaxTotal,   \* 180, 300 and 600 seconds in the code
    Grace,                \* CM_UKEY_DIALOG_GRACE_TIMEOUT_MS, 10 s
    KeepAlive,            \* CM_UKEY_DIALOG_KEEPALIVE_INTERVAL_MS, 30 s
    UnloadDelay,          \* DELAY_TIME, 60 s
    MaxFaults,            \* bound on failing calls to the outside
    MaxCrashes            \* bound on deaths of the service

Off == -1                 \* a task that is not posted, a service that is down
Tasks == {"total", "grace", "keepalive"}
NoSession == [state |-> "none"]
NoTask == <<>>

ASSUME UkeyTimesAssumption ==
    /\ {MinTotal, DefaultTotal, MaxTotal, Grace, KeepAlive, UnloadDelay} \subseteq Nat \ {0}
    /\ MinTotal <= DefaultTotal /\ DefaultTotal <= MaxTotal
    /\ KeepAlive < UnloadDelay
    /\ Requested \subseteq Nat /\ {MaxFaults, MaxCrashes} \subseteq Nat

VARIABLES
    session,              \* session_
    timers,               \* timerHandler_'s queue: call -> task -> time left
    running,              \* the task the timer thread has taken off it
    connection,           \* CmSystemDialogConnection of each call
    window,               \* the dialog each call has on the screen
    watched,              \* calls whose client has a death recipient
    results,              \* results on their way to clients
    sent,                 \* result sent for each call, and the event's call (history)
    reported,             \* calls with the report OnReport accepted (history)
    unload,               \* time left until the idle unload, Off: not loaded
    dead,                 \* calls whose client process died
    faults, crashes

serviceVars == <<session, timers, running, connection, window, watched, results, sent,
                 reported, unload, dead, faults, crashes>>

Up == unload # Off
IsSession(call) == session # NoSession /\ session.id = call
Fault == faults < MaxFaults /\ faults' = faults + 1

NoTimers == [task \in Tasks |-> Off]
NoConnection == [at |-> "none", held |-> FALSE, released |-> FALSE]

-----------------------------------------------------------------------------
(* The parts every end of a session shares                                 *)

\* Seeded fault: an explicit timeout is not clamped from above.
NormalizeTimeoutSecLocked_NoMax(timeout) ==
    IF timeout = 0 THEN DefaultTotal ELSE IF timeout < MinTotal THEN MinTotal ELSE timeout

NormalizeTimeoutSecLocked(timeout) ==
    IF timeout = 0 THEN DefaultTotal
    ELSE IF timeout < MinTotal THEN MinTotal
    ELSE IF timeout > MaxTotal THEN MaxTotal
    ELSE timeout

\* Codes of a report the protocol does not know become the generic failure.
NormalizeReportCode(code) == IF code \in {"success", "canceled"} THEN code ELSE "internal"

\* ReleaseWindow: the dialog is told to go away if its service answered.  The
\* argument is where the callbacks of the connection stand.
ReleaseWindow(call, at) ==
    /\ connection' = [connection EXCEPT ![call] = [at |-> at, held |-> FALSE, released |-> TRUE]]
    /\ window' = IF connection[call].held THEN [window EXCEPT ![call] = "closed"] ELSE window

\* Timers stopped, death recipient removed, window released, session dropped.
EndSession(call, at) ==
    /\ timers' = [timers EXCEPT ![call] = NoTimers]
    /\ watched' = watched \ {call}
    /\ ReleaseWindow(call, at)
    /\ session' = NoSession

\* FinishSessionLocked, on an event of the call by.
Finish(by, code, at) ==
    /\ results' = results \cup {[call |-> session.id, code |-> code, late |-> FALSE]}
    /\ sent' = sent \cup {[call |-> session.id, code |-> code, by |-> by]}
    /\ EndSession(session.id, at)

\* The send of FinishSessionLocked failed, which is only logged; or the client
\* is suspended and does not get to the message.
LoseResult(result) ==
    /\ Fault
    /\ \/ results' = results \ {result}
       \/ results' = (results \ {result}) \cup {[result EXCEPT !.late = TRUE]}
    /\ UNCHANGED <<session, timers, running, connection, window, watched, sent, reported,
                   unload, dead, crashes>>

-----------------------------------------------------------------------------
(* OpenDialog, OpenDriverDialog                                            *)

\* Seeded fault: two dialogs at a time.
MayOpen_Always == TRUE

\* Single flight.
MayOpen == session = NoSession

\* The total timeout is armed or the call is refused; death recipient and
\* keep-alive are best effort.
OpenDialog(call) ==
    /\ MayOpen
    /\ \E owner \in Bundles, timeout \in Requested, alive \in {KeepAlive, Off},
          recipient \in {{}, {call} \ dead} :
          /\ session' = [id |-> call, owner |-> owner, state |-> "WAITING_REPORT"]
          /\ timers' = [timers EXCEPT ![call].total = NormalizeTimeoutSecLocked(timeout),
                                      ![call].keepalive = alive]
          /\ watched' = watched \cup recipient
          /\ IF alive = Off \/ recipient # {call} \ dead THEN Fault ELSE UNCHANGED faults
    /\ connection' = [connection EXCEPT ![call].at = "connecting"]
    /\ unload' = UnloadDelay
    /\ UNCHANGED <<running, window, results, sent, reported, dead, crashes>>

\* Another session, no driver, no PC or no connection; or, with a connection to
\* roll back, no total timeout.
RefuseDialog(call) ==
    /\ \/ UNCHANGED <<connection, faults>>
       \/ /\ session = NoSession
          /\ Fault
          /\ connection' = [connection EXCEPT ![call].at = "connecting",
                                              ![call].released = TRUE]
    /\ unload' = UnloadDelay
    /\ UNCHANGED <<session, timers, running, window, watched, results, sent, reported, dead, crashes>>

-----------------------------------------------------------------------------
(* Ends of a session                                                       *)

MayReport(call, bundle) == IsSession(call) /\ session.owner = bundle

\* A driver knows the request id once its dialog was started.
OnReport(call, bundle, code) ==
    /\ Up
    /\ window[call] # "none"
    /\ MayReport(call, bundle)
    /\ Finish(call, NormalizeReportCode(code), connection[call].at)
    /\ reported' = reported \cup {[call |-> call, code |-> NormalizeReportCode(code)]}
    /\ unload' = UnloadDelay
    /\ UNCHANGED <<running, dead, faults, crashes>>

\* A report that is refused, or any other request: the unload is put off.
OtherRequest ==
    /\ Up
    /\ unload' = UnloadDelay
    /\ UNCHANGED <<session, timers, running, connection, window, watched, results, sent,
                   reported, dead, faults, crashes>>

\* Seeded fault: a session that lost its last timer waits on.
GraceTimerFails_Hangs(call, at) ==
    /\ Fault
    /\ session' = [session EXCEPT !.state = "GRACE_WAITING"]
    /\ timers' = [timers EXCEPT ![call].total = Off]
    /\ connection' = [connection EXCEPT ![call].at = at]
    /\ UNCHANGED <<window, watched, results, sent>>

GraceTimerFails(call, at) == Fault /\ Finish(call, "canceled", at)

\* OnDialogDisconnected: a report has Grace left to arrive.
OnDialogDisconnected(call, at) ==
    /\ IF IsSession(call) /\ session.state = "WAITING_REPORT"
          THEN \/ /\ session' = [session EXCEPT !.state = "GRACE_WAITING"]
                  /\ timers' = [timers EXCEPT ![call].total = Off, ![call].grace = Grace]
                  /\ connection' = [connection EXCEPT ![call].at = at]
                  /\ UNCHANGED <<window, watched, results, sent, faults>>
               \/ GraceTimerFails(call, at)
          ELSE /\ connection' = [connection EXCEPT ![call].at = at]
               /\ UNCHANGED <<session, timers, window, watched, results, sent, faults>>
    /\ UNCHANGED <<running, reported, unload, dead, crashes>>

\* OnClientDied: nobody to tell.
OnClientDied(call) ==
    /\ call \in watched \cap dead
    /\ IF IsSession(call)
          THEN EndSession(call, connection[call].at)
          ELSE /\ watched' = watched \ {call}
               /\ UNCHANGED <<session, timers, connection, window>>
    /\ UNCHANGED <<running, results, sent, reported, unload, dead, faults, crashes>>

-----------------------------------------------------------------------------
(* The timer thread: a task that is due leaves the queue, then its handler *)
(* gets the mutex.                                                         *)

TakeTask(call, task) ==
    /\ running = NoTask
    /\ timers[call][task] = 0
    /\ timers' = [timers EXCEPT ![call][task] = Off]
    /\ running' = <<task, call>>
    /\ UNCHANGED <<session, connection, window, watched, results, sent, reported, unload,
                   dead, faults, crashes>>

\* Seeded fault: the handlers look at the state but not at the request id.
TimesOut_AnyId(task, call) ==
    session.state = (IF task = "total" THEN "WAITING_REPORT" ELSE "GRACE_WAITING")

\* HandleTotalTimeout and HandleGraceTimeout act on their own session only, and
\* in the state their timer was posted for.
TimesOut(task, call) ==
    IsSession(call) /\ session.state = (IF task = "total" THEN "WAITING_REPORT" ELSE "GRACE_WAITING")

HandleTimeout(call, task) ==
    /\ running = <<task, call>>
    /\ task \in {"total", "grace"}
    /\ running' = NoTask
    /\ IF TimesOut(task, call)
          THEN Finish(call, IF task = "total" THEN "timeout" ELSE "canceled",
                      connection[session.id].at)
          ELSE UNCHANGED <<session, timers, connection, window, watched, results, sent>>
    /\ UNCHANGED <<reported, unload, dead, faults, crashes>>

\* Seeded fault: the task renews the unload but is not posted again.
RepostKeepAlive_Never(call) == UNCHANGED <<timers, faults>>

RepostKeepAlive(call) ==
    \/ timers' = [timers EXCEPT ![call].keepalive = KeepAlive] /\ UNCHANGED faults
    \/ Fault /\ UNCHANGED timers

HandleKeepAlive(call) ==
    /\ running = <<"keepalive", call>>
    /\ running' = NoTask
    /\ IF IsSession(call)
          THEN RepostKeepAlive(call) /\ unload' = UnloadDelay
          ELSE UNCHANGED <<timers, faults, unload>>
    /\ UNCHANGED <<session, connection, window, watched, results, sent, reported, dead, crashes>>

-----------------------------------------------------------------------------
(* Callbacks of the connection, one at a time.  After a death of the       *)
(* service none arrives.                                                   *)

\* The dialog service answers: unless the window was released its proxy is kept
\* and the start command prepared under the connection's mutex.
OnAbilityConnectDone(call) ==
    /\ connection[call].at = "connecting"
    /\ connection' = [connection EXCEPT ![call] =
          IF @.released THEN [@ EXCEPT !.at = "connected"]
                        ELSE [@ EXCEPT !.at = "starting", !.held = TRUE]]
    /\ UNCHANGED <<session, timers, running, window, watched, results, sent, reported,
                   unload, dead, faults, crashes>>

\* ... and sent without it.
SendStart(call) ==
    /\ connection[call].at = "starting"
    /\ connection' = [connection EXCEPT ![call].at = "connected"]
    /\ window' = [window EXCEPT ![call] = "open"]
    /\ UNCHANGED <<session, timers, running, watched, results, sent, reported, unload, dead,
                   faults, crashes>>

\* No remote object, or the start command cannot be sent.
ConnectFails(call) ==
    /\ connection[call].at \in {"connecting", "starting"}
    /\ OnDialogDisconnected(call, "connected")

OnAbilityDisconnectDone(call) ==
    /\ connection[call].at \in {"connecting", "connected"}
    /\ OnDialogDisconnected(call, "gone")

-----------------------------------------------------------------------------
(* Life of the service and of time                                         *)

\* The process ends, and everything it had in memory; unload' says if a new one
\* is up.
Die ==
    /\ session' = NoSession
    /\ timers' = [call \in Calls |-> NoTimers]
    /\ running' = NoTask
    /\ connection' = [call \in Calls |-> NoConnection]
    /\ watched' = {}
    /\ unload' = Off
    /\ UNCHANGED <<window, results, sent, reported, dead, faults>>

\* UnloadSystemAbility
Unload == unload = 0 /\ Die /\ UNCHANGED crashes

Crash == Up /\ crashes < MaxCrashes /\ crashes' = crashes + 1 /\ Die

\* Some task has to run before time passes.
ServiceBusy ==
    \/ unload = 0 \/ running # NoTask
    \/ \E call \in Calls : \E task \in Tasks : timers[call][task] = 0
    \/ \E call \in Calls : connection[call].at = "starting" \/ call \in watched \cap dead

Down(left) == IF left = Off THEN Off ELSE left - 1

ServiceTick ==
    /\ timers' = [call \in Calls |-> [task \in Tasks |-> Down(timers[call][task])]]
    /\ unload' = Down(unload)
    /\ UNCHANGED <<session, running, connection, window, watched, results, sent, reported,
                   dead, faults, crashes>>

TimerThread ==
    \E call \in Calls :
        \/ \E task \in Tasks : TakeTask(call, task) \/ HandleTimeout(call, task)
        \/ HandleKeepAlive(call)

ServiceInit ==
    /\ session = NoSession
    /\ timers = [call \in Calls |-> NoTimers]
    /\ running = NoTask
    /\ connection = [call \in Calls |-> NoConnection]
    /\ window = [call \in Calls |-> "none"]
    /\ watched = {}
    /\ results = {} /\ sent = {} /\ reported = {}
    /\ unload = Off
    /\ dead = {}
    /\ faults = 0 /\ crashes = 0
=============================================================================
