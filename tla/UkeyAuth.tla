------------------------------ MODULE UkeyAuth ------------------------------
(***************************************************************************)
(* Clients that open UKey PIN dialogs (cm_ipc_dialog_client.cpp), each in  *)
(* a process of its own, with the service of UkeyDialog.  The callback     *)
(* stub of a call gets its result from the service or from a fallback      *)
(* timer of the client, whichever takes the delivered flag first; the one  *)
(* that took it invokes the callback, while the opening thread goes on.    *)
(***************************************************************************)
EXTENDS UkeyDialog

CONSTANTS
    Fallback,             \* CM_UKEY_DIALOG_CLIENT_FALLBACK_MS, 660 s
    MaxDeaths             \* bound on clients that die

ASSUME FallbackAssumption == {Fallback, MaxDeaths} \subseteq Nat /\ Fallback > MaxTotal + Grace

VARIABLES
    stub,                 \* CmDialogCallbackStub and the thread that opens
    callbacks             \* invocations of callback_: call, code, number

vars == <<serviceVars, stub, callbacks>>

\* at: where the opening thread is; a call that returned an error has dropped
\* its stub.  due: the result whose delivery has begun.
NewStub == [at |-> "idle", delivered |-> FALSE, due |-> "none", held |-> FALSE,
            fallback |-> Off]

Alive(call) == call \notin dead
StubIs(call, at) == Alive(call) /\ stub[call].at = at
StubGoes(call, at) == stub' = [stub EXCEPT ![call].at = at]

-----------------------------------------------------------------------------
(* SendOpenDialogRequest                                                   *)

\* Seeded fault: no fallback timer.
Send_NoFallback(call) ==
    /\ StubIs(call, "idle")
    /\ StubGoes(call, "sent")
    /\ unload' = UnloadDelay
    /\ UNCHANGED <<session, timers, running, connection, window, watched, results, sent,
                   reported, dead, faults, callbacks, crashes>>

\* The fallback timer is armed before the request leaves; samgr loads a service
\* that is down.
Send(call) ==
    /\ StubIs(call, "idle")
    /\ stub' = [stub EXCEPT ![call].at = "sent", ![call].fallback = Fallback]
    /\ unload' = UnloadDelay
    /\ UNCHANGED <<session, timers, running, connection, window, watched, results, sent,
                   reported, dead, faults, callbacks, crashes>>

\* No fallback timer: nothing is sent.
SendFails(call) ==
    /\ StubIs(call, "idle")
    /\ Fault
    /\ StubGoes(call, "refused")
    /\ UNCHANGED <<session, timers, running, connection, window, watched, results, sent,
                   reported, unload, dead, callbacks, crashes>>

\* The service handles the request, also of a client that died meanwhile, ...
Open(call) ==
    /\ stub[call].at = "sent"
    /\ \/ OpenDialog(call) /\ StubGoes(call, "opened")
       \/ RefuseDialog(call) /\ StubGoes(call, "bad reply")
    /\ UNCHANGED callbacks

\* ... and replies after the mutex was released.
Reply(call) ==
    /\ stub[call].at = "opened"
    /\ StubGoes(call, "good reply")
    /\ UNCHANGED <<serviceVars, callbacks>>

\* HoldSelf
Accepted(call) ==
    /\ StubIs(call, "good reply")
    /\ stub' = [stub EXCEPT ![call].at = "accepted", ![call].held = TRUE]
    /\ UNCHANGED <<serviceVars, callbacks>>

\* An error: Cancel, and the stub is dropped with its timer.  Behind it may be
\* a refusal, or a service that died before its reply.
Refused(call) ==
    /\ \/ StubIs(call, "bad reply")
       \/ StubIs(call, "no reply")
    /\ stub' = [stub EXCEPT ![call].at = IF @ = "bad reply" THEN "refused" ELSE "failed",
                            ![call].delivered = TRUE, ![call].fallback = Off]
    /\ UNCHANGED <<serviceVars, callbacks>>

-----------------------------------------------------------------------------
(* Deliver                                                                 *)

\* Seeded fault: the flag is set but not looked at.
MayDeliver_Always(call) == TRUE

MayDeliver(call) == ~stub[call].delivered

\* The flag and the timer, ...
Deliver(call, code) ==
    stub' = IF MayDeliver(call)
               THEN [stub EXCEPT ![call].delivered = TRUE, ![call].due = code,
                                 ![call].fallback = Off]
               ELSE stub

\* ... then the callback.
InvokeCallback(call) ==
    /\ Alive(call) /\ stub[call].due # "none"
    /\ callbacks' = callbacks \cup
          {[call |-> call, code |-> stub[call].due,
            number |-> Cardinality({other \in callbacks : other.call = call})]}
    /\ stub' = [stub EXCEPT ![call].due = "none", ![call].held = FALSE]
    /\ UNCHANGED serviceVars

ReceiveResult(result) ==
    /\ results' = results \ {result}
    /\ IF Alive(result.call) THEN Deliver(result.call, result.code) ELSE UNCHANGED stub
    /\ UNCHANGED <<session, timers, running, connection, window, watched, sent, reported,
                   unload, dead, faults, crashes, callbacks>>

FallbackFires(call) ==
    /\ stub[call].fallback = 0
    /\ Alive(call)
    /\ Deliver(call, "fallback")
    /\ UNCHANGED <<serviceVars, callbacks>>

-----------------------------------------------------------------------------
ClientDies(call) ==
    /\ Alive(call) /\ stub[call].at # "idle" /\ Cardinality(dead) < MaxDeaths
    /\ dead' = dead \cup {call}
    /\ stub' = [stub EXCEPT ![call].fallback = Off]
    /\ UNCHANGED <<session, timers, running, connection, window, watched, results, sent,
                   reported, unload, faults, crashes, callbacks>>

\* A request in the service dies with it, and its client sees an error: also
\* that of a call whose dialog was opened, and may have sent its result.
AfterDeath(at) == CASE at = "sent" -> "bad reply" [] at = "opened" -> "no reply" [] OTHER -> at

ServiceDies ==
    /\ Unload \/ Crash
    /\ stub' = [call \in Calls |-> [stub[call] EXCEPT !.at = AfterDeath(@)]]
    /\ UNCHANGED callbacks

ClientBusy ==
    \/ \E call \in Calls : stub[call].fallback = 0
    \/ \E call \in Calls : stub[call].at \in {"sent", "opened"}
    \/ \E call \in Calls : Alive(call) /\ stub[call].at \in {"good reply", "bad reply", "no reply"}
    \/ \E call \in Calls : Alive(call) /\ stub[call].due # "none"
    \/ \E result \in results : ~result.late

\* Time passes for everybody; without a task that waits it changes nothing.
Tick ==
    /\ ~ServiceBusy /\ ~ClientBusy
    /\ ServiceTick
    /\ stub' = [call \in Calls |-> [stub[call] EXCEPT !.fallback = Down(@)]]
    /\ UNCHANGED callbacks

ClientStep(call) ==
    \/ Open(call) \/ Reply(call) \/ Accepted(call) \/ Refused(call)
    \/ FallbackFires(call)

Callback(call) ==
    \/ OnAbilityConnectDone(call) \/ SendStart(call) \/ ConnectFails(call)
    \/ OnAbilityDisconnectDone(call) \/ OnClientDied(call)

Report ==
    \E call \in Calls, bundle \in Bundles, code \in {"success", "canceled", "unknown"} :
        OnReport(call, bundle, code)

Next ==
    \/ \E call \in Calls :
          Send(call) \/ SendFails(call) \/ ClientStep(call) \/ InvokeCallback(call) \/ ClientDies(call)
    \/ \E result \in results : ReceiveResult(result)
    \/ ServiceDies
    \/ Tick
    \/ /\ \/ TimerThread \/ Report \/ OtherRequest
          \/ \E call \in Calls : Callback(call)
          \/ \E result \in results : LoseResult(result)
       /\ UNCHANGED <<stub, callbacks>>

Init ==
    /\ ServiceInit
    /\ stub = [call \in Calls |-> NewStub]
    /\ callbacks = {}

Spec == Init /\ [][Next]_vars

\* What is due is done, and time passes.
Fairness ==
    /\ WF_vars(Tick) /\ WF_vars(ServiceDies /\ unload = 0)
    /\ WF_vars(TimerThread /\ UNCHANGED <<stub, callbacks>>)
    /\ WF_vars(\E result \in results : ReceiveResult(result))
    /\ \A call \in Calls :
          /\ WF_vars(ClientStep(call)) /\ WF_vars(InvokeCallback(call))
          /\ WF_vars((SendStart(call) \/ OnClientDied(call)) /\ UNCHANGED <<stub, callbacks>>)

FairSpec == Spec /\ Fairness

-----------------------------------------------------------------------------
(* Properties                                                              *)

\* "The total timeout is the session's only safety net": in either state the
\* session has the timer that ends it, or that timer's handler is about to run.
SafetyNet ==
    session # NoSession =>
        LET task == IF session.state = "WAITING_REPORT" THEN "total" ELSE "grace"
        IN  timers[session.id][task] # Off \/ running = <<task, session.id>>

\* No task outlives its session: a timer of an ended session never stays posted.
NoStrayTask == \A call \in Calls : ~IsSession(call) => timers[call] = NoTimers

\* A session has one result, whatever report, timeouts and disconnection race
\* for it, and from an event of its own: a late timeout of an earlier session
\* does not end it.  A report that was accepted is that result.
ResultIsOwn ==
    /\ \A one, other \in sent : one.call = other.call => one = other
    /\ \A result \in sent : result.by = result.call
    /\ \A report \in reported : [call |-> report.call, code |-> report.code,
                                  by |-> report.call] \in sent

\* "delivered via callback exactly once": neither a result that comes after the
\* fallback nor one after the other path is delivered again.
OneAnswer == \A one, other \in callbacks : one.call = other.call => one = other

\* The fallback timer of a client answers only when something failed: the
\* service's own timeouts are shorter.
FallbackMeansFailure ==
    (\E answer \in callbacks : answer.code = "fallback") => faults + crashes > 0

\* "the manager's periodic keep-alive task keeps the SA alive": the idle unload
\* ends no session as long as its task could be posted.
UnloadSparesSessions ==
    [][unload = 0 /\ unload' = Off => session = NoSession \/ faults + crashes' > 0]_vars

\* Callers see the calls of UkeyCall.  Every accepted call is answered, in every
\* order of result, reply and fallback; a refused one is not.  A call under
\* which the service dies returns an error too, and is answered only when its
\* result had come before: what Cancel is for, and what it cannot undo
\* (cm_ipc_dialog_client.cpp:159-182, 207-213).
Returned(at) == IF at \in {"accepted", "refused", "failed"} THEN at ELSE "no"
Answered == {answer.call : answer \in callbacks}

Call == INSTANCE UkeyCall WITH
    returned <- [call \in Calls |-> Returned(stub[call].at)],
    started <- Answered \cup {call \in Calls : stub[call].due # "none"},
    answered <- Answered,
    lost <- dead

ImplementsCall == Call!Spec

\* "no more start command after ReleaseWindow"
NoStartAfterRelease ==
    [][\A call \in Calls :
          window[call] # "open" /\ window'[call] = "open" => ~connection[call].released]_vars
=============================================================================
