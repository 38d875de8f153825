--------------------------- MODULE UkeyAuthProofs ---------------------------
(***************************************************************************)
(* Proofs about UkeyAuth: the safety of the PIN dialog for any number of   *)
(* calls, any times in the order the code gives them, and any number of    *)
(* failures and deaths.                                                    *)
(***************************************************************************)
EXTENDS UkeyAuth, TLAPS

Codes == {"success", "canceled", "internal", "timeout"}
States == {"WAITING_REPORT", "GRACE_WAITING"}
Sessions == [id : Calls, owner : Bundles, state : States]
Left == Nat \cup {Off}

DialogTypeOK ==
    /\ session \in {NoSession} \cup Sessions
    /\ timers \in [Calls -> [Tasks -> Left]]
    /\ \A call \in Calls : timers[call].keepalive <= KeepAlive
    /\ running \in {NoTask} \cup (Tasks \X Calls)
    /\ results \subseteq [call : Calls, code : Codes, late : BOOLEAN]
    /\ sent \subseteq [call : Calls, code : Codes, by : Calls]
    /\ unload \in Left
    /\ faults \in Nat /\ crashes \in Nat

Places == {"idle", "sent", "opened", "good reply", "bad reply", "no reply", "accepted",
           "refused", "failed"}

Stubs == [at : Places, delivered : BOOLEAN, due : Codes \cup {"none", "fallback"},
          held : BOOLEAN, fallback : Left]

StubTypeOK == stub \in [Calls -> Stubs]

\* Only a call the service has handled has a session, and only its end a result.
SessionIsHandled ==
    session # NoSession =>
        /\ stub[session.id].at \notin {"idle", "sent"}
        /\ \A result \in sent : result.call # session.id

SentIsHandled == \A result \in sent : stub[result.call].at \notin {"idle", "sent"}

\* The delivered flag is up once a delivery has begun, which is over with the
\* callback.
AnsweredIsDelivered ==
    /\ \A call \in Calls : stub[call].due # "none" => stub[call].delivered
    /\ \A answer \in callbacks :
          answer.call \in Calls /\ stub[answer.call].delivered /\ stub[answer.call].due = "none"

NoFailure == faults = 0 /\ crashes = 0

\* A fallback that is being delivered has the cause of one that was.
FallbackHasCause ==
    /\ FallbackMeansFailure
    /\ \A call \in Calls : stub[call].due = "fallback" => faults + crashes > 0

\* The keep-alive task of a session runs before the unload.
KeepAliveComesFirst ==
    NoFailure /\ session # NoSession =>
        \/ /\ timers[session.id].keepalive # Off
           /\ timers[session.id].keepalive < unload
        \/ running = <<"keepalive", session.id>> /\ unload > 0

\* Something that answers the call is nearer than its fallback timer: the total
\* timeout with the grace it may turn into, the grace, or a result on its way.
TotalIsNearer(call) ==
    /\ IsSession(call) /\ session.state = "WAITING_REPORT"
    /\ \/ /\ timers[call].total # Off
          /\ stub[call].fallback > timers[call].total + Grace
       \/ running = <<"total", call>> /\ stub[call].fallback > Grace

GraceIsNearer(call) ==
    /\ IsSession(call) /\ session.state = "GRACE_WAITING"
    /\ \/ timers[call].grace # Off /\ stub[call].fallback > timers[call].grace
       \/ running = <<"grace", call>> /\ stub[call].fallback > 0

ResultIsNearer(call) ==
    /\ stub[call].fallback > 0
    /\ \E result \in results : result.call = call /\ ~result.late

FallbackIsLastFor(call) ==
    /\ stub[call].at \in {"idle", "refused", "failed"} => stub[call].fallback = Off
    /\ stub[call].at = "sent" => stub[call].fallback = Fallback
    /\ stub[call].at = "bad reply" => stub[call].fallback > 0
    /\ stub[call].at \in {"opened", "good reply", "no reply", "accepted"} =>
          TotalIsNearer(call) \/ GraceIsNearer(call) \/ ResultIsNearer(call)

FallbackIsLast ==
    NoFailure => \A call \in Calls \ dead : ~stub[call].delivered => FallbackIsLastFor(call)

IInv ==
    /\ DialogTypeOK /\ StubTypeOK
    /\ SafetyNet /\ NoStrayTask
    /\ SessionIsHandled /\ SentIsHandled /\ ResultIsOwn
    /\ AnsweredIsDelivered /\ OneAnswer
    /\ KeepAliveComesFirst /\ FallbackIsLast /\ FallbackHasCause

-----------------------------------------------------------------------------
(* Facts about the constants and the session                               *)

\* The order of the times the proofs use, and that none of them is 0.
LEMMA TimesAreOrdered ==
    /\ Grace \in Nat /\ KeepAlive \in Nat /\ UnloadDelay \in Nat /\ Fallback \in Nat
    /\ MinTotal \in Nat /\ DefaultTotal \in Nat /\ MaxTotal \in Nat
    /\ 0 < Grace /\ 0 < KeepAlive /\ KeepAlive < UnloadDelay
    /\ 0 < MinTotal /\ MinTotal <= DefaultTotal /\ DefaultTotal <= MaxTotal
    /\ Fallback > MaxTotal + Grace /\ Fallback > 0
  BY UkeyTimesAssumption, FallbackAssumption

\* Whatever timeout a caller asks for, the session gets one within the limits.
LEMMA NormalizedIsBounded ==
    ASSUME NEW timeout \in Requested
    PROVE  /\ NormalizeTimeoutSecLocked(timeout) \in Nat
           /\ NormalizeTimeoutSecLocked(timeout) <= MaxTotal
<1>1. timeout \in Nat
  BY UkeyTimesAssumption
<1> QED
  BY <1>1, TimesAreOrdered DEF NormalizeTimeoutSecLocked

\* An open session has the type of one, and is the session of no other call.
LEMMA SessionHasId ==
    ASSUME DialogTypeOK, session # NoSession
    PROVE  /\ session \in Sessions /\ session.id \in Calls /\ session.state \in States
           /\ IsSession(session.id)
           /\ \A call : IsSession(call) => call = session.id
  BY DEF DialogTypeOK, Sessions, IsSession

\* An idle timer thread has taken no task.
LEMMA NothingIsRunning ==
    ASSUME running = NoTask
    PROVE  \A task, call : running # <<task, call>>
  BY SMT DEF NoTask

\* A sum of numbers that do not shrink stays positive.
LEMMA SumGrows ==
    ASSUME NEW m \in Nat, NEW n \in Nat, NEW k \in Nat, NEW l \in Nat, m <= k, n <= l,
           m + n > 0
    PROVE  k + l > 0
  OBVIOUS

\* A failure stays one.
LEMMA FailuresStay ==
    ASSUME DialogTypeOK, faults' \in {faults, faults + 1}, crashes' \in {crashes, crashes + 1}
    PROVE  /\ faults' \in Nat /\ crashes' \in Nat
           /\ NoFailure' => NoFailure
           /\ /\ FallbackHasCause /\ UNCHANGED callbacks
              /\ \A call \in Calls : stub'[call].due = stub[call].due
              => FallbackHasCause'
<1>1. /\ faults \in Nat /\ faults' \in Nat /\ faults <= faults'
      /\ crashes \in Nat /\ crashes' \in Nat /\ crashes <= crashes'
  BY DEF DialogTypeOK
<1>2. NoFailure' => NoFailure
  BY <1>1 DEF NoFailure
<1>3. faults + crashes > 0 => faults' + crashes' > 0
  BY <1>1, SumGrows
<1> QED
  BY <1>1, <1>2, <1>3 DEF FallbackHasCause, FallbackMeansFailure

-----------------------------------------------------------------------------
(* Steps of the service                                                    *)

\* Renewing the unload leaves the keep-alive task before it.
LEMMA RenewalKeepsAlive ==
    ASSUME DialogTypeOK, KeepAliveComesFirst, NoFailure' => NoFailure,
           UNCHANGED <<session, timers, running>>, unload' \in {unload, UnloadDelay}
    PROVE  KeepAliveComesFirst'
<1> SUFFICES ASSUME NoFailure', session # NoSession
             PROVE  \/ /\ timers[session.id].keepalive # Off
                       /\ timers[session.id].keepalive < unload'
                    \/ running = <<"keepalive", session.id>> /\ unload' > 0
  BY DEF KeepAliveComesFirst
<1>1. session.id \in Calls
  BY SessionHasId
<1>2. timers[session.id].keepalive <= KeepAlive /\ timers[session.id].keepalive \in Left
  BY <1>1 DEF DialogTypeOK, Tasks
<1> QED
  BY <1>2, TimesAreOrdered DEF KeepAliveComesFirst, Left, Off

\* A step that at most renews the unload and counts a failure.
LEMMA QuietKeeps ==
    ASSUME IInv,
           UNCHANGED <<session, timers, running, results, sent, reported, crashes, stub,
                       callbacks, dead>>,
           unload' \in {unload, UnloadDelay}, faults' \in {faults, faults + 1}
    PROVE  IInv'
<1>1. DialogTypeOK /\ (NoFailure' => NoFailure) /\ faults' \in Nat
  BY FailuresStay DEF IInv
<1>2. DialogTypeOK' /\ StubTypeOK'
  BY <1>1, TimesAreOrdered DEF IInv, DialogTypeOK, StubTypeOK, Left
<1>3. SafetyNet' /\ NoStrayTask' /\ SessionIsHandled' /\ SentIsHandled' /\ ResultIsOwn'
  BY DEF IInv, SafetyNet, NoStrayTask, IsSession, SessionIsHandled, SentIsHandled, ResultIsOwn
<1>4. AnsweredIsDelivered' /\ OneAnswer'
  BY DEF IInv, AnsweredIsDelivered, OneAnswer
<1>5. KeepAliveComesFirst'
  BY <1>1, RenewalKeepsAlive DEF IInv
<1>6. FallbackIsLast'
  BY <1>1 DEF IInv, FallbackIsLast, FallbackIsLastFor, TotalIsNearer, GraceIsNearer,
              ResultIsNearer, IsSession
<1>7. FallbackHasCause'
  BY FailuresStay DEF IInv
<1> QED
  BY <1>2, <1>3, <1>4, <1>5, <1>6, <1>7 DEF IInv

\* FinishSessionLocked for the call of the session, on an event of its own.
LEMMA FinishKeeps ==
    ASSUME IInv, session # NoSession, NEW code \in Codes, NEW at,
           Finish(session.id, code, at),
           running' \in {running, NoTask}, unload' \in {unload, UnloadDelay},
           reported' \subseteq reported \cup {[call |-> session.id, code |-> code]},
           UNCHANGED <<crashes, stub, callbacks, dead>>, faults' \in {faults, faults + 1}
    PROVE  IInv'
<1> DEFINE call == session.id
           result == [call |-> call, code |-> code, late |-> FALSE]
           record == [call |-> call, code |-> code, by |-> call]
<1>1. /\ DialogTypeOK /\ (NoFailure' => NoFailure) /\ faults' \in Nat
      /\ call \in Calls
      /\ \A other : IsSession(other) <=> other = call
  BY FailuresStay, SessionHasId DEF IInv, IsSession
<1>2. /\ session' = NoSession
      /\ timers' = [timers EXCEPT ![call] = NoTimers]
      /\ results' = results \cup {result}
      /\ sent' = sent \cup {record}
  BY DEF Finish, EndSession
<1>3. NoTimers \in [Tasks -> Left] /\ NoTimers.keepalive <= KeepAlive
  BY TimesAreOrdered DEF NoTimers, Left, Tasks, Off
<1>4. DialogTypeOK' /\ StubTypeOK'
  <2>1. timers' \in [Calls -> [Tasks -> Left]]
    BY <1>1, <1>2, <1>3 DEF DialogTypeOK
  <2>2. \A other \in Calls : timers'[other].keepalive <= KeepAlive
    BY <1>1, <1>2, <1>3 DEF DialogTypeOK
  <2>3. /\ result \in [call : Calls, code : Codes, late : BOOLEAN]
        /\ record \in [call : Calls, code : Codes, by : Calls]
    BY <1>1
  <2>4. /\ results' \subseteq [call : Calls, code : Codes, late : BOOLEAN]
        /\ sent' \subseteq [call : Calls, code : Codes, by : Calls]
    BY <1>1, <1>2, <2>3 DEF DialogTypeOK
  <2>5. unload' \in Left /\ running' \in {NoTask} \cup (Tasks \X Calls)
    BY <1>1, TimesAreOrdered DEF DialogTypeOK, Left
  <2> QED
    BY <1>1, <1>2, <2>1, <2>2, <2>4, <2>5 DEF IInv, DialogTypeOK, StubTypeOK
<1>5. SafetyNet' /\ SessionIsHandled' /\ KeepAliveComesFirst'
  BY <1>2 DEF SafetyNet, SessionIsHandled, KeepAliveComesFirst
<1>6. NoStrayTask'
  BY <1>1, <1>2 DEF IInv, NoStrayTask, DialogTypeOK, IsSession
<1>7. SentIsHandled'
  BY <1>2 DEF IInv, SentIsHandled, SessionIsHandled
<1>8. ResultIsOwn'
  <2>1. \A other \in sent : other.call # call
    BY DEF IInv, SessionIsHandled
  <2>2. \A report \in reported' : \/ report \in reported
                                  \/ report = [call |-> call, code |-> code]
    OBVIOUS
  <2> QED
    BY <1>2, <2>1, <2>2 DEF IInv, ResultIsOwn
<1>9. AnsweredIsDelivered' /\ OneAnswer'
  BY DEF IInv, AnsweredIsDelivered, OneAnswer
<1>10. FallbackIsLast'
  <2> SUFFICES ASSUME NoFailure', NEW other \in Calls \ dead, ~stub[other].delivered
               PROVE  FallbackIsLastFor(other)'
    BY DEF FallbackIsLast
  <2>1. FallbackIsLastFor(other)
    BY <1>1 DEF IInv, FallbackIsLast
  <2>2. ResultIsNearer(other) => ResultIsNearer(other)'
    BY <1>2 DEF ResultIsNearer
  <2>3. ASSUME TotalIsNearer(other) \/ GraceIsNearer(other)
        PROVE  ResultIsNearer(other)'
    <3>1. other = call
      BY <2>3, <1>1 DEF TotalIsNearer, GraceIsNearer
    <3>2. timers[other].total \in Left /\ timers[other].grace \in Left
      BY <1>1 DEF DialogTypeOK, Tasks
    <3>3. stub[other].fallback \in Left
      BY DEF IInv, StubTypeOK, Stubs
    <3>4. stub[other].fallback > 0
      BY <2>3, <3>2, <3>3, TimesAreOrdered DEF TotalIsNearer, GraceIsNearer, Left, Off
    <3>5. result \in results' /\ result.call = other /\ ~result.late
      BY <1>2, <3>1
    <3> QED
      BY <3>4, <3>5 DEF ResultIsNearer
  <2> QED
    BY <2>1, <2>2, <2>3 DEF FallbackIsLastFor
<1>11. FallbackHasCause'
  BY FailuresStay DEF IInv
<1> QED
  BY <1>4, <1>5, <1>6, <1>7, <1>8, <1>9, <1>10, <1>11 DEF IInv

-----------------------------------------------------------------------------
(* Steps of a client                                                       *)

\* A step of the stub of one call, which the service at most answers or fails.
LEMMA StubStepKeeps ==
    ASSUME IInv, NEW call \in Calls, StubTypeOK',
           \A other \in Calls \ {call} : stub'[other] = stub[other],
           stub[call].delivered => stub'[call].delivered,
           stub'[call].due = stub[call].due,
           \/ stub'[call].at \notin {"idle", "sent"}
           \/ stub[call].at = "idle"
           \/ stub'[call].at = stub[call].at,
           NoFailure' /\ call \notin dead' /\ ~stub'[call].delivered => FallbackIsLastFor(call)',
           UNCHANGED <<session, timers, running, results, sent, reported, callbacks, crashes>>,
           unload' \in {unload, UnloadDelay}, faults' \in {faults, faults + 1},
           dead \subseteq dead'
    PROVE  IInv'
<1>1. DialogTypeOK /\ (NoFailure' => NoFailure) /\ faults' \in Nat
  BY FailuresStay DEF IInv
<1>2. DialogTypeOK'
  BY <1>1, TimesAreOrdered DEF DialogTypeOK, Left
<1>3. SafetyNet' /\ NoStrayTask' /\ ResultIsOwn' /\ OneAnswer'
  BY DEF IInv, SafetyNet, NoStrayTask, IsSession, ResultIsOwn, OneAnswer
<1>4. SessionIsHandled'
  BY <1>1, SessionHasId DEF IInv, SessionIsHandled
<1>5. SentIsHandled'
  BY <1>1 DEF IInv, SentIsHandled, DialogTypeOK
<1>6. AnsweredIsDelivered'
  BY DEF IInv, AnsweredIsDelivered
<1>7. KeepAliveComesFirst'
  BY <1>1, RenewalKeepsAlive DEF IInv
<1>8. FallbackIsLast'
  <2> SUFFICES ASSUME NoFailure', NEW other \in Calls \ dead', ~stub'[other].delivered
               PROVE  FallbackIsLastFor(other)'
    BY DEF FallbackIsLast
  <2>1. CASE other = call
    BY <2>1
  <2>2. CASE other # call
    BY <1>1, <2>2 DEF IInv, FallbackIsLast, FallbackIsLastFor, TotalIsNearer, GraceIsNearer,
                      ResultIsNearer, IsSession
  <2> QED
    BY <2>1, <2>2
<1>9. FallbackHasCause'
  BY FailuresStay DEF IInv
<1> QED
  BY <1>2, <1>3, <1>4, <1>5, <1>6, <1>7, <1>8, <1>9 DEF IInv

\* The stub of one call is replaced, the others stay.
LEMMA StubUpdated ==
    ASSUME StubTypeOK, NEW call \in Calls, NEW new \in Stubs, stub' = [stub EXCEPT ![call] = new]
    PROVE  /\ StubTypeOK'
           /\ stub'[call] = new
           /\ \A other \in Calls \ {call} : stub'[other] = stub[other]
  BY DEF StubTypeOK

\* The opening thread goes on and leaves the rest of its stub alone.
LEMMA StubGoesTo ==
    ASSUME StubTypeOK, NEW call \in Calls, NEW at \in Places, StubGoes(call, at)
    PROVE  /\ StubTypeOK'
           /\ stub'[call].at = at
           /\ stub'[call].delivered = stub[call].delivered
           /\ stub'[call].due = stub[call].due
           /\ stub'[call].fallback = stub[call].fallback
           /\ \A other \in Calls \ {call} : stub'[other] = stub[other]
<1> DEFINE new == [stub[call] EXCEPT !.at = at]
<1>1. stub[call] \in Stubs
  BY DEF StubTypeOK
<1>2. new \in Stubs
  BY <1>1 DEF Stubs
<1>3. stub' = [stub EXCEPT ![call] = new]
  BY DEF StubGoes
<1>4. /\ new.at = at
      /\ new.delivered = stub[call].delivered /\ new.due = stub[call].due
      /\ new.fallback = stub[call].fallback
  BY <1>1 DEF Stubs
<1> HIDE DEF new
<1> QED
  BY <1>2, <1>3, <1>4, StubUpdated

\* The request leaves with the whole of the fallback time before it.
LEMMA SendKeeps ==
    ASSUME IInv, NEW call \in Calls, Send(call)
    PROVE  IInv'
<1> DEFINE new == [stub[call] EXCEPT !.at = "sent", !.fallback = Fallback]
<1>1. StubTypeOK /\ stub[call] \in Stubs /\ stub[call].at = "idle"
  BY DEF Send, StubIs, IInv, StubTypeOK
<1>2. new \in Stubs /\ new.at = "sent" /\ new.fallback = Fallback
      /\ new.delivered = stub[call].delivered /\ new.due = stub[call].due
  BY <1>1, TimesAreOrdered DEF Stubs, Left, Places
<1>3. stub' = [stub EXCEPT ![call] = new]
  BY DEF Send
<1> HIDE DEF new
<1>4. /\ StubTypeOK' /\ stub'[call] = new
      /\ \A other \in Calls \ {call} : stub'[other] = stub[other]
  BY <1>1, <1>2, <1>3, StubUpdated
<1>5. FallbackIsLastFor(call)'
  BY <1>2, <1>4 DEF FallbackIsLastFor
<1> QED
  BY <1>1, <1>2, <1>4, <1>5, StubStepKeeps DEF Send

\* Without a fallback timer nothing leaves; that is a failure.
LEMMA SendFailsKeeps ==
    ASSUME IInv, NEW call \in Calls, SendFails(call)
    PROVE  IInv'
<1>1. StubTypeOK /\ stub[call].at = "idle" /\ StubGoes(call, "refused")
  BY DEF SendFails, StubIs, IInv
<1>2. /\ StubTypeOK' /\ stub'[call].at = "refused"
      /\ stub'[call].delivered = stub[call].delivered /\ stub'[call].due = stub[call].due
      /\ \A other \in Calls \ {call} : stub'[other] = stub[other]
  BY <1>1, StubGoesTo DEF Places
<1>3. ~NoFailure'
  BY DEF SendFails, Fault, NoFailure, IInv, DialogTypeOK
<1> QED
  BY <1>1, <1>2, <1>3, StubStepKeeps DEF SendFails, Fault

\* The service refuses the call.
LEMMA RefuseKeeps ==
    ASSUME IInv, NEW call \in Calls, stub[call].at = "sent", RefuseDialog(call),
           StubGoes(call, "bad reply"), UNCHANGED callbacks
    PROVE  IInv'
<1>1. StubTypeOK /\ DialogTypeOK
  BY DEF IInv
<1>2. /\ StubTypeOK' /\ stub'[call].at = "bad reply"
      /\ stub'[call].delivered = stub[call].delivered /\ stub'[call].due = stub[call].due
      /\ stub'[call].fallback = stub[call].fallback
      /\ \A other \in Calls \ {call} : stub'[other] = stub[other]
  BY <1>1, StubGoesTo DEF Places
<1>3. /\ UNCHANGED <<session, timers, running, results, sent, reported, crashes, dead>>
      /\ unload' \in {unload, UnloadDelay} /\ faults' \in {faults, faults + 1}
  BY DEF RefuseDialog, Fault
<1>4. ASSUME NoFailure', call \notin dead', ~stub'[call].delivered
      PROVE  FallbackIsLastFor(call)'
  <2>1. FallbackIsLastFor(call)
    BY <1>1, <1>2, <1>3, <1>4, FailuresStay DEF IInv, FallbackIsLast
  <2>2. stub'[call].fallback = Fallback
    BY <1>2, <2>1 DEF FallbackIsLastFor
  <2>3. stub'[call].fallback > 0
    BY <2>2, TimesAreOrdered
  <2> QED
    BY <1>2, <2>3 DEF FallbackIsLastFor
<1> QED
  BY <1>2, <1>3, <1>4, StubStepKeeps

\* The reply arrives, and is accepted.
LEMMA ReplyKeeps ==
    ASSUME IInv, NEW call \in Calls, Reply(call) \/ Accepted(call)
    PROVE  IInv'
<1>1. StubTypeOK /\ DialogTypeOK /\ stub[call] \in Stubs
  BY DEF IInv, StubTypeOK
<1>2. /\ UNCHANGED <<serviceVars, callbacks>>
      /\ stub[call].at \in {"opened", "good reply"}
  BY DEF Reply, Accepted, StubIs
<1>3. /\ StubTypeOK' /\ stub'[call].at \in {"good reply", "accepted"}
      /\ stub'[call].delivered = stub[call].delivered /\ stub'[call].due = stub[call].due
      /\ stub'[call].fallback = stub[call].fallback
      /\ \A other \in Calls \ {call} : stub'[other] = stub[other]
  <2>1. CASE Reply(call)
    BY <1>1, <2>1, StubGoesTo DEF Reply, Places
  <2>2. CASE Accepted(call)
    <3> DEFINE new == [stub[call] EXCEPT !.at = "accepted", !.held = TRUE]
    <3>1. /\ new \in Stubs /\ new.at = "accepted"
          /\ new.delivered = stub[call].delivered /\ new.due = stub[call].due
          /\ new.fallback = stub[call].fallback
      BY <1>1 DEF Stubs, Places
    <3>2. stub' = [stub EXCEPT ![call] = new]
      BY <2>2 DEF Accepted
    <3> HIDE DEF new
    <3> QED
      BY <1>1, <3>1, <3>2, StubUpdated
  <2> QED
    BY <2>1, <2>2
<1>4. ASSUME NoFailure', call \notin dead', ~stub'[call].delivered
      PROVE  FallbackIsLastFor(call)'
  <2>1. FallbackIsLastFor(call)
    BY <1>2, <1>3, <1>4 DEF IInv, FallbackIsLast, NoFailure, serviceVars
  <2> QED
    BY <1>2, <1>3, <2>1 DEF FallbackIsLastFor, TotalIsNearer, GraceIsNearer, ResultIsNearer,
                            IsSession, serviceVars
<1> QED
  BY <1>2, <1>3, <1>4, StubStepKeeps DEF serviceVars

\* A client that is told of an error drops its stub; a dead one its timer.
LEMMA DropKeeps ==
    ASSUME IInv, NEW call \in Calls, Refused(call) \/ ClientDies(call)
    PROVE  IInv'
<1>1. StubTypeOK /\ stub[call] \in Stubs
  BY DEF IInv, StubTypeOK
<1>2. /\ StubTypeOK'
      /\ stub'[call].at \in {"refused", "failed"} \/ stub'[call].at = stub[call].at
      /\ stub[call].delivered => stub'[call].delivered
      /\ stub'[call].due = stub[call].due
      /\ call \in dead' \/ stub'[call].delivered
      /\ \A other \in Calls \ {call} : stub'[other] = stub[other]
  <2>1. CASE Refused(call)
    <3> DEFINE at == IF stub[call].at = "bad reply" THEN "refused" ELSE "failed"
               new == [stub[call] EXCEPT !.at = at, !.delivered = TRUE, !.fallback = Off]
    <3>1. /\ new \in Stubs /\ new.at \in {"refused", "failed"} /\ new.delivered
          /\ new.due = stub[call].due
      BY <1>1 DEF Stubs, Places, Left
    <3>2. stub' = [stub EXCEPT ![call] = new]
      BY <2>1 DEF Refused
    <3> HIDE DEF new
    <3> QED
      BY <1>1, <3>1, <3>2, StubUpdated
  <2>2. CASE ClientDies(call)
    <3> DEFINE new == [stub[call] EXCEPT !.fallback = Off]
    <3>1. /\ new \in Stubs /\ new.at = stub[call].at /\ new.delivered = stub[call].delivered
          /\ new.due = stub[call].due
      BY <1>1 DEF Stubs, Left
    <3>2. stub' = [stub EXCEPT ![call] = new] /\ call \in dead'
      BY <2>2 DEF ClientDies
    <3> HIDE DEF new
    <3> QED
      BY <1>1, <3>1, <3>2, StubUpdated
  <2> QED
    BY <2>1, <2>2
<1>3. /\ UNCHANGED <<session, timers, running, results, sent, reported, callbacks, crashes>>
      /\ UNCHANGED <<unload, faults>> /\ dead \subseteq dead'
  BY DEF Refused, ClientDies, serviceVars
<1> QED
  BY <1>2, <1>3, StubStepKeeps

-----------------------------------------------------------------------------
(* A session opens, changes its state and loses its client                 *)

\* The tasks of one call are replaced, the others stay.
LEMMA TimersUpdated ==
    ASSUME DialogTypeOK, NEW call \in Calls, NEW new \in [Tasks -> Left],
           new.keepalive <= KeepAlive, timers' = [timers EXCEPT ![call] = new]
    PROVE  /\ timers' \in [Calls -> [Tasks -> Left]]
           /\ \A other \in Calls : timers'[other].keepalive <= KeepAlive
           /\ timers'[call] = new
           /\ \A other \in Calls \ {call} : timers'[other] = timers[other]
  BY DEF DialogTypeOK

\* A session opens: its timeout fits before the fallback timer of the client, its
\* keep-alive task before the unload, and the session is the first of its call.
LEMMA OpenKeeps ==
    ASSUME IInv, NEW call \in Calls, stub[call].at = "sent", OpenDialog(call),
           StubGoes(call, "opened"), UNCHANGED callbacks
    PROVE  IInv'
<1>1. /\ DialogTypeOK /\ StubTypeOK /\ session = NoSession
  BY DEF IInv, OpenDialog, MayOpen
<1>2. /\ StubTypeOK' /\ stub'[call].at = "opened"
      /\ stub'[call].delivered = stub[call].delivered /\ stub'[call].due = stub[call].due
      /\ stub'[call].fallback = stub[call].fallback
      /\ \A other \in Calls \ {call} : stub'[other] = stub[other]
  BY <1>1, StubGoesTo DEF Places
<1>3. PICK owner \in Bundles, timeout \in Requested, alive \in {KeepAlive, Off} :
         /\ session' = [id |-> call, owner |-> owner, state |-> "WAITING_REPORT"]
         /\ timers' = [timers EXCEPT ![call].total = NormalizeTimeoutSecLocked(timeout),
                                     ![call].keepalive = alive]
         /\ alive = Off => Fault
         /\ faults' \in {faults, faults + 1}
  BY DEF OpenDialog, Fault
<1> DEFINE total == NormalizeTimeoutSecLocked(timeout)
           new == [timers[call] EXCEPT !["total"] = total, !["keepalive"] = alive]
<1>4. total \in Nat /\ total <= MaxTotal
  BY NormalizedIsBounded
<1> HIDE DEF total
<1>5. /\ new \in [Tasks -> Left] /\ new.keepalive = alive /\ new.total = total
      /\ alive <= KeepAlive
  BY <1>1, <1>4, TimesAreOrdered DEF DialogTypeOK, Tasks, Left, Off
<1>6. timers' = [timers EXCEPT ![call] = new]
  BY <1>3 DEF total
<1> HIDE DEF new
<1>7. /\ timers' \in [Calls -> [Tasks -> Left]]
      /\ \A other \in Calls : timers'[other].keepalive <= KeepAlive
      /\ timers'[call].keepalive = alive /\ timers'[call].total = total
      /\ \A other \in Calls \ {call} : timers'[other] = timers[other]
  BY <1>1, <1>5, <1>6, TimersUpdated
<1>8. /\ UNCHANGED <<running, results, sent, reported, crashes, dead>>
      /\ unload' = UnloadDelay
      /\ NoFailure' => NoFailure
  BY <1>1, <1>3, FailuresStay DEF OpenDialog
<1>9. /\ session' # NoSession /\ session'.id = call /\ session'.state = "WAITING_REPORT"
      /\ session' \in Sessions
      /\ \A other : IsSession(other)' <=> other = call
  <2>1. session' \in Sessions /\ session'.id = call /\ session'.state = "WAITING_REPORT"
    BY <1>3 DEF Sessions, States
  <2>2. session' # NoSession
    BY <2>1 DEF NoSession
  <2> QED
    BY <2>1, <2>2 DEF IsSession
<1>10. DialogTypeOK'
  BY <1>1, <1>3, <1>7, <1>8, <1>9, TimesAreOrdered DEF DialogTypeOK, Left
<1>11. SafetyNet'
  BY <1>4, <1>7, <1>9 DEF SafetyNet, Off
<1>12. NoStrayTask'
  BY <1>1, <1>7, <1>9 DEF IInv, NoStrayTask, IsSession
<1>13. SentIsHandled'
  BY <1>1, <1>2, <1>8 DEF IInv, SentIsHandled, DialogTypeOK
<1>14. SessionIsHandled'
  BY <1>2, <1>8, <1>9 DEF IInv, SessionIsHandled, SentIsHandled
<1>15. ResultIsOwn' /\ OneAnswer' /\ AnsweredIsDelivered'
  BY <1>2, <1>8 DEF IInv, ResultIsOwn, OneAnswer, AnsweredIsDelivered
<1>16. KeepAliveComesFirst'
  <2>1. NoFailure' => alive = KeepAlive
    BY <1>1, <1>3 DEF NoFailure, Fault, DialogTypeOK
  <2> QED
    BY <1>7, <1>8, <1>9, <2>1, TimesAreOrdered DEF KeepAliveComesFirst, Off
<1>17. FallbackIsLast'
  <2> SUFFICES ASSUME NoFailure', NEW other \in Calls \ dead', ~stub'[other].delivered
               PROVE  FallbackIsLastFor(other)'
    BY DEF FallbackIsLast
  <2>1. FallbackIsLastFor(other)
    BY <1>2, <1>8 DEF IInv, FallbackIsLast
  <2>2. CASE other = call
    <3>1. stub'[call].fallback = Fallback
      BY <1>2, <2>1, <2>2 DEF FallbackIsLastFor
    <3>2. stub'[call].fallback > total + Grace /\ total # Off
      BY <1>4, <3>1, TimesAreOrdered DEF Off
    <3> QED
      BY <1>2, <1>7, <1>9, <2>2, <3>2 DEF FallbackIsLastFor, TotalIsNearer
  <2>3. CASE other # call
    BY <1>1, <1>2, <1>8, <2>1, <2>3 DEF FallbackIsLastFor, TotalIsNearer, GraceIsNearer,
                                        ResultIsNearer, IsSession
  <2> QED
    BY <2>2, <2>3
<1>18. FallbackHasCause'
  BY <1>1, <1>2, <1>3, <1>8, FailuresStay DEF IInv
<1> QED
  BY <1>2, <1>10, <1>11, <1>12, <1>13, <1>14, <1>15, <1>16, <1>17, <1>18 DEF IInv

\* OnDialogDisconnected: the session waits for a late report.
LEMMA GraceKeeps ==
    ASSUME IInv, NEW call \in Calls, IsSession(call), session.state = "WAITING_REPORT",
           session' = [session EXCEPT !.state = "GRACE_WAITING"],
           timers' = [timers EXCEPT ![call].total = Off, ![call].grace = Grace],
           UNCHANGED <<running, results, sent, reported, unload, dead, faults, crashes, stub,
                       callbacks>>
    PROVE  IInv'
<1> DEFINE new == [timers[call] EXCEPT !["total"] = Off, !["grace"] = Grace]
<1>1. /\ DialogTypeOK /\ StubTypeOK /\ session # NoSession /\ session.id = call
      /\ session \in Sessions
  BY SessionHasId DEF IInv, IsSession
<1>2. /\ new \in [Tasks -> Left] /\ new.grace = Grace
      /\ new.keepalive = timers[call].keepalive /\ timers[call].keepalive <= KeepAlive
  BY <1>1, TimesAreOrdered DEF DialogTypeOK, Tasks, Left
<1>3. timers' = [timers EXCEPT ![call] = new]
  OBVIOUS
<1> HIDE DEF new
<1>4. /\ timers' \in [Calls -> [Tasks -> Left]]
      /\ \A other \in Calls : timers'[other].keepalive <= KeepAlive
      /\ timers'[call].grace = Grace /\ timers'[call].keepalive = timers[call].keepalive
      /\ \A other \in Calls \ {call} : timers'[other] = timers[other]
  BY <1>1, <1>2, <1>3, TimersUpdated
<1>5. /\ session' # NoSession /\ session'.id = call /\ session'.state = "GRACE_WAITING"
      /\ session' \in Sessions
      /\ \A other : IsSession(other)' <=> other = call
  <2>1. session' \in Sessions /\ session'.id = call /\ session'.state = "GRACE_WAITING"
    BY <1>1 DEF Sessions, States
  <2>2. session' # NoSession
    BY <2>1 DEF NoSession
  <2> QED
    BY <2>1, <2>2 DEF IsSession
<1>6. DialogTypeOK' /\ StubTypeOK'
  BY <1>1, <1>4, <1>5 DEF DialogTypeOK, StubTypeOK
<1>7. SafetyNet'
  BY <1>4, <1>5, TimesAreOrdered DEF SafetyNet, Off
<1>8. NoStrayTask'
  BY <1>1, <1>4, <1>5 DEF IInv, NoStrayTask, IsSession
<1>9. SessionIsHandled' /\ SentIsHandled'
  BY <1>1, <1>5 DEF IInv, SessionIsHandled, SentIsHandled
<1>10. ResultIsOwn' /\ OneAnswer' /\ AnsweredIsDelivered' /\ FallbackHasCause'
  BY DEF IInv, ResultIsOwn, OneAnswer, AnsweredIsDelivered, FallbackHasCause,
              FallbackMeansFailure
<1>11. KeepAliveComesFirst'
  BY <1>1, <1>4, <1>5 DEF IInv, KeepAliveComesFirst, NoFailure
<1>12. FallbackIsLast'
  <2> SUFFICES ASSUME NoFailure, NEW other \in Calls \ dead, ~stub[other].delivered
               PROVE  FallbackIsLastFor(other)'
    BY DEF FallbackIsLast, NoFailure
  <2>1. FallbackIsLastFor(other)
    BY DEF IInv, FallbackIsLast
  <2>2. ASSUME TotalIsNearer(other) \/ GraceIsNearer(other)
        PROVE  GraceIsNearer(other)'
    <3>1. other = call /\ TotalIsNearer(call)
      BY <1>1, <2>2 DEF TotalIsNearer, GraceIsNearer, IsSession
    <3>2. timers[call].total \in Left /\ stub[call].fallback \in Left
      BY <1>1 DEF DialogTypeOK, StubTypeOK, Stubs, Tasks
    <3>3. stub[call].fallback > Grace
      BY <3>1, <3>2, TimesAreOrdered DEF TotalIsNearer, Left, Off
    <3> QED
      BY <1>4, <1>5, <3>1, <3>3, TimesAreOrdered DEF GraceIsNearer, Off
  <2>3. ResultIsNearer(other) => ResultIsNearer(other)'
    BY DEF ResultIsNearer
  <2> QED
    BY <2>1, <2>2, <2>3 DEF FallbackIsLastFor
<1> QED
  BY <1>6, <1>7, <1>8, <1>9, <1>10, <1>11, <1>12 DEF IInv

\* OnClientDied: the session ends without a result; nobody waits for one.
LEMMA ClientLostKeeps ==
    ASSUME IInv, NEW call \in Calls, OnClientDied(call), UNCHANGED <<stub, callbacks>>
    PROVE  IInv'
<1>1. DialogTypeOK /\ StubTypeOK /\ call \in dead
  BY DEF IInv, OnClientDied
<1>2. CASE ~IsSession(call)
  BY <1>2, QuietKeeps DEF OnClientDied
<1>3. CASE IsSession(call)
  <2>1. /\ session' = NoSession
        /\ timers' = [timers EXCEPT ![call] = NoTimers]
        /\ UNCHANGED <<running, results, sent, reported, unload, dead, faults, crashes>>
    BY <1>3 DEF OnClientDied, EndSession
  <2>2. NoTimers \in [Tasks -> Left] /\ NoTimers.keepalive <= KeepAlive
    BY TimesAreOrdered DEF NoTimers, Left, Tasks, Off
  <2>3. /\ timers' \in [Calls -> [Tasks -> Left]]
        /\ \A other \in Calls : timers'[other].keepalive <= KeepAlive
        /\ timers'[call] = NoTimers
        /\ \A other \in Calls \ {call} : timers'[other] = timers[other]
    BY <1>1, <2>1, <2>2, TimersUpdated
  <2>4. DialogTypeOK' /\ StubTypeOK'
    BY <1>1, <2>1, <2>3 DEF DialogTypeOK, StubTypeOK
  <2>5. SafetyNet' /\ SessionIsHandled' /\ KeepAliveComesFirst'
    BY <2>1 DEF SafetyNet, SessionIsHandled, KeepAliveComesFirst
  <2>6. NoStrayTask'
    BY <1>3, <2>1, <2>3 DEF IInv, NoStrayTask, IsSession
  <2>7. /\ SentIsHandled' /\ ResultIsOwn' /\ OneAnswer' /\ AnsweredIsDelivered'
        /\ FallbackHasCause'
    BY <2>1 DEF IInv, SentIsHandled, ResultIsOwn, OneAnswer, AnsweredIsDelivered,
                FallbackHasCause, FallbackMeansFailure
  <2>8. FallbackIsLast'
    <3> SUFFICES ASSUME NoFailure, NEW other \in Calls \ dead, ~stub[other].delivered
                 PROVE  FallbackIsLastFor(other)'
      BY <2>1 DEF FallbackIsLast, NoFailure
    <3>1. FallbackIsLastFor(other) /\ ~IsSession(other)
      BY <1>1, <1>3 DEF IInv, FallbackIsLast, IsSession
    <3> QED
      BY <2>1, <3>1 DEF FallbackIsLastFor, TotalIsNearer, GraceIsNearer, ResultIsNearer
  <2> QED
    BY <2>4, <2>5, <2>6, <2>7, <2>8 DEF IInv
<1> QED
  BY <1>2, <1>3

-----------------------------------------------------------------------------
(* The timer thread                                                        *)

\* A task that leaves the queue still counts as the session's.
LEMMA TakeTaskKeeps ==
    ASSUME IInv, NEW call \in Calls, NEW task \in Tasks, TakeTask(call, task),
           UNCHANGED <<stub, callbacks>>
    PROVE  IInv'
<1> DEFINE new == [timers[call] EXCEPT ![task] = Off]
<1>1. /\ DialogTypeOK /\ StubTypeOK /\ running = NoTask /\ timers[call][task] = 0
      /\ \A u, c : running # <<u, c>>
  BY NothingIsRunning DEF IInv, TakeTask
<1>2. /\ new \in [Tasks -> Left] /\ new.keepalive <= KeepAlive
      /\ \A other \in Tasks \ {task} : new[other] = timers[call][other]
  BY <1>1, TimesAreOrdered DEF DialogTypeOK, Tasks, Left, Off
<1>3. timers' = [timers EXCEPT ![call] = new]
  BY DEF TakeTask
<1> HIDE DEF new
<1>4. /\ timers' \in [Calls -> [Tasks -> Left]]
      /\ \A c \in Calls : timers'[c].keepalive <= KeepAlive
      /\ \A other \in Tasks \ {task} : timers'[call][other] = timers[call][other]
      /\ \A c \in Calls \ {call} : timers'[c] = timers[c]
  BY <1>1, <1>2, <1>3, TimersUpdated
<1>5. /\ UNCHANGED <<session, results, sent, reported, unload, dead, faults, crashes>>
      /\ running' = <<task, call>>
  BY DEF TakeTask
<1>6. /\ \A c \in Calls, other \in Tasks :
            \/ timers'[c][other] = timers[c][other]
            \/ timers[c][other] = 0 /\ running' = <<other, c>>
  BY <1>1, <1>4, <1>5
<1>7. DialogTypeOK' /\ StubTypeOK'
  BY <1>1, <1>4, <1>5 DEF DialogTypeOK, StubTypeOK
<1>8. session # NoSession => session.id \in Calls /\ session.state \in States
  BY <1>1, SessionHasId
<1>9. SafetyNet'
  BY <1>1, <1>5, <1>6, <1>8 DEF IInv, SafetyNet, Tasks
<1>10. NoStrayTask'
  <2> SUFFICES ASSUME NEW c \in Calls, ~IsSession(c)
               PROVE  timers'[c] = NoTimers
    BY <1>5 DEF NoStrayTask, IsSession
  <2>1. timers[c] = NoTimers
    BY DEF IInv, NoStrayTask
  <2>2. c # call
    BY <1>1, <2>1 DEF NoTimers, Off
  <2> QED
    BY <1>4, <2>1, <2>2
<1>11. SessionIsHandled' /\ SentIsHandled' /\ ResultIsOwn' /\ OneAnswer'
       /\ AnsweredIsDelivered' /\ FallbackHasCause'
  BY <1>5 DEF IInv, SessionIsHandled, SentIsHandled, ResultIsOwn, OneAnswer,
              AnsweredIsDelivered, FallbackHasCause,
              FallbackMeansFailure
<1>12. KeepAliveComesFirst'
  <2> SUFFICES ASSUME NoFailure, session # NoSession
               PROVE  \/ /\ timers'[session.id].keepalive # Off
                         /\ timers'[session.id].keepalive < unload
                      \/ running' = <<"keepalive", session.id>> /\ unload > 0
    BY <1>5 DEF KeepAliveComesFirst, NoFailure
  <2>1. timers[session.id].keepalive # Off /\ timers[session.id].keepalive < unload
    BY <1>1 DEF IInv, KeepAliveComesFirst
  <2> QED
    BY <1>6, <1>8, <2>1 DEF Tasks
<1>13. FallbackIsLast'
  <2> SUFFICES ASSUME NoFailure, NEW c \in Calls \ dead, ~stub[c].delivered
               PROVE  FallbackIsLastFor(c)'
    BY <1>5 DEF FallbackIsLast, NoFailure
  <2>1. FallbackIsLastFor(c)
    BY DEF IInv, FallbackIsLast
  <2>2. \A other \in Tasks : \/ timers'[c][other] = timers[c][other]
                             \/ timers[c][other] = 0 /\ running' = <<other, c>>
    BY <1>6
  <2>3. TotalIsNearer(c) => TotalIsNearer(c)'
    BY <1>1, <1>5, <2>2, TimesAreOrdered DEF TotalIsNearer, IsSession, Tasks
  <2>4. GraceIsNearer(c) => GraceIsNearer(c)'
    BY <1>1, <1>5, <2>2 DEF GraceIsNearer, IsSession, Tasks
  <2>5. ResultIsNearer(c) => ResultIsNearer(c)'
    BY <1>5 DEF ResultIsNearer
  <2> QED
    BY <2>1, <2>3, <2>4, <2>5 DEF FallbackIsLastFor
<1> QED
  BY <1>7, <1>9, <1>10, <1>11, <1>12, <1>13 DEF IInv

\* A timeout ends its own session, in the state it was posted for, or nothing.
LEMMA HandleTimeoutKeeps ==
    ASSUME IInv, NEW call \in Calls, NEW task \in Tasks, HandleTimeout(call, task),
           UNCHANGED <<stub, callbacks>>
    PROVE  IInv'
<1>1. /\ DialogTypeOK /\ StubTypeOK
      /\ running = <<task, call>> /\ running' = NoTask /\ task \in {"total", "grace"}
      /\ UNCHANGED <<reported, unload, dead, faults, crashes>>
  BY DEF IInv, HandleTimeout
<1>2. CASE TimesOut(task, call)
  <2>1. session # NoSession /\ session.id = call
    BY <1>2 DEF TimesOut, IsSession
  <2>2. PICK code \in Codes : Finish(session.id, code, connection[session.id].at)
    BY <1>2, <2>1 DEF HandleTimeout, Codes
  <2> QED
    BY <1>1, <2>1, <2>2, FinishKeeps
<1>3. CASE ~TimesOut(task, call)
  <2>1. UNCHANGED <<session, timers, results, sent>>
    BY <1>3 DEF HandleTimeout
  <2>2. DialogTypeOK' /\ StubTypeOK'
    BY <1>1, <2>1 DEF DialogTypeOK, StubTypeOK
  <2>3. /\ NoStrayTask' /\ SessionIsHandled' /\ SentIsHandled' /\ ResultIsOwn' /\ OneAnswer'
        /\ AnsweredIsDelivered' /\ FallbackHasCause'
    BY <1>1, <2>1 DEF IInv, NoStrayTask, IsSession, SessionIsHandled, SentIsHandled,
                      ResultIsOwn, OneAnswer, AnsweredIsDelivered, FallbackHasCause,
              FallbackMeansFailure
  <2>4. /\ \A c : running = <<"total", c>> => task = "total" /\ c = call
        /\ \A c : running = <<"grace", c>> => task = "grace" /\ c = call
        /\ \A c : running # <<"keepalive", c>>
    BY <1>1
  <2>5. SafetyNet'
    <3> SUFFICES ASSUME session # NoSession
                 PROVE  timers[session.id][IF session.state = "WAITING_REPORT"
                                           THEN "total" ELSE "grace"] # Off
      BY <2>1 DEF SafetyNet
    <3>1. session.state \in States /\ IsSession(session.id)
      BY <1>1, SessionHasId
    <3> QED
      BY <1>3, <2>4, <3>1 DEF IInv, SafetyNet, TimesOut, States
  <2>6. KeepAliveComesFirst'
    BY <1>1, <2>1, <2>4 DEF IInv, KeepAliveComesFirst, NoFailure
  <2>7. FallbackIsLast'
    <3> SUFFICES ASSUME NoFailure, NEW c \in Calls \ dead, ~stub[c].delivered
                 PROVE  FallbackIsLastFor(c)'
      BY <1>1 DEF FallbackIsLast, NoFailure
    <3>1. FallbackIsLastFor(c)
      BY DEF IInv, FallbackIsLast
    <3>2. TotalIsNearer(c) => TotalIsNearer(c)'
      BY <1>3, <2>1, <2>4 DEF TotalIsNearer, IsSession, TimesOut
    <3>3. GraceIsNearer(c) => GraceIsNearer(c)'
      BY <1>3, <2>1, <2>4 DEF GraceIsNearer, IsSession, TimesOut
    <3>4. ResultIsNearer(c) => ResultIsNearer(c)'
      BY <2>1 DEF ResultIsNearer
    <3> QED
      BY <3>1, <3>2, <3>3, <3>4 DEF FallbackIsLastFor
  <2> QED
    BY <2>2, <2>3, <2>5, <2>6, <2>7 DEF IInv
<1> QED
  BY <1>2, <1>3

\* The keep-alive task renews the unload and is posted again.
LEMMA HandleKeepAliveKeeps ==
    ASSUME IInv, NEW call \in Calls, HandleKeepAlive(call), UNCHANGED <<stub, callbacks>>
    PROVE  IInv'
<1>1. /\ DialogTypeOK /\ StubTypeOK
      /\ running = <<"keepalive", call>> /\ running' = NoTask
      /\ UNCHANGED <<session, results, sent, reported, dead, crashes>>
      /\ unload' \in {unload, UnloadDelay} /\ faults' \in {faults, faults + 1}
  BY DEF IInv, HandleKeepAlive, RepostKeepAlive, Fault
<1>2. (NoFailure' => NoFailure) /\ FallbackHasCause' /\ faults' \in Nat
  BY <1>1, FailuresStay DEF IInv
<1>3. /\ timers' \in [Calls -> [Tasks -> Left]]
      /\ \A c \in Calls : timers'[c].keepalive <= KeepAlive
      /\ \A c \in Calls, task \in {"total", "grace"} : timers'[c][task] = timers[c][task]
      /\ \A c \in Calls : ~IsSession(c) => timers'[c] = timers[c]
      /\ NoFailure' /\ IsSession(call) =>
            timers'[call].keepalive = KeepAlive /\ unload' = UnloadDelay
  <2>1. CASE UNCHANGED timers
    <3>1. ASSUME NoFailure', IsSession(call)
          PROVE  timers'[call].keepalive = KeepAlive /\ unload' = UnloadDelay
      <4>1. faults' # faults + 1
        BY <1>1, <3>1 DEF NoFailure, DialogTypeOK
      <4>2. /\ timers' = [timers EXCEPT ![call].keepalive = KeepAlive]
            /\ unload' = UnloadDelay
        BY <3>1, <4>1 DEF HandleKeepAlive, RepostKeepAlive, Fault
      <4>3. "keepalive" \in Tasks /\ timers[call] \in [Tasks -> Left]
        BY <1>1 DEF DialogTypeOK, Tasks
      <4> QED
        BY <1>1, <4>2, <4>3 DEF DialogTypeOK
    <3> QED
      BY <1>1, <2>1, <3>1 DEF DialogTypeOK
  <2>2. CASE /\ timers' = [timers EXCEPT ![call].keepalive = KeepAlive]
             /\ IsSession(call) /\ unload' = UnloadDelay
    <3> DEFINE new == [timers[call] EXCEPT !["keepalive"] = KeepAlive]
    <3>1. /\ new \in [Tasks -> Left] /\ new.keepalive = KeepAlive
          /\ new.total = timers[call].total /\ new.grace = timers[call].grace
      BY <1>1, TimesAreOrdered DEF DialogTypeOK, Tasks, Left
    <3>2. timers' = [timers EXCEPT ![call] = new]
      BY <2>2
    <3>3. KeepAlive <= KeepAlive
      BY TimesAreOrdered
    <3> HIDE DEF new
    <3> QED
      BY <1>1, <2>2, <3>1, <3>2, <3>3, TimersUpdated
  <2> QED
    BY <2>1, <2>2 DEF HandleKeepAlive, RepostKeepAlive
<1>4. DialogTypeOK' /\ StubTypeOK'
  BY <1>1, <1>2, <1>3, TimesAreOrdered DEF DialogTypeOK, StubTypeOK, Left
<1>5. /\ SessionIsHandled' /\ SentIsHandled' /\ ResultIsOwn' /\ OneAnswer'
      /\ AnsweredIsDelivered'
  BY <1>1 DEF IInv, SessionIsHandled, SentIsHandled, ResultIsOwn, OneAnswer,
              AnsweredIsDelivered
<1>6. NoStrayTask'
  BY <1>1, <1>3 DEF IInv, NoStrayTask, IsSession
<1>7. \A c : running # <<"total", c>> /\ running # <<"grace", c>>
  BY <1>1
<1>8. SafetyNet'
  BY <1>1, <1>3, <1>7, SessionHasId DEF IInv, SafetyNet, States
<1>9. KeepAliveComesFirst'
  <2> SUFFICES ASSUME NoFailure', session # NoSession
               PROVE  /\ timers'[session.id].keepalive # Off
                      /\ timers'[session.id].keepalive < unload'
    BY <1>1 DEF KeepAliveComesFirst
  <2>1. CASE session.id = call
    BY <1>3, <2>1, TimesAreOrdered DEF IsSession, Off
  <2>2. CASE session.id # call
    <3>1. session.id \in Calls
      BY <1>1, SessionHasId
    <3>2. UNCHANGED <<timers, unload>>
      BY <2>2 DEF HandleKeepAlive, IsSession
    <3>3. running # <<"keepalive", session.id>>
      BY <1>1, <2>2
    <3> QED
      BY <1>2, <3>2, <3>3 DEF IInv, KeepAliveComesFirst
  <2> QED
    BY <2>1, <2>2
<1>10. FallbackIsLast'
  <2> SUFFICES ASSUME NoFailure, NEW c \in Calls \ dead, ~stub[c].delivered
               PROVE  FallbackIsLastFor(c)'
    BY <1>1, <1>2 DEF FallbackIsLast
  <2>1. FallbackIsLastFor(c)
    BY DEF IInv, FallbackIsLast
  <2>2. TotalIsNearer(c) => TotalIsNearer(c)'
    BY <1>1, <1>3, <1>7 DEF TotalIsNearer, IsSession
  <2>3. GraceIsNearer(c) => GraceIsNearer(c)'
    BY <1>1, <1>3, <1>7 DEF GraceIsNearer, IsSession
  <2>4. ResultIsNearer(c) => ResultIsNearer(c)'
    BY <1>1 DEF ResultIsNearer
  <2> QED
    BY <2>1, <2>2, <2>3, <2>4 DEF FallbackIsLastFor
<1> QED
  BY <1>2, <1>4, <1>5, <1>6, <1>8, <1>9, <1>10 DEF IInv

-----------------------------------------------------------------------------
(* Messages, answers, deaths and time                                      *)

\* A result that is lost or comes late is a failure.
LEMMA LoseResultKeeps ==
    ASSUME IInv, NEW result \in results, LoseResult(result), UNCHANGED <<stub, callbacks>>
    PROVE  IInv'
<1>1. /\ DialogTypeOK /\ StubTypeOK
      /\ UNCHANGED <<session, timers, running, sent, reported, unload, dead, crashes>>
      /\ faults' = faults + 1
  BY DEF IInv, LoseResult, Fault
<1>2. ~NoFailure' /\ FallbackHasCause'
  <2>1. ~NoFailure'
    BY <1>1 DEF NoFailure, DialogTypeOK
  <2> QED
    BY <1>1, <2>1, FailuresStay DEF IInv
<1>3. DialogTypeOK' /\ StubTypeOK'
  <2>1. result \in [call : Calls, code : Codes, late : BOOLEAN]
    BY <1>1 DEF DialogTypeOK
  <2>2. [result EXCEPT !.late = TRUE] \in [call : Calls, code : Codes, late : BOOLEAN]
    BY <2>1
  <2>3. results' \subseteq [call : Calls, code : Codes, late : BOOLEAN]
    BY <1>1, <2>2 DEF LoseResult, DialogTypeOK
  <2> QED
    BY <1>1, <2>3 DEF DialogTypeOK, StubTypeOK
<1>4. /\ SafetyNet' /\ NoStrayTask' /\ SessionIsHandled' /\ SentIsHandled' /\ ResultIsOwn'
      /\ OneAnswer' /\ AnsweredIsDelivered'
  BY <1>1 DEF IInv, SafetyNet, NoStrayTask, IsSession, SessionIsHandled, SentIsHandled,
              ResultIsOwn, OneAnswer, AnsweredIsDelivered
<1>5. KeepAliveComesFirst' /\ FallbackIsLast'
  BY <1>2 DEF KeepAliveComesFirst, FallbackIsLast
<1> QED
  BY <1>2, <1>3, <1>4, <1>5 DEF IInv

\* Once Deliver has run the flag of the call is up.
LEMMA DeliverSets ==
    ASSUME StubTypeOK, NEW call \in Calls, NEW code \in Codes \cup {"fallback"},
           Deliver(call, code)
    PROVE  /\ StubTypeOK'
           /\ stub'[call].at = stub[call].at
           /\ IF stub[call].delivered THEN UNCHANGED stub ELSE stub'[call].due = code
           /\ stub'[call].delivered
           /\ \A other \in Calls \ {call} : stub'[other] = stub[other]
<1>1. stub[call] \in Stubs
  BY DEF StubTypeOK
<1>2. CASE MayDeliver(call)
  <2> DEFINE new == [stub[call] EXCEPT !.delivered = TRUE, !.due = code, !.fallback = Off]
  <2>1. new \in Stubs /\ new.at = stub[call].at /\ new.delivered /\ new.due = code
    BY <1>1 DEF Stubs, Left
  <2>2. stub' = [stub EXCEPT ![call] = new]
    BY <1>2 DEF Deliver
  <2> HIDE DEF new
  <2> QED
    BY <1>1, <1>2, <2>1, <2>2, StubUpdated DEF MayDeliver
<1>3. CASE ~MayDeliver(call)
  <2>1. stub' = stub
    BY <1>3 DEF Deliver
  <2>2. stub[call].delivered
    BY <1>1, <1>3 DEF MayDeliver, Stubs
  <2> QED
    BY <1>1, <2>1, <2>2 DEF StubTypeOK
<1> QED
  BY <1>2, <1>3

\* A delivery begins unless one has.  A fallback is one of a call that has
\* something nearer only after a failure.
LEMMA DeliverKeeps ==
    ASSUME IInv, NEW call \in Calls, NEW code \in Codes \cup {"fallback"},
           Deliver(call, code),
           code = "fallback" => stub[call].delivered \/ ~NoFailure,
           UNCHANGED <<session, timers, running, sent, reported, unload, dead, faults, crashes,
                       callbacks>>,
           results' \subseteq results,
           \A result \in results : result.call # call => result \in results'
    PROVE  IInv'
<1>1. DialogTypeOK /\ StubTypeOK /\ stub[call] \in Stubs
  BY DEF IInv, StubTypeOK
<1>2. /\ StubTypeOK'
      /\ stub'[call].at = stub[call].at
      /\ IF stub[call].delivered THEN UNCHANGED stub ELSE stub'[call].due = code
      /\ stub'[call].delivered
      /\ \A other \in Calls \ {call} : stub'[other] = stub[other]
  BY <1>1, DeliverSets
<1>3. DialogTypeOK'
  BY <1>1 DEF DialogTypeOK
<1>4. SafetyNet' /\ NoStrayTask' /\ ResultIsOwn' /\ OneAnswer'
  BY DEF IInv, SafetyNet, NoStrayTask, IsSession, ResultIsOwn, OneAnswer
<1>5. SessionIsHandled'
  BY <1>1, <1>2, SessionHasId DEF IInv, SessionIsHandled
<1>6. SentIsHandled'
  BY <1>1, <1>2 DEF IInv, SentIsHandled, DialogTypeOK
<1>7. AnsweredIsDelivered'
  <2>1. CASE stub[call].delivered
    BY <1>2, <2>1 DEF IInv, AnsweredIsDelivered
  <2>2. CASE ~stub[call].delivered
    <3>1. \A answer \in callbacks : answer.call # call
      BY <2>2 DEF IInv, AnsweredIsDelivered
    <3> QED
      BY <1>2, <3>1 DEF IInv, AnsweredIsDelivered
  <2> QED
    BY <2>1, <2>2
<1>8. FallbackHasCause'
  <2>1. ~NoFailure => faults + crashes > 0
    <3>1. faults \in Nat /\ crashes \in Nat
      BY <1>1 DEF DialogTypeOK
    <3> QED
      BY <3>1 DEF NoFailure
  <2> QED
    BY <1>2, <2>1 DEF IInv, FallbackHasCause, FallbackMeansFailure
<1>9. KeepAliveComesFirst'
  BY DEF IInv, KeepAliveComesFirst, NoFailure
<1>10. FallbackIsLast'
  <2> SUFFICES ASSUME NoFailure, NEW c \in Calls \ dead, ~stub'[c].delivered
               PROVE  FallbackIsLastFor(c)'
    BY DEF FallbackIsLast, NoFailure
  <2>1. c # call /\ stub'[c] = stub[c]
    BY <1>2
  <2>2. FallbackIsLastFor(c)
    BY <2>1 DEF IInv, FallbackIsLast
  <2> QED
    BY <2>1, <2>2 DEF FallbackIsLastFor, TotalIsNearer, GraceIsNearer, ResultIsNearer, IsSession
<1> QED
  BY <1>2, <1>3, <1>4, <1>5, <1>6, <1>7, <1>8, <1>9, <1>10 DEF IInv

\* The callback runs once the flag is up, and the delivery is over.
LEMMA InvokeSets ==
    ASSUME StubTypeOK, NEW call \in Calls, InvokeCallback(call)
    PROVE  /\ StubTypeOK'
           /\ stub'[call].at = stub[call].at
           /\ stub'[call].delivered = stub[call].delivered
           /\ stub'[call].fallback = stub[call].fallback
           /\ stub'[call].due = "none"
           /\ \A other \in Calls \ {call} : stub'[other] = stub[other]
           /\ \E answer : /\ answer.call = call /\ answer.code = stub[call].due
                          /\ callbacks' = callbacks \cup {answer}
<1> DEFINE new == [stub[call] EXCEPT !.due = "none", !.held = FALSE]
           number == Cardinality({other \in callbacks : other.call = call})
           answer == [call |-> call, code |-> stub[call].due, number |-> number]
<1>1. /\ new \in Stubs /\ new.at = stub[call].at /\ new.due = "none"
      /\ new.delivered = stub[call].delivered /\ new.fallback = stub[call].fallback
  BY DEF StubTypeOK, Stubs
<1>2. stub' = [stub EXCEPT ![call] = new] /\ callbacks' = callbacks \cup {answer}
  BY DEF InvokeCallback
<1>3. answer.call = call /\ answer.code = stub[call].due
  OBVIOUS
<1> HIDE DEF new, answer
<1> QED
  BY <1>1, <1>2, <1>3, StubUpdated

LEMMA InvokeKeeps ==
    ASSUME IInv, NEW call \in Calls, InvokeCallback(call)
    PROVE  IInv'
<1>1. DialogTypeOK /\ StubTypeOK /\ stub[call].due # "none" /\ UNCHANGED serviceVars
  BY DEF IInv, InvokeCallback
<1>2. /\ StubTypeOK'
      /\ stub'[call].at = stub[call].at
      /\ stub'[call].delivered = stub[call].delivered
      /\ stub'[call].due = "none"
      /\ \A other \in Calls \ {call} : stub'[other] = stub[other]
  BY <1>1, InvokeSets
<1>3. PICK answer : /\ answer.call = call /\ answer.code = stub[call].due
                    /\ callbacks' = callbacks \cup {answer}
  BY <1>1, InvokeSets
<1>4. DialogTypeOK' /\ SafetyNet' /\ NoStrayTask' /\ ResultIsOwn' /\ KeepAliveComesFirst'
  BY <1>1 DEF IInv, DialogTypeOK, SafetyNet, NoStrayTask, ResultIsOwn, KeepAliveComesFirst,
              IsSession, NoFailure, serviceVars
<1>5. SessionIsHandled' /\ SentIsHandled'
  <2>1. session # NoSession => session.id \in Calls
    BY <1>1, SessionHasId
  <2>2. \A result \in sent : result.call \in Calls
    BY <1>1 DEF DialogTypeOK
  <2> QED
    BY <1>1, <1>2, <2>1, <2>2 DEF IInv, SessionIsHandled, SentIsHandled, serviceVars
<1>6. AnsweredIsDelivered' /\ OneAnswer'
  BY <1>1, <1>2, <1>3 DEF IInv, AnsweredIsDelivered, OneAnswer
<1>7. FallbackHasCause'
  BY <1>1, <1>2, <1>3 DEF IInv, FallbackHasCause, FallbackMeansFailure, serviceVars
<1>8. FallbackIsLast'
  <2> SUFFICES ASSUME NoFailure, NEW c \in Calls \ dead, ~stub'[c].delivered
               PROVE  FallbackIsLastFor(c)'
    BY <1>1 DEF FallbackIsLast, NoFailure, serviceVars
  <2>1. c # call /\ stub'[c] = stub[c]
    BY <1>1, <1>2 DEF IInv, AnsweredIsDelivered
  <2>2. FallbackIsLastFor(c)
    BY <2>1 DEF IInv, FallbackIsLast
  <2> QED
    BY <1>1, <2>1, <2>2 DEF FallbackIsLastFor, TotalIsNearer, GraceIsNearer, ResultIsNearer,
                            IsSession, serviceVars
<1> QED
  BY <1>2, <1>4, <1>5, <1>6, <1>7, <1>8 DEF IInv

\* A result arrives at a client that is alive or is gone.
LEMMA ReceiveResultKeeps ==
    ASSUME IInv, NEW result \in results, ReceiveResult(result)
    PROVE  IInv'
<1>1. /\ DialogTypeOK /\ StubTypeOK /\ result.call \in Calls
      /\ result.code \in Codes /\ result.code # "fallback"
  BY DEF IInv, DialogTypeOK, Codes
<1>2. /\ results' = results \ {result}
      /\ UNCHANGED <<session, timers, running, sent, reported, unload, dead, faults, crashes,
                     callbacks>>
  BY DEF ReceiveResult
<1>3. CASE Alive(result.call)
  <2>1. Deliver(result.call, result.code)
    BY <1>3 DEF ReceiveResult
  <2> QED
    BY <1>1, <1>2, <2>1, DeliverKeeps
<1>4. CASE ~Alive(result.call)
  <2>1. UNCHANGED <<stub, callbacks>>
    BY <1>2, <1>4 DEF ReceiveResult
  <2>2. DialogTypeOK' /\ StubTypeOK'
    BY <1>1, <1>2, <2>1 DEF DialogTypeOK, StubTypeOK
  <2>3. /\ SafetyNet' /\ NoStrayTask' /\ SessionIsHandled' /\ SentIsHandled' /\ ResultIsOwn'
        /\ OneAnswer' /\ AnsweredIsDelivered' /\ FallbackHasCause' /\ KeepAliveComesFirst'
    BY <1>2, <2>1 DEF IInv, SafetyNet, NoStrayTask, IsSession, SessionIsHandled, SentIsHandled,
                      ResultIsOwn, OneAnswer, AnsweredIsDelivered, FallbackHasCause,
              FallbackMeansFailure,
                      KeepAliveComesFirst, NoFailure
  <2>4. FallbackIsLast'
    <3> SUFFICES ASSUME NoFailure, NEW call \in Calls \ dead, ~stub[call].delivered
                 PROVE  FallbackIsLastFor(call)'
      BY <1>2, <2>1 DEF FallbackIsLast, NoFailure
    <3>1. FallbackIsLastFor(call) /\ call # result.call
      BY <1>4 DEF IInv, FallbackIsLast, Alive
    <3> QED
      BY <1>2, <2>1, <3>1 DEF FallbackIsLastFor, TotalIsNearer, GraceIsNearer,
                              ResultIsNearer, IsSession
  <2> QED
    BY <2>2, <2>3, <2>4 DEF IInv
<1> QED
  BY <1>3, <1>4

\* The fallback timer answers only a call that has nothing nearer any more.
LEMMA FallbackFiresKeeps ==
    ASSUME IInv, NEW call \in Calls, FallbackFires(call)
    PROVE  IInv'
<1>1. stub[call].fallback = 0 /\ call \notin dead /\ Deliver(call, "fallback")
  BY DEF FallbackFires, Alive
<1>2. stub[call].delivered \/ ~NoFailure
  <2> SUFFICES ASSUME NoFailure, ~stub[call].delivered
               PROVE  FALSE
    OBVIOUS
  <2>1. FallbackIsLastFor(call)
    BY <1>1 DEF IInv, FallbackIsLast
  <2>2. stub[call].at \in Places
    BY DEF IInv, StubTypeOK, Stubs
  <2>3. timers[call].total \in Left /\ timers[call].grace \in Left
    BY DEF IInv, DialogTypeOK, Tasks
  <2>4. ~TotalIsNearer(call) /\ ~GraceIsNearer(call) /\ ~ResultIsNearer(call)
    BY <1>1, <2>3, TimesAreOrdered DEF TotalIsNearer, GraceIsNearer, ResultIsNearer, Left, Off
  <2>5. 0 # Off /\ 0 # Fallback /\ ~(0 > 0)
    BY TimesAreOrdered DEF Off
  <2> QED
    BY <1>1, <2>1, <2>2, <2>4, <2>5 DEF FallbackIsLastFor, Places
<1> QED
  BY <1>1, <1>2, DeliverKeeps DEF FallbackFires, serviceVars

\* A death of the service with all it has in memory; without a failure no
\* session is open then.
LEMMA ServiceDiesKeeps ==
    ASSUME IInv, ServiceDies
    PROVE  IInv'
<1>1. DialogTypeOK /\ StubTypeOK
  BY DEF IInv
<1>2. /\ session' = NoSession
      /\ timers' = [call \in Calls |-> NoTimers]
      /\ running' = NoTask
      /\ unload' = Off
      /\ UNCHANGED <<results, sent, reported, dead, faults, callbacks>>
      /\ (unload = 0 /\ crashes' = crashes) \/ crashes' = crashes + 1
  BY DEF ServiceDies, Unload, Crash, Die
<1>3. (NoFailure' => NoFailure /\ unload = 0) /\ crashes' \in Nat
  <2>1. (NoFailure' => NoFailure) /\ crashes' \in Nat
    BY <1>1, <1>2, FailuresStay DEF IInv
  <2>2. NoFailure' => crashes' # crashes + 1
    BY <1>1 DEF NoFailure, DialogTypeOK
  <2> QED
    BY <1>2, <2>1, <2>2
<1>4. \A call \in Calls :
         /\ stub[call] \in Stubs /\ stub'[call] \in Stubs
         /\ stub'[call].delivered = stub[call].delivered
         /\ stub'[call].due = stub[call].due
         /\ stub'[call].fallback = stub[call].fallback
         /\ stub'[call].at = AfterDeath(stub[call].at)
  <2> SUFFICES ASSUME NEW call \in Calls
               PROVE  /\ stub[call] \in Stubs /\ stub'[call] \in Stubs
                      /\ stub'[call].delivered = stub[call].delivered
                      /\ stub'[call].due = stub[call].due
                      /\ stub'[call].fallback = stub[call].fallback
                      /\ stub'[call].at = AfterDeath(stub[call].at)
    OBVIOUS
  <2>1. stub[call] \in Stubs
    BY <1>1 DEF StubTypeOK
  <2>2. stub'[call] = [stub[call] EXCEPT !.at = AfterDeath(stub[call].at)]
    BY DEF ServiceDies
  <2>3. AfterDeath(stub[call].at) \in Places
    BY <2>1 DEF AfterDeath, Stubs, Places
  <2> QED
    BY <2>1, <2>2, <2>3 DEF Stubs
<1>5. StubTypeOK'
  BY <1>4 DEF ServiceDies, StubTypeOK
<1>6. NoTimers \in [Tasks -> Left] /\ NoTimers.keepalive <= KeepAlive
  BY TimesAreOrdered DEF NoTimers, Left, Tasks, Off
<1>7. DialogTypeOK'
  BY <1>1, <1>2, <1>3, <1>6 DEF DialogTypeOK, Left
<1>8. SafetyNet' /\ SessionIsHandled' /\ KeepAliveComesFirst' /\ NoStrayTask'
  BY <1>2 DEF SafetyNet, SessionIsHandled, KeepAliveComesFirst, NoStrayTask
<1>9. SentIsHandled'
  <2>1. \A result \in sent : result.call \in Calls
    BY <1>1 DEF DialogTypeOK
  <2> QED
    BY <1>2, <1>4, <2>1 DEF IInv, SentIsHandled, AfterDeath
<1>10. ResultIsOwn' /\ OneAnswer' /\ AnsweredIsDelivered'
  BY <1>2, <1>4 DEF IInv, ResultIsOwn, OneAnswer, AnsweredIsDelivered
<1>11. FallbackIsLast'
  <2> SUFFICES ASSUME NoFailure', NEW call \in Calls \ dead, ~stub'[call].delivered
               PROVE  FallbackIsLastFor(call)'
    BY <1>2 DEF FallbackIsLast
  <2>1. NoFailure /\ unload = 0 /\ FallbackIsLastFor(call)
    BY <1>3, <1>4 DEF IInv, FallbackIsLast
  <2>2. session = NoSession
    <3>1. ASSUME session # NoSession PROVE FALSE
      <4>1. timers[session.id].keepalive \in Left
        BY <1>1, <3>1, SessionHasId DEF DialogTypeOK, Tasks
      <4> QED
        BY <2>1, <3>1, <4>1 DEF IInv, KeepAliveComesFirst, Left, Off
    <3> QED
      BY <3>1
  <2>3. ~TotalIsNearer(call) /\ ~GraceIsNearer(call)
    BY <2>2 DEF TotalIsNearer, GraceIsNearer, IsSession
  <2>4. ResultIsNearer(call) => ResultIsNearer(call)' /\ stub'[call].fallback > 0
    BY <1>2, <1>4 DEF ResultIsNearer
  <2> QED
    BY <1>4, <2>1, <2>3, <2>4, TimesAreOrdered DEF FallbackIsLastFor, AfterDeath
<1>12. FallbackHasCause'
  BY <1>1, <1>2, <1>4, FailuresStay DEF IInv
<1> QED
  BY <1>3, <1>5, <1>7, <1>8, <1>9, <1>10, <1>11, <1>12 DEF IInv

\* A countdown that is not due goes on by one, one that is off stays off.
LEMMA DownIsLeft ==
    ASSUME NEW left \in Left, left # 0
    PROVE  /\ Down(left) \in Left
           /\ left = Off => Down(left) = Off
           /\ left # Off => Down(left) # Off /\ Down(left) = left - 1 /\ left \in Nat
  BY DEF Down, Left, Off

\* Time passes: every countdown goes on by one and none that is nearer is left
\* behind, because nothing is due and no message on its way.
LEMMA TickKeeps ==
    ASSUME IInv, Tick
    PROVE  IInv'
<1>1. DialogTypeOK /\ StubTypeOK
  BY DEF IInv
<1>2. /\ UNCHANGED <<session, running, results, sent, reported, dead, faults, crashes, callbacks>>
      /\ running = NoTask /\ unload # 0
      /\ \A call \in Calls, task \in Tasks : timers[call][task] # 0
      /\ \A result \in results : result.late
      /\ unload' = Down(unload)
  BY DEF Tick, ServiceTick, ServiceBusy, ClientBusy
<1>3. \A call \in Calls : /\ stub[call].fallback # 0
                          /\ stub[call].at \notin {"sent", "opened"}
                          /\ call \notin dead =>
                                stub[call].at \notin {"good reply", "bad reply", "no reply"}
  BY DEF Tick, ClientBusy, Alive
<1>4. /\ timers' \in [Calls -> [Tasks -> Left]]
      /\ \A call \in Calls, task \in Tasks :
            /\ timers[call][task] \in Left
            /\ timers'[call][task] = Down(timers[call][task])
  <2>1. timers' = [call \in Calls |-> [task \in Tasks |-> Down(timers[call][task])]]
    BY DEF Tick, ServiceTick
  <2>2. \A call \in Calls, task \in Tasks : timers[call][task] \in Left
    BY <1>1 DEF DialogTypeOK
  <2>3. \A call \in Calls, task \in Tasks : Down(timers[call][task]) \in Left
    BY <1>2, <2>2, DownIsLeft
  <2> QED
    BY <2>1, <2>2, <2>3
<1>5. \A call \in Calls : /\ stub[call] \in Stubs /\ stub'[call] \in Stubs
                          /\ stub'[call].at = stub[call].at
                          /\ stub'[call].delivered = stub[call].delivered
                          /\ stub'[call].due = stub[call].due
                          /\ stub'[call].fallback = Down(stub[call].fallback)
                          /\ stub[call].fallback \in Left
  <2> SUFFICES ASSUME NEW call \in Calls
               PROVE  /\ stub[call] \in Stubs /\ stub'[call] \in Stubs
                      /\ stub'[call].at = stub[call].at
                      /\ stub'[call].delivered = stub[call].delivered
                      /\ stub'[call].due = stub[call].due
                      /\ stub'[call].fallback = Down(stub[call].fallback)
                      /\ stub[call].fallback \in Left
    OBVIOUS
  <2>1. stub[call] \in Stubs /\ stub[call].fallback \in Left
    BY <1>1 DEF StubTypeOK, Stubs
  <2>2. stub'[call] = [stub[call] EXCEPT !.fallback = Down(stub[call].fallback)]
    BY DEF Tick
  <2>3. Down(stub[call].fallback) \in Left
    BY <1>3, <2>1, DownIsLeft
  <2> QED
    BY <2>1, <2>2, <2>3 DEF Stubs
<1>6. StubTypeOK'
  BY <1>5 DEF Tick, StubTypeOK
<1>7. DialogTypeOK'
  <2>1. unload' \in Left
    BY <1>1, <1>2, DownIsLeft DEF DialogTypeOK
  <2>2. ASSUME NEW call \in Calls PROVE timers'[call].keepalive <= KeepAlive
    <3>1. "keepalive" \in Tasks
      BY DEF Tasks
    <3>2. /\ timers[call].keepalive \in Left /\ timers[call].keepalive # 0
          /\ timers'[call].keepalive = Down(timers[call].keepalive)
          /\ timers[call].keepalive <= KeepAlive
      BY <1>1, <1>2, <1>4, <3>1 DEF DialogTypeOK
    <3> QED
      BY <3>2, TimesAreOrdered DEF Down, Left, Off
  <2> QED
    BY <1>1, <1>2, <1>4, <2>1, <2>2 DEF DialogTypeOK
<1>8. \A task, call : running # <<task, call>>
  BY <1>2, NothingIsRunning
<1>9. session # NoSession => session.id \in Calls /\ session.state \in States
  BY <1>1, SessionHasId
<1>10. SafetyNet'
  <2> DEFINE net == IF session.state = "WAITING_REPORT" THEN "total" ELSE "grace"
  <2>1. net \in Tasks
    BY DEF Tasks
  <2>2. session # NoSession => timers[session.id][net] # Off
    BY <1>8 DEF IInv, SafetyNet
  <2>3. session # NoSession => timers'[session.id][net] # Off
    BY <1>2, <1>4, <1>9, <2>1, <2>2, DownIsLeft
  <2> QED
    BY <1>2, <2>3 DEF SafetyNet
<1>11. NoStrayTask'
  <2> SUFFICES ASSUME NEW call \in Calls, ~IsSession(call)
               PROVE  timers'[call] = NoTimers
    BY <1>2 DEF NoStrayTask, IsSession
  <2>1. timers[call] = NoTimers
    BY DEF IInv, NoStrayTask
  <2>2. \A task \in Tasks : timers'[call][task] = Off
    BY <1>4, <2>1 DEF NoTimers, Down
  <2>3. timers'[call] \in [Tasks -> Left]
    BY <1>4
  <2> QED
    BY <2>2, <2>3 DEF NoTimers
<1>12. SessionIsHandled' /\ SentIsHandled'
  <2>1. \A result \in sent : result.call \in Calls
    BY <1>1 DEF DialogTypeOK
  <2> QED
    BY <1>2, <1>5, <1>9, <2>1 DEF IInv, SessionIsHandled, SentIsHandled
<1>13. ResultIsOwn' /\ OneAnswer' /\ AnsweredIsDelivered' /\ FallbackHasCause'
  BY <1>2, <1>5 DEF IInv, ResultIsOwn, OneAnswer, AnsweredIsDelivered, FallbackHasCause,
              FallbackMeansFailure
<1>14. KeepAliveComesFirst'
  <2> SUFFICES ASSUME NoFailure, session # NoSession
               PROVE  /\ timers'[session.id].keepalive # Off
                      /\ timers'[session.id].keepalive < unload'
    BY <1>2 DEF KeepAliveComesFirst, NoFailure
  <2>1. timers[session.id].keepalive # Off /\ timers[session.id].keepalive < unload
    BY <1>8 DEF IInv, KeepAliveComesFirst
  <2>2. "keepalive" \in Tasks
    BY DEF Tasks
  <2>3. /\ timers[session.id].keepalive \in Left /\ timers[session.id].keepalive # 0
        /\ timers'[session.id].keepalive = Down(timers[session.id].keepalive)
        /\ unload \in Left
    BY <1>1, <1>2, <1>4, <1>9, <2>2 DEF DialogTypeOK
  <2> QED
    BY <1>2, <2>1, <2>3 DEF Down, Left, Off
<1>15. FallbackIsLast'
  <2> SUFFICES ASSUME NoFailure, NEW call \in Calls \ dead, ~stub[call].delivered
               PROVE  FallbackIsLastFor(call)'
    BY <1>2, <1>5 DEF FallbackIsLast, NoFailure
  <2>1. FallbackIsLastFor(call)
    BY DEF IInv, FallbackIsLast
  <2>2. "total" \in Tasks /\ "grace" \in Tasks
    BY DEF Tasks
  <2>3. /\ timers[call].total \in Left /\ timers[call].total # 0
        /\ timers'[call].total = Down(timers[call].total)
        /\ timers[call].grace \in Left /\ timers[call].grace # 0
        /\ timers'[call].grace = Down(timers[call].grace)
        /\ stub[call].fallback \in Left /\ stub[call].fallback # 0
        /\ stub'[call].fallback = Down(stub[call].fallback)
    BY <1>2, <1>3, <1>4, <1>5, <2>2
  <2>4. TotalIsNearer(call) => TotalIsNearer(call)'
    <3> SUFFICES ASSUME TotalIsNearer(call) PROVE TotalIsNearer(call)'
      OBVIOUS
    <3>1. timers[call].total # Off /\ stub[call].fallback > timers[call].total + Grace
      BY <1>8 DEF TotalIsNearer
    <3>2. /\ timers'[call].total # Off
          /\ stub'[call].fallback > timers'[call].total + Grace
      BY <2>3, <3>1, TimesAreOrdered DEF Down, Left, Off
    <3> QED
      BY <1>2, <3>2 DEF TotalIsNearer, IsSession
  <2>5. GraceIsNearer(call) => GraceIsNearer(call)'
    <3> SUFFICES ASSUME GraceIsNearer(call) PROVE GraceIsNearer(call)'
      OBVIOUS
    <3>1. timers[call].grace # Off /\ stub[call].fallback > timers[call].grace
      BY <1>8 DEF GraceIsNearer
    <3>2. timers'[call].grace # Off /\ stub'[call].fallback > timers'[call].grace
      BY <2>3, <3>1 DEF Down, Left, Off
    <3> QED
      BY <1>2, <3>2 DEF GraceIsNearer, IsSession
  <2>6. ~ResultIsNearer(call)
    BY <1>2 DEF ResultIsNearer
  <2>7. stub[call].fallback = Off => stub'[call].fallback = Off
    BY <2>3 DEF Down
  <2> QED
    BY <1>3, <1>5, <2>1, <2>4, <2>5, <2>6, <2>7 DEF FallbackIsLastFor
<1> QED
  BY <1>6, <1>7, <1>10, <1>11, <1>12, <1>13, <1>14, <1>15 DEF IInv

-----------------------------------------------------------------------------
(* The callbacks of the connection and the reports                         *)

\* A report of the driver that owns the session ends it.
LEMMA OnReportKeeps ==
    ASSUME IInv, NEW call \in Calls, NEW bundle, NEW code, OnReport(call, bundle, code),
           UNCHANGED <<stub, callbacks>>
    PROVE  IInv'
<1>1. session # NoSession /\ session.id = call
  BY DEF OnReport, MayReport, IsSession
<1>2. NormalizeReportCode(code) \in Codes
  BY DEF NormalizeReportCode, Codes
<1> QED
  BY <1>1, <1>2, FinishKeeps DEF OnReport

\* A dialog that is gone starts the grace, or ends the session, or is an old one.
LEMMA OnDialogDisconnectedKeeps ==
    ASSUME IInv, NEW call \in Calls, NEW at, OnDialogDisconnected(call, at),
           UNCHANGED <<stub, callbacks>>
    PROVE  IInv'
<1>1. UNCHANGED <<running, reported, unload, dead, crashes>>
  BY DEF OnDialogDisconnected
<1>2. CASE ~(IsSession(call) /\ session.state = "WAITING_REPORT")
  BY <1>1, <1>2, QuietKeeps DEF OnDialogDisconnected
<1>3. CASE IsSession(call) /\ session.state = "WAITING_REPORT"
  <2>1. CASE GraceTimerFails(call, at)
    <3>1. session # NoSession /\ session.id = call
      BY <1>3 DEF IsSession
    <3>2. Finish(session.id, "canceled", at) /\ "canceled" \in Codes
      BY <2>1, <3>1 DEF GraceTimerFails, Codes
    <3> QED
      BY <1>1, <2>1, <3>1, <3>2, FinishKeeps DEF GraceTimerFails, Fault
  <2>2. CASE ~GraceTimerFails(call, at)
    BY <1>1, <1>3, <2>2, GraceKeeps DEF OnDialogDisconnected
  <2> QED
    BY <2>1, <2>2
<1> QED
  BY <1>2, <1>3

\* Callbacks and requests that change nothing the invariant is about.
LEMMA ConnectionKeeps ==
    ASSUME IInv, UNCHANGED <<stub, callbacks>>,
           \/ \E call \in Calls : OnAbilityConnectDone(call) \/ SendStart(call)
           \/ OtherRequest
    PROVE  IInv'
<1>1. /\ UNCHANGED <<session, timers, running, results, sent, reported, crashes, dead, faults>>
      /\ unload' \in {unload, UnloadDelay}
  BY DEF OnAbilityConnectDone, SendStart, OtherRequest
<1> QED
  BY <1>1, QuietKeeps

-----------------------------------------------------------------------------
(* The theorems                                                            *)

\* No session, no call made yet, no service loaded.
LEMMA InitEstablishes == Init => IInv
<1> SUFFICES ASSUME Init PROVE IInv
  OBVIOUS
<1>1. /\ session = NoSession /\ timers = [call \in Calls |-> NoTimers] /\ running = NoTask
      /\ results = {} /\ sent = {} /\ reported = {} /\ unload = Off /\ faults = 0
      /\ crashes = 0 /\ stub = [call \in Calls |-> NewStub] /\ callbacks = {}
  BY DEF Init, ServiceInit
<1>2. NoTimers \in [Tasks -> Left] /\ NoTimers.keepalive <= KeepAlive
  BY TimesAreOrdered DEF NoTimers, Left, Tasks, Off
<1>3. /\ NewStub \in Stubs /\ NewStub.at = "idle" /\ NewStub.fallback = Off
      /\ NewStub.due = "none"
  BY DEF NewStub, Stubs, Places, Left
<1>4. DialogTypeOK /\ StubTypeOK
  BY <1>1, <1>2, <1>3 DEF DialogTypeOK, StubTypeOK, Left
<1>5. /\ SafetyNet /\ NoStrayTask /\ SessionIsHandled /\ SentIsHandled /\ ResultIsOwn
      /\ AnsweredIsDelivered /\ OneAnswer /\ KeepAliveComesFirst /\ FallbackHasCause
  BY <1>1, <1>3 DEF SafetyNet, NoStrayTask, SessionIsHandled, SentIsHandled, ResultIsOwn,
                    AnsweredIsDelivered, OneAnswer, KeepAliveComesFirst, FallbackHasCause,
                    FallbackMeansFailure
<1>6. FallbackIsLast
  BY <1>1, <1>3 DEF FallbackIsLast, FallbackIsLastFor
<1> QED
  BY <1>4, <1>5, <1>6 DEF IInv

\* Every step of service, clients and time preserves the invariant.
LEMMA NextPreserves == IInv /\ [Next]_vars => IInv'
<1> SUFFICES ASSUME IInv, [Next]_vars PROVE IInv'
  OBVIOUS
<1>1. ASSUME NEW call \in Calls, Send(call) \/ SendFails(call) PROVE IInv'
  BY <1>1, SendKeeps, SendFailsKeeps
<1>2. ASSUME NEW call \in Calls, Open(call) PROVE IInv'
  BY <1>2, OpenKeeps, RefuseKeeps DEF Open
<1>3. ASSUME NEW call \in Calls, Reply(call) \/ Accepted(call) PROVE IInv'
  BY <1>3, ReplyKeeps
<1>4. ASSUME NEW call \in Calls, Refused(call) \/ ClientDies(call) PROVE IInv'
  BY <1>4, DropKeeps
<1>5. ASSUME NEW call \in Calls, FallbackFires(call) PROVE IInv'
  BY <1>5, FallbackFiresKeeps
<1>6. ASSUME NEW result \in results, ReceiveResult(result) PROVE IInv'
  BY <1>6, ReceiveResultKeeps
<1>15. ASSUME NEW call \in Calls, InvokeCallback(call) PROVE IInv'
  BY <1>15, InvokeKeeps
<1>7. CASE ServiceDies
  BY <1>7, ServiceDiesKeeps
<1>8. CASE Tick
  BY <1>8, TickKeeps
<1>9. ASSUME TimerThread, UNCHANGED <<stub, callbacks>> PROVE IInv'
  BY <1>9, TakeTaskKeeps, HandleTimeoutKeeps, HandleKeepAliveKeeps DEF TimerThread
<1>10. ASSUME Report, UNCHANGED <<stub, callbacks>> PROVE IInv'
  BY <1>10, OnReportKeeps DEF Report
<1>11. ASSUME OtherRequest, UNCHANGED <<stub, callbacks>> PROVE IInv'
  BY <1>11, ConnectionKeeps
<1>12. ASSUME NEW call \in Calls, Callback(call), UNCHANGED <<stub, callbacks>> PROVE IInv'
  BY <1>12, ConnectionKeeps, OnDialogDisconnectedKeeps, ClientLostKeeps
     DEF Callback, ConnectFails, OnAbilityDisconnectDone
<1>13. ASSUME NEW result \in results, LoseResult(result), UNCHANGED <<stub, callbacks>>
       PROVE  IInv'
  BY <1>13, LoseResultKeeps
<1>14. CASE UNCHANGED vars
  BY <1>14, QuietKeeps DEF vars, serviceVars
<1> QED
  BY <1>1, <1>2, <1>3, <1>4, <1>5, <1>6, <1>7, <1>8, <1>9, <1>10, <1>11, <1>12, <1>13, <1>14,
     <1>15
     DEF Next, ClientStep

\* The inductive invariant holds throughout.
THEOREM InductiveInvariant == Spec => []IInv
<1>1. Init => IInv
  BY InitEstablishes
<1>2. IInv /\ [Next]_vars => IInv'
  BY NextPreserves
<1> QED
  BY <1>1, <1>2, PTL DEF Spec

\* A session always has the timer that ends it, or its handler is about to run:
\* no order of reports, disconnections and timeouts leaves one waiting for ever.
THEOREM SessionHasSafetyNet == Spec => []SafetyNet
<1>1. IInv => SafetyNet
  BY DEF IInv
<1> QED
  BY <1>1, InductiveInvariant, PTL

\* No timer of a session that ended stays posted.
THEOREM TasksEndWithSession == Spec => []NoStrayTask
<1>1. IInv => NoStrayTask
  BY DEF IInv
<1> QED
  BY <1>1, InductiveInvariant, PTL

\* A session has one result, from an event of its own, and an accepted report is it.
THEOREM ResultsAreOwn == Spec => []ResultIsOwn
<1>1. IInv => ResultIsOwn
  BY DEF IInv
<1> QED
  BY <1>1, InductiveInvariant, PTL

\* The callback of a call is invoked once at most.
THEOREM AnswersAreSingle == Spec => []OneAnswer
<1>1. IInv => OneAnswer
  BY DEF IInv
<1> QED
  BY <1>1, InductiveInvariant, PTL

\* Without a failure the service answers before the client's fallback timer.
THEOREM FallbackNeedsFailure == Spec => []FallbackMeansFailure
<1>1. IInv => FallbackMeansFailure
  BY DEF IInv, FallbackHasCause
<1> QED
  BY <1>1, InductiveInvariant, PTL

\* Only a crash and the unload stop the service.
LEMMA UnloadIsUnload ==
    ASSUME IInv, Next, unload = 0, unload' = Off
    PROVE  crashes' = crashes + 1 \/ Unload
<1>1. UnloadDelay # Off /\ 0 # Off /\ Down(unload) = unload - 1
  BY TimesAreOrdered DEF Off, Down
<1>2. ~Tick
  BY DEF Tick, ServiceBusy
<1>3. ServiceDies => crashes' = crashes + 1 \/ Unload
  BY DEF ServiceDies, Crash
<1>4. ASSUME NEW call \in Calls
      PROVE  ~(Send(call) \/ SendFails(call) \/ InvokeCallback(call) \/ ClientDies(call))
  BY <1>1 DEF Send, SendFails, InvokeCallback, ClientDies, serviceVars
<1>5. ASSUME NEW call \in Calls PROVE ~ClientStep(call)
  BY <1>1 DEF ClientStep, Open, OpenDialog, RefuseDialog, Reply, Accepted, Refused,
              FallbackFires, serviceVars
<1>6. \A result \in results : ~ReceiveResult(result) /\ ~LoseResult(result)
  BY <1>1 DEF ReceiveResult, LoseResult
<1>7. ~TimerThread
  BY <1>1 DEF TimerThread, TakeTask, HandleTimeout, HandleKeepAlive
<1>8. ~Report /\ ~OtherRequest
  BY <1>1 DEF Report, OnReport, OtherRequest
<1>9. \A call \in Calls : ~Callback(call)
  BY <1>1 DEF Callback, OnAbilityConnectDone, SendStart, ConnectFails,
              OnAbilityDisconnectDone, OnDialogDisconnected, OnClientDied
<1> QED
  BY <1>2, <1>3, <1>4, <1>5, <1>6, <1>7, <1>8, <1>9 DEF Next

\* The idle unload ends no session as long as the keep-alive task could be posted.
THEOREM SessionsAreSpared == Spec => UnloadSparesSessions
<1>1. IInv /\ [Next]_vars =>
         [unload = 0 /\ unload' = Off => session = NoSession \/ faults + crashes' > 0]_vars
  <2> SUFFICES ASSUME IInv, Next, unload = 0, unload' = Off, session # NoSession
               PROVE  faults + crashes' > 0
    OBVIOUS
  <2>1. faults \in Nat /\ crashes \in Nat
    BY DEF IInv, DialogTypeOK
  <2>2. ~NoFailure
    <3>1. timers[session.id].keepalive \in Left
      BY SessionHasId DEF IInv, DialogTypeOK, Tasks
    <3> QED
      BY <3>1 DEF IInv, KeepAliveComesFirst, Left, Off
  <2>3. crashes' = crashes + 1 \/ crashes' = crashes
    BY UnloadIsUnload DEF Unload
  <2> QED
    BY <2>1, <2>2, <2>3 DEF NoFailure
<1> QED
  BY <1>1, InductiveInvariant, PTL DEF Spec, UnloadSparesSessions

-----------------------------------------------------------------------------
(* UkeyCall is implemented                                                 *)

\* Where the opening thread of a call is once the service has opened its dialog.
OpenedPlaces == {"opened", "good reply", "no reply", "accepted", "failed"}

\* What a call gets belongs to a dialog that was opened.
OnlyOpenedIsAnswered ==
    /\ session # NoSession => stub[session.id].at \in OpenedPlaces
    /\ \A result \in results : stub[result.call].at \in OpenedPlaces
    /\ \A call \in Calls : stub[call].due # "none" => stub[call].at \in OpenedPlaces
    /\ \A answer \in callbacks : stub[answer.call].at \in OpenedPlaces

\* A fallback timer is not due before the opening thread has got its reply, and
\* after an error nothing is delivered that was not before.
FallbackWaits(call) ==
    /\ call \in dead \/ stub[call].at \in {"idle", "refused", "failed"}
          => stub[call].fallback = Off
    /\ stub[call].at \in {"sent", "bad reply"} => stub[call].fallback # 0
    /\ stub[call].at = "failed" => stub[call].delivered

ReplyComesFirst == \A call \in Calls : FallbackWaits(call)

RInv == IInv /\ OnlyOpenedIsAnswered /\ ReplyComesFirst

-----------------------------------------------------------------------------
(* What the refinement needs is invariant                                  *)

\* The delays the proofs below need are not zero, and none is Off.
LEMMA DelaysArePositive == UnloadDelay > 0 /\ Fallback # 0 /\ Off # 0
  BY TimesAreOrdered DEF Off

\* A step that neither opens nor answers, and leaves timers and threads of the
\* clients alone.
LEMMA ServiceStepKeeps ==
    ASSUME RInv, UNCHANGED <<stub, callbacks, dead>>,
           session' # NoSession => session # NoSession /\ session'.id = session.id,
           \A result \in results' : \/ \E old \in results : old.call = result.call
                                    \/ session # NoSession /\ result.call = session.id
    PROVE  OnlyOpenedIsAnswered' /\ ReplyComesFirst'
<1>1. OnlyOpenedIsAnswered'
  BY DEF RInv, OnlyOpenedIsAnswered
<1>2. ReplyComesFirst'
  BY DEF RInv, ReplyComesFirst, FallbackWaits
<1> QED
  BY <1>1, <1>2

\* A step of a thread of one call.
LEMMA ClientStepKeeps ==
    ASSUME RInv, NEW call \in Calls,
           \A other \in Calls \ {call} : stub'[other] = stub[other],
           dead' \in {dead, dead \cup {call}},
           stub[call].at \in OpenedPlaces => stub'[call].at \in OpenedPlaces,
           stub'[call].due \in {stub[call].due, "none"} \/ stub[call].at \in OpenedPlaces,
           FallbackWaits(call)',
           \/ UNCHANGED session
           \/ session' # NoSession /\ session'.id = call /\ stub'[call].at \in OpenedPlaces,
           results' \subseteq results,
           \A answer \in callbacks' :
               answer \in callbacks \/ (answer.call = call /\ stub[call].at \in OpenedPlaces)
    PROVE  OnlyOpenedIsAnswered' /\ ReplyComesFirst'
<1>1. OnlyOpenedIsAnswered'
  <2>1. \A other : stub[other].at \in OpenedPlaces /\ other \in Calls
                       => stub'[other].at \in OpenedPlaces
    OBVIOUS
  <2>2. session # NoSession => session.id \in Calls
    BY SessionHasId DEF RInv, IInv
  <2>3. \A result \in results : result.call \in Calls
    BY DEF RInv, IInv, DialogTypeOK
  <2>4. \A answer \in callbacks : answer.call \in Calls
    BY DEF RInv, IInv, AnsweredIsDelivered
  <2>5. \A other \in Calls : stub'[other].due # "none" => stub'[other].at \in OpenedPlaces
    BY <2>1 DEF RInv, OnlyOpenedIsAnswered
  <2> QED
    BY <2>1, <2>2, <2>3, <2>4, <2>5 DEF RInv, OnlyOpenedIsAnswered
<1>2. ReplyComesFirst'
  BY DEF RInv, ReplyComesFirst, FallbackWaits
<1> QED
  BY <1>1, <1>2

\* What one step has to show.
Implements == Call!Next \/ UNCHANGED Call!vars
Goal == OnlyOpenedIsAnswered' /\ ReplyComesFirst' /\ Implements

\* The calls whose result is on its way to the callback, as UkeyCall sees them.
Due == {call \in Calls : stub[call].due # "none"}

\* Nothing the caller sees changes when all threads are seen where they were.
LEMMA SeenUnchanged ==
    ASSUME \A call \in Calls : /\ Returned(stub'[call].at) = Returned(stub[call].at)
                               /\ stub'[call].due = stub[call].due,
           UNCHANGED <<callbacks, dead>>
    PROVE  Implements
<1>1. Due' = Due /\ UNCHANGED Answered
  BY DEF Due, Answered
<1> QED
  BY <1>1 DEF Implements, Call!vars, Due

\* The request leaves, or the service opens the dialog, refuses it or replies.
LEMMA RequestStep ==
    ASSUME RInv, NEW call \in Calls, Send(call) \/ Open(call) \/ Reply(call)
    PROVE  Goal
<1>0. StubTypeOK /\ stub[call] \in Stubs
  BY DEF RInv, IInv, StubTypeOK
<1>1. CASE Send(call)
  <2> DEFINE new == [stub[call] EXCEPT !.at = "sent", !.fallback = Fallback]
  <2>1. /\ new \in Stubs /\ new.at = "sent" /\ new.fallback = Fallback
        /\ new.due = stub[call].due
    BY <1>0, TimesAreOrdered DEF Stubs, Places, Left
  <2>2. stub' = [stub EXCEPT ![call] = new]
    BY <1>1 DEF Send
  <2> HIDE DEF new
  <2>3. stub'[call] = new /\ \A other \in Calls \ {call} : stub'[other] = stub[other]
    BY <1>0, <2>1, <2>2, StubUpdated
  <2>4. /\ UNCHANGED <<session, results, callbacks, dead>>
        /\ call \notin dead /\ stub[call].at = "idle"
    BY <1>1 DEF Send, StubIs, Alive
  <2>5. FallbackWaits(call)'
    BY <2>1, <2>3, <2>4, DelaysArePositive DEF FallbackWaits
  <2>6. OnlyOpenedIsAnswered' /\ ReplyComesFirst'
    BY <2>1, <2>3, <2>4, <2>5, ClientStepKeeps DEF OpenedPlaces
  <2>7. Implements
    BY <2>1, <2>3, <2>4, SeenUnchanged DEF Returned
  <2> QED
    BY <2>6, <2>7 DEF Goal
<1>2. CASE Open(call) \/ Reply(call)
  <2>1. PICK at \in {"opened", "bad reply", "good reply"} :
           /\ StubGoes(call, at)
           /\ stub[call].at \in {"sent", "opened"}
           /\ at = "opened" => stub[call].at = "sent" /\ OpenDialog(call)
           /\ at = "bad reply" => stub[call].at = "sent" /\ RefuseDialog(call)
           /\ at = "good reply" => stub[call].at = "opened" /\ UNCHANGED serviceVars
           /\ UNCHANGED callbacks
    BY <1>2 DEF Open, Reply
  <2>2. at \in Places
    BY DEF Places
  <2>3. /\ stub'[call].at = at /\ stub'[call].fallback = stub[call].fallback
        /\ stub'[call].due = stub[call].due
        /\ \A other \in Calls \ {call} : stub'[other] = stub[other]
    BY <1>0, <2>1, <2>2, StubGoesTo
  <2>4. /\ UNCHANGED <<results, dead>>
        /\ at # "opened" => UNCHANGED session
    BY <2>1 DEF OpenDialog, RefuseDialog, serviceVars
  <2>5. at = "opened" => session' # NoSession /\ session'.id = call
    <3> SUFFICES ASSUME at = "opened" PROVE session' # NoSession /\ session'.id = call
      OBVIOUS
    <3>1. PICK owner : session' = [id |-> call, owner |-> owner, state |-> "WAITING_REPORT"]
      BY <2>1 DEF OpenDialog
    <3>2. session'.state = "WAITING_REPORT" /\ NoSession.state = "none" /\ session'.id = call
      BY <3>1 DEF NoSession
    <3> QED
      BY <3>2
  <2>6. FallbackWaits(call)'
    BY <2>1, <2>3, <2>4 DEF FallbackWaits, RInv, ReplyComesFirst
  <2>7. OnlyOpenedIsAnswered' /\ ReplyComesFirst'
    BY <2>1, <2>3, <2>4, <2>5, <2>6, ClientStepKeeps DEF OpenedPlaces
  <2>8. Implements
    BY <2>1, <2>3, <2>4, SeenUnchanged DEF Returned
  <2> QED
    BY <2>7, <2>8 DEF Goal
<1> QED
  BY <1>1, <1>2

\* How a step of the opening thread that ends the call leaves its stub.
ReturnsAt(call) ==
    CASE SendFails(call) -> "refused"
      [] Accepted(call) -> "accepted"
      [] OTHER -> IF stub[call].at = "bad reply" THEN "refused" ELSE "failed"

\* The call returns: it is accepted, refused before anything was delivered, or
\* failed after its dialog was opened.
LEMMA ReturnStep ==
    ASSUME RInv, NEW call \in Calls, SendFails(call) \/ Accepted(call) \/ Refused(call)
    PROVE  Goal
<1>0. StubTypeOK /\ stub[call] \in Stubs
  BY DEF RInv, IInv, StubTypeOK
<1>1. /\ UNCHANGED <<session, results, callbacks, dead>> /\ call \notin dead
      /\ SendFails(call) => stub[call].at = "idle"
      /\ Accepted(call) => stub[call].at = "good reply"
      /\ Refused(call) => stub[call].at \in {"bad reply", "no reply"}
  BY DEF SendFails, Accepted, Refused, StubIs, Alive, serviceVars
<1> DEFINE at == ReturnsAt(call)
<1>2. /\ SendFails(call) => at = "refused"
      /\ Accepted(call) => at = "accepted"
      /\ Refused(call) => at = IF stub[call].at = "bad reply" THEN "refused" ELSE "failed"
  BY <1>1 DEF ReturnsAt
<1> HIDE DEF at
<1>3. PICK new \in Stubs :
         /\ stub' = [stub EXCEPT ![call] = new]
         /\ new.at = at /\ new.due = stub[call].due
         /\ at # "accepted" => new.fallback = Off
         /\ at = "failed" => new.delivered
  <2>1. CASE Accepted(call)
    <3> DEFINE new == [stub[call] EXCEPT !.at = "accepted", !.held = TRUE]
    <3>1. new \in Stubs /\ new.at = "accepted" /\ new.due = stub[call].due
      BY <1>0 DEF Stubs, Places
    <3>2. stub' = [stub EXCEPT ![call] = new] /\ at = "accepted"
      BY <1>2, <2>1 DEF Accepted
    <3> QED
      BY <3>1, <3>2
  <2>2. CASE Refused(call)
    <3> DEFINE end == IF stub[call].at = "bad reply" THEN "refused" ELSE "failed"
               new == [stub[call] EXCEPT !.at = end, !.delivered = TRUE, !.fallback = Off]
    <3>1. /\ new \in Stubs /\ new.at = end /\ new.due = stub[call].due
          /\ new.fallback = Off /\ new.delivered
      BY <1>0 DEF Stubs, Places, Left
    <3>2. stub' = [stub EXCEPT ![call] = new] /\ at = end
      BY <1>2, <2>2 DEF Refused
    <3> HIDE DEF new, end
    <3> QED
      BY <3>1, <3>2
  <2>3. CASE SendFails(call)
    <3> DEFINE new == [stub[call] EXCEPT !.at = "refused"]
    <3>1. new \in Stubs /\ new.at = "refused" /\ new.fallback = Off /\ new.due = stub[call].due
      BY <1>0, <1>1, <2>3 DEF Stubs, Places, RInv, ReplyComesFirst, FallbackWaits
    <3>2. stub' = [stub EXCEPT ![call] = new] /\ at = "refused"
      BY <1>2, <2>3 DEF SendFails, StubGoes
    <3> QED
      BY <3>1, <3>2
  <2> QED
    BY <2>1, <2>2, <2>3
<1>4. /\ stub'[call].at = at /\ stub'[call].due = stub[call].due
      /\ at # "accepted" => stub'[call].fallback = Off
      /\ at = "failed" => stub'[call].delivered
      /\ \A other \in Calls \ {call} : stub'[other] = stub[other]
  BY <1>0, <1>3, StubUpdated
<1>5. at \in {"accepted", "refused", "failed"}
  BY <1>2
<1>6. FallbackWaits(call)'
  BY <1>1, <1>4, <1>5 DEF FallbackWaits
<1>7. stub[call].at \in OpenedPlaces => at \in OpenedPlaces
  BY <1>1, <1>2 DEF OpenedPlaces
<1>8. OnlyOpenedIsAnswered' /\ ReplyComesFirst'
  BY <1>1, <1>4, <1>6, <1>7, ClientStepKeeps
<1>9. Implements
  <2> DEFINE returned == [c \in Calls |-> Returned(stub[c].at)]
  <2>1. /\ returned[call] = "no"
        /\ returned' = [returned EXCEPT ![call] = at]
    BY <1>1, <1>4, <1>5 DEF Returned
  <2>2. Due' = Due /\ UNCHANGED <<Answered, dead>>
    BY <1>1, <1>4 DEF Due, Answered
  <2>3. Call!Return(call, at)
    BY <2>1, <2>2 DEF Call!Return, Due
  <2>4. at = "refused" => call \notin Answered \cup Due
    <3>1. at = "refused" => stub[call].at \notin OpenedPlaces
      BY <1>1, <1>2 DEF OpenedPlaces
    <3> QED
      BY <3>1 DEF RInv, OnlyOpenedIsAnswered, Due, Answered
  <2>5. Call!Accept(call) \/ Call!Refuse(call) \/ Call!Fail(call)
    BY <1>5, <2>3, <2>4 DEF Call!Accept, Call!Refuse, Call!Fail, Due
  <2> QED
    BY <2>5 DEF Implements, Call!Next
<1> QED
  BY <1>8, <1>9 DEF Goal

\* A result or the fallback reaches the stub, and its delivery begins.
LEMMA DeliverStep ==
    ASSUME RInv, NEW call \in Calls, NEW code \in Codes \cup {"fallback"},
           Deliver(call, code),
           stub[call].at \in OpenedPlaces, results' \subseteq results,
           UNCHANGED <<session, dead, callbacks>>
    PROVE  Goal
<1>0. StubTypeOK /\ stub[call] \in Stubs
  BY DEF RInv, IInv, StubTypeOK
<1>1. /\ stub'[call].at = stub[call].at
      /\ IF stub[call].delivered THEN UNCHANGED stub ELSE stub'[call].due = code
      /\ stub'[call].delivered
      /\ \A other \in Calls \ {call} : stub'[other] = stub[other]
  BY <1>0, DeliverSets
<1>2. stub'[call].fallback \in {Off, stub[call].fallback}
  BY <1>0 DEF Deliver, StubTypeOK, Stubs
<1>3. FallbackWaits(call)'
  BY <1>1, <1>2 DEF FallbackWaits, OpenedPlaces, RInv, ReplyComesFirst
<1>4. OnlyOpenedIsAnswered' /\ ReplyComesFirst'
  BY <1>1, <1>3, ClientStepKeeps
<1>5. \A c \in Calls : Returned(stub'[c].at) = Returned(stub[c].at)
  BY <1>1
<1>6. Implements
  <2>1. CASE stub[call].delivered
    BY <1>1, <2>1, SeenUnchanged
  <2>2. CASE ~stub[call].delivered
    <3>1. call \notin Answered \cup Due
      BY <2>2 DEF RInv, IInv, AnsweredIsDelivered, Answered, Due
    <3>2. Returned(stub[call].at) \in {"no", "accepted"}
      BY <2>2 DEF Returned, OpenedPlaces, RInv, ReplyComesFirst, FallbackWaits
    <3>3. Due' = Due \cup {call} /\ UNCHANGED Answered
      <4>1. code # "none"
        BY DEF Codes
      <4> QED
        BY <1>1, <2>2, <4>1 DEF Due, Answered
    <3>4. Call!Start(call)
      BY <1>5, <3>1, <3>2, <3>3 DEF Call!Start, Due
    <3> QED
      BY <3>4 DEF Implements, Call!Next
  <2> QED
    BY <2>1, <2>2
<1> QED
  BY <1>4, <1>6 DEF Goal

\* The callback of a call runs.
LEMMA InvokeStep ==
    ASSUME RInv, NEW call \in Calls, InvokeCallback(call)
    PROVE  Goal
<1>0. StubTypeOK /\ stub[call].due # "none" /\ UNCHANGED serviceVars
  BY DEF RInv, IInv, InvokeCallback
<1>1. /\ stub'[call].at = stub[call].at /\ stub'[call].due = "none"
      /\ stub'[call].delivered = stub[call].delivered
      /\ stub'[call].fallback = stub[call].fallback
      /\ \A other \in Calls \ {call} : stub'[other] = stub[other]
  BY <1>0, InvokeSets
<1>2. PICK answer : answer.call = call /\ callbacks' = callbacks \cup {answer}
  BY <1>0, InvokeSets
<1>3. stub[call].at \in OpenedPlaces
  BY <1>0 DEF RInv, OnlyOpenedIsAnswered
<1>4. FallbackWaits(call)'
  BY <1>0, <1>1 DEF RInv, ReplyComesFirst, FallbackWaits, serviceVars
<1>5. OnlyOpenedIsAnswered' /\ ReplyComesFirst'
  BY <1>0, <1>1, <1>2, <1>3, <1>4, ClientStepKeeps DEF serviceVars
<1>6. Implements
  <2>1. Answered' = Answered \cup {call} /\ Due' = Due \ {call} /\ call \in Due
    BY <1>0, <1>1, <1>2 DEF Answered, Due
  <2>2. call \notin Answered
    BY <1>0 DEF RInv, IInv, AnsweredIsDelivered, Answered
  <2>3. \A c \in Calls : Returned(stub'[c].at) = Returned(stub[c].at)
    BY <1>1
  <2>4. Call!Answer(call)
    BY <1>0, <2>1, <2>2, <2>3 DEF Call!Answer, Due, serviceVars
  <2> QED
    BY <2>4 DEF Implements, Call!Next
<1> QED
  BY <1>5, <1>6 DEF Goal

\* A result arrives, or the fallback fires.
LEMMA AnswerStep ==
    ASSUME RInv, \/ \E result \in results : ReceiveResult(result)
                 \/ \E call \in Calls : FallbackFires(call)
    PROVE  Goal
<1>1. ASSUME NEW result \in results, ReceiveResult(result) PROVE Goal
  <2>1. /\ UNCHANGED <<session, dead, callbacks>> /\ results' \subseteq results
        /\ result.call \in Calls /\ result.code \in Codes
        /\ stub[result.call].at \in OpenedPlaces
    BY <1>1 DEF ReceiveResult, RInv, OnlyOpenedIsAnswered, IInv, DialogTypeOK
  <2>2. CASE Alive(result.call)
    <3>1. Deliver(result.call, result.code)
      BY <1>1, <2>2 DEF ReceiveResult
    <3> QED
      BY <2>1, <3>1, DeliverStep
  <2>3. CASE ~Alive(result.call)
    <3>1. UNCHANGED stub
      BY <1>1, <2>3 DEF ReceiveResult
    <3>2. OnlyOpenedIsAnswered' /\ ReplyComesFirst'
      BY <2>1, <3>1, ServiceStepKeeps
    <3>3. Implements
      BY <2>1, <3>1, SeenUnchanged
    <3> QED
      BY <3>2, <3>3 DEF Goal
  <2> QED
    BY <2>2, <2>3
<1>2. ASSUME NEW call \in Calls, FallbackFires(call) PROVE Goal
  <2>1. /\ UNCHANGED <<session, results, dead, callbacks>>
        /\ Deliver(call, "fallback")
        /\ call \notin dead /\ stub[call].fallback = 0
    BY <1>2 DEF FallbackFires, Alive, serviceVars
  <2>2. stub[call].at \in Places
    BY DEF RInv, IInv, StubTypeOK, Stubs
  <2>3. stub[call].at \in OpenedPlaces
    <3>1. FallbackWaits(call)
      BY DEF RInv, ReplyComesFirst
    <3>2. stub[call].at \notin {"idle", "refused", "sent", "bad reply"}
      BY <2>1, <3>1, DelaysArePositive DEF FallbackWaits
    <3> QED
      BY <2>2, <3>2 DEF Places, OpenedPlaces
  <2> QED
    BY <2>1, <2>3, DeliverStep
<1> QED
  BY <1>1, <1>2

\* The process of a caller goes with its timer.
LEMMA ClientDiesStep ==
    ASSUME RInv, NEW call \in Calls, ClientDies(call)
    PROVE  Goal
<1>0. StubTypeOK /\ stub[call] \in Stubs
  BY DEF RInv, IInv, StubTypeOK
<1> DEFINE new == [stub[call] EXCEPT !.fallback = Off]
<1>1. /\ new \in Stubs /\ new.at = stub[call].at /\ new.due = stub[call].due
      /\ new.delivered = stub[call].delivered /\ new.fallback = Off
  BY <1>0 DEF Stubs, Left
<1>2. stub' = [stub EXCEPT ![call] = new]
  BY DEF ClientDies
<1> HIDE DEF new
<1>3. stub'[call] = new /\ \A other \in Calls \ {call} : stub'[other] = stub[other]
  BY <1>0, <1>1, <1>2, StubUpdated
<1>4. UNCHANGED <<session, results, callbacks>> /\ dead' = dead \cup {call}
  BY DEF ClientDies
<1>5. FallbackWaits(call)'
  BY <1>1, <1>3, DelaysArePositive DEF FallbackWaits, RInv, ReplyComesFirst
<1>6. OnlyOpenedIsAnswered' /\ ReplyComesFirst'
  BY <1>1, <1>3, <1>4, <1>5, ClientStepKeeps
<1>7. Call!Lose(call)
  <2>1. Due' = Due /\ UNCHANGED Answered
    BY <1>1, <1>3, <1>4 DEF Due, Answered
  <2> QED
    BY <1>1, <1>3, <1>4, <2>1 DEF Call!Lose, Due
<1> QED
  BY <1>6, <1>7 DEF Goal, Implements, Call!Next

\* The service dies: a call that is in it will return an error, and nothing is
\* delivered by that.
LEMMA ServiceDiesStep ==
    ASSUME RInv, ServiceDies
    PROVE  Goal
<1>1. session' = NoSession /\ UNCHANGED <<results, dead, callbacks>>
  BY DEF ServiceDies, Unload, Crash, Die
<1>2. ASSUME NEW call \in Calls
      PROVE  /\ stub'[call].at = AfterDeath(stub[call].at)
             /\ stub'[call].due = stub[call].due
             /\ stub'[call].delivered = stub[call].delivered
             /\ stub'[call].fallback = stub[call].fallback
  <2>1. stub[call] \in Stubs
    BY DEF RInv, IInv, StubTypeOK
  <2>2. stub'[call] = [stub[call] EXCEPT !.at = AfterDeath(stub[call].at)]
    BY DEF ServiceDies
  <2> QED
    BY <2>1, <2>2 DEF Stubs
<1>3. \A call \in Calls : stub[call].at \in OpenedPlaces => stub'[call].at \in OpenedPlaces
  BY <1>2 DEF OpenedPlaces, AfterDeath
<1>4. OnlyOpenedIsAnswered'
  <2>1. /\ \A result \in results : result.call \in Calls
        /\ \A answer \in callbacks : answer.call \in Calls
    BY DEF RInv, IInv, DialogTypeOK, AnsweredIsDelivered
  <2> QED
    BY <1>1, <1>2, <1>3, <2>1 DEF RInv, OnlyOpenedIsAnswered
<1>5. ReplyComesFirst'
  BY <1>1, <1>2 DEF RInv, ReplyComesFirst, FallbackWaits, AfterDeath
<1>6. \A call \in Calls : Returned(stub'[call].at) = Returned(stub[call].at)
  BY <1>2 DEF Returned, AfterDeath
<1>7. Implements
  BY <1>1, <1>2, <1>6, SeenUnchanged
<1> QED
  BY <1>4, <1>5, <1>7 DEF Goal

\* Time passes only where no request is in the service and no timer is due.
LEMMA TickStep ==
    ASSUME RInv, Tick
    PROVE  Goal
<1>0. ASSUME NEW call \in Calls
      PROVE  /\ stub[call].at # "sent"
             /\ ~(call \notin dead /\ stub[call].at = "bad reply")
  BY DEF Tick, ClientBusy, Alive
<1>1. /\ UNCHANGED <<session, results, dead, callbacks>>
      /\ \A call \in Calls : stub[call].fallback # 0
  BY DEF Tick, ServiceTick, ClientBusy
<1>2. \A call \in Calls : /\ stub'[call].at = stub[call].at
                         /\ stub'[call].due = stub[call].due
                         /\ stub'[call].delivered = stub[call].delivered
                         /\ stub'[call].fallback = Down(stub[call].fallback)
  BY DEF Tick, RInv, IInv, StubTypeOK, Stubs
<1>3. \A call \in Calls : stub[call].fallback = Off => stub'[call].fallback = Off
  BY <1>2 DEF Down
<1>4. ReplyComesFirst'
  <2> SUFFICES ASSUME NEW call \in Calls PROVE FallbackWaits(call)'
    BY DEF ReplyComesFirst
  <2>1. FallbackWaits(call)
    BY DEF RInv, ReplyComesFirst
  <2>2. stub'[call].at \in {"sent", "bad reply"} => stub'[call].fallback = Off
    BY <1>0, <1>2, <1>3, <2>1 DEF FallbackWaits
  <2> QED
    BY <1>1, <1>2, <1>3, <2>1, <2>2, DelaysArePositive DEF FallbackWaits
<1>5. OnlyOpenedIsAnswered'
  <2>1. session # NoSession => session.id \in Calls
    BY SessionHasId DEF RInv, IInv
  <2>2. /\ \A result \in results : result.call \in Calls
        /\ \A answer \in callbacks : answer.call \in Calls
    BY DEF RInv, IInv, DialogTypeOK, AnsweredIsDelivered
  <2>3. /\ UNCHANGED <<session, results, callbacks>>
        /\ \A call \in Calls : stub'[call].at = stub[call].at /\ stub'[call].due = stub[call].due
    BY <1>1, <1>2
  <2> QED
    BY <2>1, <2>2, <2>3 DEF RInv, OnlyOpenedIsAnswered
<1>6. Implements
  BY <1>1, <1>2, SeenUnchanged
<1> QED
  BY <1>4, <1>5, <1>6 DEF Goal

\* Everything else happens inside the service, or changes a message.
LEMMA ServiceStep ==
    ASSUME RInv, UNCHANGED <<stub, callbacks>>,
           \/ TimerThread \/ Report \/ OtherRequest
           \/ \E call \in Calls : Callback(call)
           \/ \E result \in results : LoseResult(result)
    PROVE  Goal
<1> DEFINE Quiet ==
        /\ UNCHANGED dead
        /\ session' # NoSession => session # NoSession /\ session'.id = session.id
        /\ \A result \in results' : \/ \E old \in results : old.call = result.call
                                    \/ session # NoSession /\ result.call = session.id
<1>1. ASSUME NEW call \in Calls, NEW task \in Tasks,
             TakeTask(call, task) \/ HandleTimeout(call, task)
      PROVE  Quiet
  <2>1. CASE TakeTask(call, task)
    BY <2>1 DEF TakeTask
  <2>2. CASE HandleTimeout(call, task)
    BY <2>2 DEF HandleTimeout, TimesOut, Finish, EndSession, IsSession
  <2> QED
    BY <1>1, <2>1, <2>2
<1>2. ASSUME NEW call \in Calls, HandleKeepAlive(call) PROVE Quiet
  BY <1>2 DEF HandleKeepAlive
<1>3. ASSUME Report PROVE Quiet
  BY <1>3 DEF Report, OnReport, MayReport, IsSession, Finish, EndSession
<1>4. ASSUME OtherRequest PROVE Quiet
  BY <1>4 DEF OtherRequest
<1>5. ASSUME NEW call \in Calls, NEW at, OnDialogDisconnected(call, at) PROVE Quiet
  <2>1. CASE IsSession(call) /\ session.state = "WAITING_REPORT"
    <3>1. CASE GraceTimerFails(call, at)
      BY <1>5, <2>1, <3>1 DEF OnDialogDisconnected, GraceTimerFails, IsSession, Finish,
                              EndSession
    <3>2. CASE ~GraceTimerFails(call, at)
      BY <1>5, <2>1, <3>2 DEF OnDialogDisconnected, IsSession, RInv, IInv, DialogTypeOK,
                              Sessions
    <3> QED
      BY <3>1, <3>2
  <2>2. CASE ~(IsSession(call) /\ session.state = "WAITING_REPORT")
    BY <1>5, <2>2 DEF OnDialogDisconnected
  <2> QED
    BY <2>1, <2>2
<1>6. ASSUME NEW call \in Calls, Callback(call) PROVE Quiet
  <2>1. CASE OnAbilityConnectDone(call) \/ SendStart(call)
    BY <2>1 DEF OnAbilityConnectDone, SendStart
  <2>2. CASE OnClientDied(call)
    BY <2>2 DEF OnClientDied, EndSession
  <2> QED
    BY <1>5, <1>6, <2>1, <2>2 DEF Callback, ConnectFails, OnAbilityDisconnectDone
<1>7. ASSUME NEW result \in results, LoseResult(result) PROVE Quiet
  <2>1. result \in [call : Calls, code : Codes, late : BOOLEAN]
    BY DEF RInv, IInv, DialogTypeOK
  <2>2. [result EXCEPT !.late = TRUE].call = result.call
    BY <2>1
  <2> QED
    BY <1>7, <2>2 DEF LoseResult
<1>8. Quiet
  BY <1>1, <1>2, <1>3, <1>4, <1>6, <1>7 DEF TimerThread
<1>9. OnlyOpenedIsAnswered' /\ ReplyComesFirst'
  BY <1>8, ServiceStepKeeps
<1>10. Implements
  BY <1>8, SeenUnchanged
<1> QED
  BY <1>9, <1>10 DEF Goal

\* Every step keeps what the refinement needs, and is one of UkeyCall or none.
LEMMA NextImplements == RInv /\ [Next]_vars => RInv' /\ Implements
<1> SUFFICES ASSUME RInv, [Next]_vars PROVE RInv' /\ Implements
  OBVIOUS
<1>1. IInv'
  BY NextPreserves DEF RInv
<1>2. ASSUME NEW call \in Calls, Send(call) \/ Open(call) \/ Reply(call) PROVE Goal
  BY <1>2, RequestStep
<1>3. ASSUME NEW call \in Calls, SendFails(call) \/ Accepted(call) \/ Refused(call) PROVE Goal
  BY <1>3, ReturnStep
<1>4. ASSUME NEW call \in Calls, FallbackFires(call) PROVE Goal
  BY <1>4, AnswerStep
<1>5. ASSUME NEW result \in results, ReceiveResult(result) PROVE Goal
  BY <1>5, AnswerStep
<1>6. ASSUME NEW call \in Calls, ClientDies(call) PROVE Goal
  BY <1>6, ClientDiesStep
<1>7. ServiceDies => Goal
  BY ServiceDiesStep
<1>8. Tick => Goal
  BY TickStep
<1>9. /\ UNCHANGED <<stub, callbacks>>
      /\ \/ TimerThread \/ Report \/ OtherRequest
         \/ \E call \in Calls : Callback(call)
         \/ \E result \in results : LoseResult(result)
      => Goal
  BY ServiceStep
<1>10. UNCHANGED vars => Goal
  <2> SUFFICES ASSUME UNCHANGED vars PROVE Goal
    OBVIOUS
  <2>1. UNCHANGED <<stub, callbacks, dead, session, results>>
    BY DEF vars, serviceVars
  <2>2. OnlyOpenedIsAnswered' /\ ReplyComesFirst'
    BY <2>1, ServiceStepKeeps
  <2>3. Implements
    BY <2>1, SeenUnchanged
  <2> QED
    BY <2>2, <2>3 DEF Goal
<1>12. ASSUME NEW call \in Calls, InvokeCallback(call) PROVE Goal
  BY <1>12, InvokeStep
<1>11. Goal
  BY <1>2, <1>3, <1>4, <1>5, <1>6, <1>7, <1>8, <1>9, <1>10, <1>12 DEF Next, ClientStep
<1> QED
  BY <1>1, <1>11 DEF RInv, Goal

\* No call is open before the first step, and none has returned.
LEMMA InitImplements == Init => RInv /\ Call!Init
<1> SUFFICES ASSUME Init PROVE RInv /\ Call!Init
  OBVIOUS
<1>1. IInv
  BY InitEstablishes
<1>2. /\ session = NoSession /\ results = {} /\ callbacks = {} /\ dead = {}
      /\ \A call \in Calls :
            stub[call].at = "idle" /\ stub[call].fallback = Off /\ stub[call].due = "none"
  BY DEF Init, ServiceInit, NewStub
<1>3. OnlyOpenedIsAnswered
  BY <1>2 DEF OnlyOpenedIsAnswered
<1>4. ReplyComesFirst
  BY <1>2 DEF ReplyComesFirst, FallbackWaits
<1>5. Call!Init
  BY <1>2 DEF Call!Init, Returned, Answered
<1> QED
  BY <1>1, <1>3, <1>4, <1>5 DEF RInv

\* In every order of reports, timeouts, lost connections, dying clients and
\* deaths of the service each call does what UkeyCall says, the safety part of
\* ImplementsCall: it is refused, and its callback never invoked; or accepted,
\* and invoked at most once; or it failed with the service, and is then invoked
\* only if its result had come before the error.
THEOREM CallsAreKept == Spec => Call!Init /\ [][Call!Next]_(Call!vars)
<1>1. Init => RInv /\ Call!Init
  BY InitImplements
<1>2. RInv /\ [Next]_vars => RInv' /\ [Call!Next]_(Call!vars)
  BY NextImplements DEF Implements
<1> QED
  BY <1>1, <1>2, PTL DEF Spec
=============================================================================
