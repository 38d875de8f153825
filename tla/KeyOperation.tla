---------------------------- MODULE KeyOperation ----------------------------
(***************************************************************************)
(* Sign/verify operations as the IPC threads of the service execute them:  *)
(* CmKeyOpInit and CmKeyOpProcess of cert_manager_key_operation.c over the *)
(* session table of SessionMgr.  The table's lock is released between the  *)
(* steps of a call: between HksInit and CmCreateSession, between           *)
(* CmQuerySession and the HUKS call, and between the HUKS call and         *)
(* CmDeleteSession.  Other threads, evictions and removal events run in    *)
(* those gaps.                                                             *)
(***************************************************************************)
EXTENDS SessionMgr

CONSTANTS
    Threads,              \* IPC threads
    AbortableFlags,       \* values CmCreateSession gets ({TRUE} from CmKeyOpInit)
    MaxFaults             \* bound on failed allocations and calls of HUKS

ASSUME KeyOperationAssumption ==
    AbortableFlags \subseteq BOOLEAN /\ MaxFaults \in Nat

VARIABLES
    thread,               \* where each thread stands in its call
    faults,               \* creations refused, calls and parameter sets that failed
    signatures            \* handles whose FINISH produced a signature (history)

vars == <<sessionVars, thread, faults, signatures>>

Idle == [pc |-> "idle"]
OpenedCalls == [pc : {"opened"}, caller : Callers, uri : Uris, handle : Handles]
CheckedCalls == [pc : {"checked"}, caller : Callers, handle : Handles]
EndingCalls == [pc : {"ending"}, caller : Callers, handle : Handles]

\* Thread t moves to the given point of its call.
Goto(t, call) == thread' = [thread EXCEPT ![t] = call]

\* As many failures happen as there are operations left open.
Fail(left) ==
    /\ left = {} \/ faults + Cardinality(left) <= MaxFaults
    /\ faults' = faults + Cardinality(left)

-----------------------------------------------------------------------------
(* CmKeyOpInit.  An HksInit that fails returns with nothing changed.       *)

InitOpen(t) ==
    /\ thread[t].pc = "idle"
    /\ \E handle \in Handles, caller \in Callers, uri \in Uris :
          /\ HksInit(handle, caller, uri)
          /\ Goto(t, [pc |-> "opened", caller |-> caller, uri |-> uri,
                      handle |-> handle])
    /\ UNCHANGED <<faults, signatures>>

InitCreate(t) ==
    /\ thread[t].pc = "opened"
    /\ \E abortable \in AbortableFlags :
          AppendSession(thread[t].handle, thread[t].caller, thread[t].uri, abortable)
    /\ Goto(t, Idle)
    /\ UNCHANGED <<faults, signatures>>

InitCreateEvict(t) ==
    /\ thread[t].pc = "opened"
    /\ \E abortable \in AbortableFlags, left \in SUBSET liveOps :
          /\ EvictAndAppendSession(thread[t].handle, thread[t].caller, thread[t].uri,
                                   abortable, left)
          /\ Fail(left)
    /\ Goto(t, Idle)
    /\ UNCHANGED signatures

\* CmCreateSession fails (out of memory, or no session can be evicted): the
\* error is returned and the HUKS operation stays open.
InitCreateFails(t) ==
    /\ thread[t].pc = "opened"
    /\ faults < MaxFaults
    /\ faults' = faults + 1
    /\ Goto(t, Idle)
    /\ UNCHANGED <<sessionVars, signatures>>

InitReachesLimit(t) ==
    /\ thread[t].pc = "opened"
    /\ SessionReachedLimit
    /\ faults' = faults + 1
    /\ Goto(t, Idle)
    /\ UNCHANGED <<sessionVars, signatures>>

-----------------------------------------------------------------------------
(* CmKeyOpProcess.  A handle CmQuerySession does not find returns at once  *)
(* (NOT_EXIST, or CM_SUCCESS for an abort) with nothing changed.  Which of  *)
(* update, finish and abort the call is shows in the HUKS call it makes.   *)

ProcessQuery(t) ==
    /\ thread[t].pc = "idle"
    /\ \E caller \in Callers, handle \in Handles :
          /\ HasSession(caller, handle)
          /\ Goto(t, [pc |-> "checked", caller |-> caller, handle |-> handle])
    /\ UNCHANGED <<sessionVars, faults, signatures>>

\* ConstructParamSet fails: the session is dropped without an HksAbort.
ProcessParamFails(t) ==
    /\ thread[t].pc = "checked"
    /\ faults < MaxFaults
    /\ CmDeleteSession(thread[t].handle)
    /\ faults' = faults + 1
    /\ Goto(t, Idle)
    /\ UNCHANGED <<liveOps, signatures>>

UpdateSucceeds(t) ==
    /\ thread[t].pc = "checked"
    /\ thread[t].handle \in liveOps
    /\ Goto(t, Idle)
    /\ UNCHANGED <<sessionVars, faults, signatures>>

FinishSucceeds(t) ==
    /\ thread[t].pc = "checked"
    /\ thread[t].handle \in liveOps
    /\ signatures' = signatures \cup {thread[t].handle}
    /\ liveOps' = liveOps \ {thread[t].handle}
    /\ Goto(t, [pc |-> "ending", caller |-> thread[t].caller,
                handle |-> thread[t].handle])
    /\ UNCHANGED <<sessionList, sessionCount, arrivals, opener, faults>>

\* HksAbort, HksUpdate or HksFinish fails and the operation stays open in HUKS;
\* the session is deleted all the same.
OperationStays(t) ==
    /\ thread[t].pc = "checked"
    /\ faults < MaxFaults
    /\ faults' = faults + 1
    /\ Goto(t, [pc |-> "ending", caller |-> thread[t].caller,
                handle |-> thread[t].handle])
    /\ UNCHANGED <<sessionVars, signatures>>

\* HksAbort, or an HksUpdate or HksFinish that fails: the operation is gone
\* (or was already, aborted by another thread since CmQuerySession).
OperationEnds(t) ==
    /\ thread[t].pc = "checked"
    /\ liveOps' = liveOps \ {thread[t].handle}
    /\ Goto(t, [pc |-> "ending", caller |-> thread[t].caller,
                handle |-> thread[t].handle])
    /\ UNCHANGED <<sessionList, sessionCount, arrivals, opener, faults, signatures>>

\* Seeded fault: the session is not deleted after the HUKS call.
EndSession_Forgets(t) ==
    /\ thread[t].pc = "ending"
    /\ Goto(t, Idle)
    /\ UNCHANGED <<sessionVars, faults, signatures>>

\* The CmDeleteSession after the HUKS call, and the return to the client.
EndSession(t) ==
    /\ thread[t].pc = "ending"
    /\ CmDeleteSession(thread[t].handle)
    /\ Goto(t, Idle)
    /\ UNCHANGED <<liveOps, faults, signatures>>

-----------------------------------------------------------------------------
(* Sessions removed by the rest of the service: a user or an application   *)
(* that goes away, a credential that is deleted, a grant that is revoked.  *)

RemoveSessions ==
    /\ \E type \in DeleteTypes, caller \in Callers, uri \in Uris,
          left \in SUBSET liveOps :
          /\ CmDeleteSessionByNodeInfo(type, caller, uri, left)
          /\ Fail(left)
    /\ UNCHANGED <<thread, signatures>>

-----------------------------------------------------------------------------
Init ==
    /\ SessionInit
    /\ thread = [t \in Threads |-> Idle]
    /\ faults = 0
    /\ signatures = {}

ThreadStep(t) ==
    \/ InitOpen(t)
    \/ InitCreate(t)
    \/ InitCreateEvict(t)
    \/ InitCreateFails(t)
    \/ InitReachesLimit(t)
    \/ ProcessQuery(t)
    \/ ProcessParamFails(t)
    \/ UpdateSucceeds(t)
    \/ FinishSucceeds(t)
    \/ OperationEnds(t)
    \/ OperationStays(t)
    \/ EndSession(t)

Next == (\E t \in Threads : ThreadStep(t)) \/ RemoveSessions

Spec == Init /\ [][Next]_vars

-----------------------------------------------------------------------------
(* Properties                                                              *)

InTable(handle) == \E node \in sessionList : node.handle = handle

Opening(handle) ==
    \E t \in Threads : thread[t].pc = "opened" /\ thread[t].handle = handle

ThreadTypeOK ==
    /\ thread \in [Threads -> {Idle} \cup OpenedCalls \cup CheckedCalls
                                     \cup EndingCalls]
    /\ faults \in Nat
    /\ signatures \subseteq DOMAIN opener

\* Every variable holds a value of its type.
TypeOK == SessionTypeOK /\ ThreadTypeOK

\* g_sessionCount is a second copy of the list's length, updated at four
\* places; it always agrees with the list and stays within the limit.
CountIsTableSize ==
    /\ sessionCount = Cardinality(sessionList)
    /\ sessionCount <= MaxOperationsCount

\* A handle is listed once, under the caller and key that opened it, so a
\* lookup by handle alone (CmDeleteSession) cannot hit another session.
TableIsByHandle ==
    /\ \A m, n \in sessionList : m.handle = n.handle => m = n
    /\ \A n \in sessionList :
          /\ n.handle \in DOMAIN opener
          /\ opener[n.handle] = [caller |-> n.caller, uri |-> n.uri]

\* No thread drives a HUKS operation for anyone but the caller that opened it,
\* even though the lock is dropped between the lookup and the HUKS call.
NoForeignUse ==
    \A t \in Threads :
        thread[t].pc # "idle" =>
            /\ thread[t].handle \in DOMAIN opener
            /\ thread[t].caller = opener[thread[t].handle].caller

\* Between HksInit and CmCreateSession a handle is known to one thread only:
\* it is usable, not listed yet, and no other call names it.
OpenedIsPrivate ==
    \A t \in Threads :
        thread[t].pc = "opened" =>
            /\ thread[t].handle \in liveOps
            /\ ~InTable(thread[t].handle)
            /\ opener[thread[t].handle].uri = thread[t].uri
            /\ \A u \in Threads \ {t} :
                  thread[u].pc # "idle" => thread[u].handle # thread[t].handle

\* A listed session whose HUKS operation is gone is one that some thread is
\* about to unlist: no removal path leaves a dead entry occupying a slot.
StaleEntryIsEnding ==
    \A n \in sessionList :
        n.handle \notin liveOps =>
            \E t \in Threads : thread[t].pc = "ending" /\ thread[t].handle = n.handle

\* HUKS operations that nobody can reach any more (not listed, and in no
\* CmKeyOpInit call): each was left behind by a failure of its own, a creation,
\* a parameter set or a call of HUKS; no interleaving of threads, evictions and
\* removals loses an operation otherwise, and a removal of several sessions
\* loses those only whose own HksAbort failed.
Unreachable == {h \in liveOps : ~InTable(h) /\ ~Opening(h)}
LeaksAreFaults == Cardinality(Unreachable) <= faults

\* The session that makes room is the oldest abortable one of a full table: a
\* caller keeps its session until MaxOperationsCount others are there.
EvictsOldest ==
    [][\A n \in sessionList \ sessionList' :
          sessionList' \ sessionList # {} =>
              /\ n.abortable
              /\ Cardinality(sessionList) = MaxOperationsCount
              /\ \A m \in sessionList : m.abortable => n.ticket <= m.ticket]_vars

-----------------------------------------------------------------------------
(* Refinement of the abstract life cycle.                                  *)

PhaseOf(handle) ==
    IF handle \notin DOMAIN opener THEN "none"
    ELSE IF handle \notin liveOps THEN "closed"
    ELSE IF InTable(handle) THEN "usable"
    ELSE IF Opening(handle) THEN "opening"
    ELSE "lost"

Lifecycle == INSTANCE KeyOpLifecycle WITH
                 Capacity <- MaxOperationsCount,
                 phase <- [h \in Handles |-> PhaseOf(h)],
                 holder <- opener,
                 losses <- faults,
                 signed <- signatures

\* Threads, lock gaps and table together implement the life cycle a client
\* relies on: closed operations stay closed, a removal event leaves no session
\* it concerns usable, and what it could not abort is accounted for.
ImplementsLifecycle == Lifecycle!LifecycleSpec
=============================================================================
