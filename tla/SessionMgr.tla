----------------------------- MODULE SessionMgr -----------------------------
(***************************************************************************)
(* The table of sign/verify sessions kept by cert_manager_session_mgr.c,   *)
(* and the part of the HUKS key service it drives.                         *)
(*                                                                         *)
(* g_sessionList is a linked list that only grows at its tail, so it is    *)
(* kept as a set of nodes that carry the ticket of their arrival; list     *)
(* order is ticket order.  Every function of the file that touches the     *)
(* list holds g_lock from its first access to its last, the HksAbort calls *)
(* included, so each is one atomic step.                                   *)
(*                                                                         *)
(* HUKS is external: HksInit returns a handle that was never returned      *)
(* before, an operation that failed, finished or was aborted is gone.      *)
(***************************************************************************)
EXTENDS Integers, FiniteSets

CONSTANTS
    UserIds, Uids,        \* the system users and the application uids
    Uris,                 \* key URIs of credentials
    Handles,              \* handles HUKS can return
    MaxOperationsCount    \* MAX_OPERATIONS_COUNT (15 in the code)

ASSUME MaxOperationsAssumption == MaxOperationsCount \in Nat \ {0}

VARIABLES
    sessionList,          \* g_sessionList
    sessionCount,         \* g_sessionCount, maintained apart from the list
    arrivals,             \* nodes ever appended: the ticket of the next one
    opener,               \* handle |-> who opened it on which key (history)
    liveOps               \* HUKS: the operations that can still be used

sessionVars == <<sessionList, sessionCount, arrivals, opener, liveOps>>

Callers == [userId : UserIds, uid : Uids]

SessionNodes == [handle : Handles, caller : Callers, uri : Uris,
                 abortable : BOOLEAN, ticket : Nat]

DeleteTypes == {"BY_USERID", "BY_UID", "BY_URI", "BY_ALL"}

-----------------------------------------------------------------------------
(* Lookups                                                                 *)

\* Seeded faults, one above the definition it replaces: the lookup ignores the
\* caller, or finds whatever HUKS ever opened.
HasSession_HandleOnly(caller, handle) ==
    \E node \in sessionList : node.handle = handle

\* CmQuerySession: the handle must be listed under the very same caller.
HasSession(caller, handle) ==
    \E node \in sessionList : node.handle = handle /\ node.caller = caller

IsNeedDelete(type, caller, uri, node) ==
    \/ type = "BY_USERID" /\ node.caller.userId = caller.userId
    \/ type = "BY_UID" /\ node.caller = caller
    \/ type = "BY_URI" /\ node.uri = uri
    \/ type = "BY_ALL" /\ node.caller = caller /\ node.uri = uri

\* Seeded fault: the search runs from the tail.
FirstAbortable_FromTail ==
    {node \in sessionList :
        \A other \in sessionList : other.ticket <= node.ticket}

\* The head-most abortable node, as a set of at most one element.
FirstAbortable ==
    {node \in sessionList :
        /\ node.abortable
        /\ \A other \in sessionList :
              other.abortable => node.ticket <= other.ticket}

HandlesOf(nodes) == {node.handle : node \in nodes}

-----------------------------------------------------------------------------
(* Operations                                                              *)

\* Seeded fault: the key URI is not copied into the node.
NewNode_NoUri(handle, caller, uri, abortable) ==
    [handle |-> handle, caller |-> caller, uri |-> CHOOSE u \in Uris : TRUE,
     abortable |-> abortable, ticket |-> arrivals]

\* ConstructSessionInfo and ConstructHandle: deep copies of their arguments.
NewNode(handle, caller, uri, abortable) ==
    [handle |-> handle, caller |-> caller, uri |-> uri,
     abortable |-> abortable, ticket |-> arrivals]

\* Seeded faults: the counter is forgotten, or decremented by the caller too.
RemoveNodes_KeepsCount(nodes) ==
    sessionList' = sessionList \ nodes /\ UNCHANGED sessionCount
RemoveNodes_CountsTwice(nodes) ==
    /\ sessionList' = sessionList \ nodes
    /\ sessionCount' = sessionCount - 2 * Cardinality(nodes)

\* Removing nodes decrements the counter once per node.
RemoveNodes(nodes) ==
    /\ sessionList' = sessionList \ nodes
    /\ sessionCount' = sessionCount - Cardinality(nodes)

\* Seeded fault: nothing is aborted in HUKS.
DeleteHuksInitInfo_NotAborted(nodes, left) ==
    left \subseteq HandlesOf(nodes) \cap liveOps /\ UNCHANGED liveOps

\* DeleteHuksInitInfo of each node: those left stay open in HUKS, because the
\* parameter set for HksAbort could not be made, or HksAbort failed.  The node
\* is removed all the same.
DeleteHuksInitInfo(nodes, left) ==
    /\ left \subseteq HandlesOf(nodes) \cap liveOps
    /\ liveOps' = liveOps \ (HandlesOf(nodes) \ left)

\* AddSessionNode when the table is not full.
AppendSession(handle, caller, uri, abortable) ==
    /\ sessionCount < MaxOperationsCount
    /\ sessionList' = sessionList \cup {NewNode(handle, caller, uri, abortable)}
    /\ sessionCount' = sessionCount + 1
    /\ arrivals' = arrivals + 1
    /\ UNCHANGED <<opener, liveOps>>

\* AddSessionNode when the table is full: the oldest abortable session is
\* aborted in HUKS, or left there, and makes room.
EvictAndAppendSession(handle, caller, uri, abortable, left) ==
    /\ sessionCount >= MaxOperationsCount
    /\ \E oldest \in FirstAbortable :
          /\ sessionList' = (sessionList \ {oldest}) \cup
                                {NewNode(handle, caller, uri, abortable)}
          /\ DeleteHuksInitInfo({oldest}, left)
    /\ sessionCount' = (sessionCount - 1) + 1
    /\ arrivals' = arrivals + 1
    /\ UNCHANGED opener

\* CmCreateSession that fails: a failed allocation, or CMR_ERROR_SESSION_
\* REACHED_LIMIT when the table is full of sessions that cannot be aborted.
SessionReachedLimit ==
    sessionCount >= MaxOperationsCount /\ FirstAbortable = {}

\* CmDeleteSession: by handle alone, nothing is aborted in HUKS; a handle that
\* is not listed any more is ignored.
CmDeleteSession(handle) ==
    /\ RemoveNodes({node \in sessionList : node.handle = handle})
    /\ UNCHANGED <<arrivals, opener>>

\* CmDeleteSessionByNodeInfo: every matching session is aborted and removed.
CmDeleteSessionByNodeInfo(type, caller, uri, left) ==
    LET matching == {node \in sessionList : IsNeedDelete(type, caller, uri, node)}
    IN  /\ RemoveNodes(matching)
        /\ DeleteHuksInitInfo(matching, left)
        /\ UNCHANGED <<arrivals, opener>>

\* HksInit of the key service: a fresh handle, remembered with its opener.
HksInit(handle, caller, uri) ==
    /\ handle \notin DOMAIN opener
    /\ opener' = [h \in DOMAIN opener \cup {handle} |->
                    IF h = handle THEN [caller |-> caller, uri |-> uri]
                                  ELSE opener[h]]
    /\ liveOps' = liveOps \cup {handle}
    /\ UNCHANGED <<sessionList, sessionCount, arrivals>>

SessionInit ==
    /\ sessionList = {}
    /\ sessionCount = 0
    /\ arrivals = 0
    /\ opener = [h \in {} |-> 0]
    /\ liveOps = {}

SessionTypeOK ==
    /\ sessionList \subseteq SessionNodes
    /\ sessionCount \in Nat
    /\ arrivals \in Nat
    /\ DOMAIN opener \subseteq Handles
    /\ \A h \in DOMAIN opener : opener[h] \in [caller : Callers, uri : Uris]
    /\ liveOps \subseteq DOMAIN opener
=============================================================================
