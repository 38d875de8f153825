------------------------- MODULE KeyOperationProofs -------------------------
(***************************************************************************)
(* Proofs about KeyOperation: its type invariant, the agreement of the     *)
(* table's counter with the table, the ownership and removal invariants,   *)
(* that it implements KeyOpLifecycle, and what follows for leaks and       *)
(* evictions, for any number of threads, callers, keys and handles.        *)
(***************************************************************************)
EXTENDS KeyOperation, FiniteSetTheorems, TLAPS

\* The inductive invariant: what the runs check, the finiteness of the table,
\* and the privacy of a handle that is not registered yet.
IInv ==
    /\ TypeOK
    /\ IsFiniteSet(sessionList)
    /\ CountIsTableSize
    /\ TableIsByHandle
    /\ NoForeignUse
    /\ OpenedIsPrivate
    /\ StaleEntryIsEnding

-----------------------------------------------------------------------------
(* The counter and the table                                               *)

\* Removing nodes of a finite table keeps the counter equal to its size.
LEMMA RemoveNodesKeepsCount ==
    ASSUME IsFiniteSet(sessionList), CountIsTableSize,
           NEW nodes \in SUBSET sessionList, RemoveNodes(nodes)
    PROVE  IsFiniteSet(sessionList') /\ CountIsTableSize'
<1>1. IsFiniteSet(nodes) /\ Cardinality(nodes) \in Nat
  BY FS_Subset, FS_CardinalityType
<1>2. /\ IsFiniteSet(sessionList \ nodes)
      /\ Cardinality(sessionList \ nodes)
            = Cardinality(sessionList) - Cardinality(nodes)
  <2>1. sessionList \cap nodes = nodes
    OBVIOUS
  <2> QED
    BY <2>1, FS_Difference
<1>3. Cardinality(sessionList) \in Nat
  BY FS_CardinalityType
<1> QED
  BY <1>1, <1>2, <1>3, MaxOperationsAssumption DEF RemoveNodes, CountIsTableSize

\* Appending a node that was not listed keeps the counter equal to the size.
LEMMA AppendKeepsCount ==
    ASSUME NEW handle, NEW caller, NEW uri, NEW abortable,
           IsFiniteSet(sessionList), CountIsTableSize, ~InTable(handle),
           AppendSession(handle, caller, uri, abortable)
    PROVE  IsFiniteSet(sessionList') /\ CountIsTableSize'
<1> DEFINE node == [handle |-> handle, caller |-> caller, uri |-> uri,
                    abortable |-> abortable, ticket |-> arrivals]
<1>1. sessionList' = sessionList \cup {node}
  BY DEF AppendSession, NewNode
<1>2. node \notin sessionList
  <2>1. node.handle = handle
    OBVIOUS
  <2> QED
    BY <2>1 DEF InTable
<1>3. /\ IsFiniteSet(sessionList \cup {node})
      /\ Cardinality(sessionList \cup {node}) = Cardinality(sessionList) + 1
  BY <1>2, FS_AddElement
<1>4. Cardinality(sessionList) \in Nat
  BY FS_CardinalityType
<1> QED
  BY <1>1, <1>3, <1>4, MaxOperationsAssumption DEF AppendSession, NewNode, CountIsTableSize

\* So does replacing the oldest abortable node by one that was not listed.
LEMMA EvictKeepsCount ==
    ASSUME NEW handle, NEW caller, NEW uri, NEW abortable, NEW left,
           IsFiniteSet(sessionList), CountIsTableSize, ~InTable(handle),
           EvictAndAppendSession(handle, caller, uri, abortable, left)
    PROVE  IsFiniteSet(sessionList') /\ CountIsTableSize'
<1> DEFINE node == [handle |-> handle, caller |-> caller, uri |-> uri,
                    abortable |-> abortable, ticket |-> arrivals]
<1>1. PICK oldest \in sessionList : sessionList' = (sessionList \ {oldest}) \cup {node}
  BY DEF EvictAndAppendSession, NewNode, FirstAbortable
<1>2. node \notin sessionList
  <2>1. node.handle = handle
    OBVIOUS
  <2> QED
    BY <2>1 DEF InTable
<1>3. /\ IsFiniteSet(sessionList \ {oldest})
      /\ Cardinality(sessionList \ {oldest}) = Cardinality(sessionList) - 1
  BY FS_RemoveElement
<1>4. /\ IsFiniteSet((sessionList \ {oldest}) \cup {node})
      /\ Cardinality((sessionList \ {oldest}) \cup {node})
            = Cardinality(sessionList \ {oldest}) + 1
  BY <1>2, <1>3, FS_AddElement
<1>5. Cardinality(sessionList) \in Nat
  BY FS_CardinalityType
<1> QED
  <2>1. sessionCount' = (sessionCount - 1) + 1
    BY DEF EvictAndAppendSession, NewNode
  <2>2. Cardinality(sessionList') = (Cardinality(sessionList) - 1) + 1
    BY <1>1, <1>3, <1>4
  <2> QED
    BY <1>1, <1>4, <1>5, <2>1, <2>2, MaxOperationsAssumption DEF CountIsTableSize

-----------------------------------------------------------------------------
(* One lemma per kind of step                                              *)

\* Unlisting a handle whose operation is gone, or is being given up.
LEMMA CmDeleteSessionKeeps ==
    ASSUME IInv, NEW handle, CmDeleteSession(handle), UNCHANGED liveOps
    PROVE  /\ SessionTypeOK'
           /\ IsFiniteSet(sessionList') /\ CountIsTableSize'
           /\ TableIsByHandle'
           /\ sessionList' = {n \in sessionList : n.handle # handle}
           /\ UNCHANGED opener
<1> DEFINE nodes == {node \in sessionList : node.handle = handle}
<1>1. RemoveNodes(nodes) /\ UNCHANGED <<arrivals, opener>>
  BY DEF CmDeleteSession
<1>2. IsFiniteSet(sessionList') /\ CountIsTableSize'
  <2>1. nodes \in SUBSET sessionList
    OBVIOUS
  <2> QED
    BY <1>1, <2>1, RemoveNodesKeepsCount DEF IInv
<1>3. sessionList' = {n \in sessionList : n.handle # handle}
  BY <1>1 DEF RemoveNodes
<1>4. sessionCount' \in Nat
  BY <1>2, FS_CardinalityType DEF CountIsTableSize
<1>5. SessionTypeOK'
  BY <1>1, <1>3, <1>4 DEF IInv, TypeOK, SessionTypeOK
<1>6. TableIsByHandle'
  BY <1>1, <1>3 DEF IInv, TableIsByHandle
<1> QED
  BY <1>1, <1>2, <1>3, <1>5, <1>6

\* A node holds one handle, so nodes have no more handles than there are nodes.
LEMMA HandlesAreFew ==
    ASSUME NEW nodes, IsFiniteSet(nodes), NEW some \in SUBSET HandlesOf(nodes)
    PROVE  /\ IsFiniteSet(some) /\ Cardinality(some) \in Nat
           /\ Cardinality(some) <= Cardinality(nodes)
<1>1. IsFiniteSet(HandlesOf(nodes)) /\ Cardinality(HandlesOf(nodes)) <= Cardinality(nodes)
  <2> DEFINE handleOf == [n \in nodes |-> n.handle]
  <2>1. handleOf \in Surjection(nodes, HandlesOf(nodes))
    BY DEF Surjection, HandlesOf
  <2> QED
    BY <2>1, FS_Surjection
<1>2. IsFiniteSet(some) /\ Cardinality(some) <= Cardinality(HandlesOf(nodes))
  BY <1>1, FS_Subset
<1>3. Cardinality(some) \in Nat /\ Cardinality(nodes) \in Nat
      /\ Cardinality(HandlesOf(nodes)) \in Nat
  BY <1>1, <1>2, FS_CardinalityType
<1> QED
  BY <1>1, <1>2, <1>3

\* The failures of a removal are counted in natural numbers.
LEMMA FailIsNat ==
    ASSUME faults \in Nat, NEW left, Fail(left), IsFiniteSet(left)
    PROVE  faults' \in Nat
BY FS_CardinalityType DEF Fail

\* HksInit gives the thread a handle nobody else names.
LEMMA InitOpenKeeps ==
    ASSUME IInv, NEW t \in Threads, InitOpen(t)
    PROVE  IInv'
<1>1. PICK handle \in Handles, caller \in Callers, uri \in Uris :
         /\ HksInit(handle, caller, uri)
         /\ Goto(t, [pc |-> "opened", caller |-> caller, uri |-> uri,
                     handle |-> handle])
  BY DEF InitOpen
<1> DEFINE call == [pc |-> "opened", caller |-> caller, uri |-> uri,
                    handle |-> handle]
<1>2. /\ handle \notin DOMAIN opener
      /\ DOMAIN opener' = DOMAIN opener \cup {handle}
      /\ opener'[handle] = [caller |-> caller, uri |-> uri]
      /\ \A h \in DOMAIN opener : opener'[h] = opener[h] /\ h # handle
      /\ liveOps' = liveOps \cup {handle}
      /\ UNCHANGED <<sessionList, sessionCount, arrivals, faults, signatures>>
  BY <1>1 DEF HksInit, InitOpen
<1>3. /\ call \in OpenedCalls
      /\ thread' = [thread EXCEPT ![t] = call]
  BY <1>1 DEF Goto, OpenedCalls
<1>4. /\ thread'[t] = call
      /\ \A u \in Threads \ {t} : thread'[u] = thread[u]
      /\ thread' \in [Threads -> {Idle} \cup OpenedCalls \cup CheckedCalls
                                        \cup EndingCalls]
  BY <1>3 DEF IInv, TypeOK, ThreadTypeOK
<1>5. TypeOK'
  BY <1>2, <1>4 DEF IInv, TypeOK, SessionTypeOK, ThreadTypeOK
<1>6. IsFiniteSet(sessionList') /\ CountIsTableSize'
  BY <1>2 DEF IInv, CountIsTableSize
<1>7. TableIsByHandle'
  BY <1>2 DEF IInv, TableIsByHandle
<1>8. NoForeignUse'
  BY <1>2, <1>4 DEF IInv, NoForeignUse
<1>9. OpenedIsPrivate'
  <2>1. \A u \in Threads : thread[u].pc # "idle" => thread[u].handle # handle
    BY <1>2 DEF IInv, NoForeignUse
  <2>2. \A n \in sessionList : n.handle # handle
    BY <1>2 DEF IInv, TableIsByHandle
  <2> QED
    BY <1>2, <1>4, <2>1, <2>2 DEF IInv, OpenedIsPrivate, NoForeignUse, InTable
<1>10. StaleEntryIsEnding'
  BY <1>2, <1>4 DEF IInv, StaleEntryIsEnding, InitOpen
<1> QED
  BY <1>5, <1>6, <1>7, <1>8, <1>9, <1>10 DEF IInv

\* Registering an opened handle in a table with room.
LEMMA InitCreateKeeps ==
    ASSUME IInv, NEW t \in Threads, InitCreate(t)
    PROVE  IInv'
<1> DEFINE call == thread[t]
           CallNode(abortable) ==
               [handle |-> call.handle, caller |-> call.caller, uri |-> call.uri,
                abortable |-> abortable, ticket |-> arrivals]
<1>1. PICK abortable \in BOOLEAN :
         AppendSession(call.handle, call.caller, call.uri, abortable)
  BY KeyOperationAssumption DEF InitCreate
<1> DEFINE node == CallNode(abortable)
<1>2. /\ sessionList' = sessionList \cup {node}
      /\ sessionCount' = sessionCount + 1
      /\ arrivals' = arrivals + 1
      /\ UNCHANGED <<opener, liveOps, faults, signatures>>
  BY <1>1 DEF AppendSession, NewNode, InitCreate
<1>3. /\ call \in OpenedCalls
      /\ thread' = [thread EXCEPT ![t] = Idle]
  BY DEF InitCreate, Goto, IInv, TypeOK, ThreadTypeOK, Idle, CheckedCalls,
         EndingCalls, OpenedCalls
<1>4. /\ call.handle \in liveOps
      /\ ~InTable(call.handle)
      /\ call.handle \in DOMAIN opener
      /\ opener[call.handle] = [caller |-> call.caller, uri |-> call.uri]
      /\ \A u \in Threads \ {t} :
            thread[u].pc # "idle" => thread[u].handle # call.handle
  <2>1. /\ call.handle \in DOMAIN opener
        /\ call.handle \in liveOps
        /\ ~InTable(call.handle)
        /\ opener[call.handle].caller = call.caller
        /\ opener[call.handle].uri = call.uri
        /\ \A u \in Threads \ {t} :
              thread[u].pc # "idle" => thread[u].handle # call.handle
    BY <1>3 DEF IInv, NoForeignUse, OpenedIsPrivate, InitCreate
  <2>2. opener[call.handle] \in [caller : Callers, uri : Uris]
    BY <2>1 DEF IInv, TypeOK, SessionTypeOK
  <2> QED
    BY <2>1, <2>2
<1>5. /\ thread'[t] = Idle
      /\ Idle.pc = "idle"
      /\ \A u \in Threads \ {t} : thread'[u] = thread[u]
      /\ thread' \in [Threads -> {Idle} \cup OpenedCalls \cup CheckedCalls
                                        \cup EndingCalls]
  BY <1>3 DEF IInv, TypeOK, ThreadTypeOK, Idle
<1>6. node \in SessionNodes /\ node.handle = call.handle
      /\ node.caller = call.caller /\ node.uri = call.uri
  BY <1>3 DEF OpenedCalls, SessionNodes, IInv, TypeOK, SessionTypeOK
<1> HIDE DEF node
<1>7. TypeOK'
  BY <1>2, <1>5, <1>6 DEF IInv, TypeOK, SessionTypeOK, ThreadTypeOK
<1>8. IsFiniteSet(sessionList') /\ CountIsTableSize'
  BY <1>1, <1>4, AppendKeepsCount DEF IInv
<1>9. TableIsByHandle'
  BY <1>2, <1>4, <1>6 DEF IInv, TableIsByHandle, InTable
<1>10. NoForeignUse'
  BY <1>2, <1>5 DEF IInv, NoForeignUse
<1>11. OpenedIsPrivate'
  BY <1>2, <1>4, <1>5, <1>6 DEF IInv, OpenedIsPrivate, InTable
<1>12. StaleEntryIsEnding'
  BY <1>2, <1>4, <1>5, <1>6 DEF IInv, StaleEntryIsEnding, InitCreate
<1> QED
  BY <1>7, <1>8, <1>9, <1>10, <1>11, <1>12 DEF IInv

\* Registering an opened handle in place of the oldest abortable session.
LEMMA InitCreateEvictKeeps ==
    ASSUME IInv, NEW t \in Threads, InitCreateEvict(t)
    PROVE  IInv'
<1> DEFINE call == thread[t]
           CallNode(abortable) ==
               [handle |-> call.handle, caller |-> call.caller, uri |-> call.uri,
                abortable |-> abortable, ticket |-> arrivals]
<1>1. PICK abortable \in BOOLEAN, left \in SUBSET liveOps :
         /\ EvictAndAppendSession(call.handle, call.caller, call.uri, abortable, left)
         /\ Fail(left)
  BY KeyOperationAssumption DEF InitCreateEvict
<1> DEFINE node == CallNode(abortable)
<1>2. PICK oldest \in sessionList :
         /\ sessionList' = (sessionList \ {oldest}) \cup {node}
         /\ liveOps' \subseteq liveOps
         /\ liveOps \ {oldest.handle} \subseteq liveOps'
  BY <1>1 DEF EvictAndAppendSession, NewNode, FirstAbortable, DeleteHuksInitInfo,
              HandlesOf
<1>3. /\ sessionCount' = (sessionCount - 1) + 1
      /\ arrivals' = arrivals + 1
      /\ UNCHANGED <<opener, signatures>>
      /\ faults' \in Nat
  <2>1. faults' \in Nat
    <3>1. PICK nodes : IsFiniteSet(nodes) /\ left \subseteq HandlesOf(nodes)
      BY <1>1, FS_Singleton DEF EvictAndAppendSession, DeleteHuksInitInfo
    <3> QED
      BY <1>1, <3>1, HandlesAreFew, FailIsNat DEF IInv, TypeOK, ThreadTypeOK
  <2> QED
    BY <1>1, <2>1 DEF EvictAndAppendSession, NewNode, InitCreateEvict
<1>4. /\ call \in OpenedCalls
      /\ thread' = [thread EXCEPT ![t] = Idle]
  BY DEF InitCreateEvict, Goto, IInv, TypeOK, ThreadTypeOK, Idle, CheckedCalls,
         EndingCalls, OpenedCalls
<1>5. /\ call.handle \in liveOps
      /\ ~InTable(call.handle)
      /\ call.handle \in DOMAIN opener
      /\ opener[call.handle] = [caller |-> call.caller, uri |-> call.uri]
      /\ \A u \in Threads \ {t} :
            thread[u].pc # "idle" => thread[u].handle # call.handle
  <2>1. /\ call.handle \in DOMAIN opener
        /\ call.handle \in liveOps
        /\ ~InTable(call.handle)
        /\ opener[call.handle].caller = call.caller
        /\ opener[call.handle].uri = call.uri
        /\ \A u \in Threads \ {t} :
              thread[u].pc # "idle" => thread[u].handle # call.handle
    BY <1>4 DEF IInv, NoForeignUse, OpenedIsPrivate, InitCreateEvict
  <2>2. opener[call.handle] \in [caller : Callers, uri : Uris]
    BY <2>1 DEF IInv, TypeOK, SessionTypeOK
  <2> QED
    BY <2>1, <2>2
<1>6. /\ thread'[t] = Idle
      /\ Idle.pc = "idle"
      /\ \A u \in Threads \ {t} : thread'[u] = thread[u]
      /\ thread' \in [Threads -> {Idle} \cup OpenedCalls \cup CheckedCalls
                                        \cup EndingCalls]
  BY <1>4 DEF IInv, TypeOK, ThreadTypeOK, Idle
<1>7. /\ node \in SessionNodes /\ node.handle = call.handle
      /\ node.caller = call.caller /\ node.uri = call.uri
  BY <1>4 DEF OpenedCalls, SessionNodes, IInv, TypeOK, SessionTypeOK
<1>8. IsFiniteSet(sessionList') /\ CountIsTableSize'
  BY <1>1, <1>5, EvictKeepsCount DEF IInv
<1>9. sessionCount' \in Int
  BY <1>8, FS_CardinalityType DEF CountIsTableSize
<1> HIDE DEF node
<1>10. TypeOK'
  BY <1>2, <1>3, <1>6, <1>7, <1>9
     DEF IInv, TypeOK, SessionTypeOK, ThreadTypeOK
<1>11. TableIsByHandle'
  BY <1>2, <1>3, <1>5, <1>7 DEF IInv, TableIsByHandle, InTable
<1>12. NoForeignUse'
  BY <1>3, <1>6 DEF IInv, NoForeignUse
<1>13. OpenedIsPrivate'
  BY <1>2, <1>3, <1>5, <1>6, <1>7 DEF IInv, OpenedIsPrivate, InTable
<1>14. StaleEntryIsEnding'
  <2>1. SUFFICES ASSUME NEW n \in sessionList', n.handle \notin liveOps'
                 PROVE  \E u \in Threads : /\ thread'[u].pc = "ending"
                                           /\ thread'[u].handle = n.handle
    BY DEF StaleEntryIsEnding
  <2>2. n.handle # call.handle
    BY <1>2, <1>5, <1>7, <2>1 DEF InTable
  <2>3. n \in sessionList /\ n.handle \notin liveOps
    BY <1>2, <1>7, <2>1, <2>2 DEF IInv, TableIsByHandle
  <2> QED
    BY <1>4, <1>6, <2>3 DEF IInv, StaleEntryIsEnding, OpenedCalls
<1> QED
  BY <1>8, <1>10, <1>11, <1>12, <1>13, <1>14 DEF IInv

\* A call whose lookup succeeded names a listed handle of its own caller.
LEMMA ProcessQueryKeeps ==
    ASSUME IInv, NEW t \in Threads, ProcessQuery(t)
    PROVE  IInv'
<1>1. PICK caller \in Callers, handle \in Handles :
         /\ HasSession(caller, handle)
         /\ Goto(t, [pc |-> "checked", caller |-> caller, handle |-> handle])
  BY DEF ProcessQuery
<1> DEFINE call == [pc |-> "checked", caller |-> caller, handle |-> handle]
<1>2. /\ UNCHANGED <<sessionList, sessionCount, arrivals, opener, liveOps,
                     faults, signatures>>
      /\ thread[t].pc = "idle"
  BY DEF ProcessQuery, sessionVars
<1>3. /\ thread'[t] = call /\ call.pc = "checked"
      /\ \A u \in Threads \ {t} : thread'[u] = thread[u]
      /\ thread' \in [Threads -> {Idle} \cup OpenedCalls \cup CheckedCalls
                                        \cup EndingCalls]
  BY <1>1 DEF IInv, TypeOK, ThreadTypeOK, Goto, CheckedCalls
<1>4. /\ InTable(handle)
      /\ handle \in DOMAIN opener
      /\ opener[handle].caller = caller
  <2>1. PICK n \in sessionList : n.handle = handle /\ n.caller = caller
    BY <1>1 DEF HasSession
  <2>2. /\ n.handle \in DOMAIN opener
        /\ opener[n.handle] = [caller |-> n.caller, uri |-> n.uri]
    BY DEF IInv, TableIsByHandle
  <2> QED
    BY <2>1, <2>2 DEF InTable
<1>5. TypeOK' /\ IsFiniteSet(sessionList') /\ CountIsTableSize' /\ TableIsByHandle'
  BY <1>2, <1>3 DEF IInv, TypeOK, SessionTypeOK, ThreadTypeOK, CountIsTableSize,
                    TableIsByHandle
<1>6. NoForeignUse'
  BY <1>2, <1>3, <1>4 DEF IInv, NoForeignUse
<1>7. OpenedIsPrivate'
  BY <1>2, <1>3, <1>4 DEF IInv, OpenedIsPrivate, InTable
<1>8. StaleEntryIsEnding'
  BY <1>2, <1>3 DEF IInv, StaleEntryIsEnding
<1> QED
  BY <1>5, <1>6, <1>7, <1>8 DEF IInv

\* A call that returns without touching the table.
LEMMA ReturnKeeps ==
    ASSUME IInv, NEW t \in Threads, Goto(t, Idle), thread[t].pc # "ending",
           UNCHANGED <<sessionVars, signatures>>, faults' \in Nat
    PROVE  IInv'
<1>1. /\ UNCHANGED <<sessionList, sessionCount, arrivals, opener, liveOps, signatures>>
      /\ thread'[t] = Idle /\ Idle.pc = "idle"
      /\ \A u \in Threads \ {t} : thread'[u] = thread[u]
      /\ thread' \in [Threads -> {Idle} \cup OpenedCalls \cup CheckedCalls
                                        \cup EndingCalls]
  BY DEF IInv, TypeOK, ThreadTypeOK, Goto, sessionVars, Idle
<1>2. TypeOK' /\ IsFiniteSet(sessionList') /\ CountIsTableSize' /\ TableIsByHandle'
  BY <1>1 DEF IInv, TypeOK, SessionTypeOK, ThreadTypeOK, CountIsTableSize,
              TableIsByHandle
<1>3. NoForeignUse' /\ OpenedIsPrivate' /\ StaleEntryIsEnding'
  BY <1>1 DEF IInv, NoForeignUse, OpenedIsPrivate, InTable, StaleEntryIsEnding
<1> QED
  BY <1>2, <1>3 DEF IInv

\* A call that returns after CmDeleteSession of its handle.
LEMMA DeleteAndReturnKeeps ==
    ASSUME IInv, NEW t \in Threads, Goto(t, Idle), thread[t].pc # "idle",
           CmDeleteSession(thread[t].handle),
           UNCHANGED <<liveOps, signatures>>, faults' \in Nat
    PROVE  IInv'
<1>1. /\ SessionTypeOK' /\ IsFiniteSet(sessionList') /\ CountIsTableSize'
      /\ TableIsByHandle'
      /\ sessionList' = {n \in sessionList : n.handle # thread[t].handle}
      /\ UNCHANGED opener
  BY CmDeleteSessionKeeps
<1>2. /\ thread'[t] = Idle /\ Idle.pc = "idle"
      /\ \A u \in Threads \ {t} : thread'[u] = thread[u]
      /\ thread' \in [Threads -> {Idle} \cup OpenedCalls \cup CheckedCalls
                                        \cup EndingCalls]
  BY DEF IInv, TypeOK, ThreadTypeOK, Goto, Idle
<1>3. TypeOK'
  BY <1>1, <1>2 DEF IInv, TypeOK, ThreadTypeOK
<1>4. NoForeignUse' /\ OpenedIsPrivate'
  BY <1>1, <1>2 DEF IInv, NoForeignUse, OpenedIsPrivate, InTable
<1>5. StaleEntryIsEnding'
  BY <1>1, <1>2 DEF IInv, StaleEntryIsEnding
<1> QED
  BY <1>1, <1>3, <1>4, <1>5 DEF IInv

\* The HUKS call of CmKeyOpProcess consumes the operation, or leaves it open.
LEMMA ConsumeKeeps ==
    ASSUME IInv, NEW t \in Threads, thread[t].pc = "checked",
           liveOps' \in {liveOps, liveOps \ {thread[t].handle}},
           Goto(t, [pc |-> "ending", caller |-> thread[t].caller,
                    handle |-> thread[t].handle]),
           signatures' \subseteq DOMAIN opener, faults' \in Nat,
           UNCHANGED <<sessionList, sessionCount, arrivals, opener>>
    PROVE  IInv'
<1> DEFINE call == [pc |-> "ending", caller |-> thread[t].caller,
                    handle |-> thread[t].handle]
<1>1. /\ thread'[t] = call /\ call.pc = "ending"
      /\ call.handle = thread[t].handle /\ call.caller = thread[t].caller
      /\ \A u \in Threads \ {t} : thread'[u] = thread[u]
      /\ thread' \in [Threads -> {Idle} \cup OpenedCalls \cup CheckedCalls
                                        \cup EndingCalls]
  <2>1. thread[t] \in CheckedCalls
    BY DEF IInv, TypeOK, ThreadTypeOK, Idle, OpenedCalls, EndingCalls, CheckedCalls
  <2>2. call \in EndingCalls
    BY <2>1 DEF CheckedCalls, EndingCalls
  <2> QED
    BY <2>2 DEF IInv, TypeOK, ThreadTypeOK, Goto
<1> HIDE DEF call
<1>2. TypeOK' /\ IsFiniteSet(sessionList') /\ CountIsTableSize' /\ TableIsByHandle'
  BY <1>1 DEF IInv, TypeOK, SessionTypeOK, ThreadTypeOK, CountIsTableSize,
              TableIsByHandle
<1>3. NoForeignUse'
  BY <1>1 DEF IInv, NoForeignUse
<1>4. OpenedIsPrivate'
  BY <1>1 DEF IInv, OpenedIsPrivate, InTable
<1>5. StaleEntryIsEnding'
  BY <1>1 DEF IInv, StaleEntryIsEnding
<1> QED
  BY <1>2, <1>3, <1>4, <1>5 DEF IInv

\* A removal event unlists every session it matches and aborts it, or not.
LEMMA RemoveSessionsKeeps ==
    ASSUME IInv, RemoveSessions
    PROVE  IInv'
<1>1. PICK type \in DeleteTypes, caller \in Callers, uri \in Uris,
           left \in SUBSET liveOps :
         CmDeleteSessionByNodeInfo(type, caller, uri, left) /\ Fail(left)
  BY DEF RemoveSessions
<1> DEFINE matching == {node \in sessionList : IsNeedDelete(type, caller, uri, node)}
<1>2. /\ RemoveNodes(matching)
      /\ sessionList' = sessionList \ matching
      /\ liveOps' \subseteq liveOps
      /\ liveOps \ HandlesOf(matching) \subseteq liveOps'
      /\ left \subseteq HandlesOf(matching)
      /\ UNCHANGED <<arrivals, opener, thread, signatures>>
      /\ matching \in SUBSET sessionList
  BY <1>1 DEF CmDeleteSessionByNodeInfo, RemoveSessions, RemoveNodes,
              DeleteHuksInitInfo
<1> HIDE DEF matching
<1>a. faults' \in Nat
  <2>1. IsFiniteSet(matching)
    BY <1>2, FS_Subset DEF IInv
  <2> QED
    BY <1>1, <1>2, <2>1, HandlesAreFew, FailIsNat DEF IInv, TypeOK, ThreadTypeOK
<1>3. IsFiniteSet(sessionList') /\ CountIsTableSize'
  BY <1>2, RemoveNodesKeepsCount DEF IInv
<1>4. sessionCount' \in Nat
  BY <1>3, FS_CardinalityType DEF CountIsTableSize
<1>5. TypeOK'
  BY <1>2, <1>4, <1>a DEF IInv, TypeOK, SessionTypeOK, ThreadTypeOK
<1>6. TableIsByHandle' /\ NoForeignUse'
  BY <1>2 DEF IInv, TableIsByHandle, NoForeignUse
<1>7. OpenedIsPrivate'
  BY <1>2 DEF IInv, OpenedIsPrivate, InTable, HandlesOf
<1>8. StaleEntryIsEnding'
  <2>1. \A n \in sessionList' : n.handle \in liveOps => n.handle \in liveOps'
    BY <1>2 DEF IInv, TableIsByHandle, HandlesOf
  <2> QED
    BY <1>2, <2>1 DEF IInv, StaleEntryIsEnding
<1> QED
  BY <1>3, <1>5, <1>6, <1>7, <1>8 DEF IInv

-----------------------------------------------------------------------------
(* The theorems                                                            *)

\* The service starts with an empty table and idle threads.
LEMMA InitEstablishes == Init => IInv
<1> SUFFICES ASSUME Init PROVE IInv
  OBVIOUS
<1>1. sessionList = {} /\ \A t \in Threads : thread[t].pc = "idle"
  BY DEF Init, SessionInit, Idle
<1>2. TypeOK
  BY DEF Init, SessionInit, TypeOK, SessionTypeOK, ThreadTypeOK
<1>3. IsFiniteSet(sessionList) /\ CountIsTableSize
  BY <1>1, FS_EmptySet, MaxOperationsAssumption DEF Init, SessionInit, CountIsTableSize
<1> QED
  BY <1>1, <1>2, <1>3 DEF IInv, TableIsByHandle, NoForeignUse, OpenedIsPrivate,
                          StaleEntryIsEnding

\* Every step of a thread and every removal preserves the invariant.
LEMMA NextPreserves == IInv /\ [Next]_vars => IInv'
<1> SUFFICES ASSUME IInv, [Next]_vars PROVE IInv'
  OBVIOUS
<1>1. ASSUME NEW t \in Threads, InitOpen(t) PROVE IInv'
  BY <1>1, InitOpenKeeps
<1>2. ASSUME NEW t \in Threads, InitCreate(t) PROVE IInv'
  BY <1>2, InitCreateKeeps
<1>3. ASSUME NEW t \in Threads, InitCreateEvict(t) PROVE IInv'
  BY <1>3, InitCreateEvictKeeps
<1>4. ASSUME NEW t \in Threads, InitCreateFails(t) \/ InitReachesLimit(t) PROVE IInv'
  BY <1>4, ReturnKeeps
     DEF InitCreateFails, InitReachesLimit, IInv, TypeOK, ThreadTypeOK
<1>5. ASSUME NEW t \in Threads, ProcessQuery(t) PROVE IInv'
  BY <1>5, ProcessQueryKeeps
<1>6. ASSUME NEW t \in Threads, ProcessParamFails(t) \/ EndSession(t) PROVE IInv'
  BY <1>6, DeleteAndReturnKeeps
     DEF ProcessParamFails, EndSession, IInv, TypeOK, ThreadTypeOK
<1>7. ASSUME NEW t \in Threads, UpdateSucceeds(t) PROVE IInv'
  BY <1>7, ReturnKeeps DEF UpdateSucceeds, IInv, TypeOK, ThreadTypeOK
<1>8. ASSUME NEW t \in Threads,
             FinishSucceeds(t) \/ OperationEnds(t) \/ OperationStays(t)
      PROVE  IInv'
  <2>1. signatures' \subseteq DOMAIN opener /\ faults' \in Nat
    BY <1>8 DEF FinishSucceeds, OperationEnds, OperationStays, sessionVars, IInv,
                TypeOK, SessionTypeOK, ThreadTypeOK
  <2> QED
    BY <1>8, <2>1, ConsumeKeeps
       DEF FinishSucceeds, OperationEnds, OperationStays, sessionVars
<1>9. CASE RemoveSessions
  BY <1>9, RemoveSessionsKeeps
<1>10. CASE UNCHANGED vars
  BY <1>10 DEF vars, sessionVars, IInv, TypeOK, SessionTypeOK, ThreadTypeOK,
               CountIsTableSize, TableIsByHandle, NoForeignUse, OpenedIsPrivate,
               InTable, StaleEntryIsEnding
<1> QED
  BY <1>1, <1>2, <1>3, <1>4, <1>5, <1>6, <1>7, <1>8, <1>9, <1>10
     DEF Next, ThreadStep

\* The inductive invariant holds throughout.
THEOREM InductiveInvariant == Spec => []IInv
<1>1. Init => IInv
  BY InitEstablishes
<1>2. IInv /\ [Next]_vars => IInv'
  BY NextPreserves
<1> QED
  BY <1>1, <1>2, PTL DEF Spec

\* Every variable of the sessions and of the threads keeps its type.
THEOREM TypeCorrect == Spec => []TypeOK
<1>1. IInv => TypeOK
  BY DEF IInv
<1> QED
  BY <1>1, InductiveInvariant, PTL

\* g_sessionCount is always the number of listed sessions and never exceeds
\* MAX_OPERATIONS_COUNT, whatever the threads, evictions and removals do.
THEOREM CountCorrect == Spec => []CountIsTableSize
<1>1. IInv => CountIsTableSize
  BY DEF IInv
<1> QED
  BY <1>1, InductiveInvariant, PTL

\* A session is listed once and under the caller and key it was opened for.
THEOREM TableCorrect == Spec => []TableIsByHandle
<1>1. IInv => TableIsByHandle
  BY DEF IInv
<1> QED
  BY <1>1, InductiveInvariant, PTL

\* No caller's thread ever drives another caller's HUKS operation.
THEOREM OwnershipCorrect == Spec => []NoForeignUse
<1>1. IInv => NoForeignUse
  BY DEF IInv
<1> QED
  BY <1>1, InductiveInvariant, PTL

\* A listed session without a HUKS operation is being unlisted by a thread.
THEOREM StaleEntriesEnd == Spec => []StaleEntryIsEnding
<1>1. IInv => StaleEntryIsEnding
  BY DEF IInv
<1> QED
  BY <1>1, InductiveInvariant, PTL

-----------------------------------------------------------------------------
(* Leaks: operations left open, each by a failure of its own.              *)

\* Some thread is about to unlist the handle.
Ending(h) == \E t \in Threads : thread[t].pc = "ending" /\ thread[t].handle = h

\* The operations still open that are unlisted, or about to be.
Abandoned == {h \in liveOps : ~Opening(h) /\ (~InTable(h) \/ Ending(h))}

\* No more of them than failures.
Counted == IsFiniteSet(Abandoned) /\ Cardinality(Abandoned) <= faults

\* What the refinement needs of the threads.
RInv == IInv /\ Counted

\* A step that abandons some operations and counts as many failures.
LEMMA CountedGrows ==
    ASSUME RInv, NEW new, IsFiniteSet(new), Abandoned' \subseteq Abandoned \cup new,
           faults' = faults + Cardinality(new)
    PROVE  Counted'
<1>1. /\ IsFiniteSet(Abandoned) /\ Cardinality(Abandoned) \in Nat
      /\ Cardinality(new) \in Nat
      /\ faults \in Nat /\ Cardinality(Abandoned) <= faults
  BY FS_CardinalityType DEF RInv, Counted, IInv, TypeOK, ThreadTypeOK
<1>2. /\ IsFiniteSet(Abandoned \cup new)
      /\ Cardinality(Abandoned \cup new) \in Nat
      /\ Cardinality(Abandoned \cup new) <= Cardinality(Abandoned) + Cardinality(new)
  <2>1. /\ IsFiniteSet(Abandoned \cup new)
        /\ Cardinality(Abandoned \cup new) = Cardinality(Abandoned)
              + Cardinality(new) - Cardinality(Abandoned \cap new)
    BY <1>1, FS_Union
  <2>2. IsFiniteSet(Abandoned \cap new) /\ Cardinality(Abandoned \cap new) \in Nat
    BY <1>1, FS_Subset, FS_CardinalityType
  <2>3. Cardinality(Abandoned \cup new) \in Nat
    BY <2>1, FS_CardinalityType
  <2> QED
    BY <1>1, <2>1, <2>2, <2>3
<1>3. /\ IsFiniteSet(Abandoned')
      /\ Cardinality(Abandoned') <= Cardinality(Abandoned \cup new)
      /\ Cardinality(Abandoned') \in Nat
  BY <1>2, FS_Subset, FS_CardinalityType
<1> QED
  BY <1>1, <1>2, <1>3 DEF Counted

\* A step without a failure abandons nothing.
LEMMA CountedKeeps ==
    ASSUME RInv, Abandoned' \subseteq Abandoned, faults' = faults
    PROVE  Counted'
<1>1. faults' = faults + Cardinality({})
  BY FS_EmptySet DEF RInv, IInv, TypeOK, ThreadTypeOK
<1> QED
  BY <1>1, FS_EmptySet, CountedGrows

\* A step with one failure abandons at most one operation.
LEMMA CountedOne ==
    ASSUME RInv, NEW h, Abandoned' \subseteq Abandoned \cup {h}, faults' = faults + 1
    PROVE  Counted'
BY FS_Singleton, CountedGrows

\* The steps of CmKeyOpInit.
LEMMA InitCounted ==
    ASSUME RInv, IInv', NEW t \in Threads,
           \/ InitOpen(t) \/ InitCreate(t) \/ InitCreateEvict(t)
           \/ InitCreateFails(t) \/ InitReachesLimit(t)
    PROVE  Counted'
<1>1. CASE InitOpen(t)
  <2>1. PICK handle \in Handles, caller \in Callers, uri \in Uris :
           /\ HksInit(handle, caller, uri)
           /\ Goto(t, [pc |-> "opened", caller |-> caller, uri |-> uri,
                       handle |-> handle])
    BY <1>1 DEF InitOpen
  <2>2. /\ liveOps' = liveOps \cup {handle}
        /\ UNCHANGED <<sessionList, faults>>
        /\ thread[t].pc = "idle"
        /\ thread'[t].pc = "opened" /\ thread'[t].handle = handle
        /\ \A u \in Threads \ {t} : thread'[u] = thread[u]
    BY <1>1, <2>1 DEF InitOpen, HksInit, Goto, RInv, IInv, TypeOK, ThreadTypeOK
  <2>3. Abandoned' \subseteq Abandoned
    <3>1. Opening(handle)' /\ \A h : Opening(h) => Opening(h)'
      BY <2>2 DEF Opening
    <3>2. \A h : (Ending(h)' => Ending(h)) /\ (InTable(h)' <=> InTable(h))
      BY <2>2 DEF Ending, InTable
    <3> QED
      BY <2>2, <3>1, <3>2 DEF Abandoned
  <2> QED
    BY <2>2, <2>3, CountedKeeps
<1>2. ASSUME thread[t].pc = "opened", Goto(t, Idle)
      PROVE  \A h : /\ Ending(h)' <=> Ending(h)
                    /\ h = thread[t].handle => ~Ending(h)
                    /\ h # thread[t].handle => (Opening(h)' <=> Opening(h))
  <2>1. /\ thread'[t].pc = "idle"
        /\ \A u \in Threads \ {t} : thread'[u] = thread[u]
    BY <1>2 DEF Goto, Idle, RInv, IInv, TypeOK, ThreadTypeOK
  <2>2. \A u \in Threads \ {t} :
            thread[u].pc # "idle" => thread[u].handle # thread[t].handle
    BY <1>2 DEF RInv, IInv, OpenedIsPrivate
  <2> QED
    BY <1>2, <2>1, <2>2 DEF Opening, Ending
<1>3. CASE InitCreate(t)
  <2>1. PICK node : /\ sessionList' = sessionList \cup {node}
                    /\ node.handle = thread[t].handle
    <3>1. \A abortable : NewNode(thread[t].handle, thread[t].caller, thread[t].uri,
                                 abortable).handle = thread[t].handle
      BY DEF NewNode
    <3> QED
      BY <1>3, <3>1 DEF InitCreate, AppendSession
  <2>2. UNCHANGED <<liveOps, faults>> /\ thread[t].pc = "opened" /\ Goto(t, Idle)
    BY <1>3 DEF InitCreate, AppendSession
  <2>3. \A h : InTable(h)' <=> (InTable(h) \/ h = thread[t].handle)
    BY <2>1 DEF InTable
  <2>4. Abandoned' \subseteq Abandoned
    BY <1>2, <2>2, <2>3 DEF Abandoned
  <2> QED
    BY <2>2, <2>4, CountedKeeps
<1>4. CASE InitCreateEvict(t)
  <2>1. PICK abortable \in BOOLEAN, left \in SUBSET liveOps :
           /\ EvictAndAppendSession(thread[t].handle, thread[t].caller, thread[t].uri,
                                    abortable, left)
           /\ Fail(left)
    BY <1>4, KeyOperationAssumption DEF InitCreateEvict
  <2>2. PICK oldest \in sessionList :
           /\ \E node : /\ sessionList' = (sessionList \ {oldest}) \cup {node}
                        /\ node.handle = thread[t].handle
           /\ left \subseteq HandlesOf({oldest})
           /\ liveOps' = liveOps \ (HandlesOf({oldest}) \ left)
    <3>1. NewNode(thread[t].handle, thread[t].caller, thread[t].uri,
                  abortable).handle = thread[t].handle
      BY DEF NewNode
    <3> QED
      BY <2>1, <3>1 DEF EvictAndAppendSession, FirstAbortable, DeleteHuksInitInfo
  <2>3. HandlesOf({oldest}) = {oldest.handle}
    BY DEF HandlesOf
  <2>4. /\ thread[t].pc = "opened" /\ Goto(t, Idle)
        /\ faults' = faults + Cardinality(left)
    BY <1>4, <2>1 DEF InitCreateEvict, Fail
  <2>5. IsFiniteSet(left)
    BY <2>2, FS_Singleton, HandlesAreFew
  <2>6. \A h : h # oldest.handle =>
             (InTable(h)' <=> (InTable(h) \/ h = thread[t].handle))
    BY <2>2 DEF InTable
  <2>7. oldest.handle # thread[t].handle
    BY <2>4 DEF RInv, IInv, OpenedIsPrivate, InTable
  <2>8. Abandoned' \subseteq Abandoned \cup left
    BY <1>2, <2>2, <2>3, <2>4, <2>6, <2>7 DEF Abandoned, InTable
  <2> QED
    BY <2>4, <2>5, <2>8, CountedGrows
<1>5. CASE InitCreateFails(t) \/ InitReachesLimit(t)
  <2>1. /\ thread[t].pc = "opened" /\ Goto(t, Idle) /\ faults' = faults + 1
        /\ UNCHANGED <<sessionList, liveOps>>
    BY <1>5 DEF InitCreateFails, InitReachesLimit, sessionVars
  <2>2. \A h : InTable(h)' <=> InTable(h)
    BY <2>1 DEF InTable
  <2>3. Abandoned' \subseteq Abandoned \cup {thread[t].handle}
    BY <1>2, <2>1, <2>2 DEF Abandoned
  <2> QED
    BY <2>1, <2>3, CountedOne
<1> QED
  BY <1>1, <1>3, <1>4, <1>5

\* The steps of CmKeyOpProcess.
LEMMA ProcessCounted ==
    ASSUME RInv, IInv', NEW t \in Threads,
           \/ ProcessQuery(t) \/ ProcessParamFails(t) \/ UpdateSucceeds(t)
           \/ FinishSucceeds(t) \/ OperationEnds(t) \/ OperationStays(t)
           \/ EndSession(t)
    PROVE  Counted'
<1>1. \A u \in Threads \ {t} : thread'[u] = thread[u]
  BY DEF ProcessQuery, ProcessParamFails, UpdateSucceeds, FinishSucceeds,
         OperationEnds, OperationStays, EndSession, Goto, RInv, IInv, TypeOK,
         ThreadTypeOK
<1>2. /\ thread[t].pc # "opened" /\ thread'[t].pc # "opened"
      /\ \A h : Opening(h)' <=> Opening(h)
  <2>1. thread[t].pc # "opened" /\ thread'[t].pc # "opened"
    BY DEF ProcessQuery, ProcessParamFails, UpdateSucceeds, FinishSucceeds,
           OperationEnds, OperationStays, EndSession, Goto, Idle, RInv, IInv, TypeOK,
           ThreadTypeOK
  <2> QED
    BY <1>1, <2>1 DEF Opening
<1>3. CASE ProcessQuery(t) \/ UpdateSucceeds(t)
  <2>1. /\ UNCHANGED <<sessionList, liveOps, faults>>
        /\ thread[t].pc # "ending" /\ thread'[t].pc # "ending"
    BY <1>3 DEF ProcessQuery, UpdateSucceeds, sessionVars, Goto, Idle, RInv, IInv,
                TypeOK, ThreadTypeOK
  <2>2. \A h : (InTable(h)' <=> InTable(h)) /\ (Ending(h)' => Ending(h))
    BY <1>1, <2>1 DEF InTable, Ending
  <2>3. Abandoned' \subseteq Abandoned
    BY <1>2, <2>1, <2>2 DEF Abandoned
  <2> QED
    BY <2>1, <2>3, CountedKeeps
<1>4. CASE ProcessParamFails(t)
  <2>1. /\ sessionList' = {n \in sessionList : n.handle # thread[t].handle}
        /\ UNCHANGED liveOps /\ faults' = faults + 1
        /\ thread'[t].pc # "ending"
    BY <1>4, CmDeleteSessionKeeps
       DEF ProcessParamFails, Goto, Idle, RInv, IInv, TypeOK, ThreadTypeOK
  <2>2. \A h : /\ Ending(h)' => Ending(h)
               /\ h # thread[t].handle => (InTable(h)' <=> InTable(h))
    BY <1>1, <2>1 DEF InTable, Ending
  <2>3. Abandoned' \subseteq Abandoned \cup {thread[t].handle}
    BY <1>2, <2>1, <2>2 DEF Abandoned
  <2> QED
    BY <2>1, <2>3, CountedOne
<1>5. CASE FinishSucceeds(t) \/ OperationEnds(t)
  <2>1. /\ UNCHANGED <<sessionList, faults>>
        /\ liveOps' = liveOps \ {thread[t].handle}
        /\ thread'[t].handle = thread[t].handle
    BY <1>5 DEF FinishSucceeds, OperationEnds, Goto, RInv, IInv, TypeOK, ThreadTypeOK
  <2>2. \A h : /\ h # thread[t].handle => (Ending(h)' => Ending(h))
               /\ InTable(h)' <=> InTable(h)
    BY <1>1, <2>1 DEF InTable, Ending
  <2>3. Abandoned' \subseteq Abandoned
    BY <1>2, <2>1, <2>2 DEF Abandoned
  <2> QED
    BY <2>1, <2>3, CountedKeeps
<1>6. CASE OperationStays(t)
  <2>1. /\ UNCHANGED <<sessionList, liveOps>> /\ faults' = faults + 1
        /\ thread'[t].handle = thread[t].handle
    BY <1>6 DEF OperationStays, sessionVars, Goto, RInv, IInv, TypeOK, ThreadTypeOK
  <2>2. \A h : /\ h # thread[t].handle => (Ending(h)' => Ending(h))
               /\ InTable(h)' <=> InTable(h)
    BY <1>1, <2>1 DEF InTable, Ending
  <2>3. Abandoned' \subseteq Abandoned \cup {thread[t].handle}
    BY <1>2, <2>1, <2>2 DEF Abandoned
  <2> QED
    BY <2>1, <2>3, CountedOne
<1>7. CASE EndSession(t)
  <2>1. /\ sessionList' = {n \in sessionList : n.handle # thread[t].handle}
        /\ UNCHANGED <<liveOps, faults>>
        /\ thread[t].pc = "ending" /\ thread'[t].pc # "ending"
    BY <1>7, CmDeleteSessionKeeps
       DEF EndSession, Goto, Idle, RInv, IInv, TypeOK, ThreadTypeOK
  <2>2. \A h : /\ Ending(h)' => Ending(h)
               /\ h # thread[t].handle => (InTable(h)' <=> InTable(h))
    BY <1>1, <2>1 DEF InTable, Ending
  <2>3. Ending(thread[t].handle)
    BY <2>1 DEF Ending
  <2>4. Abandoned' \subseteq Abandoned
    BY <1>2, <2>1, <2>2, <2>3 DEF Abandoned
  <2> QED
    BY <2>1, <2>4, CountedKeeps
<1> QED
  BY <1>3, <1>4, <1>5, <1>6, <1>7

\* A removal abandons the operations whose HksAbort failed.
LEMMA RemoveCounted ==
    ASSUME RInv, RemoveSessions
    PROVE  Counted'
<1>1. PICK type \in DeleteTypes, caller \in Callers, uri \in Uris,
           left \in SUBSET liveOps :
         CmDeleteSessionByNodeInfo(type, caller, uri, left) /\ Fail(left)
  BY DEF RemoveSessions
<1>2. PICK matching \in SUBSET sessionList :
         /\ sessionList' = sessionList \ matching
         /\ left \subseteq HandlesOf(matching)
         /\ liveOps' = liveOps \ (HandlesOf(matching) \ left)
  BY <1>1 DEF CmDeleteSessionByNodeInfo, RemoveNodes, DeleteHuksInitInfo
<1>3. UNCHANGED thread /\ faults' = faults + Cardinality(left)
  BY <1>1 DEF RemoveSessions, Fail
<1>4. IsFiniteSet(left)
  BY <1>2, FS_Subset, HandlesAreFew DEF RInv, IInv
<1>5. \A h : (Opening(h)' <=> Opening(h)) /\ (Ending(h)' <=> Ending(h))
  BY <1>3 DEF Opening, Ending
<1>6. \A h : h \notin HandlesOf(matching) => (InTable(h)' <=> InTable(h))
  BY <1>2 DEF InTable, HandlesOf
<1>7. Abandoned' \subseteq Abandoned \cup left
  BY <1>2, <1>5, <1>6 DEF Abandoned
<1> QED
  BY <1>3, <1>4, <1>7, CountedGrows

\* What the refinement needs holds throughout.
LEMMA RefinementInvariant == Spec => []RInv
<1>1. Init => RInv
  <2> SUFFICES ASSUME Init PROVE RInv
    OBVIOUS
  <2>1. Abandoned = {} /\ faults = 0
    BY DEF Init, SessionInit, Abandoned
  <2> QED
    BY <2>1, InitEstablishes, FS_EmptySet DEF RInv, Counted
<1>2. RInv /\ [Next]_vars => RInv'
  <2> SUFFICES ASSUME RInv, [Next]_vars PROVE RInv'
    OBVIOUS
  <2>1. IInv'
    BY NextPreserves DEF RInv
  <2>2. ASSUME NEW t \in Threads, ThreadStep(t) PROVE Counted'
    BY <2>1, <2>2, InitCounted, ProcessCounted DEF ThreadStep
  <2>3. ASSUME UNCHANGED vars PROVE Counted'
    <3>1. Abandoned' \subseteq Abandoned /\ faults' = faults
      BY <2>3 DEF vars, sessionVars, Abandoned, Opening, Ending, InTable
    <3> QED
      BY <3>1, CountedKeeps
  <2> QED
    BY <2>1, <2>2, <2>3, RemoveCounted DEF RInv, Next
<1> QED
  BY <1>1, <1>2, PTL DEF Spec

\* What nobody can reach was abandoned, before and after a step.
LEMMA UnreachableIsCounted ==
    /\ RInv => LeaksAreFaults
    /\ RInv' => LeaksAreFaults'
<1>1. Unreachable \subseteq Abandoned /\ Unreachable' \subseteq Abandoned'
  BY DEF Unreachable, Abandoned
<1>2. ASSUME NEW lost, NEW left, lost \subseteq left, IsFiniteSet(left), NEW n \in Nat,
             Cardinality(left) <= n
      PROVE  Cardinality(lost) <= n
  BY <1>2, FS_Subset, FS_CardinalityType
<1>3. RInv => LeaksAreFaults
  BY <1>1, <1>2 DEF RInv, Counted, IInv, TypeOK, ThreadTypeOK, LeaksAreFaults
<1>4. RInv' => LeaksAreFaults'
  BY <1>1, <1>2 DEF RInv, Counted, IInv, TypeOK, ThreadTypeOK, LeaksAreFaults
<1> QED
  BY <1>3, <1>4

\* Every HUKS operation that nobody can reach was left by a failure of its own:
\* a creation, a parameter set or a call of HUKS, those of a removal included.
THEOREM LeaksAreCounted == Spec => []LeaksAreFaults
<1>1. RInv => LeaksAreFaults
  BY UnreachableIsCounted
<1> QED
  BY <1>1, RefinementInvariant, PTL

-----------------------------------------------------------------------------
(* Refinement of KeyOpLifecycle: which phase changes in which step.        *)

\* The phase of a handle, before and after a step.
LEMMA PhaseCases ==
    ASSUME NEW h
    PROVE  /\ PhaseOf(h) = IF h \notin DOMAIN opener THEN "none"
                           ELSE IF h \notin liveOps THEN "closed"
                           ELSE IF InTable(h) THEN "usable"
                           ELSE IF Opening(h) THEN "opening" ELSE "lost"
           /\ PhaseOf(h)' = IF h \notin DOMAIN opener' THEN "none"
                            ELSE IF h \notin liveOps' THEN "closed"
                            ELSE IF InTable(h)' THEN "usable"
                            ELSE IF Opening(h)' THEN "opening" ELSE "lost"
BY DEF PhaseOf

\* The unreachable operations are the lost ones of the life cycle.
LEMMA UnreachableIsLost ==
    /\ RInv => Unreachable = Lifecycle!In("lost")
    /\ RInv' => Unreachable' = Lifecycle!In("lost")'
BY PhaseCases DEF Unreachable, Lifecycle!In, RInv, IInv, TypeOK, SessionTypeOK

-----------------------------------------------------------------------------
(* Each step opens, registers, loses, closes or removes, or changes no     *)
(* phase.                                                                  *)

\* CmKeyOpInit opens an operation for its caller and key.
LEMMA InitOpenIsOpen ==
    ASSUME RInv, NEW t \in Threads, InitOpen(t)
    PROVE  Lifecycle!LifecycleNext
<1>1. PICK handle \in Handles, caller \in Callers, uri \in Uris :
         /\ HksInit(handle, caller, uri)
         /\ Goto(t, [pc |-> "opened", caller |-> caller, uri |-> uri,
                     handle |-> handle])
  BY DEF InitOpen
<1> DEFINE who == [caller |-> caller, uri |-> uri]
<1>2. /\ handle \notin DOMAIN opener
      /\ opener' = [h \in DOMAIN opener \cup {handle} |->
                       IF h = handle THEN who ELSE opener[h]]
      /\ liveOps' = liveOps \cup {handle}
      /\ UNCHANGED <<sessionList, faults, signatures>>
      /\ thread[t].pc = "idle"
      /\ thread'[t].pc = "opened" /\ thread'[t].handle = handle
      /\ \A u \in Threads \ {t} : thread'[u] = thread[u]
  BY <1>1 DEF HksInit, InitOpen, Goto, RInv, IInv, TypeOK, ThreadTypeOK
<1>3. who \in Lifecycle!Holders
  BY DEF Lifecycle!Holders, Callers
<1>4. ~InTable(handle)'
  BY <1>2 DEF RInv, IInv, TableIsByHandle, InTable
<1>5. PhaseOf(handle) = "none" /\ PhaseOf(handle)' = "opening"
  <2>1. Opening(handle)'
    BY <1>2 DEF Opening
  <2> QED
    BY <1>2, <1>4, <2>1, PhaseCases
<1>6. \A h \in Handles \ {handle} : PhaseOf(h)' = PhaseOf(h)
  <2> SUFFICES ASSUME NEW h \in Handles \ {handle} PROVE PhaseOf(h)' = PhaseOf(h)
    OBVIOUS
  <2>1. Opening(h)' <=> Opening(h)
    BY <1>2 DEF Opening
  <2>2. InTable(h)' <=> InTable(h)
    BY <1>2 DEF InTable
  <2> QED
    BY <1>2, <2>1, <2>2, PhaseCases
<1>7. Lifecycle!Open(handle, who)
  BY <1>2, <1>5, <1>6 DEF Lifecycle!Open
<1> QED
  BY <1>3, <1>7 DEF Lifecycle!LifecycleNext

\* Both modules mean the same by the size of a set.
LEMMA SameCardinality ==
    ASSUME NEW S
    PROVE  Lifecycle!Cardinality(S) = Cardinality(S)
BY DEF Lifecycle!Cardinality, Cardinality

\* The handles of usable operations are those of listed nodes: not more of
\* them than nodes.
LEMMA UsableAreFew ==
    ASSUME RInv, NEW nodes \in SUBSET sessionList, NEW usable \in SUBSET HandlesOf(nodes)
    PROVE  /\ IsFiniteSet(usable) /\ Cardinality(usable) \in Nat
           /\ IsFiniteSet(nodes) /\ Cardinality(nodes) \in Nat
           /\ Cardinality(usable) <= Cardinality(nodes)
<1>1. IsFiniteSet(nodes)
  BY FS_Subset DEF RInv, IInv
<1> QED
  BY <1>1, HandlesAreFew, FS_CardinalityType

\* A thread that returns without having touched table or HUKS, and had not
\* opened a handle, changes no phase.
LEMMA ReturnChangesNothing ==
    ASSUME RInv, NEW t \in Threads, NEW call,
           thread[t].pc # "opened", call.pc # "opened", Goto(t, call),
           UNCHANGED <<sessionList, opener, liveOps>>
    PROVE  \A h \in Handles : PhaseOf(h)' = PhaseOf(h)
<1> SUFFICES ASSUME NEW h \in Handles PROVE PhaseOf(h)' = PhaseOf(h)
  OBVIOUS
<1>1. Opening(h)' <=> Opening(h)
  BY DEF Opening, Goto, RInv, IInv, TypeOK, ThreadTypeOK
<1>2. InTable(h)' <=> InTable(h)
  BY DEF InTable
<1> QED
  BY <1>1, <1>2, PhaseCases

\* CmCreateSession in a table with room registers the operation.
LEMMA InitCreateIsRegister ==
    ASSUME RInv, NEW t \in Threads, InitCreate(t)
    PROVE  Lifecycle!LifecycleNext
<1>0. PICK handle : handle = thread[t].handle
  OBVIOUS
<1>1. PICK abortable \in BOOLEAN :
         AppendSession(handle, thread[t].caller, thread[t].uri, abortable)
  BY <1>0, KeyOperationAssumption DEF InitCreate
<1>2. PICK node : /\ sessionList' = sessionList \cup {node}
                  /\ node.handle = handle
  <2>1. NewNode(handle, thread[t].caller, thread[t].uri, abortable).handle = handle
    BY DEF NewNode
  <2> QED
    BY <1>1, <2>1 DEF AppendSession
<1>3. /\ sessionCount < MaxOperationsCount
      /\ UNCHANGED <<opener, liveOps, faults, signatures>>
      /\ thread[t].pc = "opened" /\ thread'[t].pc = "idle"
      /\ \A u \in Threads \ {t} : thread'[u] = thread[u]
  BY <1>1 DEF AppendSession, InitCreate, Goto, Idle, RInv, IInv, TypeOK, ThreadTypeOK
<1>4. /\ handle \in liveOps /\ handle \in DOMAIN opener /\ handle \in Handles
      /\ ~InTable(handle)
      /\ \A u \in Threads \ {t} : thread[u].pc # "idle" => thread[u].handle # handle
  BY <1>0, <1>3 DEF RInv, IInv, OpenedIsPrivate, NoForeignUse, TypeOK, SessionTypeOK
<1>5. PhaseOf(handle) = "opening" /\ PhaseOf(handle)' = "usable"
  <2>1. Opening(handle) /\ InTable(handle)'
    BY <1>0, <1>2, <1>3 DEF Opening, InTable
  <2> QED
    BY <1>3, <1>4, <2>1, PhaseCases
<1>6. \A h \in Handles \ {handle} : PhaseOf(h)' = PhaseOf(h)
  <2> SUFFICES ASSUME NEW h \in Handles \ {handle} PROVE PhaseOf(h)' = PhaseOf(h)
    OBVIOUS
  <2>1. Opening(h)' <=> Opening(h)
    BY <1>0, <1>3 DEF Opening
  <2>2. InTable(h)' <=> InTable(h)
    BY <1>2 DEF InTable
  <2> QED
    BY <1>3, <2>1, <2>2, PhaseCases
<1>7. Cardinality(Lifecycle!In("usable")) < MaxOperationsCount
  <2>1. Lifecycle!In("usable") \subseteq HandlesOf(sessionList)
    BY PhaseCases DEF Lifecycle!In, HandlesOf, InTable
  <2>2. Cardinality(sessionList) < MaxOperationsCount
    BY <1>3 DEF RInv, IInv, CountIsTableSize
  <2> QED
    BY <2>1, <2>2, UsableAreFew, MaxOperationsAssumption
<1>8. Lifecycle!Register(handle)
  <2> DEFINE usable == Lifecycle!In("usable")
  <2>0. PICK victim \in {{}} \cup {{g} : g \in usable} : victim = {}
    OBVIOUS
  <2>1. PICK left \in SUBSET victim : victim = {} /\ left = {}
    BY <2>0
  <2>2. usable \ victim = usable
    BY <2>1
  <2>3. \A h \in Handles :
           PhaseOf(h)' = IF h = handle THEN "usable"
                         ELSE Lifecycle!After(h, victim, left)
    BY <1>5, <1>6, <2>1 DEF Lifecycle!After
  <2>4. faults' = faults + Lifecycle!Cardinality(left)
    BY <1>3, <2>1, FS_EmptySet, SameCardinality DEF RInv, IInv, TypeOK, ThreadTypeOK
  <2> QED
    BY <1>3, <1>4, <1>5, <1>7, <2>2, <2>3, <2>4, SameCardinality
       DEF Lifecycle!Register
<1> QED
  BY <1>4, <1>8 DEF Lifecycle!LifecycleNext

\* In a full table it registers the operation and displaces the oldest
\* abortable one, if that is still usable.
LEMMA InitCreateEvictIsRegister ==
    ASSUME RInv, NEW t \in Threads, InitCreateEvict(t)
    PROVE  Lifecycle!LifecycleNext
<1>0. PICK handle : handle = thread[t].handle
  OBVIOUS
<1>1. PICK abortable \in BOOLEAN, left \in SUBSET liveOps :
         /\ EvictAndAppendSession(handle, thread[t].caller, thread[t].uri, abortable,
                                  left)
         /\ Fail(left)
  BY <1>0, KeyOperationAssumption DEF InitCreateEvict
<1> PICK node : node = NewNode(handle, thread[t].caller, thread[t].uri, abortable)
  OBVIOUS
<1>2. PICK oldest \in sessionList :
         /\ sessionList' = (sessionList \ {oldest}) \cup {node}
         /\ node.handle = handle
         /\ left \subseteq {oldest.handle}
         /\ liveOps' = liveOps \ ({oldest.handle} \ left)
  <2>1. node.handle = handle
    BY DEF NewNode
  <2>2. \A n : HandlesOf({n}) = {n.handle}
    BY DEF HandlesOf
  <2> QED
    BY <1>1, <2>1, <2>2 DEF EvictAndAppendSession, FirstAbortable, DeleteHuksInitInfo
<1>3. /\ UNCHANGED <<opener, signatures>>
      /\ faults' = faults + Cardinality(left)
      /\ thread[t].pc = "opened" /\ thread'[t].pc = "idle"
      /\ \A u \in Threads \ {t} : thread'[u] = thread[u]
  BY <1>1 DEF EvictAndAppendSession, InitCreateEvict, Fail, Goto, Idle, RInv, IInv,
              TypeOK, ThreadTypeOK
<1>4. /\ handle \in liveOps /\ handle \in DOMAIN opener /\ handle \in Handles
      /\ ~InTable(handle)
      /\ \A u \in Threads \ {t} : thread[u].pc # "idle" => thread[u].handle # handle
  BY <1>0, <1>3 DEF RInv, IInv, OpenedIsPrivate, NoForeignUse, TypeOK, SessionTypeOK
<1>5. /\ oldest.handle # handle
      /\ oldest.handle \in DOMAIN opener
      /\ oldest.handle \in Handles
      /\ \A n \in sessionList : n.handle = oldest.handle => n = oldest
  BY <1>4 DEF RInv, IInv, TableIsByHandle, TypeOK, SessionTypeOK, InTable
<1>6. PhaseOf(handle) = "opening" /\ PhaseOf(handle)' = "usable"
  <2>1. Opening(handle) /\ InTable(handle)'
    BY <1>0, <1>2, <1>3 DEF Opening, InTable
  <2> QED
    BY <1>2, <1>3, <1>4, <1>5, <2>1, PhaseCases
<1>7. /\ PhaseOf(oldest.handle) = IF oldest.handle \in liveOps THEN "usable"
                                  ELSE "closed"
      /\ PhaseOf(oldest.handle)' = IF oldest.handle \in left THEN "lost" ELSE "closed"
  <2>1. InTable(oldest.handle) /\ ~InTable(oldest.handle)'
    BY <1>2, <1>5 DEF InTable
  <2>2. ~Opening(oldest.handle)'
    <3>1. ASSUME NEW u \in Threads, thread'[u].pc = "opened",
                 thread'[u].handle = oldest.handle
          PROVE  FALSE
      BY <1>3, <2>1, <3>1 DEF RInv, IInv, OpenedIsPrivate
    <3> QED
      BY <3>1 DEF Opening
  <2> QED
    BY <1>1, <1>2, <1>3, <1>5, <2>1, <2>2, PhaseCases
<1>8. \A h \in Handles \ {handle, oldest.handle} : PhaseOf(h)' = PhaseOf(h)
  <2> SUFFICES ASSUME NEW h \in Handles \ {handle, oldest.handle}
               PROVE  PhaseOf(h)' = PhaseOf(h)
    OBVIOUS
  <2>1. Opening(h)' <=> Opening(h)
    BY <1>0, <1>3 DEF Opening
  <2>2. InTable(h)' <=> InTable(h)
    BY <1>2 DEF InTable
  <2> QED
    BY <1>2, <1>3, <2>1, <2>2, PhaseCases
<1> DEFINE usable == Lifecycle!In("usable")
           victim == usable \cap {oldest.handle}
<1>9. victim \in {{}} \cup {{g} : g \in usable} /\ left \in SUBSET victim
  BY <1>1, <1>2, <1>5, <1>7 DEF Lifecycle!In
<1>10. Cardinality(usable \ victim) < MaxOperationsCount
  <2>1. usable \ victim \subseteq HandlesOf(sessionList \ {oldest})
    BY PhaseCases DEF Lifecycle!In, HandlesOf, InTable
  <2>2. Cardinality(sessionList \ {oldest}) = Cardinality(sessionList) - 1
    BY FS_RemoveElement DEF RInv, IInv
  <2>3. Cardinality(sessionList) <= MaxOperationsCount /\ Cardinality(sessionList) \in Nat
    BY FS_CardinalityType DEF RInv, IInv, CountIsTableSize
  <2>4. /\ Cardinality(usable \ victim) <= Cardinality(sessionList \ {oldest})
        /\ Cardinality(usable \ victim) \in Nat
    BY <2>1, UsableAreFew
  <2> QED
    BY <2>2, <2>3, <2>4, MaxOperationsAssumption
<1>11. \A h \in Handles :
         PhaseOf(h)' = IF h = handle THEN "usable"
                       ELSE Lifecycle!After(h, victim, left)
  <2> SUFFICES ASSUME NEW h \in Handles
               PROVE  PhaseOf(h)' = IF h = handle THEN "usable"
                                    ELSE Lifecycle!After(h, victim, left)
    OBVIOUS
  <2>1. CASE h = handle
    BY <1>6, <2>1
  <2>2. CASE h = oldest.handle
    BY <1>5, <1>7, <2>2 DEF Lifecycle!In, Lifecycle!After
  <2>3. CASE h \notin {handle, oldest.handle}
    BY <1>2, <1>8, <2>3 DEF Lifecycle!After
  <2> QED
    BY <2>1, <2>2, <2>3
<1> HIDE DEF victim
<1>12. Lifecycle!Register(handle)
  BY <1>3, <1>4, <1>6, <1>9, <1>10, <1>11, SameCardinality DEF Lifecycle!Register
<1> QED
  BY <1>4, <1>12 DEF Lifecycle!LifecycleNext

\* There are no more lost operations after a step than failures.
LEMMA LossesAreAccounted ==
    ASSUME RInv'
    PROVE  Lifecycle!Accounted
<1>1. LeaksAreFaults' /\ Unreachable' = Lifecycle!In("lost")'
  BY UnreachableIsCounted, UnreachableIsLost
<1>2. Cardinality(Unreachable') = Lifecycle!Cardinality(Lifecycle!In("lost")')
  BY <1>1, SameCardinality
<1> QED
  BY <1>1, <1>2 DEF LeaksAreFaults, Lifecycle!Accounted

\* A creation that fails leaves the opened operation behind.
LEMMA CreateFailsIsLose ==
    ASSUME RInv, RInv', NEW t \in Threads, InitCreateFails(t) \/ InitReachesLimit(t)
    PROVE  Lifecycle!LifecycleNext
<1>0. PICK handle : handle = thread[t].handle
  OBVIOUS
<1>1. /\ UNCHANGED <<sessionList, opener, liveOps, signatures>>
      /\ faults' = faults + 1
      /\ thread[t].pc = "opened" /\ thread'[t].pc = "idle"
      /\ \A u \in Threads \ {t} : thread'[u] = thread[u]
  BY DEF InitCreateFails, InitReachesLimit, sessionVars, Goto, Idle, RInv, IInv,
         TypeOK, ThreadTypeOK
<1>2. /\ handle \in liveOps /\ handle \in DOMAIN opener /\ handle \in Handles
      /\ ~InTable(handle)
      /\ \A u \in Threads \ {t} : thread[u].pc # "idle" => thread[u].handle # handle
  BY <1>0, <1>1 DEF RInv, IInv, OpenedIsPrivate, NoForeignUse, TypeOK, SessionTypeOK
<1>3. PhaseOf(handle) = "opening" /\ PhaseOf(handle)' = "lost"
  <2>1. Opening(handle) /\ ~Opening(handle)' /\ ~InTable(handle)'
    BY <1>0, <1>1, <1>2 DEF Opening, InTable
  <2> QED
    BY <1>1, <1>2, <2>1, PhaseCases
<1>4. \A h \in Handles \ {handle} : PhaseOf(h)' = PhaseOf(h)
  <2> SUFFICES ASSUME NEW h \in Handles \ {handle} PROVE PhaseOf(h)' = PhaseOf(h)
    OBVIOUS
  <2>1. Opening(h)' <=> Opening(h)
    BY <1>0, <1>1 DEF Opening
  <2>2. InTable(h)' <=> InTable(h)
    BY <1>1 DEF InTable
  <2> QED
    BY <1>1, <2>1, <2>2, PhaseCases
<1>5. Lifecycle!Lose(handle)
  BY <1>1, <1>2, <1>3, <1>4, LossesAreAccounted DEF Lifecycle!Lose
<1> QED
  BY <1>2, <1>5 DEF Lifecycle!LifecycleNext

\* What CmDeleteSession does to phases: a usable operation is lost.
LEMMA DeleteChangesOne ==
    ASSUME RInv, NEW t \in Threads, NEW handle \in Handles,
           thread[t].pc \in {"checked", "ending"}, handle = thread[t].handle,
           CmDeleteSession(handle), UNCHANGED liveOps, Goto(t, Idle)
    PROVE  /\ UNCHANGED opener
           /\ \A h \in Handles \ {handle} : PhaseOf(h)' = PhaseOf(h)
           /\ PhaseOf(handle)' = IF PhaseOf(handle) = "usable" THEN "lost"
                                 ELSE PhaseOf(handle)
<1>1. /\ sessionList' = {n \in sessionList : n.handle # handle}
      /\ UNCHANGED opener
  BY CmDeleteSessionKeeps DEF RInv
<1>2. /\ thread[t].pc # "opened" /\ thread'[t].pc = "idle"
      /\ \A u \in Threads \ {t} : thread'[u] = thread[u]
  BY DEF Goto, Idle, RInv, IInv, TypeOK, ThreadTypeOK
<1>3. \A h : Opening(h)' <=> Opening(h)
  BY <1>2 DEF Opening
<1>4. \A h \in Handles \ {handle} : PhaseOf(h)' = PhaseOf(h)
  <2> SUFFICES ASSUME NEW h \in Handles \ {handle} PROVE PhaseOf(h)' = PhaseOf(h)
    OBVIOUS
  <2>1. InTable(h)' <=> InTable(h)
    BY <1>1 DEF InTable
  <2> QED
    BY <1>1, <1>3, <2>1, PhaseCases
<1>5. ~InTable(handle)'
  BY <1>1 DEF InTable
<1>6. ~Opening(handle)
  <2>1. ASSUME NEW u \in Threads, thread[u].pc = "opened", thread[u].handle = handle
        PROVE  FALSE
    BY <1>2, <2>1 DEF RInv, IInv, OpenedIsPrivate
  <2> QED
    BY <2>1 DEF Opening
<1>7. PhaseOf(handle)' = IF PhaseOf(handle) = "usable" THEN "lost" ELSE PhaseOf(handle)
  BY <1>1, <1>3, <1>5, <1>6, PhaseCases
<1> QED
  BY <1>1, <1>4, <1>7

\* CmDeleteSession loses an operation that is still open, and changes nothing a
\* client sees otherwise.
LEMMA DeleteIsLose ==
    ASSUME RInv, RInv', NEW t \in Threads, ProcessParamFails(t) \/ EndSession(t)
    PROVE  \/ Lifecycle!LifecycleNext
           \/ UNCHANGED <<[h \in Handles |-> PhaseOf(h)], opener, faults, signatures>>
<1>0. PICK handle : handle = thread[t].handle
  OBVIOUS
<1>1. /\ thread[t].pc \in {"checked", "ending"}
      /\ CmDeleteSession(handle)
      /\ Goto(t, Idle)
      /\ faults' \in {faults, faults + 1}
      /\ UNCHANGED <<liveOps, signatures>>
  BY <1>0 DEF ProcessParamFails, EndSession
<1>2. handle \in Handles
  BY <1>0, <1>1 DEF RInv, IInv, NoForeignUse, TypeOK, SessionTypeOK
<1>3. /\ UNCHANGED opener
      /\ \A h \in Handles \ {handle} : PhaseOf(h)' = PhaseOf(h)
      /\ PhaseOf(handle)' = IF PhaseOf(handle) = "usable" THEN "lost"
                            ELSE PhaseOf(handle)
  BY <1>0, <1>1, <1>2, DeleteChangesOne
<1>4. CASE PhaseOf(handle) = "usable"
  <2>1. Lifecycle!Lose(handle)
    BY <1>1, <1>2, <1>3, <1>4, LossesAreAccounted DEF Lifecycle!Lose
  <2> QED
    BY <1>2, <2>1 DEF Lifecycle!LifecycleNext
<1>5. CASE PhaseOf(handle) # "usable"
  <2>1. \A h \in Handles : PhaseOf(h)' = PhaseOf(h)
    BY <1>3, <1>5
  <2>2. faults' = faults + 1 => Lifecycle!Fail
    BY <1>1, <1>3, <2>1 DEF Lifecycle!Fail
  <2> QED
    BY <1>1, <1>3, <2>1, <2>2 DEF Lifecycle!LifecycleNext
<1> QED
  BY <1>4, <1>5

\* A call of HUKS that fails is a failure; the operation is still usable.
LEMMA StaysIsFail ==
    ASSUME RInv, NEW t \in Threads, OperationStays(t)
    PROVE  Lifecycle!LifecycleNext
<1>1. PICK call : Goto(t, call) /\ call.pc = "ending"
  BY DEF OperationStays
<1>2. /\ thread[t].pc = "checked" /\ faults' = faults + 1
      /\ UNCHANGED <<sessionList, opener, liveOps, signatures>>
  BY DEF OperationStays, sessionVars
<1>3. \A h \in Handles : PhaseOf(h)' = PhaseOf(h)
  BY <1>1, <1>2, ReturnChangesNothing
<1> QED
  BY <1>2, <1>3 DEF Lifecycle!Fail, Lifecycle!LifecycleNext

\* The HUKS call that consumes an operation closes it, if it was still open.
LEMMA ConsumeIsClose ==
    ASSUME RInv, NEW t \in Threads, FinishSucceeds(t) \/ OperationEnds(t)
    PROVE  \/ Lifecycle!LifecycleNext
           \/ UNCHANGED <<[h \in Handles |-> PhaseOf(h)], opener, faults, signatures>>
<1>0. PICK handle : handle = thread[t].handle
  OBVIOUS
<1>1. /\ liveOps' = liveOps \ {handle}
      /\ UNCHANGED <<sessionList, opener, faults>>
      /\ signatures' \in {signatures, signatures \cup {handle}}
      /\ handle \notin liveOps => signatures' = signatures
      /\ thread[t].pc = "checked" /\ thread'[t].pc = "ending"
      /\ \A u \in Threads \ {t} : thread'[u] = thread[u]
  BY <1>0 DEF FinishSucceeds, OperationEnds, Goto, RInv, IInv, TypeOK, ThreadTypeOK
<1>2. handle \in Handles /\ handle \in DOMAIN opener
  BY <1>0, <1>1 DEF RInv, IInv, NoForeignUse, TypeOK, SessionTypeOK
<1>3. \A h : (Opening(h)' <=> Opening(h)) /\ (InTable(h)' <=> InTable(h))
  BY <1>1 DEF Opening, InTable
<1>4. ~Opening(handle)
  <2>1. ASSUME NEW u \in Threads, thread[u].pc = "opened", thread[u].handle = handle
        PROVE  FALSE
    BY <1>0, <1>1, <2>1 DEF RInv, IInv, OpenedIsPrivate
  <2> QED
    BY <2>1 DEF Opening
<1>5. \A h \in Handles \ {handle} : PhaseOf(h)' = PhaseOf(h)
  BY <1>1, <1>3, PhaseCases
<1>6. PhaseOf(handle)' = "closed"
  BY <1>1, <1>2, PhaseCases
<1>7. CASE handle \in liveOps
  <2>1. PhaseOf(handle) \in {"usable", "lost"}
    BY <1>2, <1>4, <1>7, PhaseCases
  <2>2. Lifecycle!Close(handle)
    BY <1>1, <1>2, <1>5, <1>6, <2>1 DEF Lifecycle!Close
  <2> QED
    BY <1>2, <2>2 DEF Lifecycle!LifecycleNext
<1>8. CASE handle \notin liveOps
  <2>1. PhaseOf(handle) = "closed"
    BY <1>2, <1>8, PhaseCases
  <2>2. \A h \in Handles : PhaseOf(h)' = PhaseOf(h)
    BY <1>5, <1>6, <2>1
  <2> QED
    BY <1>1, <1>8, <2>2
<1> QED
  BY <1>7, <1>8

\* A removal event takes every usable operation it concerns away, and no other.
LEMMA RemoveSessionsIsRemoveAll ==
    ASSUME RInv, RemoveSessions
    PROVE  Lifecycle!LifecycleNext
<1>1. PICK type \in DeleteTypes, caller \in Callers, uri \in Uris,
           left \in SUBSET liveOps :
         CmDeleteSessionByNodeInfo(type, caller, uri, left) /\ Fail(left)
  BY DEF RemoveSessions
<1> DEFINE who == [caller |-> caller, uri |-> uri]
           matching == {node \in sessionList : IsNeedDelete(type, caller, uri, node)}
           gone == Lifecycle!Concerned(type, who)
<1>2. /\ sessionList' = sessionList \ matching
      /\ left \subseteq HandlesOf(matching)
      /\ liveOps' = liveOps \ (HandlesOf(matching) \ left)
      /\ faults' = faults + Cardinality(left)
      /\ UNCHANGED <<opener, thread, signatures>>
  BY <1>1 DEF CmDeleteSessionByNodeInfo, RemoveSessions, RemoveNodes,
              DeleteHuksInitInfo, Fail
<1>3. who \in Lifecycle!Holders /\ type \in {"BY_USERID", "BY_UID", "BY_URI", "BY_ALL"}
  BY DEF Lifecycle!Holders, Callers, DeleteTypes
<1>4. ASSUME NEW h \in Handles
      PROVE  /\ PhaseOf(h)' = Lifecycle!After(h, gone, left)
             /\ h \in left => h \in gone
  <2>1. Opening(h)' <=> Opening(h)
    BY <1>2 DEF Opening
  <2>2. CASE ~InTable(h)
    <3>1. PhaseOf(h) # "usable"
      BY <2>2, PhaseCases
    <3>2. h \notin HandlesOf(matching) /\ ~InTable(h)'
      BY <1>2, <2>2 DEF HandlesOf, InTable
    <3>3. h \notin left /\ h \notin gone
      BY <1>2, <3>1, <3>2 DEF Lifecycle!Concerned, Lifecycle!In
    <3> HIDE DEF gone, matching
    <3> QED
      BY <1>2, <2>1, <2>2, <3>1, <3>2, <3>3, PhaseCases DEF Lifecycle!After
  <2>3. CASE InTable(h)
    <3>1. PICK node \in sessionList : node.handle = h
      BY <2>3 DEF InTable
    <3>2. /\ h \in DOMAIN opener
          /\ opener[h] = [caller |-> node.caller, uri |-> node.uri]
          /\ \A n \in sessionList : n.handle = h => n = node
      BY <3>1 DEF RInv, IInv, TableIsByHandle
    <3>3. h \in gone <=> PhaseOf(h) = "usable" /\ node \in matching
      <4>1. /\ opener[h].caller = node.caller /\ opener[h].uri = node.uri
            /\ opener[h] = who <=> node.caller = caller /\ node.uri = uri
        BY <3>2
      <4>2. h \in Lifecycle!Concerned(type, who)
                <=> PhaseOf(h) = "usable" /\ IsNeedDelete(type, caller, uri, node)
        <5>1. CASE type = "BY_USERID"
          BY <4>1, <5>1 DEF Lifecycle!Concerned, Lifecycle!In, IsNeedDelete
        <5>2. CASE type = "BY_UID"
          BY <4>1, <5>2 DEF Lifecycle!Concerned, Lifecycle!In, IsNeedDelete
        <5>3. CASE type = "BY_URI"
          BY <4>1, <5>3 DEF Lifecycle!Concerned, Lifecycle!In, IsNeedDelete
        <5>4. CASE type = "BY_ALL"
          BY <4>1, <5>4 DEF Lifecycle!Concerned, Lifecycle!In, IsNeedDelete
        <5> QED
          BY <1>3, <5>1, <5>2, <5>3, <5>4
      <4> QED
        BY <4>2
    <3>4. h \in HandlesOf(matching) <=> node \in matching
      BY <3>1, <3>2 DEF HandlesOf
    <3>5. InTable(h)' <=> node \notin matching
      BY <1>2, <3>1, <3>2 DEF InTable
    <3>6. ~Opening(h)
      <4>1. ASSUME NEW u \in Threads, thread[u].pc = "opened", thread[u].handle = h
            PROVE  FALSE
        BY <2>3, <4>1 DEF RInv, IInv, OpenedIsPrivate
      <4> QED
        BY <4>1 DEF Opening
    <3> HIDE DEF matching, gone
    <3>7. h \in left => h \in gone
      BY <1>1, <1>2, <2>3, <3>2, <3>3, <3>4, PhaseCases
    <3> QED
      BY <1>1, <1>2, <2>1, <2>3, <3>2, <3>3, <3>4, <3>5, <3>6, <3>7, PhaseCases
         DEF Lifecycle!After
  <2> QED
    BY <2>2, <2>3
<1>5. Lifecycle!RemoveAll(type, who)
  <2>1. left \in SUBSET gone
    BY <1>1, <1>4 DEF RInv, IInv, TypeOK, SessionTypeOK
  <2> HIDE DEF gone
  <2>2. [h \in Handles |-> PhaseOf(h)]' = [h \in Handles |-> Lifecycle!After(h, gone, left)]
    BY <1>4
  <2> QED
    BY <1>2, <2>1, <2>2, SameCardinality DEF Lifecycle!RemoveAll, gone
<1> QED
  BY <1>3, <1>5 DEF Lifecycle!LifecycleNext

\* A step of the threads is a step of the life cycle, or none of its variables
\* change.
LEMMA StepSimulates ==
    ASSUME RInv, RInv', [Next]_vars
    PROVE  [Lifecycle!LifecycleNext]_(Lifecycle!lifecycleVars)
<1> DEFINE Unchanged == UNCHANGED <<[h \in Handles |-> PhaseOf(h)], opener, faults,
                                    signatures>>
<1>1. Unchanged => UNCHANGED Lifecycle!lifecycleVars
  BY DEF Lifecycle!lifecycleVars
<1> HIDE DEF Unchanged
<1>2. ASSUME NEW t \in Threads, ThreadStep(t)
      PROVE  Lifecycle!LifecycleNext \/ Unchanged
  <2>1. CASE InitOpen(t)
    BY <2>1, InitOpenIsOpen
  <2>2. CASE InitCreate(t)
    BY <2>2, InitCreateIsRegister
  <2>3. CASE InitCreateEvict(t)
    BY <2>3, InitCreateEvictIsRegister
  <2>4. CASE InitCreateFails(t) \/ InitReachesLimit(t)
    BY <2>4, CreateFailsIsLose
  <2>5. CASE ProcessQuery(t)
    <3>1. PICK call : Goto(t, call) /\ call.pc = "checked"
      BY <2>5 DEF ProcessQuery
    <3>2. /\ thread[t].pc = "idle"
          /\ UNCHANGED <<sessionList, opener, liveOps, faults, signatures>>
      BY <2>5 DEF ProcessQuery, sessionVars
    <3>3. \A h \in Handles : PhaseOf(h)' = PhaseOf(h)
      BY <3>1, <3>2, ReturnChangesNothing
    <3> QED
      BY <3>2, <3>3 DEF Unchanged
  <2>6. CASE UpdateSucceeds(t)
    <3>1. /\ thread[t].pc = "checked" /\ Goto(t, Idle) /\ Idle.pc = "idle"
          /\ UNCHANGED <<sessionList, opener, liveOps, faults, signatures>>
      BY <2>6 DEF UpdateSucceeds, sessionVars, Idle
    <3>2. \A h \in Handles : PhaseOf(h)' = PhaseOf(h)
      BY <3>1, ReturnChangesNothing
    <3> QED
      BY <3>1, <3>2 DEF Unchanged
  <2>7. CASE ProcessParamFails(t) \/ EndSession(t)
    BY <2>7, DeleteIsLose DEF Unchanged
  <2>8. CASE FinishSucceeds(t) \/ OperationEnds(t)
    BY <2>8, ConsumeIsClose DEF Unchanged
  <2>9. CASE OperationStays(t)
    BY <2>9, StaysIsFail
  <2> QED
    BY <1>2, <2>1, <2>2, <2>3, <2>4, <2>5, <2>6, <2>7, <2>8, <2>9 DEF ThreadStep
<1>3. CASE RemoveSessions
  BY <1>3, RemoveSessionsIsRemoveAll
<1>4. CASE UNCHANGED vars
  <2>1. \A h \in Handles : PhaseOf(h)' = PhaseOf(h)
    BY <1>4, PhaseCases DEF vars, sessionVars, InTable, Opening
  <2> QED
    BY <1>1, <1>4, <2>1 DEF vars, sessionVars, Unchanged
<1> QED
  BY <1>1, <1>2, <1>3, <1>4 DEF Next

\* At the beginning nothing has been opened.
LEMMA InitSimulates ==
    ASSUME Init
    PROVE  Lifecycle!LifecycleInit
<1>1. opener = [h \in {} |-> 0] /\ faults = 0 /\ signatures = {}
  BY DEF Init, SessionInit
<1>2. \A h \in Handles : PhaseOf(h) = "none"
  BY <1>1, PhaseCases
<1> QED
  BY <1>1, <1>2 DEF Lifecycle!LifecycleInit

\* The threads, the table and the gaps between its locked sections implement
\* the life cycle a client relies on: what is closed stays closed, a removal
\* leaves nothing it concerns usable, registering displaces at most one operation,
\* and what is still open without a name was left so by a failure of its own.
THEOREM LifecycleImplemented == Spec => ImplementsLifecycle
<1>1. Init => Lifecycle!LifecycleInit
  BY InitSimulates
<1>2. RInv /\ RInv' /\ [Next]_vars => [Lifecycle!LifecycleNext]_(Lifecycle!lifecycleVars)
  BY StepSimulates
<1> QED
  BY <1>1, <1>2, RefinementInvariant, PTL
     DEF Spec, ImplementsLifecycle, Lifecycle!LifecycleSpec

-----------------------------------------------------------------------------
(* Who is evicted.                                                         *)

\* An action takes sessions away for one it adds only when the table is full,
\* and then the oldest that may be aborted.
THEOREM OldestIsEvicted == Spec => EvictsOldest
<1> DEFINE Eviction ==
        \A n \in sessionList \ sessionList' :
          sessionList' \ sessionList # {} =>
              /\ n.abortable
              /\ Cardinality(sessionList) = MaxOperationsCount
              /\ \A m \in sessionList : m.abortable => n.ticket <= m.ticket
<1>1. IInv /\ [Next]_vars => [Eviction]_vars
  <2> SUFFICES ASSUME IInv, [Next]_vars PROVE Eviction \/ UNCHANGED vars
    OBVIOUS
  <2>1. CASE \/ sessionList \subseteq sessionList'
             \/ sessionList' \subseteq sessionList
    BY <2>1
  <2>2. ASSUME NEW t \in Threads, InitCreateEvict(t) PROVE Eviction
    <3>1. PICK oldest \in FirstAbortable :
             \E node : sessionList' = (sessionList \ {oldest}) \cup {node}
      BY <2>2 DEF InitCreateEvict, EvictAndAppendSession
    <3>2. sessionCount >= MaxOperationsCount
      BY <2>2 DEF InitCreateEvict, EvictAndAppendSession
    <3>3. Cardinality(sessionList) = MaxOperationsCount
      BY <3>2, FS_CardinalityType, MaxOperationsAssumption
         DEF IInv, CountIsTableSize
    <3> QED
      BY <3>1, <3>3 DEF FirstAbortable
  <2>3. ASSUME NEW t \in Threads, ThreadStep(t), ~InitCreateEvict(t)
        PROVE  \/ sessionList \subseteq sessionList'
               \/ sessionList' \subseteq sessionList
    <3>1. CASE InitCreate(t)
      BY <3>1 DEF InitCreate, AppendSession
    <3>2. CASE ProcessParamFails(t) \/ EndSession(t)
      BY <3>2 DEF ProcessParamFails, EndSession, CmDeleteSession, RemoveNodes
    <3>3. CASE UNCHANGED sessionList
      BY <3>3
    <3> QED
      BY <2>3, <3>1, <3>2, <3>3
         DEF ThreadStep, InitOpen, HksInit, InitCreateFails, InitReachesLimit,
             ProcessQuery, UpdateSucceeds, FinishSucceeds, OperationEnds,
             OperationStays, sessionVars
  <2>4. CASE RemoveSessions
    BY <2>1, <2>4 DEF RemoveSessions, CmDeleteSessionByNodeInfo, RemoveNodes
  <2> QED
    BY <2>1, <2>2, <2>3, <2>4 DEF Next
<1> QED
  BY <1>1, InductiveInvariant, PTL DEF Spec, EvictsOldest
=============================================================================
