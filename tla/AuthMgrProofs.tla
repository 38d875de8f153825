--------------------------- MODULE AuthMgrProofs ---------------------------
(***************************************************************************)
(* Proofs about AuthMgr: the lock and the grants, for any number of        *)
(* threads, applications, credentials and storage levels, and any number   *)
(* of failing operations and deaths of the service.                        *)
(***************************************************************************)
EXTENDS AuthMgr, FiniteSetTheorems, TLAPS

InstallRequests == [pc : {"install_file", "install_row"}, uri : Uris, level : Levels]
GrantRequests ==
    [pc : {"grant_key", "grant_uid"}, uri : Uris, app : Uids, level : Levels]
UndoRequests == [pc : {"grant_clear"}, uri : Uris, app : Uids]
RevokeRequests ==
    [pc : {"revoke_key", "revoke_uid"}, uri : Uris, app : Uids, level : Levels,
     clearing : BOOLEAN]
RemovalRequests ==
    {request \in
        [pc : {"clear_wait", "clear_keys", "clear_list", "remove_row", "remove_file",
               "read_level"},
         uri : Uris, level : Levels \cup {NoLevel}, by : {"uninstall", "event", "all"},
         uid : Uids \cup {Nobody}, own : SUBSET Uris, left : SUBSET Uris] :
     \/ request.level \in Levels
     \/ request.pc = "clear_wait" /\ request.by = "event"
     \/ request.pc = "remove_row" /\ request.by = "uninstall"
     \/ request.pc \in {"remove_file", "read_level"}}
EventRequests ==
    [pc : {"event_key", "event_uid"}, uri : Uris, level : Levels, by : {"event"},
     uid : Uids, own : SUBSET Uris, left : SUBSET Uris]
LoopRequests ==
    {request \in [pc : {"all", "event"}, by : {"all", "event"}, uid : Uids \cup {Nobody},
                  own : SUBSET Uris, left : SUBSET Uris] : request.pc = request.by}

Requests ==
    {Idle} \cup InstallRequests \cup GrantRequests \cup UndoRequests \cup RevokeRequests
           \cup RemovalRequests \cup EventRequests \cup LoopRequests

GrantTypeOK ==
    /\ credFile \subseteq Uris
    /\ row \in [Uris -> Levels \cup {NoLevel}]
    /\ authList \in [Uris -> SUBSET Uids]
    /\ macKey \in [Uris -> [Uids -> [Levels -> 0..generations]]]
    /\ generations \in 0..MaxGrants
    /\ strayed \subseteq 1..generations
    /\ issued \subseteq [uri : Uris, app : Uids, gen : 1..generations]
    /\ revoked \subseteq issued
    /\ unclearedEvent \subseteq Uris
    /\ faults \in 0..MaxFaults
    /\ thread \in [Threads -> Requests]

\* g_authMgrLock is held by the one thread that stands in a critical section.
LockIsHeld ==
    /\ authLock \in Threads \cup {Nobody}
    /\ \A t \in Threads : authLock = t <=> thread[t].pc \in LockedPcs

\* A MAC key that never was at another level than the one a request looked at.
Reachable(uri, app, level) == macKey[uri][app][level] \notin strayed \cup {0}
Unreachable(uri, app) == \A level \in Levels : ~Reachable(uri, app, level)

\* Such a key is where whoever reads the row now will look for it.
KeysAreAtRowLevel ==
    \A uri \in Uris, app \in Uids, level \in Levels :
        Reachable(uri, app, level) => level = LevelOf(uri)

\* RevokedStaysRevoked and ValidTokenIsListed, whatever the row says now.
RevokedKeysAreGone ==
    \A authUri \in revoked, level \in Levels :
        macKey[authUri.uri][authUri.app][level] = authUri.gen => authUri.gen \in strayed
IssuedKeysAreListed ==
    \A authUri \in issued, level \in Levels :
        macKey[authUri.uri][authUri.app][level] = authUri.gen =>
            \/ authUri.app \in authList[authUri.uri]
            \/ authUri.uri \in unclearedEvent
            \/ authUri.gen \in strayed
TokensKept == KeysAreAtRowLevel /\ RevokedKeysAreGone /\ IssuedKeysAreListed

\* What a thread in a critical section relies on between its steps.
SectionKeeps(t) ==
    LET uri == thread[t].uri
    IN  /\ At(t, "grant_key") => generations < MaxGrants
        /\ At(t, "grant_uid") => macKey[uri][thread[t].app][thread[t].level] # 0
        /\ thread[t].pc \in {"revoke_key", "event_key"} =>
              \A app \in Uids, level \in Levels :
                  Reachable(uri, app, level) => level = thread[t].level
        /\ At(t, "revoke_uid") => Unreachable(uri, thread[t].app)
        /\ At(t, "clear_list") => \A app \in authList[uri] : Unreachable(uri, app)
        /\ At(t, "event_uid") => Unreachable(uri, thread[t].uid)

SectionsKeep == \A t \in Threads : SectionKeeps(t)

\* The grants for which list and keys may differ: one that is being made,
\* undone, revoked or cleared.
Undoing(t, uri, app) ==
    \/ /\ thread[t].pc \in {"grant_uid", "grant_clear", "revoke_key", "revoke_uid"}
       /\ thread[t].uri = uri /\ thread[t].app = app
    \/ At(t, "event_uid") /\ thread[t].uri = uri /\ thread[t].uid = app

Clearing(t, uri) == At(t, "clear_list") /\ thread[t].uri = uri

Matches(uri, app) ==
    /\ app \in authList[uri] => \E level \in Levels : macKey[uri][app][level] # 0
    /\ app \in authList[uri] \/ Unreachable(uri, app)

KeysMatch ==
    faults = 0 =>
        \A uri \in Uris \ unclearedEvent, app \in Uids :
            \/ Matches(uri, app)
            \/ \E t \in Threads : Undoing(t, uri, app)
            \/ Unreachable(uri, app) /\ \E t \in Threads : Clearing(t, uri)

IInv == GrantTypeOK /\ LockIsHeld /\ TokensKept /\ SectionsKeep /\ KeysMatch

-----------------------------------------------------------------------------
(* The request of one thread                                               *)

\* The request of one thread is replaced, the others stay.
LEMMA ThreadUpdated ==
    ASSUME thread \in [Threads -> Requests], NEW t \in Threads, NEW request \in Requests,
           Goto(t, request)
    PROVE  /\ thread' \in [Threads -> Requests]
           /\ thread'[t] = request
           /\ \A other \in Threads \ {t} : thread'[other] = thread[other]
  BY DEF Goto

\* What a request at each step carries.
LEMMA RequestOf ==
    ASSUME NEW request \in Requests
    PROVE  /\ request.pc \in {"install_file", "install_row"} => request \in InstallRequests
           /\ request.pc \in {"grant_key", "grant_uid"} => request \in GrantRequests
           /\ request.pc = "grant_clear" => request \in UndoRequests
           /\ request.pc \in {"revoke_key", "revoke_uid"} => request \in RevokeRequests
           /\ request.pc \in {"clear_wait", "clear_keys", "clear_list", "remove_row",
                              "remove_file", "read_level"} => request \in RemovalRequests
           /\ request.pc \in {"event_key", "event_uid"} => request \in EventRequests
           /\ request.pc \in {"all", "event"} => request \in LoopRequests
  BY DEF Requests, Idle, InstallRequests, GrantRequests, UndoRequests, RevokeRequests,
         RemovalRequests, EventRequests, LoopRequests

\* The storage level anybody reads is one.
LEMMA LevelOfIsLevel ==
    ASSUME IInv, NEW uri \in Uris
    PROVE  LevelOf(uri) \in Levels
  BY AuthAssumption DEF IInv, GrantTypeOK, LevelOf

\* Each kind of request, as the steps make it.
LEMMA MadeRequests ==
    ASSUME NEW uri \in Uris, NEW app \in Uids, NEW level \in Levels
    PROVE  /\ [pc |-> "install_file", uri |-> uri, level |-> level] \in Requests
           /\ [pc |-> "grant_key", uri |-> uri, app |-> app, level |-> level] \in Requests
           /\ [pc |-> "grant_clear", uri |-> uri, app |-> app] \in Requests
           /\ \A clearing \in BOOLEAN :
                 [pc |-> "revoke_key", uri |-> uri, app |-> app, level |-> level,
                  clearing |-> clearing] \in Requests
           /\ Idle \in Requests
  BY DEF Requests, Idle, InstallRequests, GrantRequests, UndoRequests, RevokeRequests

\* The next step of a request of each kind is one of the same kind.
LEMMA AdvancedRequest ==
    ASSUME NEW request \in Requests, NEW pc,
           \/ request.pc = "install_file" /\ pc = "install_row"
           \/ request.pc = "grant_key" /\ pc = "grant_uid"
           \/ request.pc = "revoke_key" /\ pc = "revoke_uid"
           \/ request.pc = "clear_keys" /\ pc = "clear_list"
           \/ /\ request.pc = "remove_row"
              /\ pc = IF request.by = "uninstall" THEN "remove_file" ELSE "clear_wait"
           \/ request.pc = "remove_file" /\ pc = "read_level"
           \/ request.pc = "event_key" /\ pc = "event_uid"
    PROVE  LET next == [request EXCEPT !.pc = pc]
           IN  /\ next \in Requests /\ next.pc = pc
               /\ next.uri = request.uri /\ next.level = request.level
               /\ pc \in {"grant_uid", "revoke_uid"} => next.app = request.app
               /\ pc = "event_uid" => next.uid = request.uid
<1>1. CASE request.pc = "install_file"
  BY <1>1, RequestOf DEF Requests, InstallRequests
<1>2. CASE request.pc = "grant_key"
  BY <1>2, RequestOf DEF Requests, GrantRequests
<1>3. CASE request.pc = "revoke_key"
  BY <1>3, RequestOf DEF Requests, RevokeRequests
<1>4. CASE request.pc \in {"clear_keys", "remove_row", "remove_file"}
  BY <1>4, RequestOf DEF Requests, RemovalRequests
<1>5. CASE request.pc = "event_key"
  BY <1>5, RequestOf DEF Requests, EventRequests
<1> QED
  BY <1>1, <1>2, <1>3, <1>4, <1>5

\* A request that is done with a credential ends or goes on with its loop.
LEMMA CredentialDoneIsRequest ==
    ASSUME NEW t \in Threads, thread[t] \in RemovalRequests \cup EventRequests, CredentialDone(t)
    PROVE  \E request \in Requests : Goto(t, request) /\ request.pc \in {"idle", "all", "event"}
<1> DEFINE old == thread[t]
           next == Removal(old.by, old.by, old.uid, old.own, old.left \ {old.uri})
<1>1. CASE old.by = "uninstall"
  <2>1. Goto(t, Idle)
    BY <1>1 DEF CredentialDone
  <2> QED
    BY <2>1 DEF Requests, Idle
<1>2. CASE old.by # "uninstall"
  <2>1. Goto(t, next)
    BY <1>2 DEF CredentialDone
  <2>2. /\ old.by \in {"event", "all"} /\ old.uid \in Uids \cup {Nobody}
        /\ old.own \in SUBSET Uris /\ old.left \in SUBSET Uris
    BY <1>2 DEF RemovalRequests, EventRequests
  <2>3. next \in LoopRequests /\ next.pc \in {"all", "event"}
    BY <2>2 DEF LoopRequests, Removal
  <2> QED
    BY <2>1, <2>3 DEF Requests
<1> QED
  BY <1>1, <1>2

\* The requests about one credential that a removal makes of another request.
LEMMA ForIsRequest ==
    ASSUME NEW request, NEW uri \in Uris, NEW level \in Levels \cup {NoLevel}, NEW pc,
           request.by \in {"uninstall", "event", "all"}, request.uid \in Uids \cup {Nobody},
           request.own \in SUBSET Uris, request.left \in SUBSET Uris,
           \/ pc \in {"clear_wait", "clear_keys", "remove_row"} /\ level \in Levels
           \/ pc = "clear_wait" /\ request.by = "event"
           \/ pc = "remove_row" /\ request.by = "uninstall"
           \/ pc = "remove_file"
           \/ pc = "event_key" /\ request.by = "event" /\ request.uid \in Uids
              /\ level \in Levels
    PROVE  LET next == For(uri, level, pc, request)
           IN  /\ next \in Requests /\ next.pc = pc /\ next.uri = uri /\ next.level = level
               /\ next.uid = request.uid
<1> DEFINE next == For(uri, level, pc, request)
<1>1. /\ next.pc = pc /\ next.uri = uri /\ next.level = level /\ next.by = request.by
      /\ next.uid = request.uid
  BY DEF For
<1>2. CASE pc = "event_key"
  BY <1>1, <1>2 DEF For, Requests, EventRequests
<1>3. CASE pc # "event_key"
  <2>1. next \in RemovalRequests
    BY <1>1, <1>3 DEF For, RemovalRequests
  <2> QED
    BY <1>1, <2>1 DEF Requests
<1> QED
  BY <1>2, <1>3

\* The request a removal goes on with once the grants of a credential are
\* dealt with.
LEMMA ClearDoneIsRequest ==
    ASSUME NEW t \in Threads, thread[t] \in RemovalRequests, ClearDone(t)
    PROVE  \E request \in Requests :
              /\ Goto(t, request)
              /\ request.pc \in {"idle", "all", "event", "remove_row", "remove_file"}
<1>1. CASE thread[t].by = "all"
  BY <1>1, CredentialDoneIsRequest DEF ClearDone
<1>2. CASE thread[t].by # "all"
  <2>1. PICK pc \in {"remove_row", "remove_file"} :
           /\ Goto(t, For(thread[t].uri, NoLevel, pc, thread[t]))
           /\ pc = "remove_row" => thread[t].by = "uninstall"
    BY <1>2 DEF ClearDone
  <2>2. /\ thread[t].uri \in Uris /\ thread[t].by \in {"uninstall", "event", "all"}
        /\ thread[t].uid \in Uids \cup {Nobody}
        /\ thread[t].own \in SUBSET Uris /\ thread[t].left \in SUBSET Uris
    BY DEF RemovalRequests
  <2>3. PICK old : old = thread[t]
    OBVIOUS
  <2>4. \/ pc = "remove_row" /\ old.by = "uninstall"
        \/ pc = "remove_file"
    BY <2>1, <2>3
  <2>5. /\ For(old.uri, NoLevel, pc, old) \in Requests
        /\ For(old.uri, NoLevel, pc, old).pc = pc
    BY <2>2, <2>3, <2>4, ForIsRequest
  <2> QED
    BY <2>1, <2>3, <2>5
<1> QED
  BY <1>1, <1>2

-----------------------------------------------------------------------------
(* Steps that leave lists, keys and histories alone                        *)

\* A row that is replaced or deleted leaves no key at another level unnoticed.
LEMMA RowChanges ==
    ASSUME IInv, NEW uri \in Uris, NEW level \in Levels \cup {NoLevel}, SetRow(uri, level),
           UNCHANGED <<macKey, generations>>
    PROVE  /\ row' \in [Uris -> Levels \cup {NoLevel}]
           /\ strayed \subseteq strayed' /\ strayed' \subseteq 1..generations
           /\ KeysAreAtRowLevel'
<1> DEFINE read == IF level = NoLevel THEN EL1 ELSE level
<1>1. /\ row' = [row EXCEPT ![uri] = level]
      /\ strayed' = strayed \cup Elsewhere(uri, Uids, read)
      /\ row \in [Uris -> Levels \cup {NoLevel}]
      /\ \A u \in Uris, a \in Uids, l \in Levels : macKey[u][a][l] \in 0..generations
      /\ strayed \subseteq 1..generations /\ generations \in Nat
  BY DEF SetRow, IInv, GrantTypeOK
<1>2. /\ LevelOf(uri)' = read
      /\ \A u \in Uris \ {uri} : LevelOf(u)' = LevelOf(u)
  BY <1>1 DEF LevelOf
<1> HIDE DEF read
<1>3. strayed' \subseteq 1..generations
  <2> SUFFICES ASSUME NEW gen \in Elsewhere(uri, Uids, read) PROVE gen \in 1..generations
    BY <1>1
  <2>1. PICK a \in Uids, l \in Levels : gen = macKey[uri][a][l] /\ gen # 0
    BY DEF Elsewhere
  <2>2. gen \in 0..generations
    BY <1>1, <2>1
  <2> QED
    BY <1>1, <2>1, <2>2
<1>4. KeysAreAtRowLevel'
  <2> SUFFICES ASSUME NEW u \in Uris, NEW a \in Uids, NEW l \in Levels, Reachable(u, a, l)'
               PROVE  l = LevelOf(u)'
    BY DEF KeysAreAtRowLevel
  <2>1. Reachable(u, a, l) /\ macKey[u][a][l] # 0 /\ macKey[u][a][l] \notin strayed'
    BY <1>1 DEF Reachable
  <2>2. CASE u = uri
    BY <1>1, <1>2, <2>1, <2>2 DEF Elsewhere
  <2>3. CASE u # uri
    BY <1>2, <2>1, <2>3 DEF IInv, TokensKept, KeysAreAtRowLevel
  <2> QED
    BY <2>2, <2>3
<1> QED
  BY <1>1, <1>3, <1>4

\* A step of control: the lock is kept, taken or released with the critical
\* section, and a grant that is being undone stays so.
LEMMA ControlKeeps ==
    ASSUME IInv, NEW t \in Threads, NEW request \in Requests, Goto(t, request),
           request.pc \notin {"grant_uid", "revoke_uid", "clear_list", "event_uid"},
           request.pc \in {"revoke_key", "event_key"} =>
              /\ request.uri \in Uris /\ request.level = LevelOf(request.uri)
              /\ UNCHANGED <<row, strayed>>,
           request.pc = "grant_key" => generations < MaxGrants,
           \/ authLock' = authLock /\ (thread[t].pc \in LockedPcs <=> request.pc \in LockedPcs)
           \/ Acquire(t) /\ request.pc \in LockedPcs
           \/ Release /\ thread[t].pc \in LockedPcs /\ request.pc \notin LockedPcs,
           \/ Fault
           \/ /\ thread[t].pc \notin {"grant_uid", "grant_clear", "revoke_key", "revoke_uid",
                                      "event_uid", "clear_list"}
              /\ faults' = faults
           \/ /\ thread[t].pc \in {"grant_uid", "grant_clear"}
              /\ request.pc \in {"grant_clear", "revoke_key"}
              /\ request.uri = thread[t].uri /\ request.app = thread[t].app
              /\ faults' = faults,
           credFile' \subseteq Uris,
           \/ UNCHANGED <<row, strayed>>
           \/ \E uri \in Uris, level \in Levels \cup {NoLevel} : SetRow(uri, level),
           UNCHANGED <<authList, macKey, generations, issued, revoked, unclearedEvent>>
    PROVE  IInv'
<1>1. /\ thread \in [Threads -> Requests]
      /\ faults \in Nat /\ faults' \in 0..MaxFaults /\ (faults' = 0 => faults = 0 /\ ~Fault)
  BY AuthAssumption DEF IInv, GrantTypeOK, Fault
<1>2. /\ thread' \in [Threads -> Requests]
      /\ thread'[t] = request
      /\ \A other \in Threads \ {t} : thread'[other] = thread[other]
  BY <1>1, ThreadUpdated
<1>3. /\ row' \in [Uris -> Levels \cup {NoLevel}]
      /\ strayed \subseteq strayed' /\ strayed' \subseteq 1..generations
      /\ KeysAreAtRowLevel'
  <2>1. CASE UNCHANGED <<row, strayed>>
    BY <2>1 DEF IInv, GrantTypeOK, TokensKept, KeysAreAtRowLevel, Reachable, LevelOf
  <2>2. ASSUME NEW uri \in Uris, NEW level \in Levels \cup {NoLevel}, SetRow(uri, level)
        PROVE  <1>3!:
    BY <2>2, RowChanges
  <2> QED
    BY <2>1, <2>2
<1>4. GrantTypeOK'
  BY <1>1, <1>2, <1>3 DEF IInv, GrantTypeOK
<1>5. LockIsHeld'
  BY <1>2, AuthAssumption DEF IInv, LockIsHeld, Acquire, Release
<1>6. TokensKept'
  BY <1>3 DEF IInv, TokensKept, RevokedKeysAreGone, IssuedKeysAreListed
<1>7. /\ \A uri, app, level : Reachable(uri, app, level)' => Reachable(uri, app, level)
      /\ \A uri, app : Unreachable(uri, app) => Unreachable(uri, app)'
  BY <1>3 DEF Reachable, Unreachable
<1>8. SectionsKeep'
  <2> SUFFICES ASSUME NEW u \in Threads PROVE SectionKeeps(u)'
    BY DEF SectionsKeep
  <2>1. CASE u # t
    <3>1. SectionKeeps(u) /\ thread'[u] = thread[u]
      BY <1>2, <2>1 DEF IInv, SectionsKeep
    <3> QED
      BY <1>7, <3>1 DEF SectionKeeps, At
  <2>2. CASE u = t
    <3>1. request.pc \in {"revoke_key", "event_key"} =>
             \A app \in Uids, level \in Levels :
                 Reachable(request.uri, app, level)' => level = request.level
      BY <1>7 DEF IInv, TokensKept, KeysAreAtRowLevel
    <3> QED
      BY <1>2, <2>2, <3>1 DEF SectionKeeps, At
  <2> QED
    BY <2>1, <2>2
<1>9. KeysMatch'
  <2> SUFFICES ASSUME faults' = 0, NEW uri \in Uris \ unclearedEvent, NEW app \in Uids,
                      ~Matches(uri, app)'
               PROVE  \/ \E u \in Threads : Undoing(u, uri, app)'
                      \/ Unreachable(uri, app)' /\ \E u \in Threads : Clearing(u, uri)'
    BY DEF KeysMatch
  <2>1. ~Matches(uri, app)
    BY <1>7 DEF Matches
  <2>2. \/ \E u \in Threads : Undoing(u, uri, app)
        \/ Unreachable(uri, app) /\ \E u \in Threads : Clearing(u, uri)
    BY <1>1, <2>1 DEF IInv, KeysMatch
  <2>3. \A u \in Threads : Undoing(u, uri, app) => Undoing(u, uri, app)'
    BY <1>1, <1>2 DEF Undoing, At
  <2>4. \A u \in Threads : Clearing(u, uri) => Clearing(u, uri)'
    BY <1>1, <1>2 DEF Clearing, At
  <2> QED
    BY <1>7, <2>2, <2>3, <2>4
<1> QED
  BY <1>4, <1>5, <1>6, <1>8, <1>9 DEF IInv

\* Installing, and removing without the lock.
LEMMA StoreStepKeeps ==
    ASSUME IInv, NEW t \in Threads,
           \/ InstallBegin(t) \/ InstallFile(t) \/ InstallRow(t) \/ UninstallBegin(t)
           \/ RemoveRow(t) \/ RemoveFile(t) \/ RemoveFileFails(t) \/ ReadLevel(t)
           \/ RemoveRecordFails(t)
    PROVE  IInv'
<1>1. /\ UNCHANGED <<authList, macKey, generations, issued, revoked, unclearedEvent, authLock>>
      /\ UNCHANGED faults \/ Fault
  BY DEF InstallBegin, InstallFile, InstallRow, UninstallBegin, RemoveRow, RemoveFile,
         RemoveFileFails, ReadLevel, RemoveRecordFails, storeVars, historyVars
<1>2. /\ thread[t] \in Requests /\ credFile \subseteq Uris
      /\ thread[t].pc \in {"idle", "install_file", "install_row", "remove_row", "remove_file",
                           "read_level"}
  BY DEF IInv, GrantTypeOK, InstallBegin, InstallFile, InstallRow, UninstallBegin, RemoveRow,
         RemoveFile, RemoveFileFails, ReadLevel, RemoveRecordFails, At
<1>3. /\ thread[t].pc \in {"install_file", "install_row"} => thread[t] \in InstallRequests
      /\ thread[t].pc \in {"remove_row", "remove_file", "read_level"} =>
            thread[t] \in RemovalRequests
  BY <1>2, RequestOf
<1>4. \E request \in Requests :
         /\ Goto(t, request)
         /\ request.pc \in {"idle", "install_file", "install_row", "clear_wait", "remove_row",
                            "remove_file", "read_level", "all", "event"}
  <2>1. CASE InstallBegin(t)
    <3>1. PICK uri \in Uris, asked \in Levels :
             Goto(t, [pc |-> "install_file", uri |-> uri, level |-> asked])
      BY <2>1 DEF InstallBegin
    <3> QED
      BY <3>1, MadeRequests DEF Requests, InstallRequests
  <2>2. CASE Goto(t, Idle)
    BY <2>2 DEF Requests, Idle
  <2>3. CASE CredentialDone(t) /\ thread[t] \in RemovalRequests
    BY <2>3, CredentialDoneIsRequest
  <2>4. ASSUME NEW pc, Advance(t, pc),
               \/ thread[t].pc = "install_file" /\ pc = "install_row"
               \/ thread[t].pc = "remove_file" /\ pc = "read_level"
               \/ /\ thread[t].pc = "remove_row"
                  /\ pc = IF thread[t].by = "uninstall" THEN "remove_file" ELSE "clear_wait"
        PROVE  <1>4!:
    <3>1. [thread[t] EXCEPT !.pc = pc] \in Requests /\ [thread[t] EXCEPT !.pc = pc].pc = pc
      BY <1>2, <2>4, AdvancedRequest
    <3> QED
      BY <2>4, <3>1 DEF Advance
  <2>5. CASE UninstallBegin(t)
    <3>1. PICK uri \in Uris :
             Goto(t, For(uri, LevelOf(uri), "clear_wait",
                         Removal("", "uninstall", Nobody, {uri}, {uri})))
      BY <2>5 DEF UninstallBegin
    <3> DEFINE request == Removal("", "uninstall", Nobody, {uri}, {uri})
    <3>2. /\ request.by = "uninstall" /\ request.uid = Nobody
          /\ request.own = {uri} /\ request.left = {uri}
      BY DEF Removal
    <3>3. LevelOf(uri) \in Levels
      BY LevelOfIsLevel
    <3> HIDE DEF request
    <3>4. /\ For(uri, LevelOf(uri), "clear_wait", request) \in Requests
          /\ For(uri, LevelOf(uri), "clear_wait", request).pc = "clear_wait"
      BY <3>2, <3>3, ForIsRequest
    <3> QED
      BY <3>1, <3>4 DEF request
  <2>6. CASE ReadLevel(t)
    <3>1. PICK old : old = thread[t]
      OBVIOUS
    <3>2. /\ old \in RemovalRequests
          /\ Goto(t, For(old.uri, LevelOf(old.uri), "remove_row", old))
      BY <1>3, <2>6, <3>1 DEF ReadLevel, At
    <3>3. /\ old.uri \in Uris /\ old.by \in {"uninstall", "event", "all"}
          /\ old.uid \in Uids \cup {Nobody} /\ old.own \in SUBSET Uris
          /\ old.left \in SUBSET Uris /\ LevelOf(old.uri) \in Levels
      BY <3>2, LevelOfIsLevel DEF RemovalRequests
    <3>4. /\ For(old.uri, LevelOf(old.uri), "remove_row", old) \in Requests
          /\ For(old.uri, LevelOf(old.uri), "remove_row", old).pc = "remove_row"
      BY <3>3, ForIsRequest
    <3> QED
      BY <3>2, <3>4
  <2>7. CASE InstallFile(t) \/ InstallRow(t)
    BY <2>2, <2>4, <2>7 DEF InstallFile, InstallRow, At
  <2>8. CASE RemoveRow(t) \/ RemoveFile(t) \/ RemoveFileFails(t) \/ RemoveRecordFails(t)
    BY <1>3, <2>3, <2>4, <2>8 DEF RemoveRow, RemoveFile, RemoveFileFails, RemoveRecordFails, At
  <2> QED
    BY <2>1, <2>5, <2>6, <2>7, <2>8
<1>5. credFile' \subseteq Uris
  <2>1. CASE InstallFile(t)
    <3>1. thread[t].uri \in Uris
      BY <1>3, <2>1 DEF InstallFile, At, InstallRequests
    <3> QED
      BY <1>2, <2>1, <3>1 DEF InstallFile
  <2>2. CASE ~InstallFile(t)
    BY <1>2, <2>2 DEF InstallBegin, InstallRow, UninstallBegin, RemoveRow, RemoveFile,
                      RemoveFileFails, ReadLevel, RemoveRecordFails, storeVars
  <2> QED
    BY <2>1, <2>2
<1>6. \/ UNCHANGED <<row, strayed>>
      \/ \E uri \in Uris, level \in Levels \cup {NoLevel} : SetRow(uri, level)
  <2>1. CASE InstallRow(t)
    <3>1. thread[t].uri \in Uris /\ thread[t].level \in Levels
      BY <1>3, <2>1 DEF InstallRow, At, InstallRequests
    <3> QED
      BY <2>1, <3>1 DEF InstallRow
  <2>2. CASE RemoveRow(t)
    <3>1. thread[t].uri \in Uris
      BY <1>3, <2>2 DEF RemoveRow, At, RemovalRequests
    <3> QED
      BY <2>2, <3>1 DEF RemoveRow
  <2>3. CASE ~InstallRow(t) /\ ~RemoveRow(t)
    BY <2>3 DEF InstallBegin, InstallFile, UninstallBegin, RemoveFile, RemoveFileFails,
                ReadLevel, RemoveRecordFails, storeVars, historyVars
  <2> QED
    BY <2>1, <2>2, <2>3
<1> QED
  BY <1>1, <1>2, <1>4, <1>5, <1>6, ControlKeeps DEF LockedPcs

\* The loops over the credentials of who is gone, outside of the lock.
LEMMA LoopStepKeeps ==
    ASSUME IInv, NEW t \in Threads,
           \/ RemoveAllBegin(t) \/ RemoveAllStep(t)
           \/ EventBegin(t) \/ EventOwnFile(t) \/ EventSkip(t)
    PROVE  IInv'
<1>1. /\ UNCHANGED <<credFile, row, authList, macKey, generations, issued, revoked,
                     unclearedEvent, strayed, authLock>>
      /\ UNCHANGED faults \/ Fault
  BY DEF RemoveAllBegin, RemoveAllStep, EventBegin, EventOwnFile, EventSkip, storeVars,
         historyVars
<1>2. /\ thread[t] \in Requests /\ credFile \subseteq Uris
      /\ thread[t].pc \in {"idle", "all", "event"}
  BY DEF IInv, GrantTypeOK, RemoveAllBegin, RemoveAllStep, EventBegin, EventOwnFile,
         EventSkip, At
<1>3. thread[t].pc \in {"all", "event"} => thread[t] \in LoopRequests
  BY <1>2, RequestOf
<1>4. \E request \in Requests :
         /\ Goto(t, request)
         /\ request.pc \in {"idle", "clear_wait", "remove_file", "all", "event"}
  <2>1. CASE RemoveAllBegin(t)
    <3>1. PICK uid \in Uids, own \in SUBSET credFile :
             Goto(t, Removal("all", "all", uid, own, own))
      BY <2>1 DEF RemoveAllBegin
    <3>2. /\ Removal("all", "all", uid, own, own) \in LoopRequests
          /\ Removal("all", "all", uid, own, own).pc = "all"
      BY <1>2 DEF Removal, LoopRequests
    <3> QED
      BY <3>1, <3>2 DEF Requests
  <2>2. CASE EventBegin(t)
    <3>1. PICK uid \in Uids \cup {Nobody}, own \in SUBSET Uris :
             Goto(t, Removal("event", "event", uid, own, credFile))
      BY <2>2 DEF EventBegin
    <3>2. /\ Removal("event", "event", uid, own, credFile) \in LoopRequests
          /\ Removal("event", "event", uid, own, credFile).pc = "event"
      BY <1>2 DEF Removal, LoopRequests
    <3> QED
      BY <3>1, <3>2 DEF Requests
  <2>3. CASE RemoveAllStep(t) \/ EventOwnFile(t)
    <3>1. thread[t] \in LoopRequests
      BY <1>3, <2>3 DEF RemoveAllStep, EventOwnFile, At
    <3>2. CASE Goto(t, Idle)
      BY <3>2 DEF Requests, Idle
    <3>3. CASE ~Goto(t, Idle)
      <4>1. PICK old : old = thread[t]
        OBVIOUS
      <4>2. PICK uri \in old.left, pc \in {"clear_wait", "remove_file"} :
               /\ Goto(t, For(uri, NoLevel, pc, old))
               /\ pc = "clear_wait" => old.pc = "event"
        BY <2>3, <3>3, <4>1 DEF RemoveAllStep, EventOwnFile, At
      <4>3. /\ uri \in Uris /\ old.by \in {"all", "event"} /\ old.uid \in Uids \cup {Nobody}
            /\ old.own \in SUBSET Uris /\ old.left \in SUBSET Uris
            /\ pc = "clear_wait" => old.by = "event"
        BY <3>1, <4>1, <4>2 DEF LoopRequests
      <4>4. For(uri, NoLevel, pc, old) \in Requests /\ For(uri, NoLevel, pc, old).pc = pc
        BY <4>3, ForIsRequest
      <4> QED
        BY <4>2, <4>4
    <3> QED
      BY <3>2, <3>3
  <2>4. CASE EventSkip(t)
    <3>1. PICK uri \in thread[t].left : Goto(t, [thread[t] EXCEPT !.left = @ \ {uri}])
      BY <2>4 DEF EventSkip
    <3>2. thread[t] \in LoopRequests
      BY <1>3, <2>4 DEF EventSkip, At
    <3>3. /\ [thread[t] EXCEPT !.left = @ \ {uri}] \in LoopRequests
          /\ [thread[t] EXCEPT !.left = @ \ {uri}].pc \in {"all", "event"}
      BY <3>2 DEF LoopRequests
    <3> QED
      BY <3>1, <3>3 DEF Requests
  <2> QED
    BY <2>1, <2>2, <2>3, <2>4
<1> QED
  BY <1>1, <1>2, <1>4, ControlKeeps DEF LockedPcs

-----------------------------------------------------------------------------
(* Taking and releasing the lock                                           *)

\* A request enters its critical section: the lock is taken, nothing else changes.
LEMMA AcquireKeeps ==
    ASSUME IInv, NEW t \in Threads,
           \/ GrantBegin(t) \/ RevokeBegin(t) \/ GrantClear(t) \/ ClearBegin(t)
           \/ EventGrantBegin(t)
    PROVE  IInv'
<1>1. /\ UNCHANGED <<credFile, row, authList, macKey, generations, issued, revoked,
                     unclearedEvent, strayed, faults>>
      /\ Acquire(t)
  BY DEF GrantBegin, RevokeBegin, GrantClear, ClearBegin, EventGrantBegin, storeVars,
         historyVars
<1>2. thread[t] \in Requests /\ credFile \subseteq Uris
  BY DEF IInv, GrantTypeOK
<1>3. \E request \in Requests :
         /\ Goto(t, request)
         /\ request.pc \in {"grant_key", "revoke_key", "clear_keys", "event_key"}
         /\ request.pc = "grant_key" => generations < MaxGrants
         /\ request.pc \in {"revoke_key", "event_key"} =>
               request.uri \in Uris /\ request.level = LevelOf(request.uri)
         /\ \/ thread[t].pc \in {"idle", "clear_wait", "event"}
            \/ /\ thread[t].pc = "grant_clear" /\ request.pc = "revoke_key"
               /\ request.uri = thread[t].uri /\ request.app = thread[t].app
  <2>1. CASE GrantBegin(t)
    <3>1. PICK uri \in Uris, app \in Uids :
             Goto(t, [pc |-> "grant_key", uri |-> uri, app |-> app, level |-> LevelOf(uri)])
      BY <1>2, <2>1 DEF GrantBegin
    <3>2. [pc |-> "grant_key", uri |-> uri, app |-> app, level |-> LevelOf(uri)] \in Requests
      BY MadeRequests, LevelOfIsLevel
    <3> QED
      BY <2>1, <3>1, <3>2 DEF GrantBegin, At
  <2>2. CASE RevokeBegin(t)
    <3>1. PICK uri \in Uris, app \in Uids : Goto(t, RevokeRequest(uri, app, FALSE))
      BY <2>2 DEF RevokeBegin
    <3>2. RevokeRequest(uri, app, FALSE) \in Requests
      BY MadeRequests, LevelOfIsLevel DEF RevokeRequest
    <3> QED
      BY <2>2, <3>1, <3>2 DEF RevokeBegin, RevokeRequest, At
  <2>3. CASE GrantClear(t)
    <3>1. PICK old : old = thread[t]
      OBVIOUS
    <3>2. old.pc = "grant_clear" /\ old.uri \in Uris /\ old.app \in Uids
      BY <1>2, <2>3, <3>1, RequestOf DEF GrantClear, At, UndoRequests
    <3>3. Goto(t, RevokeRequest(old.uri, old.app, TRUE))
      BY <2>3, <3>1 DEF GrantClear
    <3>4. RevokeRequest(old.uri, old.app, TRUE) \in Requests
      BY <3>2, MadeRequests, LevelOfIsLevel DEF RevokeRequest
    <3> QED
      BY <3>1, <3>2, <3>3, <3>4 DEF RevokeRequest
  <2>4. CASE ClearBegin(t)
    <3>1. PICK old : old = thread[t]
      OBVIOUS
    <3>2. old.pc = "clear_wait" /\ old \in RemovalRequests
      BY <1>2, <2>4, <3>1, RequestOf DEF ClearBegin, At
    <3>3. PICK level : /\ level = IF old.by = "event" THEN LevelOf(old.uri) ELSE old.level
                       /\ Goto(t, For(old.uri, level, "clear_keys", old))
      BY <2>4, <3>1 DEF ClearBegin
    <3>4. /\ old.uri \in Uris /\ old.by \in {"uninstall", "event", "all"}
          /\ old.uid \in Uids \cup {Nobody} /\ old.own \in SUBSET Uris
          /\ old.left \in SUBSET Uris /\ level \in Levels
      BY <3>2, <3>3, LevelOfIsLevel DEF RemovalRequests
    <3>5. /\ For(old.uri, level, "clear_keys", old) \in Requests
          /\ For(old.uri, level, "clear_keys", old).pc = "clear_keys"
      BY <3>4, ForIsRequest
    <3> QED
      BY <3>1, <3>2, <3>3, <3>5
  <2>5. CASE EventGrantBegin(t)
    <3>1. PICK old : old = thread[t]
      OBVIOUS
    <3>2. old.pc = "event" /\ old \in LoopRequests
      BY <1>2, <2>5, <3>1, RequestOf DEF EventGrantBegin, At
    <3>3. PICK uri \in old.left : /\ old.uid \in authList[uri]
                                  /\ Goto(t, For(uri, LevelOf(uri), "event_key", old))
      BY <2>5, <3>1 DEF EventGrantBegin
    <3>4. /\ uri \in Uris /\ old.by = "event" /\ old.own \in SUBSET Uris
          /\ old.left \in SUBSET Uris /\ LevelOf(uri) \in Levels
      BY <3>2, <3>3, LevelOfIsLevel DEF LoopRequests
    <3>5. old.uid \in Uids
      BY <3>3, <3>4 DEF IInv, GrantTypeOK
    <3>6. /\ For(uri, LevelOf(uri), "event_key", old) \in Requests
          /\ For(uri, LevelOf(uri), "event_key", old).pc = "event_key"
          /\ For(uri, LevelOf(uri), "event_key", old).uri = uri
          /\ For(uri, LevelOf(uri), "event_key", old).level = LevelOf(uri)
      BY <3>4, <3>5, ForIsRequest
    <3> QED
      BY <3>1, <3>2, <3>3, <3>4, <3>6
  <2> QED
    BY <2>1, <2>2, <2>3, <2>4, <2>5
<1> QED
  BY <1>1, <1>2, <1>3, ControlKeeps DEF LockedPcs

\* The failures that release the lock, a failed grant on its way to be cleared.
LEMMA ReleaseKeeps ==
    ASSUME IInv, NEW t \in Threads,
           RevokeFails(t) \/ GrantFailsEarly(t) \/ GrantAddUidFails(t)
    PROVE  IInv'
<1>1. /\ UNCHANGED <<credFile, row, authList, macKey, generations, issued, revoked,
                     unclearedEvent, strayed>>
      /\ Release /\ (UNCHANGED faults \/ Fault)
  BY DEF RevokeFails, GrantFailsEarly, GrantAddUidFails, storeVars, historyVars, Undo
<1>2. thread[t] \in Requests /\ credFile \subseteq Uris
  BY DEF IInv, GrantTypeOK
<1>3. CASE RevokeFails(t)
  <2>1. Idle \in Requests /\ Idle.pc = "idle" /\ Goto(t, Idle) /\ Fault
    BY <1>3 DEF Requests, Idle, RevokeFails
  <2>2. thread[t].pc \in LockedPcs
    BY <1>3 DEF RevokeFails, LockedPcs
  <2> QED
    BY <1>1, <1>2, <2>1, <2>2, ControlKeeps DEF LockedPcs
<1>4. CASE GrantFailsEarly(t) \/ GrantAddUidFails(t)
  <2>1. PICK old : old = thread[t]
    OBVIOUS
  <2>2. /\ old.pc \in {"grant_key", "grant_uid"} /\ old.uri \in Uris /\ old.app \in Uids
        /\ Goto(t, [pc |-> "grant_clear", uri |-> old.uri, app |-> old.app])
        /\ old.pc = "grant_key" => Fault
    BY <1>2, <1>4, <2>1, RequestOf
       DEF GrantFailsEarly, GrantAddUidFails, At, Undo, GrantRequests
  <2>3. [pc |-> "grant_clear", uri |-> old.uri, app |-> old.app] \in Requests
    BY <2>2 DEF Requests, UndoRequests
  <2> DEFINE request == [pc |-> "grant_clear", uri |-> old.uri, app |-> old.app]
  <2>4. request.pc = "grant_clear" /\ request.uri = old.uri /\ request.app = old.app
    OBVIOUS
  <2> HIDE DEF request
  <2> QED
    BY <1>1, <1>2, <2>1, <2>2, <2>3, <2>4, ControlKeeps DEF LockedPcs, request
<1> QED
  BY <1>3, <1>4

-----------------------------------------------------------------------------
(* Steps inside of the critical sections                                   *)

\* While a thread is in, or enters, a critical section no other is in one.
LEMMA SectionStepKeeps ==
    ASSUME IInv, NEW t \in Threads, NEW request \in Requests, Goto(t, request),
           thread[t].pc \in LockedPcs,
           \/ UNCHANGED authLock /\ request.pc \in LockedPcs
           \/ Release /\ request.pc \notin LockedPcs,
           SectionKeeps(t)'
    PROVE  /\ LockIsHeld' /\ SectionsKeep'
           /\ thread' \in [Threads -> Requests]
           /\ thread'[t] = request
           /\ \A other \in Threads \ {t} : thread'[other] = thread[other]
<1>1. /\ thread' \in [Threads -> Requests]
      /\ thread'[t] = request
      /\ \A other \in Threads \ {t} : thread'[other] = thread[other]
  BY ThreadUpdated DEF IInv, GrantTypeOK
<1>2. \A other \in Threads \ {t} : thread'[other].pc \notin LockedPcs
  BY <1>1, AuthAssumption DEF IInv, LockIsHeld
<1>3. LockIsHeld'
  BY <1>1, <1>2, AuthAssumption DEF IInv, LockIsHeld, Release
<1>4. \A other \in Threads \ {t} : SectionKeeps(other)'
  BY <1>2 DEF SectionKeeps, At, LockedPcs
<1> QED
  BY <1>1, <1>2, <1>3, <1>4 DEF SectionsKeep

\* Deleting MAC keys makes no authUri valid.
LEMMA DeletingKeysKeeps ==
    ASSUME IInv, macKey' \in [Uris -> [Uids -> [Levels -> 0..generations]]],
           \A uri \in Uris, app \in Uids, level \in Levels :
               macKey'[uri][app][level] \in {0, macKey[uri][app][level]},
           strayed \subseteq strayed',
           UNCHANGED <<row, authList, issued, revoked, unclearedEvent>>
    PROVE  TokensKept'
<1>1. \A uri \in Uris, app \in Uids, level \in Levels :
         Reachable(uri, app, level)' => Reachable(uri, app, level)
  BY DEF Reachable
<1>2. KeysAreAtRowLevel'
  BY <1>1 DEF IInv, TokensKept, KeysAreAtRowLevel, LevelOf
<1>3. \A authUri \in issued :
         authUri.uri \in Uris /\ authUri.app \in Uids /\ authUri.gen # 0
  BY DEF IInv, GrantTypeOK
<1>4. \A authUri \in issued, level \in Levels :
         macKey'[authUri.uri][authUri.app][level] = authUri.gen =>
            macKey[authUri.uri][authUri.app][level] = authUri.gen
  BY <1>3
<1>5. revoked \subseteq issued
  BY DEF IInv, GrantTypeOK
<1> QED
  BY <1>2, <1>4, <1>5 DEF IInv, TokensKept, RevokedKeysAreGone, IssuedKeysAreListed

\* What DeleteMacKeys does to one key.
LEMMA KeysDeleted ==
    ASSUME IInv, NEW uri \in Uris, NEW apps \in SUBSET Uids, NEW level \in Levels,
           DeleteMacKeys(uri, apps, level)
    PROVE  /\ macKey' \in [Uris -> [Uids -> [Levels -> 0..generations]]]
           /\ \A app \in apps : macKey'[uri][app][level] = 0
           /\ \A other \in Uris, app \in Uids, l \in Levels :
                 ~(other = uri /\ app \in apps /\ l = level) =>
                    macKey'[other][app][l] = macKey[other][app][l]
<1>1. macKey \in [Uris -> [Uids -> [Levels -> 0..generations]]] /\ 0 \in 0..generations
  BY DEF IInv, GrantTypeOK
<1> DEFINE keys == [app \in Uids |-> IF app \in apps THEN [macKey[uri][app] EXCEPT ![level] = 0]
                                     ELSE macKey[uri][app]]
<1>2. macKey' = [macKey EXCEPT ![uri] = keys]
  BY <1>1 DEF DeleteMacKeys
<1>3. keys \in [Uids -> [Levels -> 0..generations]]
  BY <1>1
<1>4. \A app \in Uids, l \in Levels :
         keys[app][l] = IF app \in apps /\ l = level THEN 0 ELSE macKey[uri][app][l]
  BY <1>1
<1> HIDE DEF keys
<1> QED
  BY <1>1, <1>2, <1>3, <1>4

\* Removing apps whose keys cannot be reached from the lists.
LEMMA ShrinkingListsKeeps ==
    ASSUME IInv,
           \A uri \in Uris : authList'[uri] \subseteq authList[uri],
           \A uri \in Uris : \A app \in authList[uri] \ authList'[uri] :
               Unreachable(uri, app) \/ uri \in unclearedEvent',
           unclearedEvent \subseteq unclearedEvent',
           UNCHANGED <<row, macKey, issued, revoked, strayed>>
    PROVE  TokensKept'
<1>1. KeysAreAtRowLevel' /\ RevokedKeysAreGone'
  BY DEF IInv, TokensKept, KeysAreAtRowLevel, RevokedKeysAreGone, Reachable, LevelOf
<1>2. IssuedKeysAreListed'
  <2> SUFFICES ASSUME NEW authUri \in issued, NEW level \in Levels,
                      macKey[authUri.uri][authUri.app][level] = authUri.gen,
                      authUri.app \notin authList'[authUri.uri]
               PROVE  authUri.uri \in unclearedEvent' \/ authUri.gen \in strayed
    BY DEF IssuedKeysAreListed
  <2>1. authUri.uri \in Uris /\ authUri.app \in Uids /\ authUri.gen # 0
    BY DEF IInv, GrantTypeOK
  <2>2. \/ authUri.app \in authList[authUri.uri] \/ authUri.uri \in unclearedEvent
        \/ authUri.gen \in strayed
    BY DEF IInv, TokensKept, IssuedKeysAreListed
  <2>3. Unreachable(authUri.uri, authUri.app) => authUri.gen \in strayed
    BY <2>1 DEF Unreachable, Reachable
  <2> QED
    BY <2>1, <2>2, <2>3
<1> QED
  BY <1>1, <1>2 DEF TokensKept

\* A step after which list and keys agree on every grant it touched, or are
\* still allowed to differ.
LEMMA TouchedGrantsMatch ==
    ASSUME IInv, NEW t \in Threads, UNCHANGED faults \/ Fault,
           unclearedEvent \subseteq unclearedEvent',
           \A other \in Threads \ {t} : thread'[other] = thread[other],
           NEW touched \in SUBSET (Uris \X Uids),
           \A uri \in Uris, app \in Uids : <<uri, app>> \notin touched =>
               /\ Matches(uri, app) => Matches(uri, app)'
               /\ Unreachable(uri, app) => Unreachable(uri, app)'
               /\ ~Undoing(t, uri, app) /\ ~Clearing(t, uri),
           faults' = 0 =>
               \A uri \in Uris \ unclearedEvent', app \in Uids : <<uri, app>> \in touched =>
                   \/ Matches(uri, app)'
                   \/ Undoing(t, uri, app)'
                   \/ Unreachable(uri, app)' /\ Clearing(t, uri)'
                   \/ \E other \in Threads \ {t} : Undoing(other, uri, app)
    PROVE  KeysMatch'
<1> SUFFICES ASSUME faults' = 0, NEW uri \in Uris \ unclearedEvent', NEW app \in Uids,
                    ~Matches(uri, app)'
             PROVE  \/ \E u \in Threads : Undoing(u, uri, app)'
                    \/ Unreachable(uri, app)' /\ \E u \in Threads : Clearing(u, uri)'
  BY DEF KeysMatch
<1>1. \A other \in Threads \ {t} :
         /\ Undoing(other, uri, app) <=> Undoing(other, uri, app)'
         /\ Clearing(other, uri) <=> Clearing(other, uri)'
  BY DEF Undoing, Clearing, At
<1>2. CASE <<uri, app>> \in touched
  BY <1>1, <1>2
<1>3. CASE <<uri, app>> \notin touched
  <2>1. faults = 0
    BY DEF IInv, GrantTypeOK, Fault
  <2>2. \/ \E u \in Threads : Undoing(u, uri, app)
        \/ Unreachable(uri, app) /\ \E u \in Threads : Clearing(u, uri)
    BY <1>3, <2>1 DEF IInv, KeysMatch
  <2>3. \/ \E u \in Threads \ {t} : Undoing(u, uri, app)
        \/ Unreachable(uri, app)' /\ \E u \in Threads \ {t} : Clearing(u, uri)
    BY <1>3, <2>2
  <2> QED
    BY <1>1, <2>3
<1> QED
  BY <1>2, <1>3

\* The MAC key of one app is deleted, at the level read under the lock: no key of
\* it stays within reach.
LEMMA OneKeyDeletedKeeps ==
    ASSUME IInv, NEW t \in Threads, NEW uri \in Uris, NEW app \in Uids, NEW level \in Levels,
           NEW request \in Requests, Goto(t, request),
           thread[t].pc \in {"revoke_key", "event_key"},
           thread[t].uri = uri, thread[t].level = level,
           thread[t].pc = "revoke_key" => thread[t].app = app,
           \/ request.pc = "revoke_uid" /\ request.uri = uri /\ request.app = app
           \/ request.pc = "event_uid" /\ request.uri = uri /\ request.uid = app,
           DeleteMacKeys(uri, {app}, level),
           UNCHANGED <<credFile, row, authList, generations, authLock, issued, revoked,
                       unclearedEvent, strayed, faults>>
    PROVE  IInv'
<1>1. /\ macKey' \in [Uris -> [Uids -> [Levels -> 0..generations]]]
      /\ macKey'[uri][app][level] = 0
      /\ \A u \in Uris, a \in Uids, l \in Levels :
            ~(u = uri /\ a = app /\ l = level) => macKey'[u][a][l] = macKey[u][a][l]
  <2>1. {app} \in SUBSET Uids /\ app \in {app}
    OBVIOUS
  <2>2. /\ macKey' \in [Uris -> [Uids -> [Levels -> 0..generations]]]
        /\ \A a \in {app} : macKey'[uri][a][level] = 0
        /\ \A u \in Uris, a \in Uids, l \in Levels :
              ~(u = uri /\ a \in {app} /\ l = level) => macKey'[u][a][l] = macKey[u][a][l]
    BY <2>1, KeysDeleted
  <2> QED
    BY <2>2
<1>2. \A u \in Uris, a \in Uids, l \in Levels :
         Reachable(u, a, l)' => Reachable(u, a, l) /\ ~(u = uri /\ a = app /\ l = level)
  BY <1>1 DEF Reachable
<1>3. Unreachable(uri, app)'
  <2>1. \A l \in Levels : Reachable(uri, app, l) => l = level
    BY DEF IInv, SectionsKeep, SectionKeeps
  <2> QED
    BY <1>2, <2>1 DEF Unreachable
<1>4. thread'[t] = request
  BY ThreadUpdated DEF IInv, GrantTypeOK
<1>5. /\ LockIsHeld' /\ SectionsKeep'
      /\ thread' \in [Threads -> Requests]
      /\ \A other \in Threads \ {t} : thread'[other] = thread[other]
  <2>1. SectionKeeps(t)'
    BY <1>3, <1>4 DEF SectionKeeps, At
  <2>2. thread[t].pc \in LockedPcs /\ request.pc \in LockedPcs
    BY DEF LockedPcs
  <2> QED
    BY <2>1, <2>2, SectionStepKeeps
<1>6. TokensKept'
  <2>1. \A u \in Uris, a \in Uids, l \in Levels : macKey'[u][a][l] \in {0, macKey[u][a][l]}
    BY <1>1
  <2> QED
    BY <1>1, <2>1, DeletingKeysKeeps
<1>7. KeysMatch'
  <2>1. \A u \in Uris, a \in Uids : <<u, a>> \notin {<<uri, app>>} =>
            /\ Matches(u, a) => Matches(u, a)'
            /\ Unreachable(u, a) => Unreachable(u, a)'
            /\ ~Undoing(t, u, a) /\ ~Clearing(t, u)
    <3> SUFFICES ASSUME NEW u \in Uris, NEW a \in Uids, ~(u = uri /\ a = app)
                 PROVE  /\ Matches(u, a) => Matches(u, a)'
                        /\ Unreachable(u, a) => Unreachable(u, a)'
                        /\ ~Undoing(t, u, a) /\ ~Clearing(t, u)
      OBVIOUS
    <3>1. Unreachable(u, a) => Unreachable(u, a)'
      BY <1>2 DEF Unreachable
    <3>2. \A l \in Levels : macKey'[u][a][l] = macKey[u][a][l]
      BY <1>1
    <3> QED
      BY <3>1, <3>2 DEF Matches, Undoing, Clearing, At
  <2>2. \A u \in Uris, a \in Uids : <<u, a>> \in {<<uri, app>>} => Undoing(t, u, a)'
    BY <1>4 DEF Undoing, At
  <2>3. {<<uri, app>>} \in SUBSET (Uris \X Uids)
    OBVIOUS
  <2> QED
    BY <1>5, <2>1, <2>2, <2>3, TouchedGrantsMatch
<1> QED
  BY <1>1, <1>5, <1>6, <1>7 DEF IInv, GrantTypeOK

\* The MAC key of a revoked grant is deleted.
LEMMA RevokeDeleteKeyKeeps ==
    ASSUME IInv, NEW t \in Threads, RevokeDeleteKey(t)
    PROVE  IInv'
<1>1. PICK old : old = thread[t]
  OBVIOUS
<1>2. /\ old \in RevokeRequests /\ old \in Requests /\ old.pc = "revoke_key"
      /\ old.uri \in Uris /\ old.app \in Uids /\ old.level \in Levels
  BY <1>1, RequestOf DEF IInv, GrantTypeOK, RevokeDeleteKey, At, RevokeRequests
<1> DEFINE request == [old EXCEPT !.pc = "revoke_uid"]
<1>3. /\ request \in Requests /\ request.pc = "revoke_uid" /\ request.uri = old.uri
      /\ request.app = old.app
  BY <1>2, AdvancedRequest
<1>4. Goto(t, request) /\ DeleteMacKeys(old.uri, {old.app}, old.level)
  BY <1>1 DEF RevokeDeleteKey, Advance
<1>5. UNCHANGED <<credFile, row, authList, generations, authLock, issued, revoked,
                  unclearedEvent, strayed, faults>>
  BY DEF RevokeDeleteKey, historyVars
<1> HIDE DEF request
<1> QED
  BY <1>1, <1>2, <1>3, <1>4, <1>5, OneKeyDeletedKeeps

\* A gone application's MAC key is deleted, or the lock released when that fails.
LEMMA EventGrantKeyKeeps ==
    ASSUME IInv, NEW t \in Threads, EventGrantKey(t)
    PROVE  IInv'
<1>1. PICK old : old = thread[t]
  OBVIOUS
<1>2. /\ old \in EventRequests /\ old \in Requests /\ old.pc = "event_key"
      /\ old.uri \in Uris /\ old.uid \in Uids /\ old.level \in Levels
  BY <1>1, RequestOf DEF IInv, GrantTypeOK, EventGrantKey, At, EventRequests
<1>3. UNCHANGED <<credFile, row, authList, generations, issued, revoked, unclearedEvent, strayed>>
  BY DEF EventGrantKey, historyVars
<1>4. CASE Advance(t, "event_uid") /\ DeleteMacKeys(old.uri, {old.uid}, old.level)
           /\ UNCHANGED <<authLock, faults>>
  <2> DEFINE request == [old EXCEPT !.pc = "event_uid"]
  <2>1. /\ request \in Requests /\ request.pc = "event_uid" /\ request.uri = old.uri
        /\ request.uid = old.uid
    BY <1>2, AdvancedRequest
  <2>2. Goto(t, request)
    BY <1>1, <1>4 DEF Advance
  <2> HIDE DEF request
  <2> QED
    BY <1>1, <1>2, <1>3, <1>4, <2>1, <2>2, OneKeyDeletedKeeps
<1>5. CASE Fault /\ Release /\ CredentialDone(t) /\ UNCHANGED macKey
  <2>1. PICK request \in Requests : Goto(t, request) /\ request.pc \in {"idle", "all", "event"}
    BY <1>1, <1>2, <1>5, CredentialDoneIsRequest
  <2>2. thread[t].pc \in LockedPcs /\ request.pc \notin LockedPcs
    BY <1>1, <1>2, <2>1 DEF LockedPcs
  <2>3. credFile' \subseteq Uris
    BY <1>3 DEF IInv, GrantTypeOK
  <2> QED
    BY <1>3, <1>5, <2>1, <2>2, <2>3, ControlKeeps
<1> QED
  BY <1>1, <1>4, <1>5 DEF EventGrantKey

\* The app is taken off the list, and what it was granted counts as revoked.
LEMMA RevokeRemoveUidKeeps ==
    ASSUME IInv, NEW t \in Threads, RevokeRemoveUid(t)
    PROVE  IInv'
<1> DEFINE uri == thread[t].uri
           app == thread[t].app
<1>1. thread[t] \in RevokeRequests /\ thread[t].pc = "revoke_uid" /\ uri \in Uris /\ app \in Uids
  BY RequestOf DEF IInv, GrantTypeOK, RevokeRemoveUid, At, RevokeRequests
<1>2. Idle \in Requests /\ Idle.pc = "idle" /\ Goto(t, Idle) /\ Release
  BY DEF Requests, Idle, RevokeRemoveUid
<1>3. /\ authList' \in [Uris -> SUBSET Uids]
      /\ authList'[uri] = authList[uri] \ {app}
      /\ \A u \in Uris : u # uri => authList'[u] = authList[u]
  BY <1>1 DEF IInv, GrantTypeOK, RevokeRemoveUid
<1>4. UNCHANGED <<credFile, row, macKey, generations, issued, unclearedEvent, strayed, faults>>
  BY DEF RevokeRemoveUid
<1>5. revoked' \in {revoked, revoked \cup {a \in issued : a.uri = uri /\ a.app = app}}
  BY DEF RevokeRemoveUid
<1>6. Unreachable(uri, app)
  BY <1>1 DEF IInv, SectionsKeep, SectionKeeps, At
<1>7. thread'[t] = Idle
  BY <1>2, ThreadUpdated DEF IInv, GrantTypeOK
<1>8. /\ LockIsHeld' /\ SectionsKeep'
      /\ thread' \in [Threads -> Requests]
      /\ \A other \in Threads \ {t} : thread'[other] = thread[other]
  <2>1. thread[t].pc \in LockedPcs /\ Idle.pc \notin LockedPcs
    BY <1>1, <1>2 DEF LockedPcs
  <2>2. SectionKeeps(t)'
    BY <1>2, <1>7 DEF SectionKeeps, At
  <2> QED
    BY <1>2, <2>1, <2>2, SectionStepKeeps
<1>9. revoked' \subseteq issued'
  BY <1>4, <1>5 DEF IInv, GrantTypeOK
<1>10. RevokedKeysAreGone'
  <2> SUFFICES ASSUME NEW a \in revoked', NEW level \in Levels,
                      macKey[a.uri][a.app][level] = a.gen
               PROVE  a.gen \in strayed
    BY <1>4 DEF RevokedKeysAreGone
  <2>1. CASE a \in revoked
    BY <2>1 DEF IInv, TokensKept, RevokedKeysAreGone
  <2>2. CASE a \in issued /\ a.uri = uri /\ a.app = app
    <3>1. a.gen # 0
      BY <2>2 DEF IInv, GrantTypeOK
    <3> QED
      BY <1>6, <2>2, <3>1 DEF Unreachable, Reachable
  <2> QED
    BY <1>5, <2>1, <2>2
<1>11. KeysAreAtRowLevel' /\ IssuedKeysAreListed'
  <2>1. KeysAreAtRowLevel'
    BY <1>4 DEF IInv, TokensKept, KeysAreAtRowLevel, Reachable, LevelOf
  <2>2. IssuedKeysAreListed'
    <3> SUFFICES ASSUME NEW a \in issued, NEW level \in Levels,
                        macKey[a.uri][a.app][level] = a.gen
                 PROVE  \/ a.app \in authList'[a.uri] \/ a.uri \in unclearedEvent
                        \/ a.gen \in strayed
      BY <1>4 DEF IssuedKeysAreListed
    <3>1. a.uri \in Uris /\ a.gen # 0
      BY DEF IInv, GrantTypeOK
    <3>2. \/ a.app \in authList[a.uri] \/ a.uri \in unclearedEvent \/ a.gen \in strayed
      BY DEF IInv, TokensKept, IssuedKeysAreListed
    <3>3. a.uri = uri /\ a.app = app => a.gen \in strayed
      BY <1>6, <3>1 DEF Unreachable, Reachable
    <3> QED
      BY <1>3, <3>1, <3>2, <3>3
  <2> QED
    BY <2>1, <2>2
<1>12. KeysMatch'
  <2>1. \A u \in Uris, a \in Uids : <<u, a>> \notin {<<uri, app>>} =>
            /\ Matches(u, a) => Matches(u, a)'
            /\ Unreachable(u, a) => Unreachable(u, a)'
            /\ ~Undoing(t, u, a) /\ ~Clearing(t, u)
    BY <1>1, <1>3, <1>4 DEF Matches, Unreachable, Reachable, Undoing, Clearing, At
  <2>2. \A u \in Uris, a \in Uids : <<u, a>> \in {<<uri, app>>} => Matches(u, a)'
    BY <1>3, <1>4, <1>6 DEF Matches, Unreachable, Reachable
  <2>3. {<<uri, app>>} \in SUBSET (Uris \X Uids)
    BY <1>1
  <2> HIDE DEF uri, app
  <2> QED
    BY <1>4, <1>8, <2>1, <2>2, <2>3, TouchedGrantsMatch
<1> QED
  BY <1>3, <1>4, <1>8, <1>9, <1>10, <1>11, <1>12 DEF IInv, GrantTypeOK, TokensKept

\* The MAC keys of all apps in a list are deleted; what is at other levels strays.
LEMMA ClearKeysKeeps ==
    ASSUME IInv, NEW t \in Threads, ClearKeys(t)
    PROVE  IInv'
<1>1. PICK old : old = thread[t]
  OBVIOUS
<1>2. PICK uri, level : uri = old.uri /\ level = old.level
  OBVIOUS
<1>3. PICK apps : apps = authList[uri]
  OBVIOUS
<1>4. /\ old \in RemovalRequests /\ old \in Requests /\ old.pc = "clear_keys"
      /\ uri \in Uris /\ level \in Levels /\ apps \in SUBSET Uids
  <2>1. old \in RemovalRequests /\ old \in Requests /\ old.pc = "clear_keys"
    BY <1>1, RequestOf DEF IInv, GrantTypeOK, ClearKeys, At
  <2>2. uri \in Uris /\ level \in Levels
    BY <1>2, <2>1 DEF RemovalRequests
  <2> QED
    BY <1>3, <2>1, <2>2 DEF IInv, GrantTypeOK
<1>5. PICK request \in Requests :
         Goto(t, request) /\ request.pc = "clear_list" /\ request.uri = uri
  <2>1. /\ [old EXCEPT !.pc = "clear_list"] \in Requests
        /\ [old EXCEPT !.pc = "clear_list"].pc = "clear_list"
        /\ [old EXCEPT !.pc = "clear_list"].uri = uri
    BY <1>2, <1>4, AdvancedRequest
  <2> QED
    BY <1>1, <2>1 DEF ClearKeys, Advance
<1>6. /\ macKey' \in [Uris -> [Uids -> [Levels -> 0..generations]]]
      /\ \A a \in apps : macKey'[uri][a][level] = 0
      /\ \A u \in Uris, a \in Uids, l \in Levels :
            ~(u = uri /\ a \in apps /\ l = level) => macKey'[u][a][l] = macKey[u][a][l]
  <2>1. DeleteMacKeys(uri, apps, level)
    BY <1>1, <1>2, <1>3 DEF ClearKeys
  <2> QED
    BY <1>4, <2>1, KeysDeleted
<1>7. /\ UNCHANGED <<credFile, row, authList, generations, authLock, issued, revoked,
                     unclearedEvent, faults>>
      /\ strayed' = strayed \cup Elsewhere(uri, apps, level)
  BY <1>1, <1>2, <1>3 DEF ClearKeys
<1>8. strayed \subseteq strayed' /\ strayed' \subseteq 1..generations
  <2> SUFFICES ASSUME NEW gen \in Elsewhere(uri, apps, level) PROVE gen \in 1..generations
    BY <1>7 DEF IInv, GrantTypeOK
  <2>1. PICK a \in apps, l \in Levels : gen = macKey[uri][a][l] /\ gen # 0
    BY DEF Elsewhere
  <2>2. gen \in 0..generations
    BY <1>4, <2>1 DEF IInv, GrantTypeOK
  <2> QED
    BY <2>1, <2>2 DEF IInv, GrantTypeOK
<1>9. \A a \in apps : Unreachable(uri, a)'
  <2> SUFFICES ASSUME NEW a \in apps, NEW l \in Levels,
                      macKey'[uri][a][l] # 0
               PROVE  macKey'[uri][a][l] \in strayed'
    BY DEF Unreachable, Reachable
  <2>1. l # level /\ macKey'[uri][a][l] = macKey[uri][a][l]
    BY <1>4, <1>6
  <2>2. macKey[uri][a][l] \in Elsewhere(uri, apps, level)
    BY <2>1 DEF Elsewhere
  <2> QED
    BY <1>7, <2>1, <2>2
<1>10. thread'[t] = request
  BY <1>5, ThreadUpdated DEF IInv, GrantTypeOK
<1>11. /\ LockIsHeld' /\ SectionsKeep'
       /\ thread' \in [Threads -> Requests]
       /\ \A other \in Threads \ {t} : thread'[other] = thread[other]
  <2>1. thread[t].pc \in LockedPcs /\ request.pc \in LockedPcs
    BY <1>1, <1>4, <1>5 DEF LockedPcs
  <2>2. SectionKeeps(t)'
    <3>1. authList'[request.uri] = apps /\ request.uri = uri
      BY <1>3, <1>5, <1>7
    <3>2. \A a \in authList'[request.uri] : Unreachable(request.uri, a)'
      BY <1>9, <3>1
    <3> QED
      BY <1>5, <1>10, <3>2 DEF SectionKeeps, At
  <2> QED
    BY <1>5, <1>7, <2>1, <2>2, SectionStepKeeps
<1>12. TokensKept'
  <2>1. \A u \in Uris, a \in Uids, l \in Levels : macKey'[u][a][l] \in {0, macKey[u][a][l]}
    BY <1>6
  <2> QED
    BY <1>6, <1>7, <1>8, <2>1, DeletingKeysKeeps
<1>13. KeysMatch'
  <2>1. \A u \in Uris, a \in Uids : <<u, a>> \notin {uri} \X apps =>
            /\ Matches(u, a) => Matches(u, a)'
            /\ Unreachable(u, a) => Unreachable(u, a)'
            /\ ~Undoing(t, u, a) /\ ~Clearing(t, u)
    <3> SUFFICES ASSUME NEW u \in Uris, NEW a \in Uids, ~(u = uri /\ a \in apps)
                 PROVE  /\ Matches(u, a) => Matches(u, a)'
                        /\ Unreachable(u, a) => Unreachable(u, a)'
                        /\ ~Undoing(t, u, a) /\ ~Clearing(t, u)
      OBVIOUS
    <3>1. \A l \in Levels : macKey'[u][a][l] = macKey[u][a][l]
      BY <1>6
    <3>2. Unreachable(u, a) => Unreachable(u, a)'
      BY <1>8, <3>1 DEF Unreachable, Reachable
    <3> QED
      BY <1>1, <1>4, <1>7, <3>1, <3>2 DEF Matches, Undoing, Clearing, At
  <2>2. \A u \in Uris, a \in Uids : <<u, a>> \in {uri} \X apps =>
            Unreachable(u, a)' /\ Clearing(t, u)'
    BY <1>5, <1>9, <1>10 DEF Clearing, At
  <2>3. {uri} \X apps \in SUBSET (Uris \X Uids)
    BY <1>4
  <2> QED
    BY <1>7, <1>11, <2>1, <2>2, <2>3, TouchedGrantsMatch
<1> QED
  BY <1>6, <1>7, <1>8, <1>11, <1>12, <1>13 DEF IInv, GrantTypeOK

\* The list goes, its apps having no MAC key within reach any more.
LEMMA ClearListKeeps ==
    ASSUME IInv, NEW t \in Threads, ClearList(t)
    PROVE  IInv'
<1> DEFINE uri == thread[t].uri
<1>1. /\ thread[t] \in RemovalRequests /\ thread[t].pc = "clear_list" /\ uri \in Uris
  BY RequestOf DEF IInv, GrantTypeOK, ClearList, At, RemovalRequests
<1>2. PICK request \in Requests :
         /\ Goto(t, request)
         /\ request.pc \in {"idle", "all", "event", "remove_row", "remove_file"}
  BY <1>1, ClearDoneIsRequest DEF ClearList
<1>3. /\ authList' \in [Uris -> SUBSET Uids]
      /\ authList'[uri] = {}
      /\ \A u \in Uris : u # uri => authList'[u] = authList[u]
  BY <1>1 DEF IInv, GrantTypeOK, ClearList
<1>4. /\ UNCHANGED <<credFile, row, macKey, generations, issued, revoked, unclearedEvent,
                     strayed, faults>>
      /\ Release
  BY DEF ClearList, historyVars
<1>5. thread'[t] = request
  BY <1>2, ThreadUpdated DEF IInv, GrantTypeOK
<1>6. \A a \in authList[uri] : Unreachable(uri, a)
  BY <1>1 DEF IInv, SectionsKeep, SectionKeeps, At
<1>7. /\ LockIsHeld' /\ SectionsKeep'
      /\ thread' \in [Threads -> Requests]
      /\ \A other \in Threads \ {t} : thread'[other] = thread[other]
  <2>1. thread[t].pc \in LockedPcs /\ request.pc \notin LockedPcs
    BY <1>1, <1>2 DEF LockedPcs
  <2>2. SectionKeeps(t)'
    BY <1>2, <1>5 DEF SectionKeeps, At
  <2> QED
    BY <1>2, <1>4, <2>1, <2>2, SectionStepKeeps
<1>8. TokensKept'
  <2>1. \A u \in Uris : authList'[u] \subseteq authList[u]
    BY <1>3
  <2>2. \A u \in Uris : \A a \in authList[u] \ authList'[u] : Unreachable(u, a)
    BY <1>3, <1>6
  <2> QED
    BY <1>4, <2>1, <2>2, ShrinkingListsKeeps
<1>9. KeysMatch'
  <2>0. \A u \in Uris, a \in Uids : Unreachable(u, a)' <=> Unreachable(u, a)
    BY <1>4 DEF Unreachable, Reachable
  <2>1. \A u \in Uris, a \in Uids : <<u, a>> \notin {uri} \X Uids =>
            /\ Matches(u, a) => Matches(u, a)'
            /\ Unreachable(u, a) => Unreachable(u, a)'
            /\ ~Undoing(t, u, a) /\ ~Clearing(t, u)
    BY <1>1, <1>3, <1>4, <2>0 DEF Matches, Undoing, Clearing, At
  <2>2. \A u \in {uri}, a \in Uids : Unreachable(u, a) => Matches(u, a)'
    BY <1>1, <1>3, <2>0 DEF Matches
  <2>3. \A a \in Uids : Matches(uri, a) => Unreachable(uri, a)
    BY <1>6 DEF Matches
  <2>4. ASSUME faults' = 0, NEW u \in {uri}, u \notin unclearedEvent', NEW a \in Uids,
               ~Matches(u, a)'
        PROVE  \E other \in Threads \ {t} : Undoing(other, u, a)
    <3>1. faults = 0 /\ u \in Uris \ unclearedEvent
      BY <1>1, <1>4, <2>4
    <3>2. ~Unreachable(u, a) /\ ~Matches(u, a)
      BY <2>2, <2>3, <2>4
    <3>3. \E other \in Threads : Undoing(other, u, a)
      BY <3>1, <3>2 DEF IInv, KeysMatch
    <3>4. ~Undoing(t, u, a)
      BY <1>1 DEF Undoing, At
    <3> QED
      BY <3>3, <3>4
  <2>5. {uri} \X Uids \in SUBSET (Uris \X Uids)
    BY <1>1
  <2>6. faults' = 0 =>
            \A u \in Uris \ unclearedEvent', a \in Uids : <<u, a>> \in {uri} \X Uids =>
                \/ Matches(u, a)'
                \/ \E other \in Threads \ {t} : Undoing(other, u, a)
    BY <2>4
  <2> HIDE DEF uri
  <2> QED
    BY <1>4, <1>7, <2>1, <2>5, <2>6, TouchedGrantsMatch
<1> QED
  BY <1>3, <1>4, <1>7, <1>8, <1>9 DEF IInv, GrantTypeOK

\* Clearing fails on the way; nothing is claimed of list and keys from then on.
LEMMA ClearFailsKeeps ==
    ASSUME IInv, NEW t \in Threads, ClearFails(t)
    PROVE  IInv'
<1>1. PICK uri, level : uri = thread[t].uri /\ level = thread[t].level
  OBVIOUS
<1>2. /\ thread[t] \in RemovalRequests /\ thread[t].pc \in {"clear_keys", "clear_list"}
      /\ uri \in Uris /\ (thread[t].pc = "clear_keys" => level \in Levels)
  BY <1>1, RequestOf DEF IInv, GrantTypeOK, ClearFails, RemovalRequests
<1>3. PICK request \in Requests :
         /\ Goto(t, request)
         /\ request.pc \in {"idle", "all", "event", "remove_row", "remove_file"}
  BY <1>2, ClearDoneIsRequest DEF ClearFails
<1>4. /\ UNCHANGED <<credFile, row, authList, generations, issued, revoked, unclearedEvent,
                     strayed>>
      /\ Release /\ Fault
  BY DEF ClearFails, historyVars
<1>5. /\ macKey' \in [Uris -> [Uids -> [Levels -> 0..generations]]]
      /\ \A u \in Uris, a \in Uids, l \in Levels : macKey'[u][a][l] \in {0, macKey[u][a][l]}
  <2>1. CASE UNCHANGED macKey
    BY <2>1 DEF IInv, GrantTypeOK
  <2>2. CASE ~UNCHANGED macKey
    <3>1. authList[uri] \in SUBSET Uids
      BY <1>2 DEF IInv, GrantTypeOK
    <3>2. PICK deleted \in SUBSET Uids : DeleteMacKeys(uri, deleted, level)
      BY <1>1, <2>2, <3>1 DEF ClearFails
    <3>3. level \in Levels
      BY <1>2, <2>2 DEF ClearFails, At
    <3>4. /\ macKey' \in [Uris -> [Uids -> [Levels -> 0..generations]]]
          /\ \A a \in deleted : macKey'[uri][a][level] = 0
          /\ \A u \in Uris, a \in Uids, l \in Levels :
                ~(u = uri /\ a \in deleted /\ l = level) =>
                    macKey'[u][a][l] = macKey[u][a][l]
      BY <1>2, <3>2, <3>3, KeysDeleted
    <3> QED
      BY <3>4
  <2> QED
    BY <2>1, <2>2
<1>6. thread'[t] = request
  BY <1>3, ThreadUpdated DEF IInv, GrantTypeOK
<1>7. /\ LockIsHeld' /\ SectionsKeep'
      /\ thread' \in [Threads -> Requests]
  <2>1. thread[t].pc \in LockedPcs /\ request.pc \notin LockedPcs
    BY <1>2, <1>3 DEF LockedPcs
  <2>2. SectionKeeps(t)'
    BY <1>3, <1>6 DEF SectionKeeps, At
  <2> QED
    BY <1>3, <1>4, <2>1, <2>2, SectionStepKeeps
<1>8. TokensKept'
  BY <1>4, <1>5, DeletingKeysKeeps
<1>9. faults' \in 0..MaxFaults /\ faults' # 0
  BY <1>4, AuthAssumption DEF IInv, GrantTypeOK, Fault
<1>10. KeysMatch'
  BY <1>9 DEF KeysMatch
<1> QED
  BY <1>4, <1>5, <1>7, <1>8, <1>9, <1>10 DEF IInv, GrantTypeOK

\* A gone application is taken off the list, or that fails and the lock is
\* released all the same.
LEMMA EventGrantEndKeeps ==
    ASSUME IInv, NEW t \in Threads, EventGrantEnd(t)
    PROVE  IInv'
<1> DEFINE uri == thread[t].uri
           app == thread[t].uid
<1>1. /\ thread[t] \in EventRequests /\ thread[t].pc = "event_uid"
      /\ uri \in Uris /\ app \in Uids
  BY RequestOf DEF IInv, GrantTypeOK, EventGrantEnd, At, EventRequests
<1>2. PICK request \in Requests : Goto(t, request) /\ request.pc \in {"idle", "all", "event"}
  BY <1>1, CredentialDoneIsRequest DEF EventGrantEnd
<1>3. /\ UNCHANGED <<credFile, row, macKey, generations, issued, revoked, unclearedEvent,
                     strayed>>
      /\ Release /\ (UNCHANGED faults \/ Fault)
  BY DEF EventGrantEnd, historyVars
<1>4. /\ authList' \in [Uris -> SUBSET Uids]
      /\ faults' = faults => authList'[uri] = authList[uri] \ {app}
      /\ authList'[uri] \in {authList[uri], authList[uri] \ {app}}
      /\ \A u \in Uris : u # uri => authList'[u] = authList[u]
      /\ faults' \in 0..MaxFaults /\ (faults' = 0 => faults' = faults)
  <2>1. faults' \in 0..MaxFaults /\ (faults' = 0 => faults' = faults)
    BY <1>3, AuthAssumption DEF IInv, GrantTypeOK, Fault
  <2>2. authList \in [Uris -> SUBSET Uids] /\ faults # faults + 1
    BY DEF IInv, GrantTypeOK
  <2>3. \/ authList' = [authList EXCEPT ![uri] = @ \ {app}]
        \/ faults' = faults + 1 /\ authList' = authList
    BY DEF EventGrantEnd, Fault
  <2> QED
    BY <1>1, <2>1, <2>2, <2>3
<1>5. thread'[t] = request
  BY <1>2, ThreadUpdated DEF IInv, GrantTypeOK
<1>6. Unreachable(uri, app)
  BY <1>1 DEF IInv, SectionsKeep, SectionKeeps, At
<1>7. /\ LockIsHeld' /\ SectionsKeep'
      /\ thread' \in [Threads -> Requests]
      /\ \A other \in Threads \ {t} : thread'[other] = thread[other]
  <2>1. thread[t].pc \in LockedPcs /\ request.pc \notin LockedPcs
    BY <1>1, <1>2 DEF LockedPcs
  <2>2. SectionKeeps(t)'
    BY <1>2, <1>5 DEF SectionKeeps, At
  <2> QED
    BY <1>2, <1>3, <2>1, <2>2, SectionStepKeeps
<1>8. TokensKept'
  <2>1. \A u \in Uris : authList'[u] \subseteq authList[u]
    BY <1>4
  <2>2. \A u \in Uris : \A a \in authList[u] \ authList'[u] : Unreachable(u, a)
    BY <1>4, <1>6
  <2> QED
    BY <1>3, <2>1, <2>2, ShrinkingListsKeeps
<1>9. KeysMatch'
  <2>0. \A u \in Uris, a \in Uids : Unreachable(u, a)' <=> Unreachable(u, a)
    BY <1>3 DEF Unreachable, Reachable
  <2>1. \A u \in Uris, a \in Uids : <<u, a>> \notin {<<uri, app>>} =>
            /\ Matches(u, a) => Matches(u, a)'
            /\ Unreachable(u, a) => Unreachable(u, a)'
            /\ ~Undoing(t, u, a) /\ ~Clearing(t, u)
    BY <1>1, <1>3, <1>4, <2>0 DEF Matches, Undoing, Clearing, At
  <2>2. faults' = 0 => \A u \in {uri}, a \in {app} : Matches(u, a)'
    BY <1>1, <1>4, <1>6, <2>0 DEF Matches
  <2>3. {<<uri, app>>} \in SUBSET (Uris \X Uids)
    BY <1>1
  <2> HIDE DEF uri, app
  <2>4. faults' = 0 =>
            \A u \in Uris, a \in Uids : <<u, a>> \in {<<uri, app>>} => Matches(u, a)'
    BY <2>2
  <2> QED
    BY <1>3, <1>7, <2>1, <2>3, <2>4, TouchedGrantsMatch
<1> QED
  BY <1>3, <1>4, <1>7, <1>8, <1>9 DEF IInv, GrantTypeOK

\* The lists of who is gone are dropped; where keys were left it is remembered.
LEMMA EventEndKeeps ==
    ASSUME IInv, NEW t \in Threads, EventEnd(t)
    PROVE  IInv'
<1> DEFINE own == thread[t].own
<1>1. /\ thread[t].pc = "event" /\ authList \in [Uris -> SUBSET Uids]
      /\ own \in SUBSET Uris
  BY RequestOf DEF EventEnd, At, IInv, GrantTypeOK, LoopRequests
<1>2. Idle \in Requests /\ Idle.pc = "idle" /\ Goto(t, Idle)
  BY DEF Requests, Idle, EventEnd
<1>3. UNCHANGED <<credFile, row, macKey, generations, authLock, issued, revoked, strayed, faults>>
  BY DEF EventEnd
<1>4. /\ authList' \in [Uris -> SUBSET Uids]
      /\ \A u \in Uris : authList'[u] = IF u \in own THEN {} ELSE authList[u]
      /\ unclearedEvent \subseteq unclearedEvent' /\ unclearedEvent' \subseteq Uris
      /\ \A u \in Uris, a \in Uids, l \in Levels :
            u \in own /\ u \notin unclearedEvent' => macKey[u][a][l] = 0
  BY <1>1 DEF EventEnd, IInv, GrantTypeOK
<1>5. /\ thread' \in [Threads -> Requests] /\ thread'[t] = Idle
      /\ \A other \in Threads \ {t} : thread'[other] = thread[other]
  BY <1>2, ThreadUpdated DEF IInv, GrantTypeOK
<1> HIDE DEF own
<1>6. LockIsHeld'
  BY <1>1, <1>2, <1>3, <1>5 DEF IInv, LockIsHeld, LockedPcs
<1>7. /\ \A u, a, l : Reachable(u, a, l)' <=> Reachable(u, a, l)
      /\ \A u, a : Unreachable(u, a)' <=> Unreachable(u, a)
  BY <1>3 DEF Unreachable, Reachable
<1>8. SectionsKeep'
  <2> SUFFICES ASSUME NEW u \in Threads PROVE SectionKeeps(u)'
    BY DEF SectionsKeep
  <2>1. CASE u = t
    BY <1>2, <1>5, <2>1 DEF SectionKeeps, At
  <2>2. CASE u # t
    <3>1. /\ thread'[u] = thread[u] /\ SectionKeeps(u)
          /\ thread[u].pc = "clear_list" => thread[u].uri \in Uris
      BY <1>5, <2>2, RequestOf DEF IInv, SectionsKeep, GrantTypeOK, RemovalRequests
    <3>2. thread[u].pc = "clear_list" => authList'[thread[u].uri] \subseteq authList[thread[u].uri]
      BY <1>4, <3>1
    <3> QED
      BY <1>3, <1>7, <3>1, <3>2 DEF SectionKeeps, At
  <2> QED
    BY <2>1, <2>2
<1>9. TokensKept'
  <2>1. \A u \in Uris : authList'[u] \subseteq authList[u]
    BY <1>4
  <2>2. \A u \in Uris : \A a \in authList[u] \ authList'[u] :
            Unreachable(u, a) \/ u \in unclearedEvent'
    BY <1>1, <1>4 DEF Unreachable, Reachable
  <2> QED
    BY <1>3, <1>4, <2>1, <2>2, ShrinkingListsKeeps
<1>10. KeysMatch'
  <2> DEFINE touched == (own \cap Uris) \X Uids
  <2>1. \A u \in Uris, a \in Uids : <<u, a>> \notin touched =>
            /\ Matches(u, a) => Matches(u, a)'
            /\ Unreachable(u, a) => Unreachable(u, a)'
            /\ ~Undoing(t, u, a) /\ ~Clearing(t, u)
    BY <1>1, <1>3, <1>4, <1>7 DEF Matches, Undoing, Clearing, At
  <2>2. \A u \in Uris \ unclearedEvent', a \in Uids :
            <<u, a>> \in touched => Matches(u, a)'
    BY <1>3, <1>4 DEF Matches, Unreachable, Reachable
  <2>3. touched \in SUBSET (Uris \X Uids)
    OBVIOUS
  <2> HIDE DEF touched
  <2> QED
    BY <1>3, <1>4, <1>5, <2>1, <2>2, <2>3, TouchedGrantsMatch
<1> QED
  BY <1>3, <1>4, <1>5, <1>6, <1>8, <1>9, <1>10 DEF IInv, GrantTypeOK

\* A new MAC key, of a generation no authUri carries yet; made at a level that is
\* not the row's any more, it has strayed.
LEMMA GrantGenerateKeyKeeps ==
    ASSUME IInv, NEW t \in Threads, GrantGenerateKey(t)
    PROVE  IInv'
<1>1. PICK old : old = thread[t]
  OBVIOUS
<1>2. PICK uri, app, level : uri = old.uri /\ app = old.app /\ level = old.level
  OBVIOUS
<1>3. PICK gen : gen = generations + 1
  OBVIOUS
<1>4. /\ old \in Requests /\ old \in GrantRequests /\ old.pc = "grant_key"
      /\ uri \in Uris /\ app \in Uids /\ level \in Levels
  <2>1. old \in Requests /\ old \in GrantRequests /\ old.pc = "grant_key"
    BY <1>1, RequestOf DEF IInv, GrantTypeOK, GrantGenerateKey, At
  <2> QED
    BY <1>2, <2>1 DEF GrantRequests
<1>5. /\ generations \in Nat /\ gen \in 1..MaxGrants
      /\ gen \notin 0..generations /\ 0..generations \subseteq 0..gen
      /\ 1..generations \subseteq 1..gen /\ gen \in 1..gen /\ gen # 0
  <2>1. generations < MaxGrants
    BY <1>1, <1>4 DEF IInv, SectionsKeep, SectionKeeps, At
  <2> QED
    BY <1>3, <2>1, AuthAssumption DEF IInv, GrantTypeOK
<1>6. /\ UNCHANGED <<credFile, row, authList, issued, revoked, unclearedEvent>>
      /\ generations' = gen
      /\ macKey' = [macKey EXCEPT ![uri][app][level] = gen]
      /\ strayed' = IF level = LevelOf(uri) THEN strayed ELSE strayed \cup {gen}
  BY <1>1, <1>2, <1>3 DEF GrantGenerateKey
<1>7. PICK request \in Requests :
         /\ Goto(t, request) /\ request.uri = uri /\ request.app = app
         /\ \/ request.pc = "grant_uid" /\ UNCHANGED <<authLock, faults>>
               /\ request.level = level
            \/ request.pc = "grant_clear" /\ Release /\ Fault
  <2>1. CASE Advance(t, "grant_uid") /\ UNCHANGED <<authLock, faults>>
    <3> DEFINE request == [old EXCEPT !.pc = "grant_uid"]
    <3>1. /\ request \in Requests /\ request.pc = "grant_uid" /\ request.uri = uri
          /\ request.level = level /\ request.app = app
      BY <1>2, <1>4, AdvancedRequest
    <3> QED
      BY <1>1, <2>1, <3>1 DEF Advance
  <2>2. CASE Fault /\ Undo(t)
    <3>1. [pc |-> "grant_clear", uri |-> uri, app |-> app] \in Requests
      BY <1>4 DEF Requests, UndoRequests
    <3> QED
      BY <1>1, <1>2, <2>2, <3>1 DEF Undo
  <2> QED
    BY <2>1, <2>2 DEF GrantGenerateKey
<1>8. /\ macKey \in [Uris -> [Uids -> [Levels -> 0..generations]]]
      /\ macKey' \in [Uris -> [Uids -> [Levels -> 0..gen]]]
      /\ macKey'[uri][app][level] = gen
      /\ \A u \in Uris, a \in Uids, l \in Levels :
            ~(u = uri /\ a = app /\ l = level) => macKey'[u][a][l] = macKey[u][a][l]
  <2>1. macKey \in [Uris -> [Uids -> [Levels -> 0..generations]]]
    BY DEF IInv, GrantTypeOK
  <2>2. macKey \in [Uris -> [Uids -> [Levels -> 0..gen]]]
    BY <1>5, <2>1
  <2>3. gen \in 0..gen
    BY <1>5
  <2> QED
    BY <1>4, <1>6, <2>1, <2>2, <2>3
<1>9. thread'[t] = request
  BY <1>7, ThreadUpdated DEF IInv, GrantTypeOK
<1>10. strayed \subseteq strayed' /\ strayed' \subseteq 1..gen
  BY <1>5, <1>6 DEF IInv, GrantTypeOK
<1>11. \A u \in Uris, a \in Uids, l \in Levels :
          Reachable(u, a, l)' /\ ~(u = uri /\ a = app /\ l = level) => Reachable(u, a, l)
  BY <1>8, <1>10 DEF Reachable
<1>12. /\ LockIsHeld' /\ SectionsKeep'
       /\ thread' \in [Threads -> Requests]
       /\ \A other \in Threads \ {t} : thread'[other] = thread[other]
  <2>1. thread[t].pc \in LockedPcs
    BY <1>1, <1>4 DEF LockedPcs
  <2>2. \/ UNCHANGED authLock /\ request.pc \in LockedPcs
        \/ Release /\ request.pc \notin LockedPcs
    BY <1>7 DEF LockedPcs
  <2>3. SectionKeeps(t)'
    BY <1>5, <1>7, <1>8, <1>9 DEF SectionKeeps, At
  <2> QED
    BY <1>7, <2>1, <2>2, <2>3, SectionStepKeeps
<1>13. KeysAreAtRowLevel'
  <2> SUFFICES ASSUME NEW u \in Uris, NEW a \in Uids, NEW l \in Levels, Reachable(u, a, l)'
               PROVE  l = LevelOf(u)'
    BY DEF KeysAreAtRowLevel
  <2>1. LevelOf(u)' = LevelOf(u)
    BY <1>6 DEF LevelOf
  <2>2. CASE u = uri /\ a = app /\ l = level
    BY <1>6, <1>8, <2>1, <2>2 DEF Reachable
  <2>3. CASE ~(u = uri /\ a = app /\ l = level)
    BY <1>11, <2>1, <2>3 DEF IInv, TokensKept, KeysAreAtRowLevel
  <2> QED
    BY <2>2, <2>3
<1>14. \A a \in issued, l \in Levels :
          macKey'[a.uri][a.app][l] = a.gen => macKey[a.uri][a.app][l] = a.gen
  <2> SUFFICES ASSUME NEW a \in issued, NEW l \in Levels, macKey'[a.uri][a.app][l] = a.gen
               PROVE  macKey[a.uri][a.app][l] = a.gen
    OBVIOUS
  <2>1. a.uri \in Uris /\ a.app \in Uids /\ a.gen \in 1..generations
    BY DEF IInv, GrantTypeOK
  <2>2. a.gen # gen
    BY <1>5, <2>1
  <2> QED
    BY <1>8, <2>1, <2>2
<1>15. RevokedKeysAreGone' /\ IssuedKeysAreListed'
  <2>1. revoked \subseteq issued
    BY DEF IInv, GrantTypeOK
  <2> QED
    BY <1>6, <1>10, <1>14, <2>1 DEF IInv, TokensKept, RevokedKeysAreGone, IssuedKeysAreListed
<1>16. KeysMatch'
  <2>1. \A u \in Uris, a \in Uids : <<u, a>> \notin {<<uri, app>>} =>
            /\ Matches(u, a) => Matches(u, a)'
            /\ Unreachable(u, a) => Unreachable(u, a)'
            /\ ~Undoing(t, u, a) /\ ~Clearing(t, u)
    <3> SUFFICES ASSUME NEW u \in Uris, NEW a \in Uids, ~(u = uri /\ a = app)
                 PROVE  /\ Matches(u, a) => Matches(u, a)'
                        /\ Unreachable(u, a) => Unreachable(u, a)'
                        /\ ~Undoing(t, u, a) /\ ~Clearing(t, u)
      OBVIOUS
    <3>1. \A l \in Levels : macKey'[u][a][l] = macKey[u][a][l]
      BY <1>8
    <3>2. Unreachable(u, a) => Unreachable(u, a)'
      BY <1>11 DEF Unreachable
    <3> QED
      BY <1>1, <1>4, <1>6, <3>1, <3>2 DEF Matches, Undoing, Clearing, At
  <2>2. \A u \in Uris, a \in Uids : <<u, a>> \in {<<uri, app>>} => Undoing(t, u, a)'
    BY <1>7, <1>9 DEF Undoing, At
  <2>3. {<<uri, app>>} \in SUBSET (Uris \X Uids) /\ (UNCHANGED faults \/ Fault)
    BY <1>4, <1>7
  <2> QED
    BY <1>6, <1>12, <2>1, <2>2, <2>3, TouchedGrantsMatch
<1>17. GrantTypeOK'
  <2>1. faults' \in 0..MaxFaults
    BY <1>7, AuthAssumption DEF IInv, GrantTypeOK, Fault
  <2>2. issued \subseteq [uri : Uris, app : Uids, gen : 1..gen]
    BY <1>5 DEF IInv, GrantTypeOK
  <2>3. generations' \in 0..MaxGrants
    BY <1>5, <1>6
  <2> QED
    BY <1>6, <1>8, <1>10, <1>12, <2>1, <2>2, <2>3 DEF IInv, GrantTypeOK
<1> QED
  BY <1>12, <1>13, <1>15, <1>16, <1>17 DEF IInv, TokensKept

\* The grant is completed: the app is listed and gets its authUri.
LEMMA GrantAddUidKeeps ==
    ASSUME IInv, NEW t \in Threads, GrantAddUid(t)
    PROVE  IInv'
<1>1. PICK uri, app, level :
         uri = thread[t].uri /\ app = thread[t].app /\ level = thread[t].level
  OBVIOUS
<1> DEFINE authUri == [uri |-> uri, app |-> app, gen |-> macKey[uri][app][level]]
<1>2. thread[t].pc = "grant_uid" /\ uri \in Uris /\ app \in Uids /\ level \in Levels
  BY <1>1, RequestOf DEF IInv, GrantTypeOK, GrantAddUid, At, GrantRequests
<1>3. Idle \in Requests /\ Idle.pc = "idle" /\ Goto(t, Idle) /\ Release
  BY DEF Requests, Idle, GrantAddUid
<1>4. /\ UNCHANGED <<credFile, row, macKey, generations, revoked, unclearedEvent, strayed,
                     faults>>
      /\ issued' = issued \cup {authUri}
  BY <1>1 DEF GrantAddUid
<1>5. /\ authList' \in [Uris -> SUBSET Uids]
      /\ authList'[uri] = authList[uri] \cup {app}
      /\ \A u \in Uris : u # uri => authList'[u] = authList[u]
  BY <1>1, <1>2 DEF IInv, GrantTypeOK, GrantAddUid
<1>6. macKey[uri][app][level] \in 1..generations
  <2>1. macKey[uri][app][level] \in 0..generations /\ generations \in Nat
    BY <1>2 DEF IInv, GrantTypeOK
  <2>2. macKey[uri][app][level] # 0
    BY <1>1, <1>2 DEF IInv, SectionsKeep, SectionKeeps, At
  <2> QED
    BY <2>1, <2>2
<1>7. /\ authUri \in [uri : Uris, app : Uids, gen : 1..generations]
      /\ authUri.uri = uri /\ authUri.app = app
  BY <1>2, <1>6
<1> HIDE DEF authUri
<1>8. thread'[t] = Idle
  BY <1>3, ThreadUpdated DEF IInv, GrantTypeOK
<1>9. /\ LockIsHeld' /\ SectionsKeep'
      /\ thread' \in [Threads -> Requests]
      /\ \A other \in Threads \ {t} : thread'[other] = thread[other]
  <2>1. thread[t].pc \in LockedPcs /\ Idle.pc \notin LockedPcs
    BY <1>2, <1>3 DEF LockedPcs
  <2>2. SectionKeeps(t)'
    BY <1>3, <1>8 DEF SectionKeeps, At
  <2> QED
    BY <1>3, <2>1, <2>2, SectionStepKeeps
<1>10. GrantTypeOK'
  <2>1. /\ issued' \subseteq [uri : Uris, app : Uids, gen : 1..generations]
        /\ revoked' \subseteq issued'
    BY <1>4, <1>7 DEF IInv, GrantTypeOK
  <2> QED
    BY <1>4, <1>5, <1>9, <2>1 DEF IInv, GrantTypeOK
<1>11. KeysAreAtRowLevel' /\ RevokedKeysAreGone'
  BY <1>4 DEF IInv, TokensKept, KeysAreAtRowLevel, RevokedKeysAreGone, Reachable, LevelOf
<1>12. IssuedKeysAreListed'
  <2> SUFFICES ASSUME NEW a \in issued', NEW l \in Levels, macKey[a.uri][a.app][l] = a.gen
               PROVE  \/ a.app \in authList'[a.uri] \/ a.uri \in unclearedEvent
                      \/ a.gen \in strayed
    BY <1>4 DEF IssuedKeysAreListed
  <2>1. CASE a = authUri
    BY <1>5, <1>7, <2>1
  <2>2. CASE a \in issued
    <3>1. /\ \/ a.app \in authList[a.uri] \/ a.uri \in unclearedEvent
             \/ a.gen \in strayed
          /\ a.uri \in Uris
      BY <2>2 DEF IInv, TokensKept, IssuedKeysAreListed, GrantTypeOK
    <3> QED
      BY <1>5, <3>1
  <2> QED
    BY <1>4, <2>1, <2>2
<1>13. KeysMatch'
  <2>0. \A u \in Uris, a \in Uids : Unreachable(u, a)' <=> Unreachable(u, a)
    BY <1>4 DEF Unreachable, Reachable
  <2>1. \A u \in Uris, a \in Uids : <<u, a>> \notin {<<uri, app>>} =>
            /\ Matches(u, a) => Matches(u, a)'
            /\ Unreachable(u, a) => Unreachable(u, a)'
            /\ ~Undoing(t, u, a) /\ ~Clearing(t, u)
    BY <1>1, <1>2, <1>4, <1>5, <2>0 DEF Matches, Undoing, Clearing, At
  <2>2. \A u \in Uris, a \in Uids : <<u, a>> \in {<<uri, app>>} => Matches(u, a)'
    <3>1. macKey'[uri][app][level] # 0
      BY <1>4, <1>6
    <3> QED
      BY <1>2, <1>5, <3>1 DEF Matches
  <2>3. {<<uri, app>>} \in SUBSET (Uris \X Uids)
    BY <1>2
  <2> QED
    BY <1>4, <1>9, <2>1, <2>2, <2>3, TouchedGrantsMatch
<1> QED
  BY <1>9, <1>10, <1>11, <1>12, <1>13 DEF IInv, TokensKept

\* The service dies in whatever it was doing: the lock and all requests go.
LEMMA CrashKeeps ==
    ASSUME IInv, Crash
    PROVE  IInv'
<1>1. /\ UNCHANGED <<credFile, row, authList, macKey, generations, issued, revoked,
                     unclearedEvent, strayed>>
      /\ authLock' = Nobody /\ Fault
      /\ thread' = [t \in Threads |-> Idle]
  BY DEF Crash, storeVars, historyVars
<1>2. Idle \in Requests /\ Idle.pc = "idle"
  BY DEF Requests, Idle
<1>3. thread' \in [Threads -> Requests] /\ \A t \in Threads : thread'[t].pc = "idle"
  BY <1>1, <1>2
<1>4. faults' \in 0..MaxFaults /\ faults' # 0
  BY <1>1, AuthAssumption DEF IInv, GrantTypeOK, Fault
<1>5. GrantTypeOK'
  BY <1>1, <1>3, <1>4 DEF IInv, GrantTypeOK
<1>6. LockIsHeld'
  BY <1>1, <1>3, AuthAssumption DEF LockIsHeld, LockedPcs
<1>7. SectionsKeep'
  BY <1>3 DEF SectionsKeep, SectionKeeps, At
<1>8. TokensKept'
  BY <1>1 DEF IInv, TokensKept, KeysAreAtRowLevel, RevokedKeysAreGone, IssuedKeysAreListed,
              Reachable, LevelOf
<1>9. KeysMatch'
  BY <1>4 DEF KeysMatch
<1> QED
  BY <1>5, <1>6, <1>7, <1>8, <1>9 DEF IInv

\* A step that changes nothing.
LEMMA StutterKeeps ==
    ASSUME IInv, UNCHANGED vars
    PROVE  IInv'
<1>1. UNCHANGED <<credFile, row, authList, macKey, generations, authLock, thread, issued,
                  revoked, unclearedEvent, strayed, faults>>
  BY DEF vars, storeVars, historyVars
<1>2. GrantTypeOK' /\ LockIsHeld'
  BY <1>1 DEF IInv, GrantTypeOK, LockIsHeld
<1>3. /\ \A u, a, l : Reachable(u, a, l)' <=> Reachable(u, a, l)
      /\ \A u, a : Unreachable(u, a)' <=> Unreachable(u, a)
  BY <1>1 DEF Unreachable, Reachable
<1>4. SectionsKeep'
  BY <1>1, <1>3 DEF IInv, SectionsKeep, SectionKeeps, At
<1>5. TokensKept'
  BY <1>1 DEF IInv, TokensKept, KeysAreAtRowLevel, RevokedKeysAreGone, IssuedKeysAreListed,
              Reachable, LevelOf
<1>6. KeysMatch'
  BY <1>1, <1>3 DEF IInv, KeysMatch, Matches, Undoing, Clearing, At
<1> QED
  BY <1>2, <1>4, <1>5, <1>6 DEF IInv

-----------------------------------------------------------------------------
(* The invariant of grants                                                 *)

\* Nothing is installed, listed or granted.
LEMMA InitEstablishes == ASSUME Init PROVE IInv
<1>1. /\ Idle \in Requests /\ Idle.pc = "idle" /\ thread = [t \in Threads |-> Idle]
      /\ \A t \in Threads : thread[t].pc = "idle"
  BY DEF Init, Requests, Idle
<1>2. GrantTypeOK
  BY <1>1, AuthAssumption DEF Init, GrantTypeOK
<1>3. LockIsHeld
  BY <1>1, AuthAssumption DEF Init, LockIsHeld, LockedPcs
<1>4. SectionsKeep
  BY <1>1 DEF SectionsKeep, SectionKeeps, At
<1>5. \A u \in Uris, a \in Uids, l \in Levels : macKey[u][a][l] = 0
  BY DEF Init
<1>6. TokensKept
  BY <1>5 DEF Init, TokensKept, KeysAreAtRowLevel, RevokedKeysAreGone, IssuedKeysAreListed,
              Reachable
<1>7. KeysMatch
  BY <1>5 DEF Init, KeysMatch, Matches, Unreachable, Reachable
<1> QED
  BY <1>2, <1>3, <1>4, <1>6, <1>7 DEF IInv

\* Each step of each request, and the death of the service.
LEMMA NextPreserves == ASSUME IInv, [Next]_vars PROVE IInv'
<1>1. ASSUME NEW t \in Threads, Continue(t) PROVE IInv'
  <2>1. CASE InstallFile(t) \/ InstallRow(t) \/ RemoveRow(t) \/ RemoveFile(t)
             \/ RemoveFileFails(t) \/ ReadLevel(t) \/ RemoveRecordFails(t)
    BY <2>1, StoreStepKeeps
  <2>2. CASE GrantGenerateKey(t)
    BY <2>2, GrantGenerateKeyKeeps
  <2>3. CASE GrantAddUid(t)
    BY <2>3, GrantAddUidKeeps
  <2>4. CASE GrantFailsEarly(t) \/ GrantAddUidFails(t) \/ RevokeFails(t)
    BY <2>4, ReleaseKeeps
  <2>5. CASE GrantClear(t) \/ ClearBegin(t) \/ EventGrantBegin(t)
    BY <2>5, AcquireKeeps
  <2>6. CASE RevokeDeleteKey(t)
    BY <2>6, RevokeDeleteKeyKeeps
  <2>7. CASE RevokeRemoveUid(t)
    BY <2>7, RevokeRemoveUidKeeps
  <2>8. CASE ClearKeys(t)
    BY <2>8, ClearKeysKeeps
  <2>9. CASE ClearList(t)
    BY <2>9, ClearListKeeps
  <2>10. CASE ClearFails(t)
    BY <2>10, ClearFailsKeeps
  <2>11. CASE RemoveAllStep(t) \/ EventOwnFile(t) \/ EventSkip(t)
    BY <2>11, LoopStepKeeps
  <2>12. CASE EventGrantKey(t)
    BY <2>12, EventGrantKeyKeeps
  <2>13. CASE EventGrantEnd(t)
    BY <2>13, EventGrantEndKeeps
  <2>14. CASE EventEnd(t)
    BY <2>14, EventEndKeeps
  <2> QED
    BY <1>1, <2>1, <2>2, <2>3, <2>4, <2>5, <2>6, <2>7, <2>8, <2>9, <2>10, <2>11, <2>12,
       <2>13, <2>14 DEF Continue
<1>2. ASSUME NEW t \in Threads, Start(t) PROVE IInv'
  BY <1>2, StoreStepKeeps, AcquireKeeps, LoopStepKeeps DEF Start
<1>3. CASE Crash
  BY <1>3, CrashKeeps
<1>4. CASE UNCHANGED vars
  BY <1>4, StutterKeeps
<1> QED
  BY <1>1, <1>2, <1>3, <1>4 DEF Next

\* The lock, the lists, the keys and the authUris handed out stay in step.
THEOREM InductiveInvariant == Spec => []IInv
<1>1. Init => IInv
  BY InitEstablishes
<1>2. IInv /\ [Next]_vars => IInv'
  BY NextPreserves
<1> QED
  BY <1>1, <1>2, PTL DEF Spec

\* g_authMgrLock is held by the one thread that stands in a critical section: no
\* two threads are ever in one, and no path out of one, the error paths
\* included, leaves the lock taken.
THEOREM LockIsAlwaysHeld ==
    Spec => []/\ LockIsHeld
              /\ \A t, u \in Threads :
                    thread[t].pc \in LockedPcs /\ thread[u].pc \in LockedPcs => t = u
<1>1. IInv => /\ LockIsHeld
              /\ \A t, u \in Threads :
                    thread[t].pc \in LockedPcs /\ thread[u].pc \in LockedPcs => t = u
  BY DEF IInv, LockIsHeld
<1> QED
  BY <1>1, InductiveInvariant, PTL

\* No authUri handed out before an acknowledged revocation verifies again,
\* whatever is granted, installed or removed afterwards, but for one whose MAC
\* key was at another level than the row named.
THEOREM RevocationIsFinal == Spec => []RevokedStaysRevoked
<1>1. ASSUME IInv PROVE RevokedStaysRevoked
  <2> SUFFICES ASSUME NEW a \in revoked, Valid(a) PROVE a.gen \in strayed
    BY DEF RevokedStaysRevoked
  <2>1. LevelOf(a.uri) \in Levels
    BY <1>1, LevelOfIsLevel DEF IInv, GrantTypeOK
  <2> QED
    BY <1>1, <2>1 DEF IInv, TokensKept, RevokedKeysAreGone, Valid
<1> QED
  BY <1>1, InductiveInvariant, PTL

\* An authUri that verifies belongs to an app in the list, where the removal of
\* the credential will find it, but for the lists that the removal event drops
\* without having deleted their MAC keys, and for keys at another level.
THEOREM ValidTokensAreListed == Spec => []ValidTokenIsListed
<1>1. ASSUME IInv PROVE ValidTokenIsListed
  <2> SUFFICES ASSUME NEW a \in issued, Valid(a)
               PROVE  \/ a.app \in authList[a.uri] \/ a.uri \in unclearedEvent
                      \/ a.gen \in strayed
    BY DEF ValidTokenIsListed
  <2>1. LevelOf(a.uri) \in Levels
    BY <1>1, LevelOfIsLevel DEF IInv, GrantTypeOK
  <2> QED
    BY <1>1, <2>1 DEF IInv, TokensKept, IssuedKeysAreListed, Valid
<1> QED
  BY <1>1, InductiveInvariant, PTL

\* As long as nothing failed, whoever takes the lock finds the list and the MAC
\* keys that did not stray naming the same apps, but for failed grants still to be
\* cleared.
THEOREM ListsAlwaysMatchKeys == Spec => []ListMatchesKeys
<1>1. ASSUME IInv PROVE ListMatchesKeys
  <2> SUFFICES ASSUME faults = 0, authLock = Nobody,
                      NEW uri \in Uris \ unclearedEvent, NEW app \in Uids
               PROVE  LET keys == {macKey[uri][app][level] : level \in Levels} \ {0}
                      IN  \/ /\ app \in authList[uri] => keys # {}
                             /\ keys \subseteq strayed \/ app \in authList[uri]
                          \/ \E t \in Threads : /\ At(t, "grant_clear")
                                                /\ thread[t].uri = uri
                                                /\ thread[t].app = app
    BY DEF ListMatchesKeys
  <2>1. \A t \in Threads : thread[t].pc \notin LockedPcs
    BY <1>1, AuthAssumption DEF IInv, LockIsHeld
  <2>2. \A t \in Threads : ~Clearing(t, uri)
    BY <2>1 DEF Clearing, At, LockedPcs
  <2>3. CASE Matches(uri, app)
    BY <2>3 DEF Matches, Unreachable, Reachable
  <2>4. CASE ~Matches(uri, app)
    <3>1. PICK t \in Threads : Undoing(t, uri, app)
      BY <1>1, <2>2, <2>4 DEF IInv, KeysMatch
    <3>2. At(t, "grant_clear") /\ thread[t].uri = uri /\ thread[t].app = app
      BY <2>1, <3>1 DEF Undoing, At, LockedPcs
    <3> QED
      BY <3>2
  <2> QED
    BY <2>3, <2>4
<1> QED
  BY <1>1, InductiveInvariant, PTL

-----------------------------------------------------------------------------
(* The limit of the lists                                                  *)

ListsAreLimited ==
    \A uri \in Uris : IsFiniteSet(authList[uri]) /\ Cardinality(authList[uri]) <= MaxAuthCount

\* Only CmAddAuthUid lengthens a list.
LEMMA OnlyGrantsListApps ==
    ASSUME IInv, [Next]_vars, ~\E t \in Threads : GrantAddUid(t), NEW uri \in Uris
    PROVE  authList'[uri] \subseteq authList[uri]
<1>1. authList \in [Uris -> SUBSET Uids]
  BY DEF IInv, GrantTypeOK
<1>2. ASSUME NEW t \in Threads, Continue(t) \/ Start(t)
      PROVE  authList'[uri] \subseteq authList[uri]
  <2>1. CASE RevokeRemoveUid(t) \/ ClearList(t) \/ EventGrantEnd(t) \/ EventEnd(t)
    BY <1>1, <2>1 DEF RevokeRemoveUid, ClearList, EventGrantEnd, EventEnd
  <2> QED
    BY <1>2, <2>1
       DEF Continue, Start, InstallFile, InstallRow, GrantGenerateKey, GrantFailsEarly,
           GrantAddUidFails, GrantClear, RevokeDeleteKey, RevokeFails, ClearBegin, ClearKeys,
           ClearFails, RemoveRow, RemoveFile, RemoveFileFails, ReadLevel, RemoveRecordFails,
           RemoveAllStep, EventOwnFile, EventGrantBegin, EventGrantKey, EventSkip,
           InstallBegin, GrantBegin, RevokeBegin, UninstallBegin, RemoveAllBegin, EventBegin,
           storeVars
<1> QED
  BY <1>2 DEF Next, Crash, vars, storeVars

LEMMA NextKeepsListLimit ==
    ASSUME IInv, ListsAreLimited, [Next]_vars PROVE ListsAreLimited'
<1> SUFFICES ASSUME NEW uri \in Uris
             PROVE  IsFiniteSet(authList'[uri]) /\ Cardinality(authList'[uri]) <= MaxAuthCount
  BY DEF ListsAreLimited
<1>1. /\ authList \in [Uris -> SUBSET Uids]
      /\ IsFiniteSet(authList[uri]) /\ Cardinality(authList[uri]) <= MaxAuthCount
      /\ Cardinality(authList[uri]) \in Nat
      /\ MaxAuthCount \in Nat
  BY AuthAssumption, FS_CardinalityType DEF IInv, GrantTypeOK, ListsAreLimited
<1>2. CASE authList'[uri] \subseteq authList[uri]
  <2>1. /\ IsFiniteSet(authList'[uri])
        /\ Cardinality(authList'[uri]) <= Cardinality(authList[uri])
    BY <1>1, <1>2, FS_Subset
  <2> QED
    BY <1>1, <2>1, FS_CardinalityType
<1>3. ASSUME NEW t \in Threads, GrantAddUid(t)
      PROVE  IsFiniteSet(authList'[uri]) /\ Cardinality(authList'[uri]) <= MaxAuthCount
  <2>1. /\ CanAddUid(thread[t].uri, thread[t].app)
        /\ authList' = [authList EXCEPT ![thread[t].uri] = @ \cup {thread[t].app}]
    BY <1>3 DEF GrantAddUid
  <2>2. CASE authList'[uri] = authList[uri]
    BY <1>2, <2>2
  <2>3. CASE authList'[uri] # authList[uri]
    <3>1. /\ uri = thread[t].uri
          /\ authList'[uri] = authList[uri] \cup {thread[t].app}
          /\ thread[t].app \notin authList[uri]
      BY <1>1, <2>1, <2>3
    <3>2. Cardinality(authList[uri]) < MaxAuthCount
      BY <2>1, <3>1 DEF CanAddUid
    <3>3. PICK app : app = thread[t].app
      OBVIOUS
    <3>4. /\ IsFiniteSet(authList[uri] \cup {app})
          /\ Cardinality(authList[uri] \cup {app}) = Cardinality(authList[uri]) + 1
      BY <1>1, <3>1, <3>3, FS_AddElement
    <3> QED
      BY <1>1, <3>1, <3>2, <3>3, <3>4
  <2> QED
    BY <2>2, <2>3
<1> QED
  BY <1>2, <1>3, OnlyGrantsListApps

\* Every variable keeps its type, the auth lists stay within MAX_AUTH_COUNT, and
\* the lock is always held by the one thread in a critical section: every path
\* out of one unlocks.
THEOREM TypeCorrect == Spec => []TypeAndLockOK
<1>1. Init => ListsAreLimited
  <2>1. IsFiniteSet({}) /\ Cardinality({}) = 0
    BY FS_EmptySet
  <2> QED
    BY <2>1, AuthAssumption DEF Init, ListsAreLimited
<1>2. IInv /\ ListsAreLimited /\ [Next]_vars => ListsAreLimited'
  BY NextKeepsListLimit
<1>3. IInv /\ ListsAreLimited => TypeAndLockOK
  <2> SUFFICES ASSUME IInv, ListsAreLimited PROVE TypeAndLockOK
    OBVIOUS
  <2>1. \A request \in Requests : request.pc \in Pcs
    BY DEF Requests, Pcs, Idle, InstallRequests, GrantRequests, UndoRequests, RevokeRequests,
           RemovalRequests, EventRequests, LoopRequests
  <2>2. issued \subseteq ToBeAuthed
    <3>1. 1..generations \subseteq 1..MaxGrants
      BY AuthAssumption DEF IInv, GrantTypeOK
    <3> QED
      BY <3>1 DEF IInv, GrantTypeOK, ToBeAuthed
  <2>3. \A uri \in Uris : Cardinality(authList[uri]) <= MaxAuthCount
    BY DEF ListsAreLimited
  <2> QED
    BY <2>1, <2>2, <2>3 DEF TypeAndLockOK, IInv, GrantTypeOK, LockIsHeld
<1> QED
  BY <1>1, <1>2, <1>3, InductiveInvariant, PTL DEF Spec
=============================================================================
