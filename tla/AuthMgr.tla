------------------------------ MODULE AuthMgr ------------------------------
(***************************************************************************)
(* Grants on public credentials: cert_manager_auth_mgr.c over              *)
(* cert_manager_auth_list_mgr.c, with the operations that race with them:  *)
(* installing and uninstalling the credential, and the removal event of an *)
(* application or a user.                                                  *)
(*                                                                         *)
(* A grant is a MAC key in HUKS for (credential, client), the client's uid *)
(* in the credential's auth list file, and the authUri handed out, which   *)
(* carries the MAC.  HksGenerateKey replaces an existing key, so an        *)
(* authUri is modelled by the generation of the key that signed it and is  *)
(* valid while that generation is the one stored.                          *)
(*                                                                         *)
(* HUKS keeps the keys of one alias apart by storage level.  Whoever makes, *)
(* checks or deletes a MAC key takes the level from the credential's row,  *)
(* EL1 when there is none, and a key that is missing at that level counts  *)
(* as deleted; so a key at another level escapes every deletion.           *)
(*                                                                         *)
(* The key, the list and the credential are stores updated one after the   *)
(* other; g_authMgrLock covers key and list but not file and row of the    *)
(* credential, and CmServiceInit checks an authUri without it.  A step may *)
(* fail (faults) and the service may die between two steps.                *)
(*                                                                         *)
(* Left to other modules: the private key (CredStore), and the sessions    *)
(* that a revocation, a removal or an event takes along (KeyOperation,     *)
(* where every kind of removal may come at any time).                      *)
(***************************************************************************)
EXTENDS Integers, FiniteSets

CONSTANTS
    Uids,                 \* application uids of one system user
    Uris,                 \* key URIs of public credentials
    Threads,              \* threads of the service
    Producer,             \* Uris -> Uids: the application a credential belongs to
    Levels,               \* the storage levels
    EL1,                  \* CM_AUTH_STORAGE_LEVEL_EL1, taken without a row
    NoLevel,              \* ERROR_LEVEL: the credential has no row
    MaxAuthCount,         \* MAX_AUTH_COUNT (256 in the code)
    MaxGrants,            \* bound on generated MAC keys
    MaxFaults,            \* bound on failing key, file and database operations
                          \* and deaths of the service
    Nobody                \* g_authMgrLock is free

ASSUME AuthAssumption ==
    /\ Producer \in [Uris -> Uids]
    /\ EL1 \in Levels /\ NoLevel \notin Levels
    /\ Nobody \notin Threads
    /\ {MaxAuthCount, MaxGrants, MaxFaults} \subseteq Nat

VARIABLES
    credFile,             \* credentials whose certificate file exists
    row,                  \* Uris -> level in the database row, NoLevel if none
    authList,             \* Uris -> the uids in the auth list file
    macKey,               \* Uris -> Uids -> Levels -> generation of the MAC key,
                          \* 0 if none
    generations,          \* MAC keys ever generated
    authLock,             \* holder of g_authMgrLock
    thread,               \* where each thread stands in its request
    issued,               \* authUris returned by a successful grant (history)
    revoked,              \* authUris whose revocation was acknowledged (history)
    unclearedEvent,       \* credentials an event dropped the list of with MAC
                          \* keys left (history)
    strayed,              \* MAC keys that were at another level than the row, or
                          \* the request that cleared their list, named (history)
    faults                \* operations that failed, and deaths

storeVars == <<credFile, row, authList, macKey, generations>>
historyVars == <<issued, revoked, unclearedEvent, strayed>>
vars == <<storeVars, authLock, thread, historyVars, faults>>

Idle == [pc |-> "idle"]
Goto(t, request) == thread' = [thread EXCEPT ![t] = request]
At(t, pc) == thread[t].pc = pc
\* The same request, at its next step.
Advance(t, pc) == Goto(t, [thread[t] EXCEPT !.pc = pc])

Acquire(t) == authLock = Nobody /\ authLock' = t
Release == authLock' = Nobody

\* One operation of HUKS, of the file system or of the database fails.
Fault == faults < MaxFaults /\ faults' = faults + 1

\* GetRdbAuthStorageLevel and the default every caller of it takes.
LevelOf(uri) == IF row[uri] = NoLevel THEN EL1 ELSE row[uri]

ToBeAuthed == [uri : Uris, app : Uids, gen : 1..MaxGrants]
Valid(authUri) ==
    macKey[authUri.uri][authUri.app][LevelOf(authUri.uri)] = authUri.gen

\* The MAC keys of the given apps that a request at this level does not reach.
Elsewhere(uri, apps, level) ==
    {macKey[uri][app][other] : app \in apps, other \in Levels \ {level}} \ {0}

\* The row of the credential is replaced or deleted.
SetRow(uri, level) ==
    /\ row' = [row EXCEPT ![uri] = level]
    /\ strayed' = strayed \cup
          Elsewhere(uri, Uids, IF level = NoLevel THEN EL1 ELSE level)

-----------------------------------------------------------------------------
(* Installing a public credential: the certificate file, then the row with *)
(* the level that was asked for.                                           *)

InstallBegin(t) ==
    /\ At(t, "idle")
    /\ \E uri \in Uris, asked \in Levels :
          Goto(t, [pc |-> "install_file", uri |-> uri, level |-> asked])
    /\ UNCHANGED <<storeVars, authLock, historyVars, faults>>

InstallFile(t) ==
    /\ At(t, "install_file")
    /\ \/ /\ credFile' = credFile \cup {thread[t].uri}
          /\ Advance(t, "install_row")
          /\ UNCHANGED faults
       \/ Fault /\ Goto(t, Idle) /\ UNCHANGED credFile
    /\ UNCHANGED <<row, authList, macKey, generations, authLock, historyVars>>

InstallRow(t) ==
    /\ At(t, "install_row")
    /\ \/ SetRow(thread[t].uri, thread[t].level) /\ UNCHANGED faults
       \/ Fault /\ UNCHANGED <<row, strayed>>
    /\ Goto(t, Idle)
    /\ UNCHANGED <<credFile, authList, macKey, generations, authLock, issued,
                   revoked, unclearedEvent>>

-----------------------------------------------------------------------------
(* CmAuthGrantAppCertificate, called by the producer of the credential.    *)

\* The lock is taken, the credential is there and its level is read.
GrantBegin(t) ==
    /\ At(t, "idle")
    /\ generations < MaxGrants
    /\ Acquire(t)
    /\ \E uri \in credFile, app \in Uids :
          /\ app # Producer[uri]
          /\ Goto(t, [pc |-> "grant_key", uri |-> uri, app |-> app,
                      level |-> LevelOf(uri)])
    /\ UNCHANGED <<storeVars, historyVars, faults>>

\* A grant that failed: the lock is released before the auth info is cleared.
Undo(t) ==
    /\ Release
    /\ Goto(t, [pc |-> "grant_clear", uri |-> thread[t].uri, app |-> thread[t].app])

\* GenerateAuthUri: a new MAC key, then the MAC.  The first may be done when
\* the second fails (or the caller's buffer is too small).
GrantGenerateKey(t) ==
    LET uri == thread[t].uri
        app == thread[t].app
        level == thread[t].level
    IN  /\ At(t, "grant_key")
        /\ generations' = generations + 1
        /\ macKey' = [macKey EXCEPT ![uri][app][level] = generations + 1]
        /\ strayed' = IF level = LevelOf(uri) THEN strayed
                      ELSE strayed \cup {generations + 1}
        /\ \/ Advance(t, "grant_uid") /\ UNCHANGED <<authLock, faults>>
           \/ Fault /\ Undo(t)
        /\ UNCHANGED <<credFile, row, authList, issued, revoked, unclearedEvent>>

\* The storage level cannot be read, or no key was generated.
GrantFailsEarly(t) ==
    /\ At(t, "grant_key")
    /\ Fault
    /\ Undo(t)
    /\ UNCHANGED <<storeVars, historyVars>>

\* CmAddAuthUid: checks the credential again, then rewrites the auth list.
CanAddUid(uri, app) ==
    /\ uri \in credFile
    /\ app \in authList[uri] \/ Cardinality(authList[uri]) < MaxAuthCount

GrantAddUid(t) ==
    LET uri == thread[t].uri
        app == thread[t].app
    IN  /\ At(t, "grant_uid")
        /\ CanAddUid(uri, app)
        /\ authList' = [authList EXCEPT ![uri] = @ \cup {app}]
        /\ issued' = issued \cup
              {[uri |-> uri, app |-> app, gen |-> macKey[uri][app][thread[t].level]]}
        /\ Release
        /\ Goto(t, Idle)
        /\ UNCHANGED <<credFile, row, macKey, generations, revoked, unclearedEvent,
                       strayed, faults>>

\* Seeded fault: the lock is kept for the clearing.
GrantAddUidFails_KeepsLock(t) ==
    /\ At(t, "grant_uid")
    /\ ~CanAddUid(thread[t].uri, thread[t].app)
    /\ Advance(t, "grant_clear")
    /\ UNCHANGED <<storeVars, authLock, historyVars, faults>>

\* The credential is gone, the list full, or it cannot be read or written.
GrantAddUidFails(t) ==
    /\ At(t, "grant_uid")
    /\ \/ ~CanAddUid(thread[t].uri, thread[t].app) /\ UNCHANGED faults
       \/ Fault
    /\ Undo(t)
    /\ UNCHANGED <<storeVars, historyVars>>

-----------------------------------------------------------------------------
(* CmAuthRemoveGrantedApp: for the producer, or to clear a failed grant.   *)

\* The lock is held when a request for this is made, and the level read.
RevokeRequest(uri, app, clearing) ==
    [pc |-> "revoke_key", uri |-> uri, app |-> app, level |-> LevelOf(uri),
     clearing |-> clearing]

RevokeBegin(t) ==
    /\ At(t, "idle")
    /\ Acquire(t)
    /\ \E uri \in Uris, app \in Uids :
          /\ app # Producer[uri]
          /\ Goto(t, RevokeRequest(uri, app, FALSE))
    /\ UNCHANGED <<storeVars, historyVars, faults>>

\* The cleanup after a failed grant takes the lock and reads the level anew.
GrantClear(t) ==
    /\ At(t, "grant_clear")
    /\ Acquire(t)
    /\ Goto(t, RevokeRequest(thread[t].uri, thread[t].app, TRUE))
    /\ UNCHANGED <<storeVars, historyVars, faults>>

\* Seeded fault: the keys are looked for at EL1 whatever the level.
DeleteMacKeys_WrongLevel(uri, apps, level) ==
    macKey' = [macKey EXCEPT ![uri] =
        [app \in Uids |-> IF app \in apps THEN [@[app] EXCEPT ![EL1] = 0] ELSE @[app]]]

\* DeleteMacKey for each of the apps: gone is what is there at this level, and
\* when nothing is there CmKeyOpDeleteKey succeeds too.
DeleteMacKeys(uri, apps, level) ==
    macKey' = [macKey EXCEPT ![uri] =
        [app \in Uids |-> IF app \in apps THEN [@[app] EXCEPT ![level] = 0] ELSE @[app]]]

RevokeDeleteKey(t) ==
    /\ At(t, "revoke_key")
    /\ DeleteMacKeys(thread[t].uri, {thread[t].app}, thread[t].level)
    /\ Advance(t, "revoke_uid")
    /\ UNCHANGED <<credFile, row, authList, generations, authLock, historyVars,
                   faults>>

\* Seeded fault: the list that was refreshed is not written back.
RevokeRemoveUid_NotWritten(t) ==
    /\ At(t, "revoke_uid")
    /\ Release
    /\ Goto(t, Idle)
    /\ UNCHANGED <<storeVars, historyVars, faults>>

\* CmRemoveAuthUid, and but for the sessions of the producer the request is done.
RevokeRemoveUid(t) ==
    LET uri == thread[t].uri
        app == thread[t].app
    IN  /\ At(t, "revoke_uid")
        /\ authList' = [authList EXCEPT ![uri] = @ \ {app}]
        /\ revoked' = IF thread[t].clearing THEN revoked
                      ELSE revoked \cup {a \in issued : a.uri = uri /\ a.app = app}
        /\ Release
        /\ Goto(t, Idle)
        /\ UNCHANGED <<credFile, row, macKey, generations, issued, unclearedEvent,
                       strayed, faults>>

RevokeFails(t) ==
    /\ thread[t].pc \in {"revoke_key", "revoke_uid"}
    /\ Fault
    /\ Release
    /\ Goto(t, Idle)
    /\ UNCHANGED <<storeVars, historyVars>>

-----------------------------------------------------------------------------
(* Removing credentials:                                                   *)
(*   CmRemoveAppCert     level, grants, row, file                          *)
(*   removal event       grants, file; the row stays                       *)
(*   CmRemoveAllAppCert  file, level, row, grants                          *)

\* by: which of them ("uninstall", "event", "all"); uid: the application the
\* event is about; own: the credentials it takes along; left: those the loop
\* still has to visit.
Removal(pc, by, uid, own, left) ==
    [pc |-> pc, by |-> by, uid |-> uid, own |-> own, left |-> left]
For(uri, level, pc, request) ==
    [pc |-> pc, uri |-> uri, level |-> level, by |-> request.by,
     uid |-> request.uid, own |-> request.own, left |-> request.left]

\* The level is read before anything else, and without the lock.
UninstallBegin(t) ==
    /\ At(t, "idle")
    /\ \E uri \in Uris :
          Goto(t, For(uri, LevelOf(uri), "clear_wait",
                      Removal("", "uninstall", Nobody, {uri}, {uri})))
    /\ UNCHANGED <<storeVars, authLock, historyVars, faults>>

\* The credential is done with: the request ends or goes on with the next one.
CredentialDone(t) ==
    Goto(t, IF thread[t].by = "uninstall" THEN Idle
            ELSE Removal(thread[t].by, thread[t].by, thread[t].uid, thread[t].own,
                         thread[t].left \ {thread[t].uri}))
ClearDone(t) ==
    \/ thread[t].by = "all" /\ CredentialDone(t)
    \/ /\ thread[t].by = "uninstall"
       /\ Goto(t, For(thread[t].uri, NoLevel, "remove_row", thread[t]))
    \/ /\ thread[t].by = "event"
       /\ Goto(t, For(thread[t].uri, NoLevel, "remove_file", thread[t]))

\* CmAuthDeleteAuthInfo takes the lock; CmAuthDeleteAuthInfoByUserId, of the
\* event, reads the level under it.
ClearBegin(t) ==
    LET level == IF thread[t].by = "event" THEN LevelOf(thread[t].uri)
                 ELSE thread[t].level
    IN  /\ At(t, "clear_wait")
        /\ Acquire(t)
        /\ Goto(t, For(thread[t].uri, level, "clear_keys", thread[t]))
        /\ UNCHANGED <<storeVars, historyVars, faults>>

\* DeleteAuthInfo: the MAC keys of the listed uids.
ClearKeys(t) ==
    LET uri == thread[t].uri
        level == thread[t].level
    IN  /\ At(t, "clear_keys")
        /\ DeleteMacKeys(uri, authList[uri], level)
        /\ strayed' = strayed \cup Elsewhere(uri, authList[uri], level)
        /\ Advance(t, "clear_list")
        /\ UNCHANGED <<credFile, row, authList, generations, authLock, issued,
                       revoked, unclearedEvent, faults>>

\* CmDeleteAuthListFile.
ClearList(t) ==
    /\ At(t, "clear_list")
    /\ authList' = [authList EXCEPT ![thread[t].uri] = {}]
    /\ Release
    /\ ClearDone(t)
    /\ UNCHANGED <<credFile, row, macKey, generations, historyVars, faults>>

\* A failure is only logged; the first failing key ends the loop over them.
ClearFails(t) ==
    /\ thread[t].pc \in {"clear_keys", "clear_list"}
    /\ Fault
    /\ IF At(t, "clear_keys")
          THEN \E deleted \in SUBSET authList[thread[t].uri] :
                  DeleteMacKeys(thread[t].uri, deleted, thread[t].level)
          ELSE UNCHANGED macKey
    /\ Release
    /\ ClearDone(t)
    /\ UNCHANGED <<credFile, row, authList, generations, historyVars>>

\* DeleteCertProperty.
RemoveRow(t) ==
    /\ At(t, "remove_row")
    /\ SetRow(thread[t].uri, NoLevel)
    /\ Advance(t, IF thread[t].by = "uninstall" THEN "remove_file" ELSE "clear_wait")
    /\ UNCHANGED <<credFile, authList, macKey, generations, authLock, issued,
                   revoked, unclearedEvent, faults>>

RemoveFile(t) ==
    /\ At(t, "remove_file")
    /\ thread[t].uri \in credFile
    /\ credFile' = credFile \ {thread[t].uri}
    /\ IF thread[t].by = "all" THEN Advance(t, "read_level") ELSE CredentialDone(t)
    /\ UNCHANGED <<row, authList, macKey, generations, authLock, historyVars, faults>>

\* A file that another thread removed is an error too.
RemoveFileFails(t) ==
    /\ At(t, "remove_file")
    /\ \/ Fault
       \/ thread[t].uri \notin credFile /\ UNCHANGED faults
    /\ CredentialDone(t)
    /\ UNCHANGED <<storeVars, authLock, historyVars>>

\* CmRemoveAllAppCert reads the level only once the file is gone.
ReadLevel(t) ==
    /\ At(t, "read_level")
    /\ Goto(t, For(thread[t].uri, LevelOf(thread[t].uri), "remove_row", thread[t]))
    /\ UNCHANGED <<storeVars, authLock, historyVars, faults>>

\* The row cannot be read or deleted: CmRemoveAppCert ends, CmRemoveAllAppCert
\* goes on with the next credential.
RemoveRecordFails(t) ==
    /\ thread[t].pc \in {"read_level", "remove_row"}
    /\ Fault
    /\ CredentialDone(t)
    /\ UNCHANGED <<storeVars, authLock, historyVars>>

\* CmRemoveAllAppCert of one application.
RemoveAllBegin(t) ==
    /\ At(t, "idle")
    /\ \E uid \in Uids :
          LET own == {uri \in credFile : Producer[uri] = uid}
          IN  Goto(t, Removal("all", "all", uid, own, own))
    /\ UNCHANGED <<storeVars, authLock, historyVars, faults>>

RemoveAllStep(t) ==
    /\ At(t, "all")
    /\ \/ \E uri \in thread[t].left :
             Goto(t, For(uri, NoLevel, "remove_file", thread[t]))
       \/ thread[t].left = {} /\ Goto(t, Idle)
    /\ UNCHANGED <<storeVars, authLock, historyVars, faults>>

-----------------------------------------------------------------------------
(* CmDeleteProcessInfo: an application or the user was removed.  The store *)
(* is walked: the credentials of who is gone are removed, from the lists   *)
(* of others a gone application is.                                        *)

EventBegin(t) ==
    /\ At(t, "idle")
    /\ \/ \E uid \in Uids :
             Goto(t, Removal("event", "event", uid,
                             {uri \in Uris : Producer[uri] = uid}, credFile))
       \/ Goto(t, Removal("event", "event", Nobody, Uris, credFile))
    /\ UNCHANGED <<storeVars, authLock, historyVars, faults>>

EventOwnFile(t) ==
    /\ At(t, "event")
    /\ \E uri \in thread[t].left \cap thread[t].own :
          Goto(t, For(uri, NoLevel, "clear_wait", thread[t]))
    /\ UNCHANGED <<storeVars, authLock, historyVars, faults>>

\* CmAuthDeleteAuthInfoByUid: listed?, level, MAC key, then list entry, all
\* under the lock.
EventGrantBegin(t) ==
    /\ At(t, "event")
    /\ Acquire(t)
    /\ \E uri \in thread[t].left \ thread[t].own :
          /\ thread[t].uid \in authList[uri]
          /\ Goto(t, For(uri, LevelOf(uri), "event_key", thread[t]))
    /\ UNCHANGED <<storeVars, historyVars, faults>>

EventGrantKey(t) ==
    /\ At(t, "event_key")
    /\ \/ /\ DeleteMacKeys(thread[t].uri, {thread[t].uid}, thread[t].level)
          /\ Advance(t, "event_uid")
          /\ UNCHANGED <<authLock, faults>>
       \/ Fault /\ Release /\ CredentialDone(t) /\ UNCHANGED macKey
    /\ UNCHANGED <<credFile, row, authList, generations, historyVars>>

EventGrantEnd(t) ==
    LET uri == thread[t].uri
    IN  /\ At(t, "event_uid")
        /\ \/ /\ authList' = [authList EXCEPT ![uri] = @ \ {thread[t].uid}]
              /\ UNCHANGED faults
           \/ Fault /\ UNCHANGED authList
        /\ Release
        /\ CredentialDone(t)
        /\ UNCHANGED <<credFile, row, macKey, generations, historyVars>>

\* Not in the list of this credential, or the list cannot be read.
EventSkip(t) ==
    /\ At(t, "event")
    /\ authLock = Nobody
    /\ \E uri \in thread[t].left \ thread[t].own :
          /\ \/ thread[t].uid \notin authList[uri] /\ UNCHANGED faults
             \/ Fault
          /\ Goto(t, [thread[t] EXCEPT !.left = @ \ {uri}])
    /\ UNCHANGED <<storeVars, authLock, historyVars>>

\* RemoveAuthListDir: the list files of who is gone all go, without the lock
\* and whether or not the MAC keys were deleted.
EventEnd(t) ==
    LET own == thread[t].own
    IN  /\ At(t, "event")
        /\ thread[t].left = {}
        /\ authList' = [uri \in Uris |-> IF uri \in own THEN {} ELSE authList[uri]]
        /\ unclearedEvent' = unclearedEvent \cup
              {uri \in own : \E app \in Uids, level \in Levels :
                                macKey[uri][app][level] # 0}
        /\ Goto(t, Idle)
        /\ UNCHANGED <<credFile, row, macKey, generations, authLock, issued,
                       revoked, strayed, faults>>

-----------------------------------------------------------------------------
(* The service dies: requests and lock are gone.                           *)

Crash ==
    /\ Fault
    /\ thread' = [t \in Threads |-> Idle]
    /\ authLock' = Nobody
    /\ UNCHANGED <<storeVars, historyVars>>

Init ==
    /\ credFile = {}
    /\ authList = [uri \in Uris |-> {}]
    /\ row = [uri \in Uris |-> NoLevel]
    /\ macKey = [uri \in Uris |-> [app \in Uids |-> [level \in Levels |-> 0]]]
    /\ generations = 0
    /\ authLock = Nobody
    /\ thread = [t \in Threads |-> Idle]
    /\ issued = {}
    /\ revoked = {}
    /\ unclearedEvent = {}
    /\ strayed = {}
    /\ faults = 0

\* The steps of a request that has begun, and those that begin one.
Continue(t) ==
    \/ InstallFile(t) \/ InstallRow(t)
    \/ GrantGenerateKey(t) \/ GrantFailsEarly(t) \/ GrantAddUid(t) \/ GrantAddUidFails(t)
    \/ GrantClear(t)
    \/ RevokeDeleteKey(t) \/ RevokeRemoveUid(t) \/ RevokeFails(t)
    \/ ClearBegin(t) \/ ClearKeys(t) \/ ClearList(t) \/ ClearFails(t)
    \/ RemoveRow(t) \/ RemoveFile(t) \/ RemoveFileFails(t)
    \/ ReadLevel(t) \/ RemoveRecordFails(t)
    \/ RemoveAllStep(t)
    \/ EventOwnFile(t) \/ EventGrantBegin(t) \/ EventGrantKey(t) \/ EventGrantEnd(t)
    \/ EventSkip(t) \/ EventEnd(t)

Start(t) ==
    \/ InstallBegin(t) \/ GrantBegin(t) \/ RevokeBegin(t)
    \/ UninstallBegin(t) \/ RemoveAllBegin(t) \/ EventBegin(t)

Next == (\E t \in Threads : Continue(t) \/ Start(t)) \/ Crash

Spec == Init /\ [][Next]_vars

-----------------------------------------------------------------------------
(* Properties                                                              *)

Pcs == {"idle", "install_file", "install_row", "grant_key", "grant_uid",
        "grant_clear", "revoke_key", "revoke_uid", "clear_wait", "clear_keys",
        "clear_list", "remove_row", "remove_file", "read_level", "all", "event",
        "event_key", "event_uid"}

\* The steps taken with g_authMgrLock held.
LockedPcs == {"grant_key", "grant_uid", "revoke_key", "revoke_uid", "clear_keys",
              "clear_list", "event_key", "event_uid"}

\* Every variable holds a value of its type, the auth lists within the limit
\* MAX_AUTH_COUNT; the lock is held by the one thread that stands in a critical
\* section, so every path out of one unlocks, the error paths included.
TypeAndLockOK ==
    /\ credFile \subseteq Uris
    /\ row \in [Uris -> Levels \cup {NoLevel}]
    /\ authList \in [Uris -> SUBSET Uids]
    /\ \A uri \in Uris : Cardinality(authList[uri]) <= MaxAuthCount
    /\ macKey \in [Uris -> [Uids -> [Levels -> 0..generations]]]
    /\ generations \in 0..MaxGrants
    /\ \A t \in Threads : thread[t].pc \in Pcs
    /\ \A t \in Threads : (authLock = t) <=> (thread[t].pc \in LockedPcs)
    /\ authLock \in Threads \cup {Nobody}
    /\ issued \subseteq ToBeAuthed /\ revoked \subseteq issued
    /\ unclearedEvent \subseteq Uris /\ strayed \subseteq 1..generations
    /\ faults \in 0..MaxFaults

\* An authUri that still verifies belongs to an app in the auth list, so the
\* next uninstall or removal finds it and can delete its MAC key.  The two
\* exceptions are RemoveAuthListDir, which drops lists without looking, and a
\* MAC key that was at another level than the one a deletion looked at.
ValidTokenIsListed ==
    \A authUri \in issued :
        Valid(authUri) =>
            \/ authUri.app \in authList[authUri.uri]
            \/ authUri.uri \in unclearedEvent
            \/ authUri.gen \in strayed

\* Once a revocation was acknowledged, no authUri handed out before it ever
\* verifies again, whatever is granted or installed later, but for one whose
\* MAC key was at another level than the credential's row named.
RevokedStaysRevoked ==
    \A authUri \in revoked : Valid(authUri) => authUri.gen \in strayed

\* As long as nothing failed and whenever the lock is free, each app in the auth
\* list has a MAC key, and each app with a MAC key that never strayed is in the
\* list, but for a grant that is being undone.
ListMatchesKeys ==
    (faults = 0 /\ authLock = Nobody) =>
        \A uri \in Uris \ unclearedEvent, app \in Uids :
            LET keys == {macKey[uri][app][level] : level \in Levels} \ {0}
            IN  \/ /\ app \in authList[uri] => keys # {}
                   /\ keys \subseteq strayed \/ app \in authList[uri]
                \/ \E t \in Threads : /\ At(t, "grant_clear")
                                      /\ thread[t].uri = uri
                                      /\ thread[t].app = app

\* "clear auth info when delete public credential": once nobody works on a
\* credential that is gone, no app has a MAC key for it.
DeletedCredentialHasNoGrant ==
    \A uri \in Uris \ credFile :
        \/ \E t \in Threads : thread[t].pc # "idle"
        \/ \A app \in Uids, level \in Levels : macKey[uri][app][level] = 0
=============================================================================
