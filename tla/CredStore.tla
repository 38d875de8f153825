----------------------------- MODULE CredStore -----------------------------
(***************************************************************************)
(* The credential store: certificate file, private key in HUKS and row in  *)
(* the database, as installing (cert_manager_app_cert_process.c), removing *)
(* one or all (cert_manager.c) and removal events (cm_event_process.c)     *)
(* leave them.  There is no lock and no rollback: every step can fail, the *)
(* service can die after any, and threads interleave.                      *)
(*                                                                         *)
(* HUKS keeps the keys of one alias apart by storage level, so a key is    *)
(* found only at the level it was imported at.  That level is looked up in *)
(* the row; a credential without a row counts as EL1.  The row is replaced *)
(* on insertion.  Grants are the subject of AuthMgr and left out here.     *)
(***************************************************************************)
EXTENDS Integers, FiniteSets

CONSTANTS
    Threads,              \* threads of the service
    Uris,                 \* key URIs
    Store,                \* Uris -> "public", "private" or "system"
    Requested,            \* store -> storage levels clients ask for; with CHAIN_KEY
                          \* any, whatever the store
    Upgraded,             \* credentials from before the level column existed
    MaxCount,             \* MAX_COUNT_CERTIFICATE (256 in the code)
    MaxFaults,            \* bound on failing operations
    MaxCrashes            \* bound on deaths of the service

Stores == {"public", "private", "system"}
NoRow == 0                \* ERROR_LEVEL: the query finds nothing
EL1 == 1
EL2 == 2
EL4 == 4
Levels == {EL1, EL2, EL4}

ASSUME CredStoreAssumption ==
    /\ Store \in [Uris -> Stores]
    /\ Requested \in [Stores -> SUBSET Levels]
    /\ Upgraded \subseteq Uris
    /\ MaxCount \in Nat \ {0} /\ {MaxFaults, MaxCrashes} \subseteq Nat
    /\ IsFiniteSet(Threads) /\ Threads # {}

VARIABLES
    file,                 \* credentials whose certificate file exists
    key,                  \* Uris -> levels at which HUKS has the private key
    row,                  \* Uris -> level in the database row, NoRow if none
    thread,               \* where each thread stands in its request
    installed,            \* last request on it: an install that succeeded, with the
                          \* key imported at the level asked for (history)
    diverted,             \* some row was given another level than the key (history)
    faults, crashes

vars == <<file, key, row, thread, installed, diverted, faults, crashes>>

Idle == [pc |-> "idle"]
At(t, pc) == thread[t].pc = pc
Goto(t, request) == thread' = [thread EXCEPT ![t] = request]
Advance(t, pc) == Goto(t, [thread[t] EXCEPT !.pc = pc])

Fault == faults < MaxFaults /\ faults' = faults + 1

\* The level a credential is used and deleted at.
LevelOf(uri) == IF row[uri] = NoRow THEN EL1 ELSE row[uri]

\* CmServiceInit finds the key of the credential.
Usable(uri) == LevelOf(uri) \in key[uri]

-----------------------------------------------------------------------------
(* CmInstallAppCertPro                                                     *)

\* Seeded fault: off by one.
HasRoom_OneMore(uri) ==
    Cardinality({other \in file : Store[other] = Store[uri]}) <= MaxCount

\* CmCheckCertCount: room for one more, or an update of one that is there.
HasRoom(uri) ==
    \/ Cardinality({other \in file : Store[other] = Store[uri]}) < MaxCount
    \/ uri \in file

\* The level StoreKeyAndCert imports at.
KeyLevel(uri, level) ==
    CASE Store[uri] = "private" -> level
      [] Store[uri] = "public" -> IF row[uri] = NoRow THEN EL2 ELSE row[uri]
      [] Store[uri] = "system" -> EL1

\* Seeded fault: a key at another level is left where it is.
MustReplace_Never(uri, level) == FALSE

\* A private credential found at another level is removed first.
MustReplace(uri, level) ==
    Store[uri] = "private" /\ row[uri] \notin {NoRow, level}

\* deletes: the level a removal deletes the key at; left: what a loop of
\* removals still has to visit.
Request(pc, op, uri, level, imports, deletes, left) ==
    [pc |-> pc, op |-> op, uri |-> uri, level |-> level, imports |-> imports,
     deletes |-> deletes, left |-> left]

InstallBegin(t) ==
    /\ At(t, "idle")
    /\ \E uri \in Uris : \E level \in Requested[Store[uri]] :
          /\ HasRoom(uri)
          /\ Goto(t, Request(IF MustReplace(uri, level) THEN "row" ELSE "import",
                             "install", uri, level, KeyLevel(uri, level),
                             LevelOf(uri), {}))
          /\ installed' = installed \ {uri}
    /\ UNCHANGED <<file, key, row, diverted, faults, crashes>>

\* HksImportKey, then the file, then the row with the level of the request;
\* the first failure is returned and nothing is undone.
ImportKey(t) ==
    /\ At(t, "import")
    /\ key' = [key EXCEPT ![thread[t].uri] = @ \cup {thread[t].imports}]
    /\ Advance(t, "store")
    /\ UNCHANGED <<file, row, installed, diverted, faults, crashes>>

StoreFile(t) ==
    /\ At(t, "store")
    /\ file' = file \cup {thread[t].uri}
    /\ Advance(t, "insert")
    /\ UNCHANGED <<key, row, installed, diverted, faults, crashes>>

\* What an install that succeeds leaves is reported as installed, at whatever level its
\* key is.
Reported(t) ==
    IF thread[t].imports = thread[t].level
       THEN installed' = installed \cup {thread[t].uri} /\ UNCHANGED diverted
       ELSE diverted' = diverted \cup {thread[t].uri} /\ UNCHANGED installed

\* Seeded fault: the row keeps its level.
InsertRow_KeepsLevel(t) ==
    /\ At(t, "insert")
    /\ row' = [row EXCEPT ![thread[t].uri] = IF @ = NoRow THEN thread[t].level ELSE @]
    /\ Reported(t)
    /\ Goto(t, Idle)
    /\ UNCHANGED <<file, key, faults, crashes>>

InsertRow(t) ==
    /\ At(t, "insert")
    /\ row' = [row EXCEPT ![thread[t].uri] = thread[t].level]
    /\ Reported(t)
    /\ Goto(t, Idle)
    /\ UNCHANGED <<file, key, faults, crashes>>

InstallFails(t) ==
    /\ thread[t].pc \in {"import", "store", "insert"}
    /\ Fault
    /\ Goto(t, Idle)
    /\ UNCHANGED <<file, key, row, installed, diverted, crashes>>

-----------------------------------------------------------------------------
(* Removals.  CmRemoveAppCert: row, file, key.  CmRemoveAllAppCert and the *)
(* removal event, for each file: file, row (the event only reads it), key. *)

UninstallBegin(t) ==
    /\ At(t, "idle")
    /\ \E uri \in Uris :
          /\ Goto(t, Request("row", "uninstall", uri, NoRow, NoRow, LevelOf(uri), {}))
          /\ installed' = installed \ {uri}
    /\ UNCHANGED <<file, key, row, diverted, faults, crashes>>

Loop(op, left) == [pc |-> "loop", op |-> op, left |-> left]

RemoveAllBegin(t) ==
    /\ At(t, "idle")
    /\ \E op \in {"all", "event"} : Goto(t, Loop(op, file))
    /\ UNCHANGED <<file, key, row, installed, diverted, faults, crashes>>

LoopStep(t) ==
    /\ At(t, "loop")
    /\ \E uri \in thread[t].left :
          /\ Goto(t, Request("file", thread[t].op, uri, NoRow, NoRow, NoRow,
                             thread[t].left))
          /\ installed' = installed \ {uri}
    /\ UNCHANGED <<file, key, row, diverted, faults, crashes>>

LoopEnd(t) ==
    /\ At(t, "loop")
    /\ thread[t].left = {}
    /\ Goto(t, Idle)
    /\ UNCHANGED <<file, key, row, installed, diverted, faults, crashes>>

\* The removal of this credential is over: an install imports, a loop goes on.
RemovalEnds(t) ==
    CASE thread[t].op = "install" -> Advance(t, "import")
      [] thread[t].op = "uninstall" -> Goto(t, Idle)
      [] thread[t].op \in {"all", "event"} ->
            Goto(t, Loop(thread[t].op, thread[t].left \ {thread[t].uri}))

FileFirst(t) == thread[t].op \in {"all", "event"}

RemoveRow(t) ==
    LET uri == thread[t].uri
    IN  /\ At(t, "row")
        /\ row' = IF thread[t].op = "event" THEN row ELSE [row EXCEPT ![uri] = NoRow]
        /\ IF FileFirst(t)
              THEN Goto(t, [thread[t] EXCEPT !.pc = "key", !.deletes = LevelOf(uri)])
              ELSE Advance(t, "file")
        /\ UNCHANGED <<file, key, installed, diverted, faults, crashes>>

RemoveFile(t) ==
    /\ At(t, "file")
    /\ thread[t].uri \in file
    /\ file' = file \ {thread[t].uri}
    /\ Advance(t, IF FileFirst(t) THEN "row" ELSE "key")
    /\ UNCHANGED <<key, row, installed, diverted, faults, crashes>>

\* A row or file that cannot be removed ends the removal; an install that
\* replaces a key and a loop go on all the same.  FileRemove takes a file that
\* does not exist for an error: realpath fails before its own test of that.
RemoveFails(t) ==
    /\ \/ thread[t].pc \in {"row", "file"} /\ Fault
       \/ At(t, "file") /\ thread[t].uri \notin file /\ UNCHANGED faults
    /\ RemovalEnds(t)
    /\ UNCHANGED <<file, key, row, installed, diverted, crashes>>

\* CmKeyOpDeleteKey, whose failure is ignored.
RemoveKey(t) ==
    /\ At(t, "key")
    /\ \/ /\ key' = [key EXCEPT ![thread[t].uri] = @ \ {thread[t].deletes}]
          /\ UNCHANGED faults
       \/ Fault /\ UNCHANGED key
    /\ RemovalEnds(t)
    /\ UNCHANGED <<file, row, installed, diverted, crashes>>

-----------------------------------------------------------------------------
Crash ==
    /\ crashes < MaxCrashes
    /\ crashes' = crashes + 1
    /\ thread' = [t \in Threads |-> Idle]
    /\ UNCHANGED <<file, key, row, installed, diverted, faults>>

\* What an earlier release installed has its key at EL1; OnUpgrade gave its
\* row the column's default value.
Init ==
    /\ file = Upgraded
    /\ key = [uri \in Uris |-> IF uri \in Upgraded THEN {EL1} ELSE {}]
    /\ row = [uri \in Uris |-> IF uri \in Upgraded THEN EL1 ELSE NoRow]
    /\ thread = [t \in Threads |-> Idle]
    /\ installed = Upgraded
    /\ diverted = {}
    /\ faults = 0
    /\ crashes = 0

ThreadStep(t) ==
    \/ InstallBegin(t) \/ ImportKey(t) \/ StoreFile(t) \/ InsertRow(t) \/ InstallFails(t)
    \/ UninstallBegin(t) \/ RemoveAllBegin(t) \/ LoopStep(t) \/ LoopEnd(t)
    \/ RemoveRow(t) \/ RemoveFile(t) \/ RemoveFails(t) \/ RemoveKey(t)

Next == (\E t \in Threads : ThreadStep(t)) \/ Crash

Spec == Init /\ [][Next]_vars

-----------------------------------------------------------------------------
(* Properties                                                              *)

Quiet == \A t \in Threads : At(t, "idle")

\* What the last install reported as installed can be used, whatever failed or
\* died before it: its key is at the level its row names.  Left out is an install
\* whose key StoreKeyAndCert imports at another level than the row is given: with
\* CHAIN_KEY a client may ask for any level, a public credential gets its key at EL2
\* or the old row's level and a system one at EL1, and the row gets the level asked
\* for.  Such a credential is reported as installed and cannot be used.
InstalledIsUsable == \A uri \in installed : Usable(uri)

\* Without failures no request leaves a private key that nobody can find: a key
\* is at the level the row names, and its credential is there.  Left out is what was
\* ever installed with a row of another level than its key: removing it leaves the key.
NoOrphanKey ==
    (Quiet /\ faults = 0 /\ crashes = 0) =>
        \A uri \in Uris \ diverted :
            /\ key[uri] \subseteq {LevelOf(uri)}
            /\ key[uri] # {} => uri \in file \/ row[uri] # NoRow

\* CmCheckCertCount counts long before the file is written, and without a lock: each
\* further thread can take a store one over MAX_COUNT_CERTIFICATE, and no more.
CountWithinLimit ==
    \A store \in Stores :
        Cardinality({uri \in file : Store[uri] = store}) <= MaxCount + Cardinality(Threads) - 1

\* "The public credentials are at the EL2 level": when nothing failed, the row
\* and the key of a public credential that is there agree on its level.
PublicAtRecordedLevel ==
    (Quiet /\ faults = 0 /\ crashes = 0) =>
        \A uri \in file : Store[uri] = "public" => Usable(uri)
=============================================================================
