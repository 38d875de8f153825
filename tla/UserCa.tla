------------------------------- MODULE UserCa -------------------------------
(***************************************************************************)
(* The user CA store of one user (cert_manager_service.c, cert_manager.c,  *)
(* cert_manager_updateflag.c, cert_manager_storage.c, cm_event_process.c). *)
(*                                                                         *)
(* An installed certificate has a file and a row.  It is enabled when it   *)
(* also has a config file, which holds the path of a backup, a second copy *)
(* in the directory that TLS clients read: the backups are what the device *)
(* trusts.  A backup is named by the hash of the subject and the smallest  *)
(* number no backup file has.  Nothing is locked, every operation on a     *)
(* file or on a row can fail, and the service can die between any two.     *)
(***************************************************************************)
EXTENDS Integers, Sequences, FiniteSets, SequencesExt

CONSTANTS
    Threads,              \* threads of the service
    Uids,                 \* applications that install
    Certs,                \* certificates
    Subject,              \* Certs -> hash of the subject
    Aliases,              \* names a request may give
    Bundles,              \* sequences of certificates that requests bring
    Legacy,               \* certificates installed before there were backups
    None,                 \* no alias, file, config or backup
    MaxCount,             \* MAX_COUNT_CERTIFICATE (256 in the code)
    Faulty,               \* kinds of operation that may fail
    MaxFaults,            \* bound on the kinds that do
    MaxDeaths             \* bound on deaths of the service

\* Without an alias a certificate goes by the hash of its data.
Names == Aliases \cup Certs
Uris == Uids \X Names
Slots == {Subject[cert] : cert \in Certs} \X (0 .. MaxCount - 1)

\* file, row, conf, backup: writing one; read, load: reading a certificate
\* or a config; unlink: removing a file; flag: reading or writing update.flag.
FaultKinds == {"file", "row", "conf", "backup", "read", "load", "unlink", "flag"}

ASSUME UserCaAssumption ==
    /\ Bundles \subseteq Seq(Certs) /\ <<>> \notin Bundles
    /\ Aliases \cap Certs = {}
    /\ None \notin Names \cup Uris \cup Slots
    /\ Legacy \subseteq Uids \X Certs
    /\ Faulty \subseteq FaultKinds
    /\ MaxCount \in Nat \ {0} /\ {MaxFaults, MaxDeaths} \subseteq Nat

VARIABLES
    files,                \* Uris -> certificate in the file
    rows,                 \* URIs with a row
    conf,                 \* Uris -> backup that the config file names
    backup,               \* Slots -> certificate in the backup
    updated,              \* update.flag holds ALREADY_UPDATE
    started,              \* OnStart has come to CmBackupAllSaUserCerts
    thread,               \* where each thread stands in its request
    failed,               \* kinds of operation that have failed
    deaths

stores == <<files, rows, conf, backup, updated>>
vars == <<files, rows, conf, backup, updated, started, thread, failed, deaths>>

Idle(op, uri, ret) == [pc |-> "idle", op |-> op, uri |-> uri, ret |-> ret]

\* certs, alias, uid: what an install still has to do; todo: what a loop has;
\* slot: the backup being removed or written.
Request(pc, op) ==
    [pc |-> pc, op |-> op, uri |-> None, cert |-> None, slot |-> None,
     uid |-> None, alias |-> None, certs |-> <<>>, todo |-> {}]

At(t, pc) == thread[t].pc = pc
Goto(t, request) == thread' = [thread EXCEPT ![t] = request]
Advance(t, pc) == Goto(t, [thread[t] EXCEPT !.pc = pc])
Finish(t, ret) == Goto(t, Idle(thread[t].op, thread[t].uri, ret))

Fault(kind) ==
    /\ kind \in Faulty
    /\ kind \in failed \/ Cardinality(failed) < MaxFaults
    /\ failed' = failed \cup {kind}

Installed == {uri \in Uris : files[uri] # None}
Configured == {uri \in Uris : conf[uri] # None}
ConfigsOf(uid) == {uri \in Configured : uri[1] = uid}

-----------------------------------------------------------------------------
(* Beginnings of requests.                                                 *)

\* A P7B bundle is refused as a whole when it does not fit.
InstallBegin(t) ==
    /\ At(t, "idle")
    /\ \E uid \in Uids, alias \in Aliases \cup {None}, certs \in Bundles :
          /\ Len(certs) > 1 => Cardinality(Installed) + Len(certs) <= MaxCount
          /\ Goto(t, [Request("find", "install") EXCEPT
                        !.uid = uid, !.alias = alias, !.certs = certs])
    /\ UNCHANGED <<stores, started, failed, deaths>>

UninstallBegin(t) ==
    /\ At(t, "idle")
    /\ \E uri \in Uris : Goto(t, [Request("delRow", "uninstall") EXCEPT !.uri = uri])
    /\ UNCHANGED <<stores, started, failed, deaths>>

\* IsCertNeedBackup
NeedsBackup(uri) == IF conf[uri] = None THEN TRUE ELSE backup[conf[uri]] = None

EnableBegin(t) ==
    /\ At(t, "idle")
    /\ \E uri \in Uris : NeedsBackup(uri) /\ Goto(t, [Request("read", "enable") EXCEPT !.uri = uri])
    /\ UNCHANGED <<stores, started, failed, deaths>>

DisableBegin(t) ==
    /\ At(t, "idle")
    /\ \E uri \in Uris : Goto(t, [Request("load", "disable") EXCEPT !.uri = uri])
    /\ UNCHANGED <<stores, started, failed, deaths>>

\* CmUninstallAllUserCert, and the removal of the user.
RemoveAllBegin(t) ==
    /\ At(t, "idle")
    /\ \E op \in {"removeAll", "event"} :
          Goto(t, [Request("next", op) EXCEPT !.todo = Installed])
    /\ UNCHANGED <<stores, started, failed, deaths>>

\* Seeded fault: the flag is not looked at.
StartBegin_EveryTime(t) ==
    /\ At(t, "idle") /\ ~started
    /\ started' = TRUE
    /\ Goto(t, [Request("next", "start") EXCEPT !.todo = Installed])
    /\ UNCHANGED <<stores, failed, deaths>>

\* CmBackupAllSaUserCerts.  The service was published before: requests may
\* come first.  A flag that cannot be read counts as not set.
StartBegin(t) ==
    /\ At(t, "idle") /\ ~started
    /\ started' = TRUE
    /\ \/ updated /\ UNCHANGED <<thread, failed>>
       \/ /\ IF updated THEN Fault("flag") ELSE UNCHANGED failed
          /\ Goto(t, [Request("next", "start") EXCEPT !.todo = Installed])
    /\ UNCHANGED <<stores, deaths>>

-----------------------------------------------------------------------------
(* CmInstallUserCert: find a duplicate; file, row, backup.                 *)

NameOf(r) == IF r.alias = None THEN Head(r.certs) ELSE r.alias

\* Seeded fault: off by one.
HasRoom_OneMore(uri) == Cardinality(Installed) <= MaxCount

\* CmCheckCertCount
HasRoom(uri) == Cardinality(Installed) < MaxCount \/ uri \in Installed

\* Without an alias a certificate that is there under any URI only gets its
\* row and its backup again; one that cannot be read hides the duplicates.
FindDuplicate(t) ==
    /\ At(t, "find")
    /\ LET r == thread[t]
           own == <<r.uid, NameOf(r)>>
           same == {uri \in Uris : files[uri] = Head(r.certs)}
           there(uri) == Goto(t, [r EXCEPT !.pc = "row", !.uri = uri, !.cert = Head(r.certs)])
       IN  \/ r.alias = None /\ (\E uri \in same : there(uri)) /\ UNCHANGED failed
          \/ /\ IF r.alias = None /\ same # {} THEN Fault("read") ELSE UNCHANGED failed
             /\ IF HasRoom(own)
                THEN Goto(t, [r EXCEPT !.pc = "file", !.uri = own, !.cert = Head(r.certs)])
                ELSE Goto(t, Idle("install", own, "fail"))
    /\ UNCHANGED <<stores, started, deaths>>

WriteFile(t) ==
    /\ At(t, "file")
    /\ files' = [files EXCEPT ![thread[t].uri] = thread[t].cert]
    /\ Advance(t, "row")
    /\ UNCHANGED <<rows, conf, backup, updated, started, failed, deaths>>

InsertRow(t) ==
    /\ At(t, "row")
    /\ rows' = rows \cup {thread[t].uri}
    /\ Advance(t, "load")
    /\ UNCHANGED <<files, conf, backup, updated, started, failed, deaths>>

\* PersistUserCert returns the failure and leaves what is stored.
WriteFails(t) ==
    /\ thread[t].pc \in {"file", "row"}
    /\ Fault(thread[t].pc)
    /\ Finish(t, "fail")
    /\ UNCHANGED <<stores, started, deaths>>

-----------------------------------------------------------------------------
(* BackupUserCert.  It begins by removing an old backup, as below.         *)

\* CmReadCertData, for a certificate that is enabled or migrated.
ReadCert(t) ==
    /\ At(t, "read")
    /\ \/ /\ thread[t].uri \in Installed
          /\ Goto(t, [thread[t] EXCEPT !.pc = "load", !.cert = files[thread[t].uri]])
          /\ UNCHANGED failed
       \/ /\ IF thread[t].uri \in Installed THEN Fault("read") ELSE UNCHANGED failed
          /\ IF thread[t].op = "start" THEN Advance(t, "next") ELSE Finish(t, "fail")
    /\ UNCHANGED <<stores, started, deaths>>

\* Seeded fault: numbers are not compared with the directory.
FreeNumbers_First(hash) == 0 .. MaxCount - 1

\* Numbers that no backup of the subject has.
FreeNumbers(hash) == {n \in 0 .. MaxCount - 1 : backup[<<hash, n>>] = None}

\* How a backup that failed ends: TryBackupUserCert removes the file of the
\* certificate, and a file it cannot remove stays; the migration goes on.
BackupFailed(t) ==
    CASE thread[t].op = "install" -> Advance(t, "undo")
      [] thread[t].op = "enable" -> Finish(t, "fail")
      [] thread[t].op = "start" -> Advance(t, "next")

\* CmGetCertMinSeqNum
ChooseNumber(t) ==
    /\ At(t, "number")
    /\ LET hash == Subject[thread[t].cert]
           free == FreeNumbers(hash)
       IN  IF free = {} THEN BackupFailed(t)
           ELSE Goto(t, [thread[t] EXCEPT !.pc = "conf", !.slot = <<hash, Min(free)>>])
    /\ UNCHANGED <<stores, started, failed, deaths>>

\* CmGenerateSaConf
WriteConf(t) ==
    /\ At(t, "conf")
    /\ conf' = [conf EXCEPT ![thread[t].uri] = thread[t].slot]
    /\ Advance(t, "backup")
    /\ UNCHANGED <<files, rows, backup, updated, started, failed, deaths>>

\* CmStoreUserCert.  The next certificate of a bundle follows.
WriteBackup(t) ==
    /\ At(t, "backup")
    /\ backup' = [backup EXCEPT ![thread[t].slot] = thread[t].cert]
    /\ LET r == thread[t]
       IN  CASE r.op = "install" /\ Len(r.certs) > 1 ->
                  Goto(t, [r EXCEPT !.pc = "find", !.certs = Tail(@)])
             [] r.op = "start" -> Advance(t, "next")
             [] OTHER -> Finish(t, "ok")
    /\ UNCHANGED <<files, rows, conf, updated, started, failed, deaths>>

BackupFails(t) ==
    /\ thread[t].pc \in {"conf", "backup"}
    /\ Fault(thread[t].pc)
    /\ BackupFailed(t)
    /\ UNCHANGED <<stores, started, deaths>>

UndoInstall(t) ==
    /\ At(t, "undo")
    /\ \/ files' = [files EXCEPT ![thread[t].uri] = None] /\ UNCHANGED failed
       \/ Fault("unlink") /\ UNCHANGED files
    /\ Finish(t, "fail")
    /\ UNCHANGED <<rows, conf, backup, updated, started, deaths>>

-----------------------------------------------------------------------------
(* CmRemoveBackupUserCert: backup, then config.  A file that does not      *)
(* exist cannot be removed: CmFileRemove returns CMR_ERROR_NOT_EXIST.      *)

\* BackupUserCert and the loops ignore a failure.
AfterRemoval(t, ret) ==
    CASE thread[t].op \in {"install", "enable", "start"} -> Advance(t, "number")
      [] thread[t].op \in {"uninstall", "disable"} -> Finish(t, ret)
      [] thread[t].op = "removeAll" -> Advance(t, "delRow")
      [] thread[t].op = "eventConf" -> Advance(t, "next")

\* Seeded fault: only the config is removed.
LoadConf_ConfOnly(t) ==
    /\ At(t, "load")
    /\ Advance(t, "rmConf")
    /\ UNCHANGED <<stores, started, failed, deaths>>

\* CmRmUserCert reads the path of the backup.
LoadConf(t) ==
    /\ At(t, "load")
    /\ LET slot == conf[thread[t].uri]
       IN  \/ /\ Goto(t, [thread[t] EXCEPT !.slot = slot,
                            !.pc = IF slot = None THEN "rmConf" ELSE "rmBackup"])
              /\ UNCHANGED failed
           \/ slot # None /\ Fault("load") /\ AfterRemoval(t, "fail")
    /\ UNCHANGED <<stores, started, deaths>>

RemoveBackup(t) ==
    /\ At(t, "rmBackup")
    /\ LET slot == thread[t].slot
       IN  \/ /\ backup[slot] # None
              /\ backup' = [backup EXCEPT ![slot] = None]
              /\ Advance(t, "rmConf")
              /\ UNCHANGED failed
           \/ /\ IF backup[slot] = None THEN UNCHANGED failed ELSE Fault("unlink")
              /\ AfterRemoval(t, "fail")
              /\ UNCHANGED backup
    /\ UNCHANGED <<files, rows, conf, updated, started, deaths>>

\* CmRmSaConf
RemoveConf(t) ==
    /\ At(t, "rmConf")
    /\ LET uri == thread[t].uri
       IN  \/ /\ conf[uri] # None
              /\ conf' = [conf EXCEPT ![uri] = None]
              /\ AfterRemoval(t, "ok")
              /\ UNCHANGED failed
           \/ /\ IF conf[uri] = None THEN UNCHANGED failed ELSE Fault("unlink")
              /\ AfterRemoval(t, "fail")
              /\ UNCHANGED conf
    /\ UNCHANGED <<files, rows, backup, updated, started, deaths>>

-----------------------------------------------------------------------------
(* Uninstalling: row, file, backup.  CmRemoveAllUserCert: file, backup,    *)
(* row.  User removal: the file and the row of each, then each config.     *)

\* A loop goes on to the next URI where an uninstall returns.
GiveUp(t) == IF thread[t].op = "uninstall" THEN Finish(t, "fail") ELSE Advance(t, "next")

DeleteRow(t) ==
    /\ At(t, "delRow")
    /\ \/ /\ rows' = rows \ {thread[t].uri}
          /\ Advance(t, IF thread[t].op = "uninstall" THEN "rmFile" ELSE "next")
          /\ UNCHANGED failed
       \/ Fault("row") /\ GiveUp(t) /\ UNCHANGED rows
    /\ UNCHANGED <<files, conf, backup, updated, started, deaths>>

\* Seeded fault: the backup is left.
RemoveFile_Last(t) ==
    /\ At(t, "rmFile")
    /\ files' = [files EXCEPT ![thread[t].uri] = None]
    /\ IF thread[t].op = "uninstall" THEN Finish(t, "ok") ELSE Advance(t, "delRow")
    /\ UNCHANGED <<rows, conf, backup, updated, started, failed, deaths>>

RemoveFile(t) ==
    /\ At(t, "rmFile")
    /\ LET uri == thread[t].uri
       IN  \/ /\ uri \in Installed
              /\ files' = [files EXCEPT ![uri] = None]
              /\ Advance(t, IF thread[t].op = "event" THEN "delRow" ELSE "load")
              /\ UNCHANGED failed
           \/ /\ IF uri \in Installed THEN Fault("unlink") ELSE UNCHANGED failed
              /\ GiveUp(t)
              /\ UNCHANGED files
    /\ UNCHANGED <<rows, conf, backup, updated, started, deaths>>

-----------------------------------------------------------------------------
(* Loops over URIs.                                                        *)

NextUri(t) ==
    /\ At(t, "next")
    /\ \E uri \in thread[t].todo :
          LET pc == CASE thread[t].op = "start" -> IF NeedsBackup(uri) THEN "read" ELSE "next"
                      [] thread[t].op \in {"removeAll", "event"} -> "rmFile"
                      [] thread[t].op = "eventConf" -> "load"
          IN  Goto(t, [thread[t] EXCEPT !.pc = pc, !.uri = uri, !.todo = @ \ {uri}])
    /\ UNCHANGED <<stores, started, failed, deaths>>

\* CmTraversalBackupUidDir has room for MAX_COUNT_CERTIFICATE names: when an
\* application has more configs it gives up, on all of them.
Fits(uid) == Cardinality(ConfigsOf(uid)) <= MaxCount
Listable == {uri \in Configured : Fits(uri[1])}

\* Seeded fault: only the configs of certificates that are listed.
LoopEnds_Listed(t) ==
    /\ At(t, "next") /\ thread[t].todo = {}
    /\ CASE thread[t].op = "start" -> Advance(t, "flag")
         [] thread[t].op = "event" ->
              Goto(t, [thread[t] EXCEPT !.op = "eventConf", !.todo = Listable \cap rows])
         [] thread[t].op \in {"removeAll", "eventConf"} -> Finish(t, "ok")
    /\ UNCHANGED <<stores, started, failed, deaths>>

\* CmDeleteProcessInfo goes on with CmTraversalBackupUserCert.
LoopEnds(t) ==
    /\ At(t, "next") /\ thread[t].todo = {}
    /\ CASE thread[t].op = "start" -> Advance(t, "flag")
         [] thread[t].op = "event" ->
              Goto(t, [thread[t] EXCEPT !.op = "eventConf", !.todo = Listable])
         [] thread[t].op \in {"removeAll", "eventConf"} -> Finish(t, "ok")
    /\ UNCHANGED <<stores, started, failed, deaths>>

SetUpdateFlag(t) ==
    /\ At(t, "flag")
    /\ \/ updated' = TRUE /\ Finish(t, "ok") /\ UNCHANGED failed
       \/ Fault("flag") /\ Finish(t, "fail") /\ UNCHANGED updated
    /\ UNCHANGED <<files, rows, conf, backup, started, deaths>>

\* The service dies, or is unloaded, and is started again.
Restart ==
    /\ deaths < MaxDeaths
    /\ deaths' = deaths + 1
    /\ started' = FALSE
    /\ thread' = [t \in Threads |-> Idle("none", None, "lost")]
    /\ UNCHANGED <<stores, failed>>

-----------------------------------------------------------------------------
Init ==
    /\ files = [uri \in Uris |-> IF uri \in Legacy THEN uri[2] ELSE None]
    /\ rows = {}
    /\ conf = [uri \in Uris |-> None]
    /\ backup = [slot \in Slots |-> None]
    /\ updated = FALSE
    /\ started = FALSE
    /\ thread = [t \in Threads |-> Idle("none", None, "lost")]
    /\ failed = {}
    /\ deaths = 0

Step(t) ==
    \/ InstallBegin(t) \/ UninstallBegin(t) \/ EnableBegin(t) \/ DisableBegin(t)
    \/ RemoveAllBegin(t) \/ StartBegin(t)
    \/ FindDuplicate(t) \/ WriteFile(t) \/ InsertRow(t) \/ WriteFails(t)
    \/ ReadCert(t) \/ ChooseNumber(t) \/ WriteConf(t) \/ WriteBackup(t)
    \/ BackupFails(t) \/ UndoInstall(t)
    \/ LoadConf(t) \/ RemoveBackup(t) \/ RemoveConf(t)
    \/ DeleteRow(t) \/ RemoveFile(t)
    \/ NextUri(t) \/ LoopEnds(t) \/ SetUpdateFlag(t)

Next == (\E t \in Threads : Step(t)) \/ Restart

Spec == Init /\ [][Next]_vars

-----------------------------------------------------------------------------
(* Properties.                                                             *)

Quiet == \A t \in Threads : At(t, "idle")
NothingFailed == failed = {} /\ deaths = 0
\* Every file that is there could be removed, and every config read.
RemovalsWork == failed \cap {"unlink", "load"} = {}

Answered(t, op, ret) == At(t, "idle") /\ thread[t].op = op /\ thread[t].ret = ret

\* What is shown is what is trusted (CmGetCertConfigStatus shows a certificate
\* that has a config as enabled): as long as nothing failed, between requests each
\* config belongs to an installed certificate and names a backup of it that
\* no other config names, and every backup is named.
StatusIsTrust ==
    Quiet /\ NothingFailed =>
        /\ Configured \subseteq Installed
        /\ \A uri \in Configured : backup[conf[uri]] = files[uri]
        /\ \A u1, u2 \in Configured : conf[u1] = conf[u2] => u1 = u2
        /\ \A slot \in Slots : backup[slot] # None => \E uri \in Configured : conf[uri] = slot

\* A certificate that is let in finds a number: the limit on certificates and
\* the range of numbers are one constant in the code, counted differently.
NumbersSuffice ==
    NothingFailed =>
    \A t \in Threads : At(t, "number") => FreeNumbers(Subject[thread[t].cert]) # {}

\* No trusted certificate is out of reach: when installs stop half way, or
\* the service dies, each backup is still named by a config, through which
\* disabling, uninstalling or the removal of the user finds it.  BackupUserCert
\* writes the config first and removes it last for this.  (It goes on when the
\* old backup cannot be removed, and that backup is then lost.)
BackupsAreNamed ==
    RemovalsWork =>
        \A slot \in Slots : backup[slot] # None => \E uri \in Configured : conf[uri] = slot

\* An uninstall reported as done leaves no file, no config and no row under the
\* URI, whatever failed before it: no later install or migration finds a rest.
UninstalledIsGone ==
    \A t \in Threads : Answered(t, "uninstall", "ok") =>
        LET uri == thread[t].uri
        IN  Quiet => uri \notin Installed \cup Configured \cup rows

\* After the removal of the user nothing is installed and nothing trusted,
\* whatever half-finished installs it found (CmDeleteProcessInfo).  Left out are the
\* applications with more configs than MAX_COUNT_CERTIFICATE, for configs that stayed
\* behind are not counted against the limit: their backups may stay.
RemovedUserTrustsNothing ==
    Quiet /\ RemovalsWork /\ (\E t \in Threads : Answered(t, "eventConf", "ok")) =>
        /\ Installed = {}
        /\ \A slot \in Slots : backup[slot] # None =>
               \E uri \in Configured \ Listable : conf[uri] = slot

\* Only an install, or enabling it, makes a certificate enabled that is not:
\* a restart does so only as long as the migration has not been completed, or
\* that it has cannot be read.
NoSilentEnable ==
    [][\A uri \in Uris : conf[uri] = None /\ conf'[uri] # None =>
          \E t \in Threads : /\ ~At(t, "idle") /\ thread[t].uri = uri
                             /\ \/ thread[t].op \in {"install", "enable"}
                                \/ thread[t].op = "start" /\ (~updated \/ "flag" \in failed)]_vars

\* cert_manager_file_operator.c, FileRemove: "if file not exist, return ok".
\* An uninstall that has removed the file of the certificate fails only when
\* an operation on the stores has failed.
UninstallIsReported ==
    [][\A t \in Threads :
          /\ thread[t].op = "uninstall" /\ thread[t].pc \in {"load", "rmBackup", "rmConf"}
          /\ Answered(t, "uninstall", "fail")'
          => failed' # {}]_vars
=============================================================================
