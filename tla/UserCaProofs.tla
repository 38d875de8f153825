---------------------------- MODULE UserCaProofs ----------------------------
(***************************************************************************)
(* Proofs about UserCa, for every set of applications, certificates,       *)
(* aliases and bundles, every limit and any number of failures and deaths. *)
(*                                                                         *)
(* NoSilentEnable holds for any number of threads, and so does             *)
(* BackupsAreNamed as long as no two requests change the backup of one     *)
(* certificate at once (Apart).  The other theorems assume what the code   *)
(* relies on and does not enforce: no store has a lock, so requests come   *)
(* one at a time (OneAtATime); and the last two, that an older version     *)
(* kept to the limit on certificates (LegacyFits).                         *)
(***************************************************************************)
EXTENDS UserCa, FiniteSetTheorems, WellFoundedInduction, TLAPS

Ops == {"none", "install", "uninstall", "enable", "disable", "removeAll", "event", "eventConf",
        "start"}
\* Requests that write a backup, and places of the thread of a request.
Writers == {"install", "enable", "start"}
Removing == {"load", "rmBackup", "rmConf"}
Writing == {"number", "conf", "backup"}
Pcs == {"find", "file", "row", "undo", "read", "delRow", "rmFile", "next", "flag"}
           \cup Removing \cup Writing

Idles == [pc : {"idle"}, op : Ops, uri : Uris \cup {None}, ret : {"ok", "fail", "lost"}]
Requests ==
    [pc : Pcs, op : Ops, uri : Uris \cup {None}, cert : Certs \cup {None},
     slot : Slots \cup {None}, uid : Uids \cup {None}, alias : Aliases \cup {None},
     certs : Seq(Certs), todo : SUBSET Uris]

StoresOK ==
    /\ files \in [Uris -> Certs \cup {None}]
    /\ rows \subseteq Uris
    /\ conf \in [Uris -> Slots \cup {None}]
    /\ backup \in [Slots -> Certs \cup {None}]
    /\ updated \in BOOLEAN /\ started \in BOOLEAN
    /\ failed \subseteq FaultKinds /\ deaths \in Nat

\* Which requests come to which place.
Flow(pc, op) ==
    /\ pc \in {"find", "file", "row", "undo"} => op = "install"
    /\ pc = "read" => op \in {"enable", "start"}
    /\ pc \in Removing => op \in Writers \cup {"uninstall", "disable", "removeAll", "eventConf"}
    /\ pc \in Writing => op \in Writers
    /\ pc \in {"delRow", "rmFile"} => op \in {"uninstall", "removeAll", "event"}
    /\ pc = "next" => op \in {"start", "removeAll", "event", "eventConf"}
    /\ pc = "flag" => op = "start"
    /\ pc = "idle" => op # "event"

\* What a request has found out when it comes to a place.
Knows(r, pc) ==
    /\ pc \notin {"find", "next", "flag"} => r.uri \in Uris
    /\ r.op \in Writers /\ pc \in {"file", "row"} \cup Removing \cup Writing => r.cert \in Certs
    /\ pc \in {"rmBackup", "conf", "backup"} => r.slot \in Slots
    /\ r.op = "install" => r.uid \in Uids /\ r.certs # <<>>

ThreadOK(r) ==
    /\ r \in Idles \/ (r \in Requests /\ Knows(r, r.pc))
    /\ Flow(r.pc, r.op)

TypeOK ==
    /\ StoresOK
    /\ thread = [t \in Threads |-> thread[t]]
    /\ \A t \in Threads : ThreadOK(thread[t])

-----------------------------------------------------------------------------
(* Where the thread of a request goes                                      *)

Others(t) == \A other \in Threads \ {t} : thread'[other] = thread[other]

\* The request goes on with what it knows, or ends.
Moved(t, pc) ==
    LET r == thread'[t]
        old == thread[t]
    IN  /\ r \in Requests /\ r.pc = pc /\ r.op = old.op /\ r.uri = old.uri /\ r.cert = old.cert
        /\ r.slot = old.slot /\ r.uid = old.uid /\ r.alias = old.alias /\ r.certs = old.certs
        /\ r.todo = old.todo

Ended(t, ret) ==
    LET r == thread'[t]
    IN  /\ r \in Idles /\ r.pc = "idle" /\ r.ret = ret /\ r.op = thread[t].op
        /\ r.uri = thread[t].uri

\* An assignment to the place of one thread.
LEMMA ThreadSet ==
    ASSUME TypeOK, NEW t \in Threads, NEW r, Goto(t, r)
    PROVE  /\ thread'[t] = r /\ Others(t)
           /\ thread' = [other \in Threads |-> thread'[other]]
BY DEF TypeOK, Goto, Others

LEMMA RequestIsRequest ==
    ASSUME TypeOK, NEW t \in Threads, ~At(t, "idle")
    PROVE  thread[t] \in Requests /\ Knows(thread[t], thread[t].pc) /\ Flow(thread[t].pc, thread[t].op)
BY DEF TypeOK, ThreadOK, Idles, At

LEMMA Advanced ==
    ASSUME TypeOK, NEW t \in Threads, ~At(t, "idle"), NEW pc \in Pcs, Advance(t, pc)
    PROVE  Moved(t, pc) /\ Others(t) /\ thread' = [other \in Threads |-> thread'[other]]
<1>1. thread[t] \in Requests
  BY RequestIsRequest
<1>2. thread'[t] = [thread[t] EXCEPT !.pc = pc]
  BY ThreadSet DEF Advance
<1>3. Moved(t, pc)
  BY <1>1, <1>2 DEF Moved, Requests
<1> QED
  BY <1>3, ThreadSet DEF Advance

LEMMA Finished ==
    ASSUME TypeOK, NEW t \in Threads, ~At(t, "idle"), NEW ret \in {"ok", "fail"}, Finish(t, ret)
    PROVE  Ended(t, ret) /\ Others(t) /\ thread' = [other \in Threads |-> thread'[other]]
<1>1. thread[t] \in Requests
  BY RequestIsRequest
<1>2. thread'[t] = Idle(thread[t].op, thread[t].uri, ret)
  BY ThreadSet DEF Finish
<1>3. Ended(t, ret)
  BY <1>1, <1>2 DEF Ended, Requests, Idle, Idles
<1> QED
  BY <1>3, ThreadSet DEF Finish

\* What every step of a thread does, for the other threads and its type.
Goes(t) ==
    /\ Others(t)
    /\ thread' = [other \in Threads |-> thread'[other]]
    /\ ThreadOK(thread'[t])

\* Going on keeps the type when the new place needs no more.
LEMMA MovedGoes ==
    ASSUME TypeOK, NEW t \in Threads, ~At(t, "idle"), NEW pc \in Pcs, Advance(t, pc),
           Flow(pc, thread[t].op), Knows(thread[t], pc)
    PROVE  Goes(t) /\ Moved(t, pc)
<1>1. Moved(t, pc)
  BY Advanced
<1>2. Knows(thread'[t], pc)
  BY <1>1 DEF Moved, Knows
<1> QED
  BY <1>1, <1>2, Advanced DEF Goes, ThreadOK, Moved

LEMMA RequestGoes ==
    ASSUME TypeOK, NEW t \in Threads, NEW r \in Requests, Goto(t, r), Flow(r.pc, r.op),
           Knows(r, r.pc)
    PROVE  Goes(t) /\ thread'[t] = r
BY ThreadSet DEF Goes, ThreadOK

LEMMA EndedGoes ==
    ASSUME TypeOK, NEW t \in Threads, ~At(t, "idle"), thread[t].op # "event",
           NEW ret \in {"ok", "fail"}, Finish(t, ret)
    PROVE  Goes(t) /\ Ended(t, ret)
<1>1. Ended(t, ret)
  BY Finished
<1>2. Flow("idle", thread[t].op)
  BY DEF Flow, Removing, Writing
<1> QED
  BY <1>1, <1>2, Finished DEF Goes, ThreadOK, Ended

-----------------------------------------------------------------------------
(* What each action does                                                   *)

\* Nothing is stored when a request begins.
Begins(t) ==
    LET r == thread'[t]
    IN  /\ At(t, "idle") /\ Goes(t) /\ UNCHANGED <<files, rows, conf, backup, updated, deaths>>
        /\ r.pc \in {"find", "delRow", "read", "load", "next"}
        /\ r.op \notin {"none", "eventConf"}
        /\ r.op \in Writers => r.pc # "load"
        /\ r.op = "event" => r.todo = Installed
        /\ r.op = "uninstall" => r.pc = "delRow"
        /\ IF r.op = "start" THEN ~started /\ started' /\ (~updated \/ "flag" \in failed')
                             ELSE UNCHANGED started
        /\ failed \subseteq failed' /\ failed' \subseteq FaultKinds

LEMMA NewRequest ==
    ASSUME NEW pc \in Pcs, NEW op \in Ops
    PROVE  /\ Request(pc, op) \in Requests
           /\ Request(pc, op).pc = pc /\ Request(pc, op).op = op
BY DEF Request, Requests, Pcs, Ops

LEMMA InstallBegins == ASSUME TypeOK, NEW t \in Threads, InstallBegin(t) PROVE Begins(t)
<1>1. PICK uid \in Uids, alias \in Aliases \cup {None}, certs \in Bundles :
          Goto(t, [Request("find", "install") EXCEPT
                     !.uid = uid, !.alias = alias, !.certs = certs])
  BY DEF InstallBegin
<1> DEFINE r == [Request("find", "install") EXCEPT !.uid = uid, !.alias = alias, !.certs = certs]
<1>2. certs \in Seq(Certs) /\ certs # <<>>
  BY UserCaAssumption
<1>3. r \in Requests /\ r.pc = "find" /\ r.op = "install" /\ r.uid \in Uids /\ r.certs # <<>>
  BY <1>2 DEF Request, Requests, Pcs, Ops
<1> HIDE DEF r
<1>4. thread'[t] = r /\ Others(t) /\ thread' = [other \in Threads |-> thread'[other]]
  BY <1>1, ThreadSet DEF r
<1>5. ThreadOK(r)
  BY <1>3 DEF ThreadOK, Knows, Flow, Removing, Writing
<1> QED
  BY <1>3, <1>4, <1>5 DEF InstallBegin, Begins, Goes, stores, TypeOK, StoresOK, Writers

LEMMA OneBegins ==
    ASSUME TypeOK, NEW t \in Threads, UninstallBegin(t) \/ EnableBegin(t) \/ DisableBegin(t)
    PROVE  Begins(t)
<1>1. PICK pc \in {"delRow", "read", "load"}, op \in {"uninstall", "enable", "disable"},
           uri \in Uris :
        /\ Goto(t, [Request(pc, op) EXCEPT !.uri = uri])
        /\ Flow(pc, op) /\ (op = "enable" => pc = "read") /\ (op = "uninstall" => pc = "delRow")
        /\ At(t, "idle") /\ UNCHANGED <<stores, started, failed, deaths>>
  <2>1. Flow("delRow", "uninstall") /\ Flow("read", "enable") /\ Flow("load", "disable")
    BY DEF Flow, Removing, Writing
  <2>2. CASE UninstallBegin(t)
    BY <2>1, <2>2 DEF UninstallBegin
  <2>3. CASE EnableBegin(t)
    BY <2>1, <2>3 DEF EnableBegin
  <2>4. CASE DisableBegin(t)
    BY <2>1, <2>4 DEF DisableBegin
  <2> QED
    BY <2>2, <2>3, <2>4
<1> DEFINE r == [Request(pc, op) EXCEPT !.uri = uri]
<1>2. r \in Requests /\ r.pc = pc /\ r.op = op /\ r.uri \in Uris
  <2>1. pc \in Pcs /\ op \in Ops
    BY DEF Pcs, Ops, Removing
  <2> QED
    BY <2>1, NewRequest DEF Requests
<1> HIDE DEF r
<1>3. thread'[t] = r /\ Others(t) /\ thread' = [other \in Threads |-> thread'[other]]
  BY <1>1, ThreadSet DEF r
<1>4. ThreadOK(r)
  BY <1>1, <1>2 DEF ThreadOK, Knows, Flow, Removing, Writing, Writers
<1> QED
  BY <1>1, <1>2, <1>3, <1>4 DEF Begins, Goes, stores, TypeOK, StoresOK, Writers

LEMMA AllBegin ==
    ASSUME TypeOK, NEW t \in Threads, NEW op \in {"removeAll", "event", "start"},
           At(t, "idle"), Goto(t, [Request("next", op) EXCEPT !.todo = Installed])
    PROVE  /\ Goes(t)
           /\ thread'[t].pc = "next" /\ thread'[t].op = op /\ thread'[t].todo = Installed
<1> DEFINE r == [Request("next", op) EXCEPT !.todo = Installed]
<1>1. r \in Requests /\ r.pc = "next" /\ r.op = op /\ r.todo = Installed
  <2>1. "next" \in Pcs /\ op \in Ops /\ Installed \subseteq Uris
    BY DEF Pcs, Ops, Installed
  <2> QED
    BY <2>1, NewRequest DEF Requests
<1> HIDE DEF r
<1>2. thread'[t] = r /\ Others(t) /\ thread' = [other \in Threads |-> thread'[other]]
  BY ThreadSet DEF r
<1>3. ThreadOK(r)
  BY <1>1 DEF ThreadOK, Knows, Flow, Removing, Writing, Writers
<1> QED
  BY <1>1, <1>2, <1>3 DEF Goes

LEMMA RemovalBegins == ASSUME TypeOK, NEW t \in Threads, RemoveAllBegin(t) PROVE Begins(t)
<1>1. PICK op \in {"removeAll", "event"} :
          Goto(t, [Request("next", op) EXCEPT !.todo = Installed])
  BY DEF RemoveAllBegin
<1>2. At(t, "idle") /\ UNCHANGED <<stores, started, failed, deaths>>
  BY DEF RemoveAllBegin
<1>3. /\ Goes(t)
      /\ thread'[t].pc = "next" /\ thread'[t].op = op /\ thread'[t].todo = Installed
  BY <1>1, <1>2, AllBegin
<1> QED
  BY <1>2, <1>3 DEF Begins, stores, Writers, TypeOK, StoresOK

\* The migration begins, or its flag says that it is not needed.
LEMMA StartBegins ==
    ASSUME TypeOK, NEW t \in Threads, StartBegin(t)
    PROVE  \/ Begins(t)
           \/ /\ UNCHANGED <<stores, thread, failed, deaths>> /\ started' = TRUE
              /\ At(t, "idle") /\ updated
<1>1. CASE updated /\ UNCHANGED <<thread, failed>>
  BY <1>1 DEF StartBegin
<1>2. CASE Goto(t, [Request("next", "start") EXCEPT !.todo = Installed])
           /\ IF updated THEN Fault("flag") ELSE UNCHANGED failed
  <2>1. At(t, "idle") /\ ~started /\ started' = TRUE /\ UNCHANGED <<stores, deaths>>
    BY DEF StartBegin
  <2>2. failed \subseteq failed' /\ failed' \subseteq FaultKinds /\ (~updated \/ "flag" \in failed')
    BY <1>2, UserCaAssumption DEF Fault, TypeOK, StoresOK
  <2>3. /\ Goes(t)
        /\ thread'[t].pc = "next" /\ thread'[t].op = "start" /\ thread'[t].todo = Installed
    BY <1>2, <2>1, AllBegin
  <2> QED
    BY <2>1, <2>2, <2>3 DEF Begins, stores, Writers
<1> QED
  BY <1>1, <1>2 DEF StartBegin

\* A fault is a kind of operation that may fail, and is remembered.
Faulted(kinds) == /\ failed \subseteq failed' /\ failed' \subseteq FaultKinds
                  /\ failed' \cap kinds # {}

LEMMA FaultIsKept == ASSUME TypeOK, NEW kind, Fault(kind) PROVE Faulted({kind})
BY UserCaAssumption DEF Fault, Faulted, TypeOK, StoresOK

\* A duplicate is found, or there is room for a new file, or there is not.
Finds(t) ==
    LET r == thread'[t]
    IN  /\ At(t, "find") /\ Goes(t)
        /\ UNCHANGED <<stores, started, deaths>>
        /\ UNCHANGED failed \/ Faulted({"read"})
        /\ r.op = "install" /\ r.uri \in Uris
        /\ \/ r.pc = "row" /\ files[r.uri] = r.cert
           \/ r.pc = "file" /\ HasRoom(r.uri)
           \/ r.pc = "idle" /\ r.ret = "fail"

LEMMA FindFinds == ASSUME TypeOK, NEW t \in Threads, FindDuplicate(t) PROVE Finds(t)
<1> DEFINE old == thread[t]
           own == <<old.uid, NameOf(old)>>
           same == {uri \in Uris : files[uri] = Head(old.certs)}
<1>1. /\ At(t, "find") /\ old \in Requests /\ old.op = "install" /\ old.uid \in Uids
      /\ old.certs \in Seq(Certs) /\ old.certs # <<>>
  BY RequestIsRequest DEF FindDuplicate, At, Knows, Flow, Requests
<1>2. Head(old.certs) \in Certs /\ own \in Uris
  BY <1>1 DEF Uris, Names, NameOf, Requests
<1>3. UNCHANGED <<stores, started, deaths>> /\ (UNCHANGED failed \/ Faulted({"read"}))
  BY FaultIsKept DEF FindDuplicate
<1>4. ASSUME NEW pc \in {"row", "file"}, NEW uri \in Uris,
             Goto(t, [old EXCEPT !.pc = pc, !.uri = uri, !.cert = Head(old.certs)])
      PROVE  /\ Goes(t) /\ thread'[t].pc = pc /\ thread'[t].uri = uri
             /\ thread'[t].cert = Head(old.certs) /\ thread'[t].op = "install"
  <2> DEFINE r == [old EXCEPT !.pc = pc, !.uri = uri, !.cert = Head(old.certs)]
  <2>1. /\ r \in Requests /\ r.pc = pc /\ r.uri = uri /\ r.cert = Head(old.certs)
        /\ r.op = "install" /\ r.uid = old.uid /\ r.certs = old.certs
    BY <1>1, <1>2 DEF Requests, Pcs
  <2>2. thread'[t] = r /\ Others(t) /\ thread' = [other \in Threads |-> thread'[other]]
    BY <1>4, ThreadSet
  <2> HIDE DEF r
  <2>3. Knows(r, r.pc) /\ Flow(r.pc, r.op)
    BY <1>1, <1>2, <2>1 DEF Knows, Flow, Removing, Writing
  <2> QED
    BY <2>1, <2>2, <2>3 DEF Goes, ThreadOK
<1>5. CASE \E uri \in same : Goto(t, [old EXCEPT !.pc = "row", !.uri = uri,
                                                 !.cert = Head(old.certs)])
  <2>1. PICK uri \in same : Goto(t, [old EXCEPT !.pc = "row", !.uri = uri,
                                                !.cert = Head(old.certs)])
    BY <1>5
  <2>2. uri \in Uris /\ files[uri] = Head(old.certs)
    OBVIOUS
  <2>3. /\ Goes(t) /\ thread'[t].pc = "row" /\ thread'[t].uri = uri
        /\ thread'[t].cert = Head(old.certs) /\ thread'[t].op = "install"
    BY <1>4, <2>1, <2>2
  <2> QED
    BY <1>1, <1>3, <2>2, <2>3 DEF Finds
<1>6. CASE HasRoom(own) /\ Goto(t, [old EXCEPT !.pc = "file", !.uri = own,
                                               !.cert = Head(old.certs)])
  <2>1. /\ Goes(t) /\ thread'[t].pc = "file" /\ thread'[t].uri = own
        /\ thread'[t].op = "install"
    BY <1>2, <1>4, <1>6
  <2> QED
    BY <1>1, <1>2, <1>3, <1>6, <2>1 DEF Finds
<1>7. CASE Goto(t, Idle("install", own, "fail"))
  <2>1. /\ thread'[t] = Idle("install", own, "fail") /\ Others(t)
        /\ thread' = [other \in Threads |-> thread'[other]]
    BY <1>7, ThreadSet
  <2>2. Idle("install", own, "fail") \in Idles
    BY <1>2 DEF Idle, Idles, Ops
  <2>3. Flow("idle", "install")
    BY DEF Flow, Removing, Writing
  <2>4. /\ thread'[t].pc = "idle" /\ thread'[t].op = "install" /\ thread'[t].uri = own
        /\ thread'[t].ret = "fail"
    BY <2>1 DEF Idle
  <2> QED
    BY <1>1, <1>2, <1>3, <2>1, <2>2, <2>3, <2>4 DEF Finds, Goes, ThreadOK
<1> QED
  BY <1>5, <1>6, <1>7 DEF FindDuplicate

\* How the removal of a backup goes on.
LEMMA AfterRemovalGoes ==
    ASSUME TypeOK, NEW t \in Threads, thread[t].pc \in Removing, NEW ret \in {"ok", "fail"},
           AfterRemoval(t, ret)
    PROVE  /\ Goes(t)
           /\ thread[t].op \in Writers => Moved(t, "number")
           /\ thread[t].op \in {"uninstall", "disable"} => Ended(t, ret)
           /\ thread[t].op = "removeAll" => Moved(t, "delRow")
           /\ thread[t].op = "eventConf" => Moved(t, "next")
<1> DEFINE old == thread[t]
<1>1. /\ ~At(t, "idle") /\ Flow(old.pc, old.op) /\ Knows(old, old.pc)
      /\ old.op \in Writers \cup {"uninstall", "disable", "removeAll", "eventConf"}
  BY RequestIsRequest DEF Removing, At, Flow
<1>2. CASE old.op \in Writers
  <2>1. Advance(t, "number") /\ Flow("number", old.op) /\ Knows(old, "number")
    BY <1>1, <1>2 DEF AfterRemoval, Writers, Flow, Knows, Removing, Writing
  <2> QED
    BY <1>1, <1>2, <2>1, MovedGoes DEF Pcs, Writing, Writers
<1>3. CASE old.op \in {"uninstall", "disable"}
  BY <1>1, <1>3, EndedGoes DEF AfterRemoval, Writers
<1>4. CASE old.op = "removeAll"
  <2>1. Advance(t, "delRow") /\ Flow("delRow", old.op) /\ Knows(old, "delRow")
    BY <1>1, <1>4 DEF AfterRemoval, Writers, Flow, Knows, Removing, Writing
  <2> QED
    BY <1>1, <1>4, <2>1, MovedGoes DEF Pcs, Writers
<1>5. CASE old.op = "eventConf"
  <2>1. Advance(t, "next") /\ Flow("next", old.op) /\ Knows(old, "next")
    BY <1>1, <1>5 DEF AfterRemoval, Writers, Flow, Knows, Removing, Writing
  <2> QED
    BY <1>1, <1>5, <2>1, MovedGoes DEF Pcs, Writers
<1> QED
  BY <1>1, <1>2, <1>3, <1>4, <1>5

\* How a backup that failed ends.
LEMMA BackupFailedGoes ==
    ASSUME TypeOK, NEW t \in Threads, thread[t].pc \in Writing, BackupFailed(t)
    PROVE  /\ Goes(t) /\ thread[t].op \in Writers
           /\ thread[t].op = "install" => Moved(t, "undo")
           /\ thread[t].op = "enable" => Ended(t, "fail")
           /\ thread[t].op = "start" => Moved(t, "next")
<1> DEFINE old == thread[t]
<1>1. ~At(t, "idle") /\ Flow(old.pc, old.op) /\ Knows(old, old.pc) /\ old.op \in Writers
  BY RequestIsRequest DEF Writing, At, Flow
<1>2. CASE old.op = "install"
  <2>1. Advance(t, "undo") /\ Flow("undo", old.op) /\ Knows(old, "undo")
    BY <1>1, <1>2 DEF BackupFailed, Flow, Knows, Removing, Writing
  <2> QED
    BY <1>1, <1>2, <2>1, MovedGoes DEF Pcs
<1>3. CASE old.op = "enable"
  BY <1>1, <1>3, EndedGoes DEF BackupFailed
<1>4. CASE old.op = "start"
  <2>1. Advance(t, "next") /\ Flow("next", old.op) /\ Knows(old, "next")
    BY <1>1, <1>4 DEF BackupFailed, Flow, Knows, Removing, Writing
  <2> QED
    BY <1>1, <1>4, <2>1, MovedGoes DEF Pcs
<1> QED
  BY <1>1, <1>2, <1>3, <1>4 DEF Writers

\* An uninstall gives up, a loop goes on.
LEMMA GiveUpGoes ==
    ASSUME TypeOK, NEW t \in Threads, thread[t].pc \in {"delRow", "rmFile"}, GiveUp(t)
    PROVE  /\ Goes(t) /\ thread[t].op \in {"uninstall", "removeAll", "event"}
           /\ IF thread[t].op = "uninstall" THEN Ended(t, "fail") ELSE Moved(t, "next")
<1> DEFINE old == thread[t]
<1>1. /\ ~At(t, "idle") /\ Flow(old.pc, old.op) /\ Knows(old, old.pc)
      /\ old.op \in {"uninstall", "removeAll", "event"}
  BY RequestIsRequest DEF At, Flow
<1>2. CASE old.op = "uninstall"
  BY <1>1, <1>2, EndedGoes DEF GiveUp
<1>3. CASE old.op # "uninstall"
  <2>1. Advance(t, "next") /\ Flow("next", old.op) /\ Knows(old, "next")
    BY <1>1, <1>3 DEF GiveUp, Flow, Knows, Removing, Writing, Writers
  <2> QED
    BY <1>1, <1>3, <2>1, MovedGoes DEF Pcs
<1> QED
  BY <1>1, <1>2, <1>3

\* A set of numbers has a smallest one (the sets 0 .. n are well-founded by
\* inclusion).
LEMMA MinIsIn ==
    ASSUME NEW S \in SUBSET Nat, S # {}
    PROVE  Min(S) \in S
<1> DEFINE R == StrictSubsetOrdering(Nat)
           T == {0 .. n : n \in S}
<1>1. \A n \in Nat : 0 .. n \in FiniteSubsetsOf(Nat)
  BY FS_Interval DEF FiniteSubsetsOf
<1>2. T \subseteq FiniteSubsetsOf(Nat) /\ T # {}
  BY <1>1
<1>3. IsWellFoundedOn(R, FiniteSubsetsOf(Nat))
  BY FS_StrictSubsetOrderingWellFounded
<1> HIDE DEF R, T
<1>4. PICK x \in T : \A y \in T : ~(<<y, x>> \in R)
  BY <1>2, <1>3, WFMin
<1>5. PICK n \in S : x = 0 .. n
  BY DEF T
<1>6. \A m \in S : n <= m
  <2> SUFFICES ASSUME NEW m \in S, m < n PROVE FALSE
    OBVIOUS
  <2>1. 0 .. m \subseteq 0 .. n /\ n \in 0 .. n /\ n \notin 0 .. m
    OBVIOUS
  <2>2. 0 .. m \in SUBSET Nat /\ 0 .. n \in SUBSET Nat
    OBVIOUS
  <2>3. <<0 .. m, 0 .. n>> \in R
    BY <2>1, <2>2 DEF R, StrictSubsetOrdering
  <2>4. 0 .. m \in T
    BY DEF T
  <2> QED
    BY <1>4, <1>5, <2>3, <2>4
<1> QED
  BY <1>6 DEF Min

\* A certificate is read, or its request ends here.
Reads(t) ==
    LET r == thread'[t]
    IN  /\ At(t, "read") /\ Goes(t) /\ UNCHANGED <<stores, started, deaths>>
        /\ UNCHANGED failed \/ Faulted({"read"})
        /\ r.op = thread[t].op /\ r.uri = thread[t].uri
        /\ \/ r.pc = "load" /\ files[r.uri] = r.cert
           \/ r.pc = "next" /\ r.op = "start"
           \/ r.pc = "idle" /\ r.op = "enable"

LEMMA ReadReads == ASSUME TypeOK, NEW t \in Threads, ReadCert(t) PROVE Reads(t)
<1> DEFINE old == thread[t]
<1>1. /\ At(t, "read") /\ ~At(t, "idle") /\ old \in Requests /\ old.op \in {"enable", "start"}
      /\ Knows(old, "read") /\ old.uri \in Uris
  BY RequestIsRequest DEF ReadCert, At, Knows, Flow
<1>2. UNCHANGED <<stores, started, deaths>> /\ (UNCHANGED failed \/ Faulted({"read"}))
  BY FaultIsKept DEF ReadCert
<1>3. CASE /\ old.uri \in Installed
           /\ Goto(t, [old EXCEPT !.pc = "load", !.cert = files[old.uri]])
  <2> DEFINE r == [old EXCEPT !.pc = "load", !.cert = files[old.uri]]
  <2>1. files[old.uri] \in Certs
    BY <1>1, <1>3 DEF Installed, TypeOK, StoresOK
  <2>2. /\ r \in Requests /\ r.pc = "load" /\ r.uri = old.uri /\ r.op = old.op
        /\ r.cert = files[old.uri]
    BY <1>1, <2>1 DEF Requests, Pcs, Removing
  <2> HIDE DEF r
  <2>3. Flow(r.pc, r.op) /\ Knows(r, r.pc)
    BY <1>1, <2>1, <2>2 DEF Flow, Knows, Removing, Writing, Writers
  <2>4. Goes(t) /\ thread'[t] = r
    BY <1>3, <2>2, <2>3, RequestGoes DEF r
  <2> QED
    BY <1>1, <1>2, <2>2, <2>4 DEF Reads
<1>4. CASE old.op = "start" /\ Advance(t, "next")
  <2>1. Flow("next", old.op) /\ Knows(old, "next")
    BY <1>1, <1>4 DEF Flow, Knows, Removing, Writing
  <2>2. Goes(t) /\ Moved(t, "next")
    BY <1>1, <1>4, <2>1, MovedGoes DEF Pcs
  <2> QED
    BY <1>1, <1>2, <1>4, <2>2 DEF Reads, Moved
<1>5. CASE old.op = "enable" /\ Finish(t, "fail")
  <2>1. Goes(t) /\ Ended(t, "fail")
    BY <1>1, <1>5, EndedGoes
  <2> QED
    BY <1>1, <1>2, <1>5, <2>1 DEF Reads, Ended
<1> QED
  BY <1>1, <1>3, <1>4, <1>5 DEF ReadCert

\* A free number is chosen, or there is none.
Chooses(t) ==
    LET r == thread'[t]
    IN  /\ At(t, "number") /\ Goes(t) /\ UNCHANGED <<stores, started, failed, deaths>>
        /\ \/ /\ r.pc = "conf" /\ backup[r.slot] = None
              /\ r.op = thread[t].op /\ r.uri = thread[t].uri /\ r.cert = thread[t].cert
           \/ FreeNumbers(Subject[thread[t].cert]) = {} /\ BackupFailed(t)

LEMMA ChooseChooses == ASSUME TypeOK, NEW t \in Threads, ChooseNumber(t) PROVE Chooses(t)
<1> DEFINE old == thread[t]
           hash == Subject[old.cert]
           free == FreeNumbers(hash)
<1>1. /\ At(t, "number") /\ old \in Requests /\ old.op \in Writers /\ Knows(old, "number")
      /\ old.uri \in Uris /\ old.cert \in Certs
      /\ UNCHANGED <<stores, started, failed, deaths>>
  BY RequestIsRequest DEF ChooseNumber, At, Knows, Flow, Writing
<1>2. CASE free = {} /\ BackupFailed(t)
  BY <1>1, <1>2, BackupFailedGoes DEF Chooses, At, Writing
<1>3. CASE /\ free # {}
           /\ Goto(t, [old EXCEPT !.pc = "conf", !.slot = <<hash, Min(free)>>])
  <2> DEFINE slot == <<hash, Min(free)>>
             r == [old EXCEPT !.pc = "conf", !.slot = slot]
  <2>1. free \in SUBSET Nat
    BY UserCaAssumption DEF FreeNumbers
  <2>2. Min(free) \in free
    BY <1>3, <2>1, MinIsIn
  <2>3. slot \in Slots /\ backup[slot] = None
    BY <1>1, <2>2 DEF FreeNumbers, Slots
  <2> HIDE DEF slot
  <2>4. /\ r \in Requests /\ r.pc = "conf" /\ r.slot = slot
        /\ r.op = old.op /\ r.uri = old.uri /\ r.cert = old.cert /\ r.uid = old.uid
        /\ r.certs = old.certs
    BY <1>1, <2>3 DEF Requests, Pcs, Writing
  <2> HIDE DEF r
  <2>5. Flow(r.pc, r.op) /\ Knows(r, r.pc)
    BY <1>1, <2>3, <2>4 DEF Flow, Knows, Removing, Writing, Writers
  <2>6. Goes(t) /\ thread'[t] = r
    BY <1>3, <2>4, <2>5, RequestGoes DEF r, slot
  <2> QED
    BY <1>1, <2>3, <2>4, <2>6 DEF Chooses
<1> QED
  BY <1>2, <1>3 DEF ChooseNumber

\* What the config names is read, or cannot be read.
Loads(t) ==
    LET r == thread'[t]
    IN  /\ At(t, "load") /\ Goes(t) /\ UNCHANGED <<stores, started, deaths>>
        /\ \/ /\ UNCHANGED failed
              /\ r.op = thread[t].op /\ r.uri = thread[t].uri /\ r.todo = thread[t].todo
              /\ r.cert = thread[t].cert
              /\ r.slot = conf[r.uri]
              /\ r.pc = IF r.slot = None THEN "rmConf" ELSE "rmBackup"
           \/ Faulted({"load"}) /\ AfterRemoval(t, "fail")

LEMMA LoadLoads == ASSUME TypeOK, NEW t \in Threads, LoadConf(t) PROVE Loads(t)
<1> DEFINE old == thread[t]
           slot == conf[old.uri]
<1>1. /\ At(t, "load") /\ old \in Requests /\ Flow("load", old.op) /\ Knows(old, "load")
      /\ old.uri \in Uris /\ UNCHANGED <<stores, started, deaths>>
  BY RequestIsRequest DEF LoadConf, At, Knows
<1>2. CASE Fault("load") /\ AfterRemoval(t, "fail")
  BY <1>1, <1>2, AfterRemovalGoes, FaultIsKept DEF Loads, At, Removing
<1>3. CASE /\ Goto(t, [old EXCEPT !.slot = slot,
                         !.pc = IF slot = None THEN "rmConf" ELSE "rmBackup"])
           /\ UNCHANGED failed
  <2> DEFINE pc == IF slot = None THEN "rmConf" ELSE "rmBackup"
             r == [old EXCEPT !.slot = slot, !.pc = pc]
  <2>1. slot \in Slots \cup {None}
    BY <1>1 DEF TypeOK, StoresOK
  <2>2. pc \in Pcs /\ (pc = "rmBackup" => slot \in Slots)
    BY <2>1 DEF Pcs, Removing
  <2> HIDE DEF slot
  <2>3. /\ r \in Requests /\ r.pc = pc /\ r.slot = slot /\ r.todo = old.todo
        /\ r.op = old.op /\ r.uri = old.uri /\ r.cert = old.cert /\ r.uid = old.uid
        /\ r.certs = old.certs
    BY <1>1, <2>1, <2>2 DEF Requests
  <2> HIDE DEF r
  <2>4. Flow(r.pc, r.op) /\ Knows(r, r.pc)
    BY <1>1, <2>1, <2>2, <2>3 DEF Flow, Knows, Removing, Writing, Writers
  <2>5. Goes(t) /\ thread'[t] = r
    BY <1>3, <2>3, <2>4, RequestGoes DEF r, slot
  <2> QED
    BY <1>1, <1>3, <2>3, <2>5 DEF Loads, slot
<1> QED
  BY <1>2, <1>3 DEF LoadConf

\* The loop takes a certificate of its list.
Takes(t) ==
    LET r == thread'[t]
    IN  /\ At(t, "next") /\ Goes(t) /\ UNCHANGED <<stores, started, failed, deaths>>
        /\ r.uri \in thread[t].todo /\ r.todo = thread[t].todo \ {r.uri} /\ r.op = thread[t].op
        /\ \/ r.op = "start" /\ r.pc \in {"read", "next"}
           \/ r.op \in {"removeAll", "event"} /\ r.pc = "rmFile"
           \/ r.op = "eventConf" /\ r.pc = "load"

LEMMA NextTakes == ASSUME TypeOK, NEW t \in Threads, NextUri(t) PROVE Takes(t)
<1> DEFINE old == thread[t]
<1>1. /\ At(t, "next") /\ old \in Requests
      /\ old.op \in {"start", "removeAll", "event", "eventConf"}
      /\ UNCHANGED <<stores, started, failed, deaths>>
  BY RequestIsRequest DEF NextUri, At, Flow
<1>2. PICK uri \in old.todo, pc \in {"read", "next", "rmFile", "load"} :
         /\ Goto(t, [old EXCEPT !.pc = pc, !.uri = uri, !.todo = @ \ {uri}])
         /\ old.op = "start" => pc \in {"read", "next"}
         /\ old.op \in {"removeAll", "event"} => pc = "rmFile"
         /\ old.op = "eventConf" => pc = "load"
  <2>1. PICK uri \in old.todo :
          LET pc == CASE old.op = "start" -> IF NeedsBackup(uri) THEN "read" ELSE "next"
                      [] old.op \in {"removeAll", "event"} -> "rmFile"
                      [] old.op = "eventConf" -> "load"
          IN  Goto(t, [old EXCEPT !.pc = pc, !.uri = uri, !.todo = @ \ {uri}])
    BY DEF NextUri
  <2>2. CASE old.op = "start"
    BY <2>1, <2>2
  <2>3. CASE old.op \in {"removeAll", "event"}
    BY <2>1, <2>3
  <2>4. CASE old.op = "eventConf"
    BY <2>1, <2>4
  <2> QED
    BY <1>1, <2>2, <2>3, <2>4
<1> DEFINE r == [old EXCEPT !.pc = pc, !.uri = uri, !.todo = @ \ {uri}]
<1>3. uri \in Uris
  BY <1>1 DEF Requests
<1>4. /\ r \in Requests /\ r.pc = pc /\ r.uri = uri /\ r.op = old.op
      /\ r.todo = old.todo \ {uri}
  BY <1>1, <1>3 DEF Requests, Pcs, Removing
<1> HIDE DEF r
<1>5. Flow(r.pc, r.op) /\ Knows(r, r.pc)
  BY <1>1, <1>2, <1>3, <1>4 DEF Flow, Knows, Removing, Writing, Writers
<1>6. Goes(t) /\ thread'[t] = r
  BY <1>2, <1>4, <1>5, RequestGoes DEF r
<1> QED
  BY <1>1, <1>2, <1>4, <1>6 DEF Takes

\* The list is empty: the flag, the configs of a removed user, or the end.
Leaves(t) ==
    LET r == thread'[t]
    IN  /\ At(t, "next") /\ Goes(t) /\ UNCHANGED <<stores, started, failed, deaths>>
        /\ thread[t].todo = {}
        /\ \/ r.op = "start" /\ thread[t].op = "start" /\ r.pc = "flag"
           \/ /\ thread[t].op = "event" /\ r.op = "eventConf" /\ r.pc = "next"
              /\ r.todo = Listable
           \/ /\ r.op \in {"removeAll", "eventConf"} /\ r.op = thread[t].op
              /\ r.pc = "idle" /\ r.ret = "ok" /\ r.uri = thread[t].uri

LEMMA LoopLeaves == ASSUME TypeOK, NEW t \in Threads, LoopEnds(t) PROVE Leaves(t)
<1> DEFINE old == thread[t]
<1>1. /\ At(t, "next") /\ ~At(t, "idle") /\ old \in Requests
      /\ old.op \in {"start", "removeAll", "event", "eventConf"}
      /\ Knows(old, "next") /\ old.todo = {} /\ UNCHANGED <<stores, started, failed, deaths>>
  BY RequestIsRequest DEF LoopEnds, At, Flow
<1>2. CASE old.op = "start"
  <2>1. Advance(t, "flag")
    BY <1>2 DEF LoopEnds
  <2>2. Flow("flag", old.op) /\ Knows(old, "flag")
    BY <1>1, <1>2 DEF Flow, Knows, Removing, Writing
  <2>3. Goes(t) /\ Moved(t, "flag")
    BY <1>1, <2>1, <2>2, MovedGoes DEF Pcs
  <2> QED
    BY <1>1, <1>2, <2>3 DEF Leaves, Moved
<1>3. CASE old.op = "event"
  <2> DEFINE r == [old EXCEPT !.op = "eventConf", !.todo = Listable]
  <2>1. /\ r \in Requests /\ r.pc = "next" /\ r.op = "eventConf" /\ r.todo = Listable
    BY <1>1 DEF Requests, Pcs, Ops, Configured, Listable, At
  <2>2. Goto(t, r)
    BY <1>3 DEF LoopEnds
  <2> HIDE DEF r
  <2>3. Flow(r.pc, r.op) /\ Knows(r, r.pc)
    BY <2>1 DEF Flow, Knows, Removing, Writing, Writers
  <2>4. Goes(t) /\ thread'[t] = r
    BY <2>1, <2>2, <2>3, RequestGoes
  <2> QED
    BY <1>1, <1>3, <2>1, <2>4 DEF Leaves
<1>4. CASE old.op \in {"removeAll", "eventConf"}
  <2>1. Finish(t, "ok")
    BY <1>4 DEF LoopEnds
  <2>2. Goes(t) /\ Ended(t, "ok")
    BY <1>1, <1>4, <2>1, EndedGoes
  <2> QED
    BY <1>1, <1>4, <2>2 DEF Leaves, Ended
<1> QED
  BY <1>1, <1>2, <1>3, <1>4

\* File, row and config are written on the way to the next place.
LEMMA WriteGoes ==
    ASSUME TypeOK, NEW t \in Threads, WriteFile(t) \/ InsertRow(t) \/ WriteConf(t)
    PROVE  /\ Goes(t)
           /\ WriteFile(t) => Moved(t, "row") /\ thread[t].op = "install"
           /\ InsertRow(t) => Moved(t, "load") /\ thread[t].op = "install"
           /\ WriteConf(t) => Moved(t, "backup") /\ thread[t].op \in Writers
<1> DEFINE old == thread[t]
<1>1. PICK pc \in {"row", "load", "backup"} :
         /\ Advance(t, pc) /\ ~At(t, "idle") /\ Flow(pc, old.op) /\ Knows(old, pc)
         /\ WriteFile(t) => pc = "row" /\ old.op = "install"
         /\ InsertRow(t) => pc = "load" /\ old.op = "install"
         /\ WriteConf(t) => pc = "backup" /\ old.op \in Writers
  <2>1. CASE WriteFile(t)
    BY <2>1, RequestIsRequest DEF WriteFile, InsertRow, WriteConf, At, Flow, Knows, Removing,
                                  Writing, Writers
  <2>2. CASE InsertRow(t)
    BY <2>2, RequestIsRequest DEF WriteFile, InsertRow, WriteConf, At, Flow, Knows, Removing,
                                  Writing, Writers
  <2>3. CASE WriteConf(t)
    BY <2>3, RequestIsRequest DEF WriteFile, InsertRow, WriteConf, At, Flow, Knows, Removing,
                                  Writing, Writers
  <2> QED
    BY <2>1, <2>2, <2>3
<1>2. Goes(t) /\ Moved(t, pc)
  BY <1>1, MovedGoes DEF Pcs, Removing, Writing
<1> QED
  BY <1>1, <1>2

\* The backup is written: the end, or the next certificate.
BacksUp(t) ==
    LET r == thread'[t]
    IN  /\ At(t, "backup") /\ Goes(t) /\ r.op = thread[t].op /\ r.op \in Writers
        /\ \/ r.pc = "find" /\ r.op = "install"
           \/ r.pc = "next" /\ r.op = "start"
           \/ r.pc = "idle" /\ r.op # "start" /\ r.uri = thread[t].uri

LEMMA MoreFollow ==
    ASSUME NEW S, NEW s \in Seq(S), Len(s) > 1
    PROVE  Tail(s) \in Seq(S) /\ Tail(s) # <<>>
<1>1. s # <<>>
  OBVIOUS
<1>2. Tail(s) \in Seq(S) /\ Len(Tail(s)) = Len(s) - 1
  BY <1>1
<1>3. Len(Tail(s)) # 0 /\ Len(<<>>) = 0
  BY <1>2
<1>4. Tail(s) # <<>>
  BY <1>3, Zenon
<1> QED
  BY <1>2, <1>4

LEMMA WriteBacksUp == ASSUME TypeOK, NEW t \in Threads, WriteBackup(t) PROVE BacksUp(t)
<1> DEFINE old == thread[t]
<1>1. /\ At(t, "backup") /\ ~At(t, "idle") /\ old \in Requests /\ old.op \in Writers
      /\ Knows(old, "backup")
  BY RequestIsRequest DEF WriteBackup, At, Flow, Writing
<1>2. CASE old.op = "install" /\ Len(old.certs) > 1
  <2> DEFINE r == [old EXCEPT !.pc = "find", !.certs = Tail(@)]
  <2>1. Tail(old.certs) \in Seq(Certs) /\ Tail(old.certs) # <<>>
    <3>1. old.certs \in Seq(Certs)
      BY <1>1 DEF Requests
    <3> QED
      BY <1>2, <3>1, MoreFollow
  <2>2. /\ r \in Requests /\ r.pc = "find" /\ r.op = "install" /\ r.certs # <<>>
        /\ r.uid = old.uid
    BY <1>1, <1>2, <2>1 DEF Requests, Pcs
  <2>3. Goto(t, r)
    BY <1>2 DEF WriteBackup
  <2> HIDE DEF r
  <2>4. Flow(r.pc, r.op) /\ Knows(r, r.pc)
    BY <1>1, <1>2, <2>2 DEF Flow, Knows, Removing, Writing, Writers
  <2>5. Goes(t) /\ thread'[t] = r
    BY <2>2, <2>3, <2>4, RequestGoes
  <2> QED
    BY <1>1, <1>2, <2>2, <2>5 DEF BacksUp
<1>3. CASE old.op = "start"
  <2>1. Advance(t, "next")
    BY <1>3 DEF WriteBackup
  <2>2. Flow("next", old.op) /\ Knows(old, "next")
    BY <1>1, <1>3 DEF Flow, Knows, Removing, Writing
  <2>3. Goes(t) /\ Moved(t, "next")
    BY <1>1, <2>1, <2>2, MovedGoes DEF Pcs
  <2> QED
    BY <1>1, <1>3, <2>3 DEF BacksUp, Moved
<1>4. CASE old.op # "start" /\ ~(old.op = "install" /\ Len(old.certs) > 1)
  <2>1. Finish(t, "ok")
    BY <1>4 DEF WriteBackup
  <2>2. Goes(t) /\ Ended(t, "ok")
    BY <1>1, <2>1, EndedGoes DEF Writers
  <2> QED
    BY <1>1, <1>4, <2>2 DEF BacksUp, Ended
<1> QED
  BY <1>2, <1>3, <1>4

\* Where a removal goes on that did something.
LEMMA RemovalGoes ==
    ASSUME TypeOK, NEW t \in Threads, NEW pc \in {"rmConf", "rmFile", "delRow", "load", "next"},
           Advance(t, pc),
           \/ At(t, "rmBackup") /\ pc = "rmConf"
           \/ At(t, "delRow") /\ pc = IF thread[t].op = "uninstall" THEN "rmFile" ELSE "next"
           \/ At(t, "rmFile") /\ pc = IF thread[t].op = "event" THEN "delRow" ELSE "load"
    PROVE  Goes(t) /\ Moved(t, pc)
<1> DEFINE old == thread[t]
<1>1. ~At(t, "idle") /\ old \in Requests /\ Knows(old, old.pc) /\ Flow(old.pc, old.op)
  BY RequestIsRequest DEF At
<1>2. pc \in Pcs
  BY DEF Pcs, Removing
<1>3. CASE At(t, "rmBackup") /\ pc = "rmConf"
  <2>1. Flow(pc, old.op) /\ Knows(old, pc)
    BY <1>1, <1>3 DEF At, Flow, Knows, Removing, Writing, Writers
  <2> QED
    BY <1>1, <1>2, <2>1, MovedGoes
<1>4. CASE At(t, "delRow") /\ pc = IF thread[t].op = "uninstall" THEN "rmFile" ELSE "next"
  <2>1. Flow(pc, old.op) /\ Knows(old, pc)
    BY <1>1, <1>4 DEF At, Flow, Knows, Removing, Writing, Writers
  <2> QED
    BY <1>1, <1>2, <2>1, MovedGoes
<1>5. CASE At(t, "rmFile") /\ pc = IF thread[t].op = "event" THEN "delRow" ELSE "load"
  <2>1. Flow(pc, old.op) /\ Knows(old, pc)
    BY <1>1, <1>5 DEF At, Flow, Knows, Removing, Writing, Writers
  <2> QED
    BY <1>1, <1>2, <2>1, MovedGoes
<1> QED
  BY <1>3, <1>4, <1>5

\* Where an install fails without or after a backup, and the migration ends.
LEMMA StopGoes ==
    ASSUME TypeOK, NEW t \in Threads, NEW ret \in {"ok", "fail"}, Finish(t, ret),
           thread[t].pc \in {"file", "row", "undo", "flag"}
    PROVE  /\ Goes(t) /\ Ended(t, ret)
           /\ thread[t].op = IF At(t, "flag") THEN "start" ELSE "install"
<1>1. ~At(t, "idle") /\ Flow(thread[t].pc, thread[t].op)
  BY RequestIsRequest DEF At
<1>2. thread[t].op = IF At(t, "flag") THEN "start" ELSE "install"
  BY <1>1 DEF At, Flow
<1> QED
  BY <1>1, <1>2, EndedGoes

-----------------------------------------------------------------------------
(* Types                                                                   *)

LEMMA StoresUnchanged ==
    ASSUME TypeOK, NEW t, Goes(t), UNCHANGED <<stores, started, deaths>>,
           failed' \subseteq FaultKinds
    PROVE  TypeOK'
<1>1. StoresOK'
  BY DEF TypeOK, StoresOK, stores
<1> QED
  BY <1>1 DEF TypeOK, Goes, Others

\* Every step of a thread keeps the types, and is one of these.
LEMMA StepKeepsType == ASSUME TypeOK, NEW t \in Threads, Step(t) PROVE TypeOK'
<1>0. failed \subseteq FaultKinds /\ \A kinds : Faulted(kinds) => failed' \subseteq FaultKinds
  BY DEF TypeOK, StoresOK, Faulted
<1>1. ASSUME Begins(t) PROVE TypeOK'
  <2>1. StoresOK'
    BY <1>1 DEF Begins, TypeOK, StoresOK
  <2> QED
    BY <1>1, <2>1 DEF Begins, TypeOK, Goes, Others
<1>2. CASE InstallBegin(t) \/ UninstallBegin(t) \/ EnableBegin(t) \/ DisableBegin(t)
           \/ RemoveAllBegin(t)
  BY <1>1, <1>2, InstallBegins, OneBegins, RemovalBegins
<1>3. CASE StartBegin(t)
  <2>1. CASE UNCHANGED <<stores, thread, failed, deaths>> /\ started' = TRUE
    BY <2>1 DEF TypeOK, StoresOK, stores
  <2> QED
    BY <1>1, <1>3, <2>1, StartBegins
<1>4. CASE FindDuplicate(t) \/ ReadCert(t)
  BY <1>0, <1>4, FindFinds, ReadReads, StoresUnchanged DEF Finds, Reads
<1>5. CASE ChooseNumber(t) \/ LoadConf(t)
  BY <1>0, <1>5, ChooseChooses, LoadLoads, StoresUnchanged DEF Chooses, Loads
<1>6. CASE NextUri(t) \/ LoopEnds(t)
  BY <1>0, <1>6, NextTakes, LoopLeaves, StoresUnchanged DEF Takes, Leaves
<1>7. CASE WriteFails(t) \/ BackupFails(t)
  <2>1. CASE WriteFails(t)
    BY <1>0, <2>1, StopGoes, FaultIsKept, StoresUnchanged DEF WriteFails
  <2>2. CASE BackupFails(t)
    BY <1>0, <2>2, BackupFailedGoes, FaultIsKept, StoresUnchanged DEF BackupFails, Writing
  <2> QED
    BY <1>7, <2>1, <2>2
<1>8. ASSUME Goes(t), StoresOK' PROVE TypeOK'
  BY <1>8 DEF TypeOK, Goes, Others
<1>9. thread[t].pc # "idle" => thread[t] \in Requests /\ Knows(thread[t], thread[t].pc)
                               /\ Flow(thread[t].pc, thread[t].op)
  BY RequestIsRequest DEF At
<1>10. CASE WriteFile(t)
  <2>1. thread[t].cert \in Certs
    BY <1>9, <1>10, WriteGoes DEF WriteFile, At, Knows, Writers
  <2>2. StoresOK'
    BY <1>10, <2>1 DEF WriteFile, TypeOK, StoresOK
  <2> QED
    BY <1>8, <1>10, <2>2, WriteGoes
<1>11. CASE InsertRow(t)
  <2>1. thread[t].uri \in Uris
    BY <1>9, <1>11 DEF InsertRow, At, Knows
  <2>2. StoresOK'
    BY <1>11, <2>1 DEF InsertRow, TypeOK, StoresOK
  <2> QED
    BY <1>8, <1>11, <2>2, WriteGoes
<1>12. CASE WriteConf(t)
  <2>1. thread[t].slot \in Slots
    BY <1>9, <1>12 DEF WriteConf, At, Knows
  <2>2. StoresOK'
    BY <1>12, <2>1 DEF WriteConf, TypeOK, StoresOK
  <2> QED
    BY <1>8, <1>12, <2>2, WriteGoes
<1>13. CASE WriteBackup(t)
  <2>1. thread[t].cert \in Certs
    BY <1>9, <1>13 DEF WriteBackup, At, Knows, Flow, Writing, Writers
  <2>2. StoresOK'
    BY <1>13, <2>1 DEF WriteBackup, TypeOK, StoresOK
  <2> QED
    BY <1>8, <1>13, <2>2, WriteBacksUp DEF BacksUp
<1>14. CASE UndoInstall(t)
  <2>1. Goes(t)
    BY <1>14, StopGoes DEF UndoInstall, At
  <2>2. StoresOK'
    BY <1>0, <1>14, FaultIsKept DEF UndoInstall, TypeOK, StoresOK
  <2> QED
    BY <1>8, <2>1, <2>2
<1>15. CASE RemoveBackup(t)
  <2>1. Goes(t)
    BY <1>15, RemovalGoes, AfterRemovalGoes DEF RemoveBackup, At, Removing
  <2>2. StoresOK'
    BY <1>0, <1>15, FaultIsKept DEF RemoveBackup, TypeOK, StoresOK
  <2> QED
    BY <1>8, <2>1, <2>2
<1>16. CASE RemoveConf(t)
  <2>1. Goes(t)
    BY <1>16, AfterRemovalGoes DEF RemoveConf, At, Removing
  <2>2. StoresOK'
    BY <1>0, <1>16, FaultIsKept DEF RemoveConf, TypeOK, StoresOK
  <2> QED
    BY <1>8, <2>1, <2>2
<1>17. CASE DeleteRow(t)
  <2>1. Goes(t)
    BY <1>17, RemovalGoes, GiveUpGoes DEF DeleteRow, At
  <2>2. StoresOK'
    BY <1>0, <1>17, FaultIsKept DEF DeleteRow, TypeOK, StoresOK
  <2> QED
    BY <1>8, <2>1, <2>2
<1>18. CASE RemoveFile(t)
  <2>1. Goes(t)
    BY <1>18, RemovalGoes, GiveUpGoes DEF RemoveFile, At
  <2>2. StoresOK'
    BY <1>0, <1>18, FaultIsKept DEF RemoveFile, TypeOK, StoresOK
  <2> QED
    BY <1>8, <2>1, <2>2
<1>19. CASE SetUpdateFlag(t)
  <2>1. Goes(t)
    BY <1>19, StopGoes DEF SetUpdateFlag, At
  <2>2. StoresOK'
    BY <1>0, <1>19, FaultIsKept DEF SetUpdateFlag, TypeOK, StoresOK
  <2> QED
    BY <1>8, <2>1, <2>2
<1> QED
  BY <1>2, <1>3, <1>4, <1>5, <1>6, <1>7, <1>10, <1>11, <1>12, <1>13, <1>14, <1>15, <1>16, <1>17,
     <1>18, <1>19 DEF Step

\* The service starts again with every thread idle.
LEMMA RestartKeepsType == TypeOK /\ Restart => TypeOK' /\ \A t \in Threads : At(t, "idle")'
<1> SUFFICES ASSUME TypeOK, Restart PROVE TypeOK' /\ \A t \in Threads : At(t, "idle")'
  OBVIOUS
<1> DEFINE r == Idle("none", None, "lost")
<1>1. r \in Idles /\ r.pc = "idle" /\ r.op = "none"
  BY DEF Idle, Idles, Ops
<1>2. Flow("idle", "none")
  BY DEF Flow, Removing, Writing
<1> HIDE DEF r
<1>3. thread' = [t \in Threads |-> r]
  BY DEF Restart, r
<1>4. \A t \in Threads : ThreadOK(thread'[t])
  BY <1>1, <1>2, <1>3 DEF ThreadOK
<1>5. StoresOK'
  <2>1. deaths \in Nat /\ deaths' = deaths + 1
    BY DEF Restart, TypeOK, StoresOK
  <2>2. deaths' \in Nat
    BY <2>1
  <2>3. started' = FALSE /\ UNCHANGED <<files, rows, conf, backup, updated, failed>>
    BY DEF Restart, stores
  <2> QED
    BY <2>2, <2>3 DEF TypeOK, StoresOK
<1> QED
  BY <1>1, <1>3, <1>4, <1>5 DEF TypeOK, At

LEMMA InitOK ==
    ASSUME Init
    PROVE  TypeOK /\ \A t \in Threads : thread[t].pc = "idle" /\ thread[t].op = "none"
<1> DEFINE r == Idle("none", None, "lost")
<1>1. r \in Idles /\ r.pc = "idle" /\ r.op = "none"
  BY DEF Idle, Idles, Ops
<1>2. Flow("idle", "none")
  BY DEF Flow, Removing, Writing
<1> HIDE DEF r
<1>3. thread = [t \in Threads |-> r]
  BY DEF Init, r
<1>4. \A t \in Threads : ThreadOK(thread[t])
  BY <1>1, <1>2, <1>3 DEF ThreadOK
<1>5. StoresOK
  <2>1. \A uri \in Uris : uri \in Legacy => uri[2] \in Certs
    BY UserCaAssumption
  <2>2. files \in [Uris -> Certs \cup {None}]
    BY <2>1 DEF Init
  <2>3. conf \in [Uris -> Slots \cup {None}] /\ backup \in [Slots -> Certs \cup {None}]
    BY DEF Init
  <2> QED
    BY <2>2, <2>3 DEF Init, StoresOK
<1> QED
  BY <1>1, <1>3, <1>4, <1>5 DEF TypeOK

-----------------------------------------------------------------------------
(* The migration is the only request that nobody asked for                 *)

Starts(t) == thread[t].op = "start" /\ ~At(t, "idle")

\* One migration runs, and only while it is due.
MigrationIsDue ==
    /\ \A t \in Threads : Starts(t) => started /\ (~updated \/ "flag" \in failed)
    /\ \A t, other \in Threads : Starts(t) /\ Starts(other) => t = other

LEMMA GoingOn ==
    ASSUME TypeOK, MigrationIsDue, NEW t \in Threads, Goes(t), ~At(t, "idle"),
           UNCHANGED started, failed \subseteq failed',
           thread'[t].op # "start" \/ thread[t].op = "start",
           updated' = updated \/ (Starts(t) /\ thread'[t].pc = "idle")
    PROVE  MigrationIsDue'
<1>1. \A other \in Threads : Starts(other)' => Starts(other)
  BY DEF Goes, Others, Starts, At
<1>2. \A other \in Threads : Starts(other)' => updated' = updated
  BY <1>1 DEF MigrationIsDue, Starts, At
<1> QED
  BY <1>1, <1>2 DEF MigrationIsDue

LEMMA StepKeepsMigration ==
    ASSUME TypeOK, MigrationIsDue, NEW t \in Threads, Step(t)
    PROVE  MigrationIsDue'
<1>1. ASSUME Begins(t) PROVE MigrationIsDue'
  <2>1. \A other \in Threads \ {t} : Starts(other)' <=> Starts(other)
    BY <1>1 DEF Begins, Goes, Others, Starts, At
  <2>2. CASE thread'[t].op = "start"
    <3>1. ~started /\ started' /\ (~updated' \/ "flag" \in failed')
      BY <1>1, <2>2 DEF Begins
    <3> QED
      BY <2>1, <3>1 DEF MigrationIsDue
  <2>3. CASE thread'[t].op # "start"
    <3>1. UNCHANGED <<started, updated>> /\ failed \subseteq failed'
      BY <1>1, <2>3 DEF Begins
    <3>2. ~Starts(t)'
      BY <2>3 DEF Starts
    <3> QED
      BY <2>1, <3>1, <3>2 DEF MigrationIsDue
  <2> QED
    BY <2>2, <2>3
<1>2. CASE InstallBegin(t) \/ UninstallBegin(t) \/ EnableBegin(t) \/ DisableBegin(t)
           \/ RemoveAllBegin(t)
  BY <1>1, <1>2, InstallBegins, OneBegins, RemovalBegins
<1>3. CASE StartBegin(t)
  <2>1. CASE UNCHANGED <<stores, thread, failed, deaths>> /\ started' = TRUE
    BY <2>1 DEF MigrationIsDue, Starts, At, stores
  <2> QED
    BY <1>1, <1>3, <2>1, StartBegins
<1>4. \A kinds : Faulted(kinds) => failed \subseteq failed'
  BY DEF Faulted
<1>5. \A pc : Moved(t, pc) => thread'[t].op = thread[t].op
  BY DEF Moved
<1>6. \A ret : Ended(t, ret) => thread'[t].op = thread[t].op /\ thread'[t].pc = "idle"
  BY DEF Ended
<1>7. /\ thread[t].pc \in Removing => ~At(t, "idle")
      /\ thread[t].pc \in Writing => ~At(t, "idle")
  BY DEF Removing, Writing, At
<1>8. CASE FindDuplicate(t) \/ ReadCert(t)
  BY <1>4, <1>8, FindFinds, ReadReads, GoingOn DEF Finds, Reads, At, stores
<1>9. CASE ChooseNumber(t)
  BY <1>5, <1>6, <1>7, <1>9, ChooseChooses, BackupFailedGoes, GoingOn
     DEF Chooses, At, Writing, Writers, stores
<1>10. ASSUME thread[t].pc \in Removing, NEW ret \in {"ok", "fail"}, AfterRemoval(t, ret)
       PROVE  Goes(t) /\ thread'[t].op = thread[t].op
  <2>1. thread[t].op \in Writers \cup {"uninstall", "disable", "removeAll", "eventConf"}
    BY <1>7, <1>10, RequestIsRequest DEF Flow
  <2> QED
    BY <1>5, <1>6, <1>10, <2>1, AfterRemovalGoes
<1>11. CASE LoadConf(t)
  <2>1. Loads(t)
    BY <1>11, LoadLoads
  <2>2. thread'[t].op = thread[t].op
    BY <1>10, <2>1 DEF Loads, At, Removing
  <2> QED
    BY <1>4, <2>1, <2>2, GoingOn DEF Loads, At, stores
<1>12. CASE NextUri(t) \/ LoopEnds(t)
  BY <1>12, NextTakes, LoopLeaves, GoingOn DEF Takes, Leaves, At, stores
<1>13. CASE WriteFails(t) \/ SetUpdateFlag(t) \/ UndoInstall(t)
  <2>1. failed \subseteq failed' /\ UNCHANGED started /\ ~At(t, "idle")
    BY <1>4, <1>13, FaultIsKept DEF WriteFails, SetUpdateFlag, UndoInstall, At
  <2>2. PICK ret \in {"ok", "fail"} : Finish(t, ret)
    BY <1>13 DEF WriteFails, SetUpdateFlag, UndoInstall
  <2>3. Goes(t) /\ Ended(t, ret) /\ thread[t].op = IF At(t, "flag") THEN "start" ELSE "install"
    BY <1>13, <2>2, StopGoes DEF WriteFails, SetUpdateFlag, UndoInstall, At
  <2>4. updated' = updated \/ At(t, "flag")
    BY <1>13 DEF WriteFails, SetUpdateFlag, UndoInstall, stores
  <2> QED
    BY <1>6, <2>1, <2>3, <2>4, GoingOn DEF Starts, At
<1>14. CASE BackupFails(t)
  <2>1. thread[t].pc \in Writing /\ BackupFailed(t) /\ UNCHANGED <<started, updated>>
    BY <1>14 DEF BackupFails, Writing, stores
  <2> QED
    BY <1>4, <1>5, <1>6, <1>7, <1>14, <2>1, BackupFailedGoes, GoingOn, FaultIsKept
       DEF BackupFails, Writers
<1>15. CASE WriteFile(t) \/ InsertRow(t) \/ WriteConf(t)
  BY <1>5, <1>15, WriteGoes, GoingOn DEF WriteFile, InsertRow, WriteConf, At
<1>16. CASE WriteBackup(t)
  BY <1>16, WriteBacksUp, GoingOn DEF WriteBackup, BacksUp, At
<1>17. CASE RemoveBackup(t) \/ RemoveConf(t)
  <2>1. failed \subseteq failed' /\ UNCHANGED <<started, updated>> /\ thread[t].pc \in Removing
    BY <1>4, <1>17, FaultIsKept DEF RemoveBackup, RemoveConf, At, Removing
  <2>2. \/ At(t, "rmBackup") /\ Advance(t, "rmConf")
        \/ \E ret \in {"ok", "fail"} : AfterRemoval(t, ret)
    BY <1>17 DEF RemoveBackup, RemoveConf
  <2>3. Goes(t) /\ thread'[t].op = thread[t].op
    BY <1>5, <1>10, <2>1, <2>2, RemovalGoes
  <2> QED
    BY <1>7, <2>1, <2>3, GoingOn
<1>18. CASE DeleteRow(t) \/ RemoveFile(t)
  <2>1. /\ failed \subseteq failed' /\ UNCHANGED <<started, updated>>
        /\ thread[t].pc \in {"delRow", "rmFile"} /\ ~At(t, "idle")
    BY <1>4, <1>18, FaultIsKept DEF DeleteRow, RemoveFile, At
  <2>2. Goes(t) /\ thread'[t].op = thread[t].op
    BY <1>5, <1>6, <1>18, RemovalGoes, GiveUpGoes DEF DeleteRow, RemoveFile, At
  <2> QED
    BY <2>1, <2>2, GoingOn
<1> QED
  BY <1>2, <1>3, <1>8, <1>9, <1>11, <1>12, <1>13, <1>14, <1>15, <1>16, <1>17, <1>18 DEF Step

\* The types and the migration, for any number of threads.
LEMMA InitIsTyped == Init => TypeOK /\ MigrationIsDue
<1> SUFFICES ASSUME Init PROVE TypeOK /\ MigrationIsDue
  OBVIOUS
<1>1. TypeOK /\ \A t \in Threads : ~Starts(t)
  BY InitOK DEF Starts, At
<1> QED
  BY <1>1 DEF MigrationIsDue

LEMMA NextIsTyped ==
    TypeOK /\ MigrationIsDue /\ [Next]_vars => TypeOK' /\ MigrationIsDue'
<1> SUFFICES ASSUME TypeOK, MigrationIsDue, [Next]_vars PROVE TypeOK' /\ MigrationIsDue'
  OBVIOUS
<1>1. ASSUME NEW t \in Threads, Step(t) PROVE TypeOK' /\ MigrationIsDue'
  BY <1>1, StepKeepsType, StepKeepsMigration
<1>2. CASE Restart
  <2>1. TypeOK' /\ \A t \in Threads : ~Starts(t)'
    BY <1>2, RestartKeepsType DEF Starts
  <2> QED
    BY <2>1 DEF MigrationIsDue
<1>3. CASE UNCHANGED vars
  <2>1. TypeOK'
    BY <1>3 DEF vars, TypeOK, StoresOK
  <2>2. MigrationIsDue'
    BY <1>3 DEF vars, MigrationIsDue, Starts, At
  <2> QED
    BY <2>1, <2>2
<1> QED
  BY <1>1, <1>2, <1>3 DEF Next

\* Every store and request keeps its type, and a migration that runs is due.
THEOREM TypesAreKept == Spec => [](TypeOK /\ MigrationIsDue)
BY InitIsTyped, NextIsTyped, PTL DEF Spec

\* Only a thread that writes a config gives a certificate one.
LEMMA ConfigIsWritten ==
    ASSUME TypeOK, Next, NEW uri \in Uris, conf[uri] = None, conf'[uri] # None
    PROVE  \E t \in Threads : WriteConf(t) /\ thread[t].uri = uri
<1>1. conf' # conf
  OBVIOUS
<1>2. ~Restart
  BY <1>1 DEF Restart, stores
<1>3. PICK t \in Threads : Step(t)
  BY <1>2 DEF Next
<1>4. ~(InstallBegin(t) \/ UninstallBegin(t) \/ EnableBegin(t) \/ DisableBegin(t)
        \/ RemoveAllBegin(t) \/ StartBegin(t) \/ FindDuplicate(t) \/ WriteFails(t))
  BY <1>1 DEF InstallBegin, UninstallBegin, EnableBegin, DisableBegin, RemoveAllBegin,
              StartBegin, FindDuplicate, WriteFails, stores
<1>5. ~(ReadCert(t) \/ ChooseNumber(t) \/ BackupFails(t) \/ LoadConf(t) \/ NextUri(t)
        \/ LoopEnds(t))
  BY <1>1 DEF ReadCert, ChooseNumber, BackupFails, LoadConf, NextUri, LoopEnds, stores
<1>6. ~(WriteFile(t) \/ InsertRow(t) \/ WriteBackup(t) \/ UndoInstall(t) \/ RemoveBackup(t)
        \/ DeleteRow(t) \/ RemoveFile(t) \/ SetUpdateFlag(t))
  BY <1>1 DEF WriteFile, InsertRow, WriteBackup, UndoInstall, RemoveBackup, DeleteRow,
              RemoveFile, SetUpdateFlag
<1>7. ~RemoveConf(t)
  BY <1>1 DEF RemoveConf, TypeOK, StoresOK
<1>8. WriteConf(t)
  BY <1>3, <1>4, <1>5, <1>6, <1>7 DEF Step
<1>9. thread[t].uri = uri
  BY <1>8 DEF WriteConf, TypeOK, StoresOK
<1> QED
  BY <1>8, <1>9

\* Nobody but an install, an enable or a migration that is due makes the device
\* trust a certificate, for any number of threads, failures and deaths.
THEOREM NothingIsEnabledSilently == Spec => NoSilentEnable
<1>1. TypeOK /\ MigrationIsDue /\ [Next]_vars =>
        [\A uri \in Uris : conf[uri] = None /\ conf'[uri] # None =>
            \E t \in Threads :
               /\ ~At(t, "idle") /\ thread[t].uri = uri
               /\ \/ thread[t].op \in {"install", "enable"}
                  \/ thread[t].op = "start" /\ (~updated \/ "flag" \in failed)]_vars
  <2> SUFFICES ASSUME TypeOK, MigrationIsDue, Next, NEW uri \in Uris,
                      conf[uri] = None, conf'[uri] # None
               PROVE  \E t \in Threads :
                         /\ ~At(t, "idle") /\ thread[t].uri = uri
                         /\ \/ thread[t].op \in {"install", "enable"}
                            \/ thread[t].op = "start" /\ (~updated \/ "flag" \in failed)
    OBVIOUS
  <2>1. PICK t \in Threads : WriteConf(t) /\ thread[t].uri = uri
    BY ConfigIsWritten
  <2>2. ~At(t, "idle") /\ thread[t].op \in Writers
    BY <2>1, WriteGoes DEF WriteConf, At
  <2>3. thread[t].op = "start" => ~updated \/ "flag" \in failed
    BY <2>2 DEF MigrationIsDue, Starts
  <2> QED
    BY <2>1, <2>2, <2>3 DEF Writers
<1> QED
  BY <1>1, TypesAreKept, PTL DEF Spec, NoSilentEnable

-----------------------------------------------------------------------------
(* Any number of requests, each about a URI of its own: backups            *)

\* No store has a lock; no two requests change the backup of one certificate at once.
Apart ==
    \A t, u \in Threads :
        t # u /\ thread[t].pc \in Removing \cup Writing /\ thread[u].pc \in Removing \cup Writing
        => thread[t].uri # thread[u].uri

\* From where the backup is gone to where the config names a new one.
Unnamed == {"rmConf", "number", "conf"}

\* The config names the backup, and no request is about to take it back.
Owns(uri, slot) ==
    conf[uri] = slot /\ \A t \in Threads : thread[t].pc \in Unnamed => thread[t].uri # uri

SlotIsNamed(r) == r.pc \in {"rmBackup", "backup"} => r.slot = conf[r.uri]

\* Requests about different URIs may choose the same number; each names the backup before
\* it writes it and takes the name back after it has removed it.
BackupsAreOwned ==
    /\ \A t \in Threads : SlotIsNamed(thread[t])
    /\ RemovalsWork =>
          \A slot \in Slots : backup[slot] # None => \E uri \in Uris : Owns(uri, slot)

\* A step that touches neither config nor backup, and takes no name back that counts.
LEMMA OtherwiseOwned ==
    ASSUME TypeOK, BackupsAreOwned, NEW t \in Threads, Others(t), UNCHANGED <<conf, backup>>,
           failed \subseteq failed', SlotIsNamed(thread[t])',
           RemovalsWork' /\ thread'[t].pc \in Unnamed =>
              \/ thread[t].pc \in Unnamed /\ thread'[t].uri = thread[t].uri
              \/ \A slot \in Slots : backup[slot] # None => conf[thread'[t].uri] # slot
    PROVE  BackupsAreOwned'
<1>1. \A u \in Threads : SlotIsNamed(thread[u])'
  BY DEF BackupsAreOwned, SlotIsNamed, Others
<1>2. ASSUME RemovalsWork', NEW slot \in Slots, backup'[slot] # None
      PROVE  \E uri \in Uris : Owns(uri, slot)'
  <2>1. RemovalsWork
    BY <1>2 DEF RemovalsWork
  <2>2. PICK uri \in Uris : Owns(uri, slot)
    BY <1>2, <2>1 DEF BackupsAreOwned
  <2>3. ASSUME NEW u \in Threads, thread'[u].pc \in Unnamed PROVE thread'[u].uri # uri
    <3>1. CASE u # t
      BY <2>2, <2>3, <3>1 DEF Owns, Others
    <3>2. CASE u = t
      BY <1>2, <2>2, <2>3, <3>2 DEF Owns
    <3> QED
      BY <3>1, <3>2
  <2> QED
    BY <2>2, <2>3 DEF Owns
<1> QED
  BY <1>1, <1>2 DEF BackupsAreOwned

\* Most steps stay or come away from where a name is taken back.
LEMMA NothingUnnamed ==
    ASSUME TypeOK, BackupsAreOwned, NEW t \in Threads, Others(t), UNCHANGED <<conf, backup>>,
           failed \subseteq failed', thread'[t].pc \notin Unnamed \cup {"rmBackup", "backup"}
    PROVE  BackupsAreOwned'
<1>1. SlotIsNamed(thread[t])'
  BY DEF SlotIsNamed
<1> QED
  BY <1>1, OtherwiseOwned

\* What begins, looks, loops, fails or works on files and rows.
LEMMA OtherStepsOwned ==
    ASSUME TypeOK, BackupsAreOwned, NEW t \in Threads,
           \/ Begins(t) \/ Finds(t) \/ Reads(t) \/ Takes(t) \/ Leaves(t)
           \/ WriteFile(t) \/ InsertRow(t) \/ WriteFails(t) \/ BackupFails(t) \/ UndoInstall(t)
           \/ SetUpdateFlag(t) \/ DeleteRow(t) \/ RemoveFile(t)
    PROVE  BackupsAreOwned'
<1>1. CASE Begins(t) \/ Finds(t) \/ Reads(t) \/ Takes(t) \/ Leaves(t)
  <2>1. Others(t) /\ UNCHANGED <<conf, backup>> /\ failed \subseteq failed'
    BY <1>1 DEF Begins, Finds, Reads, Takes, Leaves, Goes, stores, Faulted
  <2>2. thread'[t].pc \notin Unnamed \cup {"rmBackup", "backup"}
    BY <1>1 DEF Begins, Finds, Reads, Takes, Leaves, Unnamed
  <2> QED
    BY <2>1, <2>2, NothingUnnamed
<1>2. CASE WriteFile(t) \/ InsertRow(t)
  <2>1. Others(t) /\ thread'[t].pc \in {"row", "load"}
    BY <1>2, WriteGoes DEF Moved, Goes
  <2>2. UNCHANGED <<conf, backup, failed>>
    BY <1>2 DEF WriteFile, InsertRow
  <2> QED
    BY <2>1, <2>2, NothingUnnamed DEF Unnamed
<1>3. CASE BackupFails(t)
  <2>1. Others(t) /\ thread'[t].pc \in {"undo", "idle", "next"}
    BY <1>3, BackupFailedGoes DEF BackupFails, Writing, Writers, Moved, Ended, Goes
  <2>2. UNCHANGED <<conf, backup>> /\ failed \subseteq failed'
    BY <1>3, FaultIsKept DEF BackupFails, stores, Faulted
  <2> QED
    BY <2>1, <2>2, NothingUnnamed DEF Unnamed
<1>4. CASE WriteFails(t) \/ UndoInstall(t) \/ SetUpdateFlag(t)
  <2>1. PICK ret \in {"ok", "fail"} : Finish(t, ret)
    BY <1>4 DEF WriteFails, SetUpdateFlag, UndoInstall
  <2>2. Others(t) /\ thread'[t].pc = "idle"
    BY <1>4, <2>1, StopGoes DEF WriteFails, SetUpdateFlag, UndoInstall, At, Goes, Ended
  <2>3. UNCHANGED <<conf, backup>> /\ failed \subseteq failed'
    BY <1>4, FaultIsKept DEF WriteFails, UndoInstall, SetUpdateFlag, stores, Faulted
  <2> QED
    BY <2>2, <2>3, NothingUnnamed DEF Unnamed
<1>5. CASE DeleteRow(t) \/ RemoveFile(t)
  <2>1. /\ UNCHANGED <<conf, backup>> /\ failed \subseteq failed'
        /\ thread[t].pc \in {"delRow", "rmFile"}
    BY <1>5, FaultIsKept DEF DeleteRow, RemoveFile, Faulted, At
  <2>2. CASE GiveUp(t)
    <3>1. Others(t) /\ thread'[t].pc \in {"idle", "next"}
      BY <2>1, <2>2, GiveUpGoes DEF Goes, Ended, Moved
    <3> QED
      BY <2>1, <3>1, NothingUnnamed DEF Unnamed
  <2>3. CASE ~GiveUp(t)
    <3>1. PICK pc \in {"rmFile", "delRow", "load", "next"} :
             /\ Advance(t, pc)
             /\ \/ At(t, "delRow") /\ pc = IF thread[t].op = "uninstall" THEN "rmFile" ELSE "next"
                \/ At(t, "rmFile") /\ pc = IF thread[t].op = "event" THEN "delRow" ELSE "load"
      BY <1>5, <2>3 DEF DeleteRow, RemoveFile
    <3>2. Others(t) /\ thread'[t].pc = pc
      BY <3>1, RemovalGoes DEF Goes, Moved
    <3> QED
      BY <2>1, <3>2, NothingUnnamed DEF Unnamed
  <2> QED
    BY <2>2, <2>3
<1> QED
  BY <1>1, <1>2, <1>3, <1>4, <1>5

\* Choosing a number, and reading what the config names.
LEMMA ChooseAndLoadOwned ==
    ASSUME TypeOK, BackupsAreOwned, NEW t \in Threads, Chooses(t) \/ Loads(t)
    PROVE  BackupsAreOwned'
<1>1. Others(t) /\ UNCHANGED <<conf, backup>> /\ failed \subseteq failed'
  BY DEF Chooses, Loads, Goes, stores, Faulted
<1>2. CASE Chooses(t) /\ BackupFailed(t)
  <2>1. thread'[t].pc \in {"undo", "idle", "next"}
    BY <1>2, BackupFailedGoes DEF Chooses, At, Writing, Writers, Moved, Ended
  <2> QED
    BY <1>1, <2>1, NothingUnnamed DEF Unnamed
<1>3. CASE At(t, "number") /\ thread'[t].pc = "conf" /\ thread'[t].uri = thread[t].uri
  <2>1. SlotIsNamed(thread[t])' /\ thread[t].pc \in Unnamed
    BY <1>3 DEF SlotIsNamed, Unnamed, At
  <2> QED
    BY <1>1, <1>3, <2>1, OtherwiseOwned
<1>4. CASE Loads(t) /\ Faulted({"load"}) /\ AfterRemoval(t, "fail")
  <2>1. ~RemovalsWork'
    BY <1>4 DEF Faulted, RemovalsWork
  <2>2. thread'[t].pc \in {"number", "idle", "delRow", "next"}
    <3>1. thread[t].op \in Writers \cup {"uninstall", "disable", "removeAll", "eventConf"}
      BY <1>4, RequestIsRequest DEF Loads, At, Flow, Removing
    <3> QED
      BY <1>4, <3>1, AfterRemovalGoes DEF Loads, At, Moved, Ended, Removing
  <2>3. SlotIsNamed(thread[t])'
    BY <2>2 DEF SlotIsNamed
  <2> QED
    BY <1>1, <2>1, <2>3, OtherwiseOwned
<1>5. CASE /\ Loads(t) /\ thread'[t].slot = conf[thread'[t].uri]
           /\ thread'[t].pc = IF thread'[t].slot = None THEN "rmConf" ELSE "rmBackup"
  <2>1. SlotIsNamed(thread[t])'
    BY <1>1, <1>5 DEF SlotIsNamed
  <2>2. ASSUME thread'[t].pc \in Unnamed, NEW slot \in Slots PROVE conf[thread'[t].uri] # slot
    BY <1>5, <2>2, UserCaAssumption DEF Unnamed
  <2> QED
    BY <1>1, <2>1, <2>2, OtherwiseOwned
<1> QED
  BY <1>2, <1>3, <1>4, <1>5 DEF Chooses, Loads

\* The config names the backup before it is written.
LEMMA WriteOwned ==
    ASSUME TypeOK, BackupsAreOwned, Apart, NEW t \in Threads, WriteConf(t) \/ WriteBackup(t)
    PROVE  BackupsAreOwned'
<1> DEFINE mine == thread[t].uri
           slot == thread[t].slot
<1>1. mine \in Uris /\ slot \in Slots /\ thread[t].pc \in {"conf", "backup"} /\ UNCHANGED failed
  BY RequestIsRequest DEF WriteConf, WriteBackup, At, Knows
<1>2. \A u \in Threads \ {t} : thread[u].pc \in Removing \cup Writing => thread[u].uri # mine
  BY <1>1 DEF Apart, Writing
<1>3. CASE WriteConf(t)
  <2>1. /\ thread'[t].pc = "backup" /\ thread'[t].uri = mine /\ thread'[t].slot = slot
        /\ Others(t) /\ thread[t].pc = "conf"
    BY <1>3, WriteGoes DEF Moved, Goes, WriteConf, At
  <2>2. /\ conf'[mine] = slot /\ UNCHANGED backup
        /\ \A other \in Uris \ {mine} : conf'[other] = conf[other]
    BY <1>1, <1>3 DEF WriteConf, TypeOK, StoresOK
  <2>3. ASSUME NEW u \in Threads PROVE SlotIsNamed(thread[u])'
    <3>1. CASE u = t
      BY <2>1, <2>2, <3>1 DEF SlotIsNamed
    <3>2. CASE u # t
      <4>1. thread'[u] = thread[u] /\ SlotIsNamed(thread[u])
        BY <2>1, <3>2 DEF Others, BackupsAreOwned
      <4>2. thread[u].pc \in {"rmBackup", "backup"} => thread[u].uri \in Uris \ {mine}
        BY <1>2, <3>2, RequestIsRequest DEF At, Knows, Removing, Writing
      <4> QED
        BY <2>2, <4>1, <4>2 DEF SlotIsNamed
    <3> QED
      BY <3>1, <3>2
  <2>4. ASSUME RemovalsWork', NEW other \in Slots, backup'[other] # None
        PROVE  \E uri \in Uris : Owns(uri, other)'
    <3>1. PICK uri \in Uris : Owns(uri, other)
      BY <1>1, <2>2, <2>4 DEF BackupsAreOwned, RemovalsWork
    <3>2. uri # mine
      BY <2>1, <3>1 DEF Owns, Unnamed
    <3>3. ASSUME NEW u \in Threads, thread'[u].pc \in Unnamed PROVE thread'[u].uri # uri
      BY <2>1, <3>1, <3>3 DEF Owns, Others, Unnamed
    <3> QED
      BY <2>2, <3>1, <3>2, <3>3 DEF Owns
  <2> QED
    BY <2>3, <2>4 DEF BackupsAreOwned
<1>4. CASE WriteBackup(t)
  <2>1. /\ thread[t].pc = "backup" /\ Others(t) /\ thread'[t].pc \in {"find", "next", "idle"}
        /\ slot = conf[mine]
    BY <1>4, WriteBacksUp DEF BacksUp, Goes, At, BackupsAreOwned, SlotIsNamed
  <2>2. UNCHANGED conf /\ \A other \in Slots \ {slot} : backup'[other] = backup[other]
    BY <1>1, <1>4 DEF WriteBackup, TypeOK, StoresOK
  <2>3. \A u \in Threads : SlotIsNamed(thread[u])'
    BY <2>1, <2>2 DEF BackupsAreOwned, SlotIsNamed, Others
  <2>4. ASSUME RemovalsWork', NEW other \in Slots, backup'[other] # None
        PROVE  \E uri \in Uris : Owns(uri, other)'
    <3>1. \A u \in Threads : thread'[u].pc \in Unnamed => thread'[u] = thread[u] /\ u # t
      BY <2>1 DEF Others, Unnamed
    <3>2. CASE other = slot
      <4>1. \A u \in Threads : thread'[u].pc \in Unnamed => thread'[u].uri # mine
        BY <1>2, <3>1 DEF Unnamed, Removing, Writing
      <4> QED
        BY <1>1, <2>1, <2>2, <3>2, <4>1 DEF Owns
    <3>3. CASE other # slot
      <4>1. PICK uri \in Uris : Owns(uri, other)
        BY <1>1, <2>2, <2>4, <3>3 DEF BackupsAreOwned, RemovalsWork
      <4> QED
        BY <2>2, <3>1, <4>1 DEF Owns
    <3> QED
      BY <3>2, <3>3
  <2> QED
    BY <2>3, <2>4 DEF BackupsAreOwned
<1> QED
  BY <1>3, <1>4

\* The config names the backup until it is gone.
LEMMA RemoveOwned ==
    ASSUME TypeOK, BackupsAreOwned, Apart, NEW t \in Threads, RemoveBackup(t) \/ RemoveConf(t)
    PROVE  BackupsAreOwned'
<1> DEFINE mine == thread[t].uri
           slot == thread[t].slot
<1>1. /\ mine \in Uris /\ thread[t].pc \in {"rmBackup", "rmConf"}
      /\ thread[t].op \in Writers \cup {"uninstall", "disable", "removeAll", "eventConf"}
  BY RequestIsRequest DEF RemoveBackup, RemoveConf, At, Knows, Flow, Removing
<1>2. \A u \in Threads \ {t} : thread[u].pc \in Removing \cup Writing => thread[u].uri # mine
  BY <1>1 DEF Apart, Removing
<1>3. ASSUME NEW ret \in {"ok", "fail"}, AfterRemoval(t, ret)
      PROVE  /\ Others(t) /\ thread'[t].pc \in {"number", "idle", "delRow", "next"}
             /\ thread'[t].uri = mine
  BY <1>1, <1>3, AfterRemovalGoes DEF Goes, Moved, Ended, Removing
<1>4. CASE RemoveBackup(t)
  <2>1. thread[t].pc = "rmBackup" /\ slot \in Slots /\ slot = conf[mine] /\ UNCHANGED conf
    BY <1>4, RequestIsRequest DEF RemoveBackup, At, Knows, BackupsAreOwned, SlotIsNamed
  <2>2. CASE Advance(t, "rmConf") /\ backup' = [backup EXCEPT ![slot] = None] /\ UNCHANGED failed
    <3>1. Others(t) /\ thread'[t].pc = "rmConf" /\ thread'[t].uri = mine
      BY <2>1, <2>2, RemovalGoes DEF At, Goes, Moved
    <3>2. backup'[slot] = None /\ \A other \in Slots \ {slot} : backup'[other] = backup[other]
      BY <2>1, <2>2 DEF TypeOK, StoresOK
    <3>3. \A u \in Threads : SlotIsNamed(thread[u])'
      BY <2>1, <3>1 DEF BackupsAreOwned, SlotIsNamed, Others
    <3>4. ASSUME RemovalsWork', NEW other \in Slots, backup'[other] # None
          PROVE  \E uri \in Uris : Owns(uri, other)'
      <4>1. other # slot
        BY <3>2, <3>4
      <4>2. PICK uri \in Uris : Owns(uri, other)
        BY <2>2, <3>2, <3>4, <4>1 DEF BackupsAreOwned, RemovalsWork
      <4>3. uri # mine
        BY <2>1, <4>1, <4>2 DEF Owns
      <4>4. ASSUME NEW u \in Threads, thread'[u].pc \in Unnamed PROVE thread'[u].uri # uri
        BY <3>1, <4>2, <4>3, <4>4 DEF Owns, Others
      <4> QED
        BY <2>1, <4>2, <4>4 DEF Owns
    <3> QED
      BY <3>3, <3>4 DEF BackupsAreOwned
  <2>3. CASE /\ IF backup[slot] = None THEN UNCHANGED failed ELSE Fault("unlink")
             /\ AfterRemoval(t, "fail") /\ UNCHANGED backup
    <3>1. failed \subseteq failed' /\ (RemovalsWork' => backup[slot] = None)
      BY <2>3, FaultIsKept DEF Faulted, RemovalsWork
    <3>2. /\ Others(t) /\ thread'[t].pc \in {"number", "idle", "delRow", "next"}
          /\ thread'[t].uri = mine
      BY <1>3, <2>3
    <3>3. SlotIsNamed(thread[t])'
      BY <3>2 DEF SlotIsNamed
    <3> QED
      BY <2>1, <2>3, <3>1, <3>2, <3>3, OtherwiseOwned
  <2> QED
    BY <1>4, <2>2, <2>3 DEF RemoveBackup
<1>5. CASE RemoveConf(t)
  <2>1. thread[t].pc = "rmConf" /\ UNCHANGED backup
    BY <1>5 DEF RemoveConf, At
  <2>2. /\ \A other \in Uris \ {mine} : conf'[other] = conf[other]
        /\ failed \subseteq failed'
    BY <1>1, <1>5, FaultIsKept DEF RemoveConf, TypeOK, StoresOK, Faulted
  <2>3. PICK ret \in {"ok", "fail"} : AfterRemoval(t, ret)
    BY <1>5 DEF RemoveConf
  <2>4. /\ Others(t) /\ thread'[t].pc \in {"number", "idle", "delRow", "next"}
        /\ thread'[t].uri = mine
    BY <1>3, <2>3
  <2>5. ASSUME NEW u \in Threads PROVE SlotIsNamed(thread[u])'
    <3>1. CASE u = t
      BY <2>4, <3>1 DEF SlotIsNamed
    <3>2. CASE u # t
      <4>1. thread'[u] = thread[u] /\ SlotIsNamed(thread[u])
        BY <2>4, <3>2 DEF Others, BackupsAreOwned
      <4>2. thread[u].pc \in {"rmBackup", "backup"} => thread[u].uri \in Uris \ {mine}
        BY <1>2, <3>2, RequestIsRequest DEF At, Knows, Removing, Writing
      <4> QED
        BY <2>2, <4>1, <4>2 DEF SlotIsNamed
    <3> QED
      BY <3>1, <3>2
  <2>6. ASSUME RemovalsWork', NEW other \in Slots, backup'[other] # None
        PROVE  \E uri \in Uris : Owns(uri, other)'
    <3>1. PICK uri \in Uris : Owns(uri, other)
      BY <2>1, <2>2, <2>6 DEF BackupsAreOwned, RemovalsWork
    <3>2. uri # mine
      BY <2>1, <3>1 DEF Owns, Unnamed
    <3>3. ASSUME NEW u \in Threads, thread'[u].pc \in Unnamed PROVE thread'[u].uri # uri
      BY <2>4, <3>1, <3>2, <3>3 DEF Owns, Others
    <3> QED
      BY <2>2, <3>1, <3>2, <3>3 DEF Owns
  <2> QED
    BY <2>5, <2>6 DEF BackupsAreOwned
<1> QED
  BY <1>4, <1>5

\* Every step leaves each backup with an owner.
LEMMA NextOwned ==
    ASSUME TypeOK, BackupsAreOwned, Apart, [Next]_vars
    PROVE  BackupsAreOwned'
<1>1. ASSUME NEW t \in Threads, Step(t) PROVE BackupsAreOwned'
  <2>1. CASE StartBegin(t) /\ ~Begins(t)
    <3>1. UNCHANGED <<stores, thread, failed>>
      BY <2>1, StartBegins
    <3> QED
      BY <3>1 DEF stores, BackupsAreOwned, RemovalsWork, SlotIsNamed, Owns
  <2>2. CASE InstallBegin(t) \/ UninstallBegin(t) \/ EnableBegin(t) \/ DisableBegin(t)
             \/ RemoveAllBegin(t) \/ StartBegin(t)
    BY <2>1, <2>2, InstallBegins, OneBegins, RemovalBegins, OtherStepsOwned
  <2>3. CASE FindDuplicate(t) \/ ReadCert(t) \/ NextUri(t) \/ LoopEnds(t)
    BY <2>3, FindFinds, ReadReads, NextTakes, LoopLeaves, OtherStepsOwned
  <2>4. CASE ChooseNumber(t) \/ LoadConf(t)
    BY <2>4, ChooseChooses, LoadLoads, ChooseAndLoadOwned
  <2> QED
    BY <1>1, <2>2, <2>3, <2>4, OtherStepsOwned, WriteOwned, RemoveOwned DEF Step
<1>2. CASE Restart
  <2>1. UNCHANGED <<conf, backup, failed>> /\ \A t \in Threads : thread'[t].pc = "idle"
    BY <1>2 DEF Restart, stores, Idle
  <2> QED
    BY <2>1 DEF BackupsAreOwned, RemovalsWork, SlotIsNamed, Owns, Unnamed
<1>3. CASE UNCHANGED vars
  BY <1>3 DEF vars, BackupsAreOwned, RemovalsWork, SlotIsNamed, Owns
<1> QED
  BY <1>1, <1>2, <1>3 DEF Next

\* No trusted certificate is out of reach of disabling and uninstalling, over
\* half-finished installs and deaths of the service, whatever other requests do to other
\* certificates meanwhile, as long as files that are there can be removed and configs read.
THEOREM BackupsStayNamed == Spec /\ []Apart => []BackupsAreNamed
<1>1. Init => BackupsAreOwned
  <2> SUFFICES ASSUME Init PROVE BackupsAreOwned
    OBVIOUS
  <2>1. \A t \in Threads : thread[t].pc = "idle"
    BY InitOK
  <2> QED
    BY <2>1 DEF Init, BackupsAreOwned, SlotIsNamed
<1>2. TypeOK /\ BackupsAreOwned /\ Apart /\ [Next]_vars => BackupsAreOwned'
  BY NextOwned
<1>3. TypeOK /\ BackupsAreOwned => BackupsAreNamed
  BY UserCaAssumption DEF BackupsAreOwned, BackupsAreNamed, Owns, Configured
<1> QED
  BY <1>1, <1>2, <1>3, TypesAreKept, PTL DEF Spec

-----------------------------------------------------------------------------
(* One request at a time: uninstalls, the removal of the user              *)

\* No store has a lock, and requests that overlap undo each other's work.
OneAtATime == \E t : Threads = {t}

\* The config names a backup that exists.
Held(uri) == conf[uri] # None /\ backup[conf[uri]] # None

SlotKept(r) ==
    /\ r.pc = "rmBackup" => r.slot = conf[r.uri]
    /\ RemovalsWork /\ r.pc \in {"rmConf", "number", "conf"} => ~Held(r.uri)
    /\ r.pc = "backup" => r.slot = conf[r.uri]
    /\ r.pc \in {"conf", "backup"} => backup[r.slot] = None

\* What the removal of the user has still to do.
FilesGo(r) ==
    RemovalsWork /\ r.op = "event" =>
        \A uri \in Installed : uri \in r.todo \/ (r.pc = "rmFile" /\ uri = r.uri)

\* An application with too many configs is left alone.
Skipped(r, uid) ==
    /\ ~Fits(uid)
    /\ r.pc # "idle" => \A uri \in r.todo : uri[1] # uid
    /\ r.pc \in Removing => r.uri[1] # uid

BackupsGo(r) ==
    RemovalsWork /\ r.op = "eventConf" =>
        /\ Installed = {}
        /\ \A uri \in Uris : Held(uri) =>
              \/ /\ r.pc # "idle"
                 /\ uri \in r.todo \/ (r.pc \in {"load", "rmBackup"} /\ uri = r.uri)
              \/ Skipped(r, uri[1])

LEMMA FitsStays == UNCHANGED conf => \A uid : Fits(uid)' = Fits(uid)
<1> SUFFICES ASSUME UNCHANGED conf, NEW uid PROVE Fits(uid)' = Fits(uid)
  OBVIOUS
<1>1. Configured' = Configured
  BY DEF Configured
<1>2. ConfigsOf(uid)' = ConfigsOf(uid)
  BY <1>1 DEF ConfigsOf
<1> QED
  BY <1>2 DEF Fits

\* What an uninstall has already done.
UninstallGoes(r) ==
    r.op = "uninstall" =>
        /\ r.pc \in Removing \cup {"rmFile"} \/ (r.pc = "idle" /\ r.ret = "ok") => r.uri \notin rows
        /\ r.pc \in Removing \/ (r.pc = "idle" /\ r.ret = "ok") => r.uri \notin Installed
        /\ r.pc = "idle" /\ r.ret = "ok" => r.uri \notin Configured

Safe(r) == SlotKept(r) /\ FilesGo(r) /\ BackupsGo(r) /\ UninstallGoes(r)

SafeInv == TypeOK /\ BackupsAreNamed /\ \A t \in Threads : Safe(thread[t])

\* A step that changes no store and comes to a place that promises little.
LEMMA QuietIsSafe ==
    ASSUME SafeInv, NEW t \in Threads, UNCHANGED <<files, rows, conf, backup>>,
           failed \subseteq failed',
           thread'[t].pc \notin Removing \cup Writing,
           thread'[t].op \notin {"event", "eventConf"},
           thread'[t].op = "uninstall" =>
               thread'[t].pc = "delRow" \/ (thread'[t].pc = "idle" /\ thread'[t].ret = "fail")
    PROVE  BackupsAreNamed' /\ Safe(thread[t])'
<1>1. BackupsAreNamed'
  BY DEF SafeInv, BackupsAreNamed, RemovalsWork, Configured
<1>2. SlotKept(thread[t])' /\ FilesGo(thread[t])' /\ BackupsGo(thread[t])'
  BY DEF SlotKept, FilesGo, BackupsGo, Removing, Writing
<1>3. UninstallGoes(thread[t])'
  BY DEF UninstallGoes, Removing
<1> QED
  BY <1>1, <1>2, <1>3 DEF Safe

LEMMA BeginIsSafe ==
    ASSUME SafeInv, NEW t \in Threads, Begins(t)
    PROVE  BackupsAreNamed' /\ Safe(thread[t])'
<1>1. /\ UNCHANGED <<files, rows, conf, backup>> /\ failed \subseteq failed'
      /\ thread'[t].pc \in {"find", "delRow", "read", "load", "next"}
      /\ thread'[t].op # "eventConf"
      /\ thread'[t].op = "event" => thread'[t].todo = Installed
      /\ thread'[t].op = "uninstall" => thread'[t].pc = "delRow"
  BY DEF Begins
<1>2. BackupsAreNamed'
  BY <1>1 DEF SafeInv, BackupsAreNamed, RemovalsWork, Configured
<1>3. SlotKept(thread[t])' /\ BackupsGo(thread[t])'
  BY <1>1 DEF SlotKept, BackupsGo
<1>4. FilesGo(thread[t])'
  BY <1>1 DEF FilesGo, Installed
<1>5. UninstallGoes(thread[t])'
  BY <1>1 DEF UninstallGoes, Removing
<1> QED
  BY <1>2, <1>3, <1>4, <1>5 DEF Safe

\* Finding, reading and choosing write nothing.
LEMMA LookIsSafe ==
    ASSUME SafeInv, NEW t \in Threads, Finds(t) \/ Reads(t) \/ Chooses(t)
    PROVE  BackupsAreNamed' /\ Safe(thread[t])'
<1>1. TypeOK /\ Safe(thread[t])
  BY DEF SafeInv
<1>2. UNCHANGED <<files, rows, conf, backup>> /\ failed \subseteq failed'
  BY DEF Finds, Reads, Chooses, stores, Faulted
<1>3. BackupsAreNamed'
  BY <1>1, <1>2 DEF SafeInv, BackupsAreNamed, RemovalsWork, Configured
<1>4. CASE Finds(t)
  BY <1>2, <1>4, QuietIsSafe DEF Finds, Removing, Writing
<1>5. CASE Reads(t)
  <2>1. thread[t].op \in {"enable", "start"}
    BY <1>1, <1>5, RequestIsRequest DEF Reads, At, Flow
  <2> QED
    BY <1>2, <1>3, <1>5, <2>1 DEF Reads, Safe, SlotKept, FilesGo, BackupsGo, UninstallGoes
<1>6. CASE Chooses(t) /\ BackupFailed(t)
  <2>1. thread'[t].pc \in {"undo", "idle", "next"} /\ thread'[t].op \in Writers
    BY <1>1, <1>6, BackupFailedGoes DEF Chooses, At, Writing, Writers, Moved, Ended
  <2> QED
    BY <1>2, <2>1, QuietIsSafe DEF Removing, Writing, Writers
<1>7. CASE /\ At(t, "number") /\ thread'[t].pc = "conf" /\ backup[thread'[t].slot] = None
           /\ thread'[t].op = thread[t].op /\ thread'[t].uri = thread[t].uri
  <2>1. thread[t].op \in Writers
    BY <1>1, <1>7, RequestIsRequest DEF At, Flow, Writing
  <2>2. SlotKept(thread[t])'
    BY <1>1, <1>2, <1>7 DEF Safe, SlotKept, Held, RemovalsWork, At
  <2>3. FilesGo(thread[t])' /\ BackupsGo(thread[t])' /\ UninstallGoes(thread[t])'
    BY <1>7, <2>1 DEF FilesGo, BackupsGo, UninstallGoes, Writers
  <2> QED
    BY <1>3, <2>2, <2>3 DEF Safe
<1> QED
  BY <1>4, <1>5, <1>6, <1>7 DEF Chooses

LEMMA LoadIsSafe ==
    ASSUME SafeInv, NEW t \in Threads, Loads(t)
    PROVE  BackupsAreNamed' /\ Safe(thread[t])'
<1>1. TypeOK /\ Safe(thread[t]) /\ thread[t].pc = "load"
  BY DEF SafeInv, Loads, At
<1>2. UNCHANGED <<files, rows, conf, backup>> /\ failed \subseteq failed'
  BY DEF Loads, stores, Faulted
<1>3. BackupsAreNamed'
  BY <1>1, <1>2 DEF SafeInv, BackupsAreNamed, RemovalsWork, Configured
<1>4. CASE Faulted({"load"}) /\ AfterRemoval(t, "fail")
  <2>1. ~RemovalsWork'
    BY <1>4 DEF Faulted, RemovalsWork
  <2>2. /\ thread'[t].pc \in {"number", "idle", "delRow", "next"}
        /\ thread'[t].op = "uninstall" => thread'[t].pc = "idle" /\ thread'[t].ret = "fail"
    <3>1. thread[t].op \in Writers \cup {"uninstall", "disable", "removeAll", "eventConf"}
      BY <1>1, RequestIsRequest DEF At, Flow, Removing
    <3> QED
      BY <1>1, <1>4, <3>1, AfterRemovalGoes DEF Moved, Ended, Removing, Writers
  <2>3. SlotKept(thread[t])' /\ FilesGo(thread[t])' /\ BackupsGo(thread[t])'
    BY <2>1, <2>2 DEF SlotKept, FilesGo, BackupsGo
  <2>4. UninstallGoes(thread[t])'
    BY <2>2 DEF UninstallGoes, Removing
  <2> QED
    BY <1>3, <2>3, <2>4 DEF Safe
<1>5. CASE /\ UNCHANGED failed
           /\ thread'[t].op = thread[t].op /\ thread'[t].uri = thread[t].uri
           /\ thread'[t].todo = thread[t].todo
           /\ thread'[t].slot = conf[thread'[t].uri]
           /\ thread'[t].pc = IF thread'[t].slot = None THEN "rmConf" ELSE "rmBackup"
  <2>1. thread[t].op # "event"
    BY <1>1, RequestIsRequest DEF At, Flow, Removing, Writers
  <2>2. SlotKept(thread[t])'
    BY <1>2, <1>5 DEF SlotKept, Held
  <2>3. FilesGo(thread[t])'
    BY <1>5, <2>1 DEF FilesGo
  <2>4. BackupsGo(thread[t])'
    BY <1>1, <1>2, <1>5, FitsStays
       DEF Safe, BackupsGo, Skipped, Removing, Held, Installed, RemovalsWork
  <2>5. UninstallGoes(thread[t])'
    BY <1>1, <1>2, <1>5 DEF Safe, UninstallGoes, Installed, Removing
  <2> QED
    BY <1>3, <2>2, <2>3, <2>4, <2>5 DEF Safe
<1> QED
  BY <1>4, <1>5 DEF Loads

\* Loops, that take a certificate or come to their end.
LEMMA LoopIsSafe ==
    ASSUME SafeInv, NEW t \in Threads, Takes(t) \/ Leaves(t)
    PROVE  BackupsAreNamed' /\ Safe(thread[t])'
<1>1. TypeOK /\ Safe(thread[t]) /\ thread[t].pc = "next"
  BY DEF SafeInv, Takes, Leaves, At
<1>2. UNCHANGED <<files, rows, conf, backup, failed>>
  BY DEF Takes, Leaves, stores
<1>3. BackupsAreNamed'
  BY <1>1, <1>2 DEF SafeInv, BackupsAreNamed, RemovalsWork, Configured
<1>4. SlotKept(thread[t])' /\ UninstallGoes(thread[t])'
  BY DEF Takes, Leaves, SlotKept, UninstallGoes
<1>5. FilesGo(thread[t])'
  BY <1>1, <1>2 DEF Takes, Leaves, Safe, FilesGo, Installed, RemovalsWork
<1>6. BackupsGo(thread[t])'
  <2>1. CASE Takes(t)
    BY <1>1, <1>2, <2>1, FitsStays
       DEF Takes, Safe, BackupsGo, Skipped, Removing, Held, Installed, RemovalsWork
  <2>2. CASE Leaves(t) /\ thread[t].op = "event"
    <3>1. RemovalsWork => Installed = {}
      BY <1>1, <2>2 DEF Leaves, Safe, FilesGo
    <3>2. /\ thread'[t].todo = Listable /\ thread'[t].pc = "next"
      BY <2>2 DEF Leaves
    <3>3. \A uri \in Uris : Held(uri)' => uri \in Configured
      BY <1>2 DEF Held, Configured
    <3>4. \A uri \in Configured \ Listable : Skipped(thread[t], uri[1])'
      BY <1>2, <3>2, FitsStays DEF Skipped, Listable, Removing
    <3> QED
      BY <1>2, <3>1, <3>2, <3>3, <3>4 DEF BackupsGo, Installed, RemovalsWork
  <2>3. CASE Leaves(t) /\ thread[t].op # "event"
    BY <1>1, <1>2, <2>3, FitsStays
       DEF Leaves, Safe, BackupsGo, Skipped, Removing, Held, Installed, RemovalsWork
  <2> QED
    BY <2>1, <2>2, <2>3
<1> QED
  BY <1>3, <1>4, <1>5, <1>6 DEF Safe

\* Writing file, row, config and backup.
LEMMA WriteIsSafe ==
    ASSUME SafeInv, NEW t \in Threads,
           WriteFile(t) \/ InsertRow(t) \/ WriteConf(t) \/ WriteBackup(t)
    PROVE  BackupsAreNamed' /\ Safe(thread[t])'
<1>1. TypeOK /\ Safe(thread[t]) /\ UNCHANGED failed
  BY DEF SafeInv, WriteFile, InsertRow, WriteConf, WriteBackup
<1>2. CASE WriteFile(t) \/ InsertRow(t)
  <2>1. /\ UNCHANGED <<conf, backup>> /\ thread'[t].pc \in {"row", "load"}
        /\ thread'[t].op = "install"
    BY <1>1, <1>2, WriteGoes DEF WriteFile, InsertRow, Moved
  <2>2. BackupsAreNamed'
    BY <1>1, <2>1 DEF SafeInv, BackupsAreNamed, RemovalsWork, Configured
  <2> QED
    BY <2>1, <2>2 DEF Safe, SlotKept, FilesGo, BackupsGo, UninstallGoes
<1>3. CASE WriteConf(t)
  <2> DEFINE uri == thread[t].uri
             slot == thread[t].slot
  <2>1. /\ thread'[t].pc = "backup" /\ thread'[t].uri = uri /\ thread'[t].slot = slot
        /\ thread'[t].op \in Writers /\ thread[t].pc = "conf"
        /\ uri \in Uris /\ slot \in Slots
    BY <1>1, <1>3, WriteGoes, RequestIsRequest DEF Moved, WriteConf, At, Knows
  <2>2. /\ conf'[uri] = slot /\ backup[slot] = None /\ UNCHANGED backup
        /\ \A other \in Uris \ {uri} : conf'[other] = conf[other]
    BY <1>1, <1>3, <2>1 DEF WriteConf, TypeOK, StoresOK, Safe, SlotKept
  <2>3. BackupsAreNamed'
    <3>1. RemovalsWork => ~Held(uri)
      BY <1>1, <2>1 DEF Safe, SlotKept
    <3> QED
      BY <1>1, <2>1, <2>2, <3>1 DEF SafeInv, BackupsAreNamed, RemovalsWork, Configured, Held
  <2>4. SlotKept(thread[t])'
    BY <2>1, <2>2 DEF SlotKept
  <2>5. FilesGo(thread[t])' /\ BackupsGo(thread[t])' /\ UninstallGoes(thread[t])'
    BY <2>1 DEF FilesGo, BackupsGo, UninstallGoes, Writers
  <2> QED
    BY <2>3, <2>4, <2>5 DEF Safe
<1>4. CASE WriteBackup(t)
  <2> DEFINE uri == thread[t].uri
             slot == thread[t].slot
  <2>1. /\ thread[t].pc = "backup" /\ uri \in Uris /\ slot \in Slots /\ slot = conf[uri]
    BY <1>1, <1>4, RequestIsRequest DEF WriteBackup, At, Knows, Safe, SlotKept
  <2>2. /\ UNCHANGED conf /\ \A other \in Slots \ {slot} : backup'[other] = backup[other]
    BY <1>1, <1>4, <2>1 DEF WriteBackup, TypeOK, StoresOK
  <2>3. BackupsAreNamed'
    <3>1. uri \in Configured
      BY <2>1, UserCaAssumption DEF Configured
    <3> QED
      BY <1>1, <2>1, <2>2, <3>1 DEF SafeInv, BackupsAreNamed, RemovalsWork, Configured
  <2>4. thread'[t].pc \in {"find", "next", "idle"} /\ thread'[t].op \in Writers
    BY <1>1, <1>4, WriteBacksUp DEF BacksUp
  <2> QED
    BY <2>3, <2>4 DEF Safe, SlotKept, FilesGo, BackupsGo, UninstallGoes, Writers
<1> QED
  BY <1>2, <1>3, <1>4

\* Failing, or undoing an install, and the end of the migration.
LEMMA FailIsSafe ==
    ASSUME SafeInv, NEW t \in Threads,
           WriteFails(t) \/ BackupFails(t) \/ UndoInstall(t) \/ SetUpdateFlag(t)
    PROVE  BackupsAreNamed' /\ Safe(thread[t])'
<1>1. TypeOK /\ Safe(thread[t])
  BY DEF SafeInv
<1>2. failed \subseteq failed' /\ UNCHANGED <<conf, backup>>
  BY <1>1, FaultIsKept
     DEF WriteFails, BackupFails, UndoInstall, SetUpdateFlag, stores, Faulted
<1>3. BackupsAreNamed'
  BY <1>1, <1>2 DEF SafeInv, BackupsAreNamed, RemovalsWork, Configured
<1>4. thread'[t].pc \in {"undo", "idle", "next"} /\ thread'[t].op \in Writers
  <2>1. CASE BackupFails(t)
    BY <1>1, <2>1, BackupFailedGoes DEF BackupFails, Writing, Writers, Moved, Ended
  <2>2. CASE WriteFails(t) \/ UndoInstall(t) \/ SetUpdateFlag(t)
    <3>1. PICK ret \in {"ok", "fail"} : Finish(t, ret)
      BY <2>2 DEF WriteFails, SetUpdateFlag, UndoInstall
    <3>2. Ended(t, ret) /\ thread[t].op \in Writers
      BY <1>1, <2>2, <3>1, StopGoes DEF WriteFails, SetUpdateFlag, UndoInstall, At, Writers
    <3> QED
      BY <3>2 DEF Ended
  <2> QED
    BY <2>1, <2>2
<1> QED
  BY <1>3, <1>4 DEF Safe, SlotKept, FilesGo, BackupsGo, UninstallGoes, Writers

\* The backup is removed, or cannot be.
LEMMA RemoveBackupIsSafe ==
    ASSUME SafeInv, NEW t \in Threads, RemoveBackup(t)
    PROVE  BackupsAreNamed' /\ Safe(thread[t])'
<1> DEFINE uri == thread[t].uri
           slot == thread[t].slot
<1>1. /\ TypeOK /\ Safe(thread[t]) /\ thread[t].pc = "rmBackup"
      /\ uri \in Uris /\ slot \in Slots /\ slot = conf[uri]
      /\ thread[t].op \in Writers \cup {"uninstall", "disable", "removeAll", "eventConf"}
      /\ UNCHANGED <<files, rows, conf>>
  BY RequestIsRequest DEF SafeInv, RemoveBackup, At, Knows, Safe, SlotKept, Flow, Removing
<1>2. CASE Advance(t, "rmConf") /\ backup' = [backup EXCEPT ![slot] = None] /\ UNCHANGED failed
  <2>1. Moved(t, "rmConf")
    BY <1>1, <1>2, RemovalGoes DEF At
  <2>2. /\ thread'[t].pc = "rmConf" /\ thread'[t].uri = uri /\ thread'[t].op = thread[t].op
        /\ thread'[t].todo = thread[t].todo
    BY <2>1 DEF Moved
  <2>3. backup'[slot] = None /\ \A other \in Slots \ {slot} : backup'[other] = backup[other]
    BY <1>1, <1>2 DEF TypeOK, StoresOK
  <2>4. BackupsAreNamed'
    BY <1>1, <1>2, <2>3 DEF SafeInv, BackupsAreNamed, RemovalsWork, Configured
  <2>5. \A other \in Uris : Held(other)' => Held(other) /\ other # uri
    BY <1>1, <2>3 DEF Held, TypeOK, StoresOK
  <2>6. SlotKept(thread[t])'
    BY <1>1, <2>2, <2>5 DEF SlotKept
  <2>7. FilesGo(thread[t])' /\ UninstallGoes(thread[t])'
    BY <1>1, <2>2 DEF Safe, FilesGo, UninstallGoes, Installed, Removing, Writers
  <2>8. BackupsGo(thread[t])'
    BY <1>1, <1>2, <2>2, <2>5, FitsStays
       DEF Safe, BackupsGo, Skipped, Removing, Installed, RemovalsWork
  <2> QED
    BY <2>4, <2>6, <2>7, <2>8 DEF Safe
<1>3. CASE /\ IF backup[slot] = None THEN UNCHANGED failed ELSE Fault("unlink")
           /\ AfterRemoval(t, "fail") /\ UNCHANGED backup
  <2>1. failed \subseteq failed' /\ (RemovalsWork' => ~Held(uri))
    BY <1>1, <1>3, FaultIsKept DEF Faulted, RemovalsWork, Held
  <2>2. BackupsAreNamed'
    BY <1>1, <1>3, <2>1 DEF SafeInv, BackupsAreNamed, RemovalsWork, Configured
  <2>3. /\ thread'[t].pc \in {"number", "idle", "delRow", "next"}
        /\ thread'[t].uri = uri /\ thread'[t].op = thread[t].op
        /\ thread[t].op = "uninstall" => thread'[t].pc = "idle" /\ thread'[t].ret = "fail"
        /\ thread[t].op = "eventConf" => /\ thread'[t].pc = "next"
                                         /\ thread'[t].todo = thread[t].todo
    BY <1>1, <1>3, AfterRemovalGoes DEF Moved, Ended, Removing, Writers
  <2>4. SlotKept(thread[t])'
    BY <1>1, <1>3, <2>1, <2>3 DEF SlotKept, Held
  <2>5. FilesGo(thread[t])' /\ UninstallGoes(thread[t])'
    BY <1>1, <2>3 DEF FilesGo, UninstallGoes, Removing, Writers
  <2>6. BackupsGo(thread[t])'
    BY <1>1, <1>3, <2>1, <2>3, FitsStays
       DEF Safe, BackupsGo, Skipped, Removing, Held, Installed, RemovalsWork
  <2> QED
    BY <2>2, <2>4, <2>5, <2>6 DEF Safe
<1> QED
  BY <1>2, <1>3 DEF RemoveBackup

\* The config is removed, or cannot be.
LEMMA RemoveConfIsSafe ==
    ASSUME SafeInv, NEW t \in Threads, RemoveConf(t)
    PROVE  BackupsAreNamed' /\ Safe(thread[t])'
<1> DEFINE uri == thread[t].uri
<1>1. /\ TypeOK /\ Safe(thread[t]) /\ thread[t].pc = "rmConf" /\ uri \in Uris
      /\ thread[t].op \in Writers \cup {"uninstall", "disable", "removeAll", "eventConf"}
      /\ UNCHANGED <<files, rows, backup>>
  BY RequestIsRequest DEF SafeInv, RemoveConf, At, Knows, Flow, Removing
<1>2. RemovalsWork => ~Held(uri)
  BY <1>1 DEF Safe, SlotKept
<1>3. /\ conf'[uri] = None \/ (UNCHANGED conf /\ AfterRemoval(t, "fail"))
      /\ \A other \in Uris \ {uri} : conf'[other] = conf[other]
      /\ failed \subseteq failed'
  BY <1>1, FaultIsKept DEF RemoveConf, TypeOK, StoresOK, Faulted
<1>4. PICK ret \in {"ok", "fail"} :
         AfterRemoval(t, ret) /\ (ret = "ok" => conf'[uri] = None)
  BY <1>1, <1>3 DEF RemoveConf
<1>5. /\ thread'[t].pc \in {"number", "idle", "delRow", "next"}
      /\ thread'[t].uri = uri /\ thread'[t].op = thread[t].op
      /\ thread[t].op = "uninstall" => thread'[t].pc = "idle" /\ thread'[t].ret = ret
      /\ thread[t].op = "eventConf" => thread'[t].pc = "next" /\ thread'[t].todo = thread[t].todo
  BY <1>1, <1>4, AfterRemovalGoes DEF Moved, Ended, Removing, Writers
<1>6. \A other \in Uris : Held(other)' => Held(other)
  BY <1>1, <1>3 DEF Held
<1>7. BackupsAreNamed'
  BY <1>1, <1>2, <1>3 DEF SafeInv, BackupsAreNamed, RemovalsWork, Configured, Held
<1>8. SlotKept(thread[t])'
  BY <1>2, <1>3, <1>5, <1>6, <1>1 DEF SlotKept, RemovalsWork
<1>9. FilesGo(thread[t])'
  BY <1>1, <1>5 DEF FilesGo, Writers
<1>10. BackupsGo(thread[t])'
  <2>1. \A uid : uid # uri[1] => Fits(uid)' = Fits(uid)
    <3> SUFFICES ASSUME NEW uid, uid # uri[1] PROVE Fits(uid)' = Fits(uid)
      OBVIOUS
    <3>1. ConfigsOf(uid)' = ConfigsOf(uid)
      BY <1>3 DEF ConfigsOf, Configured
    <3> QED
      BY <3>1 DEF Fits
  <2>2. \A uid : Skipped(thread[t], uid) /\ thread[t].op = "eventConf" => Skipped(thread[t], uid)'
    BY <1>1, <1>5, <2>1 DEF Skipped, Removing
  <2> QED
    BY <1>1, <1>3, <1>5, <1>6, <2>2 DEF Safe, BackupsGo, Installed, RemovalsWork
<1>11. UninstallGoes(thread[t])'
  BY <1>1, <1>4, <1>5 DEF Safe, UninstallGoes, Installed, Configured, Removing
<1> QED
  BY <1>7, <1>8, <1>9, <1>10, <1>11 DEF Safe

\* Row and file are removed, or cannot be.
LEMMA RemoveFileIsSafe ==
    ASSUME SafeInv, NEW t \in Threads, DeleteRow(t) \/ RemoveFile(t)
    PROVE  BackupsAreNamed' /\ Safe(thread[t])'
<1> DEFINE uri == thread[t].uri
           op == thread[t].op
<1>1. /\ TypeOK /\ Safe(thread[t]) /\ uri \in Uris /\ op \in {"uninstall", "removeAll", "event"}
      /\ thread[t].pc \in {"delRow", "rmFile"} /\ UNCHANGED <<conf, backup>>
      /\ failed \subseteq failed'
  BY RequestIsRequest, FaultIsKept DEF SafeInv, DeleteRow, RemoveFile, At, Knows, Flow, Faulted
<1>2. BackupsAreNamed'
  BY <1>1 DEF SafeInv, BackupsAreNamed, RemovalsWork, Configured
<1>3. ASSUME thread'[t].pc \in {"delRow", "rmFile", "load", "next", "idle"}, thread'[t].op = op,
             FilesGo(thread[t])', UninstallGoes(thread[t])'
      PROVE  BackupsAreNamed' /\ Safe(thread[t])'
  BY <1>1, <1>2, <1>3 DEF Safe, SlotKept, BackupsGo
<1>4. CASE DeleteRow(t)
  <2>1. thread[t].pc = "delRow" /\ UNCHANGED files
    BY <1>4 DEF DeleteRow, At
  <2>2. CASE /\ rows' = rows \ {uri}
             /\ Advance(t, IF op = "uninstall" THEN "rmFile" ELSE "next") /\ UNCHANGED failed
    <3>1. /\ thread'[t].pc = IF op = "uninstall" THEN "rmFile" ELSE "next"
          /\ thread'[t].op = op /\ thread'[t].uri = uri /\ thread'[t].todo = thread[t].todo
      BY <1>1, <2>1, <2>2, RemovalGoes DEF At, Moved
    <3>2. FilesGo(thread[t])'
      BY <1>1, <2>1, <2>2, <3>1 DEF Safe, FilesGo, Installed, RemovalsWork
    <3>3. UninstallGoes(thread[t])'
      BY <2>2, <3>1 DEF UninstallGoes, Removing
    <3> QED
      BY <1>3, <3>1, <3>2, <3>3
  <2>3. CASE Fault("row") /\ GiveUp(t) /\ UNCHANGED rows
    <3>1. /\ thread'[t].op = op
          /\ op = "uninstall" => thread'[t].pc = "idle" /\ thread'[t].ret = "fail"
          /\ op # "uninstall" => thread'[t].pc = "next" /\ thread'[t].todo = thread[t].todo
      BY <1>1, <2>3, GiveUpGoes DEF Moved, Ended
    <3>2. FilesGo(thread[t])'
      BY <1>1, <2>1, <3>1 DEF Safe, FilesGo, Installed, RemovalsWork
    <3>3. UninstallGoes(thread[t])'
      BY <3>1 DEF UninstallGoes, Removing
    <3> QED
      BY <1>3, <3>1, <3>2, <3>3
  <2> QED
    BY <1>4, <2>2, <2>3 DEF DeleteRow
<1>5. CASE RemoveFile(t)
  <2>1. thread[t].pc = "rmFile" /\ UNCHANGED rows
    BY <1>5 DEF RemoveFile, At
  <2>2. CASE /\ files' = [files EXCEPT ![uri] = None]
             /\ Advance(t, IF op = "event" THEN "delRow" ELSE "load") /\ UNCHANGED failed
    <3>1. /\ thread'[t].pc = IF op = "event" THEN "delRow" ELSE "load"
          /\ thread'[t].op = op /\ thread'[t].uri = uri /\ thread'[t].todo = thread[t].todo
      BY <1>1, <2>1, <2>2, RemovalGoes DEF At, Moved
    <3>2. Installed' = Installed \ {uri}
      BY <1>1, <2>2 DEF Installed, TypeOK, StoresOK
    <3>3. FilesGo(thread[t])'
      BY <1>1, <2>1, <2>2, <3>1, <3>2 DEF Safe, FilesGo, RemovalsWork
    <3>4. UninstallGoes(thread[t])'
      BY <1>1, <2>1, <3>1, <3>2 DEF Safe, UninstallGoes, Removing
    <3> QED
      BY <1>3, <3>1, <3>3, <3>4
  <2>3. CASE /\ IF uri \in Installed THEN Fault("unlink") ELSE UNCHANGED failed
             /\ GiveUp(t) /\ UNCHANGED files
    <3>1. /\ thread'[t].op = op
          /\ op = "uninstall" => thread'[t].pc = "idle" /\ thread'[t].ret = "fail"
          /\ op # "uninstall" => thread'[t].pc = "next" /\ thread'[t].todo = thread[t].todo
      BY <1>1, <2>3, GiveUpGoes DEF Moved, Ended
    <3>2. RemovalsWork' => uri \notin Installed
      BY <1>1, <2>3, FaultIsKept DEF Faulted, RemovalsWork
    <3>3. FilesGo(thread[t])'
      BY <1>1, <2>1, <2>3, <3>1, <3>2 DEF Safe, FilesGo, Installed, RemovalsWork
    <3>4. UninstallGoes(thread[t])'
      BY <3>1 DEF UninstallGoes, Removing
    <3> QED
      BY <1>3, <3>1, <3>3, <3>4
  <2> QED
    BY <1>5, <2>2, <2>3 DEF RemoveFile
<1> QED
  BY <1>4, <1>5

LEMMA StepIsSafe ==
    ASSUME OneAtATime, SafeInv, NEW t \in Threads, Step(t)
    PROVE  SafeInv'
<1>1. TypeOK /\ Safe(thread[t])
  BY DEF SafeInv
<1>2. BackupsAreNamed' /\ Safe(thread[t])'
  <2>1. CASE StartBegin(t) /\ ~Begins(t)
    <3>1. UNCHANGED <<stores, thread, failed>>
      BY <1>1, <2>1, StartBegins
    <3> QED
      BY <1>1, <3>1, FitsStays DEF SafeInv, stores, BackupsAreNamed, RemovalsWork, Configured,
         Safe, SlotKept, FilesGo, BackupsGo, Skipped, UninstallGoes, Held, Installed
  <2>2. CASE InstallBegin(t) \/ UninstallBegin(t) \/ EnableBegin(t) \/ DisableBegin(t)
             \/ RemoveAllBegin(t) \/ StartBegin(t)
    BY <1>1, <2>1, <2>2, InstallBegins, OneBegins, RemovalBegins, BeginIsSafe
  <2>3. CASE FindDuplicate(t) \/ ReadCert(t) \/ ChooseNumber(t)
    BY <1>1, <2>3, FindFinds, ReadReads, ChooseChooses, LookIsSafe
  <2>4. CASE LoadConf(t) \/ NextUri(t) \/ LoopEnds(t)
    BY <1>1, <2>4, LoadLoads, LoadIsSafe, NextTakes, LoopLeaves, LoopIsSafe
  <2> QED
    BY <2>2, <2>3, <2>4, WriteIsSafe, FailIsSafe, RemoveBackupIsSafe, RemoveConfIsSafe,
       RemoveFileIsSafe DEF Step
<1>3. \A other \in Threads : other = t
  BY DEF OneAtATime
<1> QED
  BY <1>1, <1>2, <1>3, StepKeepsType DEF SafeInv

LEMMA NextIsSafe ==
    ASSUME OneAtATime, SafeInv, [Next]_vars
    PROVE  SafeInv'
<1>1. CASE Restart
  <2>1. TypeOK' /\ \A t \in Threads : thread'[t] = Idle("none", None, "lost")
    BY <1>1, RestartKeepsType DEF Restart, SafeInv
  <2>2. \A t \in Threads : Safe(thread[t])'
    BY <2>1 DEF Idle, Safe, SlotKept, FilesGo, BackupsGo, UninstallGoes
  <2>3. BackupsAreNamed'
    BY <1>1 DEF Restart, stores, SafeInv, BackupsAreNamed, RemovalsWork, Configured
  <2> QED
    BY <2>1, <2>2, <2>3 DEF SafeInv
<1>2. CASE UNCHANGED vars
  <2>1. TypeOK'
    BY <1>2 DEF SafeInv, vars, TypeOK, StoresOK
  <2>2. \A t \in Threads : Safe(thread[t])'
    BY <1>2, FitsStays DEF SafeInv, vars, Safe, SlotKept, FilesGo, BackupsGo, Skipped,
       UninstallGoes, Held, RemovalsWork, Installed, Configured
  <2>3. BackupsAreNamed'
    BY <1>2 DEF SafeInv, vars, BackupsAreNamed, RemovalsWork, Configured
  <2> QED
    BY <2>1, <2>2, <2>3 DEF SafeInv
<1> QED
  BY <1>1, <1>2, StepIsSafe DEF Next

LEMMA InitIsSafe == Init => SafeInv
<1> SUFFICES ASSUME Init PROVE SafeInv
  OBVIOUS
<1>1. TypeOK /\ \A t \in Threads : thread[t].pc = "idle" /\ thread[t].op = "none"
  BY InitOK
<1>2. BackupsAreNamed
  BY DEF Init, BackupsAreNamed
<1> QED
  BY <1>1, <1>2 DEF SafeInv, Safe, SlotKept, FilesGo, BackupsGo, UninstallGoes, Removing, Writing

\* At every step of a request, what it has removed or written so far is what
\* the stores hold.
THEOREM SafeIsInvariant == ASSUME OneAtATime PROVE Spec => []SafeInv
<1>1. Init => SafeInv
  BY InitIsSafe
<1>2. SafeInv /\ [Next]_vars => SafeInv'
  BY NextIsSafe
<1> QED
  BY <1>1, <1>2, PTL DEF Spec

\* The removal of the user leaves nothing installed, and nothing trusted but what the
\* configs name of applications that have too many.
THEOREM RemovedUserIsGone == ASSUME OneAtATime PROVE Spec => []RemovedUserTrustsNothing
<1>1. SafeInv => RemovedUserTrustsNothing
  <2> SUFFICES ASSUME SafeInv, RemovalsWork, NEW t \in Threads, Answered(t, "eventConf", "ok")
               PROVE  /\ Installed = {}
                      /\ \A slot \in Slots : backup[slot] # None =>
                             \E uri \in Configured \ Listable : conf[uri] = slot
    BY DEF RemovedUserTrustsNothing
  <2>1. BackupsGo(thread[t]) /\ thread[t].op = "eventConf" /\ thread[t].pc = "idle"
    BY DEF SafeInv, Safe, Answered, At
  <2>2. Installed = {} /\ \A uri \in Uris : Held(uri) => ~Fits(uri[1])
    BY <2>1 DEF BackupsGo, Skipped
  <2>3. \A slot \in Slots : backup[slot] # None => \E uri \in Configured : conf[uri] = slot
    BY DEF SafeInv, BackupsAreNamed
  <2>4. \A uri \in Configured : backup[conf[uri]] # None => uri \notin Listable
    BY <2>2 DEF Configured, Held, Listable
  <2> QED
    BY <2>2, <2>3, <2>4
<1> QED
  BY <1>1, SafeIsInvariant, PTL

\* An uninstall that is reported as done has left nothing under the URI.
THEOREM UninstalledStaysGone == ASSUME OneAtATime PROVE Spec => []UninstalledIsGone
<1>1. SafeInv => UninstalledIsGone
  BY DEF SafeInv, Safe, UninstallGoes, UninstalledIsGone, Answered, At
<1> QED
  BY <1>1, SafeIsInvariant, PTL

-----------------------------------------------------------------------------
(* One request at a time and nothing failed: what is shown is trusted      *)

\* Certificates of an older version count, and must fit.
LegacyFits == IsFiniteSet(Legacy) /\ Cardinality(Legacy) <= MaxCount

\* What a request has not put right yet: the URI it works on and, when the user
\* is removed, whatever has lost its file.
Flux == {"row"} \cup Removing \cup Writing
InFlux(r, uri) ==
    \/ r.pc \in Flux /\ uri = r.uri
    \/ r.pc # "idle" /\ r.op \in {"event", "eventConf"} /\ uri \notin Installed

\* The certificate that is shown as enabled is the one that is trusted.
Shown(uri) == conf[uri] # None => uri \in Installed /\ backup[conf[uri]] = files[uri]

Truth(r) ==
    /\ \A uri \in Uris : InFlux(r, uri) \/ Shown(uri)
    /\ \A uri \in Configured : Held(uri) \/ (r.pc \in {"rmConf", "backup"} /\ uri = r.uri)
    /\ r.pc \in {"number", "conf"} => conf[r.uri] = None
    /\ r.op \in Writers /\ r.pc \in Flux => files[r.uri] = r.cert
    /\ r.op = "eventConf" => \A uri \in Configured :
          r.pc # "idle" /\ (uri \in r.todo \/ (r.pc \in Removing /\ uri = r.uri))
    /\ r.pc # "undo"

ConfigsDiffer == \A u1, u2 \in Configured : conf[u1] = conf[u2] => u1 = u2

\* No application has more configs than the removal of the user can list.
ConfigsFit == IsFiniteSet(Configured) /\ Cardinality(Configured) <= MaxCount

Truthful ==
    NothingFailed => ConfigsDiffer /\ ConfigsFit /\ \A t \in Threads : Truth(thread[t])

\* A certificate is let in only where there is room for its file.
RoomIsKept ==
    /\ IsFiniteSet(Installed) /\ Cardinality(Installed) <= MaxCount
    /\ \A t \in Threads : At(t, "file") => HasRoom(thread[t].uri)

TrueInv == SafeInv /\ RoomIsKept /\ Truthful

\* Fewer backups than certificates, so there is a number left.
LEMMA NumberIsFree ==
    ASSUME SafeInv, RoomIsKept, NEW t \in Threads, Truth(thread[t]), NothingFailed,
           At(t, "number")
    PROVE  FreeNumbers(Subject[thread[t].cert]) # {}
<1> DEFINE uri == thread[t].uri
           hash == Subject[thread[t].cert]
           numbers == 0 .. MaxCount - 1
           others == Installed \ {uri}
<1> SUFFICES ASSUME \A n \in numbers : backup[<<hash, n>>] # None PROVE FALSE
  BY DEF FreeNumbers
<1>1. /\ uri \in Uris /\ thread[t].op \in Writers /\ thread[t].cert \in Certs
      /\ thread[t].pc = "number"
  BY RequestIsRequest DEF SafeInv, At, Flow, Knows, Writing
<1>2. conf[uri] = None /\ files[uri] = thread[t].cert
  BY <1>1 DEF Truth, Flux, Writing
<1>3. uri \in Installed
  BY <1>1, <1>2, UserCaAssumption DEF Installed, Names
<1>4. RemovalsWork
  BY DEF NothingFailed, RemovalsWork
<1>5. \A n \in numbers : \E other \in others : conf[other] = <<hash, n>>
  <2> SUFFICES ASSUME NEW n \in numbers PROVE \E other \in others : conf[other] = <<hash, n>>
    OBVIOUS
  <2>1. <<hash, n>> \in Slots
    BY <1>1 DEF Slots
  <2>2. PICK other \in Configured : conf[other] = <<hash, n>>
    BY <1>4, <2>1 DEF SafeInv, BackupsAreNamed
  <2>3. other \in Uris /\ other # uri /\ conf[other] # None
    BY <1>2, <2>2 DEF Configured
  <2>4. Shown(other)
    BY <1>1, <2>3 DEF Truth, InFlux, Writers
  <2> QED
    BY <2>2, <2>3, <2>4 DEF Shown
<1> DEFINE f == [n \in numbers |-> CHOOSE other \in others : conf[other] = <<hash, n>>]
<1>6. f \in [numbers -> others] /\ \A n \in numbers : conf[f[n]] = <<hash, n>>
  BY <1>5
<1>7. IsFiniteSet(numbers) /\ Cardinality(numbers) = MaxCount
  <2>1. MaxCount \in Nat /\ MaxCount > 0 /\ 0 \in Int /\ MaxCount - 1 \in Int
    BY UserCaAssumption
  <2>2. /\ IsFiniteSet(numbers)
        /\ Cardinality(numbers) = IF 0 > MaxCount - 1 THEN 0 ELSE (MaxCount - 1) - 0 + 1
    BY <2>1, FS_Interval
  <2> QED
    BY <2>1, <2>2
<1>8. IsFiniteSet(others) /\ Cardinality(others) < Cardinality(numbers)
  <2>1. /\ IsFiniteSet(others) /\ Cardinality(others) = Cardinality(Installed) - 1
        /\ Cardinality(Installed) \in Nat /\ Cardinality(Installed) <= MaxCount
    BY <1>3, FS_RemoveElement, FS_CardinalityType DEF RoomIsKept
  <2> QED
    BY <1>7, <2>1, UserCaAssumption
<1>9. \E n, m \in numbers : n # m /\ f[n] = f[m]
  <2> HIDE DEF f, numbers, others
  <2> QED
    BY <1>6, <1>7, <1>8, FS_PigeonHole
<1>10. PICK n \in numbers, m \in numbers : n # m /\ f[n] = f[m]
  BY <1>9
<1>11. <<hash, n>> = <<hash, m>>
  <2> HIDE DEF f
  <2> QED
    BY <1>6, <1>10
<1> QED
  BY <1>10, <1>11

\* Between two steps at which nothing has failed there was no fault.
LEMMA CleanStep ==
    ASSUME NothingFailed'
    PROVE  \A kinds : ~Faulted(kinds)
BY DEF NothingFailed, Faulted

LEMMA TruthUnmoved ==
    ASSUME NEW t \in Threads, Truth(thread[t]), ConfigsDiffer,
           UNCHANGED <<files, conf, backup>>,
           \A uri : InFlux(thread[t], uri) => InFlux(thread[t], uri)',
           thread[t].pc \notin {"rmConf", "backup"},
           thread'[t].pc \notin {"number", "conf", "undo"},
           thread'[t].op \in Writers /\ thread'[t].pc \in Flux =>
               files[thread'[t].uri] = thread'[t].cert,
           thread'[t].op = "eventConf" => \A uri \in Configured :
               /\ thread'[t].pc # "idle"
               /\ uri \in thread'[t].todo \/ (thread'[t].pc \in Removing /\ uri = thread'[t].uri)
    PROVE  ConfigsDiffer' /\ Truth(thread[t])'
<1>1. ConfigsDiffer'
  BY DEF ConfigsDiffer, Configured
<1>2. \A uri \in Uris : Shown(uri) => Shown(uri)'
  BY DEF Shown, Installed
<1>3. \A uri \in Uris : InFlux(thread[t], uri)' \/ Shown(uri)'
  BY <1>2 DEF Truth
<1>4. \A uri \in Configured' : Held(uri)'
  BY DEF Truth, Held, Configured
<1> QED
  BY <1>1, <1>3, <1>4 DEF Truth, Configured

Clean(t) ==
    /\ TrueInv /\ NothingFailed /\ NothingFailed'
    /\ ConfigsDiffer /\ ConfigsFit /\ Truth(thread[t])

LEMMA AllAreListed == ConfigsFit => Listable = Configured
<1> SUFFICES ASSUME ConfigsFit, NEW uri \in Configured PROVE Fits(uri[1])
  BY DEF Listable
<1>1. ConfigsOf(uri[1]) \in SUBSET Configured
  BY DEF ConfigsOf
<1>2. /\ IsFiniteSet(ConfigsOf(uri[1]))
      /\ Cardinality(ConfigsOf(uri[1])) <= Cardinality(Configured)
  BY <1>1, FS_Subset DEF ConfigsFit
<1>3. Cardinality(ConfigsOf(uri[1])) \in Nat /\ Cardinality(Configured) \in Nat
  BY <1>2, FS_CardinalityType DEF ConfigsFit
<1> QED
  BY <1>2, <1>3, UserCaAssumption DEF Fits, ConfigsFit

\* Steps that write nothing.
LEMMA QuietIsTrue ==
    ASSUME NEW t \in Threads, Clean(t),
           Begins(t) \/ Finds(t) \/ Reads(t) \/ Chooses(t) \/ Loads(t) \/ Takes(t) \/ Leaves(t)
    PROVE  ConfigsDiffer' /\ Truth(thread[t])'
<1>1. TypeOK /\ SafeInv /\ Truth(thread[t]) /\ ConfigsDiffer
  BY DEF Clean, TrueInv, SafeInv
<1>2. \A kinds : ~Faulted(kinds)
  BY CleanStep DEF Clean
<1>3. UNCHANGED <<files, conf, backup>>
  BY DEF Begins, Finds, Reads, Chooses, Loads, Takes, Leaves, stores
<1>4. Installed' = Installed /\ Configured' = Configured
  BY <1>3 DEF Installed, Configured
<1>5. CASE Begins(t)
  <2>1. /\ thread[t].pc = "idle" /\ thread'[t].pc \in {"find", "delRow", "read", "load", "next"}
        /\ thread'[t].op # "eventConf" /\ (thread'[t].op \in Writers => thread'[t].pc # "load")
    BY <1>5 DEF Begins, At
  <2>2. \A uri : ~InFlux(thread[t], uri)
    BY <2>1 DEF InFlux, Flux, Removing, Writing
  <2> QED
    BY <1>1, <1>3, <2>1, <2>2, TruthUnmoved DEF Flux, Removing, Writing
<1>6. CASE Finds(t)
  <2>1. /\ thread[t].pc = "find" /\ thread[t].op = "install"
        /\ thread'[t].op = "install"
        /\ \/ thread'[t].pc \in {"file", "idle"}
           \/ thread'[t].pc = "row" /\ files[thread'[t].uri] = thread'[t].cert
    BY <1>1, <1>6, RequestIsRequest DEF Finds, At, Flow
  <2>2. \A uri : ~InFlux(thread[t], uri)
    BY <2>1 DEF InFlux, Flux, Removing, Writing
  <2> QED
    BY <1>1, <1>3, <2>1, <2>2, TruthUnmoved DEF Flux, Removing, Writing
<1>7. CASE Reads(t)
  <2>1. /\ thread[t].pc = "read" /\ thread[t].op \in {"enable", "start"}
        /\ thread'[t].op = thread[t].op
        /\ \/ thread'[t].pc \in {"next", "idle"}
           \/ thread'[t].pc = "load" /\ files[thread'[t].uri] = thread'[t].cert
    BY <1>1, <1>7, RequestIsRequest DEF Reads, At, Flow
  <2>2. \A uri : ~InFlux(thread[t], uri)
    BY <2>1 DEF InFlux, Flux, Removing, Writing
  <2> QED
    BY <1>1, <1>3, <2>1, <2>2, TruthUnmoved DEF Flux, Removing, Writing
<1>8. CASE Chooses(t)
  <2>1. /\ thread[t].pc = "number" /\ thread[t].op \in Writers
        /\ thread'[t].pc = "conf" /\ thread'[t].op = thread[t].op
        /\ thread'[t].uri = thread[t].uri /\ thread'[t].cert = thread[t].cert
    <3>1. FreeNumbers(Subject[thread[t].cert]) # {}
      BY <1>1, <1>8, NumberIsFree DEF Chooses, Clean, TrueInv
    <3> QED
      BY <1>1, <1>8, <3>1, RequestIsRequest DEF Chooses, At, Flow, Writing
  <2>2. \A uri : InFlux(thread[t], uri) => InFlux(thread[t], uri)'
    BY <1>4, <2>1 DEF InFlux, Flux, Writing
  <2>3. ConfigsDiffer' /\ \A uri \in Uris : Shown(uri) => Shown(uri)'
    BY <1>1, <1>3, <1>4 DEF ConfigsDiffer, Shown
  <2>4. \A uri \in Configured : Held(uri)'
    BY <1>1, <1>3, <2>1 DEF Truth, Held
  <2>5. conf'[thread'[t].uri] = None /\ files'[thread'[t].uri] = thread'[t].cert
    BY <1>1, <1>3, <2>1 DEF Truth, Flux, Writing
  <2>6. thread'[t].op # "eventConf"
    BY <2>1 DEF Writers
  <2> QED
    BY <1>1, <1>4, <2>1, <2>2, <2>3, <2>4, <2>5, <2>6 DEF Truth
<1>9. CASE Loads(t)
  <2>1. /\ thread[t].pc = "load" /\ thread'[t].pc \in {"rmConf", "rmBackup"}
        /\ thread'[t].op = thread[t].op /\ thread'[t].uri = thread[t].uri
        /\ thread'[t].cert = thread[t].cert /\ thread'[t].todo = thread[t].todo
    BY <1>2, <1>9 DEF Loads, At
  <2>2. \A uri : InFlux(thread[t], uri) => InFlux(thread[t], uri)'
    BY <1>4, <2>1 DEF InFlux, Flux, Removing
  <2>3. thread'[t].op \in Writers => files[thread'[t].uri] = thread'[t].cert
    BY <1>1, <2>1 DEF Truth, Flux, Removing
  <2>4. thread'[t].op = "eventConf" => \A uri \in Configured :
           uri \in thread'[t].todo \/ (thread'[t].pc \in Removing /\ uri = thread'[t].uri)
    BY <1>1, <2>1 DEF Truth, Removing
  <2> QED
    BY <1>1, <1>3, <2>1, <2>2, <2>3, <2>4, TruthUnmoved
<1>10. CASE Takes(t)
  <2>1. /\ thread[t].pc = "next" /\ thread'[t].op = thread[t].op
        /\ thread'[t].todo = thread[t].todo \ {thread'[t].uri}
        /\ \/ thread'[t].op = "start" /\ thread'[t].pc \in {"read", "next"}
           \/ thread'[t].op \in {"removeAll", "event"} /\ thread'[t].pc = "rmFile"
           \/ thread'[t].op = "eventConf" /\ thread'[t].pc = "load"
    BY <1>10 DEF Takes, At
  <2>2. \A uri : InFlux(thread[t], uri) => InFlux(thread[t], uri)'
    BY <1>4, <2>1 DEF InFlux, Flux, Removing, Writing
  <2>3. thread'[t].op = "eventConf" => \A uri \in Configured :
           uri \in thread'[t].todo \/ (thread'[t].pc \in Removing /\ uri = thread'[t].uri)
    BY <1>1, <2>1 DEF Truth, Removing
  <2> QED
    BY <1>1, <1>3, <2>1, <2>2, <2>3, TruthUnmoved DEF Flux, Removing, Writing, Writers
<1>11. CASE Leaves(t)
  <2>1. /\ thread[t].pc = "next" /\ thread[t].todo = {}
        /\ \/ thread'[t].op = "start" /\ thread[t].op = "start" /\ thread'[t].pc = "flag"
           \/ /\ thread[t].op = "event" /\ thread'[t].op = "eventConf"
              /\ thread'[t].pc = "next" /\ thread'[t].todo = Configured
           \/ /\ thread[t].op \in {"removeAll", "eventConf"} /\ thread'[t].op = thread[t].op
              /\ thread'[t].pc = "idle"
    BY <1>11, AllAreListed DEF Leaves, At, Clean
  <2>2. CASE thread[t].op # "eventConf"
    <3>1. \A uri : InFlux(thread[t], uri) => InFlux(thread[t], uri)'
      BY <1>4, <2>1, <2>2 DEF InFlux, Flux, Removing, Writing
    <3> QED
      BY <1>1, <1>3, <2>1, <2>2, <3>1, TruthUnmoved DEF Flux, Removing, Writing
  <2>3. CASE thread[t].op = "eventConf"
    <3>1. Configured = {}
      BY <1>1, <2>1, <2>3 DEF Truth, Removing
    <3>2. \A uri \in Uris : Shown(uri)'
      BY <1>4, <3>1 DEF Shown, Configured
    <3>3. thread'[t].pc = "idle"
      BY <2>1, <2>3
    <3> QED
      BY <1>4, <3>1, <3>2, <3>3 DEF Truth, ConfigsDiffer, Flux, Removing, Writing
  <2> QED
    BY <2>2, <2>3
<1> QED
  BY <1>5, <1>6, <1>7, <1>8, <1>9, <1>10, <1>11

\* The install writes the file, and another certificate may have been there.
LEMMA WriteFileIsTrue ==
    ASSUME NEW t \in Threads, Clean(t), WriteFile(t)
    PROVE  ConfigsDiffer' /\ Truth(thread[t])'
<1> DEFINE uri == thread[t].uri
<1>1. /\ TypeOK /\ Truth(thread[t]) /\ ConfigsDiffer /\ UNCHANGED <<conf, backup>>
      /\ thread[t].pc = "file" /\ uri \in Uris /\ thread[t].op = "install"
  BY RequestIsRequest, WriteGoes DEF Clean, TrueInv, SafeInv, WriteFile, At, Knows
<1>2. /\ thread'[t].pc = "row" /\ thread'[t].uri = uri /\ thread'[t].op = "install"
      /\ thread'[t].cert = thread[t].cert /\ thread[t].cert \in Certs
  BY <1>1, WriteGoes, RequestIsRequest DEF Moved, At, Knows, Writers
<1>3. /\ files'[uri] = thread[t].cert /\ \A other \in Uris \ {uri} : files'[other] = files[other]
  BY <1>1 DEF WriteFile, TypeOK, StoresOK
<1>4. ConfigsDiffer' /\ Configured' = Configured /\ \A other \in Uris : Held(other) => Held(other)'
  BY <1>1 DEF ConfigsDiffer, Configured, Held
<1>5. \A other \in Uris \ {uri} : Shown(other)'
  <2>1. \A other \in Uris : Shown(other)
    BY <1>1 DEF Truth, InFlux, Flux, Removing, Writing
  <2> QED
    BY <1>1, <1>3, <2>1 DEF Shown, Installed
<1>6. InFlux(thread[t], uri)'
  BY <1>2 DEF InFlux, Flux
<1>7. \A other \in Configured : Held(other)'
  BY <1>1, <1>4 DEF Truth, Configured
<1> QED
  BY <1>2, <1>3, <1>4, <1>5, <1>6, <1>7 DEF Truth

\* The row says nothing about what is enabled.
LEMMA RowIsTrue ==
    ASSUME NEW t \in Threads, Clean(t), InsertRow(t) \/ DeleteRow(t)
    PROVE  ConfigsDiffer' /\ Truth(thread[t])'
<1>1. /\ TypeOK /\ Truth(thread[t]) /\ ConfigsDiffer /\ UNCHANGED <<files, conf, backup>>
  BY DEF Clean, TrueInv, SafeInv, InsertRow, DeleteRow
<1>2. Installed' = Installed
  BY <1>1 DEF Installed
<1>3. CASE InsertRow(t)
  <2>1. /\ thread[t].pc = "row" /\ thread'[t].pc = "load" /\ thread'[t].op = "install"
        /\ thread[t].op = "install" /\ thread'[t].uri = thread[t].uri
        /\ thread'[t].cert = thread[t].cert
    BY <1>1, <1>3, WriteGoes DEF InsertRow, At, Moved
  <2>2. \A uri : InFlux(thread[t], uri) => InFlux(thread[t], uri)'
    BY <1>2, <2>1 DEF InFlux, Flux, Removing
  <2>3. files[thread'[t].uri] = thread'[t].cert
    BY <1>1, <2>1 DEF Truth, Flux, Writers
  <2> QED
    BY <1>1, <2>1, <2>2, <2>3, TruthUnmoved
<1>4. CASE DeleteRow(t)
  <2>1. thread[t].pc = "delRow" /\ thread[t].op \in {"uninstall", "removeAll", "event"}
    BY <1>1, <1>4, RequestIsRequest DEF DeleteRow, At, Flow
  <2>2. /\ thread'[t].op = thread[t].op
        /\ thread'[t].pc \in IF thread[t].op = "uninstall" THEN {"rmFile", "idle"} ELSE {"next"}
    BY <1>1, <1>4, <2>1, RemovalGoes, GiveUpGoes DEF DeleteRow, At, Moved, Ended
  <2>3. \A uri : InFlux(thread[t], uri) => InFlux(thread[t], uri)'
    BY <1>2, <2>1, <2>2 DEF InFlux, Flux, Removing, Writing
  <2> QED
    BY <1>1, <2>1, <2>2, <2>3, TruthUnmoved DEF Flux, Removing, Writing, Writers
<1> QED
  BY <1>3, <1>4

\* The config names the backup that comes next; no other config names it.
LEMMA WriteConfIsTrue ==
    ASSUME NEW t \in Threads, Clean(t), WriteConf(t)
    PROVE  ConfigsDiffer' /\ Truth(thread[t])'
<1> PICK uri, slot : uri = thread[t].uri /\ slot = thread[t].slot
  OBVIOUS
<1>1. /\ TypeOK /\ Safe(thread[t]) /\ Truth(thread[t]) /\ ConfigsDiffer
      /\ UNCHANGED <<files, backup>>
      /\ thread[t].pc = "conf" /\ uri \in Uris /\ slot \in Slots /\ thread[t].op \in Writers
  BY RequestIsRequest, WriteGoes DEF Clean, TrueInv, SafeInv, WriteConf, At, Knows
<1>2. /\ thread'[t].pc = "backup" /\ thread'[t].uri = uri /\ thread'[t].op = thread[t].op
      /\ thread'[t].cert = thread[t].cert
  BY <1>1, WriteGoes DEF Moved
<1>3. /\ conf'[uri] = slot /\ \A other \in Uris \ {uri} : conf'[other] = conf[other]
      /\ backup[slot] = None
  BY <1>1 DEF WriteConf, TypeOK, StoresOK, Safe, SlotKept
<1>4. \A other \in Configured \ {uri} : conf[other] # slot /\ Held(other)
  BY <1>1, <1>3 DEF Truth, Held, Configured
<1>5. Configured' \ {uri} = Configured \ {uri}
  BY <1>3 DEF Configured
<1>6. ConfigsDiffer'
  <2> SUFFICES ASSUME NEW u1 \in Configured', NEW u2 \in Configured', conf'[u1] = conf'[u2]
               PROVE  u1 = u2
    BY DEF ConfigsDiffer
  <2>1. CASE u1 = uri \/ u2 = uri
    BY <1>3, <1>4, <1>5, <2>1 DEF Configured
  <2>2. CASE u1 # uri /\ u2 # uri
    BY <1>1, <1>3, <1>5, <2>2 DEF ConfigsDiffer, Configured
  <2> QED
    BY <2>1, <2>2
<1>7. \A other \in Configured' : other = uri \/ Held(other)'
  BY <1>1, <1>3, <1>4, <1>5 DEF Held, Configured
<1>8. \A other \in Uris : InFlux(thread[t], other)' \/ Shown(other)'
  <2>1. \A other \in Uris \ {uri} : Shown(other)
    BY <1>1 DEF Truth, InFlux, Writers
  <2>2. \A other \in Uris \ {uri} : Shown(other)'
    BY <1>1, <1>3, <2>1 DEF Shown, Installed
  <2>3. InFlux(thread[t], uri)'
    BY <1>2 DEF InFlux, Flux, Writing
  <2> QED
    BY <2>2, <2>3
<1>9. files'[uri] = thread'[t].cert
  BY <1>1, <1>2 DEF Truth, Flux, Writing
<1> QED
  BY <1>1, <1>2, <1>6, <1>7, <1>8, <1>9 DEF Truth, Writers

\* With the backup the request has put its URI right.
LEMMA WriteBackupIsTrue ==
    ASSUME NEW t \in Threads, Clean(t), WriteBackup(t)
    PROVE  ConfigsDiffer' /\ Truth(thread[t])'
<1> PICK uri, slot, cert :
       uri = thread[t].uri /\ slot = thread[t].slot /\ cert = thread[t].cert
  OBVIOUS
<1>1. /\ TypeOK /\ Safe(thread[t]) /\ Truth(thread[t]) /\ ConfigsDiffer
      /\ UNCHANGED <<files, conf>>
      /\ thread[t].pc = "backup" /\ uri \in Uris /\ slot \in Slots /\ thread[t].op \in Writers
      /\ cert \in Certs
  BY RequestIsRequest DEF Clean, TrueInv, SafeInv, WriteBackup, At, Knows, Flow, Writing
<1>2. thread'[t].op \in Writers /\ thread'[t].pc \in {"find", "next", "idle"}
  BY <1>1, WriteBacksUp DEF BacksUp
<1>3. /\ backup'[slot] = cert /\ \A other \in Slots \ {slot} : backup'[other] = backup[other]
      /\ slot = conf[uri]
  BY <1>1 DEF WriteBackup, TypeOK, StoresOK, Safe, SlotKept
<1>4. cert # None /\ slot # None
  BY <1>1, UserCaAssumption DEF Names
<1>5. uri \in Configured /\ \A other \in Configured \ {uri} : conf[other] # slot
  BY <1>1, <1>3, <1>4 DEF ConfigsDiffer, Configured
<1>6. Configured' = Configured /\ Installed' = Installed /\ ConfigsDiffer'
  BY <1>1 DEF ConfigsDiffer, Configured, Installed
<1>7. \A other \in Configured \ {uri} : conf[other] \in Slots \ {slot} /\ Held(other)'
  BY <1>1, <1>3, <1>5 DEF Truth, Held, Configured, TypeOK, StoresOK
<1>8. Held(uri)'
  BY <1>1, <1>3, <1>4 DEF Held
<1>9. Shown(uri)'
  BY <1>1, <1>3, <1>4 DEF Shown, Truth, Flux, Writing, Installed
<1>10. \A other \in Uris \ {uri} : Shown(other)'
  <2>1. \A other \in Uris \ {uri} : Shown(other)
    BY <1>1 DEF Truth, InFlux, Writers
  <2> QED
    BY <1>1, <1>3, <1>6, <1>7, <2>1 DEF Shown, Configured
<1> QED
  BY <1>2, <1>6, <1>7, <1>8, <1>9, <1>10 DEF Truth, Flux, Removing, Writing, Writers

\* The backup the config names is removed; no other config names it.
LEMMA RemoveBackupIsTrue ==
    ASSUME NEW t \in Threads, Clean(t), RemoveBackup(t)
    PROVE  ConfigsDiffer' /\ Truth(thread[t])'
<1> PICK uri, slot : uri = thread[t].uri /\ slot = thread[t].slot
  OBVIOUS
<1>1. /\ TypeOK /\ Safe(thread[t]) /\ Truth(thread[t]) /\ ConfigsDiffer
      /\ UNCHANGED <<files, conf>> /\ thread[t].pc = "rmBackup" /\ uri \in Uris
      /\ slot \in Slots /\ slot = conf[uri]
  BY RequestIsRequest DEF Clean, TrueInv, SafeInv, RemoveBackup, At, Knows, Safe, SlotKept
<1>2. uri \in Configured /\ backup[slot] # None
  BY <1>1, UserCaAssumption DEF Truth, Configured, Held
<1>3. backup' = [backup EXCEPT ![slot] = None] /\ Advance(t, "rmConf")
  <2>1. \A kind : ~Fault(kind)
    BY <1>1, CleanStep, FaultIsKept DEF Clean
  <2> QED
    BY <1>2, <2>1 DEF RemoveBackup
<1>4. /\ thread'[t].pc = "rmConf" /\ thread'[t].uri = uri /\ thread'[t].op = thread[t].op
      /\ thread'[t].cert = thread[t].cert /\ thread'[t].todo = thread[t].todo
  BY <1>1, <1>3, RemovalGoes DEF At, Moved
<1>5. \A other \in Slots \ {slot} : backup'[other] = backup[other]
  BY <1>1, <1>3 DEF TypeOK, StoresOK
<1>6. Configured' = Configured /\ Installed' = Installed /\ ConfigsDiffer'
  BY <1>1 DEF ConfigsDiffer, Configured, Installed
<1>7. \A other \in Configured \ {uri} : conf[other] \in Slots \ {slot}
  BY <1>1, <1>2 DEF ConfigsDiffer, Configured, TypeOK, StoresOK
<1>8. \A other \in Configured \ {uri} : Held(other)'
  BY <1>1, <1>5, <1>7 DEF Truth, Held
<1>9. \A other \in Uris : InFlux(thread[t], other)' \/ Shown(other)'
  <2>1. \A other \in Uris : InFlux(thread[t], other) => InFlux(thread[t], other)'
    BY <1>4, <1>6 DEF InFlux, Flux, Removing
  <2>2. \A other \in Uris \ {uri} : Shown(other) => Shown(other)'
    BY <1>1, <1>5, <1>6, <1>7 DEF Shown, Configured
  <2>3. InFlux(thread[t], uri)'
    BY <1>4 DEF InFlux, Flux, Removing
  <2> QED
    BY <1>1, <2>1, <2>2, <2>3 DEF Truth
<1>10. thread'[t].op \in Writers => files'[uri] = thread'[t].cert
  BY <1>1, <1>4 DEF Truth, Flux, Removing
<1>11. thread'[t].op = "eventConf" => \A other \in Configured :
          other \in thread'[t].todo \/ other = uri
  BY <1>1, <1>4 DEF Truth
<1> QED
  BY <1>4, <1>6, <1>8, <1>9, <1>10, <1>11 DEF Truth, Removing

\* Then the config is removed.
LEMMA RemoveConfIsTrue ==
    ASSUME NEW t \in Threads, Clean(t), RemoveConf(t)
    PROVE  ConfigsDiffer' /\ Truth(thread[t])'
<1> PICK uri : uri = thread[t].uri
  OBVIOUS
<1>1. /\ TypeOK /\ Truth(thread[t]) /\ ConfigsDiffer /\ UNCHANGED <<files, backup>>
      /\ thread[t].pc = "rmConf" /\ uri \in Uris
      /\ thread[t].op \in Writers \cup {"uninstall", "disable", "removeAll", "eventConf"}
  BY RequestIsRequest DEF Clean, TrueInv, SafeInv, RemoveConf, At, Knows, Flow, Removing
<1>2. /\ conf'[uri] = None /\ \A other \in Uris \ {uri} : conf'[other] = conf[other]
  <2>1. \A kind : ~Fault(kind)
    BY <1>1, CleanStep, FaultIsKept DEF Clean
  <2> QED
    BY <1>1, <2>1 DEF RemoveConf, TypeOK, StoresOK
<1>3. PICK ret \in {"ok", "fail"} : AfterRemoval(t, ret)
  BY DEF RemoveConf
<1>4. /\ thread'[t].uri = uri /\ thread'[t].op = thread[t].op
      /\ thread[t].op \in Writers => thread'[t].pc = "number" /\ thread'[t].cert = thread[t].cert
      /\ thread[t].op \in {"uninstall", "disable", "removeAll"} =>
            thread'[t].pc \in {"idle", "delRow"}
      /\ thread[t].op = "eventConf" => thread'[t].pc = "next" /\ thread'[t].todo = thread[t].todo
  BY <1>1, <1>3, AfterRemovalGoes DEF Moved, Ended, Removing, Writers
<1>5. Configured' = Configured \ {uri} /\ Installed' = Installed
  BY <1>1, <1>2 DEF Configured, Installed
<1>6. ConfigsDiffer'
  BY <1>1, <1>2, <1>5 DEF ConfigsDiffer, Configured
<1>7. \A other \in Configured' : Held(other)'
  BY <1>1, <1>2, <1>5 DEF Truth, Held, Configured
<1>8. \A other \in Uris : InFlux(thread[t], other)' \/ Shown(other)'
  <2>1. Shown(uri)'
    BY <1>2 DEF Shown
  <2>2. \A other \in Uris \ {uri} : Shown(other) => Shown(other)'
    BY <1>1, <1>2, <1>5 DEF Shown
  <2>3. \A other \in Uris \ {uri} : InFlux(thread[t], other) => InFlux(thread[t], other)'
    BY <1>1, <1>4, <1>5 DEF InFlux, Writers
  <2> QED
    BY <1>1, <2>1, <2>2, <2>3 DEF Truth
<1>9. thread'[t].op \in Writers => files'[uri] = thread'[t].cert
  BY <1>1, <1>4 DEF Truth, Flux, Removing
<1>10. thread'[t].op = "eventConf" => \A other \in Configured' : other \in thread'[t].todo
  BY <1>1, <1>4, <1>5 DEF Truth, Configured
<1> QED
  BY <1>1, <1>2, <1>4, <1>6, <1>7, <1>8, <1>9, <1>10 DEF Truth, Flux, Removing, Writing, Writers

\* A certificate whose file is gone is in flux until its config is gone.
LEMMA RemoveFileIsTrue ==
    ASSUME NEW t \in Threads, Clean(t), RemoveFile(t)
    PROVE  ConfigsDiffer' /\ Truth(thread[t])'
<1> PICK uri, op : uri = thread[t].uri /\ op = thread[t].op
  OBVIOUS
<1>1. /\ TypeOK /\ Truth(thread[t]) /\ ConfigsDiffer /\ UNCHANGED <<conf, backup>>
      /\ thread[t].pc = "rmFile" /\ uri \in Uris /\ op \in {"uninstall", "removeAll", "event"}
  BY RequestIsRequest DEF Clean, TrueInv, SafeInv, RemoveFile, At, Knows, Flow
<1>2. CASE GiveUp(t) /\ UNCHANGED files
  <2>1. /\ thread'[t].op = op
        /\ thread'[t].pc \in IF op = "uninstall" THEN {"idle"} ELSE {"next"}
    BY <1>1, <1>2, GiveUpGoes DEF Moved, Ended
  <2>2. Installed' = Installed
    BY <1>2 DEF Installed
  <2>3. \A other : InFlux(thread[t], other) => InFlux(thread[t], other)'
    BY <1>1, <2>1, <2>2 DEF InFlux, Flux, Removing, Writing
  <2> QED
    BY <1>1, <1>2, <2>1, <2>3, TruthUnmoved DEF Flux, Removing, Writing, Writers
<1>3. CASE /\ files' = [files EXCEPT ![uri] = None]
           /\ Advance(t, IF op = "event" THEN "delRow" ELSE "load")
  <2>1. /\ thread'[t].op = op /\ thread'[t].uri = uri
        /\ thread'[t].pc = IF op = "event" THEN "delRow" ELSE "load"
    BY <1>1, <1>3, RemovalGoes DEF At, Moved
  <2>2. /\ Installed' = Installed \ {uri}
        /\ \A other \in Uris \ {uri} : files'[other] = files[other]
    BY <1>1, <1>3 DEF Installed, TypeOK, StoresOK
  <2>3. /\ Configured' = Configured /\ ConfigsDiffer'
        /\ \A other \in Configured : Held(other)'
    BY <1>1 DEF Configured, ConfigsDiffer, Held, Truth
  <2>4. \A other \in Uris : InFlux(thread[t], other)' \/ Shown(other)'
    <3>1. \A other \in Uris : Shown(other) \/ (op = "event" /\ other \notin Installed)
      BY <1>1 DEF Truth, InFlux, Flux, Removing, Writing
    <3>2. \A other \in Uris \ {uri} : Shown(other) => Shown(other)'
      BY <1>1, <2>2 DEF Shown
    <3>3. InFlux(thread[t], uri)'
      BY <2>1, <2>2, <1>1 DEF InFlux, Flux, Removing
    <3>4. op = "event" => \A other \in Uris \ Installed : InFlux(thread[t], other)'
      BY <2>1, <2>2 DEF InFlux
    <3> QED
      BY <3>1, <3>2, <3>3, <3>4
  <2> QED
    BY <1>1, <2>1, <2>3, <2>4 DEF Truth, Writers
<1> QED
  BY <1>2, <1>3 DEF RemoveFile

\* A step that is not a fault; nothing has been left undone.
LEMMA StepIsTrue ==
    ASSUME NEW t \in Threads, Clean(t), Step(t)
    PROVE  ConfigsDiffer' /\ Truth(thread[t])'
<1>1. TypeOK /\ Truth(thread[t]) /\ ConfigsDiffer
  BY DEF Clean, TrueInv, SafeInv
<1>2. \A kind : ~Fault(kind)
  BY <1>1, CleanStep, FaultIsKept DEF Clean
<1>3. ~WriteFails(t) /\ ~BackupFails(t) /\ ~UndoInstall(t)
  BY <1>1, <1>2 DEF WriteFails, BackupFails, UndoInstall, Truth, At
<1>4. CASE StartBegin(t)
  <2>1. CASE Begins(t)
    BY <2>1, QuietIsTrue
  <2>2. CASE UNCHANGED <<stores, thread, failed, deaths>>
    BY <1>1, <2>2 DEF stores, ConfigsDiffer, Configured, Truth, InFlux, Shown, Installed, Held
  <2> QED
    BY <1>1, <1>4, <2>1, <2>2, StartBegins
<1>5. CASE InstallBegin(t) \/ UninstallBegin(t) \/ EnableBegin(t) \/ DisableBegin(t)
           \/ RemoveAllBegin(t)
  BY <1>1, <1>5, InstallBegins, OneBegins, RemovalBegins, QuietIsTrue
<1>6. CASE FindDuplicate(t) \/ ReadCert(t) \/ ChooseNumber(t) \/ LoadConf(t) \/ NextUri(t)
           \/ LoopEnds(t)
  BY <1>1, <1>6, FindFinds, ReadReads, ChooseChooses, LoadLoads, NextTakes, LoopLeaves, QuietIsTrue
<1>7. CASE SetUpdateFlag(t)
  <2>1. thread[t].pc = "flag" /\ UNCHANGED <<files, conf, backup>> /\ Finish(t, "ok")
    BY <1>2, <1>7 DEF SetUpdateFlag, At
  <2>2. thread[t].op = "start" /\ thread'[t].pc = "idle" /\ thread'[t].op = "start"
    BY <1>1, <2>1, StopGoes DEF At, Ended
  <2>3. \A uri : ~InFlux(thread[t], uri)
    BY <2>1, <2>2 DEF InFlux, Flux, Removing, Writing
  <2> QED
    BY <1>1, <2>1, <2>2, <2>3, TruthUnmoved DEF Flux, Removing, Writing
<1> QED
  BY <1>3, <1>4, <1>5, <1>6, <1>7, WriteFileIsTrue, RowIsTrue, WriteConfIsTrue,
     WriteBackupIsTrue, RemoveBackupIsTrue, RemoveConfIsTrue, RemoveFileIsTrue DEF Step

-----------------------------------------------------------------------------
(* Room for the files                                                      *)

\* Only where a new name has been found to fit is a file written.
LEMMA FileComesFromFind ==
    ASSUME TypeOK, NEW t \in Threads, Step(t), At(t, "file")'
    PROVE  FindDuplicate(t) \/ UNCHANGED <<files, thread>>
<1> SUFFICES ASSUME ~FindDuplicate(t), ~UNCHANGED <<files, thread>> PROVE FALSE
  OBVIOUS
<1>1. thread'[t].pc = "file"
  BY DEF At
<1>2. ~Begins(t) /\ ~Reads(t) /\ ~Takes(t) /\ ~Leaves(t) /\ ~BacksUp(t)
  BY <1>1 DEF Begins, Reads, Takes, Leaves, BacksUp
<1>3. /\ \A pc : pc # "file" => ~Moved(t, pc)
      /\ \A ret : ~Ended(t, ret)
  BY <1>1 DEF Moved, Ended
<1>4. ~Chooses(t)
  <2> SUFFICES ASSUME Chooses(t), BackupFailed(t) PROVE FALSE
    BY <1>1 DEF Chooses
  <2> QED
    BY <1>3, BackupFailedGoes DEF Chooses, At, Writing, Writers
<1>5. ASSUME NEW ret \in {"ok", "fail"}, AfterRemoval(t, ret), thread[t].pc \in Removing
      PROVE  FALSE
  <2>1. thread[t].op \in Writers \cup {"uninstall", "disable", "removeAll", "eventConf"}
    BY <1>5, RequestIsRequest DEF At, Flow, Removing
  <2> QED
    BY <1>3, <1>5, <2>1, AfterRemovalGoes
<1>6. ~Loads(t)
  BY <1>1, <1>5 DEF Loads, At, Removing
<1>7. ~RemoveBackup(t)
  BY <1>3, <1>5, RemovalGoes DEF RemoveBackup, At, Removing
<1>8. ~RemoveConf(t)
  BY <1>5 DEF RemoveConf, At, Removing
<1>9. ~DeleteRow(t) /\ ~RemoveFile(t)
  <2>1. ~(GiveUp(t) /\ thread[t].pc \in {"delRow", "rmFile"})
    BY <1>3, GiveUpGoes
  <2>2. ~DeleteRow(t)
    BY <1>3, <2>1, RemovalGoes DEF DeleteRow, At
  <2>3. ~RemoveFile(t)
    BY <1>3, <2>1, RemovalGoes DEF RemoveFile, At
  <2> QED
    BY <2>2, <2>3
<1>10. ~WriteFile(t) /\ ~InsertRow(t) /\ ~WriteConf(t)
  BY <1>3, WriteGoes
<1>11. ~BackupFails(t)
  BY <1>3, BackupFailedGoes DEF BackupFails, Writing, Writers
<1>12. ~WriteFails(t) /\ ~UndoInstall(t) /\ ~SetUpdateFlag(t)
  BY <1>3, StopGoes DEF WriteFails, UndoInstall, SetUpdateFlag, At
<1>13. ~StartBegin(t)
  BY <1>2, StartBegins DEF stores
<1> QED
  BY <1>2, <1>4, <1>6, <1>7, <1>8, <1>9, <1>10, <1>11, <1>12, <1>13, InstallBegins, OneBegins,
     RemovalBegins, ReadReads, ChooseChooses, WriteBacksUp, LoadLoads, NextTakes, LoopLeaves
     DEF Step

LEMMA FilesShrink ==
    ASSUME TypeOK, NEW t \in Threads, Step(t), ~WriteFile(t)
    PROVE  Installed' \subseteq Installed
<1>1. \/ UNCHANGED files
      \/ files' = [files EXCEPT ![thread[t].uri] = None]
  <2>1. CASE UndoInstall(t) \/ RemoveFile(t)
    BY <2>1 DEF UndoInstall, RemoveFile
  <2>2. CASE ~UndoInstall(t) /\ ~RemoveFile(t)
    BY <2>2 DEF Step, InstallBegin, UninstallBegin, EnableBegin, DisableBegin, RemoveAllBegin,
       StartBegin, FindDuplicate, InsertRow, WriteFails, ReadCert, ChooseNumber, WriteConf,
       WriteBackup, BackupFails, LoadConf, RemoveBackup, RemoveConf, DeleteRow, NextUri,
       LoopEnds, SetUpdateFlag, stores
  <2> QED
    BY <2>1, <2>2
<1> QED
  BY <1>1 DEF TypeOK, StoresOK, Installed

LEMMA StepKeepsRoom ==
    ASSUME OneAtATime, SafeInv, RoomIsKept, NEW t \in Threads, Step(t)
    PROVE  RoomIsKept'
<1>1. TypeOK /\ IsFiniteSet(Installed) /\ Cardinality(Installed) <= MaxCount
  BY DEF SafeInv, RoomIsKept
<1>2. IsFiniteSet(Installed') /\ Cardinality(Installed') <= MaxCount
  <2>1. CASE WriteFile(t)
    <3>1. /\ At(t, "file") /\ HasRoom(thread[t].uri) /\ thread[t].uri \in Uris
          /\ thread[t].cert \in Certs
      BY <1>1, <2>1, RequestIsRequest DEF RoomIsKept, WriteFile, At, Knows, Flow, Writers
    <3>2. Installed' = Installed \cup {thread[t].uri}
      <4>1. thread[t].cert # None
        BY <3>1, UserCaAssumption DEF Names
      <4> QED
        BY <1>1, <2>1, <3>1, <4>1 DEF WriteFile, Installed, TypeOK, StoresOK
    <3>3. /\ IsFiniteSet(Installed \cup {thread[t].uri})
          /\ Cardinality(Installed \cup {thread[t].uri}) =
                IF thread[t].uri \in Installed THEN Cardinality(Installed)
                                               ELSE Cardinality(Installed) + 1
          /\ Cardinality(Installed) \in Nat
      BY <1>1, FS_AddElement, FS_CardinalityType
    <3>4. Cardinality(Installed \cup {thread[t].uri}) <= MaxCount
      BY <1>1, <3>1, <3>3, UserCaAssumption DEF HasRoom
    <3> QED
      BY <1>1, <3>2, <3>3, <3>4
  <2>2. CASE ~WriteFile(t)
    <3>1. Installed' \in SUBSET Installed
      BY <1>1, <2>2, FilesShrink
    <3>2. /\ IsFiniteSet(Installed') /\ Cardinality(Installed') <= Cardinality(Installed)
      BY <1>1, <3>1, FS_Subset
    <3>3. Cardinality(Installed) \in Nat /\ Cardinality(Installed') \in Nat
      BY <1>1, <3>2, FS_CardinalityType
    <3> QED
      BY <1>1, <3>2, <3>3, UserCaAssumption
  <2> QED
    BY <2>1, <2>2
<1>3. ASSUME At(t, "file")' PROVE HasRoom(thread[t].uri)'
  <2>1. CASE FindDuplicate(t)
    <3>1. HasRoom(thread'[t].uri) /\ UNCHANGED files
      BY <1>1, <1>3, <2>1, FindFinds DEF Finds, stores, At
    <3> QED
      BY <3>1 DEF HasRoom, Installed
  <2>2. CASE UNCHANGED <<files, thread>>
    BY <1>3, <2>2 DEF RoomIsKept, At, HasRoom, Installed
  <2> QED
    BY <1>1, <1>3, <2>1, <2>2, FileComesFromFind
<1>4. \A other \in Threads : other = t
  BY DEF OneAtATime
<1> QED
  BY <1>2, <1>3, <1>4 DEF RoomIsKept

\* Configs are written for certificates that are installed.
LEMMA ConfigsStayFew ==
    ASSUME NEW t \in Threads, Clean(t), Step(t)
    PROVE  ConfigsFit'
<1>1. /\ TypeOK /\ Truth(thread[t]) /\ IsFiniteSet(Installed) /\ Cardinality(Installed) <= MaxCount
      /\ IsFiniteSet(Configured) /\ Cardinality(Configured) <= MaxCount
  BY DEF Clean, TrueInv, SafeInv, RoomIsKept, ConfigsFit
<1>2. \E all \in {Installed, Configured} : Configured' \in SUBSET all
  <2>1. CASE WriteConf(t)
    <3>1. /\ thread[t].pc = "conf" /\ thread[t].uri \in Uris /\ thread[t].op \in Writers
          /\ thread[t].cert \in Certs
          /\ conf' = [conf EXCEPT ![thread[t].uri] = thread[t].slot]
      BY <1>1, <2>1, RequestIsRequest, WriteGoes DEF WriteConf, At, Knows, Writing
    <3>2. thread[t].uri \in Installed
      BY <1>1, <3>1, UserCaAssumption DEF Truth, Flux, Writing, Installed, Names
    <3>3. \A uri \in Uris \ {thread[t].uri} : Shown(uri)
      BY <1>1, <3>1 DEF Truth, InFlux, Writers
    <3> QED
      BY <1>1, <3>1, <3>2, <3>3 DEF Shown, Configured, TypeOK, StoresOK
  <2>2. CASE RemoveConf(t)
    BY <1>1, <2>2 DEF RemoveConf, Configured, TypeOK, StoresOK
  <2>3. CASE ~WriteConf(t) /\ ~RemoveConf(t)
    <3>1. UNCHANGED conf
      BY <2>3 DEF Step, InstallBegin, UninstallBegin, EnableBegin, DisableBegin, RemoveAllBegin,
         StartBegin, FindDuplicate, WriteFile, InsertRow, WriteFails, ReadCert, ChooseNumber,
         WriteBackup, BackupFails, UndoInstall, LoadConf, RemoveBackup, DeleteRow, RemoveFile,
         NextUri, LoopEnds, SetUpdateFlag, stores
    <3> QED
      BY <3>1 DEF Configured
  <2> QED
    BY <2>1, <2>2, <2>3
<1>3. PICK all \in {Installed, Configured} : Configured' \in SUBSET all
  BY <1>2
<1>4. IsFiniteSet(all) /\ Cardinality(all) <= MaxCount
  BY <1>1
<1>5. IsFiniteSet(Configured') /\ Cardinality(Configured') <= Cardinality(all)
  BY <1>3, <1>4, FS_Subset
<1>6. Cardinality(Configured') \in Nat /\ Cardinality(all) \in Nat
  BY <1>4, <1>5, FS_CardinalityType
<1>7. Cardinality(Configured') <= MaxCount
  BY <1>4, <1>5, <1>6, UserCaAssumption
<1> QED
  BY <1>5, <1>7 DEF ConfigsFit

-----------------------------------------------------------------------------
(* What is shown, and that numbers suffice, in every state                 *)

\* Failures are remembered, and a step of a request is no death.
LEMMA StepKeepsFailures ==
    ASSUME NEW t \in Threads, Step(t)
    PROVE  failed \subseteq failed' /\ UNCHANGED deaths
<1>1. failed' = failed \/ \E kind : Fault(kind)
  BY DEF Step, InstallBegin, UninstallBegin, EnableBegin, DisableBegin, RemoveAllBegin,
     StartBegin, FindDuplicate, WriteFile, InsertRow, WriteFails, ReadCert, ChooseNumber,
     WriteConf, WriteBackup, BackupFails, UndoInstall, LoadConf, RemoveBackup, RemoveConf,
     DeleteRow, RemoveFile, NextUri, LoopEnds, SetUpdateFlag
<1>2. UNCHANGED deaths
  BY DEF Step, InstallBegin, UninstallBegin, EnableBegin, DisableBegin, RemoveAllBegin,
     StartBegin, FindDuplicate, WriteFile, InsertRow, WriteFails, ReadCert, ChooseNumber,
     WriteConf, WriteBackup, BackupFails, UndoInstall, LoadConf, RemoveBackup, RemoveConf,
     DeleteRow, RemoveFile, NextUri, LoopEnds, SetUpdateFlag
<1> QED
  BY <1>1, <1>2 DEF Fault

LEMMA NextIsTrue ==
    ASSUME OneAtATime, TrueInv, [Next]_vars
    PROVE  TrueInv'
<1>1. SafeInv' /\ TypeOK
  BY NextIsSafe DEF TrueInv, SafeInv
<1>2. CASE UNCHANGED vars
  <2>1. UNCHANGED <<files, conf, backup, thread, failed, deaths>>
    BY <1>2 DEF vars
  <2>2. RoomIsKept'
    BY <2>1 DEF TrueInv, RoomIsKept, At, HasRoom, Installed
  <2>3. Truthful'
    BY <2>1 DEF TrueInv, Truthful, NothingFailed, ConfigsDiffer, ConfigsFit, Configured, Truth,
       InFlux, Shown, Held, Installed
  <2> QED
    BY <1>1, <2>2, <2>3 DEF TrueInv
<1>3. CASE Restart
  <2>1. deaths \in Nat /\ deaths' = deaths + 1 /\ UNCHANGED files
    BY <1>1, <1>3 DEF Restart, stores, TypeOK, StoresOK
  <2>2. ~NothingFailed'
    BY <2>1 DEF NothingFailed
  <2>3. \A t \in Threads : At(t, "idle")'
    BY <1>1, <1>3, RestartKeepsType
  <2>4. RoomIsKept'
    BY <2>1, <2>3 DEF TrueInv, RoomIsKept, At, Installed
  <2> QED
    BY <1>1, <2>2, <2>4 DEF TrueInv, Truthful
<1>4. ASSUME NEW t \in Threads, Step(t) PROVE TrueInv'
  <2>1. RoomIsKept'
    BY <1>4, StepKeepsRoom DEF TrueInv
  <2>2. ASSUME NothingFailed'
        PROVE  ConfigsDiffer' /\ ConfigsFit' /\ \A other \in Threads : Truth(thread[other])'
    <3>1. NothingFailed
      BY <1>1, <1>4, <2>2, StepKeepsFailures DEF NothingFailed
    <3>2. Clean(t)
      BY <2>2, <3>1 DEF Clean, TrueInv, Truthful
    <3>3. ConfigsDiffer' /\ ConfigsFit' /\ Truth(thread[t])'
      BY <1>4, <3>2, StepIsTrue, ConfigsStayFew
    <3>4. \A other \in Threads : other = t
      BY DEF OneAtATime
    <3> QED
      BY <3>3, <3>4
  <2> QED
    BY <1>1, <2>1, <2>2 DEF TrueInv, Truthful
<1> QED
  BY <1>2, <1>3, <1>4 DEF Next

LEMMA InitIsTrue ==
    ASSUME LegacyFits, Init
    PROVE  TrueInv
<1>1. SafeInv /\ \A t \in Threads : thread[t].pc = "idle" /\ thread[t].op = "none"
  BY InitIsSafe, InitOK
<1>2. Configured = {}
  BY DEF Init, Configured
<1>3. RoomIsKept
  <2>1. Installed \in SUBSET Legacy
    BY DEF Init, Installed
  <2>2. IsFiniteSet(Installed) /\ Cardinality(Installed) <= Cardinality(Legacy)
    BY <2>1, FS_Subset DEF LegacyFits
  <2>3. Cardinality(Installed) \in Nat /\ Cardinality(Legacy) \in Nat
    BY <2>2, FS_CardinalityType DEF LegacyFits
  <2>4. Cardinality(Installed) <= MaxCount
    BY <2>2, <2>3, UserCaAssumption DEF LegacyFits
  <2> QED
    BY <1>1, <2>2, <2>4 DEF RoomIsKept, At
<1>4. ConfigsDiffer /\ \A t \in Threads : Truth(thread[t])
  BY <1>1, <1>2 DEF Init, ConfigsDiffer, Truth, Shown, Flux, Removing, Writing
<1>5. ConfigsFit
  BY <1>2, FS_EmptySet, UserCaAssumption DEF ConfigsFit
<1> QED
  BY <1>1, <1>3, <1>4, <1>5 DEF TrueInv, Truthful

\* As long as nothing fails, the stores differ only in what the request that
\* runs has not put right yet, and there is room for what was let in.
THEOREM TrueIsInvariant == ASSUME OneAtATime, LegacyFits PROVE Spec => []TrueInv
<1>1. Init => TrueInv
  BY InitIsTrue
<1>2. TrueInv /\ [Next]_vars => TrueInv'
  BY NextIsTrue
<1> QED
  BY <1>1, <1>2, PTL DEF Spec

\* What CmGetCertConfigStatus shows is what the device trusts, and no two
\* certificates share a backup.
THEOREM ShownIsTrusted == ASSUME OneAtATime, LegacyFits PROVE Spec => []StatusIsTrust
<1>1. TrueInv => StatusIsTrust
  <2> SUFFICES ASSUME TrueInv, Quiet, NothingFailed
               PROVE  /\ Configured \subseteq Installed
                      /\ \A uri \in Configured : backup[conf[uri]] = files[uri]
                      /\ \A u1, u2 \in Configured : conf[u1] = conf[u2] => u1 = u2
                      /\ \A slot \in Slots :
                            backup[slot] # None => \E uri \in Configured : conf[uri] = slot
    BY DEF StatusIsTrust
  <2>1. BackupsAreNamed /\ RemovalsWork
    BY DEF TrueInv, SafeInv, NothingFailed, RemovalsWork
  <2>2. ConfigsDiffer /\ \A t \in Threads : Truth(thread[t]) /\ thread[t].pc = "idle"
    BY DEF TrueInv, Truthful, Quiet, At
  <2>3. \A uri \in Configured : Shown(uri)
    <3>1. PICK t \in Threads : Truth(thread[t]) /\ thread[t].pc = "idle"
      BY <2>2 DEF OneAtATime
    <3>2. \A uri : ~InFlux(thread[t], uri)
      BY <3>1 DEF InFlux, Flux, Removing, Writing
    <3> QED
      BY <3>1, <3>2 DEF Truth, Configured
  <2> QED
    BY <2>1, <2>2, <2>3 DEF BackupsAreNamed, ConfigsDiffer, Shown, Configured
<1> QED
  BY <1>1, TrueIsInvariant, PTL

\* A certificate that is let in finds a number for its backup.
THEOREM NumbersAlwaysSuffice == ASSUME OneAtATime, LegacyFits PROVE Spec => []NumbersSuffice
<1>1. TrueInv => NumbersSuffice
  BY NumberIsFree DEF TrueInv, Truthful, NumbersSuffice
<1> QED
  BY <1>1, TrueIsInvariant, PTL
=============================================================================
