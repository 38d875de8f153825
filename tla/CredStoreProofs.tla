--------------------------- MODULE CredStoreProofs ---------------------------
(***************************************************************************)
(* Proofs about CredStore, for any credentials, any limit, any threads and *)
(* any number of failures and deaths:                                      *)
(*  - a store goes over its limit by at most one per further thread;       *)
(*  - what was installed is usable and, as long as nothing failed, no key  *)
(*    is left behind, as long as no two requests are about one credential  *)
(*    at once, whatever else the threads do at the same time, and at any   *)
(*    level a client asks for.  This asks for stores without public        *)
(*    credentials from before the level column; the run creds_upgrade      *)
(*    shows what such a credential comes to.                               *)
(***************************************************************************)
EXTENDS CredStore, FiniteSetTheorems, TLAPS

Working(request) == request.pc \notin {"idle", "loop"}
Installs(request) == Working(request) /\ request.op = "install"

\* No two requests work on the same credential: the stores have no lock.
Apart ==
    \A t, u \in Threads :
        t # u /\ Working(thread[t]) /\ Working(thread[u]) => thread[t].uri # thread[u].uri

\* One request at a time, as in the run creds.
OneAtATime == \A t, u \in Threads : t = u

\* What an earlier release left.
UpgradedHaveRoom ==
    /\ IsFiniteSet(Upgraded)
    /\ \A store \in Stores : Cardinality({uri \in Upgraded : Store[uri] = store}) <= MaxCount
NoPublicUpgraded == \A uri \in Upgraded : Store[uri] # "public"

Requests ==
    [pc : {"row", "file", "key", "import", "store", "insert"},
     op : {"install", "uninstall", "all", "event"}, uri : Uris, level : Levels \cup {NoRow},
     imports : Levels \cup {NoRow}, deletes : Levels \cup {NoRow}, left : SUBSET Uris]
Loops == [pc : {"loop"}, op : {"all", "event"}, left : SUBSET Uris]
AllRequests == {Idle} \cup Loops \cup Requests

\* Only an install imports, stores and inserts, and it has a level to import at.
InstallHasLevel(request) ==
    /\ request.pc \in {"import", "store", "insert"} => request.op = "install"
    /\ request.op = "install" => request.imports \in Levels

TypeOK ==
    /\ file \subseteq Uris
    /\ key \in [Uris -> SUBSET Levels]
    /\ row \in [Uris -> Levels \cup {NoRow}]
    /\ thread \in [Threads -> AllRequests]
    /\ \A t \in Threads : Working(thread[t]) => InstallHasLevel(thread[t])
    /\ installed \subseteq Uris /\ diverted \subseteq Uris
    /\ faults \in Nat /\ crashes \in Nat

-----------------------------------------------------------------------------
(* Requests and the types                                                  *)

\* What a thread holds, by where it stands.
LEMMA RequestOf ==
    ASSUME TypeOK, NEW t \in Threads
    PROVE  /\ thread[t].pc = "idle" => thread[t] = Idle
           /\ thread[t].pc = "loop" => thread[t] \in Loops
           /\ Working(thread[t]) => /\ thread[t] \in Requests /\ thread[t].uri \in Uris
                                    /\ InstallHasLevel(thread[t])
<1>1. thread[t] \in AllRequests
  BY DEF TypeOK
<1>2. /\ thread[t].pc = "idle" => thread[t] = Idle
      /\ thread[t].pc = "loop" => thread[t] \in Loops
      /\ Working(thread[t]) => thread[t] \in Requests
  BY <1>1 DEF AllRequests, Working, Idle, Loops, Requests
<1>3. Working(thread[t]) => InstallHasLevel(thread[t])
  BY DEF TypeOK
<1> QED
  BY <1>2, <1>3 DEF Requests

\* The step of a thread leaves the other threads where they are.
LEMMA OtherThreadsStay ==
    ASSUME TypeOK, NEW t \in Threads, NEW request \in AllRequests, Goto(t, request)
    PROVE  /\ thread' \in [Threads -> AllRequests]
           /\ thread'[t] = request
           /\ \A u \in Threads \ {t} : thread'[u] = thread[u]
  BY DEF TypeOK, Goto

\* A request as it begins.
LEMMA NewRequest ==
    ASSUME NEW pc \in {"row", "file", "key", "import", "store", "insert"},
           NEW op \in {"install", "uninstall", "all", "event"}, NEW uri \in Uris,
           NEW level \in Levels \cup {NoRow}, NEW imports \in Levels \cup {NoRow},
           NEW deletes \in Levels \cup {NoRow}, NEW left \in SUBSET Uris
    PROVE  LET request == Request(pc, op, uri, level, imports, deletes, left)
           IN  /\ request \in Requests /\ request.pc = pc /\ request.op = op
               /\ request.uri = uri /\ request.level = level
               /\ request.imports = imports /\ request.deletes = deletes
  BY DEF Request, Requests

\* A request at its next step is a request, about the same credential.
LEMMA AdvancedRequest ==
    ASSUME NEW request \in Requests,
           NEW pc \in {"row", "file", "key", "import", "store", "insert"}
    PROVE  LET next == [request EXCEPT !.pc = pc]
           IN  /\ next \in Requests /\ next.pc = pc /\ next.op = request.op
               /\ next.uri = request.uri /\ next.level = request.level
               /\ next.imports = request.imports /\ next.deletes = request.deletes
  BY DEF Requests

\* A request that does no work is idle or in a loop.
LEMMA NotWorking ==
    ASSUME NEW request \in {Idle} \cup Loops
    PROVE  request \in AllRequests /\ ~Working(request) /\ ~Installs(request)
  BY DEF AllRequests, Working, Installs, Idle, Loops

\* A removal that is over ends, imports or goes on with its loop.
LEMMA RemovalEndsWith ==
    ASSUME TypeOK, NEW t \in Threads, Working(thread[t]), RemovalEnds(t)
    PROVE  \E request \in AllRequests :
              /\ Goto(t, request)
              /\ Working(request) =>
                    /\ request.pc = "import" /\ request.op = "install"
                    /\ request.uri = thread[t].uri /\ request.level = thread[t].level
                    /\ request.imports = thread[t].imports /\ thread[t].op = "install"
<1>1. thread[t] \in Requests
  BY RequestOf
<1>2. CASE thread[t].op = "install"
  <2> DEFINE request == [thread[t] EXCEPT !.pc = "import"]
  <2>1. /\ request \in Requests /\ request.pc = "import" /\ request.op = thread[t].op
        /\ request.uri = thread[t].uri /\ request.level = thread[t].level
        /\ request.imports = thread[t].imports
    BY <1>1, AdvancedRequest
  <2>2. Goto(t, request)
    BY <1>2 DEF RemovalEnds, Advance
  <2> HIDE DEF request
  <2> QED
    BY <1>2, <2>1, <2>2 DEF AllRequests
<1>3. CASE thread[t].op = "uninstall"
  <2>1. Goto(t, Idle)
    BY <1>3 DEF RemovalEnds
  <2> QED
    BY <2>1, NotWorking
<1>4. CASE thread[t].op \in {"all", "event"}
  <2> DEFINE request == Loop(thread[t].op, thread[t].left \ {thread[t].uri})
  <2>1. request \in Loops
    BY <1>1, <1>4 DEF Requests, Loop, Loops
  <2>2. Goto(t, request)
    BY <1>4 DEF RemovalEnds
  <2> HIDE DEF request
  <2> QED
    BY <2>1, <2>2, NotWorking
<1> QED
  BY <1>1, <1>2, <1>3, <1>4 DEF Requests

\* Its next step is about the same credential.
LEMMA Advances ==
    ASSUME TypeOK, NEW t \in Threads, Working(thread[t]),
           NEW pc \in {"row", "file", "key", "import", "store", "insert"}, Advance(t, pc)
    PROVE  \E next \in Requests :
              /\ Goto(t, next) /\ Working(next) /\ next.pc = pc /\ next.op = thread[t].op
              /\ next.uri = thread[t].uri /\ next.level = thread[t].level
              /\ next.imports = thread[t].imports /\ next.deletes = thread[t].deletes
              /\ next \in AllRequests
<1> DEFINE next == [thread[t] EXCEPT !.pc = pc]
<1>1. /\ next \in Requests /\ next.pc = pc /\ next.op = thread[t].op
      /\ next.uri = thread[t].uri /\ next.level = thread[t].level
      /\ next.imports = thread[t].imports /\ next.deletes = thread[t].deletes
  BY RequestOf, AdvancedRequest
<1>2. Goto(t, next)
  BY DEF Advance
<1> HIDE DEF next
<1>3. Working(next)
  BY <1>1 DEF Working
<1> QED
  BY <1>1, <1>2, <1>3 DEF AllRequests

\* What a step owes the types: the rest is left as it is.
LEMMA StepTypes ==
    ASSUME TypeOK, NEW t \in Threads, NEW request \in AllRequests, Goto(t, request),
           Working(request) => InstallHasLevel(request),
           file' \subseteq Uris, key' \in [Uris -> SUBSET Levels],
           row' \in [Uris -> Levels \cup {NoRow}], installed' \subseteq Uris,
           diverted' \subseteq Uris, faults' \in Nat, crashes' \in Nat
    PROVE  TypeOK'
<1>1. /\ thread' \in [Threads -> AllRequests] /\ thread'[t] = request
      /\ \A u \in Threads \ {t} : thread'[u] = thread[u]
  BY OtherThreadsStay
<1>2. ASSUME NEW u \in Threads, Working(thread'[u]) PROVE InstallHasLevel(thread'[u])
  <2>1. CASE u = t
    BY <1>1, <1>2, <2>1
  <2>2. CASE u # t
    BY <1>1, <1>2, <2>2 DEF TypeOK
  <2> QED
    BY <2>1, <2>2
<1> QED
  BY <1>1, <1>2 DEF TypeOK

-----------------------------------------------------------------------------
(* The room in a store                                                     *)

InStore(files, store) == {uri \in files : Store[uri] = store}

\* The credentials an install under way may yet write a file for.
Wanted == {uri \in Uris : \E t \in Threads : Installs(thread[t]) /\ thread[t].uri = uri}

\* Each install was let in when the files alone left room, so that what is there and what
\* is wanted together exceed the limit by no more than the installs that did not see one
\* another.
RoomIsKept ==
    /\ IsFiniteSet(file)
    /\ \A store \in Stores :
          Cardinality(InStore(file \cup Wanted, store)) <= MaxCount + Cardinality(Threads) - 1

\* A set each of whose elements is some f[x] is no larger than what x ranges over.
LEMMA ImageIsSmall ==
    ASSUME NEW S, IsFiniteSet(S), NEW f, NEW T, \A y \in T : \E x \in S : f[x] = y
    PROVE  IsFiniteSet(T) /\ Cardinality(T) <= Cardinality(S)
<1> DEFINE R == {x \in S : f[x] \in T}
           g == [x \in R |-> f[x]]
<1>1. IsFiniteSet(R) /\ Cardinality(R) <= Cardinality(S)
  BY FS_Subset
<1>2. g \in Surjection(R, T)
  BY DEF Surjection
<1>3. IsFiniteSet(T) /\ Cardinality(T) <= Cardinality(R)
  <2> HIDE DEF g, R
  <2> QED
    BY <1>1, <1>2, FS_Surjection
<1>4. Cardinality(T) \in Nat /\ Cardinality(R) \in Nat /\ Cardinality(S) \in Nat
  <2> HIDE DEF R
  <2> QED
    BY <1>1, <1>3, FS_CardinalityType
<1> QED
  BY <1>1, <1>3, <1>4

\* There are no more of them than threads.
LEMMA WantedAreFew ==
    IsFiniteSet(Wanted) /\ Cardinality(Wanted) <= Cardinality(Threads)
<1> DEFINE f == [t \in Threads |-> thread[t].uri]
<1>1. IsFiniteSet(Threads)
  BY CredStoreAssumption
<1>2. ASSUME NEW uri \in Wanted PROVE \E t \in Threads : f[t] = uri
  BY DEF Wanted
<1> HIDE DEF f
<1> QED
  BY <1>1, <1>2, ImageIsSmall

\* The size of a part of a finite set.
LEMMA PartIsSmaller ==
    ASSUME NEW S, IsFiniteSet(S), NEW T \in SUBSET S, NEW n \in Nat, Cardinality(S) <= n
    PROVE  IsFiniteSet(T) /\ Cardinality(T) <= n /\ Cardinality(T) \in Nat
<1>1. IsFiniteSet(T) /\ Cardinality(T) <= Cardinality(S)
  BY FS_Subset
<1>2. Cardinality(T) \in Nat /\ Cardinality(S) \in Nat
  BY <1>1, FS_CardinalityType
<1> QED
  BY <1>1, <1>2

\* A step takes in no file but that of the install it belongs to, and starts no
\* install but one that sees room.
LEMMA StepRoom ==
    ASSUME TypeOK, RoomIsKept, NEW t \in Threads, NEW request \in AllRequests,
           Goto(t, request), file' \subseteq Uris,
           file' \subseteq file \/ (Installs(thread[t]) /\ file' = file \cup {thread[t].uri}),
           Installs(request) =>
              \/ Installs(thread[t]) /\ request.uri = thread[t].uri
              \/ file' = file /\ request.uri \in Uris /\ HasRoom(request.uri)
    PROVE  RoomIsKept'
<1>1. /\ thread'[t] = request
      /\ \A u \in Threads \ {t} : thread'[u] = thread[u]
  BY OtherThreadsStay
<1> DEFINE limit == MaxCount + Cardinality(Threads) - 1
<1>2. Cardinality(Threads) \in Nat \ {0} /\ limit \in Nat /\ MaxCount \in Nat \ {0}
  <2>1. Cardinality(Threads) \in Nat /\ Cardinality(Threads) # 0
    BY CredStoreAssumption, FS_CardinalityType, FS_EmptySet
  <2> QED
    BY <2>1, CredStoreAssumption
<1>3. IsFiniteSet(file')
  <2>1. IsFiniteSet(file \cup {thread[t].uri})
    BY FS_AddElement DEF RoomIsKept
  <2>2. file' \subseteq file \cup {thread[t].uri}
    OBVIOUS
  <2> QED
    BY <2>1, <2>2, FS_Subset
<1>4. IsFiniteSet(file \cup Wanted)
  BY WantedAreFew, FS_Union DEF RoomIsKept
<1>5. \A uri \in Wanted' : uri \in Wanted \/ (Installs(request) /\ request.uri = uri)
  BY <1>1 DEF Wanted
<1>6. file' \subseteq file \cup Wanted
  <2>1. Installs(thread[t]) => thread[t].uri \in Wanted
    BY RequestOf DEF Wanted, Installs
  <2> QED
    BY <2>1
<1>7. ASSUME NEW store \in Stores PROVE Cardinality(InStore(file' \cup Wanted', store)) <= limit
  <2>1. CASE InStore(file' \cup Wanted', store) \subseteq InStore(file \cup Wanted, store)
    <3>1. IsFiniteSet(InStore(file \cup Wanted, store))
      BY <1>4, FS_Subset DEF InStore
    <3>2. Cardinality(InStore(file \cup Wanted, store)) <= limit
      BY DEF RoomIsKept
    <3> HIDE DEF limit
    <3> QED
      BY <1>2, <2>1, <3>1, <3>2, PartIsSmaller
  <2>2. CASE ~(InStore(file' \cup Wanted', store) \subseteq InStore(file \cup Wanted, store))
    <3>1. PICK uri \in InStore(file' \cup Wanted', store) : uri \notin InStore(file \cup Wanted, store)
      BY <2>2
    <3>2. uri \in Wanted' /\ uri \notin Wanted /\ uri \notin file /\ Store[uri] = store
      BY <1>6, <3>1 DEF InStore
    <3>3. request.uri = uri /\ Installs(request)
      BY <1>5, <3>2
    <3>4. ~(Installs(thread[t]) /\ request.uri = thread[t].uri)
      <4>1. Installs(thread[t]) => thread[t].uri \in Wanted
        BY RequestOf DEF Wanted, Installs
      <4> QED
        BY <3>2, <3>3, <4>1
    <3>5. file' = file /\ HasRoom(uri)
      BY <3>3, <3>4
    <3>6. Cardinality(InStore(file, store)) < MaxCount
      BY <3>2, <3>5 DEF HasRoom, InStore
    <3>7. IsFiniteSet(InStore(file, store)) /\ Cardinality(InStore(file, store)) \in Nat
      <4>1. IsFiniteSet(InStore(file, store))
        BY FS_Subset DEF RoomIsKept, InStore
      <4> QED
        BY <4>1, FS_CardinalityType
    <3>8. IsFiniteSet(Wanted') /\ Cardinality(Wanted') <= Cardinality(Threads)
      <4> DEFINE f == [u \in Threads |-> thread'[u].uri]
      <4>1. IsFiniteSet(Threads)
        BY CredStoreAssumption
      <4>2. ASSUME NEW other \in Wanted' PROVE \E u \in Threads : f[u] = other
        BY DEF Wanted
      <4> HIDE DEF f
      <4> QED
        BY <4>1, <4>2, ImageIsSmall
    <3>9. Cardinality(Wanted') \in Nat
      BY <3>8, FS_CardinalityType
    <3> DEFINE there == InStore(file, store)  both == there \cup Wanted'
    <3>10. InStore(file' \cup Wanted', store) \in SUBSET both
      BY <3>5 DEF InStore
    <3> HIDE DEF there
    <3>11. IsFiniteSet(both) /\ Cardinality(both) <= limit
      <4>1. IsFiniteSet(there) /\ Cardinality(there) < MaxCount /\ Cardinality(there) \in Nat
        BY <3>6, <3>7 DEF there
      <4>2. /\ IsFiniteSet(both)
            /\ Cardinality(both) = Cardinality(there) + Cardinality(Wanted') - Cardinality(there \cap Wanted')
        BY <3>8, <4>1, FS_Union
      <4>3. Cardinality(there \cap Wanted') \in Nat
        BY <4>1, FS_Subset, FS_CardinalityType
      <4> HIDE DEF both
      <4> QED
        BY <1>2, <3>8, <3>9, <4>1, <4>2, <4>3
    <3> HIDE DEF both, limit
    <3> QED
      BY <1>2, <3>10, <3>11, PartIsSmaller
  <2> QED
    BY <2>1, <2>2
<1> QED
  BY <1>3, <1>7 DEF RoomIsKept, InStore

\* What is there is no more than what is there or wanted.
LEMMA RoomIsLimit ==
    ASSUME TypeOK, RoomIsKept
    PROVE  CountWithinLimit
<1>1. IsFiniteSet(file \cup Wanted)
  BY WantedAreFew, FS_Union DEF RoomIsKept
<1>2. MaxCount + Cardinality(Threads) - 1 \in Nat
  <2>1. Cardinality(Threads) \in Nat
    BY CredStoreAssumption, FS_CardinalityType
  <2> QED
    BY <2>1, CredStoreAssumption
<1>3. ASSUME NEW store \in Stores
      PROVE  Cardinality(InStore(file, store)) <= MaxCount + Cardinality(Threads) - 1
  <2>1. IsFiniteSet(InStore(file \cup Wanted, store))
    BY <1>1, FS_Subset DEF InStore
  <2>2. InStore(file, store) \in SUBSET InStore(file \cup Wanted, store)
    BY DEF InStore
  <2>3. Cardinality(InStore(file \cup Wanted, store)) <= MaxCount + Cardinality(Threads) - 1
    BY DEF RoomIsKept
  <2> QED
    BY <1>2, <2>1, <2>2, <2>3, PartIsSmaller
<1> QED
  BY <1>3 DEF CountWithinLimit, InStore

-----------------------------------------------------------------------------
(* The keys                                                                *)

\* The level a public and a system credential has unless a row says otherwise.
OwnLevel(uri, level) == /\ Store[uri] = "public" => level = EL2
                        /\ Store[uri] = "system" => level = EL1

\* The levels that rows of public and of system credentials name.
RowsAsRequested ==
    \A uri \in Uris \ diverted : row[uri] # NoRow => OwnLevel(uri, row[uri])

\* What an install imports, and that imported it is there.
InstallKeeps(request) ==
    /\ request.uri \notin diverted => OwnLevel(request.uri, request.imports)
    /\ Store[request.uri] = "private" => request.imports = request.level
    /\ request.pc \in {"store", "insert"} => request.imports \in key[request.uri]

Keeps(request) ==
    /\ request.uri \notin installed
    /\ request.op = "install" => InstallKeeps(request)

WorkKeeps == \A t \in Threads : Working(thread[t]) => Keeps(thread[t])

\* A credential nobody works on.
Settled(uri) ==
    /\ key[uri] \subseteq {LevelOf(uri)}
    /\ key[uri] # {} => uri \in file /\ row[uri] # NoRow

\* Where the key of a credential is while a request works on it.
InProgress(request) ==
    LET uri == request.uri
        fileFirst == request.op \in {"all", "event"}
    IN  CASE request.pc = "row" ->
               IF fileFirst THEN key[uri] \subseteq {LevelOf(uri)}
               ELSE Settled(uri) /\ request.deletes = LevelOf(uri)
          [] request.pc = "file" ->
               IF fileFirst THEN Settled(uri)
               ELSE key[uri] \subseteq {request.deletes} /\ (key[uri] # {} => uri \in file)
          [] request.pc = "key" -> key[uri] \subseteq {request.deletes}
          [] request.pc \in {"import", "store"} -> key[uri] \subseteq {request.imports}
          [] request.pc = "insert" -> key[uri] \subseteq {request.imports} /\ uri \in file

NoFailure == faults = 0 /\ crashes = 0
Known(uri) == NoFailure /\ uri \notin diverted

KeysAreKnown ==
    /\ \A t \in Threads :
          Working(thread[t]) /\ Known(thread[t].uri) => InProgress(thread[t])
    /\ \A uri \in Uris :
          \/ ~Known(uri) \/ Settled(uri)
          \/ \E t \in Threads : Working(thread[t]) /\ thread[t].uri = uri

\* What holds of the keys as long as no two requests are about one credential.
KeysAreKept == RowsAsRequested /\ WorkKeeps /\ InstalledIsUsable /\ KeysAreKnown

\* Neither before nor after the step does another thread work on its credential.
LEMMA NobodyElse ==
    ASSUME TypeOK, Apart, Apart', NEW t \in Threads, NEW request \in AllRequests,
           Goto(t, request), NEW uri,
           \/ Working(thread[t]) /\ thread[t].uri = uri
           \/ Working(request) /\ request.uri = uri
    PROVE  \A u \in Threads \ {t} : Working(thread[u]) => thread[u].uri # uri
<1>1. thread'[t] = request /\ \A u \in Threads \ {t} : thread'[u] = thread[u]
  BY OtherThreadsStay
<1>2. CASE Working(thread[t]) /\ thread[t].uri = uri
  BY <1>2 DEF Apart
<1>3. CASE Working(request) /\ request.uri = uri
  <2> SUFFICES ASSUME NEW u \in Threads \ {t}, Working(thread[u]) PROVE thread[u].uri # uri
    OBVIOUS
  <2>1. Working(thread'[t]) /\ Working(thread'[u]) /\ t # u
    BY <1>1, <1>3
  <2>2. thread'[t].uri # thread'[u].uri
    BY <2>1 DEF Apart
  <2> QED
    BY <1>1, <1>3, <2>2
<1> QED
  BY <1>2, <1>3

\* As long as nothing failed, the key of a credential is where the request that works on
\* it says, and a credential nobody works on is settled.
LEMMA KeyIsKnown ==
    ASSUME KeysAreKept, NEW t \in Threads, NEW uri \in Uris, Known(uri),
           \A u \in Threads \ {t} : Working(thread[u]) => thread[u].uri # uri
    PROVE  /\ Working(thread[t]) /\ thread[t].uri = uri => InProgress(thread[t])
           /\ Settled(uri) \/ (Working(thread[t]) /\ thread[t].uri = uri)
  BY DEF KeysAreKept, KeysAreKnown

\* What a step owes the keys: the credential it is about and the request that works on it.
LEMMA StepKeys ==
    ASSUME TypeOK, KeysAreKept, Apart, Apart', NEW t \in Threads, NEW request \in AllRequests,
           Goto(t, request), NEW uri \in Uris,
           Working(thread[t]) \/ Working(request),
           Working(thread[t]) => thread[t].uri = uri,
           Working(request) => request.uri = uri /\ Keeps(request)',
           \A other \in Uris \ {uri} :
              /\ key'[other] = key[other] /\ row'[other] = row[other]
              /\ other \in file <=> other \in file'
              /\ other \in installed <=> other \in installed'
              /\ other \in diverted <=> other \in diverted',
           installed' \subseteq Uris, uri \in installed' => Usable(uri)', RowsAsRequested',
           NoFailure' => NoFailure,
           Known(uri)' => Known(uri) /\ IF Working(request) THEN InProgress(request)'
                                                            ELSE Settled(uri)'
    PROVE  KeysAreKept'
<1>1. thread'[t] = request /\ \A u \in Threads \ {t} : thread'[u] = thread[u]
  BY OtherThreadsStay
<1>2. \A u \in Threads \ {t} : Working(thread[u]) => thread[u].uri # uri
  BY NobodyElse
<1>3. \A u \in Threads \ {t} : Working(thread[u]) => thread[u].uri \in Uris \ {uri}
  BY <1>2, RequestOf
<1>4. WorkKeeps'
  <2> SUFFICES ASSUME NEW u \in Threads, Working(thread'[u]) PROVE Keeps(thread[u])'
    BY DEF WorkKeeps
  <2>1. CASE u = t
    BY <1>1, <2>1
  <2>2. CASE u # t
    <3>1. Working(thread[u]) /\ thread'[u] = thread[u] /\ thread[u].uri \in Uris \ {uri}
      BY <1>1, <1>3, <2>2
    <3>2. Keeps(thread[u])
      BY <3>1 DEF KeysAreKept, WorkKeeps
    <3>3. /\ key'[thread[u].uri] = key[thread[u].uri]
          /\ thread[u].uri \in installed <=> thread[u].uri \in installed'
          /\ thread[u].uri \in diverted <=> thread[u].uri \in diverted'
      BY <3>1
    <3> QED
      BY <3>1, <3>2, <3>3 DEF Keeps, InstallKeeps
  <2> QED
    BY <2>1, <2>2
<1>5. \A other \in Uris \ {uri} : /\ Settled(other) => Settled(other)'
                                  /\ Usable(other) => Usable(other)'
  BY DEF Settled, Usable, LevelOf
<1>6. InstalledIsUsable'
  BY <1>5 DEF KeysAreKept, InstalledIsUsable
<1>7. KeysAreKnown'
  <2>1. \A other \in Uris : Known(other)' => Known(other)
    BY DEF Known
  <2>2. ASSUME NEW u \in Threads, Working(thread'[u]), Known(thread[u].uri)'
        PROVE  InProgress(thread[u])'
    <3>1. CASE u = t
      BY <1>1, <2>2, <3>1
    <3>2. CASE u # t
      <4>1. Working(thread[u]) /\ thread'[u] = thread[u] /\ thread[u].uri \in Uris \ {uri}
        BY <1>1, <1>3, <2>2, <3>2
      <4>2. InProgress(thread[u])
        BY <2>1, <2>2, <4>1 DEF KeysAreKept, KeysAreKnown
      <4>3. LET other == thread[u].uri
            IN  /\ key'[other] = key[other] /\ row'[other] = row[other]
                /\ other \in file <=> other \in file'
        BY <4>1
      <4> QED
        BY <4>1, <4>2, <4>3 DEF InProgress, Settled, LevelOf
    <3> QED
      BY <3>1, <3>2
  <2>3. ASSUME NEW other \in Uris, Known(other)'
        PROVE  \/ Settled(other)'
               \/ \E u \in Threads : Working(thread'[u]) /\ thread'[u].uri = other
    <3>1. CASE other = uri
      BY <1>1, <2>3, <3>1
    <3>2. CASE other # uri
      <4>1. Settled(other) \/ \E u \in Threads : Working(thread[u]) /\ thread[u].uri = other
        BY <2>1, <2>3 DEF KeysAreKept, KeysAreKnown
      <4>2. CASE Settled(other)
        BY <1>5, <3>2, <4>2
      <4>3. ASSUME NEW u \in Threads, Working(thread[u]), thread[u].uri = other
            PROVE  Working(thread'[u]) /\ thread'[u].uri = other
        BY <1>1, <3>2, <4>3
      <4> QED
        BY <4>1, <4>2, <4>3
    <3> QED
      BY <3>1, <3>2
  <2> QED
    BY <2>2, <2>3 DEF KeysAreKnown
<1> QED
  BY <1>4, <1>6, <1>7 DEF KeysAreKept

\* A thread that begins or ends a loop works on nothing.
LEMMA PauseKeys ==
    ASSUME TypeOK, KeysAreKept, NEW t \in Threads, NEW request \in AllRequests, Goto(t, request),
           ~Working(thread[t]), ~Working(request),
           UNCHANGED <<file, key, row, installed, diverted, faults, crashes>>
    PROVE  KeysAreKept'
<1>1. thread'[t] = request /\ \A u \in Threads \ {t} : thread'[u] = thread[u]
  BY OtherThreadsStay
<1>2. \A u \in Threads : /\ Working(thread'[u]) <=> Working(thread[u])
                         /\ Working(thread[u]) => thread'[u] = thread[u]
  BY <1>1
<1>3. RowsAsRequested' /\ InstalledIsUsable'
  BY DEF KeysAreKept, RowsAsRequested, InstalledIsUsable, Usable, LevelOf
<1>4. WorkKeeps'
  BY <1>2 DEF KeysAreKept, WorkKeeps, Keeps, InstallKeeps
<1>5. KeysAreKnown'
  <2>1. \A other : Known(other)' => Known(other)
    BY DEF Known, NoFailure
  <2>2. \A other \in Uris : Settled(other) => Settled(other)'
    BY DEF Settled, LevelOf
  <2>3. ASSUME NEW u \in Threads, Working(thread'[u]), Known(thread[u].uri)'
        PROVE  InProgress(thread[u])'
    <3>1. InProgress(thread[u]) /\ thread'[u] = thread[u]
      BY <1>2, <2>1, <2>3 DEF KeysAreKept, KeysAreKnown
    <3> QED
      BY <3>1 DEF InProgress, Settled, LevelOf
  <2>4. ASSUME NEW other \in Uris, Known(other)'
        PROVE  \/ Settled(other)'
               \/ \E u \in Threads : Working(thread'[u]) /\ thread'[u].uri = other
    <3>1. Settled(other) \/ \E u \in Threads : Working(thread[u]) /\ thread[u].uri = other
      BY <2>1, <2>4 DEF KeysAreKept, KeysAreKnown
    <3> QED
      BY <1>2, <2>2, <3>1
  <2> QED
    BY <2>3, <2>4 DEF KeysAreKnown
<1> QED
  BY <1>3, <1>4, <1>5 DEF KeysAreKept

-----------------------------------------------------------------------------
(* Each step keeps them                                                    *)

KeysGoOn == Apart /\ Apart' /\ KeysAreKept => KeysAreKept'
AllIsKept == TypeOK' /\ RoomIsKept' /\ KeysGoOn

\* An install that begins has seen room, and finds its credential settled.
LEMMA InstallBeginKeeps ==
    ASSUME TypeOK, RoomIsKept, NEW t \in Threads, InstallBegin(t)
    PROVE  AllIsKept
<1>0. PICK uri \in Uris : \E level \in Requested[Store[uri]] :
         /\ HasRoom(uri) /\ installed' = installed \ {uri}
         /\ Goto(t, Request(IF MustReplace(uri, level) THEN "row" ELSE "import", "install",
                            uri, level, KeyLevel(uri, level), LevelOf(uri), {}))
  BY DEF InstallBegin
<1>1. PICK level \in Requested[Store[uri]] :
         /\ HasRoom(uri) /\ installed' = installed \ {uri}
         /\ Goto(t, Request(IF MustReplace(uri, level) THEN "row" ELSE "import", "install",
                            uri, level, KeyLevel(uri, level), LevelOf(uri), {}))
  BY <1>0
<1> DEFINE request == Request(IF MustReplace(uri, level) THEN "row" ELSE "import", "install",
                              uri, level, KeyLevel(uri, level), LevelOf(uri), {})
<1>2. Store[uri] \in Stores /\ level \in Levels /\ row[uri] \in Levels \cup {NoRow}
  BY CredStoreAssumption DEF TypeOK
<1>3. LevelOf(uri) \in Levels /\ KeyLevel(uri, level) \in Levels
  BY <1>2 DEF KeyLevel, LevelOf, Stores, Levels
<1>4. PICK r \in Requests :
         /\ r = request /\ r.op = "install" /\ r.uri = uri /\ r.level = level
         /\ r.imports = KeyLevel(uri, level) /\ r.deletes = LevelOf(uri)
         /\ r.pc = IF MustReplace(uri, level) THEN "row" ELSE "import"
  BY <1>2, <1>3, NewRequest
<1>5. Goto(t, r) /\ r \in AllRequests
  BY <1>1, <1>4 DEF AllRequests
<1> HIDE DEF request
<1>6. UNCHANGED <<file, key, row, diverted, faults, crashes>> /\ ~Working(thread[t])
  BY DEF InstallBegin, At, Working
<1>7. Working(r) /\ InstallHasLevel(r)
  BY <1>3, <1>4 DEF Working, InstallHasLevel
<1>8. TypeOK'
  <2>1. /\ file' \subseteq Uris /\ key' \in [Uris -> SUBSET Levels]
        /\ row' \in [Uris -> Levels \cup {NoRow}] /\ installed' \subseteq Uris /\ diverted' \subseteq Uris
        /\ faults' \in Nat /\ crashes' \in Nat
    BY <1>1, <1>6 DEF TypeOK
  <2> QED
    BY <1>5, <1>7, <2>1, StepTypes
<1>9. RoomIsKept'
  <2>1. file' \subseteq Uris /\ file' = file
    BY <1>6 DEF TypeOK
  <2> QED
    BY <1>1, <1>4, <1>5, <2>1, StepRoom
<1>10. ASSUME Apart, Apart', KeysAreKept PROVE KeysAreKept'
  <2>1. uri \notin diverted /\ row[uri] # NoRow => OwnLevel(uri, row[uri])
    BY <1>10 DEF KeysAreKept, RowsAsRequested
  <2>2. /\ uri \notin diverted => OwnLevel(uri, KeyLevel(uri, level))
        /\ Store[uri] = "private" => KeyLevel(uri, level) = level
    BY <1>2, <2>1 DEF KeyLevel, OwnLevel
  <2>3. Keeps(r)'
    BY <1>1, <1>4, <1>6, <1>7, <2>1, <2>2 DEF Keeps, InstallKeeps, OwnLevel
  <2>4. ASSUME Known(uri)' PROVE Known(uri) /\ InProgress(r)'
    <3>1. Known(uri)
      BY <1>6, <2>4 DEF Known, NoFailure
    <3>2. \A u \in Threads \ {t} : Working(thread[u]) => thread[u].uri # uri
      BY <1>4, <1>5, <1>7, <1>10, NobodyElse
    <3>3. Settled(uri)
      BY <1>6, <1>10, <3>1, <3>2, KeyIsKnown
    <3>4. CASE MustReplace(uri, level)
      BY <1>4, <1>6, <3>1, <3>3, <3>4 DEF InProgress, Settled, LevelOf
    <3>5. CASE ~MustReplace(uri, level)
      <4>1. row[uri] \in {NoRow, KeyLevel(uri, level)}
        BY <1>2, <2>1, <3>1, <3>5 DEF MustReplace, KeyLevel, OwnLevel, Stores, Known
      <4>2. key[uri] \subseteq {KeyLevel(uri, level)}
        BY <3>3, <4>1 DEF Settled, LevelOf
      <4> QED
        BY <1>4, <1>6, <3>1, <3>5, <4>2 DEF InProgress
    <3> QED
      BY <3>4, <3>5
  <2>5. \A other \in Uris \ {uri} :
           /\ key'[other] = key[other] /\ row'[other] = row[other]
           /\ other \in file <=> other \in file'
           /\ other \in installed <=> other \in installed'
           /\ other \in diverted <=> other \in diverted'
    BY <1>1, <1>6
  <2>6. installed' \subseteq Uris /\ uri \notin installed' /\ RowsAsRequested'
    BY <1>1, <1>6, <1>10 DEF TypeOK, KeysAreKept, RowsAsRequested
  <2>7. NoFailure' => NoFailure
    BY <1>6 DEF NoFailure
  <2> QED
    BY <1>4, <1>5, <1>6, <1>7, <1>10, <2>3, <2>4, <2>5, <2>6, <2>7, StepKeys
<1> QED
  BY <1>8, <1>9, <1>10 DEF AllIsKept, KeysGoOn

\* A removal that begins takes its credential as it finds it, which nobody works on.
LEMMA RemovalBeginKeeps ==
    ASSUME TypeOK, RoomIsKept, NEW t \in Threads, ~Working(thread[t]),
           NEW r \in Requests, Goto(t, r), NEW uri \in Uris, r.uri = uri,
           \/ r.op = "uninstall" /\ r.pc = "row" /\ r.deletes = LevelOf(uri)
           \/ r.op \in {"all", "event"} /\ r.pc = "file",
           UNCHANGED <<file, key, row, diverted, faults, crashes>>, installed' = installed \ {uri}
    PROVE  AllIsKept
<1>1. Working(r) /\ ~Installs(r) /\ InstallHasLevel(r) /\ r \in AllRequests
  BY DEF Working, Installs, InstallHasLevel, AllRequests
<1>2. file' \subseteq Uris /\ installed' \subseteq Uris /\ diverted' \subseteq Uris
  BY DEF TypeOK
<1>3. TypeOK'
  <2>1. /\ key' \in [Uris -> SUBSET Levels] /\ row' \in [Uris -> Levels \cup {NoRow}]
        /\ faults' \in Nat /\ crashes' \in Nat
    BY DEF TypeOK
  <2> QED
    BY <1>1, <1>2, <2>1, StepTypes
<1>4. RoomIsKept'
  BY <1>1, <1>2, StepRoom
<1>5. ASSUME Apart, Apart', KeysAreKept PROVE KeysAreKept'
  <2>1. Keeps(r)'
    BY DEF Keeps
  <2>2. ASSUME Known(uri)' PROVE Known(uri) /\ InProgress(r)'
    <3>1. Known(uri)
      BY <2>2 DEF Known, NoFailure
    <3>2. \A u \in Threads \ {t} : Working(thread[u]) => thread[u].uri # uri
      BY <1>1, <1>5, NobodyElse
    <3>3. Settled(uri)
      BY <1>5, <3>1, <3>2, KeyIsKnown
    <3> QED
      BY <3>1, <3>3 DEF InProgress, Settled, LevelOf
  <2>3. \A other \in Uris \ {uri} :
           /\ key'[other] = key[other] /\ row'[other] = row[other]
           /\ other \in file <=> other \in file'
           /\ other \in installed <=> other \in installed'
           /\ other \in diverted <=> other \in diverted'
    OBVIOUS
  <2>4. uri \notin installed' /\ RowsAsRequested'
    BY <1>5 DEF KeysAreKept, RowsAsRequested
  <2>5. NoFailure' => NoFailure
    BY DEF NoFailure
  <2> QED
    BY <1>1, <1>2, <1>5, <2>1, <2>2, <2>3, <2>4, <2>5, StepKeys
<1> QED
  BY <1>3, <1>4, <1>5 DEF AllIsKept, KeysGoOn

\* An uninstall knows the level of the key it is to delete.
LEMMA UninstallBeginKeeps ==
    ASSUME TypeOK, RoomIsKept, NEW t \in Threads, UninstallBegin(t)
    PROVE  AllIsKept
<1>1. PICK uri \in Uris :
         /\ Goto(t, Request("row", "uninstall", uri, NoRow, NoRow, LevelOf(uri), {}))
         /\ installed' = installed \ {uri}
  BY DEF UninstallBegin
<1>2. LevelOf(uri) \in Levels
  BY DEF TypeOK, LevelOf, Levels
<1>3. PICK r \in Requests :
         /\ r = Request("row", "uninstall", uri, NoRow, NoRow, LevelOf(uri), {})
         /\ r.op = "uninstall" /\ r.uri = uri /\ r.deletes = LevelOf(uri) /\ r.pc = "row"
  <2> DEFINE request == Request("row", "uninstall", uri, NoRow, NoRow, LevelOf(uri), {})
  <2>1. /\ request \in Requests /\ request.op = "uninstall" /\ request.uri = uri
        /\ request.deletes = LevelOf(uri) /\ request.pc = "row"
    BY <1>2 DEF Request, Requests
  <2> HIDE DEF request
  <2> QED
    BY <2>1 DEF request
<1>4. Goto(t, r)
  BY <1>1, <1>3
<1>5. UNCHANGED <<file, key, row, diverted, faults, crashes>> /\ ~Working(thread[t])
  BY DEF UninstallBegin, At, Working
<1> QED
  BY <1>1, <1>3, <1>4, <1>5, RemovalBeginKeeps

\* A loop takes up its next credential.
LEMMA LoopStepKeeps ==
    ASSUME TypeOK, RoomIsKept, NEW t \in Threads, LoopStep(t)
    PROVE  AllIsKept
<1>1. thread[t] \in Loops /\ ~Working(thread[t])
  BY RequestOf DEF LoopStep, At, Working
<1>2. PICK uri \in thread[t].left :
         /\ Goto(t, Request("file", thread[t].op, uri, NoRow, NoRow, NoRow, thread[t].left))
         /\ installed' = installed \ {uri}
  BY DEF LoopStep
<1>3. uri \in Uris
  BY <1>1 DEF Loops
<1>4. PICK r \in Requests :
         /\ r = Request("file", thread[t].op, uri, NoRow, NoRow, NoRow, thread[t].left)
         /\ r.op \in {"all", "event"} /\ r.uri = uri /\ r.pc = "file"
  BY <1>1, <1>3, NewRequest DEF Loops
<1>5. Goto(t, r)
  BY <1>2, <1>4
<1>6. UNCHANGED <<file, key, row, diverted, faults, crashes>>
  BY DEF LoopStep
<1> QED
  BY <1>1, <1>2, <1>3, <1>4, <1>5, <1>6, RemovalBeginKeeps

\* A loop begins with the files that are there and ends when none is left.
LEMMA LoopKeeps ==
    ASSUME TypeOK, RoomIsKept, NEW t \in Threads, RemoveAllBegin(t) \/ LoopEnd(t)
    PROVE  AllIsKept
<1>1. ~Working(thread[t]) /\ UNCHANGED <<file, key, row, installed, diverted, faults, crashes>>
  BY DEF RemoveAllBegin, LoopEnd, At, Working
<1>2. \E request \in {Idle} \cup Loops : Goto(t, request)
  <2>1. CASE RemoveAllBegin(t)
    <3>1. file \subseteq Uris
      BY DEF TypeOK
    <3> QED
      BY <2>1, <3>1 DEF RemoveAllBegin, Loop, Loops
  <2>2. CASE LoopEnd(t)
    BY <2>2 DEF LoopEnd
  <2> QED
    BY <2>1, <2>2
<1>3. PICK request \in {Idle} \cup Loops : Goto(t, request)
  BY <1>2
<1>4. request \in AllRequests /\ ~Working(request) /\ ~Installs(request)
  BY NotWorking
<1>5. TypeOK'
  <2>1. /\ file' \subseteq Uris /\ key' \in [Uris -> SUBSET Levels]
        /\ row' \in [Uris -> Levels \cup {NoRow}] /\ installed' \subseteq Uris /\ diverted' \subseteq Uris
        /\ faults' \in Nat /\ crashes' \in Nat
    BY <1>1 DEF TypeOK
  <2> QED
    BY <1>3, <1>4, <2>1, StepTypes
<1>6. RoomIsKept'
  <2>1. file' \subseteq Uris /\ file' = file
    BY <1>1 DEF TypeOK
  <2> QED
    BY <1>3, <1>4, <2>1, StepRoom
<1>7. KeysAreKept => KeysAreKept'
  BY <1>1, <1>3, <1>4, PauseKeys
<1> QED
  BY <1>5, <1>6, <1>7 DEF AllIsKept, KeysGoOn

\* The key an install imports joins none but one of its own level.
LEMMA ImportKeyKeeps ==
    ASSUME TypeOK, RoomIsKept, NEW t \in Threads, ImportKey(t)
    PROVE  AllIsKept
<1>1. Working(thread[t]) /\ thread[t].pc = "import"
  BY DEF ImportKey, At, Working
<1>2. PICK uri \in Uris, imports \in Levels :
         thread[t].uri = uri /\ thread[t].imports = imports /\ thread[t].op = "install"
  BY <1>1, RequestOf DEF InstallHasLevel
<1>3. PICK r \in Requests :
         /\ Goto(t, r) /\ Working(r) /\ r.pc = "store" /\ r.op = "install" /\ r \in AllRequests
         /\ r.uri = uri /\ r.level = thread[t].level /\ r.imports = imports
  BY <1>1, <1>2, Advances DEF ImportKey
<1>4. Installs(thread[t]) /\ InstallHasLevel(r)
  BY <1>1, <1>2, <1>3 DEF Installs, InstallHasLevel
<1>5. /\ UNCHANGED <<file, row, installed, diverted, faults, crashes>>
      /\ key' = [key EXCEPT ![uri] = @ \cup {imports}]
  BY <1>2 DEF ImportKey
<1>6. /\ key' \in [Uris -> SUBSET Levels] /\ key'[uri] = key[uri] \cup {imports}
      /\ \A other \in Uris \ {uri} : key'[other] = key[other]
  BY <1>5 DEF TypeOK
<1>7. /\ file' \subseteq Uris /\ row' \in [Uris -> Levels \cup {NoRow}]
      /\ installed' \subseteq Uris /\ diverted' \subseteq Uris /\ faults' \in Nat /\ crashes' \in Nat
  BY <1>5 DEF TypeOK
<1>8. TypeOK'
  BY <1>3, <1>4, <1>6, <1>7, StepTypes
<1>9. RoomIsKept'
  BY <1>2, <1>3, <1>4, <1>5, <1>7, StepRoom
<1>10. ASSUME Apart, Apart', KeysAreKept PROVE KeysAreKept'
  <2>1. Keeps(thread[t])
    BY <1>1, <1>10 DEF KeysAreKept, WorkKeeps
  <2>2. Keeps(r)' /\ uri \notin installed'
    BY <1>2, <1>3, <1>5, <1>6, <2>1 DEF Keeps, InstallKeeps
  <2>3. ASSUME Known(uri)' PROVE Known(uri) /\ InProgress(r)'
    <3>1. Known(uri)
      BY <1>5, <2>3 DEF Known, NoFailure
    <3>2. key[uri] \subseteq {imports}
      BY <1>1, <1>2, <1>10, <3>1 DEF KeysAreKept, KeysAreKnown, InProgress
    <3> QED
      BY <1>3, <1>6, <3>1, <3>2 DEF InProgress
  <2>4. RowsAsRequested'
    BY <1>5, <1>10 DEF KeysAreKept, RowsAsRequested
  <2>5. NoFailure' => NoFailure
    BY <1>5 DEF NoFailure
  <2> QED
    BY <1>1, <1>2, <1>3, <1>5, <1>6, <1>7, <1>10, <2>2, <2>3, <2>4, <2>5, StepKeys
<1> QED
  BY <1>8, <1>9, <1>10 DEF AllIsKept, KeysGoOn

\* The file was wanted all along.
LEMMA StoreFileKeeps ==
    ASSUME TypeOK, RoomIsKept, NEW t \in Threads, StoreFile(t)
    PROVE  AllIsKept
<1>1. Working(thread[t]) /\ thread[t].pc = "store"
  BY DEF StoreFile, At, Working
<1>2. PICK uri \in Uris :
         thread[t].uri = uri /\ thread[t].op = "install" /\ thread[t].imports \in Levels
  BY <1>1, RequestOf DEF InstallHasLevel
<1>3. PICK r \in Requests :
         /\ Goto(t, r) /\ Working(r) /\ r.pc = "insert" /\ r.op = "install" /\ r \in AllRequests
         /\ r.uri = uri /\ r.level = thread[t].level /\ r.imports = thread[t].imports
  BY <1>1, <1>2, Advances DEF StoreFile
<1>4. Installs(thread[t]) /\ InstallHasLevel(r)
  BY <1>1, <1>2, <1>3 DEF Installs, InstallHasLevel
<1>5. /\ UNCHANGED <<key, row, installed, diverted, faults, crashes>>
      /\ file' = file \cup {uri} /\ file' = file \cup {thread[t].uri}
  BY <1>2 DEF StoreFile
<1>6. /\ file' \subseteq Uris /\ key' \in [Uris -> SUBSET Levels]
      /\ row' \in [Uris -> Levels \cup {NoRow}] /\ installed' \subseteq Uris /\ diverted' \subseteq Uris
      /\ faults' \in Nat /\ crashes' \in Nat
  BY <1>5 DEF TypeOK
<1>7. TypeOK'
  BY <1>3, <1>4, <1>6, StepTypes
<1>8. RoomIsKept'
  BY <1>2, <1>3, <1>4, <1>5, <1>6, StepRoom
<1>9. ASSUME Apart, Apart', KeysAreKept PROVE KeysAreKept'
  <2>1. Keeps(thread[t])
    BY <1>1, <1>9 DEF KeysAreKept, WorkKeeps
  <2>2. Keeps(r)' /\ uri \notin installed'
    BY <1>1, <1>2, <1>3, <1>5, <2>1 DEF Keeps, InstallKeeps
  <2>3. ASSUME Known(uri)' PROVE Known(uri) /\ InProgress(r)'
    <3>1. Known(uri)
      BY <1>5, <2>3 DEF Known, NoFailure
    <3>2. key[uri] \subseteq {r.imports}
      BY <1>1, <1>2, <1>3, <1>9, <3>1 DEF KeysAreKept, KeysAreKnown, InProgress
    <3> QED
      BY <1>3, <1>5, <3>1, <3>2 DEF InProgress
  <2>4. RowsAsRequested'
    BY <1>5, <1>9 DEF KeysAreKept, RowsAsRequested
  <2>5. \A other \in Uris \ {uri} :
           /\ key'[other] = key[other] /\ row'[other] = row[other]
           /\ other \in file <=> other \in file'
           /\ other \in installed <=> other \in installed'
           /\ other \in diverted <=> other \in diverted'
    BY <1>5
  <2>6. NoFailure' => NoFailure
    BY <1>5 DEF NoFailure
  <2> QED
    BY <1>1, <1>2, <1>3, <1>6, <1>9, <2>2, <2>3, <2>4, <2>5, <2>6, StepKeys
<1> QED
  BY <1>7, <1>8, <1>9 DEF AllIsKept, KeysGoOn

\* The row names the level the key was imported at: the credential is installed.
LEMMA InsertRowKeeps ==
    ASSUME TypeOK, RoomIsKept, NEW t \in Threads, InsertRow(t)
    PROVE  AllIsKept
<1>1. Working(thread[t]) /\ thread[t].pc = "insert"
  BY DEF InsertRow, At, Working
<1>2. PICK uri \in Uris, level \in Levels \cup {NoRow} :
         /\ thread[t].uri = uri /\ thread[t].level = level /\ thread[t].op = "install"
         /\ thread[t].imports \in Levels
  BY <1>1, RequestOf DEF InstallHasLevel, Requests
<1>3. /\ UNCHANGED <<file, key, faults, crashes>> /\ Goto(t, Idle)
      /\ row' = [row EXCEPT ![uri] = level]
      /\ \/ /\ thread[t].imports = level
            /\ installed' = installed \cup {uri} /\ diverted' = diverted
         \/ /\ thread[t].imports # level
            /\ installed' = installed /\ diverted' = diverted \cup {uri}
  BY <1>2 DEF InsertRow, Reported
<1>4. /\ row' \in [Uris -> Levels \cup {NoRow}] /\ row'[uri] = level
      /\ \A other \in Uris \ {uri} : row'[other] = row[other]
  BY <1>3 DEF TypeOK
<1>5. Idle \in AllRequests /\ ~Working(Idle) /\ ~Installs(Idle)
  BY NotWorking
<1>6. /\ file' \subseteq Uris /\ key' \in [Uris -> SUBSET Levels] /\ installed' \subseteq Uris /\ diverted' \subseteq Uris
      /\ faults' \in Nat /\ crashes' \in Nat
  BY <1>3 DEF TypeOK
<1>7. TypeOK'
  BY <1>3, <1>4, <1>5, <1>6, StepTypes
<1>8. RoomIsKept'
  BY <1>3, <1>5, <1>6, StepRoom
<1>9. ASSUME Apart, Apart', KeysAreKept PROVE KeysAreKept'
  <2>1. Keeps(thread[t])
    BY <1>1, <1>9 DEF KeysAreKept, WorkKeeps
  <2>2. /\ thread[t].imports \in key[uri] /\ uri \notin installed
        /\ uri \notin diverted => OwnLevel(uri, thread[t].imports)
    BY <1>1, <1>2, <2>1 DEF Keeps, InstallKeeps
  <2>3. thread[t].imports = level => level # NoRow /\ LevelOf(uri)' = level
    <3>1. thread[t].imports = level => level # NoRow
      BY <1>2 DEF Levels, NoRow, EL1, EL2, EL4
    <3> QED
      BY <1>4, <3>1 DEF LevelOf
  <2>4. uri \in installed' => Usable(uri)'
    BY <1>3, <2>2, <2>3 DEF Usable
  <2>5. ASSUME Known(uri)' PROVE Known(uri) /\ Settled(uri)'
    <3>1. Known(uri) /\ thread[t].imports = level
      BY <1>3, <2>5 DEF Known, NoFailure
    <3>2. key[uri] \subseteq {level} /\ uri \in file
      BY <1>1, <1>2, <1>9, <3>1 DEF KeysAreKept, KeysAreKnown, InProgress
    <3> QED
      BY <1>3, <1>4, <2>3, <3>1, <3>2 DEF Settled
  <2>6. RowsAsRequested'
    <3> SUFFICES ASSUME NEW other \in Uris \ diverted', row'[other] # NoRow
                 PROVE  OwnLevel(other, row'[other])
      BY DEF RowsAsRequested, OwnLevel
    <3>1. CASE other = uri
      BY <1>3, <1>4, <2>2, <3>1
    <3>2. CASE other # uri
      BY <1>3, <1>4, <1>9, <3>2 DEF KeysAreKept, RowsAsRequested
    <3> QED
      BY <3>1, <3>2
  <2>7. \A other \in Uris \ {uri} :
           /\ key'[other] = key[other] /\ row'[other] = row[other]
           /\ other \in file <=> other \in file'
           /\ other \in installed <=> other \in installed'
           /\ other \in diverted <=> other \in diverted'
    BY <1>3, <1>4
  <2>8. NoFailure' => NoFailure
    BY <1>3 DEF NoFailure
  <2> QED
    BY <1>1, <1>2, <1>3, <1>5, <1>6, <1>9, <2>4, <2>5, <2>6, <2>7, <2>8, StepKeys
<1> QED
  BY <1>7, <1>8, <1>9 DEF AllIsKept, KeysGoOn

\* A fault is remembered.
LEMMA FaultIsFailure ==
    ASSUME TypeOK, Fault PROVE faults' \in Nat /\ ~NoFailure' /\ \A uri : ~Known(uri)'
  BY DEF TypeOK, Fault, NoFailure, Known

\* A failing install leaves the stores as they are.
LEMMA InstallFailsKeeps ==
    ASSUME TypeOK, RoomIsKept, NEW t \in Threads, InstallFails(t)
    PROVE  AllIsKept
<1>1. Working(thread[t])
  BY DEF InstallFails, Working
<1>2. PICK uri \in Uris : thread[t].uri = uri
  BY <1>1, RequestOf
<1>3. Idle \in AllRequests /\ ~Working(Idle) /\ ~Installs(Idle)
  BY NotWorking
<1>4. faults' \in Nat /\ ~NoFailure' /\ ~Known(uri)'
  BY FaultIsFailure DEF InstallFails
<1>5. UNCHANGED <<file, key, row, installed, diverted, crashes>> /\ Goto(t, Idle)
  BY DEF InstallFails
<1>6. /\ file' \subseteq Uris /\ key' \in [Uris -> SUBSET Levels]
      /\ row' \in [Uris -> Levels \cup {NoRow}] /\ installed' \subseteq Uris /\ diverted' \subseteq Uris /\ crashes' \in Nat
  BY <1>5 DEF TypeOK
<1>7. TypeOK'
  BY <1>3, <1>4, <1>5, <1>6, StepTypes
<1>8. RoomIsKept'
  BY <1>3, <1>5, <1>6, StepRoom
<1>9. ASSUME Apart, Apart', KeysAreKept PROVE KeysAreKept'
  <2>1. uri \notin installed'
    BY <1>1, <1>2, <1>5, <1>9 DEF KeysAreKept, WorkKeeps, Keeps
  <2>2. RowsAsRequested'
    BY <1>5, <1>9 DEF KeysAreKept, RowsAsRequested
  <2>3. \A other \in Uris \ {uri} :
           /\ key'[other] = key[other] /\ row'[other] = row[other]
           /\ other \in file <=> other \in file'
           /\ other \in installed <=> other \in installed'
           /\ other \in diverted <=> other \in diverted'
    BY <1>5
  <2>4. NoFailure' => NoFailure
    BY <1>4
  <2> QED
    BY <1>1, <1>2, <1>3, <1>4, <1>5, <1>6, <1>9, <2>1, <2>2, <2>3, <2>4, StepKeys
<1> QED
  BY <1>7, <1>8, <1>9 DEF AllIsKept, KeysGoOn

\* However a removal ends, an install goes on to import where no key is left, and
\* otherwise nobody works on the credential any more.
LEMMA RemovalEndKeeps ==
    ASSUME TypeOK, RoomIsKept, NEW t \in Threads, Working(thread[t]), RemovalEnds(t),
           NEW uri \in Uris, thread[t].uri = uri,
           UNCHANGED <<file, row, installed, diverted, crashes>>, faults' \in Nat,
           key' \in [Uris -> SUBSET Levels],
           \A other \in Uris \ {uri} : key'[other] = key[other],
           NoFailure' => NoFailure,
           KeysAreKept /\ Known(uri)' => Known(uri) /\ key'[uri] = {}
    PROVE  AllIsKept
<1>1. thread[t].uri = uri
  OBVIOUS
<1>2. PICK r \in AllRequests :
         /\ Goto(t, r)
         /\ Working(r) =>
               /\ r.pc = "import" /\ r.op = "install"
               /\ r.uri = thread[t].uri /\ r.level = thread[t].level
               /\ r.imports = thread[t].imports /\ thread[t].op = "install"
  BY RemovalEndsWith
<1>3. Installs(r) => Installs(thread[t]) /\ r.uri = thread[t].uri
  BY <1>2 DEF Installs
<1>4. Working(r) => InstallHasLevel(r)
  BY <1>2, RequestOf DEF InstallHasLevel
<1>5. /\ file' \subseteq Uris /\ row' \in [Uris -> Levels \cup {NoRow}]
      /\ installed' \subseteq Uris /\ diverted' \subseteq Uris /\ crashes' \in Nat
  BY DEF TypeOK
<1>6. TypeOK'
  BY <1>2, <1>4, <1>5, StepTypes
<1>7. RoomIsKept'
  BY <1>2, <1>3, <1>5, StepRoom
<1>8. ASSUME Apart, Apart', KeysAreKept PROVE KeysAreKept'
  <2>1. Keeps(thread[t])
    BY <1>8 DEF KeysAreKept, WorkKeeps
  <2>2. uri \notin installed'
    BY <1>1, <2>1 DEF Keeps
  <2>3. Working(r) => r.uri = uri /\ Keeps(r)'
    BY <1>1, <1>2, <2>1, <2>2 DEF Keeps, InstallKeeps
  <2>4. ASSUME Known(uri)'
        PROVE  Known(uri) /\ IF Working(r) THEN InProgress(r)' ELSE Settled(uri)'
    <3>1. Known(uri) /\ key'[uri] = {}
      BY <1>1, <1>8, <2>4
    <3>2. Settled(uri)'
      BY <3>1 DEF Settled
    <3>3. Working(r) => InProgress(r)'
      BY <1>1, <1>2, <3>1 DEF InProgress
    <3> QED
      BY <3>1, <3>2, <3>3
  <2>5. RowsAsRequested'
    BY <1>8 DEF KeysAreKept, RowsAsRequested
  <2>6. \A other \in Uris \ {uri} :
           /\ key'[other] = key[other] /\ row'[other] = row[other]
           /\ other \in file <=> other \in file'
           /\ other \in installed <=> other \in installed'
           /\ other \in diverted <=> other \in diverted'
    BY <1>1
  <2>7. NoFailure' => NoFailure
    OBVIOUS
  <2> QED
    BY <1>1, <1>2, <1>5, <1>8, <2>2, <2>3, <2>4, <2>5, <2>6, <2>7, StepKeys
<1> QED
  BY <1>6, <1>7, <1>8 DEF AllIsKept, KeysGoOn

\* Either something failed, or there was no file and so no key either.
LEMMA RemoveFailsKeeps ==
    ASSUME TypeOK, RoomIsKept, NEW t \in Threads, RemoveFails(t)
    PROVE  AllIsKept
<1>1. Working(thread[t])
  BY DEF RemoveFails, At, Working
<1>0. PICK uri \in Uris : thread[t].uri = uri
  BY <1>1, RequestOf
<1>2. /\ faults' \in Nat /\ (NoFailure' => NoFailure)
      /\ KeysAreKept /\ Known(uri)' => Known(uri) /\ key'[uri] = {}
  <2>1. CASE thread[t].pc \in {"row", "file"} /\ Fault
    BY <2>1, FaultIsFailure
  <2>2. CASE At(t, "file") /\ thread[t].uri \notin file /\ UNCHANGED faults
    <3>1. faults' \in Nat /\ key' = key /\ (NoFailure' => NoFailure) /\ (Known(uri)' => Known(uri))
      BY <2>2 DEF RemoveFails, Known, NoFailure, TypeOK
    <3>2. ASSUME KeysAreKept, Known(uri) PROVE key[uri] = {}
      <4>1. InProgress(thread[t])
        BY <1>0, <1>1, <3>2 DEF KeysAreKept, KeysAreKnown
      <4> QED
        BY <1>0, <2>2, <4>1 DEF At, InProgress, Settled
    <3> QED
      BY <3>1, <3>2
  <2> QED
    BY <2>1, <2>2 DEF RemoveFails
<1>3. /\ key' \in [Uris -> SUBSET Levels] /\ RemovalEnds(t)
      /\ \A other \in Uris \ {uri} : key'[other] = key[other]
      /\ UNCHANGED <<file, row, installed, diverted, crashes>>
  BY DEF RemoveFails, TypeOK
<1> QED
  BY <1>0, <1>1, <1>2, <1>3, RemovalEndKeeps

\* The level the key was at was taken along: no key is left.
LEMMA RemoveKeyKeeps ==
    ASSUME TypeOK, RoomIsKept, NEW t \in Threads, RemoveKey(t)
    PROVE  AllIsKept
<1>1. Working(thread[t]) /\ thread[t].pc = "key"
  BY DEF RemoveKey, At, Working
<1>2. PICK uri \in Uris : thread[t].uri = uri
  BY <1>1, RequestOf
<1>3. UNCHANGED <<file, row, installed, diverted, crashes>> /\ RemovalEnds(t)
  BY DEF RemoveKey
<1>4. CASE Fault /\ UNCHANGED key
  <2>1. faults' \in Nat /\ ~NoFailure' /\ ~Known(uri)'
    BY <1>4, FaultIsFailure
  <2>2. key' \in [Uris -> SUBSET Levels] /\ key' = key
    BY <1>4 DEF TypeOK
  <2> QED
    BY <1>1, <1>2, <1>3, <2>1, <2>2, RemovalEndKeeps
<1>5. CASE key' = [key EXCEPT ![thread[t].uri] = @ \ {thread[t].deletes}] /\ UNCHANGED faults
  <2>1. /\ key' \in [Uris -> SUBSET Levels] /\ key'[uri] = key[uri] \ {thread[t].deletes}
        /\ \A other \in Uris \ {uri} : key'[other] = key[other]
    BY <1>2, <1>5 DEF TypeOK
  <2>2. faults' \in Nat /\ (NoFailure' => NoFailure) /\ (Known(uri)' => Known(uri))
    BY <1>3, <1>5 DEF TypeOK, Known, NoFailure
  <2>3. ASSUME KeysAreKept, Known(uri) PROVE key'[uri] = {}
    <3>1. key[uri] \subseteq {thread[t].deletes}
      BY <1>1, <1>2, <2>3 DEF KeysAreKept, KeysAreKnown, InProgress
    <3> QED
      BY <2>1, <3>1
  <2> QED
    BY <1>1, <1>2, <1>3, <2>1, <2>2, <2>3, RemovalEndKeeps
<1> QED
  BY <1>4, <1>5 DEF RemoveKey

\* The level of the key is taken along before the row is gone.
LEMMA RemoveRowKeeps ==
    ASSUME TypeOK, RoomIsKept, NEW t \in Threads, RemoveRow(t)
    PROVE  AllIsKept
<1>1. Working(thread[t]) /\ thread[t].pc = "row" /\ thread[t] \in Requests
  BY RequestOf DEF RemoveRow, At, Working
<1>2. PICK uri \in Uris : thread[t].uri = uri
  BY <1>1, RequestOf
<1>3. /\ UNCHANGED <<file, key, installed, diverted, faults, crashes>>
      /\ row' = IF thread[t].op = "event" THEN row ELSE [row EXCEPT ![uri] = NoRow]
  BY <1>2 DEF RemoveRow
<1>4. /\ row' \in [Uris -> Levels \cup {NoRow}] /\ row'[uri] \in {row[uri], NoRow}
      /\ \A other \in Uris \ {uri} : row'[other] = row[other]
  BY <1>3 DEF TypeOK
<1>5. PICK deletes \in Levels : deletes = LevelOf(uri)
  BY DEF TypeOK, LevelOf, Levels
<1>6. \E next \in Requests :
         /\ Goto(t, next) /\ next.op = thread[t].op /\ next.uri = uri
         /\ next.level = thread[t].level /\ next.imports = thread[t].imports
         /\ \/ FileFirst(t) /\ next.pc = "key" /\ next.deletes = deletes
            \/ ~FileFirst(t) /\ next.pc = "file" /\ next.deletes = thread[t].deletes
  <2>1. CASE FileFirst(t)
    <3> DEFINE next == [thread[t] EXCEPT !.pc = "key", !.deletes = deletes]
    <3>1. Goto(t, next)
      BY <1>2, <1>5, <2>1 DEF RemoveRow
    <3>2. /\ next \in Requests /\ next.op = thread[t].op /\ next.uri = uri
          /\ next.level = thread[t].level /\ next.imports = thread[t].imports
          /\ next.pc = "key" /\ next.deletes = deletes
      BY <1>1, <1>2 DEF Requests
    <3> HIDE DEF next
    <3> QED
      BY <2>1, <3>1, <3>2
  <2>2. CASE ~FileFirst(t)
    BY <1>1, <1>2, <2>2, Advances DEF RemoveRow
  <2> QED
    BY <2>1, <2>2
<1>7. PICK r \in Requests :
         /\ Goto(t, r) /\ r.op = thread[t].op /\ r.uri = uri
         /\ r.level = thread[t].level /\ r.imports = thread[t].imports
         /\ \/ FileFirst(t) /\ r.pc = "key" /\ r.deletes = deletes
            \/ ~FileFirst(t) /\ r.pc = "file" /\ r.deletes = thread[t].deletes
  BY <1>6
<1>8. Working(r) /\ r \in AllRequests /\ (Installs(r) => Installs(thread[t]))
  BY <1>1, <1>7 DEF Working, Installs, AllRequests
<1>9. InstallHasLevel(r)
  BY <1>1, <1>7, RequestOf DEF InstallHasLevel
<1>10. /\ file' \subseteq Uris /\ key' \in [Uris -> SUBSET Levels] /\ installed' \subseteq Uris /\ diverted' \subseteq Uris
       /\ faults' \in Nat /\ crashes' \in Nat
  BY <1>3 DEF TypeOK
<1>11. TypeOK'
  BY <1>4, <1>7, <1>8, <1>9, <1>10, StepTypes
<1>12. RoomIsKept'
  BY <1>2, <1>3, <1>7, <1>8, <1>10, StepRoom
<1>13. ASSUME Apart, Apart', KeysAreKept PROVE KeysAreKept'
  <2>1. Keeps(thread[t])
    BY <1>1, <1>13 DEF KeysAreKept, WorkKeeps
  <2>2. Keeps(r)' /\ uri \notin installed'
    BY <1>1, <1>2, <1>3, <1>7, <2>1 DEF Keeps, InstallKeeps
  <2>3. ASSUME Known(uri)' PROVE Known(uri) /\ InProgress(r)'
    <3>1. Known(uri)
      BY <1>3, <2>3 DEF Known, NoFailure
    <3>2. InProgress(thread[t])
      BY <1>1, <1>2, <1>13, <3>1 DEF KeysAreKept, KeysAreKnown
    <3>3. CASE FileFirst(t)
      <4>1. key[uri] \subseteq {deletes}
        BY <1>1, <1>2, <1>5, <3>2, <3>3 DEF InProgress, FileFirst
      <4> QED
        BY <1>3, <1>7, <3>1, <3>3, <4>1 DEF InProgress
    <3>4. CASE ~FileFirst(t)
      <4>1. key[uri] \subseteq {thread[t].deletes} /\ (key[uri] # {} => uri \in file)
        BY <1>1, <1>2, <3>2, <3>4 DEF InProgress, FileFirst, Settled
      <4> QED
        BY <1>3, <1>7, <3>1, <3>4, <4>1 DEF InProgress, FileFirst
    <3> QED
      BY <3>3, <3>4
  <2>4. RowsAsRequested'
    <3> SUFFICES ASSUME NEW other \in Uris \ diverted', row'[other] # NoRow
                 PROVE  OwnLevel(other, row'[other])
      BY DEF RowsAsRequested, OwnLevel
    <3>1. row'[other] = row[other] /\ other \notin diverted
      BY <1>3, <1>4
    <3> QED
      BY <1>13, <3>1 DEF KeysAreKept, RowsAsRequested
  <2>5. \A other \in Uris \ {uri} :
           /\ key'[other] = key[other] /\ row'[other] = row[other]
           /\ other \in file <=> other \in file'
           /\ other \in installed <=> other \in installed'
           /\ other \in diverted <=> other \in diverted'
    BY <1>3, <1>4
  <2>6. NoFailure' => NoFailure
    BY <1>3 DEF NoFailure
  <2> QED
    BY <1>1, <1>2, <1>7, <1>8, <1>10, <1>13, <2>2, <2>3, <2>4, <2>5, <2>6, StepKeys
<1> QED
  BY <1>11, <1>12, <1>13 DEF AllIsKept, KeysGoOn

\* The file goes before the row or after it.
LEMMA RemoveFileKeeps ==
    ASSUME TypeOK, RoomIsKept, NEW t \in Threads, RemoveFile(t)
    PROVE  AllIsKept
<1>1. Working(thread[t]) /\ thread[t].pc = "file"
  BY DEF RemoveFile, At, Working
<1>2. PICK uri \in Uris : thread[t].uri = uri
  BY <1>1, RequestOf
<1>3. UNCHANGED <<key, row, installed, diverted, faults, crashes>> /\ file' = file \ {uri}
  BY <1>2 DEF RemoveFile
<1>4. PICK r \in Requests :
         /\ Goto(t, r) /\ Working(r) /\ r.op = thread[t].op /\ r.uri = uri /\ r \in AllRequests
         /\ r.level = thread[t].level /\ r.imports = thread[t].imports
         /\ r.deletes = thread[t].deletes
         /\ r.pc = IF FileFirst(t) THEN "row" ELSE "key"
  <2>1. CASE FileFirst(t)
    BY <1>1, <1>2, <2>1, Advances DEF RemoveFile
  <2>2. CASE ~FileFirst(t)
    BY <1>1, <1>2, <2>2, Advances DEF RemoveFile
  <2> QED
    BY <2>1, <2>2
<1>5. Installs(r) => Installs(thread[t])
  BY <1>1, <1>4 DEF Installs
<1>6. InstallHasLevel(r)
  BY <1>1, <1>4, RequestOf DEF InstallHasLevel
<1>7. /\ file' \subseteq Uris /\ file' \subseteq file /\ key' \in [Uris -> SUBSET Levels]
      /\ row' \in [Uris -> Levels \cup {NoRow}]
      /\ installed' \subseteq Uris /\ diverted' \subseteq Uris /\ faults' \in Nat /\ crashes' \in Nat
  BY <1>3 DEF TypeOK
<1>8. TypeOK'
  BY <1>4, <1>6, <1>7, StepTypes
<1>9. RoomIsKept'
  BY <1>2, <1>4, <1>5, <1>7, StepRoom
<1>10. ASSUME Apart, Apart', KeysAreKept PROVE KeysAreKept'
  <2>1. Keeps(thread[t])
    BY <1>1, <1>10 DEF KeysAreKept, WorkKeeps
  <2>2. Keeps(r)' /\ uri \notin installed'
    BY <1>2, <1>3, <1>4, <2>1 DEF Keeps, InstallKeeps
  <2>3. ASSUME Known(uri)' PROVE Known(uri) /\ InProgress(r)'
    <3>1. Known(uri)
      BY <1>3, <2>3 DEF Known, NoFailure
    <3>2. InProgress(thread[t])
      BY <1>1, <1>2, <1>10, <3>1 DEF KeysAreKept, KeysAreKnown
    <3>3. CASE FileFirst(t)
      <4>1. key[uri] \subseteq {LevelOf(uri)}
        BY <1>1, <1>2, <3>2, <3>3 DEF InProgress, FileFirst, Settled
      <4> QED
        BY <1>3, <1>4, <3>1, <3>3, <4>1 DEF InProgress, FileFirst, LevelOf
    <3>4. CASE ~FileFirst(t)
      <4>1. key[uri] \subseteq {thread[t].deletes}
        BY <1>1, <1>2, <3>2, <3>4 DEF InProgress, FileFirst
      <4> QED
        BY <1>3, <1>4, <3>1, <3>4, <4>1 DEF InProgress
    <3> QED
      BY <3>3, <3>4
  <2>4. RowsAsRequested'
    BY <1>3, <1>10 DEF KeysAreKept, RowsAsRequested
  <2>5. \A other \in Uris \ {uri} :
           /\ key'[other] = key[other] /\ row'[other] = row[other]
           /\ other \in file <=> other \in file'
           /\ other \in installed <=> other \in installed'
           /\ other \in diverted <=> other \in diverted'
    BY <1>3
  <2>6. NoFailure' => NoFailure
    BY <1>3 DEF NoFailure
  <2> QED
    BY <1>1, <1>2, <1>4, <1>7, <1>10, <2>2, <2>3, <2>4, <2>5, <2>6, StepKeys
<1> QED
  BY <1>8, <1>9, <1>10 DEF AllIsKept, KeysGoOn

\* A death forgets the requests and leaves the stores as they are.
LEMMA CrashKeeps ==
    ASSUME TypeOK, RoomIsKept, Crash
    PROVE  AllIsKept
<1>1. /\ UNCHANGED <<file, key, row, installed, diverted, faults>> /\ crashes' = crashes + 1
      /\ thread' = [t \in Threads |-> Idle]
  BY DEF Crash
<1>2. \A t \in Threads : thread'[t] = Idle
  BY <1>1
<1>3. Idle \in AllRequests /\ ~Working(Idle) /\ ~Installs(Idle)
  BY NotWorking
<1>4. TypeOK'
  BY <1>1, <1>2, <1>3 DEF TypeOK
<1>5. RoomIsKept'
  <2>1. Wanted' = {}
    BY <1>2, <1>3 DEF Wanted
  <2>2. IsFiniteSet(file \cup Wanted)
    BY WantedAreFew, FS_Union DEF RoomIsKept
  <2>3. MaxCount + Cardinality(Threads) - 1 \in Nat
    <3>1. Cardinality(Threads) \in Nat
      BY CredStoreAssumption, FS_CardinalityType
    <3> QED
      BY <3>1, CredStoreAssumption
  <2>4. ASSUME NEW store \in Stores
        PROVE  Cardinality(InStore(file' \cup Wanted', store)) <= MaxCount + Cardinality(Threads) - 1
    <3>1. IsFiniteSet(InStore(file \cup Wanted, store))
      BY <2>2, FS_Subset DEF InStore
    <3>2. InStore(file' \cup Wanted', store) \in SUBSET InStore(file \cup Wanted, store)
      BY <1>1, <2>1 DEF InStore
    <3>3. Cardinality(InStore(file \cup Wanted, store)) <= MaxCount + Cardinality(Threads) - 1
      BY DEF RoomIsKept
    <3> QED
      BY <2>3, <3>1, <3>2, <3>3, PartIsSmaller
  <2> QED
    BY <1>1, <2>4 DEF RoomIsKept, InStore
<1>6. ASSUME KeysAreKept PROVE KeysAreKept'
  <2>1. WorkKeeps'
    BY <1>2, <1>3 DEF WorkKeeps
  <2>2. InstalledIsUsable' /\ RowsAsRequested'
    BY <1>1, <1>6 DEF KeysAreKept, InstalledIsUsable, RowsAsRequested, Usable, LevelOf
  <2>3. ~NoFailure'
    BY <1>1 DEF TypeOK, NoFailure
  <2> QED
    BY <2>1, <2>2, <2>3 DEF KeysAreKept, KeysAreKnown, Known
<1> QED
  BY <1>4, <1>5, <1>6 DEF AllIsKept, KeysGoOn

\* Nothing changes.
LEMMA StutterKeeps ==
    ASSUME TypeOK, RoomIsKept, UNCHANGED vars
    PROVE  AllIsKept
<1>1. TypeOK'
  BY DEF vars, TypeOK
<1>2. RoomIsKept'
  BY DEF vars, RoomIsKept, Wanted, InStore
<1>3. ASSUME KeysAreKept PROVE KeysAreKept'
  <2>1. InstalledIsUsable' /\ RowsAsRequested' /\ WorkKeeps'
    BY <1>3 DEF vars, KeysAreKept, InstalledIsUsable, Usable, LevelOf, RowsAsRequested, WorkKeeps,
                Keeps, InstallKeeps
  <2>2. KeysAreKnown'
    BY <1>3 DEF vars, KeysAreKept, KeysAreKnown, Known, NoFailure, InProgress, Settled, LevelOf
  <2> QED
    BY <2>1, <2>2 DEF KeysAreKept
<1> QED
  BY <1>1, <1>2, <1>3 DEF AllIsKept, KeysGoOn

\* Every step keeps what must be kept.
LEMMA NextKeeps ==
    ASSUME TypeOK, RoomIsKept, [Next]_vars
    PROVE  AllIsKept
<1>1. ASSUME NEW t \in Threads, ThreadStep(t) PROVE AllIsKept
  BY <1>1, InstallBeginKeeps, ImportKeyKeeps, StoreFileKeeps, InsertRowKeeps, InstallFailsKeeps,
     UninstallBeginKeeps, LoopKeeps, LoopStepKeeps, RemoveRowKeeps, RemoveFileKeeps,
     RemoveFailsKeeps, RemoveKeyKeeps DEF ThreadStep
<1> QED
  BY <1>1, CrashKeeps, StutterKeeps DEF Next

\* What an earlier release left is within the limit, and no install is under way.
LEMMA InitEstablishes ==
    ASSUME Init, UpgradedHaveRoom
    PROVE  TypeOK /\ RoomIsKept
<1>1. ~Working(Idle) /\ ~Installs(Idle) /\ Idle \in AllRequests
  BY NotWorking
<1>2. EL1 \in Levels /\ \A t \in Threads : thread[t] = Idle
  BY DEF Init, EL1, Levels
<1>3. TypeOK
  BY <1>1, <1>2, CredStoreAssumption DEF Init, TypeOK
<1>4. Wanted = {}
  BY <1>1, <1>2 DEF Wanted
<1>5. Cardinality(Threads) \in Nat \ {0}
  BY CredStoreAssumption, FS_CardinalityType, FS_EmptySet
<1>6. ASSUME NEW store \in Stores
      PROVE  Cardinality(InStore(file \cup Wanted, store)) <= MaxCount + Cardinality(Threads) - 1
  <2>1. file \cup Wanted = Upgraded
    BY <1>4 DEF Init
  <2>2. Cardinality(InStore(Upgraded, store)) <= MaxCount
    BY DEF UpgradedHaveRoom, InStore
  <2>3. Cardinality(InStore(Upgraded, store)) \in Nat
    <3>1. IsFiniteSet(InStore(Upgraded, store))
      BY FS_Subset DEF UpgradedHaveRoom, InStore
    <3> QED
      BY <3>1, FS_CardinalityType
  <2>4. Cardinality(InStore(Upgraded, store)) <= MaxCount + Cardinality(Threads) - 1
    BY <1>5, <2>2, <2>3, CredStoreAssumption
  <2> QED
    BY <2>1, <2>4
<1>7. IsFiniteSet(file)
  BY DEF Init, UpgradedHaveRoom
<1> QED
  BY <1>3, <1>6, <1>7 DEF RoomIsKept

\* It is settled, too.
LEMMA InitSettles ==
    ASSUME Init, NoPublicUpgraded
    PROVE  KeysAreKept
<1>1. ~Working(Idle) /\ \A t \in Threads : thread[t] = Idle
  BY NotWorking DEF Init
<1>2. EL1 # NoRow
  BY DEF EL1, NoRow
<1>3. \A uri \in Uris : Settled(uri) /\ (uri \in Upgraded => Usable(uri))
  BY <1>2 DEF Init, Settled, Usable, LevelOf
<1>4. RowsAsRequested
  BY DEF Init, NoPublicUpgraded, RowsAsRequested, OwnLevel
<1>5. InstalledIsUsable
  BY <1>3, CredStoreAssumption DEF Init, InstalledIsUsable
<1>6. WorkKeeps
  BY <1>1 DEF WorkKeeps
<1>7. KeysAreKnown
  BY <1>1, <1>3 DEF KeysAreKnown
<1> QED
  BY <1>4, <1>5, <1>6, <1>7 DEF KeysAreKept

-----------------------------------------------------------------------------
(* Theorems                                                                *)

\* The types, and what a store holds or may yet be given: the count CmCheckCertCount
\* takes is never out of date by more than the installs of the other threads.
THEOREM StoresHaveRoom ==
    ASSUME UpgradedHaveRoom
    PROVE  Spec => [](TypeOK /\ RoomIsKept)
<1>1. Init => TypeOK /\ RoomIsKept
  BY InitEstablishes
<1>2. TypeOK /\ RoomIsKept /\ [Next]_vars => (TypeOK /\ RoomIsKept)'
  BY NextKeeps DEF AllIsKept
<1> QED
  BY <1>1, <1>2, PTL DEF Spec

\* CmCheckCertCount keeps each store within MAX_COUNT_CERTIFICATE, updates included,
\* but for one certificate of each further thread.
THEOREM LimitHolds ==
    ASSUME UpgradedHaveRoom
    PROVE  Spec => []CountWithinLimit
<1>1. TypeOK /\ RoomIsKept => CountWithinLimit
  BY RoomIsLimit
<1> QED
  BY <1>1, StoresHaveRoom, PTL

\* As long as no two requests are about one credential: where the key of a credential is
\* at every step of the request that works on it, and the level an install counts on.
THEOREM StoresAreKept ==
    ASSUME UpgradedHaveRoom, NoPublicUpgraded
    PROVE  Spec /\ []Apart => []KeysAreKept
<1>1. Init => KeysAreKept
  BY InitSettles
<1>2. TypeOK /\ RoomIsKept /\ [Next]_vars /\ Apart /\ Apart' /\ KeysAreKept => KeysAreKept'
  BY NextKeeps DEF AllIsKept, KeysGoOn
<1> QED
  BY <1>1, <1>2, StoresHaveRoom, PTL DEF Spec

\* The key of what was reported as installed is at the level its row names, whatever
\* failed or died before, and whatever is done to other credentials at the same time.
THEOREM InstalledStaysUsable ==
    ASSUME UpgradedHaveRoom, NoPublicUpgraded
    PROVE  Spec /\ []Apart => []InstalledIsUsable
<1>1. KeysAreKept => InstalledIsUsable
  BY DEF KeysAreKept
<1> QED
  BY <1>1, StoresAreKept, PTL

\* As long as nothing fails or dies, the removals and replacements of
\* cert_manager.c and cert_manager_app_cert_process.c leave no key that no row finds.
THEOREM NoKeyIsOrphaned ==
    ASSUME UpgradedHaveRoom, NoPublicUpgraded
    PROVE  Spec /\ []Apart => []NoOrphanKey
<1>1. KeysAreKept => NoOrphanKey
  BY DEF KeysAreKept, KeysAreKnown, Known, NoFailure, NoOrphanKey, Quiet, At, Working, Settled
<1> QED
  BY <1>1, StoresAreKept, PTL

\* One request at a time is always apart: what the run creds checks.
THEOREM OneAtATimeKeepsBoth ==
    ASSUME OneAtATime, UpgradedHaveRoom, NoPublicUpgraded
    PROVE  Spec => [](InstalledIsUsable /\ NoOrphanKey)
<1>1. OneAtATime => Apart
  BY DEF OneAtATime, Apart
<1>2. OneAtATime
  OBVIOUS
<1> HIDE DEF OneAtATime
<1> QED
  BY <1>1, <1>2, InstalledStaysUsable, NoKeyIsOrphaned, PTL
=============================================================================
