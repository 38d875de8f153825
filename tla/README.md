# A verification project for the certificate manager

TLA+ models of the OpenHarmony certificate manager (`security_certificate_manager`),
the TLC runs over them and theorems checked by TLAPS. The service stores user CA
certificates and application credentials (a certificate file, a private key in the
HUKS key service, a row in a database), lets the owner of a public credential grant
its use to other applications, and signs with it on behalf of callers. The models
reach from a call in JavaScript through the SDK and the IPC layer down to the stores.

Everything here was written from the C and C++ sources under `src/`. Paths below
are relative to it; `core/` stands for
`services/cert_manager_standard/cert_manager_engine/main/core/src/`, `SVC` for
`services/cert_manager_standard/cert_manager_service/main/os_dependency/`, `CLI` for
`frameworks/cert_manager_standard/main/os_dependency/cm_ipc/src/` and `KIT` for
`interfaces/kits/napi/src/`.

## Inventory

| Component | State | Operations | What is hard | What makes it correct |
|---|---|---|---|---|
| Session table, `core/cert_manager_session_mgr.c` | `g_sessionList`, `g_sessionCount`, under `g_lock` | create, query, delete by handle; delete by user, uid, uri or all; eviction at 15 | the lock covers one function, not a call: query, HUKS call and delete interleave with evictions and events | count = size, no foreign use, no dead or lost entry |
| Key operations, `core/cert_manager_key_operation.c` | HUKS operations | init, update, finish, abort; MAC keys; import, delete | HUKS and the table are updated one after the other | every HUKS operation is reachable or its loss is a reported failure |
| Grants, `core/cert_manager_auth_mgr.c`, `core/cert_manager_auth_list_mgr.c` | MAC key per (credential, app, level) in HUKS; list file per credential; `g_authMgrLock` | grant, revoke, is-authorized, clear on uninstall / user / uid removal | three stores in sequence, a level read from a row that others replace, cleanup after unlock, checks without the lock | an authUri that verifies is listed; revocation is final |
| Credential store, `core/cert_manager.c`, `core/cert_manager_app_cert_process.c` | file, HUKS key at a storage level, database row | install, uninstall, uninstall all | no rollback, replaced rows, failures between the stores | the row finds the key of every usable credential |
| Removal events, `core/cm_event_process.c` | none of its own | user removed, application removed | walks the stores while requests run; ignores failures | nothing of a removed owner stays usable |
| User CA store, `core/cert_manager_service.c`, `cert_manager_updateflag.c`, `cert_manager_storage.c` | CA file, config file, backup file, row; update flag | install (one or a bundle), uninstall, enable, disable, remove all, migrate | row and files in sequence, partial undo, numbers chosen from a directory, a migration at each start | what is shown as enabled is what is trusted; every trusted copy can be found again; what is gone stays gone |
| UKey PIN dialog, `SVC/dialog/`, `CLI/cm_ipc_dialog_client.cpp` | one session, three timers; the client's stub and fallback | authorize, report, extension destroyed, timeouts, keep-alive | callbacks of several threads on one mutex | exactly one answer, eventually; one dialog at a time |
| Ability life cycle, `SVC/sa/cm_sa.cpp` | running flag, unload task | start, stop, request, user / package events | delayed unload against requests | no unload within the delay after a request |
| SDK and client, `interfaces/innerkits/.../cert_manager_api.c`, `CLI/cm_ipc_client.c`, `CLI/cm_request.cpp` | one message per call | 33 functions that check, pack, send, unpack | optional arguments, three ways to make room for an answer, an ability that is not there | a success is one of the service, for what was asked |
| IPC dispatch, `SVC/idl/cm_ipc/`, `SVC/sa/cm_sa.cpp` | one message per call | read, dispatch, find parameters by tag, check, call, reply | two tables of codes, messages of two shapes, numbered tags | arguments reach the handler meant for them; every request is replied to |
| Checks, `core/cert_manager_check.c`, `core/cert_manager_permission_check.c` | the user and application a call is for | per request: arguments, permission, user and application from URI, id or scope | four functions replace the caller's identity by different rules | users and applications are kept apart |
| Parameter sets, `frameworks/.../common/src/cm_param.c` | a block that grows | build, read, copy, wipe and free | size and block change one after the other | nothing is wiped outside the block |
| Node-API kit, `KIT` | a context and a promise or callback per call | 36 functions: parse, worker, completion | arguments by position, optional ones, two ways to answer, failures at each step | one outcome; a success means that the SDK did it |
| Dialogs of the kit, `KIT/dialog/` | promise, modal dialog, thread-safe function | 8 calls, 5 events of a dialog, the answer of the service | events in any order, from two threads, early returns after the promise was made | the first event is the answer; nobody waits for ever |
| Queries and URIs, `core/cert_manager_query.c`, `cert_manager_uri.c` | none | list, encode, decode | - | pure |
| Database wrapper, `.../main/rdb/src/` | open handle | insert (replace), delete, query, delayed close, upgrade | close timer against use | - |
| UKey providers, `core/cert_manager_ukey_operation.c` | none, forwards to HUKS | list, verify | - | - |
| Crypto, X.509, PKCS#12 | none | parse, verify | - | pure, OpenSSL |
| Other kits, `interfaces/kits/{ani,cj,c}`, the PIN extension | none | conversion | the same calls of the SDK | - |

Requests arrive on up to 32 IPC threads. `cm_ipc_service.c` decodes one and calls
`core/`; the session table is shared by the sign/verify calls, by grants that are
revoked, by uninstalls and by removal events. Grants, uninstalls and events share the
credential files, the lists and HUKS. There are two locks, `g_lock` (sessions) and
`g_authMgrLock` (grants, taken first); the stores themselves have none. A client keeps
nothing between calls, except for a PIN dialog, whose answer comes later, to a stub.

## Plan

Ordered by how much of the service depends on the part. Each module is written to be
proved about: parameters are CONSTANTS with named assumptions, an operation is one
action, recursion is avoided.

| Module | Models | Built on | State |
|---|---|---|---|
| `SessionMgr` | session table, the HUKS operations behind it | | done |
| `KeyOperation` | init, update, finish, abort on several threads | extends `SessionMgr` | done, proved about |
| `KeyOpLifecycle` | abstract: what a client relies on | refined by `KeyOperation` | done, refinement proved |
| `AuthMgr` | grants, revocations, removals, levels of the MAC keys | | done, proved about |
| `CredStore` | credential file, key and row | | done, proved about |
| `UkeyDialog`, `UkeyAuth` | PIN dialog: service; service and clients | `UkeyAuth` extends `UkeyDialog` | done, proved about |
| `UkeyCall` | abstract: one call, one answer | refined by `UkeyAuth`, used by `KitDialogs` | done, safety part proved |
| `UserCa` | user CA certificates, their backups, the migration | | done, proved about |
| `CmChecks` | what a request is checked for, whom it is for | | done |
| `CmRequests` | functions of the SDK and the messages they send | extends `CmChecks` | done |
| `CmHandlers` | parameters by tag, the handlers up to their work | extends `CmRequests` | done |
| `CmCall` | a call, from the caller to the handler and back | extends `CmHandlers` | done, proved about |
| `KitValues`, `KitScript` | values of JavaScript and their parsers; a script | | done |
| `KitApis`, `KitCalls` | functions of the kit; a call of one | extend those two | done |
| `KitDialogs` | dialogs of the kit | extends `KitScript`, instantiates `UkeyCall` | done |
| `Kit` | one script that uses both | composes `KitCalls` and `KitDialogs` | done, proved about |
| life cycle of the ability | start with its event, publish, delayed unload against requests | | open |
| database wrapper | delayed close, retries, rebuild | | open |
| user removal as a whole | one event through sessions, CA store and credentials | composes the stores | open |
| two requests at once in the stores | what holds without a lock, beyond the hazards noted | `CredStore`, `UserCa` | proved for credentials and for the names of backups; open for `StatusIsTrust` and `NumbersSuffice` |

Proofs are in `KeyOperationProofs`, `AuthMgrProofs`, `CredStoreProofs`, `UkeyAuthProofs`,
`UserCaProofs`, `CmCallProofs`, `CmFormProofs` and `KitProofs`. Every invariant of a passing
run is the statement of a theorem. Open: what of `StatusIsTrust` and `NumbersSuffice` is left
when two requests about different certificates overlap.

`MC<module>.tla` gives the bounds of the runs over a module; a run is one `.cfg`. A
definition named `X_Something` above `X` is a plausible defect in `X`; it is used by
no action, and is there to show that the property it is paired with notices it.

## Modules and code

**SessionMgr.** `sessionList` is `g_sessionList`, a set of nodes with tickets instead
of a linked list: the list grows at the tail only, so ticket order is list order.
`sessionCount` is `g_sessionCount`, kept apart as in the code. Each function of
`cert_manager_session_mgr.c` holds `g_lock` from first to last access, the `HksAbort`
calls included, and is one step. A node that is removed is aborted in HUKS unless the
parameter set cannot be made or `HksAbort` fails, which the code ignores: the operations
`left` stay open. HUKS is external: `HksInit` returns a fresh handle; `liveOps` are the
operations HUKS still knows.

**KeyOperation.** `CmKeyOpInit` is `InitOpen` (HksInit) and one of `InitCreate`,
`InitCreateEvict`, `InitCreateFails`, `InitReachesLimit` (CmCreateSession).
`CmKeyOpProcess` is `ProcessQuery`, then the HUKS call (`UpdateSucceeds`,
`FinishSucceeds`, `OperationEnds`, `OperationStays`), then `EndSession`. Between these a thread holds no
lock. `RemoveSessions` stands for every caller of `CmDeleteSessionByNodeInfo`.

**AuthMgr.** A grant is a MAC key (`macKey`), an entry of the list file (`authList`)
and the authUri the producer receives. `HksGenerateKey` replaces a key, so an authUri
is the generation of its key and `Valid` compares generations. HUKS keeps the keys of
one alias apart by storage level. `LevelOf` is the level a request reads from the
credential's `row` (EL1 when there is none): a grant, a revocation and the event read it
under the lock, an uninstall before it takes the lock, the removal of all after the file
is gone. `DeleteMacKeys` deletes at that level, and a key that is not there counts as
deleted, so a key at another level survives an acknowledged revocation. That takes an
install that changes the level of a credential with grants, or an uninstall that has
removed the row, in the gap of another request; the history variable `strayed` collects
exactly these keys: those that were at another level than the row named when it was
written or removed (`SetRow`), when they were made, or when their list was cleared.
`authLock` is `g_authMgrLock`. Each key, list, file or row operation is a step;
`...Fails` actions are the error returns; `Crash` is the death of the process. An
uninstall goes through `ClearBegin` .. `ClearList` (lock held), then `RemoveRow`,
`RemoveFile`. The private key is left to `CredStore`, the sessions to `KeyOperation`.

**CredStore.** `file`, `key` (the levels at which HUKS has the key) and `row` (the
level in the database). Installing is `ImportKey`, `StoreFile`, `InsertRow`, preceded
by the removal of the old key when a private credential changes its level; removing
is row, file, key, and the other way round in a removal event. `Upgraded` credentials
start with the level `OnUpgrade` gives old rows. A client may ask for any level
(`CmInstallAppCertEx` with CHAIN_KEY; the service checks the range only), while the key
of a public or system credential is imported at another one and the row gets the level
asked for: `diverted` remembers such credentials, which the properties leave out by name.

**UkeyDialog, UkeyAuth.** `session`, `timers` and `watched` are the manager's fields
under `mutex_`; a handler is one step. The timer thread takes a task off its queue
(`TakeTask`) and handles it later, so a task that was cancelled too late is there.
`OnAbilityConnectDone` looks at `released_` under its mutex and sends the start command
afterwards: two steps. Time is a countdown per task; `Tick` lets it pass when nothing
is due and no message is in flight, except results that are marked late (a suspended
client). `UkeyAuth` adds the clients: `stub` is the callback stub with its fallback
timer and its reference to itself, the reply and the result are separate messages, and
a result is taken (`Deliver`) one step before it is passed on (`InvokeCallback`). A
death of the service, by the idle unload or otherwise, loses all its memory; the caller
then has an error for a reply (`AfterDeath`). So a call can be answered and return an
error, against the comment at `cm_ipc_dialog_client.cpp:209`: `UkeyCall` lets a call
whose service died under it do both, and no other.

**UserCa.** `files`, `rows`, `conf` and `backup` are what the CA store keeps per URI
and per backup name; the backups are what TLS clients trust. Every write, read and
removal is a step that may fail if its kind is in `Faulty`; the sequences of install,
uninstall, enable, disable, removal of all, removal of the user and migration follow
the code, which has no lock. `Restart` is a death or an unload and the next start;
`StartBegin` may come after requests because the service is published before it
(`cm_sa.cpp:375`, `:404`). A file that does not exist cannot be removed:
`FileRemove` fails in `realpath`. The removal of the user visits the configs that are
`Listable`: those of applications with at most `MAX_COUNT_CERTIFICATE` of them, for
`CmTraversalBackupUidDir` has no room for more and then removes none.

**CmChecks.** A check is a list of conditions with their errors, in the order of the
code; `Verdict` is the first error and the context (user, application) the rest of the
call works for. Only the forms of a blob that the checks tell apart are kept: `null`,
`empty`, `ok`, `bad` (malformed), `huge` (above its limit). A URI is the record of its
fields.

**CmRequests.** A function of the SDK maps its arguments to a refusal, or to a request:
message code, parameters under their tags, how room is made for the answer and what
unpacking it can go wrong with. A caller passes the pointers that the client follows
without a test (the private key of a PKCS#12 file in `CmInstallAppCertEx`, for
instance).

**CmHandlers.** `CmParamsToParamSet` puts empty buffers under their NULL tags. A
handler finds its parameters by tag (`IsSent`), checks them with `CmChecks` and leaves
the name of the work, its arguments, the context and how the answer is sent.
`ProcessMessage` is the table of codes.

**CmCall.** One call at a time, since calls share nothing: `Call` (the SDK refuses or
builds a request), `Serialize`, `SerializeOverflows` and `SerializeNoMemory` (`cm_param.c`,
with the size of the set and the block it is in), `Load` (the ability is found or started),
`OnRemoteRequest` (what is refused before any handler, where nothing is written),
`HandleNoMemory`, `SendRefusal`, `Work`, `Dies` (at any time), `ReadReply`. Sizes have
four steps: within the first block, above it, above what a message may have, above what
a set may have.

**KitValues, KitScript.** A value of JavaScript is a name with a type, a length and
properties. A parser returns the set of what it read, empty when it refuses, so that
parsers compose by quantifiers. `napi_has_named_property` fails on `null` and
`undefined` only; a typed array is an object too; calls of Node-API themselves succeed.
A script makes one call after the other and sees outcomes.

**KitApis, KitCalls.** A function of the kit is its `ParseParams`, `Execute`,
`Resolve` and `AsyncWork`. `KitCalls` runs it: `CreateContext`, `ParseParams`,
`AsyncWork` (promise made, worker queued or not), `Execute` (the SDK answers with any
code), `Complete`. `held` counts contexts, so that a leak or a double free shows.

**KitDialogs.** `Checks` lists what each call has to pass, in order, with the error
thrown. A dialog is shown as a UI extension, as an ability started for a result, or
by the service, for which the contract `UkeyCall` stands: `SA == INSTANCE UkeyCall`.
A call that the service died under is refused and answered: it rejects the promise, and
`UvTsfnCallback` settles it again, or the result finds its context freed
(`UvTsfnFinalize`). `NobodyWaits` names this, with two other ends, as an exception.
`OnRelease`, `OnError`, `OnResult`, `OnReceive` and `OnDestroy` are the events, in any
order, on the thread of JavaScript; `UkeyAuthDialogResultCallback` comes on another
thread and queues its result for `UvTsfnCallback`. So `UkeyAuth` implements the
contract, and the kit is checked over the contract.

## Runs

Passing runs; M: millions of distinct states.

| Run | Instance | What it shows |
|---|---|---|
| `sessions` | 2 threads, 2 apps, 2 keys, 3 handles, table of 2, abortable or not, 2 faults (0.25 M) | counter, table, ownership, evictions and leaks of the sessions; `KeyOperation` implements `KeyOpLifecycle` |
| `auth` | 2 threads, 1 credential at 2 storage levels, a producer and 2 clients for 1 place in the list, 2 generations of keys, 1 fault or death (7.7 M) | but for MAC keys that strayed from their level: an authUri that verifies is listed, revoked stays revoked, list and keys agree within the limit; the lock is left on every path |
| `creds` | 2 public, 1 private, 1 system, room for 1 of each, 2 levels to ask for, 2 faults, 1 death (8.7 M) | what was reported installed with the key at the level asked for is usable; no orphan key without faults; the limit lets updates in and no other |
| `ukey` | 2 calls, 1 fault, 1 death of service and of client (3.2 M) | safety net, own result, one answer; timeouts before the fallback, keep-alive before the unload |
| `ukey_live` | 2 calls, 1 fault, 1 death of the service, fair timers and messages (0.8 M) | every accepted call is answered: `UkeyCall` with its liveness; an error and an answer only after a death |
| `user_ca` | 1 app, 2 certificates of one subject, alias, bundle, legacy certificate, limit 2, failures of one kind, 1 death (12.9 M) | what is enabled is what is trusted and numbers suffice while nothing fails; trusted copies are named; a removed user trusts nothing, but where configs are too many to list; a reported uninstall is complete; a restart enables nothing again |
| `ipc` | 33 functions of the SDK with every store, scope and kind of URI, one argument at a time missing, empty, malformed or too long; 18 callers (0.6 M) | arguments and identity arrive; no call is lost to its form; a success is one of the service; users and applications are kept apart; wipes stay in their block but in two named cases |
| `kit` | every function and dialog of the kit, each argument replaced by every kind of value, too few or one too many; devices that lack one thing (0.4 M) | one outcome, by the way the caller chose; a success exactly when the SDK did what the arguments say; the first event of a dialog answers; a promise is settled once, but where the service dies under the call |

Bounds. Two threads are enough for every race here, as each concerns the gap of one
call and one other actor that runs in it; a third adds repetition. Two handles more
than the table holds make eviction happen with an open, unlisted operation next to it.
Two generations of MAC keys are what is needed to tell an old authUri from a new one.
One fault and one death (in `auth` one of the two) give each single failure at each point, two faults also a
failing cleanup. Limits (`MAX_OPERATIONS_COUNT` 15, `MAX_AUTH_COUNT` 256,
`MAX_COUNT_CERTIFICATE` 256) are 1 or 2 so that the runs reach them. Times of the
dialog (grace 10 s, keep-alive 30 s, unload 60 s, total 180 to 600 s, fallback 660 s)
are 1 to 5 units that keep the orders keep-alive < unload and total + grace <
fallback, which are assumptions of the modules. The runs of the stores have one request
at a time; what holds with several is in the theorems (below), and what several break is
among the hazards with a note. The callers of `ipc` have each set of
permissions that a check tells apart, and URIs name the caller, another application,
another user and user 0. Two wrong arguments at once add nothing: checks are conditions
in a row, and the first that fails answers. The lengths of the values in `kit` are 0 to
3 against limits of 1 and 2, so that each limit has a value below, at and above it;
three events of a dialog (`MaxEnds`) before it is destroyed give an answer, one after it
and one in between.

Deadlock is checked except in the dialog's runs, where each call is made once and the
system stops when all are answered.

Fairness. Only `ukey_live` assumes any: time passes, posted tasks run, messages in
flight arrive, the opening thread goes on, a due unload happens; reports of the user,
deaths and failures are not fair. Event handlers, binder and the timer of the client
justify this; a message that is lost is a separate, failing action. Elsewhere that
nothing is left behind is stated as safety: the lock is held by the thread that is in
one of the locked sections and by no other (`TypeAndLockOK` of `AuthMgr`, `LockIsHeld` of its
proofs), and a dialog that is over has settled its promise (`NobodyWaits`). After a death of
the service the client's fallback answers.

## Where code and comments disagree

Each is a run that TLC must find violated.

| Run | Disagreement |
|---|---|
| `auth_deleted` | "clear auth info when delete public credential": a grant between clearing the grants and removing the file outlives the credential, even with one storage level |
| `creds_upgrade` | public credentials are at EL2: an old one installed again has its key at EL1 and its row at EL2, and cannot be used |
| `ukey_start` | "no more start command after ReleaseWindow": it can follow it |
| `user_ca_report` | "if file not exist, return ok": the uninstall of a disabled certificate removes everything and reports an error |

Modelling showed more that a reader of the code should know, without a comment that
is as plain: revoking an application removes the sessions of the producer and not of
the application (`cert_manager_auth_mgr.c:618`); a revocation that runs in an uninstall
whose row is gone, or after an install at another level, finds no MAC key, succeeds, and
the authUri can verify again (`cert_manager_auth_mgr.c:586`); a death inside the write of an auth
list leaves one that is refused ever after; a result delivered before `HoldSelf` leaves
a callback stub that owns itself; a call can return an error after its callback ran;
two installs of certificates with one subject, or a migration that died and is
repeated, give two certificates one backup (`cert_manager_storage.c:444`); configs
that stay behind after failed installs do not count as certificates, and with more than
`MAX_COUNT_CERTIFICATE` of them the removal of the user leaves their backups trusted
(`cm_event_process.c:365`); a disable
that overlaps an enable leaves a trusted copy that nothing names
(`cert_manager_service.c:1289`); a public or system credential installed with CHAIN_KEY at
a level of the client's choice is reported as installed with a row that does not find its
key (`cert_manager_app_cert_process.c:577`); an uninstall of a credential whose file is missing
leaves the key; a service that is started by the removal of a package handles that of
users only (`cm_sa.cpp:390`); a parameter set that cannot get its larger block, or
to which a blob could not be added after others had been, keeps the larger size and is
wiped past its end (`cm_param.c:114`, `:262`); a kit call that throws
after making its promise leaves the promise pending, though nobody holds it;
`getPrivateCertificates` accepts a callback it never calls; `installPrivateCertificate`
drops the storage level it is given; a dialog that is destroyed without another word
settles nothing, except for the certificate manager's own; a PIN dialog's call that the
service died under returns an error though its callback runs, and the kit settles its
promise twice (`cm_napi_open_ukey_auth_dialog.cpp:450`). They are hazards with a note
in `PROJECT.json`, and where a property leaves such a case out its comment says so.

## Proofs

Each proof module has one lemma per action, and lemmas for what several actions share.
The theorems hold for every value of the constants that meets the named assumptions of
the module; what else they assume is said below.

**KeyOperationProofs**: `TypeOK`, `CountIsTableSize`, `TableIsByHandle`, `NoForeignUse`
and `StaleEntryIsEnding`, for every number of threads, callers, keys and handles and
every table size above 0. The counter equals the size only while the table is finite
and a registered handle is new; that it is new follows from `OpenedIsPrivate`, because
a handle between `HksInit` and `CmCreateSession` is known to one thread; that in turn
needs that handles HUKS returns were never used, which is the type invariant of
`opener`. A node without a HUKS operation is being unlisted by a thread
(`StaleEntryIsEnding`), which needs `TableIsByHandle`: deleting by handle removes that
one node. `IInv` is their conjunction with `IsFiniteSet(sessionList)`.
`LeaksAreFaults` follows from `Counted`: the operations that are open and unlisted, or
about to be (`Abandoned`), are no more than the failures, since every step adds as many
to both; a removal adds those whose own `HksAbort` failed. `EvictsOldest` follows from the
order of tickets. The refinement of `KeyOpLifecycle` maps each handle to its phase; the
proof shows for every action that a handle moves along the abstract steps, several
handles at once where a removal ends several sessions.

**AuthMgrProofs**: `TypeAndLockOK`, `RevokedStaysRevoked`, `ValidTokenIsListed` and
`ListMatchesKeys`, for every number of threads, clients, levels and failures, from
`AuthAssumption`. Keys are only made under the lock and with a fresh generation, so a
generation that was revoked cannot come back. A key that never strayed is at the level
the row names now (`KeysAreAtRowLevel`), although the row changes without the lock, since
the change itself counts the others as strayed; and what a request in a locked section
read before is still the level of these keys (`SectionKeeps`), so that its deletion
reaches them. An entry leaves the list only when no such key is left (`Unreachable`);
between the two steps the thread that holds the lock knows of it, which makes
`LockIsHeld` (exactly the threads in locked sections hold the lock, so there is one) part
of the invariant. `TokensKept` states the two properties of authUris at every level, as
the row may name another one later. `KeysMatch` names the pairs whose grant is being
undone or cleared, for which list and key may differ. `TypeAndLockOK` needs one more:
that no list outgrows MAX_AUTH_COUNT is the guard of the only step that lengthens one
(`OnlyGrantsListApps`).

**CredStoreProofs**: `InstalledIsUsable`, `CountWithinLimit` and `NoOrphanKey`, for
every set of credentials, every limit, any number of failures, deaths and requests at
once. The limit needs no condition on the requests: an install that was let in is on its
way to the file (`Wanted`), and a store with those counted in is over `MAX_COUNT_CERTIFICATE`
by no more than the other threads (`RoomIsKept`); with one thread that is the limit
itself, and with more it is all that can be promised, as the count is taken long before
the file is written. The two on keys hold as long as no two requests work on the same
credential (`Apart`, a condition on the behaviour; the code has no lock that ensures it,
and a service that runs one request at a time meets it, `OneAtATimeKeepsBoth`), at any
level a client asks for. They assume what the code relies on and does not enforce: no
public credential from before the level column (`NoPublicUpgraded`; the run
`creds_upgrade` shows why), and that an older release kept to the limit
(`UpgradedHaveRoom`). The invariant `KeysAreKept` says where the key of a credential is
at each step of the request on it (`InProgress`: the level it is at is the one the
request deletes or imports, taken along before the row that names it is gone) as long as
the credential was never `diverted`, and that an imported key is there until the row is
written (`InstallKeeps`). A step of another
thread leaves all this alone because it is on another credential (`NobodyElse`).

**UkeyAuthProofs**: all six properties of the run `ukey`, for every number of calls,
failures and deaths and all times in the order of the code. `SafetyNet` holds because
every session has its timer posted or its handler on the way (`SessionIsHandled`),
through each failure of posting. `OneAnswer` needs `AnsweredIsDelivered` and
`SentIsHandled`: what is on the way belongs to a call that waits. That the fallback
comes last (`FallbackIsLast`) is a bound on its countdown by that of the session, and
`FallbackMeansFailure` follows; `KeepAliveComesFirst` is the same for the unload, so
that `UnloadSparesSessions`. `CallsAreKept` is the safety half of the refinement of
`UkeyCall`, deaths included: only a call that was opened is answered
(`OnlyOpenedIsAnswered`), so one that is refused is not; no fallback fires before the
reply, and after an error nothing is taken that was not before (`ReplyComesFirst`).

**UserCaProofs**: all six properties of the run `user_ca`. `NoSilentEnable` holds for any
number of requests at once: a migration enables only while it is due
(`MigrationIsDue`). `BackupsAreNamed` holds for any number of them of which no two change
the backup of one certificate at once (`Apart`; a disable in the middle of an enable does
take the name away). `BackupsAreOwned` says more: some config names the backup that no
request is about to remove or to overwrite (`Owns`), and a thread that writes or removes a
backup holds the slot its config names (`SlotIsNamed`). That two installs may choose the
same number does no harm here, as both configs name it. The
others assume one request at a time (`OneAtATime`): `UninstalledIsGone` and
`RemovedUserTrustsNothing` are about the stores after an answer, which another request may
change before anyone looks, and the last two fail when two requests choose one number.
`SlotKept` says which file a request holds in which slot of its sequence,
`FilesGo`, `BackupsGo` and `UninstallGoes` what a removal has left at each step;
`Skipped` are the applications that had too many configs when the removal came to them,
and it stays away from them. What
is shown as enabled is trusted (`StatusIsTrust`) except between two writes of one
request, which `InFlux` names, and configs are then no more than certificates
(`ConfigsFit`), so that a removal lists them all; this and `NumbersSuffice` also assume that what an older
version left is consistent (`LegacyFits`). That a free number is always found is a
pigeonhole argument on the backups of one subject (`NumberIsFree`). That an uninstall
says what it did is not true: `user_ca_report`.

**CmCallProofs**: `SuccessIsReal`, `OnlyTheSystemManages`, `UserIsolation`, `ListedUsers`
and `WipeStaysInBlock`, for every set of callers, arguments and answers of the work
that meet `CallsAssumption` and `CallersAssumption` (an application is not of user 0,
which the checks rely on, `cert_manager_check.c:225`). A list of checks answers 0 only
if each of them does (`NothingFails`, `BothChecks`); there is a lemma per check function
and a lemma per handler, and `ProcessMessageIsRight` puts them together over the table
from message to handler. `CallInv` carries what a handler established back through the
reply to the caller of the SDK. `WipeInv` is about the size of a parameter set and of
its block; `WipeStaysInBlock` names the two ways in which the code does leave it.

**CmFormProofs**: `ArgumentsArrive` and `NotRefusedForItsForm`, under the same assumptions
and with any arguments. `TagsAt` and `ReplyAt` are the tags and the kind of answer of each
message, as the handlers have them (a `...Reads` lemma per handler, `ProcessMessageReads`
for the table); no two arguments of a message share a tag (`TagsAreTheirOwn`), and so what
is written under the tags is what is read there, with an empty blob for a missing one
(`Arrives`). A `...Sends` lemma per function of the SDK says which pairs of tags and values
it sends, or that it refuses for a reason of its own; a `...IsGood` lemma that these are
the pairs of `TagsAt` and that their values are those of `Expected`. `FormInv` carries this
from the request to the handler. It takes `CallInv` to know that a call is replied to once.

**KitProofs**: `OneOutcome`, `SuccessIsDone`, `FirstEndAnswers` and `NobodyWaits`, for every
set of values a script may pass and any number of calls. `OneOutcome` needs of each function
of the kit only where its callback or promise is chosen (`ChosenBy`, a lemma per group of
functions). `SuccessIsDone` needs that what it asks of the SDK, if it asks anything, is what
its name and arguments say (`Expected` of `KitCalls`), and that it tells a success from a
failure by the right codes: a lemma per group, put together in `EveryApiIsRight`. `WorkInv`
carries the request from the call to the work and the answer back. The last two theorems
follow from `DialogInv`, which relates a dialog, its context and the promise; for a dialog
of the service it tells a call whose result is awaited or told from one that was refused
or failed (`Served`), and only one that failed can be settled twice.

Only model-checked: the liveness half of `ImplementsCall`. Out of the prover's reach: liveness under fairness and
ENABLED, induction over data, and RECURSIVE operators, of which there are none.

## Not modelled

- The kits for the static language, Cangjie and C and the extension that shows the PIN
  dialog: the same calls of the SDK by other conversions. Metrics and logging.
- UKey providers, OpenSSL, X.509 and PKCS#12, parsing and printing of URIs, listing of
  files: no state, or functions of data. What they decide is a choice, or a field.
- The bytes of requests and answers, and offsets inside parameter sets; the numbers
  handed to the other side (`requestCode`) and what a dialog is told.
- Directories, paths, partial writes of a file and the binary layout of the auth list.
- The delayed close of the database, its retries and its rebuild.
- The event that starts the ability (`cm_sa.cpp:390`) and the subscription to events.
- The CA store is that of one user. The grants of a credential and its private key are
  separate models (`AuthMgr`, `CredStore`), each with the file, the row and the level.
- What a revocation, an uninstall or an event does to open sessions is in `KeyOperation`,
  where a removal of any kind may come at any time, and not tied to the grant.

Hazards without a property are in `PROJECT.json` with the reason.
