------------------------------ MODULE CmChecks ------------------------------
(***************************************************************************)
(* What the service checks before it does anything: cert_manager_check.c,  *)
(* cert_manager_permission_check.cpp and the checks at the head of the     *)
(* functions of cert_manager_service.c and cert_manager_auth_mgr.c.        *)
(*                                                                         *)
(* A check is a list of <<failed, error>> in the order of the code; its    *)
(* verdict is the first error and the context (user and application) the   *)
(* operation will work for, which several checks replace.                  *)
(***************************************************************************)
EXTENDS Integers, Sequences

INVALID == -1             \* INIT_INVALID_VALUE
SA_USER == 0              \* the user id of a system service

\* struct CmBlob.  "null": no blob; "empty": {0, NULL}; "bad": what the checks
\* refuse (no terminating '\0', ".."); "huge": longer than any limit;
\* "noname": the string ""; "ok": the rest.  A URI also says whose it is.
Uri(type, user, app, client) ==
    [form |-> "ok", type |-> type, user |-> user, app |-> app, client |-> client]
Blob(form) == [Uri("NONE", INVALID, INVALID, INVALID) EXCEPT !.form = form]

CmCheckBlob(blob) == blob.form \notin {"null", "empty"}
CheckUri(uri) == uri.form = "ok"

CREDENTIAL_STORES == {"CREDENTIAL", "PRI_CREDENTIAL", "SYS_CREDENTIAL"}

\* The first error of a list of checks.
FirstError(checks) ==
    LET failing == {i \in DOMAIN checks : checks[i][1]}
    IN  IF failing = {} THEN "SUCCESS"
        ELSE checks[CHOOSE i \in failing : \A j \in failing : i <= j][2]

Verdict(checks, ctx) == [err |-> FirstError(checks), ctx |-> ctx]
Pass(ctx) == Verdict(<<>>, ctx)
\* Another check, with the context the first one leaves.
Then(verdict, next(_)) == IF verdict.err = "SUCCESS" THEN next(verdict.ctx) ELSE verdict

-----------------------------------------------------------------------------
(* Permissions.  A caller is a process: its user and uid, the permissions  *)
(* of its token and whether it is a system application.                    *)

CmHasPrivilegedPermission(c) == "ACCESS_CERT_MANAGER_INTERNAL" \in c.perms
CmHasCommonPermission(c) == "ACCESS_CERT_MANAGER" \in c.perms
CmHasUserTrustedPermission(c) == "ACCESS_USER_TRUSTED_CERT" \in c.perms
CmHasEnterpriseUserTrustedPermission(c) == "ACCESS_ENTERPRISE_USER_TRUSTED_CERT" \in c.perms
CmHasSystemAppPermission(c) == "ACCESS_SYSTEM_APP_CERT" \in c.perms

\* Only an application's token is looked at.
CmIsSystemApp(c) == c.token = "hap" => c.system

\* Seeded fault: the private store is not the only one that needs no system application.
CmIsSystemAppByStoreType_Private(c, store) ==
    store = "CREDENTIAL" => CmIsSystemApp(c)

CmIsSystemAppByStoreType(c, store) ==
    store \in {"CREDENTIAL", "SYS_CREDENTIAL"} => CmIsSystemApp(c)

CmPermissionCheck(c, store) ==
    \/ store = "CREDENTIAL" /\ CmHasPrivilegedPermission(c) /\ CmHasCommonPermission(c)
    \/ store = "PRI_CREDENTIAL" /\ CmHasCommonPermission(c)
    \/ store = "SYS_CREDENTIAL" /\ CmHasCommonPermission(c) /\ CmHasSystemAppPermission(c)

Denied(granted) == <<~granted, "PERMISSION_DENIED">>
NotSystem(c) == <<~CmIsSystemApp(c), "NOT_SYSTEM_APP">>
BadUri(uri) == <<~CheckUri(uri), "INVALID_ARGUMENT_URI">>

CmHasGetCAPermission(c, store) ==
    CASE store = "SYSTEM_TRUSTED" -> <<Denied(CmHasPrivilegedPermission(c) /\ CmHasCommonPermission(c)),
                                       NotSystem(c)>>
      [] store = "USER_TRUSTED"   -> <<Denied(CmHasCommonPermission(c))>>
      [] OTHER                    -> << <<TRUE, "INVALID_ARGUMENT">> >>

CheckPermission(c, needPriPermission, needCommonPermission) ==
    << Denied(needPriPermission => CmHasPrivilegedPermission(c)),
       <<needPriPermission /\ ~CmIsSystemApp(c), "NOT_SYSTEM_APP">>,
       Denied(needCommonPermission => CmHasCommonPermission(c)) >>

-----------------------------------------------------------------------------
(* CA certificates.                                                        *)

CmServiceGetSystemCertListCheck(c, ctx, store) ==
    Verdict(<< <<store # "SYSTEM_TRUSTED", "INVALID_ARGUMENT_STORE_TYPE">> >>
            \o CmHasGetCAPermission(c, store), ctx)

CmServiceGetSystemCertCheck(c, ctx, store, certUri) ==
    Verdict(<< <<store # "SYSTEM_TRUSTED", "INVALID_ARGUMENT_STORE_TYPE">>, BadUri(certUri) >>
            \o CmHasGetCAPermission(c, store), ctx)

CmServiceSetCertStatusCheck(c, ctx, store, certUri, status) ==
    Verdict(<< <<store # "SYSTEM_TRUSTED", "INVALID_ARGUMENT_STORE_TYPE">>,
               BadUri(certUri),
               <<status \notin {0, 1}, "INVALID_ARGUMENT_STATUS">>,
               Denied(CmHasPrivilegedPermission(c) /\ CmHasCommonPermission(c)),
               NotSystem(c) >>, ctx)

\* Seeded fault: user 0 is not compared.
CheckAndUpdateCallerAndUri_AnyUser(ctx, uri, type, isCheckUid) ==
    Verdict(<< <<uri.type # type, "INVALID_ARGUMENT_URI">> >>,
            [userId |-> uri.user, uid |-> uri.app])

\* The URI says for whom the operation is; an application may name itself or,
\* for a CA certificate, user 0, a system service anyone (or itself).
CheckAndUpdateCallerAndUri(ctx, uri, type, isCheckUid) ==
    Verdict(<< <<uri.type # type, "INVALID_ARGUMENT_URI">>,
               <<ctx.userId # SA_USER /\ ctx.userId # uri.user
                 /\ ~(type = "CERTIFICATE" /\ uri.user = SA_USER), "INVALID_ARGUMENT_USER_ID">>,
               <<isCheckUid /\ ctx.userId = SA_USER /\ ctx.uid # uri.app,
                 "INVALID_ARGUMENT_UID">> >>,
            [userId |-> uri.user, uid |-> uri.app])

CmServiceGetUserCertInfoCheck(ctx, uri, type, isCheckUid) ==
    IF ~CheckUri(uri) THEN Verdict(<<BadUri(uri)>>, ctx)
    ELSE CheckAndUpdateCallerAndUri(ctx, uri, type, isCheckUid)

CmServiceUninstallUserCertCheck(c, ctx, certUri) ==
    Then(Verdict(<<BadUri(certUri),
                   Denied(CmHasEnterpriseUserTrustedPermission(c) \/ CmHasUserTrustedPermission(c))>>,
                 ctx),
         LAMBDA x : CheckAndUpdateCallerAndUri(x, certUri, "CERTIFICATE", TRUE))

CmServiceSetUserCertStatusCheck(c, ctx, certUri) ==
    Then(Verdict(<<Denied(CmHasCommonPermission(c) /\ CmHasUserTrustedPermission(c)),
                   NotSystem(c), BadUri(certUri)>>, ctx),
         LAMBDA x : CheckAndUpdateCallerAndUri(x, certUri, "CERTIFICATE", TRUE))

\* An alias is checked character by character except the string "" ("noname"),
\* which the service replaces.
CmCheckCertAlias(alias, store) ==
    << <<alias.form # "ok" /\ (alias.form # "noname" \/ store = "PRI_CREDENTIAL"),
         "INVALID_ARGUMENT_ALIAS">> >>

\* An application may only ask for its own user or for user 0.
CmCheckAndUpdateCallerUserId(inputUserId, ctx) ==
    Verdict(<< <<ctx.userId # SA_USER /\ inputUserId \notin {0, INVALID}, "INVALID_ARGUMENT_USER_ID">> >>,
            IF inputUserId = INVALID THEN ctx ELSE [ctx EXCEPT !.userId = inputUserId])

CmServiceInstallUserCertCheck(c, ctx, userCert, certAlias, userId) ==
    Then(Verdict(<< <<~CmCheckBlob(userCert) \/ userCert.form = "huge", "INVALID_ARGUMENT_APP_CERT">> >>
                 \o CmCheckCertAlias(certAlias, "USER_TRUSTED")
                 \o <<Denied(CmHasEnterpriseUserTrustedPermission(c) \/ CmHasUserTrustedPermission(c))>>,
                 ctx),
         LAMBDA x : CmCheckAndUpdateCallerUserId(userId, x))

\* CmServiceGetCertInfo, until it reads.
CmServiceGetCertInfo(ctx, certUri, store) ==
    IF store = "USER_TRUSTED" /\ CheckUri(certUri)
    THEN CmServiceGetUserCertInfoCheck(ctx, certUri, "CERTIFICATE", FALSE)
    ELSE Verdict(<< BadUri(certUri),
                    <<store # "SYSTEM_TRUSTED", "INVALID_ARGUMENT_STORE_TYPE">> >>, ctx)

\* CmServiceGetCertList, until it reads.
CmServiceGetCertList(ctx, userId, scope, store) ==
    Verdict(<< <<scope \notin {"ALL_USER", "CURRENT_USER", "GLOBAL_USER"}, "INVALID_ARGUMENT_SCOPE">>,
               <<store = "USER_TRUSTED" /\ ctx.userId # SA_USER /\ userId # INVALID,
                 "INVALID_ARGUMENT_USER_ID">>,
               <<store \notin {"USER_TRUSTED", "SYSTEM_TRUSTED"}, "INVALID_ARGUMENT_STORE_TYPE">> >>, ctx)

\* Seeded fault: the target is read although it is the caller.
CmGetUserCertPathList_Always(ctx, userId) ==
    <<ctx.userId, IF ctx.userId = SA_USER THEN userId ELSE SA_USER>>

\* CmGetUserCertPathList: the caller's directories, then the target's unless
\* they are the same.
CmGetUserCertPathList(ctx, userId) ==
    IF ctx.userId = userId THEN <<ctx.userId>>
    ELSE <<ctx.userId, IF ctx.userId = SA_USER THEN userId ELSE SA_USER>>

\* CmServiceGetUserCACertList: the users whose certificates are listed, in order.
CmServiceGetUserCACertList(ctx, userId, scope) ==
    IF ctx.userId = SA_USER
    THEN IF userId = INVALID THEN <<SA_USER>>
         ELSE IF scope = "ALL_USER" THEN CmGetUserCertPathList(ctx, userId)
         ELSE IF scope = "CURRENT_USER" THEN <<userId>> ELSE <<SA_USER>>
    ELSE IF scope = "ALL_USER" THEN CmGetUserCertPathList(ctx, userId)
         ELSE IF scope = "GLOBAL_USER" THEN <<SA_USER>> ELSE <<ctx.userId>>

\* CmUninstallUserCert begins by comparing the URI with the context.
CmComparisonCallerIdWithUri(ctx, uri) ==
    Verdict(<<BadUri(uri), <<<<ctx.userId, ctx.uid>> # <<uri.user, uri.app>>,
                             "INVALID_ARGUMENT_URI">> >>, ctx)

-----------------------------------------------------------------------------
(* Credentials.                                                            *)

\* For the user of a system credential; a service must name one.
CmCheckUserIdAndUpdateContext(inputUserId, ctx, store) ==
    LET nobody == inputUserId \in {0, INVALID}
    IN  Verdict(<< <<IF ctx.userId = SA_USER THEN nobody /\ store # "CREDENTIAL"
                     ELSE inputUserId # INVALID, "INVALID_ARGUMENT_USER_ID">> >>,
                IF ctx.userId # SA_USER \/ nobody THEN ctx ELSE [ctx EXCEPT !.userId = inputUserId])

CmCheckAppCertParam(a) ==
    << <<a.store \notin CREDENTIAL_STORES, "INVALID_ARGUMENT_STORE_TYPE">>,
       <<a.level \notin {"EL1", "EL2", "EL4"}, "INVALID_ARGUMENT">>,
       <<a.credFormat \notin {"FILE_P12", "CHAIN_KEY"}, "INVALID_ARGUMENT">>,
       <<a.aliasFormat \notin {"DEFAULT", "SHA256"}, "INVALID_ARGUMENT">>,
       <<~CmCheckBlob(a.appCert) \/ a.appCert.form = "huge", "INVALID_ARGUMENT_APP_CERT">> >>
    \o CmCheckCertAlias(a.alias, a.store)
    \o << <<a.credFormat = "FILE_P12" /\ a.pwd.form # "ok", "INVALID_ARGUMENT_APP_PWD">>,
          <<a.credFormat # "FILE_P12" /\ (~CmCheckBlob(a.privKey) \/ a.privKey.form = "huge"),
            "INVALID_ARGUMENT_CRED_PREVKEY">> >>

CmServiceInstallAppCertCheck(c, ctx, a) ==
    Then(Then(Verdict(CmCheckAppCertParam(a), ctx),
              LAMBDA x : IF a.store = "PRI_CREDENTIAL" THEN Pass(x)
                         ELSE CmCheckUserIdAndUpdateContext(a.userId, x, a.store)),
         LAMBDA x : Verdict(<<Denied(CmPermissionCheck(c, a.store)),
                              <<~CmIsSystemAppByStoreType(c, a.store), "NOT_SYSTEM_APP">> >>, x))

CmServiceUninstallAppCertCheck(c, ctx, store, keyUri) ==
    Then(Verdict(<< <<store \notin CREDENTIAL_STORES, "INVALID_ARGUMENT_STORE_TYPE">>,
                    BadUri(keyUri),
                    Denied(CmPermissionCheck(c, store)),
                    <<~CmIsSystemAppByStoreType(c, store), "NOT_SYSTEM_APP">> >>, ctx),
         LAMBDA x : IF store = "SYS_CREDENTIAL"
                    THEN CheckAndUpdateCallerAndUri(x, keyUri, "SYS_KEY", TRUE) ELSE Pass(x))

\* CmRemoveAllAppCert begins with its own checks.
CmRemoveAllAppCert(c, ctx) ==
    Verdict(<<Denied(CmHasPrivilegedPermission(c) /\ CmHasCommonPermission(c)
                     /\ CmHasSystemAppPermission(c)), NotSystem(c)>>, ctx)

CmGetSysAppCertListCheck(c, ctx) ==
    << <<ctx.userId = SA_USER, "INVALID_ARGUMENT_USER_ID">>,
       Denied(CmHasCommonPermission(c)), NotSystem(c) >>

CmServiceGetAppCertListCheck(c, ctx, store) ==
    Verdict(<< <<store \notin CREDENTIAL_STORES, "INVALID_ARGUMENT_STORE_TYPE">> >>
            \o (IF store = "SYS_CREDENTIAL" THEN CmGetSysAppCertListCheck(c, ctx)
                ELSE <<Denied(CmHasPrivilegedPermission(c) /\ CmHasCommonPermission(c)),
                       NotSystem(c)>>), ctx)

CmServiceGetCallingAppCertListCheck(c, ctx, store) ==
    Verdict(<< <<store \notin CREDENTIAL_STORES, "INVALID_ARGUMENT_STORE_TYPE">> >>
            \o (CASE store = "SYS_CREDENTIAL" -> CmGetSysAppCertListCheck(c, ctx)
                  [] store = "PRI_CREDENTIAL" -> <<Denied(CmHasCommonPermission(c))>>
                  [] OTHER -> <<Denied(CmHasCommonPermission(c)), Denied(CmHasPrivilegedPermission(c)),
                                NotSystem(c)>>), ctx)

CmServiceGetAppCertCheck(c, ctx, store, keyUri) ==
    Then(Verdict(<< <<store \notin CREDENTIAL_STORES, "INVALID_ARGUMENT_STORE_TYPE">>,
                    BadUri(keyUri), Denied(CmHasCommonPermission(c)) >>, ctx),
         LAMBDA x : IF store # "SYS_CREDENTIAL" THEN Pass(x)
                    ELSE Then(CheckAndUpdateCallerAndUri(x, keyUri, "SYS_KEY", FALSE),
                              LAMBDA y : Verdict(<<Denied(CmHasSystemAppPermission(c)),
                                                   NotSystem(c)>>, y)))

-----------------------------------------------------------------------------
(* Who may use a credential.                                               *)

IsProducer(ctx, uri) == uri.user = ctx.userId /\ uri.app = ctx.uid

CmCheckCallerIsProducer(ctx, uri) ==
    << BadUri(uri), <<uri.type # "APP_KEY", "INVALID_ARGUMENT_URI">>,
       <<~IsProducer(ctx, uri), "NOT_PERMITTED">> >>

\* Seeded fault: an authUri is good for whoever has it.
CheckCommonPermission_AnyClient(ctx, uri) ==
    <<~IsProducer(ctx, uri) /\ uri.client = INVALID, "NOT_PERMITTED">>

\* The producer, or the client an authUri was made out to (whose MAC AuthMgr
\* models).
CheckCommonPermission(ctx, uri) ==
    <<~IsProducer(ctx, uri) /\ uri.client # ctx.uid, "NOT_PERMITTED">>

CmCheckAndGetCommonUri(ctx, store, uri) ==
    IF store = "SYS_CREDENTIAL" THEN << <<uri.type # "SYS_KEY", "INVALID_ARGUMENT_URI">> >>
    ELSE << <<uri.type # "APP_KEY", "INVALID_ARGUMENT_URI">>, CheckCommonPermission(ctx, uri) >>

CmServiceGetAppCert(c, ctx, store, keyUri) ==
    Verdict(CASE store = "CREDENTIAL" -> CmCheckAndGetCommonUri(ctx, store, keyUri)
              [] store = "PRI_CREDENTIAL" ->
                   IF FirstError(CmCheckCallerIsProducer(ctx, keyUri)) = "SUCCESS" THEN <<>>
                   ELSE CheckPermission(c, TRUE, FALSE)
              [] OTHER -> <<>>, ctx)

\* The type of the URI says in which store the key is.
CheckAndGetStore(c, ctx, authUri) ==
    IF authUri.type # "SYS_KEY" THEN <<>>
    ELSE <<Denied(CmHasSystemAppPermission(c)),
           <<ctx.userId # SA_USER /\ ctx.userId # authUri.user, "INVALID_ARGUMENT_USER_ID">> >>
StoreOf(uri) == IF uri.type = "SYS_KEY" THEN "SYS_CREDENTIAL" ELSE "CREDENTIAL"

CmServiceInit(c, ctx, authUri, handle) ==
    Then(Verdict(<< BadUri(authUri), <<~CmCheckBlob(handle), "INVALID_ARGUMENT_HANDLE">> >>
                 \o CheckPermission(c, FALSE, TRUE), ctx),
         LAMBDA x : Verdict(CheckAndGetStore(c, x, authUri)
                            \o CmCheckAndGetCommonUri(x, StoreOf(authUri), authUri), x))

CmServiceUpdate(c, ctx, handle, inData) ==
    Verdict(<< <<~CmCheckBlob(handle), "INVALID_ARGUMENT_HANDLE">>,
               <<~CmCheckBlob(inData), "INVALID_ARGUMENT">> >> \o CheckPermission(c, FALSE, TRUE), ctx)

\* CmServiceFinish and CmServiceAbort: the data may be absent.
CmServiceFinish(c, ctx, handle) ==
    Verdict(<< <<~CmCheckBlob(handle), "INVALID_ARGUMENT_HANDLE">> >> \o CheckPermission(c, FALSE, TRUE), ctx)

\* Granting, revoking and listing grants: for the producer (in AuthMgr).
CmServiceGrantAppCertificate(c, ctx, keyUri, authUri) ==
    Then(Verdict(<< BadUri(keyUri), <<~CmCheckBlob(authUri), "INVALID_ARGUMENT_URI">> >>
                 \o CheckPermission(c, TRUE, TRUE), ctx),
         LAMBDA x : Verdict(CmCheckCallerIsProducer(x, keyUri), x))

CmServiceGetAuthorizedAppList(c, ctx, keyUri) ==
    CmServiceGrantAppCertificate(c, ctx, keyUri, Blob("ok"))

CmServiceIsAuthorizedApp(c, ctx, authUri) ==
    Verdict(<< <<~CheckUri(authUri), "INVALID_ARGUMENT">> >> \o CheckPermission(c, FALSE, TRUE), ctx)

CmServiceCheckAppPermission(c, ctx, keyUri) ==
    Then(Verdict(<<BadUri(keyUri)>>, ctx),
         LAMBDA x : Verdict(CheckAndGetStore(c, x, keyUri)
                            \o CmCheckAndGetCommonUri(x, StoreOf(keyUri), keyUri), x))
=============================================================================
