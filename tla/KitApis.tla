------------------------------- MODULE KitApis -------------------------------
(***************************************************************************)
(* The functions of the Node-API kit (interfaces/kits/napi/src), without   *)
(* the dialogs.  Each is given by                                          *)
(*   ...ParseParams   the parameters it reads from its arguments, none when *)
(*                    it throws instead;                                    *)
(*   ...Execute       the function of the SDK its worker calls and with     *)
(*                    what;                                                 *)
(*   ...Resolve       the value its promise or callback is given, and how   *)
(*                    it changes the code of the SDK before;                *)
(*   ...AsyncWork     whether it answers by a promise, and the error thrown *)
(*                    when the worker cannot be queued.                     *)
(* Module KitCalls runs a call from those four.                            *)
(***************************************************************************)
EXTENDS KitValues

\* The contexts in which the parsed parameters are kept end up as one record.
Sdk(fn, a) == [fn |-> fn, a |-> a]
Fails(code) == [fn |-> "none", a |-> code]
Gives(some, none) == [some |-> some, none |-> none, recode |-> <<>>, zero |-> {}]
Work(promise, error) == [promise |-> promise, sync |-> FALSE, queueError |-> error]
Sync == [promise |-> FALSE, sync |-> TRUE, queueError |-> "none"]

\* An API that was given parameters it understands.
Entry(p, execute, resolve, work) ==
    [cb |-> p.cb, fn |-> execute.fn, a |-> execute.a,
     some |-> resolve.some, none |-> resolve.none, recode |-> resolve.recode, zero |-> resolve.zero,
     promise |-> work.promise, sync |-> work.sync, queueError |-> work.queueError]

Private == "APPLICATION_PRIVATE_CERTIFICATE_STORE"
Public == "APPLICATION_CERTIFICATE_STORE"
System == "APPLICATION_SYSTEM_CERTIFICATE_STORE"

-----------------------------------------------------------------------------
(* Credentials: cm_napi_install_app_cert_common.cpp and the like.           *)
Levels == {"EL1", "EL2", "EL4"}

GetLevelOrCallback(v) ==
    {[level |-> l, cb |-> "none"] : l \in OneOf(v, Levels)}
    \cup {[level |-> "EL1", cb |-> f] : f \in IF Type[v] = "number" THEN {} ELSE GetCallback(v)}

\* The level is read and then overwritten by the default.
InstallAppCertParseParams(argv, store) ==
    {[keystore |-> k, keystorePwd |-> w, keyAlias |-> al, level |-> "EL1", cb |-> last.cb] :
        k \in {x \in GetUint8Array(Arg(argv, 1)) :
                   IF store = Private THEN Arity(argv, 3, 4) ELSE Arity(argv, 2, 2)},
        w \in ParsePasswd(Arg(argv, 2)),
        al \in IF store = Private THEN ParseString(Arg(argv, 3)) ELSE {"noAlias"},
        last \in IF store = Private THEN GetLevelOrCallback(Arg(argv, 4))
                 ELSE {[level |-> "EL1", cb |-> "none"]}}

InstallAppCertExecute(p, store) ==
    IF store = Private
    THEN Sdk("CmInstallAppCertEx",
             [appCert |-> p.keystore, appCertPwd |-> p.keystorePwd, certAlias |-> p.keyAlias,
              store |-> store, userId |-> "INIT_INVALID_VALUE", level |-> p.level, credFormat |-> "FILE_P12"])
    ELSE Sdk("CmInstallAppCert",
             [appCert |-> p.keystore, appCertPwd |-> p.keystorePwd, certAlias |-> p.keyAlias, store |-> store])

InstallAppCertResolve(store) ==
    [Gives("uri", "uri") EXCEPT !.recode =
        IF store = Private THEN [CMR_ERROR_PASSWORD_IS_ERR |-> "CMR_ERROR_INVALID_CERT_FORMAT"] ELSE <<>>]

\* Seeded fault: a promise although the caller gave a callback.
InstallAppCertAsyncWork_Always(p, store) == Work(TRUE, "LAST_ERROR")
InstallAppCertAsyncWork(p, store) == Work(store # Private \/ p.cb = "none", "LAST_ERROR")

CMNapiInstallAppCertCommon(argv, store) ==
    {Entry(p, InstallAppCertExecute(p, store), InstallAppCertResolve(store), InstallAppCertAsyncWork(p, store)) :
        p \in InstallAppCertParseParams(argv, store)}

\* One uri, and a callback for the private store.
UriAndCallback(argv, store) ==
    {[keyUri |-> u, cb |-> f] :
        u \in {x \in ParseString(Arg(argv, 1)) : Arity(argv, 1, IF store = Private THEN 2 ELSE 1)},
        f \in GetCallback(Arg(argv, 2))}

UninstallAppCertParseParams(argv, store) == UriAndCallback(argv, store)
UninstallAppCertExecute(p, store) == Sdk("CmUninstallAppCert", [keyUri |-> p.keyUri, store |-> store])
\* Nothing to uninstall is a success for the private store.
UninstallAppCertResolve(store) ==
    [Gives("undefined", "undefined") EXCEPT !.recode =
        IF store = Private THEN [CMR_ERROR_NOT_EXIST |-> "SUCCESS"] ELSE <<>>]
UninstallAppCertAsyncWork(p) == Work(p.cb = "none", "LAST_ERROR")

CMNapiUninstallAppCertCommon(argv, store) ==
    {Entry(p, UninstallAppCertExecute(p, store), UninstallAppCertResolve(store), UninstallAppCertAsyncWork(p)) :
        p \in UninstallAppCertParseParams(argv, store)}

UninstallAllAppCertParseParams(argv) == {[cb |-> "none"] : x \in {y \in {0} : Arity(argv, 0, 0)}}
UninstallAllAppCertExecute == Sdk("CmUninstallAllAppCert", <<>>)
UninstallAllAppCertResolve == Gives("true", "true")

CMNapiUninstallAllAppCert(argv) ==
    {Entry(p, UninstallAllAppCertExecute, UninstallAllAppCertResolve, Work(TRUE, "LAST_ERROR")) :
        p \in UninstallAllAppCertParseParams(argv)}

GetAppCertInfoParseParams(argv, store) == UriAndCallback(argv, store)
GetAppCertInfoExecute(p, store) == Sdk("CmGetAppCert", [keyUri |-> p.keyUri, store |-> store])
GetAppCertInfoWriteResult(store) == Gives("credential", IF store = System THEN "emptyObject" ELSE "undefined")
GetAppCertInfoAsyncWork(p) == Work(p.cb = "none", "LAST_ERROR")

CMNapiGetAppCertInfoCommon(argv, store) ==
    {Entry(p, GetAppCertInfoExecute(p, store), GetAppCertInfoWriteResult(store), GetAppCertInfoAsyncWork(p)) :
        p \in GetAppCertInfoParseParams(argv, store)}

GetAppCertListParseParams(argv, store) ==
    {[cb |-> f] : f \in {x \in GetCallback(Arg(argv, 1)) : Arity(argv, 0, IF store = Private THEN 1 ELSE 0)}}
GetAppCertListExecute(store) == Sdk("CmGetAppCertList", [store |-> store])
GetAppCertListWriteResult(store) == Gives("list", IF store = Public THEN "emptyList" ELSE "undefined")
GetAppCertListAsyncWork(p) == Work(p.cb = "none", "LAST_ERROR")

CMNapiGetAppCertListCommon(argv, store) ==
    {Entry(p, GetAppCertListExecute(store), GetAppCertListWriteResult(store), GetAppCertListAsyncWork(p)) :
        p \in GetAppCertListParseParams(argv, store)}

\* The callback it reads is never called: it always answers by its promise.
GetCallingAppCertListExecute(store) == Sdk("CmCallingGetAppCertList", [store |-> store])
GetCallingAppCertListAsyncWork == Work(TRUE, "LAST_ERROR")
CMNapiGetCallingAppCertListCommon(argv, store) ==
    {Entry(p, GetCallingAppCertListExecute(store), GetAppCertListWriteResult(store),
           GetCallingAppCertListAsyncWork) : p \in GetAppCertListParseParams(argv, store)}

GetAppCertListByUidParseParams(argv) ==
    {[appUid |-> n, cb |-> "none"] : n \in {x \in ParseUint32(Arg(argv, 1)) : Arity(argv, 1, 1)}}
GetAppCertListByUidExecute(p, store) == Sdk("CmGetAppCertListByUid", [store |-> store, appUid |-> p.appUid])
GetAppCertListByUidWriteResult == Gives("list", "emptyList")

CMNapiGetAppCertListByUidCommon(argv, store) ==
    {Entry(p, GetAppCertListByUidExecute(p, store), GetAppCertListByUidWriteResult, Work(TRUE, "LAST_ERROR")) :
        p \in GetAppCertListByUidParseParams(argv)}

-----------------------------------------------------------------------------
(* Certificate authorities.                                                 *)
SetCertStatusParseParams(argv) ==
    {[certUri |-> u, status |-> s, cb |-> "none"] :
        u \in {x \in ParseString(Arg(argv, 1)) : Arity(argv, 3, 3)},
        t \in OneOf(Arg(argv, 2), {"CM_CA_CERT_USER"}), s \in ParseBoolean(Arg(argv, 3))}
SetCertStatusExecute(p) ==
    Sdk("CmSetUserCertStatus", [certUri |-> p.certUri, store |-> "CM_USER_TRUSTED_STORE", status |-> p.status])
SetCertStatusResolve == Gives("undefined", "undefined")

CMNapiSetCertStatus(argv) ==
    {Entry(p, SetCertStatusExecute(p), SetCertStatusResolve, Work(TRUE, "LAST_ERROR")) :
        p \in SetCertStatusParseParams(argv)}

\* A scope that is there has to be one of a user.
GetCertListParseParams(argv, store) ==
    {[scope |-> s, cb |-> "none"] :
        s \in IF Len(argv) = 0 THEN {"none"}
              ELSE IF store = "CM_USER_TRUSTED_STORE" /\ Len(argv) = 1 THEN OneOf(argv[1], IsValidCertScope)
              ELSE {}}
GetCertListExecute(p, store) ==
    IF store = "CM_SYSTEM_TRUSTED_STORE" THEN Sdk("CmGetCertList", [store |-> store])
    ELSE IF p.scope # "none"
         THEN Sdk("CmGetUserCACertList", [userId |-> "INIT_INVALID_VALUE", scope |-> p.scope])
         ELSE Sdk("CmGetUserCertList", [store |-> store])
GetCertListWriteResult(store) ==
    Gives("list", IF store = "CM_SYSTEM_TRUSTED_STORE" THEN "emptyList" ELSE "undefined")

CMNapiGetCertList(argv, store) ==
    {Entry(p, GetCertListExecute(p, store), GetCertListWriteResult(store), Work(TRUE, "LAST_ERROR")) :
        p \in GetCertListParseParams(argv, store)}

GetCertInfoParseParams(argv) ==
    {[certUri |-> u, cb |-> "none"] : u \in {x \in ParseString(Arg(argv, 1)) : Arity(argv, 1, 1)}}
GetCertInfoExecute(p, store) ==
    Sdk(IF store = "CM_SYSTEM_TRUSTED_STORE" THEN "CmGetCertInfo" ELSE "CmGetUserCertInfo",
        [certUri |-> p.certUri, store |-> store])
GetCertInfoWriteResult(store) ==
    Gives("certInfo", IF store = "CM_SYSTEM_TRUSTED_STORE" THEN "emptyObject" ELSE "undefined")

CMNapiGetCertInfo(argv, store) ==
    {Entry(p, GetCertInfoExecute(p, store), GetCertInfoWriteResult(store), Work(TRUE, "LAST_ERROR")) :
        p \in GetCertInfoParseParams(argv)}

ParseCertFormat(v) ==
    IF Prop(v, "certFormat") = "undefined" THEN {"PEM_DER"} ELSE OneOf(Prop(v, "certFormat"), {"PEM_DER", "P7B"})
ParseCertScope(v) ==
    IF Prop(v, "certScope") = "undefined" THEN {"CM_CURRENT_USER"}
    ELSE OneOf(Prop(v, "certScope"), {"CM_ALL_USER", "CM_GLOBAL_USER", "CM_CURRENT_USER"})

ParseInstallUserCertParams(argv) ==
    {[userCert |-> d, certFormat |-> f, certScope |-> s, cb |-> "none"] :
        d \in {x \in GetUint8Array(Prop(Arg(argv, 1), "certData")) :
                   Arity(argv, 1, 1) /\ IsObject(argv[1])},
        f \in ParseCertFormat(Arg(argv, 1)), s \in ParseCertScope(Arg(argv, 1))}

ScopeUser == [CM_CURRENT_USER |-> "INIT_INVALID_VALUE", CM_GLOBAL_USER |-> "0"]
InstallUserCertExecute(p) ==
    IF p.certScope \notin DOMAIN ScopeUser THEN Fails("CMR_ERROR_INVALID_ARGUMENT")
    ELSE Sdk(IF p.certFormat = "P7B" THEN "CmInstallUserTrustedP7BCert" ELSE "CmInstallUserCACert",
             [userCert |-> p.userCert, userId |-> ScopeUser[p.certScope], status |-> "true"])
ConvertInstallCertResult(p) == LET v == IF p.certFormat = "P7B" THEN "uriList" ELSE "uri" IN Gives(v, v)
InstallUserCertAsyncWork == Work(TRUE, "PARAM_ERROR")

CMNapiInstallUserTrustedCert(argv) ==
    {Entry(p, InstallUserCertExecute(p), ConvertInstallCertResult(p), InstallUserCertAsyncWork) :
        p \in ParseInstallUserCertParams(argv)}

UninstallAllUserCertAsyncWork == Work(TRUE, "PARAM_ERROR")
CMNapiUninstallAllUserTrustedCert(argv) ==
    {Entry([cb |-> "none"], Sdk("CmUninstallAllUserTrustedCert", <<>>), Gives("undefined", "undefined"),
           UninstallAllUserCertAsyncWork)}

ParseInstallUserCertSyncParams(argv) ==
    {[userCert |-> d, certScope |-> s, certFormat |-> "PEM_DER", cb |-> "none"] :
        d \in {x \in GetUint8Array(Arg(argv, 1)) : Arity(argv, 2, 2)}, s \in ParseUint32(Arg(argv, 2))}
InstallUserCertSyncExecute(p) == InstallUserCertExecute(p)
CMNapiInstallUserTrustedCertSync(argv) ==
    {Entry(p, InstallUserCertSyncExecute(p), Gives("uri", "uri"), Sync) : p \in ParseInstallUserCertSyncParams(argv)}

ParseUninstallUserCertSyncParams(argv) == GetCertInfoParseParams(argv)
CMNapiUninstallUserCertSync(argv) ==
    {Entry(p, Sdk("CmUninstallUserTrustedCert", [certUri |-> p.certUri]), Gives("undefined", "undefined"), Sync) :
        p \in ParseUninstallUserCertSyncParams(argv)}

GetCertScope(v) ==
    IF Prop(v, "certScope") = "undefined" THEN {"none"} ELSE OneOf(Prop(v, "certScope"), IsValidCertScope)
\* An algorithm that is there but undefined is refused, unlike a scope.
GetAndCheckCertAlg(v) ==
    IF ~Has(v, "certAlg") THEN {"CM_ALG_INTERNATIONAL"} ELSE OneOf(Prop(v, "certAlg"), IsValidCertAlg)
GetCertStorePathParams(argv) ==
    {p \in {[certType |-> t, scope |-> s, algorithm |-> g, cb |-> "none"] :
               t \in {x \in OneOf(Prop(Arg(argv, 1), "certType"), IsValidCertType) : Arity(argv, 1, 1)},
               s \in GetCertScope(Arg(argv, 1)), g \in GetAndCheckCertAlg(Arg(argv, 1))} :
        p.certType = "CM_CA_CERT_USER" => p.scope # "none"}

\* The SDK is not asked: the path needs the account of the caller for a
\* current user and the directory of the algorithm for the system.
GetCertStorePath(p) ==
    IF p.certType = "CM_CA_CERT_SYSTEM"
    THEN IF p.algorithm = "CM_ALG_SM" THEN Sdk("SystemStoreSm", <<>>) ELSE Sdk("Path", <<>>)
    ELSE IF p.scope = "CM_GLOBAL_USER" THEN Sdk("Path", <<>>) ELSE Sdk("UserOfCaller", <<>>)
CMNapiGetCertStorePath(argv) ==
    {Entry(p, GetCertStorePath(p), Gives("path", "path"), Sync) : p \in GetCertStorePathParams(argv)}

-----------------------------------------------------------------------------
(* Authorizations: cm_napi_grant.cpp.                                       *)
ParseGrantUidParams(argv) ==
    {[keyUri |-> u, appUid |-> n, cb |-> "none"] :
        u \in {x \in ParseString(Arg(argv, 1)) : Arity(argv, 2, 2)}, n \in ParseUint32(Arg(argv, 2))}
GrantUidExecute(p) == Sdk("CmGrantAppCertificate", [keyUri |-> p.keyUri, appUid |-> p.appUid])
GrantUidResolve == Gives("uri", "uri")
GrantUidAsyncWork == Work(TRUE, "INNER_FAILURE")
CMNapiGrantPublicCertificate(argv) ==
    {Entry(p, GrantUidExecute(p), GrantUidResolve, GrantUidAsyncWork) : p \in ParseGrantUidParams(argv)}

\* A missing authorization is taken for a success, but the promise is rejected.
RemoveUidExecute(p) == Sdk("CmRemoveGrantedApp", [keyUri |-> p.keyUri, appUid |-> p.appUid])
RemoveUidResove == [Gives("undefined", "undefined") EXCEPT !.zero = {"CMR_ERROR_AUTH_CHECK_FAILED"}]
RemoveUidAsyncWork == Work(TRUE, "INNER_FAILURE")
CMNapiRemoveGrantedPublic(argv) ==
    {Entry(p, RemoveUidExecute(p), RemoveUidResove, RemoveUidAsyncWork) : p \in ParseGrantUidParams(argv)}

ParseIsAuthedParams(argv) ==
    {[keyUri |-> u, cb |-> "none"] : u \in {x \in ParseString(Arg(argv, 1)) : Arity(argv, 1, 1)}}
IsAuthedExecute(p) == Sdk("CmIsAuthorizedApp", [keyUri |-> p.keyUri])
\* Seeded fault: a missing authorization resolves to true.
IsAuthedResolve_Success ==
    [Gives("true", "true") EXCEPT !.recode = [CMR_ERROR_AUTH_CHECK_FAILED |-> "SUCCESS"]]
IsAuthedResolve == [Gives("true", "true") EXCEPT !.zero = {"CMR_ERROR_AUTH_CHECK_FAILED"}]
IsAuthedAsyncWork == Work(TRUE, "INNER_FAILURE")
CMNapiIsAuthorizedApp(argv) ==
    {Entry(p, IsAuthedExecute(p), IsAuthedResolve, IsAuthedAsyncWork) : p \in ParseIsAuthedParams(argv)}

GetUidListExecute(p) == Sdk("CmGetAuthorizedAppList", [keyUri |-> p.keyUri])
GetUidListResolve == Gives("list", "emptyList")
GetUidListAsyncWork == Work(TRUE, "INNER_FAILURE")
CMNapiGetAuthorizedAppList(argv) ==
    {Entry(p, GetUidListExecute(p), GetUidListResolve, GetUidListAsyncWork) : p \in ParseIsAuthedParams(argv)}

-----------------------------------------------------------------------------
(* Signing: cm_napi_sign_verify.cpp.                                        *)
Paddings == {"CM_PADDING_NONE", "CM_PADDING_PSS", "CM_PADDING_PKCS1_V1_5"}
Digests == {"CM_DIGEST_NONE", "CM_DIGEST_SHA256"}
GetPadding(v) ==
    IF Prop(v, "padding") = "undefined" THEN {"CM_PADDING_PSS"} ELSE OneOf(Prop(v, "padding"), Paddings)
GetDigest(v) ==
    IF Prop(v, "digest") = "undefined" THEN {"CM_DIGEST_SHA256"} ELSE OneOf(Prop(v, "digest"), Digests)
ParseSpec(v) ==
    {[purpose |-> n, padding |-> p, digest |-> d] :
        n \in {x \in ParseUint32(Prop(v, "purpose")) : IsObject(v)}, p \in GetPadding(v), d \in GetDigest(v)}

ParseCMInitParams(argv) ==
    {[authUri |-> u, spec |-> s, cb |-> f] :
        u \in {x \in ParseString(Arg(argv, 1)) : Arity(argv, 2, 3)},
        s \in ParseSpec(Arg(argv, 2)), f \in GetCallback(Arg(argv, 3))}
InitExecute(p) == 
    Sdk("CmInit", [authUri |-> p.authUri, purpose |-> p.spec.purpose, padding |-> p.spec.padding,
                   digest |-> p.spec.digest])
InitResolve == Gives("handle", "handle")
CMInitAsyncWork(p) == Work(p.cb = "none", "PARAM_ERROR")
CMNapiInit(argv) ==
    {Entry(p, InitExecute(p), InitResolve, CMInitAsyncWork(p)) : p \in ParseCMInitParams(argv)}

ParseCMUpdateParams(argv) ==
    {[handle |-> h, inData |-> d, cb |-> f] :
        h \in {x \in GetUint8Array(Arg(argv, 1)) : Arity(argv, 2, 3)},
        d \in GetUint8Array(Arg(argv, 2)), f \in GetCallback(Arg(argv, 3))}
UpdateExecute(p) == Sdk("CmUpdate", [handle |-> p.handle, inData |-> p.inData])
UpdateOrAbortResolve == Gives("undefined", "undefined")
CMUpdateAsyncWork(p) == Work(p.cb = "none", "PARAM_ERROR")
CMNapiUpdate(argv) ==
    {Entry(p, UpdateExecute(p), UpdateOrAbortResolve, CMUpdateAsyncWork(p)) : p \in ParseCMUpdateParams(argv)}

\* finish(handle), finish(handle, callback), finish(handle, signature) and
\* finish(handle, signature, callback): the first two sign.
Signs(h, f) == {[handle |-> h, isSign |-> TRUE, signature |-> "out", cb |-> f]}
Verifies(h, v, f) == {[handle |-> h, isSign |-> FALSE, signature |-> s, cb |-> f] : s \in GetUint8Array(v)}
ProcessFinishOneParam(h) == Signs(h, "none")
ProcessFinishTwoParam(h, v) == IF Type[v] = "function" THEN Signs(h, v) ELSE Verifies(h, v, "none")
ProcessFinishThreeParam(h, v, f) == UNION {Verifies(h, v, c) : c \in GetCallback(f)}
ParseCMFinishParams(argv) ==
    UNION {CASE Len(argv) = 1 -> ProcessFinishOneParam(h)
             [] Len(argv) = 2 -> ProcessFinishTwoParam(h, argv[2])
             [] OTHER -> ProcessFinishThreeParam(h, argv[2], argv[3]) :
           h \in {x \in GetUint8Array(Arg(argv, 1)) : Arity(argv, 1, 3)}}
FinishExecute(p) ==
    Sdk("CmFinish", IF p.isSign THEN [handle |-> p.handle, inData |-> "empty", outData |-> p.signature]
                    ELSE [handle |-> p.handle, inData |-> p.signature, outData |-> "empty"])
ConvertResultSignature(p) == LET v == IF p.isSign THEN "signature" ELSE "null" IN Gives(v, v)
CMFinishAsyncWork(p) == Work(p.cb = "none", "PARAM_ERROR")
CMNapiFinish(argv) ==
    {Entry(p, FinishExecute(p), ConvertResultSignature(p), CMFinishAsyncWork(p)) : p \in ParseCMFinishParams(argv)}

ParseCMAbortParams(argv) ==
    {[handle |-> h, cb |-> f] :
        h \in {x \in GetUint8Array(Arg(argv, 1)) : Arity(argv, 1, 2)}, f \in GetCallback(Arg(argv, 2))}
AbortExecute(p) == Sdk("CmAbort", [handle |-> p.handle])
CMAbortAsyncWork(p) == Work(p.cb = "none", "PARAM_ERROR")
CMNapiAbort(argv) ==
    {Entry(p, AbortExecute(p), UpdateOrAbortResolve, CMAbortAsyncWork(p)) : p \in ParseCMAbortParams(argv)}

-----------------------------------------------------------------------------
(* UKeys.                                                                   *)
Purposes == {"CM_CERT_PURPOSE_DEFAULT", "CM_CERT_PURPOSE_ALL", "CM_CERT_PURPOSE_SIGN", "CM_CERT_PURPOSE_ENCRYPT"}
ParseUkeyInfo(v, purposes) ==
    IF ~HasProps(v) THEN {}
    ELSE IF Prop(v, "certPurpose") = "undefined" THEN {"CM_CERT_PURPOSE_DEFAULT"}
    ELSE OneOf(Prop(v, "certPurpose"), purposes)

GetUkeyCertListParseParams(argv) ==
    {[ukeyProvider |-> s, certPurpose |-> n, cb |-> "none"] :
        s \in {x \in ParseStringOrEmpty(Arg(argv, 1)) : Arity(argv, 2, 2) /\ CheckUkeyParamsType(argv)},
        n \in ParseUkeyInfo(Arg(argv, 2), Purposes)}
GetUkeyCertListExecute(p) ==
    Sdk("CmGetUkeyCertList", [ukeyProvider |-> p.ukeyProvider, certPurpose |-> p.certPurpose])
GetUkeyCertListWriteResult == Gives("list", "emptyList")
GetUkeyCertListAsyncWork == Work(TRUE, "LAST_ERROR")
CMNapiGetUkeyCertList(argv) ==
    {Entry(p, GetUkeyCertListExecute(p), GetUkeyCertListWriteResult, GetUkeyCertListAsyncWork) :
        p \in GetUkeyCertListParseParams(argv)}

GetUkeyCertParseParams(argv) ==
    {[keyUri |-> s, certPurpose |-> n, cb |-> "none"] :
        s \in {x \in ParseString(Arg(argv, 1)) : Arity(argv, 2, 2) /\ CheckUkeyParamsType(argv)},
        n \in ParseUkeyInfo(Arg(argv, 2), Purposes)}
GetUkeyCertExecute(p) == Sdk("CmGetUkeyCert", [keyUri |-> p.keyUri, certPurpose |-> p.certPurpose])
GetUkeyCertWriteResult == Gives("list", "undefined")
GetUkeyCertAsyncWork == Work(TRUE, "LAST_ERROR")
CMNapiGetUkeyCert(argv) ==
    {Entry(p, GetUkeyCertExecute(p), GetUkeyCertWriteResult, GetUkeyCertAsyncWork) : p \in GetUkeyCertParseParams(argv)}

ParseImportParams(argv) ==
    {[keyUri |-> s, cert |-> d, certPurpose |-> n, cb |-> "none"] :
        s \in {x \in ParseString(Arg(argv, 1)) : Arity(argv, 3, 3)},
        d \in {x \in GetUint8Array(Arg(argv, 2)) : Length[x] <= MAX_LEN_UKEY_CERT_IMPORT},
        n \in {x \in ParseUkeyInfo(Arg(argv, 3), Purposes \ {"CM_CERT_PURPOSE_ALL"}) : IsObject(Arg(argv, 3))}}
ImportUkeyCertExecute(p) ==
    Sdk("CmImportUkeyCert", [keyUri |-> p.keyUri, cert |-> p.cert, certPurpose |-> p.certPurpose])
ImportUkeyCertAsyncWork == Work(TRUE, "LAST_ERROR")
CMNapiImportUkeyCert(argv) ==
    {Entry(p, ImportUkeyCertExecute(p), Gives("undefined", "undefined"), ImportUkeyCertAsyncWork) :
        p \in ParseImportParams(argv)}

\* The error a refusal throws: the three of the UKey tell a wrong type from a
\* wrong value.
UkeyRefusal(typesAreRight) ==
    IF typesAreRight THEN "PARAMETER_VALIDATION_FAILED" ELSE "PARAM_ERROR"
ImportTypesAreRight(argv) ==
    /\ Arity(argv, 3, 3) /\ Type[argv[1]] = "string"
    /\ ParseString(argv[1]) # {} => IsObject(argv[2])
    /\ ParseString(argv[1]) # {} /\ {x \in GetUint8Array(argv[2]) : Length[x] <= MAX_LEN_UKEY_CERT_IMPORT} # {} =>
           IsObject(argv[3]) /\ Type[Prop(argv[3], "certPurpose")] \in {"number", "undefined"}
Refusal(op, argv) ==
    CASE op \in {"getUkeyCertificateList", "getUkeyCertificate"} ->
             UkeyRefusal(Arity(argv, 2, 2) /\ CheckUkeyParamsType(argv))
      [] op = "importUkeyCertificate" -> UkeyRefusal(ImportTypesAreRight(argv))
      [] OTHER -> "PARAM_ERROR"

-----------------------------------------------------------------------------
(* The functions of the module, by name: cm_napi.cpp.                       *)
CredentialApis(op, argv) ==
    CASE op = "installPublicCertificate" -> CMNapiInstallAppCertCommon(argv, Public)
      [] op = "installPrivateCertificate" -> CMNapiInstallAppCertCommon(argv, Private)
      [] op = "installSystemAppCertificate" -> CMNapiInstallAppCertCommon(argv, System)
      [] op = "uninstallPublicCertificate" -> CMNapiUninstallAppCertCommon(argv, Public)
      [] op = "uninstallPrivateCertificate" -> CMNapiUninstallAppCertCommon(argv, Private)
      [] op = "uninstallSystemAppCertificate" -> CMNapiUninstallAppCertCommon(argv, System)
      [] op = "uninstallAllAppCertificate" -> CMNapiUninstallAllAppCert(argv)
      [] op = "getAllPublicCertificates" -> CMNapiGetAppCertListCommon(argv, Public)
      [] op = "getAllAppPrivateCertificates" -> CMNapiGetAppCertListCommon(argv, Private)
      [] op = "getAllSystemAppCertificates" -> CMNapiGetAppCertListCommon(argv, System)
      [] op = "getAllAppPrivateCertificatesByUid" -> CMNapiGetAppCertListByUidCommon(argv, Private)
      [] op = "getPrivateCertificates" -> CMNapiGetCallingAppCertListCommon(argv, Private)
      [] op = "getPublicCertificate" -> CMNapiGetAppCertInfoCommon(argv, Public)
      [] op = "getPrivateCertificate" -> CMNapiGetAppCertInfoCommon(argv, Private)
      [] op = "getSystemAppCertificate" -> CMNapiGetAppCertInfoCommon(argv, System)

CertificateApis(op, argv) ==
    CASE op = "getSystemTrustedCertificateList" -> CMNapiGetCertList(argv, "CM_SYSTEM_TRUSTED_STORE")
      [] op = "getAllUserTrustedCertificates" -> CMNapiGetCertList(argv, "CM_USER_TRUSTED_STORE")
      [] op = "getSystemTrustedCertificate" -> CMNapiGetCertInfo(argv, "CM_SYSTEM_TRUSTED_STORE")
      [] op = "getUserTrustedCertificate" -> CMNapiGetCertInfo(argv, "CM_USER_TRUSTED_STORE")
      [] op = "setCertificateStatus" -> CMNapiSetCertStatus(argv)
      [] op = "installUserTrustedCertificate" -> CMNapiInstallUserTrustedCert(argv)
      [] op = "installUserTrustedCertificateSync" -> CMNapiInstallUserTrustedCertSync(argv)
      [] op = "uninstallAllUserTrustedCertificate" -> CMNapiUninstallAllUserTrustedCert(argv)
      [] op = "uninstallUserTrustedCertificateSync" -> CMNapiUninstallUserCertSync(argv)
      [] op = "getCertificateStorePath" -> CMNapiGetCertStorePath(argv)

KeyApis(op, argv) ==
    CASE op = "grantPublicCertificate" -> CMNapiGrantPublicCertificate(argv)
      [] op = "removeGrantedPublicCertificate" -> CMNapiRemoveGrantedPublic(argv)
      [] op = "isAuthorizedApp" -> CMNapiIsAuthorizedApp(argv)
      [] op = "getAuthorizedAppList" -> CMNapiGetAuthorizedAppList(argv)
      [] op = "init" -> CMNapiInit(argv)
      [] op = "update" -> CMNapiUpdate(argv)
      [] op = "finish" -> CMNapiFinish(argv)
      [] op = "abort" -> CMNapiAbort(argv)
      [] op = "getUkeyCertificateList" -> CMNapiGetUkeyCertList(argv)
      [] op = "getUkeyCertificate" -> CMNapiGetUkeyCert(argv)
      [] op = "importUkeyCertificate" -> CMNapiImportUkeyCert(argv)

CredentialNames ==
    {"installPublicCertificate", "installPrivateCertificate", "installSystemAppCertificate",
     "uninstallPublicCertificate", "uninstallPrivateCertificate", "uninstallSystemAppCertificate",
     "uninstallAllAppCertificate", "getAllPublicCertificates", "getAllAppPrivateCertificates",
     "getAllSystemAppCertificates", "getAllAppPrivateCertificatesByUid", "getPrivateCertificates",
     "getPublicCertificate", "getPrivateCertificate", "getSystemAppCertificate"}
CertificateNames ==
    {"getSystemTrustedCertificateList", "getAllUserTrustedCertificates", "getSystemTrustedCertificate",
     "getUserTrustedCertificate", "setCertificateStatus", "installUserTrustedCertificate",
     "installUserTrustedCertificateSync", "uninstallAllUserTrustedCertificate",
     "uninstallUserTrustedCertificateSync", "getCertificateStorePath"}
KeyNames ==
    {"grantPublicCertificate", "removeGrantedPublicCertificate", "isAuthorizedApp", "getAuthorizedAppList",
     "init", "update", "finish", "abort", "getUkeyCertificateList", "getUkeyCertificate",
     "importUkeyCertificate"}

Parse(op, argv) ==
    IF op \in CredentialNames THEN CredentialApis(op, argv)
    ELSE IF op \in CertificateNames THEN CertificateApis(op, argv)
    ELSE KeyApis(op, argv)
=============================================================================
