----------------------------- MODULE CmHandlers -----------------------------
(***************************************************************************)
(* The service side of a call: how the parameters of a message are found   *)
(* by their tags (cm_param.c, cm_ipc_service_serialization.c) and what the *)
(* handlers of cm_ipc_service.c do before the work itself: a refusal, or   *)
(* the name of the work, its arguments, the user and application it is for *)
(* and how the answer is sent.                                             *)
(***************************************************************************)
EXTENDS CmRequests

\* CmParamsToParamSet: an empty buffer travels under a tag of its own.
CmParamsToParamSet(params) ==
    [t \in {IF tag[1] = "BUFFER" /\ ~CmCheckBlob(params[tag]) THEN N(tag[2]) ELSE tag : tag \in DOMAIN params} |->
        IF t[1] = "NULL" THEN Blob("ok") ELSE params[t]]

\* GetNormalParam, GetNullBlobParam: the parameter of a tag.
IsSent(p, tag) == tag \in DOMAIN p \/ (tag[1] = "BUFFER" /\ N(tag[2]) \in DOMAIN p)
GetNormalParam(p, tag) == IF tag \in DOMAIN p THEN p[tag] ELSE Blob("empty")

Refused(err, ctx) == [err |-> err, ctx |-> ctx, args |-> <<>>, work |-> "", reply |-> "none"]

\* What a handler does before its work: parameters under these tags, the check
\* of them; then the work with these arguments and this answer.
Handle(ctx, p, tags, check(_), work, reply) ==
    IF \E f \in DOMAIN tags : ~IsSent(p, tags[f])
    THEN Refused("PARAM_NOT_EXIST", ctx)
    ELSE LET a == [f \in DOMAIN tags |-> GetNormalParam(p, tags[f])]
             v == check(a)
         IN  [err |-> v.err, ctx |-> v.ctx, args |-> a, work |-> work, reply |-> reply]

\* These take no parameters.
HandleAll(verdict, work) ==
    [err |-> verdict.err, ctx |-> verdict.ctx, args |-> <<>>, work |-> work, reply |-> "none"]

-----------------------------------------------------------------------------
(* Handlers.  c: the caller, x: its user and uid, p: the parameters, out:  *)
(* the form of the buffer for the answer.                                  *)

CmIpcServiceGetCertificateList(c, x, p, out) ==
    Handle(x, p, [store |-> U(0)],
           LAMBDA a : Then(CmServiceGetSystemCertListCheck(c, x, a.store),
                           LAMBDA y : CmServiceGetCertList(y, INVALID, "ALL_USER", a.store)),
           "CmGetCertList", "outData")

CmIpcServiceGetCertificateInfo(c, x, p, out) ==
    Handle(x, p, [certUri |-> B(0), store |-> U(0)],
           LAMBDA a : Then(CmServiceGetSystemCertCheck(c, x, a.store, a.certUri),
                           LAMBDA y : CmServiceGetCertInfo(y, a.certUri, a.store)),
           "CmGetCertInfo", "outData")

\* The status of a system CA is checked and not kept.
CmIpcServiceSetCertStatus(c, x, p, out) ==
    Handle(x, p, [certUri |-> B(0), store |-> U(0), status |-> U(1)],
           LAMBDA a : CmServiceSetCertStatusCheck(c, x, a.store, a.certUri, a.status),
           "CmSetCertStatus", "none")

CmIpcServiceInstallAppCert(c, x, p, out) ==
    Handle(x, p, [appCert |-> B(0), pwd |-> B(1), alias |-> B(2), privKey |-> B(3), store |-> U(0),
                  userId |-> U(1), level |-> U(2), credFormat |-> U(3), aliasFormat |-> U(4)],
           LAMBDA a : CmServiceInstallAppCertCheck(c, x, a),
           "CmInstallAppCert", "outData")

CmIpcServiceUninstallAppCert(c, x, p, out) ==
    Handle(x, p, [keyUri |-> B(0), store |-> U(0)],
           LAMBDA a : CmServiceUninstallAppCertCheck(c, x, a.store, a.keyUri),
           "CmUninstallAppCert", "none")

CmIpcServiceUninstallAllAppCert(c, x, p, out) ==
    HandleAll(CmRemoveAllAppCert(c, x), "CmUninstallAllAppCert")

CmIpcServiceGetAppCertList(c, x, p, out) ==
    Handle(x, p, [store |-> U(0)],
           LAMBDA a : CmServiceGetAppCertListCheck(c, x, a.store),
           "CmGetAppCertList", "own")

\* For the application that is named.
CmIpcServiceGetAppCertListByUid(c, x, p, out) ==
    Handle(x, p, [store |-> U(0), appUid |-> U(1)],
           LAMBDA a : CmServiceGetAppCertListCheck(c, [x EXCEPT !.uid = a.appUid], a.store),
           "CmGetAppCertListByUid", "own")

CmIpcServiceGetCallingAppCertList(c, x, p, out) ==
    Handle(x, p, [store |-> U(0)],
           LAMBDA a : CmServiceGetCallingAppCertListCheck(c, x, a.store),
           "CmCallingGetAppCertList", "own")

CmIpcServiceGetUkeyCertListCommon(c, x, p, tags, work) ==
    Handle(x, p, tags,
           LAMBDA a : Verdict(<<Denied(CmHasCommonPermission(c))>>, x), work, "parcel")
CmIpcServiceGetUkeyCertList(c, x, p, out) ==
    CmIpcServiceGetUkeyCertListCommon(c, x, p, [provider |-> B(0), purpose |-> U(0)], "CmGetUkeyCertList")
CmIpcServiceGetUkeyCert(c, x, p, out) ==
    CmIpcServiceGetUkeyCertListCommon(c, x, p, [keyUri |-> B(0), purpose |-> U(0)], "CmGetUkeyCert")

\* The answer is packed with what the work returned (CmAppCertificateInfoPack).
CmIpcServiceGetAppCert(c, x, p, out) ==
    Handle(x, p, [keyUri |-> B(0), store |-> U(0)],
           LAMBDA a : Then(CmServiceGetAppCertCheck(c, x, a.store, a.keyUri),
                           LAMBDA y : CmServiceGetAppCert(c, y, a.store, a.keyUri)),
           "CmGetAppCert", "own")

CmIpcServiceGrantAppCertificate(c, x, p, out) ==
    Handle(x, p, [keyUri |-> B(0), appUid |-> U(1)],
           LAMBDA a : CmServiceGrantAppCertificate(c, x, a.keyUri, Blob(out)),
           "CmGrantAppCertificate", "outData")

CmIpcServiceGetAuthorizedAppList(c, x, p, out) ==
    Handle(x, p, [keyUri |-> B(0)],
           LAMBDA a : Then(Verdict(<< <<~CmCheckBlob(Blob(out)), "BUFFER_TOO_SMALL">> >>, x),
                           LAMBDA y : CmServiceGetAuthorizedAppList(c, y, a.keyUri)),
           "CmGetAuthorizedAppList", "outData")

CmIpcServiceIsAuthorizedApp(c, x, p, out) ==
    Handle(x, p, [authUri |-> B(0)], LAMBDA a : CmServiceIsAuthorizedApp(c, x, a.authUri),
           "CmIsAuthorizedApp", "none")

CmIpcServiceRemoveGrantedApp(c, x, p, out) ==
    Handle(x, p, [keyUri |-> B(0), appUid |-> U(1)],
           LAMBDA a : CmServiceGetAuthorizedAppList(c, x, a.keyUri),
           "CmRemoveGrantedApp", "none")

CmIpcServiceInit(c, x, p, out) ==
    Handle(x, p, [authUri |-> B(0), spec |-> B(1)],
           LAMBDA a : Then(Verdict(<< <<~CmCheckBlob(a.spec), "INVALID_ARGUMENT_SIGN_SPEC">> >>, x),
                           LAMBDA y : CmServiceInit(c, y, a.authUri, Blob(out))),
           "CmInit", "outData")

CmIpcServiceUpdate(c, x, p, out) ==
    Handle(x, p, [handle |-> B(0), inData |-> B(1)],
           LAMBDA a : CmServiceUpdate(c, x, a.handle, a.inData), "CmUpdate", "none")

CmIpcServiceFinish(c, x, p, out) ==
    Handle(x, p, [handle |-> B(0), inData |-> B(1)],
           LAMBDA a : CmServiceFinish(c, x, a.handle), "CmFinish", "outData")

CmIpcServiceAbort(c, x, p, out) ==
    Handle(x, p, [handle |-> B(0)], LAMBDA a : CmServiceFinish(c, x, a.handle), "CmAbort", "none")

CmIpcServiceGetUserCertList(c, x, p, out) ==
    Handle(x, p, [store |-> U(0), userId |-> U(1), scope |-> U(2)],
           LAMBDA a : Then(Verdict(CmHasGetCAPermission(c, a.store), x),
                           LAMBDA y : CmServiceGetCertList(y, a.userId, a.scope, a.store)),
           "CmGetUserCACertList", "outData")

CmIpcServiceGetUserCertInfo(c, x, p, out) ==
    Handle(x, p, [certUri |-> B(0), store |-> U(0)],
           LAMBDA a : Then(Verdict(<<Denied(CmHasCommonPermission(c))>>, x),
                           LAMBDA y : CmServiceGetCertInfo(y, a.certUri, a.store)),
           "CmGetUserCertInfo", "outData")

CmIpcServiceSetUserCertStatus(c, x, p, out) ==
    Handle(x, p, [certUri |-> B(0), store |-> U(0), status |-> U(1)],
           LAMBDA a : CmServiceSetUserCertStatusCheck(c, x, a.certUri),
           "CmSetUserCertStatus", "none")

\* CmInstallUserCertExecute wants room for the URI.
CmIpcServiceInstallUserCert(c, x, p, out) ==
    Handle(x, p, [userCert |-> B(0), alias |-> B(1), userId |-> U(0), status |-> U(1), format |-> U(2)],
           LAMBDA a : Then(CmServiceInstallUserCertCheck(c, x, a.userCert, a.alias, a.userId),
                           LAMBDA y : Verdict(<< <<~CmCheckBlob(Blob(out)), "INVALID_ARGUMENT">>,
                               <<a.format \notin {"PEM_DER", "P7B"}, "NOT_SUPPORTED">> >>, y)),
           "CmInstallUserTrustedCert", "outData")

CmIpcServiceUninstallUserCert(c, x, p, out) ==
    Handle(x, p, [certUri |-> B(0)],
           LAMBDA a : Then(CmServiceUninstallUserCertCheck(c, x, a.certUri),
                           LAMBDA y : CmComparisonCallerIdWithUri(y, a.certUri)),
           "CmUninstallUserTrustedCert", "none")

CmIpcServiceUninstallAllUserCert(c, x, p, out) ==
    HandleAll(Verdict(<<Denied(CmHasCommonPermission(c) /\ CmHasUserTrustedPermission(c)),
                        NotSystem(c)>>, x), "CmUninstallAllUserTrustedCert")

\* Asked on behalf of the application that is named.
CmIpcServiceCheckAppPermission(c, x, p, out) ==
    Handle(x, p, [keyUri |-> B(0), appUid |-> U(0)],
           LAMBDA a : Then(Verdict(<<Denied(CmHasCommonPermission(c))>>, [x EXCEPT !.uid = a.appUid]),
                           LAMBDA y : CmServiceCheckAppPermission(c, y, a.keyUri)),
           "CmCheckAppPermission", "outData")

CmIpcServiceImportUkeyCert(c, x, p, out) ==
    Handle(x, p, [keyUri |-> B(0), cert |-> B(1), purpose |-> U(0)],
           LAMBDA a : Verdict(<< <<a.cert.form = "huge", "INVALID_ARGUMENT_LENGTH_TOO_LARGE">>,
                                 Denied(CmHasCommonPermission(c)) >>, x),
           "CmImportUkeyCert", "parcel")

-----------------------------------------------------------------------------
\* Seeded fault: the row of the code is not there.
ProcessMessage_NoRow(code, c, x, p, out) == Refused("SUCCESS", x)

\* g_cmIpcHandler and g_cmParcelIpcHandler.  A code in neither is not answered.
ProcessMessage(code, c, x, p, out) ==
    CASE code = "INSTALL_APP_CERTIFICATE" -> CmIpcServiceInstallAppCert(c, x, p, out)
      [] code = "UNINSTALL_APP_CERTIFICATE" -> CmIpcServiceUninstallAppCert(c, x, p, out)
      [] code = "UNINSTALL_ALL_APP_CERTIFICATE" -> CmIpcServiceUninstallAllAppCert(c, x, p, out)
      [] code = "GET_APP_CERTIFICATE_LIST" -> CmIpcServiceGetAppCertList(c, x, p, out)
      [] code = "GET_CALLING_APP_CERTIFICATE_LIST" -> CmIpcServiceGetCallingAppCertList(c, x, p, out)
      [] code = "GET_APP_CERTIFICATE" -> CmIpcServiceGetAppCert(c, x, p, out)
      [] code = "GET_APP_CERTIFICATE_LIST_BY_UID" -> CmIpcServiceGetAppCertListByUid(c, x, p, out)
      [] code = "GRANT_APP_CERT" -> CmIpcServiceGrantAppCertificate(c, x, p, out)
      [] code = "GET_AUTHED_LIST" -> CmIpcServiceGetAuthorizedAppList(c, x, p, out)
      [] code = "CHECK_IS_AUTHED_APP" -> CmIpcServiceIsAuthorizedApp(c, x, p, out)
      [] code = "REMOVE_GRANT_APP" -> CmIpcServiceRemoveGrantedApp(c, x, p, out)
      [] code = "INIT" -> CmIpcServiceInit(c, x, p, out)
      [] code = "UPDATE" -> CmIpcServiceUpdate(c, x, p, out)
      [] code = "FINISH" -> CmIpcServiceFinish(c, x, p, out)
      [] code = "ABORT" -> CmIpcServiceAbort(c, x, p, out)
      [] code = "GET_USER_CERTIFICATE_LIST" -> CmIpcServiceGetUserCertList(c, x, p, out)
      [] code = "GET_USER_CERTIFICATE_INFO" -> CmIpcServiceGetUserCertInfo(c, x, p, out)
      [] code = "SET_USER_CERTIFICATE_STATUS" -> CmIpcServiceSetUserCertStatus(c, x, p, out)
      [] code = "INSTALL_USER_CERTIFICATE" -> CmIpcServiceInstallUserCert(c, x, p, out)
      [] code = "UNINSTALL_USER_CERTIFICATE" -> CmIpcServiceUninstallUserCert(c, x, p, out)
      [] code = "UNINSTALL_ALL_USER_CERTIFICATE" -> CmIpcServiceUninstallAllUserCert(c, x, p, out)
      [] code = "GET_CERTIFICATE_LIST" -> CmIpcServiceGetCertificateList(c, x, p, out)
      [] code = "GET_CERTIFICATE_INFO" -> CmIpcServiceGetCertificateInfo(c, x, p, out)
      [] code = "SET_CERTIFICATE_STATUS" -> CmIpcServiceSetCertStatus(c, x, p, out)
      [] code = "CHECK_APP_PERMISSION" -> CmIpcServiceCheckAppPermission(c, x, p, out)
      [] code = "GET_UKEY_CERTIFICATE_LIST" -> CmIpcServiceGetUkeyCertList(c, x, p, out)
      [] code = "GET_UKEY_CERTIFICATE" -> CmIpcServiceGetUkeyCert(c, x, p, out)
      [] code = "IMPORT_UKEY_CERTIFICATE" -> CmIpcServiceImportUkeyCert(c, x, p, out)
      [] OTHER -> Refused("SUCCESS", x)
=============================================================================
