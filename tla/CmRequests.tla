----------------------------- MODULE CmRequests -----------------------------
(***************************************************************************)
(* The client side of a call: the functions of the SDK                     *)
(* (cert_manager_api.c) and what they make of their arguments with the     *)
(* functions of cm_ipc_client.c: a refusal, or a request with a message    *)
(* code, tagged parameters, room for the answer and a way to unpack it.    *)
(***************************************************************************)
EXTENDS CmChecks

\* Tags: CM_TAG_PARAMi_BUFFER, its NULL form, and CM_TAG_PARAMi_UINT32.
B(i) == <<"BUFFER", i>>
N(i) == <<"NULL", i>>
U(i) == <<"UINT32", i>>

\* Room for the answer: none, received from the reply, a buffer of the client
\* or the caller's blob.
NoOut == [kind |-> "none", form |-> "null"]
Received == [kind |-> "received", form |-> "empty"]
Buffer(form) == [kind |-> "buffer", form |-> form]
CallerBlob(blob) == [kind |-> "caller", form |-> blob.form]

Refuse(err) == [err |-> err, code |-> "", params |-> <<>>, out |-> NoOut,
                via |-> "", unpack |-> "SUCCESS"]
\* struct CmParam params[]: pairs of a tag and a value, by tag.
Params(pairs) == [t \in {p[1] : p \in pairs} |-> (CHOOSE p \in pairs : p[1] = t)[2]]
Request(code, pairs, out) ==
    [Refuse("SUCCESS") EXCEPT !.code = code, !.params = Params(pairs), !.out = out, !.via = "request"]
\* What unpacking the answer gives when the caller's struct has no room for it.
Unpacked(request, into, err) ==
    IF into.form = "ok" THEN request ELSE [request EXCEPT !.unpack = err]
CmCertificateListUnpackFromService(request, list) == Unpacked(request, list, "BUFFER_TOO_SMALL")
CmCertificateInfoUnpackFromService(request, info) == Unpacked(request, info, "BUFFER_TOO_SMALL")
CmCredentialUnpackFromService(request, credential) == Unpacked(request, credential, "INVALID_ARGUMENT")
CmAppPermissionUnpackFromService(request, huksAlias) ==
    Unpacked(request, huksAlias, IF huksAlias.form = "null" THEN "NULL_POINTER" ELSE "INVALID_ARGUMENT")

Ask(checks, request) ==
    IF FirstError(checks) = "SUCCESS" THEN request ELSE Refuse(FirstError(checks))

Null(blob, err) == <<blob.form = "null", err>>
Invalid(blob) == <<~CmCheckBlob(blob), "INVALID_ARGUMENT">>
InvalidStore(store) == <<store \notin CREDENTIAL_STORES, "INVALID_ARGUMENT">>
BoolToStatus(status) == IF status THEN 0 ELSE 1

-----------------------------------------------------------------------------
(* cm_ipc_client.c                                                         *)

GetCertificateList(code, store, list) ==
    CmCertificateListUnpackFromService(Request(code, {<<U(0), store>>}, Buffer("ok")), list)

GetCertificateInfo(code, certUri, store, info) ==
    CmCertificateInfoUnpackFromService(
        Request(code, {<<B(0), certUri>>, <<U(0), store>>}, Buffer("ok")), info)

SetCertificateStatus(code, certUri, store, status) ==
    Request(code, {<<B(0), certUri>>, <<U(0), store>>, <<U(1), status>>}, NoOut)

\* Seeded fault: password and alias change places.
CmClientInstallAppCert_Swapped(a) ==
    Request("INSTALL_APP_CERTIFICATE",
            {<<B(0), a.appCert>>, <<B(1), a.alias>>, <<B(2), a.pwd>>, <<B(3), a.privKey>>,
             <<U(0), a.store>>, <<U(1), a.userId>>, <<U(2), a.level>>, <<U(3), a.credFormat>>,
             <<U(4), a.aliasFormat>>}, CallerBlob(a.keyUri))

CmClientInstallAppCert(a) ==
    Request("INSTALL_APP_CERTIFICATE",
            {<<B(0), a.appCert>>, <<B(1), a.pwd>>, <<B(2), a.alias>>, <<B(3), a.privKey>>,
             <<U(0), a.store>>, <<U(1), a.userId>>, <<U(2), a.level>>, <<U(3), a.credFormat>>,
             <<U(4), a.aliasFormat>>}, CallerBlob(a.keyUri))

\* With these for what the caller does not say.
CmClientInstallSystemAppCert(a) ==
    CmClientInstallAppCert(
        [appCert |-> a.appCert, pwd |-> a.pwd, alias |-> a.alias, privKey |-> Blob("empty"),
         store |-> a.store, userId |-> a.userId, level |-> "EL1", credFormat |-> "FILE_P12",
         aliasFormat |-> "DEFAULT", keyUri |-> a.keyUri])

UninstallAppCert(keyUri, store) ==
    Request("UNINSTALL_APP_CERTIFICATE", {<<B(0), keyUri>>, <<U(0), store>>}, NoOut)

\* A few bytes that are no parameter set, for the server reads no parameters.
NoParams == {}
CmClientUninstallAllAppCert == Request("UNINSTALL_ALL_APP_CERTIFICATE", NoParams, NoOut)
CmClientUninstallAllUserTrustedCert == Request("UNINSTALL_ALL_USER_CERTIFICATE", NoParams, NoOut)

GetAppCertListCommon(code, pairs) == Request(code, pairs, Received)

GetAppCert(keyUri, store, credential) ==
    CmCredentialUnpackFromService(
        Request("GET_APP_CERTIFICATE", {<<B(0), keyUri>>, <<U(0), store>>}, Buffer("ok")), credential)

CmClientImportUkeyCert(a) ==
    Request("IMPORT_UKEY_CERTIFICATE",
            {<<B(0), a.keyUri>>, <<B(1), a.cert>>, <<U(0), a.purpose>>}, Received)

CmClientGrantAppCertificate(a) ==
    Ask(<<Invalid(a.keyUri), Invalid(a.authUri)>>,
        Request("GRANT_APP_CERT", {<<B(0), a.keyUri>>, <<U(1), a.appUid>>}, CallerBlob(a.authUri)))

\* The buffer has room for as many uids as the caller's list ("huge": more
\* than the service allocates, "toobig": more than MAX_OUT_BLOB_SIZE).
CmClientGetAuthorizedAppList(a) ==
    Ask(<<Invalid(a.keyUri), <<a.list.form = "toobig", "INVALID_ARGUMENT">> >>,
        Request("GET_AUTHED_LIST", {<<B(0), a.keyUri>>}, Buffer(a.list.form)))

CmClientIsAuthorizedApp(a) ==
    Ask(<<Invalid(a.authUri)>>, Request("CHECK_IS_AUTHED_APP", {<<B(0), a.authUri>>}, NoOut))

CmClientRemoveGrantedApp(a) ==
    Ask(<<Invalid(a.keyUri)>>,
        Request("REMOVE_GRANT_APP", {<<B(0), a.keyUri>>, <<U(1), a.appUid>>}, NoOut))

CmClientInit(a) ==
    Ask(<<Invalid(a.authUri), Invalid(a.handle)>>,
        Request("INIT", {<<B(0), a.authUri>>, <<B(1), a.spec>>}, CallerBlob(a.handle)))

CmClientUpdate(a) ==
    Ask(<<Invalid(a.handle), Invalid(a.inData)>>,
        Request("UPDATE", {<<B(0), a.handle>>, <<B(1), a.inData>>}, NoOut))

CmClientFinish(a) ==
    Ask(<<Invalid(a.handle)>>,
        Request("FINISH", {<<B(0), a.handle>>, <<B(1), a.inData>>}, CallerBlob(a.outData)))

CmClientAbort(a) == Ask(<<Invalid(a.handle)>>, Request("ABORT", {<<B(0), a.handle>>}, NoOut))

GetUserCertList(store, userId, scope, list) ==
    CmCertificateListUnpackFromService(
        Request("GET_USER_CERTIFICATE_LIST",
                {<<U(0), store>>, <<U(1), userId>>, <<U(2), scope>>}, Buffer("ok")), list)

CmClientInstallUserTrustedCert(a) ==
    Ask(<<Invalid(a.userCert), Invalid(a.alias), Invalid(a.certUri)>>,
        Request("INSTALL_USER_CERTIFICATE",
                {<<B(0), a.userCert>>, <<B(1), a.alias>>, <<U(0), a.userId>>, <<U(1), a.status>>,
                 <<U(2), a.format>>}, CallerBlob(a.certUri)))

GetUserCertInfo(certUri, store, info) ==
    CmCertificateInfoUnpackFromService(
        Request("GET_USER_CERTIFICATE_INFO", {<<B(0), certUri>>, <<U(0), store>>}, Buffer("ok")), info)

SetUserCertStatus(certUri, store, status) ==
    Request("SET_USER_CERTIFICATE_STATUS",
            {<<B(0), certUri>>, <<U(0), store>>, <<U(1), status>>}, NoOut)

UninstallUserCert(certUri) == Request("UNINSTALL_USER_CERTIFICATE", {<<B(0), certUri>>}, NoOut)

\* Sent and read back by SendRequestParcel.
GetUkeyCertList(code, param, purpose) ==
    [Request(code, {<<B(0), param>>, <<U(0), purpose>>}, Received) EXCEPT !.via = "parcel"]

CmClientCheckAppPermission(a) ==
    CmAppPermissionUnpackFromService(
        Request("CHECK_APP_PERMISSION", {<<B(0), a.keyUri>>, <<U(0), a.appUid>>}, Buffer("ok")), a.huksAlias)

-----------------------------------------------------------------------------
(* cert_manager_api.c.  a: the arguments, by their names.                  *)

CmGetCertList(a) ==
    Ask(<< Null(a.list, "NULL_POINTER"),
           <<~CmCheckBlob(a.list) \/ a.store # "SYSTEM_TRUSTED", "INVALID_ARGUMENT">> >>,
        GetCertificateList("GET_CERTIFICATE_LIST", a.store, a.list))

CmGetCertInfo(a) ==
    Ask(<< Null(a.certUri, "NULL_POINTER"), Null(a.info, "NULL_POINTER"),
           <<~CmCheckBlob(a.info) \/ a.store # "SYSTEM_TRUSTED", "INVALID_ARGUMENT">> >>,
        GetCertificateInfo("GET_CERTIFICATE_INFO", a.certUri, a.store, a.info))

CmSetCertStatus(a) ==
    Ask(<< Null(a.certUri, "NULL_POINTER"), <<a.store # "SYSTEM_TRUSTED", "INVALID_ARGUMENT">> >>,
        SetCertificateStatus("SET_CERTIFICATE_STATUS", a.certUri, a.store, BoolToStatus(a.on)))

NullParam(a) ==
    <<a.appCert.form = "null" \/ a.alias.form = "null" \/ ~CmCheckBlob(a.keyUri), "INVALID_ARGUMENT">>

CmInstallAppCertEx(a) ==
    Ask(<< NullParam(a),
           <<a.level \notin {"EL1", "EL2", "EL4"} \/ a.credFormat \notin {"FILE_P12", "CHAIN_KEY"},
             "INVALID_ARGUMENT">>,
           <<a.credFormat = "FILE_P12" /\ (a.pwd.form = "null" \/ a.userId # INVALID
                                           \/ a.store # "PRI_CREDENTIAL"), "INVALID_ARGUMENT">>,
           <<a.credFormat # "FILE_P12" /\ a.privKey.form = "null", "INVALID_ARGUMENT">> >>,
        CmClientInstallAppCert(a))

CmInstallAppCert(a) ==
    Ask(<<NullParam(a), Null(a.pwd, "INVALID_ARGUMENT"), InvalidStore(a.store)>>,
        CmClientInstallAppCert(
            [appCert |-> a.appCert, pwd |-> a.pwd, alias |-> a.alias, privKey |-> Blob("empty"),
             store |-> a.store, userId |-> INVALID,
             level |-> IF a.store = "CREDENTIAL" THEN "EL2" ELSE "EL1",
             credFormat |-> "FILE_P12", aliasFormat |-> "DEFAULT", keyUri |-> a.keyUri]))

CmInstallSystemAppCert(a) ==
    Ask(<< NullParam(a), Null(a.pwd, "INVALID_ARGUMENT"),
           <<a.store # "SYS_CREDENTIAL" \/ a.userId \in {0, INVALID}, "INVALID_ARGUMENT">> >>,
        CmClientInstallSystemAppCert(a))

CmUninstallAppCert(a) ==
    Ask(<<Null(a.keyUri, "INVALID_ARGUMENT"), InvalidStore(a.store)>>,
        UninstallAppCert(a.keyUri, a.store))

CmUninstallAllAppCert(a) == CmClientUninstallAllAppCert

CmGetAppCertList(a) ==
    Ask(<<Null(a.list, "INVALID_ARGUMENT"), InvalidStore(a.store)>>,
        GetAppCertListCommon("GET_APP_CERTIFICATE_LIST", {<<U(0), a.store>>}))

CmGetAppCertListByUid(a) ==
    Ask(<<Null(a.list, "INVALID_ARGUMENT"), InvalidStore(a.store)>>,
        GetAppCertListCommon("GET_APP_CERTIFICATE_LIST_BY_UID", {<<U(0), a.store>>, <<U(1), a.appUid>>}))

CmCallingGetAppCertList(a) ==
    Ask(<<Null(a.list, "INVALID_ARGUMENT"), InvalidStore(a.store)>>,
        GetAppCertListCommon("GET_CALLING_APP_CERTIFICATE_LIST", {<<U(0), a.store>>}))

CmGetAppCert(a) ==
    Ask(<<Null(a.keyUri, "INVALID_ARGUMENT"), Null(a.credential, "INVALID_ARGUMENT"), InvalidStore(a.store)>>,
        GetAppCert(a.keyUri, a.store, a.credential))

CmGrantAppCertificate(a) ==
    Ask(<<Null(a.keyUri, "INVALID_ARGUMENT"), Null(a.authUri, "INVALID_ARGUMENT")>>,
        CmClientGrantAppCertificate(a))

CmGetAuthorizedAppList(a) ==
    Ask(<<Null(a.keyUri, "INVALID_ARGUMENT"), Null(a.list, "INVALID_ARGUMENT")>>,
        CmClientGetAuthorizedAppList(a))

CmIsAuthorizedApp(a) == Ask(<<Null(a.authUri, "INVALID_ARGUMENT")>>, CmClientIsAuthorizedApp(a))
CmRemoveGrantedApp(a) == Ask(<<Null(a.keyUri, "INVALID_ARGUMENT")>>, CmClientRemoveGrantedApp(a))

CmInit(a) ==
    Ask(<<Null(a.authUri, "INVALID_ARGUMENT"), Null(a.spec, "INVALID_ARGUMENT"),
          Null(a.handle, "INVALID_ARGUMENT")>>, CmClientInit(a))

CmUpdate(a) ==
    Ask(<<Null(a.handle, "INVALID_ARGUMENT"), Null(a.inData, "INVALID_ARGUMENT")>>, CmClientUpdate(a))

CmFinish(a) ==
    Ask(<<Null(a.handle, "INVALID_ARGUMENT"), Null(a.inData, "INVALID_ARGUMENT"),
          Null(a.outData, "INVALID_ARGUMENT")>>, CmClientFinish(a))

CmAbort(a) == Ask(<<Null(a.handle, "INVALID_ARGUMENT")>>, CmClientAbort(a))

CmGetUserCertList(a) ==
    Ask(<<Null(a.list, "NULL_POINTER")>>, GetUserCertList(a.store, INVALID, "ALL_USER", a.list))

CmGetUserCACertList(a) ==
    Ask(<<Null(a.list, "NULL_POINTER")>>, GetUserCertList("USER_TRUSTED", a.userId, a.scope, a.list))

CmGetUserCertInfo(a) ==
    Ask(<<Null(a.certUri, "NULL_POINTER"), Null(a.info, "NULL_POINTER")>>,
        GetUserCertInfo(a.certUri, a.store, a.info))

CmSetUserCertStatus(a) ==
    Ask(<<Null(a.certUri, "NULL_POINTER")>>,
        SetUserCertStatus(a.certUri, a.store, BoolToStatus(a.on)))

\* Nothing is installed in the advanced security mode.
CmInstallUserTrustedCertByFormat(a, certUri, format) ==
    Ask(<<Invalid(a.userCert), Invalid(a.alias), Invalid(certUri),
          <<a.mode = "unreadable", "GET_ADVSECMODE_PARAM_FAIL">>,
          <<a.mode = "advanced", "DEVICE_ENTER_ADVSECMODE">> >>,
        CmClientInstallUserTrustedCert(
            [userCert |-> a.userCert, alias |-> a.alias, userId |-> a.userId,
             status |-> BoolToStatus(a.on), format |-> format, certUri |-> certUri]))

CmInstallUserCACert(a) == CmInstallUserTrustedCertByFormat(a, a.certUri, "PEM_DER")

CmInstallUserTrustedCert(a) ==
    Ask(<<Null(a.userCert, "INVALID_ARGUMENT"), Null(a.alias, "INVALID_ARGUMENT"),
          Null(a.certUri, "INVALID_ARGUMENT")>>,
        CmInstallUserCACert([userCert |-> a.userCert, alias |-> a.alias, userId |-> INVALID,
                             on |-> TRUE, certUri |-> a.certUri, mode |-> a.mode]))

\* The URIs come in a buffer for MAX_P7B_INSTALL_COUNT of them.
CmInstallUserTrustedP7BCert(a) ==
    Ask(<<Invalid(a.userCert), Invalid(a.alias), Null(a.certUri, "INVALID_ARGUMENT")>>,
        CmInstallUserTrustedCertByFormat(a, Blob("ok"), "P7B"))

CmUninstallUserTrustedCert(a) ==
    Ask(<<Null(a.certUri, "INVALID_ARGUMENT")>>, UninstallUserCert(a.certUri))

CmUninstallAllUserTrustedCert(a) == CmClientUninstallAllUserTrustedCert

NoUkeySupport(a) == <<~a.syscap, "UKEY_DEVICE_SUPPORT">>

CmGetUkeyCertList(a) ==
    Ask(<<Null(a.provider, "NULL_POINTER"), Null(a.list, "NULL_POINTER"), NoUkeySupport(a)>>,
        GetUkeyCertList("GET_UKEY_CERTIFICATE_LIST", a.provider, a.purpose))

CmGetUkeyCert(a) ==
    Ask(<<Null(a.keyUri, "NULL_POINTER"), Null(a.list, "NULL_POINTER"), NoUkeySupport(a)>>,
        GetUkeyCertList("GET_UKEY_CERTIFICATE", a.keyUri, a.purpose))

CmImportUkeyCert(a) ==
    Ask(<<Null(a.keyUri, "NULL_POINTER"), Null(a.cert, "NULL_POINTER"), NoUkeySupport(a)>>,
        CmClientImportUkeyCert(a))

CmCheckAppPermission(a) ==
    Ask(<<Null(a.keyUri, "NULL_POINTER")>>, CmClientCheckAppPermission(a))

\* The functions of the SDK, and a call of one by its name.
SdkFunctions ==
    {"CmGetCertList", "CmGetCertInfo", "CmSetCertStatus", "CmInstallAppCertEx",
     "CmInstallAppCert", "CmInstallSystemAppCert", "CmUninstallAppCert",
     "CmUninstallAllAppCert", "CmGetAppCertList", "CmGetAppCertListByUid",
     "CmCallingGetAppCertList", "CmGetAppCert", "CmGrantAppCertificate",
     "CmGetAuthorizedAppList", "CmIsAuthorizedApp", "CmRemoveGrantedApp", "CmInit", "CmUpdate",
     "CmFinish", "CmAbort", "CmGetUserCertList", "CmGetUserCACertList", "CmGetUserCertInfo",
     "CmSetUserCertStatus", "CmInstallUserTrustedCert", "CmInstallUserCACert",
     "CmInstallUserTrustedP7BCert", "CmUninstallUserTrustedCert",
     "CmUninstallAllUserTrustedCert", "CmGetUkeyCertList", "CmGetUkeyCert", "CmImportUkeyCert",
     "CmCheckAppPermission"}

Invoke(op, a) ==
    CASE op = "CmGetCertList" -> CmGetCertList(a)
      [] op = "CmGetCertInfo" -> CmGetCertInfo(a)
      [] op = "CmSetCertStatus" -> CmSetCertStatus(a)
      [] op = "CmInstallAppCertEx" -> CmInstallAppCertEx(a)
      [] op = "CmInstallAppCert" -> CmInstallAppCert(a)
      [] op = "CmInstallSystemAppCert" -> CmInstallSystemAppCert(a)
      [] op = "CmUninstallAppCert" -> CmUninstallAppCert(a)
      [] op = "CmUninstallAllAppCert" -> CmUninstallAllAppCert(a)
      [] op = "CmGetAppCertList" -> CmGetAppCertList(a)
      [] op = "CmGetAppCertListByUid" -> CmGetAppCertListByUid(a)
      [] op = "CmCallingGetAppCertList" -> CmCallingGetAppCertList(a)
      [] op = "CmGetAppCert" -> CmGetAppCert(a)
      [] op = "CmGrantAppCertificate" -> CmGrantAppCertificate(a)
      [] op = "CmGetAuthorizedAppList" -> CmGetAuthorizedAppList(a)
      [] op = "CmIsAuthorizedApp" -> CmIsAuthorizedApp(a)
      [] op = "CmRemoveGrantedApp" -> CmRemoveGrantedApp(a)
      [] op = "CmInit" -> CmInit(a)
      [] op = "CmUpdate" -> CmUpdate(a)
      [] op = "CmFinish" -> CmFinish(a)
      [] op = "CmAbort" -> CmAbort(a)
      [] op = "CmGetUserCertList" -> CmGetUserCertList(a)
      [] op = "CmGetUserCACertList" -> CmGetUserCACertList(a)
      [] op = "CmGetUserCertInfo" -> CmGetUserCertInfo(a)
      [] op = "CmSetUserCertStatus" -> CmSetUserCertStatus(a)
      [] op = "CmInstallUserTrustedCert" -> CmInstallUserTrustedCert(a)
      [] op = "CmInstallUserCACert" -> CmInstallUserCACert(a)
      [] op = "CmInstallUserTrustedP7BCert" -> CmInstallUserTrustedP7BCert(a)
      [] op = "CmUninstallUserTrustedCert" -> CmUninstallUserTrustedCert(a)
      [] op = "CmUninstallAllUserTrustedCert" -> CmUninstallAllUserTrustedCert(a)
      [] op = "CmGetUkeyCertList" -> CmGetUkeyCertList(a)
      [] op = "CmGetUkeyCert" -> CmGetUkeyCert(a)
      [] op = "CmImportUkeyCert" -> CmImportUkeyCert(a)
      [] op = "CmCheckAppPermission" -> CmCheckAppPermission(a)
=============================================================================
