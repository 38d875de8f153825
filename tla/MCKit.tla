-------------------------------- MODULE MCKit --------------------------------
(***************************************************************************)
(* An instance of Kit: every function and every dialog with arguments it   *)
(* understands, with each of them replaced by every other value, with too  *)
(* few and with one too many; on devices that allow everything or          *)
(* everything but one thing.                                               *)
(***************************************************************************)
EXTENDS Kit, TLC

-----------------------------------------------------------------------------
(* The values.                                                              *)
Strings == {"uri", "password", "alias", "longString", "hugeString", "emptyString"}
Bytes == {"data", "more", "longBytes", "hugeBytes", "emptyBytes"}
Numbers == {"n7", "EL2", "CM_CA_CERT_USER", "CM_CA_CERT_SYSTEM", "CM_CURRENT_USER", "CM_GLOBAL_USER", "CM_ALL_USER"}
PropNumbers == {"PEM_DER", "P7B", "SIGN", "CM_PADDING_NONE", "CM_DIGEST_NONE", "CM_CERT_PURPOSE_ALL",
                "CM_CERT_PURPOSE_SIGN", "CM_ALG_SM", "CM_ALG_INTERNATIONAL"}
DialogNumbers == {"n7", "negative", "PAGE_MAIN", "CA_CERT", "CREDENTIAL_USER", "CREDENTIAL_UKEY", "CURRENT_USER",
            "CM_UKEY_ABILITY_TYPE_UIEXTENSION"}

ApiProps ==
    "specMin" :> [purpose |-> "SIGN"]
    @@ "specAll" :> [purpose |-> "SIGN", padding |-> "CM_PADDING_NONE", digest |-> "CM_DIGEST_NONE"]
    @@ "specUnset" :> [purpose |-> "SIGN", padding |-> "undefined", digest |-> "undefined"]
    @@ "specBad" :> [purpose |-> "SIGN", padding |-> "n7"]
    @@ "certMin" :> [certData |-> "data"]
    @@ "certPem" :> [certData |-> "data", certFormat |-> "PEM_DER", certScope |-> "CM_GLOBAL_USER"]
    @@ "certP7b" :> [certData |-> "data", certFormat |-> "P7B", certScope |-> "CM_CURRENT_USER"]
    @@ "certAll" :> [certData |-> "data", certFormat |-> "P7B", certScope |-> "CM_ALL_USER"]
    @@ "certBad" :> [certData |-> "emptyBytes", certFormat |-> "undefined", certScope |-> "undefined"]
    @@ "certWrong" :> [certData |-> "data", certFormat |-> "n7", certScope |-> "uri"]
    @@ "purposeAll" :> [certPurpose |-> "CM_CERT_PURPOSE_ALL"]
    @@ "purposeSign" :> [certPurpose |-> "CM_CERT_PURPOSE_SIGN"]
    @@ "purposeUnset" :> [certPurpose |-> "undefined"]
    @@ "purposeBad" :> [certPurpose |-> "n7"]
    @@ "purposeText" :> [certPurpose |-> "uri"]
    @@ "pathSystem" :> [certType |-> "CM_CA_CERT_SYSTEM"]
    @@ "pathSm" :> [certType |-> "CM_CA_CERT_SYSTEM", certAlg |-> "CM_ALG_SM"]
    @@ "pathUser" :> [certType |-> "CM_CA_CERT_USER", certScope |-> "CM_CURRENT_USER"]
    @@ "pathGlobal" :> [certType |-> "CM_CA_CERT_USER", certScope |-> "CM_GLOBAL_USER", certAlg |-> "undefined"]
    @@ "pathNoScope" :> [certType |-> "CM_CA_CERT_USER", certScope |-> "undefined"]
    @@ "empty" :> <<>>

DialogProps ==
    "button" :> [showInstallButton |-> "yes"]
    @@ "noButton" :> [showInstallButton |-> "n7"]
    @@ "request" :> [certTypes |-> "twoTypes"]
    @@ "requestAll" :> [certTypes |-> "twoTypes", certPurpose |-> "n7", keyAlgIDs |-> "texts",
                        issuers |-> "list", uri |-> "emptyString"]
    @@ "requestUnset" :> [certTypes |-> "twoTypes", certPurpose |-> "undefined"]
    @@ "requestNoTypes" :> [certTypes |-> "noTypes"]
    @@ "requestBad" :> [certTypes |-> "badTypes"]
    @@ "requestMany" :> [certTypes |-> "twoTypes", keyAlgIDs |-> "threeTexts"]
    @@ "key" :> [keyUri |-> "uri"]
    @@ "keyAll" :> [keyUri |-> "uri", timeoutDuration |-> "n7", customData |-> "data"]
    @@ "keyNulls" :> [keyUri |-> "uri", timeoutDuration |-> "null", customData |-> "undefined"]
    @@ "keyLong" :> [keyUri |-> "longString"]
    @@ "keyNegative" :> [keyUri |-> "uri", timeoutDuration |-> "negative"]
    @@ "keyTooMuch" :> [keyUri |-> "uri", customData |-> "longBytes"]
    @@ "driver" :> [abilityType |-> "CM_UKEY_ABILITY_TYPE_UIEXTENSION", abilityName |-> "uri"]
    @@ "driverWrong" :> [abilityType |-> "n7", abilityName |-> "uri"]
    @@ "driverText" :> [abilityType |-> "uri", abilityName |-> "uri"]
    @@ "driverNameless" :> [abilityType |-> "CM_UKEY_ABILITY_TYPE_UIEXTENSION", abilityName |-> "emptyString"]

MCProps == ApiProps @@ DialogProps

MCElements ==
    "noTypes" :> <<>> @@ "twoTypes" :> <<"CREDENTIAL_USER", "CREDENTIAL_UKEY">>
    @@ "badTypes" :> <<"CREDENTIAL_USER", "CA_CERT">> @@ "texts" :> <<"uri", "emptyString">>
    @@ "threeTexts" :> <<"uri", "uri", "uri">> @@ "list" :> <<"data", "null">>

MCType ==
    [v \in Strings |-> "string"] @@ [v \in Bytes |-> "bytes"]
    @@ [v \in Numbers \cup PropNumbers \cup DialogNumbers |-> "number"]
    @@ [v \in DOMAIN MCProps |-> "object"] @@ [v \in DOMAIN MCElements |-> "array"]
    @@ [v \in {"true", "false", "yes"} |-> "boolean"] @@ "f" :> "function"
    @@ "context" :> "context" @@ "null" :> "null" @@ "undefined" :> "undefined"

MCLength ==
    [v \in {"hugeString", "hugeBytes"} |-> 3] @@ [v \in {"longString", "longBytes"} |-> 2]
    @@ [v \in {"emptyString", "emptyBytes"} |-> 0] @@ [v \in Strings \cup Bytes |-> 1]

\* An argument of the functions, or of the dialogs, is replaced by these.
ApiValues == (Strings \cup Bytes \cup Numbers \cup DOMAIN ApiProps \cup {"true", "false", "f", "null", "undefined"})
                 \ {"longString"}
DialogValues ==
    ((Strings \cup Bytes \cup DialogNumbers \cup DOMAIN DialogProps \cup DOMAIN MCElements)
        \ {"password", "alias", "more"}) \cup {"n7", "yes", "context", "null", "undefined"}

-----------------------------------------------------------------------------
(* The calls.                                                               *)
\* Arguments that a function understands.
ApiArguments(op) ==
    CASE op \in {"installPublicCertificate", "installSystemAppCertificate"} -> {<<"data", "password">>}
      [] op = "installPrivateCertificate" ->
             {<<"data", "password", "alias">>, <<"data", "password", "alias", "f">>}
      [] op \in {"uninstallPrivateCertificate", "getPrivateCertificate"} -> {<<"uri">>, <<"uri", "f">>}
      [] op \in {"getAllAppPrivateCertificates", "getPrivateCertificates"} -> {<<>>, <<"f">>}
      [] op \in {"uninstallAllAppCertificate", "getAllPublicCertificates", "getAllSystemAppCertificates",
                 "getSystemTrustedCertificateList", "uninstallAllUserTrustedCertificate"} -> {<<>>}
      [] op = "getAllAppPrivateCertificatesByUid" -> {<<"n7">>}
      [] op = "getAllUserTrustedCertificates" -> {<<>>, <<"CM_CURRENT_USER">>}
      [] op = "setCertificateStatus" -> {<<"uri", "CM_CA_CERT_USER", "true">>}
      [] op = "installUserTrustedCertificate" -> {<<"certMin">>}
      [] op = "installUserTrustedCertificateSync" -> {<<"data", "CM_CURRENT_USER">>}
      [] op = "getCertificateStorePath" -> {<<"pathSystem">>}
      [] op \in {"grantPublicCertificate", "removeGrantedPublicCertificate"} -> {<<"uri", "n7">>}
      [] op = "init" -> {<<"uri", "specMin">>, <<"uri", "specAll", "f">>}
      [] op = "update" -> {<<"data", "more">>, <<"data", "more", "f">>}
      [] op = "finish" -> {<<"data">>, <<"data", "f">>, <<"data", "more">>, <<"data", "more", "f">>}
      [] op = "abort" -> {<<"data">>, <<"data", "f">>}
      [] op \in {"getUkeyCertificateList", "getUkeyCertificate"} -> {<<"uri", "purposeSign">>}
      [] op = "importUkeyCertificate" -> {<<"uri", "data", "purposeSign">>}
      [] OTHER -> {<<"uri">>}

OtherArguments(argv) ==
    {argv} \cup {[argv EXCEPT ![i] = v] : i \in DOMAIN argv, v \in ApiValues}
    \cup {Append(argv, v) : v \in {"undefined", "f", "n7", "EL2"}}
    \cup {SubSeq(argv, 1, n) : n \in 0..Len(argv)}
MCCalls ==
    UNION {{[op |-> o, argv |-> a] : a \in UNION {OtherArguments(g) : g \in ApiArguments(o)}} :
             o \in CredentialNames \cup CertificateNames \cup KeyNames}

MCCodes == {"SUCCESS", "CMR_ERROR_NOT_EXIST", "CMR_ERROR_AUTH_CHECK_FAILED", "CMR_ERROR_PASSWORD_IS_ERR",
            "CMR_ERROR_KEY_ERROR"}

-----------------------------------------------------------------------------
(* The dialogs.                                                             *)
DialogArguments(op) ==
    CASE op = "openCertificateManagerDialog" -> {<<"context", "PAGE_MAIN">>}
      [] op = "openInstallCertificateDialog" ->
             {<<"context", t, "CURRENT_USER", "data">> : t \in {"CA_CERT", "CREDENTIAL_USER"}}
      [] op = "openUninstallCertificateDialog" -> {<<"context", "CA_CERT", "uri">>}
      [] op = "openCertificateDetailDialog" -> {<<"context", "data", "button">>}
      [] op = "openAuthorizeDialog" -> {<<"context">>, <<"context", "request">>}
      [] op = "openUkeyAuthDialog" -> {<<"context", "key">>}
      [] op = "openAuthDialogForUkeyProvider" -> {<<"driver", "key">>}
      [] op = "supportsCACertDialog" -> {<<>>}

DialogNames == {"openCertificateManagerDialog", "openInstallCertificateDialog", "openUninstallCertificateDialog",
          "openCertificateDetailDialog", "openAuthorizeDialog", "openUkeyAuthDialog",
          "openAuthDialogForUkeyProvider", "supportsCACertDialog"}
OtherDialogArguments(argv) ==
    {argv} \cup {[argv EXCEPT ![i] = v] : i \in DOMAIN argv, v \in DialogValues}
    \cup {Append(argv, "undefined")} \cup {SubSeq(argv, 1, n) : n \in 0..Len(argv)}
MCDialogCalls == UNION {{[op |-> o, argv |-> a] : a \in UNION {OtherDialogArguments(g) : g \in DialogArguments(o)}} : o \in DialogNames}

Everything == [f \in {"syscap", "caDialog", "basic", "register", "label", "pc"} |-> TRUE]
MCDevices == {Everything} \cup {[Everything EXCEPT ![f] = FALSE] : f \in DOMAIN Everything}
MCEndCodes == {"0", "OPERATION_CANCELS", "UKEY_REPORT_TIMEOUT", "UKEY_DIALOG_IN_PROGRESS"}
=============================================================================
