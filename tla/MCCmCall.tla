------------------------------ MODULE MCCmCall ------------------------------
(***************************************************************************)
(* An instance of CmCall: every function of the SDK, with all its stores   *)
(* and URIs and one argument at a time that is missing, empty, malformed   *)
(* or too long; applications, system applications and services with the    *)
(* sets of permissions that differ to the checks.                          *)
(***************************************************************************)
EXTENDS CmCall, FiniteSets, TLC

Permissions ==
    LET common == "ACCESS_CERT_MANAGER"
        internal == "ACCESS_CERT_MANAGER_INTERNAL"
        user == "ACCESS_USER_TRUSTED_CERT"
        system == "ACCESS_SYSTEM_APP_CERT"
    IN  {{}, {common}, {common, internal}, {common, user}, {user},
         {"ACCESS_ENTERPRISE_USER_TRUSTED_CERT"}, {common, system}, {common, internal, user, system}}

MCCallers ==
    {[perms |-> p, token |-> "hap", system |-> s, userId |-> 100, uid |-> 1] : p \in Permissions, s \in BOOLEAN}
    \cup {[perms |-> p, token |-> "native", system |-> FALSE, userId |-> 0, uid |-> 5] :
              p \in {{"ACCESS_CERT_MANAGER"}, {"ACCESS_CERT_MANAGER", "ACCESS_CERT_MANAGER_INTERNAL",
                      "ACCESS_USER_TRUSTED_CERT", "ACCESS_SYSTEM_APP_CERT"}}}

Ok == Blob("ok")
BlobsBut(forms) == {Blob(f) : f \in {"null", "empty", "bad", "huge"} \ forms}
UrisOf(type) ==
    {Uri(type, 100, 1, INVALID), Uri(type, 100, 2, INVALID), Uri(type, 101, 3, INVALID),
     Uri(type, 0, 5, INVALID), Uri(type, 101, 3, 1), Uri(type, 101, 3, 2)}
KeyUris == UrisOf("APP_KEY") \cup UrisOf("SYS_KEY") \cup BlobsBut({})
CaUris == UrisOf("CERTIFICATE") \cup {Uri("APP_KEY", 100, 1, INVALID)} \cup BlobsBut({})
CaStores == {"SYSTEM_TRUSTED", "USER_TRUSTED", "CREDENTIAL"}
KeyStores == CREDENTIAL_STORES \cup {"USER_TRUSTED"}
Lists == {Ok, Blob("null"), Blob("empty")}

\* The arguments a, and those that differ from them in one field.
Around(op, a, others) ==
    {[op |-> op, a |-> a]}
    \cup UNION {{[op |-> op, a |-> [a EXCEPT ![f] = v]] : v \in others[f]} : f \in DOMAIN others}

InstallOthers ==
    [appCert |-> BlobsBut({}), pwd |-> BlobsBut({}), alias |-> BlobsBut({}) \cup {Blob("noname")},
     keyUri |-> {Blob("null"), Blob("empty")}, store |-> KeyStores]
Install == [appCert |-> Ok, pwd |-> Ok, alias |-> Ok, keyUri |-> Ok, store |-> "PRI_CREDENTIAL"]
InstallUser == [userCert |-> Ok, alias |-> Ok, certUri |-> Ok, mode |-> "normal", on |-> TRUE,
                userId |-> INVALID]
InstallUserOthers ==
    [userCert |-> BlobsBut({}), alias |-> BlobsBut({}) \cup {Blob("noname")},
     certUri |-> {Blob("null"), Blob("empty")},
     mode |-> {"advanced", "unreadable"}, on |-> {FALSE}, userId |-> {0, 100, 101}]

CertificateCalls ==
    {[op |-> "CmGetCertList", a |-> [list |-> l, store |-> s]] : l \in Lists, s \in CaStores}
    \cup {[op |-> o, a |-> [certUri |-> u, store |-> s, info |-> l]] :
             o \in {"CmGetCertInfo", "CmGetUserCertInfo"}, u \in CaUris, s \in CaStores, l \in {Ok, Blob("null")}}
    \cup {[op |-> o, a |-> [certUri |-> u, store |-> s, on |-> b]] :
             o \in {"CmSetCertStatus", "CmSetUserCertStatus"}, u \in CaUris, s \in CaStores, b \in BOOLEAN}
    \cup {[op |-> "CmGetUserCertList", a |-> [list |-> l, store |-> s]] : l \in Lists, s \in CaStores}
    \cup {[op |-> "CmGetUserCACertList", a |-> [list |-> Ok, userId |-> u, scope |-> s]] :
             u \in {INVALID, 0, 100, 101}, s \in {"ALL_USER", "CURRENT_USER", "GLOBAL_USER", "OTHER"}}
    \cup UNION {Around(o, InstallUser, InstallUserOthers) :
                  o \in {"CmInstallUserTrustedCert", "CmInstallUserCACert", "CmInstallUserTrustedP7BCert"}}
    \cup {[op |-> "CmUninstallUserTrustedCert", a |-> [certUri |-> u]] : u \in CaUris}
    \cup {[op |-> o, a |-> <<>>] : o \in {"CmUninstallAllUserTrustedCert", "CmUninstallAllAppCert"}}

CredentialCalls ==
    UNION {Around("CmInstallAppCert", [Install EXCEPT !.store = s], InstallOthers) : s \in KeyStores}
    \cup UNION {Around("CmInstallAppCertEx",
             [userId |-> INVALID, level |-> "EL1", credFormat |-> f, privKey |-> Ok,
              aliasFormat |-> "DEFAULT"] @@ Install,
             [userId |-> {0, 100, 101}, level |-> {"EL4", "EL9"}, credFormat |-> {"OTHER"},
              privKey |-> BlobsBut({}), aliasFormat |-> {"SHA256", "OTHER"}]
             @@ (IF f = "FILE_P12" THEN InstallOthers
                 ELSE [InstallOthers EXCEPT !.pwd = {Blob("empty")}])) : f \in {"FILE_P12", "CHAIN_KEY"}}
    \cup UNION {Around("CmInstallSystemAppCert", [userId |-> u] @@ [Install EXCEPT !.store = "SYS_CREDENTIAL"],
                       InstallOthers) : u \in {0, 100, 101}}
    \cup {[op |-> o, a |-> [keyUri |-> u, store |-> s, credential |-> Ok]] :
             o \in {"CmUninstallAppCert", "CmGetAppCert"}, u \in KeyUris, s \in KeyStores}
    \cup {[op |-> o, a |-> [list |-> l, store |-> s, appUid |-> 2]] :
             o \in {"CmGetAppCertList", "CmGetAppCertListByUid", "CmCallingGetAppCertList"},
             l \in {Ok, Blob("null")}, s \in KeyStores}

KeyCalls ==
    {[op |-> o, a |-> [keyUri |-> u, authUri |-> b, appUid |-> 2, list |-> l]] :
        o \in {"CmGrantAppCertificate", "CmGetAuthorizedAppList", "CmRemoveGrantedApp"}, u \in KeyUris,
        b \in {Ok, Blob("empty")}, l \in {Ok, Blob("huge"), Blob("toobig")}}
    \cup {[op |-> "CmIsAuthorizedApp", a |-> [authUri |-> u]] : u \in KeyUris}
    \cup {[op |-> "CmInit", a |-> [authUri |-> u, spec |-> s, handle |-> h]] :
             u \in KeyUris, s \in Lists, h \in {Ok, Blob("empty")}}
    \cup UNION {Around(o, [handle |-> Ok, inData |-> Ok, outData |-> Ok],
                       [handle |-> BlobsBut({}), inData |-> BlobsBut({}), outData |-> BlobsBut({})]) :
                  o \in {"CmUpdate", "CmFinish", "CmAbort"}}
    \cup {[op |-> "CmCheckAppPermission", a |-> [keyUri |-> u, appUid |-> p, huksAlias |-> Ok]] :
             u \in KeyUris, p \in {1, 2, 3}}
    \cup UNION {Around("CmGetUkeyCertList", [provider |-> Ok, list |-> Ok, purpose |-> "SIGN", syscap |-> TRUE],
                       [provider |-> BlobsBut({}), list |-> {Blob("null")}, syscap |-> {FALSE}]),
                Around("CmGetUkeyCert", [keyUri |-> Ok, list |-> Ok, purpose |-> "SIGN", syscap |-> TRUE],
                       [keyUri |-> BlobsBut({}), list |-> {Blob("null")}, syscap |-> {FALSE}]),
                Around("CmImportUkeyCert", [keyUri |-> Ok, cert |-> Ok, purpose |-> "SIGN", syscap |-> TRUE],
                       [keyUri |-> BlobsBut({}), cert |-> BlobsBut({}), syscap |-> {FALSE}])}

MCCalls == CertificateCalls \cup CredentialCalls \cup KeyCalls
=============================================================================
