------------------------------ MODULE KitCalls -------------------------------
(***************************************************************************)
(* One call of the Node-API kit from JavaScript to its outcome: parse, a   *)
(* promise or the caller's callback, the worker that calls the SDK, and    *)
(* the completion on the JavaScript thread.  The calls share no state, so  *)
(* that one at a time is all there is to check; the SDK may answer with    *)
(* any code.                                                               *)
(***************************************************************************)
EXTENDS KitApis, KitScript, FiniteSets

CONSTANTS
    Calls,      \* the calls: [op, argv]
    Codes       \* the codes the SDK answers with, SUCCESS among them

ASSUME CallsAssumption ==
    \A c \in Calls :
        /\ c.op \in CredentialNames \cup CertificateNames \cup KeyNames
        /\ c.argv \in Seq(DOMAIN Type)

VARIABLES
    context,    \* the parameters: a set of one record once they are parsed
    held,       \* the contexts allocated and not freed
    sdk,        \* what the SDK was asked: a set of at most one request
    result      \* the code the worker stored

api == <<context, held, sdk, result>>

ApiInit == context = {} /\ held = 0 /\ sdk = {} /\ result = "none"

Call == Invoke(Calls, "parse") /\ UNCHANGED api

\* These two keep their parameters on the stack.
WithoutContext == {"installUserTrustedCertificateSync", "getCertificateStorePath"}

\* Without memory for the context JavaScript is given undefined, or an error.
CreateContext ==
    /\ pc = "parse" /\ held = 0
    /\ \/ held' = 1 /\ UNCHANGED <<pc, seen>>
       \/ /\ call.op \notin WithoutContext
          /\ pc' = "done" /\ UNCHANGED held
          /\ IF call.op = "uninstallUserTrustedCertificateSync" THEN See("throw", "INNER_FAILURE", "none")
             ELSE See("noMemory", "none", "undefined")
    /\ UNCHANGED <<call, context, sdk, result, promise>>

ParseParams ==
    /\ pc = "parse" /\ held = 1
    /\ context' = Parse(call.op, call.argv)
    /\ IF context' = {}
       THEN pc' = "done" /\ See("throw", Refusal(call.op, call.argv), "none") /\ held' = 0
       ELSE pc' = "work" /\ UNCHANGED <<held, seen>>
    /\ UNCHANGED <<call, sdk, result, promise>>

\* The worker is queued and JavaScript is given the promise, or undefined if it
\* gave a callback.  A worker that cannot be queued makes the call throw; the
\* promise is resolved, but nobody has it.  The lists of a UKey are allocated after
\* the promise: without memory for them it is never given to anybody.
AsyncWork(c) ==
    /\ pc = "work" /\ ~c.sync
    /\ \/ /\ pc' = "execute"
          /\ promise' = IF c.promise THEN "pending" ELSE "none"
          /\ UNCHANGED <<held, seen>>
       \/ /\ pc' = "done"
          /\ promise' = IF c.promise THEN "dropped" ELSE "none"
          /\ See("throw", c.queueError, "none")
          /\ held' = 0
       \/ /\ c.fn \in {"CmGetUkeyCertList", "CmGetUkeyCert"}
          /\ pc' = "done" /\ promise' = "dropped"
          /\ See("noMemory", "none", "undefined")
          /\ held' = 0
    /\ UNCHANGED <<call, context, sdk, result>>

\* The codes that a request to the SDK, or to the services a path needs, ends with.
Answers(fn) ==
    CASE fn = "Path" -> {"SUCCESS"}
      [] fn = "SystemStoreSm" -> {"SUCCESS", "CMR_ERROR_STORE_PATH_NOT_SUPPORTED"}
      [] fn = "UserOfCaller" -> {"SUCCESS", "CM_FAILURE"}
      [] OTHER -> Codes

Recoded(c, code) == IF code \in DOMAIN c.recode THEN c.recode[code] ELSE code

\* The worker, or the call itself when it is synchronous.  Without memory for
\* the answer the SDK is not asked.
Execute(c) ==
    /\ pc = IF c.sync THEN "work" ELSE "execute"
    /\ \/ c.fn = "none" /\ result' = c.a /\ UNCHANGED sdk
       \/ c.fn # "none" /\ \E code \in Answers(c.fn) : result' = Recoded(c, code)
                        /\ sdk' = {[fn |-> c.fn, a |-> c.a, code |-> code]}
       \/ ~c.sync /\ result' = "CMR_ERROR_MALLOC_FAIL" /\ UNCHANGED sdk
    /\ pc' = "complete"
    /\ UNCHANGED <<call, context, held, promise, seen>>

\* The error JavaScript is shown for the code the worker left.
ErrorOf(c) == IF result \in c.zero THEN "0" ELSE TranformErrorCode(result)

\* A success is shown with a value, which may be that of an empty answer.
Complete(c) ==
    /\ pc = "complete"
    /\ LET how == IF c.sync THEN "return" ELSE IF c.promise THEN "promise" ELSE "callback"
       IN  IF result = "SUCCESS"
           THEN \E value \in {c.some, c.none} : See(how, "none", value)
           ELSE See(IF c.sync THEN "throw" ELSE how, ErrorOf(c), "undefined")
    /\ promise' = IF promise = "pending" THEN "settled" ELSE promise
    /\ pc' = "done" /\ held' = 0
    /\ UNCHANGED <<call, context, sdk, result>>

Return ==
    /\ GiveBack("done")
    /\ context' = {} /\ sdk' = {} /\ result' = "none"
    /\ UNCHANGED held

ApiNext ==
    \/ Call
    \/ CreateContext
    \/ ParseParams
    \/ \E c \in context : AsyncWork(c) \/ Execute(c) \/ Complete(c)
    \/ Return

-----------------------------------------------------------------------------
\* A function in the place of an object of options is an object without options.
HasCallback ==
    /\ call.op \notin {"getUkeyCertificateList", "getUkeyCertificate", "getCertificateStorePath",
                       "uninstallAllUserTrustedCertificate"}
    /\ \E i \in DOMAIN call.argv : Type[call.argv[i]] = "function"

\* A call that is over had one outcome, by the way the caller chose: its
\* callback if it gave one, else the promise it was returned, which is not left
\* pending; and its parameters are freed (GeneratePromise, GenerateCallback and
\* the completions, cm_napi_common.cpp:580-617).  getPrivateCertificates is left
\* out of the choice: it accepts a callback and answers by a promise.
OneOutcome ==
    pc = "done" =>
        /\ Len(seen) = 1 /\ held = 0
        /\ promise # "pending"
        /\ seen[1].how = "promise" <=> promise = "settled"
        /\ seen[1].how = "callback" => HasCallback
        /\ HasCallback /\ call.op # "getPrivateCertificates" => seen[1].how \in {"callback", "throw", "noMemory"}

-----------------------------------------------------------------------------
(* What the SDK should be asked for each function and its arguments, to     *)
(* compare the request of the kit with.                                     *)
\* A property of an argument, or the value that stands for it when left out.
Option(v, p, default) == IF Prop(v, p) = "undefined" THEN default ELSE Prop(v, p)
UserOf(scope) == IF scope = "CM_GLOBAL_USER" THEN "0" ELSE "INIT_INVALID_VALUE"
StoreOf(op) ==
    CASE op \in {"installPrivateCertificate", "uninstallPrivateCertificate", "getAllAppPrivateCertificates",
                 "getAllAppPrivateCertificatesByUid", "getPrivateCertificates", "getPrivateCertificate"} -> Private
      [] op \in {"installSystemAppCertificate", "uninstallSystemAppCertificate", "getAllSystemAppCertificates",
                 "getSystemAppCertificate"} -> System
      [] op \in {"getSystemTrustedCertificateList", "getSystemTrustedCertificate"} -> "CM_SYSTEM_TRUSTED_STORE"
      [] op \in {"getUserTrustedCertificate", "setCertificateStatus"} -> "CM_USER_TRUSTED_STORE"
      [] OTHER -> Public

Asked(fn, a) == [fn |-> {fn}, a |-> a]

\* What the SDK should be asked, by function and arguments.
Expected(op, v) ==
    CASE op \in {"installPublicCertificate", "installSystemAppCertificate"} ->
             Asked("CmInstallAppCert", [appCert |-> v[1], appCertPwd |-> v[2], store |-> StoreOf(op)])
      [] op = "installPrivateCertificate" ->
             Asked("CmInstallAppCertEx", [appCert |-> v[1], appCertPwd |-> v[2], certAlias |-> v[3],
                                          store |-> StoreOf(op), userId |-> "INIT_INVALID_VALUE"])
      [] op \in {"uninstallPublicCertificate", "uninstallPrivateCertificate", "uninstallSystemAppCertificate"} ->
             Asked("CmUninstallAppCert", [keyUri |-> v[1], store |-> StoreOf(op)])
      [] op = "uninstallAllAppCertificate" -> Asked("CmUninstallAllAppCert", <<>>)
      [] op \in {"getAllPublicCertificates", "getAllAppPrivateCertificates", "getAllSystemAppCertificates"} ->
             Asked("CmGetAppCertList", [store |-> StoreOf(op)])
      [] op = "getAllAppPrivateCertificatesByUid" ->
             Asked("CmGetAppCertListByUid", [store |-> StoreOf(op), appUid |-> v[1]])
      [] op = "getPrivateCertificates" -> Asked("CmCallingGetAppCertList", [store |-> StoreOf(op)])
      [] op \in {"getPublicCertificate", "getPrivateCertificate", "getSystemAppCertificate"} ->
             Asked("CmGetAppCert", [keyUri |-> v[1], store |-> StoreOf(op)])
      [] op = "getSystemTrustedCertificateList" -> Asked("CmGetCertList", [store |-> StoreOf(op)])
      [] op = "getAllUserTrustedCertificates" ->
             IF v = <<>> THEN Asked("CmGetUserCertList", [store |-> "CM_USER_TRUSTED_STORE"])
             ELSE Asked("CmGetUserCACertList", [scope |-> v[1]])
      [] op = "getSystemTrustedCertificate" -> Asked("CmGetCertInfo", [certUri |-> v[1], store |-> StoreOf(op)])
      [] op = "getUserTrustedCertificate" -> Asked("CmGetUserCertInfo", [certUri |-> v[1], store |-> StoreOf(op)])
      [] op = "setCertificateStatus" ->
             Asked("CmSetUserCertStatus", [certUri |-> v[1], store |-> StoreOf(op), status |-> v[3]])
      [] op = "installUserTrustedCertificate" ->
             Asked(IF Prop(v[1], "certFormat") = "P7B" THEN "CmInstallUserTrustedP7BCert" ELSE "CmInstallUserCACert",
                   [userCert |-> Prop(v[1], "certData"), status |-> "true",
                    userId |-> UserOf(Option(v[1], "certScope", "CM_CURRENT_USER"))])
      [] op = "installUserTrustedCertificateSync" ->
             Asked("CmInstallUserCACert", [userCert |-> v[1], status |-> "true", userId |-> UserOf(v[2])])
      [] op = "uninstallAllUserTrustedCertificate" -> Asked("CmUninstallAllUserTrustedCert", <<>>)
      [] op = "uninstallUserTrustedCertificateSync" -> Asked("CmUninstallUserTrustedCert", [certUri |-> v[1]])
      [] op = "getCertificateStorePath" -> [fn |-> {"Path", "SystemStoreSm", "UserOfCaller"}, a |-> <<>>]
      [] op = "grantPublicCertificate" -> Asked("CmGrantAppCertificate", [keyUri |-> v[1], appUid |-> v[2]])
      [] op = "removeGrantedPublicCertificate" -> Asked("CmRemoveGrantedApp", [keyUri |-> v[1], appUid |-> v[2]])
      [] op = "isAuthorizedApp" -> Asked("CmIsAuthorizedApp", [keyUri |-> v[1]])
      [] op = "getAuthorizedAppList" -> Asked("CmGetAuthorizedAppList", [keyUri |-> v[1]])
      [] op = "init" ->
             Asked("CmInit", [authUri |-> v[1], purpose |-> Prop(v[2], "purpose"),
                              padding |-> Option(v[2], "padding", "CM_PADDING_PSS"),
                              digest |-> Option(v[2], "digest", "CM_DIGEST_SHA256")])
      [] op = "update" -> Asked("CmUpdate", [handle |-> v[1], inData |-> v[2]])
      [] op = "finish" ->
             Asked("CmFinish",
                   IF Len(v) = 1 \/ Type[v[2]] = "function" THEN [handle |-> v[1], inData |-> "empty", outData |-> "out"]
                   ELSE [handle |-> v[1], inData |-> v[2], outData |-> "empty"])
      [] op = "abort" -> Asked("CmAbort", [handle |-> v[1]])
      [] op = "getUkeyCertificateList" ->
             Asked("CmGetUkeyCertList", [ukeyProvider |-> v[1],
                                         certPurpose |-> Option(v[2], "certPurpose", "CM_CERT_PURPOSE_DEFAULT")])
      [] op = "getUkeyCertificate" ->
             Asked("CmGetUkeyCert", [keyUri |-> v[1],
                                     certPurpose |-> Option(v[2], "certPurpose", "CM_CERT_PURPOSE_DEFAULT")])
      [] op = "importUkeyCertificate" ->
             Asked("CmImportUkeyCert", [keyUri |-> v[1], cert |-> v[2],
                                        certPurpose |-> Option(v[3], "certPurpose", "CM_CERT_PURPOSE_DEFAULT")])

Accepted(r) ==
    r.code = "SUCCESS" \/ (call.op = "uninstallPrivateCertificate" /\ r.code = "CMR_ERROR_NOT_EXIST")

\* A request with every argument that is expected of it, each in its place.
Fits(r, e) == r.fn \in e.fn /\ \A f \in DOMAIN e.a : r.a[f] = e.a[f]

\* JavaScript is told of a success exactly when the SDK did what the arguments
\* ask for, each in its place, and succeeded; an error says that it did not
\* (every ...Execute of the kit).  The storage level of
\* installPrivateCertificate is left out: the code reads it and drops it.
SuccessIsDone ==
    pc = "done" /\ seen[1].how \in {"promise", "callback", "return"} =>
        (seen[1].err = "none" <=> \E r \in sdk : Accepted(r) /\ Fits(r, Expected(call.op, call.argv)))
=============================================================================
