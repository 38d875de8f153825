------------------------------- MODULE CmCall -------------------------------
(***************************************************************************)
(* One call of the SDK after another, from the caller through the client   *)
(* library (cm_ipc_client.c, cm_param.c, cm_request.cpp) into the service  *)
(* (cm_sa.cpp, cm_ipc_service.c, cm_response.cpp) and back.  Allocations   *)
(* fail, the ability may have to be started, and the service may die with  *)
(* the call inside.                                                        *)
(***************************************************************************)
EXTENDS CmHandlers

CONSTANTS Callers,   \* the processes that call, with their permissions
          Calls      \* [op, a]: functions of the SDK with arguments

ASSUME CallsAssumption == \A k \in Calls : k.op \in SdkFunctions
\* User 0 runs no applications: who calls as user 0 is taken for a system
\* service (cert_manager_check.c:225).
ASSUME CallersAssumption == \A c \in Callers : c.token = "hap" => c.userId # SA_USER

\* Sizes of a parameter set, in steps: within the block every set starts with
\* (CM_DEFAULT_PARAM_SET_SIZE), above it, above what a message may have
\* (MAX_MALLOC_LEN) and above what a set may have (CM_PARAM_SET_MAX_SIZE).
DEFAULT == 1
LARGE == 2
MAX_MALLOC == 3
MAX_SET == 4

VARIABLES pc,        \* what happens next
          call,      \* [op, a, c]: the function, its arguments and the caller
          request,   \* what the client made of it
          message,   \* [size, words, out]: the message that was sent
          service,   \* the ability: "stopped" or "running"
          handler,   \* what the handler made of the message
          replies,   \* the replies written, codes
          rc,        \* what the call returned
          wiped      \* [bytes, block]: what CmFreeParamSet wiped last
vars == <<pc, call, request, message, service, handler, replies, rc, wiped>>

NoCall == [op |-> "", a |-> <<>>, c |-> [perms |-> {}, token |-> "hap", system |-> FALSE, userId |-> 100, uid |-> 1]]
NoMessage == [size |-> DEFAULT, words |-> <<>>, out |-> "null"]
NoHandler == [err |-> "", ctx |-> [userId |-> 0, uid |-> 0], args |-> <<>>, work |-> "", reply |-> "none"]
NotWiped == [bytes |-> 0, block |-> 0]

Init ==
    /\ pc = "idle" /\ call = NoCall /\ request = Refuse("") /\ message = NoMessage
    /\ service = "stopped" /\ handler = NoHandler /\ replies = <<>> /\ rc = "" /\ wiped = NotWiped

Return(err) == pc' = "done" /\ rc' = err
Goto(label) == pc' = label /\ UNCHANGED rc

\* The function checks its arguments and builds a request, or refuses.
Call ==
    /\ pc = "idle"
    /\ \E k \in Calls, c \in Callers :
        /\ call' = [op |-> k.op, a |-> k.a, c |-> c]
        /\ request' = Invoke(k.op, k.a)
        /\ IF request'.err = "SUCCESS" THEN Goto("serialize") ELSE Return(request'.err)
    /\ UNCHANGED <<message, service, handler, replies, wiped>>

\* The sizes a set of these parameters may have.
SetSizes(params) ==
    IF params = <<>> THEN {DEFAULT}
    ELSE IF \E t \in DOMAIN params : t[1] = "BUFFER" /\ params[t].form = "huge"
    THEN {LARGE, MAX_MALLOC, MAX_SET} ELSE {DEFAULT, LARGE}

\* Seeded fault: a set that is refused keeps its size.
CmBuildParamSet_KeepsSize(size) ==
    IF size = MAX_SET THEN [err |-> "INVALID_PARAMSET_ARG", bytes |-> size, block |-> DEFAULT]
    ELSE [err |-> "SUCCESS", bytes |-> size, block |-> size]

\* The size of the set that was built and the block it is in.  A set above the
\* maximum is refused and given back the size of its block.
CmBuildParamSet(size) ==
    IF size = MAX_SET THEN [err |-> "INVALID_PARAMSET_ARG", bytes |-> DEFAULT, block |-> DEFAULT]
    ELSE [err |-> "SUCCESS", bytes |-> size, block |-> size]

\* The words of a message before its buffer: SendRequest writes the room for
\* the answer and the size, SendRequestParcel the size.
Words(via) == IF via = "request" THEN <<"outSize", "size", "buffer">> ELSE <<"size", "buffer">>

\* CmParamsToParamSet and the buffer for the answer.
Serialize ==
    /\ pc = "serialize"
    /\ \E size \in SetSizes(request.params) : LET set == CmBuildParamSet(size) IN
        /\ message' = [size |-> size, words |-> Words(request.via), out |-> request.out.form]
        /\ wiped' = IF set.err = "SUCCESS" THEN wiped ELSE [bytes |-> set.bytes, block |-> set.block]
        /\ IF set.err = "SUCCESS" THEN Goto("load") ELSE Return(set.err)
    /\ UNCHANGED <<call, request, service, handler, replies>>

\* Blobs are added in the order of their tags until one of them is longer than the
\* sum can hold: what came before it is not taken back (CmAddParams).
Before(params, t) ==
    {s \in DOMAIN params : s[1] = "BUFFER" /\ s[2] < t[2] /\ CmCheckBlob(params[s])}
GrownSizes(params) ==
    UNION {SetSizes([s \in Before(params, t) |-> params[s]]) :
             t \in {s \in DOMAIN params : s[1] = "BUFFER" /\ params[s].form = "huge"}}

\* The set is freed, and wiped by the size it has grown to, in its first block.
SerializeOverflows ==
    /\ pc = "serialize"
    /\ \E size \in GrownSizes(request.params) : wiped' = [bytes |-> size, block |-> DEFAULT]
    /\ Return("INVALID_PARAMSET_ARG")
    /\ UNCHANGED <<call, request, message, service, handler, replies>>

\* There is no memory for the set, for a block above the default or for the
\* answer.  A set that outgrew its block keeps its size and its block.
SerializeNoMemory ==
    /\ pc = "serialize" /\ request.params # <<>>
    /\ \E size \in SetSizes(request.params) \ {MAX_SET} :
        \E at \in {"set", "answer"} \cup (IF size > DEFAULT THEN {"block"} ELSE {}) :
        /\ at = "answer" => request.out.kind = "buffer"
        /\ message' = [NoMessage EXCEPT !.size = size]
        /\ wiped' = CASE at = "set" -> NotWiped
                      [] at = "block" -> [bytes |-> size, block |-> DEFAULT]
                      [] OTHER -> [bytes |-> size, block |-> size]
    /\ Return("MALLOC_FAIL")
    /\ UNCHANGED <<call, request, service, handler, replies>>

\* CmLoadSystemAbility, twice: the ability is found or started.
Load ==
    /\ pc = "load"
    /\ \/ service' = "running" /\ Goto("send")
       \/ service = "stopped" /\ Return("NULL_POINTER") /\ UNCHANGED service
    /\ UNCHANGED <<call, request, message, handler, replies, wiped>>

-----------------------------------------------------------------------------
(* The service.                                                            *)

\* Seeded fault: the single certificate's request is read as if it had outSize.
HasOutSize_Ukey(code) == code # "GET_UKEY_CERTIFICATE_LIST"

\* Messages that do not say how much room there is for the answer (of those
\* that are not about the dialog).
HasOutSize(code) == code \notin {"GET_UKEY_CERTIFICATE_LIST", "GET_UKEY_CERTIFICATE"}

\* Errors before the handler: nothing is replied, the transport returns them.
\* A word that is read in place of another is no size that would pass.
FormError ==
    CASE (message.words[1] = "outSize") # HasOutSize(request.code) -> "IPC_PARAM_SIZE_INVALID"
      [] message.size >= MAX_MALLOC -> "IPC_PARAM_SIZE_INVALID"
      [] message.words[1] = "outSize" /\ message.out \in {"huge", "toobig"} -> "IPC_PARAM_SIZE_INVALID"
      [] OTHER -> "SUCCESS"

OnRemoteRequest ==
    /\ pc = "send" /\ service = "running"
    /\ \/ FormError # "SUCCESS" /\ Return(FormError) /\ UNCHANGED handler
       \/ Return("MALLOC_FAIL") /\ UNCHANGED handler
       \/ /\ FormError = "SUCCESS"
          /\ handler' = ProcessMessage(request.code, call.c,
                            [userId |-> call.c.userId, uid |-> call.c.uid],
                            CmParamsToParamSet(request.params), message.out)
          /\ Goto("handle")
    /\ UNCHANGED <<call, request, message, service, replies, wiped>>

\* CmGetParamSet copies the parameters before they are read.
HandleNoMemory ==
    /\ pc = "handle" /\ handler.args # <<>>
    /\ handler' = Refused("MALLOC_FAIL", handler.ctx)
    /\ UNCHANGED <<pc, call, request, message, service, replies, rc, wiped>>

\* The errors between CMR_ERROR_INVALID_ARGUMENT_BEGIN and _END.
INVALID_ARGUMENTS ==
    {"INVALID_ARGUMENT_STORE_TYPE", "INVALID_ARGUMENT_SCOPE", "INVALID_ARGUMENT_USER_ID",
     "INVALID_ARGUMENT_UID", "INVALID_ARGUMENT_URI", "INVALID_ARGUMENT_STATUS",
     "INVALID_ARGUMENT_APP_CERT", "INVALID_ARGUMENT_APP_PWD", "INVALID_ARGUMENT_ALIAS",
     "INVALID_ARGUMENT_SIGN_SPEC", "INVALID_ARGUMENT_HANDLE", "INVALID_ARGUMENT_CRED_PREVKEY",
     "INVALID_ARGUMENT_LENGTH_TOO_LARGE", "INVALID_PARAMSET_ARG"}

\* They are told to a client as one.
ConvertErrorCode(err) == IF err \in INVALID_ARGUMENTS THEN "INVALID_ARGUMENT" ELSE err

\* CmSendResponse, CmSendResponseParcel.
Reply(err) == replies' = Append(replies, ConvertErrorCode(err))

\* A handler that refused says so; a code without a handler is not answered.
SendRefusal ==
    /\ pc = "handle" /\ ~(handler.err = "SUCCESS" /\ handler.work # "")
    /\ IF handler.err = "SUCCESS" THEN UNCHANGED replies ELSE Reply(handler.err)
    /\ Goto("reply")
    /\ UNCHANGED <<call, request, message, service, handler, wiped>>

\* The work is done, or fails, and its answer is packed.
Work ==
    /\ pc = "handle" /\ handler.err = "SUCCESS" /\ handler.work # ""
    /\ \E err \in {"SUCCESS", "NOT_EXIST"} : Reply(err)
    /\ Goto("reply")
    /\ UNCHANGED <<call, request, message, service, handler, wiped>>

\* The service is killed, or unloaded: the transport tells the client.
Dies ==
    /\ service = "running"
    /\ service' = "stopped"
    /\ IF pc \in {"send", "handle"} THEN Return("DEAD_OBJECT") ELSE UNCHANGED <<pc, rc>>
    /\ UNCHANGED <<call, request, message, handler, replies, wiped>>

-----------------------------------------------------------------------------
(* Back at the client.                                                     *)

\* Does a reply carry an answer?
Answered == handler.reply = "own" \/ (handler.reply = "outData" /\ CmCheckBlob(Blob(message.out)))

\* CmReadRequestReply, SendRequestParcel and the unpacking.  What the service
\* allocated itself has to fit; where the caller gave no room some is made.
ReadReply ==
    /\ pc = "reply"
    /\ LET code == IF replies = <<>> THEN "SUCCESS" ELSE replies[1]
       IN  \/ code # "SUCCESS" /\ Return(code)
           \/ code = "SUCCESS" /\ request.via = "request" /\ Answered
              /\ Return(IF request.out.kind = "none" THEN "INVALID_ARGUMENT" ELSE request.unpack)
           \/ code = "SUCCESS" /\ ~(request.via = "request" /\ Answered) /\ Return(request.unpack)
           \/ code = "SUCCESS" /\ request.out.kind = "received" /\ Return("MALLOC_FAIL")
    /\ wiped' = [bytes |-> message.size, block |-> message.size]
    /\ UNCHANGED <<call, request, message, service, handler, replies>>

\* The caller goes on; the ability is as it is.
Done ==
    /\ pc = "done"
    /\ pc' = "idle" /\ call' = NoCall /\ request' = Refuse("") /\ message' = NoMessage
    /\ handler' = NoHandler /\ replies' = <<>> /\ rc' = "" /\ wiped' = NotWiped
    /\ UNCHANGED service

Next ==
    \/ Call \/ Serialize \/ SerializeOverflows \/ SerializeNoMemory \/ Load
    \/ OnRemoteRequest \/ HandleNoMemory \/ SendRefusal \/ Work \/ Dies \/ ReadReply \/ Done

Spec == Init /\ [][Next]_vars

-----------------------------------------------------------------------------
(* Properties.                                                             *)

\* A handler has let the call pass and its work is about to be done.
Works == pc = "handle" /\ handler.err = "SUCCESS" /\ handler.work # ""

CA_WORK == {"CmGetUserCACertList", "CmGetUserCertInfo", "CmSetUserCertStatus",
            "CmInstallUserTrustedCert", "CmUninstallUserTrustedCert", "CmUninstallAllUserTrustedCert"}
KEY_USE == {"CmInit", "CmUpdate", "CmFinish", "CmAbort", "CmIsAuthorizedApp", "CmCheckAppPermission"}
UKEY_WORK == {"CmGetUkeyCertList", "CmGetUkeyCert", "CmImportUkeyCert"}

\* The work a function of the SDK is about.
WorkOf(op) ==
    CASE op \in {"CmInstallAppCertEx", "CmInstallSystemAppCert"} -> "CmInstallAppCert"
      [] op = "CmGetUserCertList" -> "CmGetUserCACertList"
      [] op \in {"CmInstallUserCACert", "CmInstallUserTrustedP7BCert"} -> "CmInstallUserTrustedCert"
      [] OTHER -> op

NUMBERS == {"store", "userId", "appUid", "level", "credFormat", "aliasFormat", "scope", "purpose",
            "status", "format"}

\* The values that stand for the arguments a function does not take.
Implied(op, a) ==
    CASE op = "CmInstallAppCert" ->
           [privKey |-> Blob("empty"), userId |-> INVALID, credFormat |-> "FILE_P12",
            level |-> IF a.store = "CREDENTIAL" THEN "EL2" ELSE "EL1", aliasFormat |-> "DEFAULT"]
      [] op = "CmInstallSystemAppCert" ->
           [privKey |-> Blob("empty"), level |-> "EL1", credFormat |-> "FILE_P12", aliasFormat |-> "DEFAULT"]
      [] op = "CmGetUserCertList" -> [userId |-> INVALID, scope |-> "ALL_USER"]
      [] op = "CmGetUserCACertList" -> [store |-> "USER_TRUSTED"]
      [] op = "CmInstallUserTrustedCert" -> [userId |-> INVALID, status |-> 0, format |-> "PEM_DER"]
      [] op = "CmInstallUserCACert" -> [status |-> IF a.on THEN 0 ELSE 1, format |-> "PEM_DER"]
      [] op = "CmInstallUserTrustedP7BCert" -> [status |-> IF a.on THEN 0 ELSE 1, format |-> "P7B"]
      [] op \in {"CmSetCertStatus", "CmSetUserCertStatus"} -> [status |-> IF a.on THEN 0 ELSE 1]
      [] OTHER -> <<>>

\* The argument f the work should be given: the caller's, where a blob that is
\* missing is an empty one, or the implied one.
Expected(op, a, f) ==
    IF f \in DOMAIN Implied(op, a) THEN Implied(op, a)[f]
    ELSE IF f \notin NUMBERS /\ ~CmCheckBlob(a[f]) THEN Blob("empty") ELSE a[f]

\* What was asked for is what is done, with the arguments of the caller and
\* all of them: no tag, table row or optional argument is mixed up between the
\* function of the SDK and the handler (cm_ipc_client.c, cm_sa.cpp:65-106,
\* cm_ipc_service.c).
ArgumentsArrive ==
    Works => /\ handler.work = WorkOf(call.op)
             /\ \A f \in DOMAIN handler.args : handler.args[f] = Expected(call.op, call.a, f)

\* No call is lost to the form of its message: every parameter a handler reads
\* is there, a size is only refused where it is too large, and where the
\* handler answers with data the client has made room for it.
NotRefusedForItsForm ==
    /\ handler.err # "PARAM_NOT_EXIST"
    /\ rc = "IPC_PARAM_SIZE_INVALID" =>
         message.size >= MAX_MALLOC \/ message.out \in {"huge", "toobig"}
    /\ Works /\ handler.reply \in {"outData", "own"} => request.out.kind # "none"

\* A call only succeeds when the service did its work and said so.
SuccessIsReal ==
    rc = "SUCCESS" => replies = <<"SUCCESS">> /\ handler.work = WorkOf(call.op)

\* Applications that are not of the system only reach their private
\* credentials, the CAs of users, ukeys and the use of keys they were granted,
\* and nothing is done without the permission of the manager or, for CAs, the
\* one to change them.
OnlyTheSystemManages ==
    Works =>
      /\ \/ CmHasCommonPermission(call.c)
         \/ handler.work \in {"CmInstallUserTrustedCert", "CmUninstallUserTrustedCert"}
            /\ (CmHasUserTrustedPermission(call.c) \/ CmHasEnterpriseUserTrustedPermission(call.c))
      /\ \/ CmIsSystemApp(call.c)
         \/ handler.work \in CA_WORK \cup KEY_USE \cup UKEY_WORK
         \/ (handler.work \in {"CmInstallAppCert", "CmUninstallAppCert", "CmCallingGetAppCertList"}
             /\ handler.args.store = "PRI_CREDENTIAL")
         \/ handler.work = "CmGetAppCert" /\ handler.args.store # "SYS_CREDENTIAL"

\* An application works for its own user, or on the CAs of user 0, whatever
\* the URIs, user ids and uids in its arguments say; and it uses the
\* credential of another application only with a URI made out to it.
UserIsolation ==
    Works /\ call.c.token = "hap" =>
      /\ \/ handler.ctx.userId = call.c.userId
         \/ handler.ctx.userId = SA_USER /\ handler.work \in CA_WORK
      /\ handler.work = "CmInit" /\ handler.args.authUri.type = "APP_KEY" =>
           \/ handler.args.authUri.app = call.c.uid
           \/ handler.args.authUri.client = call.c.uid
      /\ handler.work = "CmInit" /\ handler.args.authUri.type = "SYS_KEY" =>
           handler.args.authUri.user = call.c.userId

\* The CAs that are listed are those of the caller's user and of user 0, or
\* for a system service of the user it names, and no directory is read twice.
ListedUsers ==
    Works /\ handler.work = "CmGetUserCACertList" /\ handler.args.store = "USER_TRUSTED" =>
      LET users == CmServiceGetUserCACertList(handler.ctx, handler.args.userId, handler.args.scope)
      IN  /\ \A i, j \in DOMAIN users : users[i] = users[j] => i = j
          /\ \A i \in DOMAIN users :
               users[i] \in {SA_USER, IF call.c.userId = SA_USER THEN handler.args.userId ELSE call.c.userId}

\* CmFreeParamSet wipes no more than the block of the set (cm_param.c:146): one that
\* was sent, that is above the maximum, or whose first blob is too long.  A set that
\* no larger block was found for (:114), or to which a later blob could not be added
\* after others had been (:262), claims more than its block: these two are left out.
WipeStaysInBlock ==
    wiped.bytes > wiped.block =>
        \/ rc = "MALLOC_FAIL"
        \/ rc = "INVALID_PARAMSET_ARG" /\ wiped.bytes \in GrownSizes(request.params)
=============================================================================
