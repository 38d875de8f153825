----------------------------- MODULE KitDialogs ------------------------------
(***************************************************************************)
(* The dialogs of the Node-API kit (interfaces/kits/napi/src/dialog).  A   *)
(* call is checked, makes a promise and shows a dialog: a modal UI         *)
(* extension, an ability started for a result, or the PIN dialog of a UKey *)
(* that the certificate manager service opens.  The promise is settled by  *)
(* whatever the dialog says first.  The handlers of a dialog run on the    *)
(* thread of JavaScript; the answer of the service comes on another one    *)
(* and is handed over by a thread-safe function.                           *)
(***************************************************************************)
EXTENDS KitScript

CONSTANTS
    Elements,       \* the elements of every array
    DialogCalls,    \* the calls: [op, argv]
    Devices,        \* [syscap, caDialog, basic, register, label, pc]
    EndCodes,       \* the codes a dialog or the service ends with, "0" among them
    MAX_LEN_URI, CM_UKEY_ABILITY_NAME_MAX_LEN, CM_UKEY_AUTH_CUSTOM_DATA_MAX_SIZE,
    CRITERIA_MAX_SIZE,
    MaxEnds         \* the events of a dialog that are followed before it is destroyed

VARIABLES
    device,     \* what the device and the caller's permissions allow
    via,        \* "extension", "ability" or "sa" once it is chosen
    ends,       \* the events of the dialog, in order
    modal,      \* the dialog on the screen: "none", "shown" or "closed"
    alreadyCallback, uri,
    returned, started, answered, lost,  \* the call to the service, as UkeyCall promises it
    queue,      \* the results handed to the thread-safe function
    ukeyResult  \* the result context with its function: "none", "live", "released",
                \* "freed", or "used" by a result that came after that

service == <<returned, started, answered, lost>>
sa == <<service, queue, ukeyResult>>
dialog == <<ends, modal, alreadyCallback, uri>>

SA == INSTANCE UkeyCall WITH Calls <- {"dialog"}

-----------------------------------------------------------------------------
(* The parsers: cm_napi_dialog_common.cpp and the dialogs' own.             *)
ParseCmUIAbilityContextReq(v) == Type[v] = "context"
IsParamNull(v) == Type[v] = "null"
GetUint8ArrayToBase64Str(v) == GetUint8Array(v) # {}
IsArray(v) == Type[v] = "array"
CertTypes == {"CREDENTIAL_USER", "CREDENTIAL_APP", "CREDENTIAL_UKEY"}
GetCertTypeArray(v) == IsArray(v) /\ Elements[v] # <<>> /\ \A i \in DOMAIN Elements[v] : OneOf(Elements[v][i], CertTypes) # {}
ParseStringArray(v) == IsArray(v) /\ \A i \in DOMAIN Elements[v] : ParseStringOrEmpty(Elements[v][i]) # {}
\* An element that is no data is taken for an empty issuer.
ParseListUint8Array(v) == IsArray(v)

\* A property that may be missing, but not undefined.
IfThere(v, p, Good(_)) == HasProps(v) /\ (Has(v, p) => Good(Prop(v, p)))

GetCertTypes(v) == Has(v, "certTypes") /\ GetCertTypeArray(Prop(v, "certTypes"))
GetCertPurpose(v) == IfThere(v, "certPurpose", LAMBDA x : ParseUint32(x) # {})
GetKeyAlgIds(v) == IfThere(v, "keyAlgIDs", LAMBDA x : ParseStringArray(x) /\ Len(Elements[x]) <= CRITERIA_MAX_SIZE)
GetIssuers(v) == IfThere(v, "issuers", LAMBDA x : ParseListUint8Array(x) /\ Len(Elements[x]) <= CRITERIA_MAX_SIZE)
GetServerUrl(v) == IfThere(v, "uri", LAMBDA x : ParseStringOrEmpty(x) # {})
GetAuthorizeRequest(v) ==
    GetCertTypes(v) /\ GetCertPurpose(v) /\ GetKeyAlgIds(v) /\ GetIssuers(v) /\ GetServerUrl(v)

\* A property that may be missing, undefined or null.
IfSet(v, p, Good(_)) == Type[Prop(v, p)] \in {"undefined", "null"} \/ Good(Prop(v, p))

ParseUkeyKeyUri(v) == \E u \in ParseString(Prop(v, "keyUri")) : Length[u] <= MAX_LEN_URI
\* The value negative stands for a number below 0 or past 32 bits.
ParseUkeyTimeoutDuration(v) == IfSet(v, "timeoutDuration", LAMBDA x : Type[x] = "number" /\ x # "negative")
ParseUkeyCustomData(v) ==
    IfSet(v, "customData", LAMBDA x : Type[x] = "bytes" /\ Length[x] <= CM_UKEY_AUTH_CUSTOM_DATA_MAX_SIZE)
GetUkeyAuthRequest(v) ==
    HasProps(v) /\ ParseUkeyKeyUri(v) /\ ParseUkeyTimeoutDuration(v) /\ ParseUkeyCustomData(v)

ParseUkeyAbilityName(v) ==
    \E s \in {x \in {Prop(v, "abilityName")} : Type[x] = "string"} : Length[s] \in 1..CM_UKEY_ABILITY_NAME_MAX_LEN

-----------------------------------------------------------------------------
(* What a call has to pass, in order, and the error when it does not.       *)
Must(ok, error) == [ok |-> ok, error |-> error]
CheckSyscapReturnVoid(d) == Must(d.syscap, "void")
CheckSyscapThrowError(d) == Must(d.syscap, "CAPABILITY_NOT_SUPPORTED")
IsEnableCACertDialog(d) == Must(d.syscap /\ d.caDialog, "NOT_SUPPORTED")
GetCallerLabelName(d) == Must(d.label, "GENERIC")

IsCmDialogPageTypeEnum == {"PAGE_MAIN", "PAGE_CA_CERTIFICATE", "PAGE_CREDENTIAL", "PAGE_INSTALL_CERTIFICATE"}
CMNapiOpenCertManagerDialog(argv, d) ==
    <<CheckSyscapReturnVoid(d),
      Must(/\ Arity(argv, 2, 2) /\ ParseCmUIAbilityContextReq(Arg(argv, 1))
           /\ OneOf(Arg(argv, 2), IsCmDialogPageTypeEnum) # {}, "PARAM_ERROR")>>

IsCmCertificateScopeEnum == {"NOT_SPECIFIED", "CURRENT_USER", "GLOBAL_USER"}
IsCmCertificateType == {"CA_CERT", "CREDENTIAL_USER", "CREDENTIAL_SYSTEM"}
CMNapiOpenInstallCertDialog(argv, d) ==
    <<CheckSyscapThrowError(d),
      IF OneOf(Arg(argv, 2), {"CA_CERT"}) # {} THEN IsEnableCACertDialog(d) ELSE Must(TRUE, "none"),
      Must(/\ Arity(argv, 4, 4) /\ ParseCmUIAbilityContextReq(Arg(argv, 1))
           /\ OneOf(Arg(argv, 2), IsCmCertificateType) # {} /\ OneOf(Arg(argv, 3), IsCmCertificateScopeEnum) # {}
           /\ GetUint8ArrayToBase64Str(Arg(argv, 4)), "PARAM_ERROR"),
      GetCallerLabelName(d)>>

CMNapiOpenUninstallCertDialog(argv, d) ==
    <<CheckSyscapReturnVoid(d), IsEnableCACertDialog(d),
      Must(/\ Arity(argv, 3, 3) /\ ParseCmUIAbilityContextReq(Arg(argv, 1))
           /\ OneOf(Arg(argv, 2), {"CA_CERT"}) # {} /\ ParseString(Arg(argv, 3)) # {}, "PARAM_ERROR"),
      GetCallerLabelName(d)>>

CMNapiOpenDetailDialog(argv, d) ==
    <<CheckSyscapReturnVoid(d), IsEnableCACertDialog(d),
      Must(/\ Arity(argv, 3, 3) /\ ParseCmUIAbilityContextReq(Arg(argv, 1))
           /\ GetUint8ArrayToBase64Str(Arg(argv, 2))
           /\ ParseBoolean(Prop(Arg(argv, 3), "showInstallButton")) # {}, "PARAM_ERROR")>>

CMNapiOpenAuthorizeDialog(argv, d) ==
    <<CheckSyscapThrowError(d),
      Must(Arity(argv, 1, 2) /\ ParseCmUIAbilityContextReq(Arg(argv, 1)), "PARAM_ERROR"),
      Must(Len(argv) = 2 => ~IsParamNull(argv[2]), "PARAM_ERROR"),
      Must(Len(argv) = 2 => GetAuthorizeRequest(argv[2]), "PARAMETER_VALIDATION_FAILED"),
      GetCallerLabelName(d)>>

CMNapiOpenUkeyAuthorizeDialog(argv, d) ==
    <<CheckSyscapReturnVoid(d),
      Must(Arity(argv, 2, 2) /\ ParseCmUIAbilityContextReq(Arg(argv, 1)), "PARAM_ERROR"),
      Must(~IsParamNull(Arg(argv, 2)), "PARAM_ERROR"),
      Must(GetUkeyAuthRequest(Arg(argv, 2)), "PARAMETER_VALIDATION_FAILED")>>

GetUkeyDialogInfo(v) ==
    <<Must(IsObject(v) /\ Type[Prop(v, "abilityType")] = "number", "PARAM_ERROR"),
      Must(Prop(v, "abilityType") = "CM_UKEY_ABILITY_TYPE_UIEXTENSION" /\ ParseUkeyAbilityName(v),
           "PARAMETER_VALIDATION_FAILED")>>
CMNapiOpenAuthDialogForUkeyProvider(argv, d) ==
    <<CheckSyscapReturnVoid(d), Must(Arity(argv, 2, 2), "PARAM_ERROR")>>
    \o GetUkeyDialogInfo(Arg(argv, 1))
    \o <<Must(~IsParamNull(Arg(argv, 2)), "PARAM_ERROR"),
         Must(GetUkeyAuthRequest(Arg(argv, 2)), "PARAMETER_VALIDATION_FAILED"),
         Must(d.register, "HAS_NO_PERMISSION")>>

Checks(op, argv, d) ==
    CASE op = "openCertificateManagerDialog" -> CMNapiOpenCertManagerDialog(argv, d)
      [] op = "openInstallCertificateDialog" -> CMNapiOpenInstallCertDialog(argv, d)
      [] op = "openUninstallCertificateDialog" -> CMNapiOpenUninstallCertDialog(argv, d)
      [] op = "openCertificateDetailDialog" -> CMNapiOpenDetailDialog(argv, d)
      [] op = "openAuthorizeDialog" -> CMNapiOpenAuthorizeDialog(argv, d)
      [] op = "openUkeyAuthDialog" -> CMNapiOpenUkeyAuthorizeDialog(argv, d)
      [] op = "openAuthDialogForUkeyProvider" -> CMNapiOpenAuthDialogForUkeyProvider(argv, d)

\* The check that fails first, none when all pass.
Failing(checks) ==
    {checks[i] : i \in {j \in DOMAIN checks : ~checks[j].ok /\ \A k \in 1..j - 1 : checks[k].ok}}

-----------------------------------------------------------------------------
(* The errors JavaScript is shown.                                          *)
DIALOG_CODE_TO_JS_CODE_MAP ==
    [PARSE_CERT_FAILED |-> "INSTALL_FAILED",
     ADVANCED_SECURITY |-> "INSTALL_FAILED",
     INCORRECT_FORMAT |-> "INSTALL_FAILED",
     MAX_QUANTITY_REACHED |-> "INSTALL_FAILED",
     SA_INTERNAL_ERROR |-> "INSTALL_FAILED",
     NOT_EXIST |-> "INSTALL_FAILED",
     INSTALL_FAILED |-> "INSTALL_FAILED",
     CAPABILITY_NOT_SUPPORTED |-> "CAPABILITY_NOT_SUPPORTED",
     NOT_SUPPORTED |-> "NOT_SUPPORTED",
     NO_AVAILABLE_CERTIFICATE |-> "NO_AVAILABLE_CERTIFICATE",
     PARAMETER_VALIDATION_FAILED |-> "PARAMETER_VALIDATION_FAILED",
     PERMISSION_DENIED |-> "HAS_NO_PERMISSION",
     OPERATION_CANCELS |-> "OPERATION_CANCELED",
     PARAM_INVALID |-> "PARAM_ERROR",
     NOT_ENTERPRISE_DEVICE |-> "NOT_COMPLY_SECURITY_POLICY"]
DialogErrorCode(code) ==
    IF code \in DOMAIN DIALOG_CODE_TO_JS_CODE_MAP THEN DIALOG_CODE_TO_JS_CODE_MAP[code] ELSE "GENERIC"

\* Two codes of the service are shown differently to the owner of the key.
GenerateUkeyResultError(code) ==
    CASE call.op = "openUkeyAuthDialog" /\ code = "UKEY_REPORT_TIMEOUT" -> "OPERATION_CANCELED"
      [] call.op = "openUkeyAuthDialog" /\ code = "UKEY_DIALOG_IN_PROGRESS" -> "INSTALL_FAILED"
      [] OTHER -> DialogErrorCode(code)

\* The value a dialog resolves to: the class of its callback.
ProcessCallback(u) ==
    CASE call.op = "openCertificateManagerDialog" -> "true"
      [] call.op \in {"openInstallCertificateDialog", "openAuthorizeDialog"} -> u
      [] OTHER -> "null"

Settle(err, value) == promise' = "settled" /\ See("promise", err, value)
Throw(err) ==
    /\ See("throw", err, "none") /\ pc' = "over"
    /\ promise' = IF promise = "pending" THEN "dropped" ELSE promise

-----------------------------------------------------------------------------
NoDialog == ends = <<>> /\ modal = "none" /\ alreadyCallback = FALSE /\ uri = "empty"
NoSa == SA!Init /\ queue = <<>> /\ ukeyResult = "none"

DialogInit == device \in Devices /\ via = "none" /\ NoDialog /\ NoSa

CallDialog == Invoke(DialogCalls, "check") /\ UNCHANGED <<device, via, dialog, sa>>

\* supportsCACertDialog only looks at the device.
CMNapiSupportsCACertDialog ==
    /\ pc = "check" /\ call.op = "supportsCACertDialog"
    /\ See("return", "none", IF IsEnableCACertDialog(device).ok THEN "true" ELSE "false")
    /\ pc' = "over"
    /\ UNCHANGED <<device, call, via, promise, dialog, sa>>

\* A device without dialogs resolves what returns no value to null.
Check ==
    /\ pc = "check" /\ call.op # "supportsCACertDialog"
    /\ LET failing == Failing(Checks(call.op, call.argv, device))
       IN  \/ \E c \in failing :
                 IF c.error = "void" THEN pc' = "over" /\ Settle("none", "null") ELSE Throw(c.error)
           \/ /\ failing = {}
              /\ pc' = IF call.op \in {"openUkeyAuthDialog", "openAuthDialogForUkeyProvider"} THEN "query" ELSE "start"
              /\ promise' = IF pc' = "start" THEN "pending" ELSE "none"
              /\ UNCHANGED seen
    /\ via' = IF pc' = "start" THEN "extension" ELSE via
    /\ UNCHANGED <<device, call, dialog, sa>>

\* The driver of a UKey says which ability asks for its PIN, or is unknown.
Abilities == {"unknown", "uiability", "uiextension"}

\* The ability of the driver is started by an action of its own; whatever else
\* the driver has, the certificate manager shows its dialog.
GetCustomerAuthCertWant(ability) == IF ability = "uiability" THEN "ACTION_UKEY_PIN_AUTH" ELSE "none"
StartUkeyPinAbility(action) == IF action = "ACTION_UKEY_PIN_AUTH" THEN "ability" ELSE "extension"
DirectLaunchUkeyAuthDialog(ability) == StartUkeyPinAbility(GetCustomerAuthCertWant(ability))

\* The service opens the dialog of a driver with an extension, on a PC; else
\* the driver is queried again and the dialog is started from here.
TryOpenUkeyAuthDialogViaSa ==
    /\ pc = "query" /\ call.op = "openUkeyAuthDialog"
    /\ \E first, second \in Abilities :
          via' = IF first = "uiextension" /\ device.pc THEN "sa"
                 ELSE DirectLaunchUkeyAuthDialog(second)
    /\ pc' = "start" /\ promise' = "pending"
    /\ UNCHANGED <<device, call, dialog, sa, seen>>

OpenAuthDialogForUkeyProvider ==
    /\ pc = "query" /\ call.op = "openAuthDialogForUkeyProvider"
    /\ via' = "sa" /\ pc' = "start" /\ promise' = "pending"
    /\ UNCHANGED <<device, call, dialog, sa, seen>>

-----------------------------------------------------------------------------
(* A dialog shown from here: its context may have no UI, and it may not     *)
(* start; then the call throws, and nobody is given the promise.            *)
StartUIExtensionAbility ==
    /\ pc = "start" /\ via = "extension"
    /\ \/ ~device.basic /\ Throw("HAS_NO_PERMISSION") /\ UNCHANGED modal
       \/ device.basic /\ Throw("PARAM_ERROR") /\ UNCHANGED modal
       \/ device.basic /\ pc' = "open" /\ modal' = "shown" /\ UNCHANGED <<promise, seen>>
    /\ UNCHANGED <<device, call, via, ends, alreadyCallback, uri, sa>>

StartUIAbility ==
    /\ pc = "start" /\ via = "ability"
    /\ \/ ~device.basic /\ Throw("HAS_NO_PERMISSION")
       \/ device.basic /\ Throw("INSTALL_FAILED")
       \/ device.basic /\ pc' = "open" /\ UNCHANGED <<promise, seen>>
    /\ UNCHANGED <<device, call, via, dialog, sa>>

\* Seeded fault: nothing remembers that there was an answer.
SetErrorCode_Again(code, u) ==
    /\ UNCHANGED alreadyCallback
    /\ IF modal = "shown" THEN modal' = "closed" ELSE UNCHANGED modal
    /\ IF code = "0" THEN Settle("none", ProcessCallback(u)) ELSE Settle(DialogErrorCode(code), "undefined")

\* Only the first event answers; it closes the dialog.
SetErrorCode(code, u) ==
    IF alreadyCallback THEN UNCHANGED <<alreadyCallback, promise, seen, modal>>
    ELSE /\ alreadyCallback' = TRUE
         /\ modal' = IF modal = "shown" THEN "closed" ELSE modal
         /\ IF code = "0" THEN Settle("none", ProcessCallback(u)) ELSE Settle(DialogErrorCode(code), "undefined")

End(kind, code, u) ==
    /\ pc = "open" /\ (Len(ends) < MaxEnds \/ kind = "destroy")
    /\ ends' = Append(ends, [kind |-> kind, code |-> code, uri |-> u])
    /\ UNCHANGED <<device, call, via, sa>>

OnRelease(code) ==
    /\ via = "extension" /\ End("release", code, uri)
    /\ SetErrorCode(code, uri) /\ UNCHANGED <<pc, uri>>

OnError(code) ==
    /\ via = "extension" /\ code # "0" /\ End("error", code, uri)
    /\ SetErrorCode(code, uri) /\ UNCHANGED <<pc, uri>>

\* An ability has one result, and with it is over.
OnResult(code) ==
    /\ via \in {"extension", "ability"} /\ End("result", code, uri)
    /\ SetErrorCode(code, uri) /\ UNCHANGED uri
    /\ pc' = IF via = "ability" THEN "over" ELSE pc

OnReceive(u) ==
    /\ via = "extension" /\ End("receive", "0", u)
    /\ uri' = IF call.op \in {"openInstallCertificateDialog", "openAuthorizeDialog"} THEN u ELSE uri
    /\ SetErrorCode("0", uri') /\ UNCHANGED pc

\* Only the certificate manager's own dialog takes this for an answer.
OnDestroy ==
    /\ via = "extension" /\ End("destroy", "0", uri)
    /\ IF call.op = "openCertificateManagerDialog" THEN SetErrorCode("0", uri)
       ELSE UNCHANGED <<alreadyCallback, modal, promise, seen>>
    /\ pc' = "over" /\ UNCHANGED uri

-----------------------------------------------------------------------------
(* A dialog the service shows.                                              *)
SettleSaResult(code) ==
    IF code = "0" THEN Settle("none", "undefined") ELSE Settle(GenerateUkeyResultError(code), "undefined")

\* Without memory for the context, or without a function, the promise is
\* rejected before the service is asked, and no context is left.
CreateUkeyResultTsfn ==
    /\ pc = "start" /\ via = "sa" /\ ukeyResult = "none"
    /\ \/ ukeyResult' = "live" /\ UNCHANGED <<pc, promise, seen>>
       \/ pc' = "over" /\ Settle("GENERIC", "undefined") /\ UNCHANGED ukeyResult
    /\ UNCHANGED <<device, call, via, dialog, service, queue>>

\* Seeded fault: the error of the service is not passed on.
CmOpenUkeyAuthDialogRefused_Silent(code) ==
    /\ SA!Refuse("dialog") \/ SA!Fail("dialog")
    /\ UNCHANGED <<promise, seen>>
    /\ ukeyResult' = "released"

\* The call to the service, which may answer before it returns.  An error
\* rejects the promise and releases the function, whatever was queued.
CmOpenUkeyAuthDialogRefused(code) ==
    /\ SA!Refuse("dialog") \/ SA!Fail("dialog")
    /\ SettleSaResult(code)
    /\ ukeyResult' = "released"

CmOpenUkeyAuthDialog ==
    /\ pc = "start" /\ via = "sa" /\ ukeyResult = "live" /\ pc' = "open"
    /\ \/ SA!Accept("dialog") /\ UNCHANGED <<promise, seen, ukeyResult>>
       \/ \E code \in EndCodes \ {"0"} : CmOpenUkeyAuthDialogRefused(code)
    /\ UNCHANGED <<device, call, via, dialog, queue>>

\* The client has taken the result and is about to pass it on.
ResultIsOnItsWay ==
    /\ pc \in {"start", "open", "over"} /\ via = "sa" /\ ukeyResult # "none"
    /\ SA!Start("dialog")
    /\ UNCHANGED <<device, call, pc, via, promise, dialog, queue, ukeyResult, seen>>

\* On the thread of the answer: it is written into the context, whether that
\* is still there or not, and queued for JavaScript.
UkeyAuthDialogResultCallback(code) ==
    /\ pc \in {"start", "open", "over"} /\ via = "sa"
    /\ SA!Answer("dialog")
    /\ \/ ukeyResult \in {"live", "released"} /\ queue' = Append(queue, code) /\ UNCHANGED ukeyResult
       \/ ukeyResult \in {"freed", "used"} /\ ukeyResult' = "used" /\ UNCHANGED queue
    /\ UNCHANGED <<device, call, pc, via, promise, dialog, seen>>

\* JavaScript is back and runs what was queued.  The function is released
\* after that; a second release changes nothing.
UvTsfnCallback ==
    /\ pc = "open" /\ queue # <<>>
    /\ SettleSaResult(Head(queue))
    /\ queue' = Tail(queue) /\ ukeyResult' = "released"
    /\ UNCHANGED <<device, call, pc, via, dialog, service>>

\* A function that is released ends when its queue is empty.
UvTsfnFinalize ==
    /\ pc = "open" /\ ukeyResult = "released" /\ queue = <<>>
    /\ ukeyResult' = "freed" /\ pc' = "over"
    /\ UNCHANGED <<device, call, via, promise, dialog, service, queue, seen>>

\* JavaScript is going away: what is queued settles nothing, and the context is
\* freed whether the answer came or not.
JavaScriptIsGone ==
    /\ pc = "open" /\ via = "sa"
    /\ SA!Lose("dialog") /\ queue' = <<>> /\ ukeyResult' = "freed" /\ pc' = "over"
    /\ UNCHANGED <<device, call, via, promise, dialog, seen>>

ReturnFromDialog ==
    /\ GiveBack("over")
    /\ via' = "none"
    /\ ends' = <<>> /\ modal' = "none" /\ alreadyCallback' = FALSE /\ uri' = "empty"
    /\ returned' = [c \in {"dialog"} |-> "no"] /\ started' = {} /\ answered' = {} /\ lost' = {}
    /\ queue' = <<>> /\ ukeyResult' = "none"
    /\ UNCHANGED device

DialogNext ==
    \/ CallDialog
    \/ CMNapiSupportsCACertDialog \/ Check
    \/ TryOpenUkeyAuthDialogViaSa \/ OpenAuthDialogForUkeyProvider
    \/ StartUIExtensionAbility \/ StartUIAbility
    \/ \E code \in EndCodes : OnRelease(code) \/ OnError(code) \/ OnResult(code)
    \/ \E u \in {"empty", "uri"} : OnReceive(u)
    \/ OnDestroy
    \/ CreateUkeyResultTsfn \/ CmOpenUkeyAuthDialog \/ ResultIsOnItsWay
    \/ \E code \in EndCodes : UkeyAuthDialogResultCallback(code)
    \/ UvTsfnCallback \/ UvTsfnFinalize \/ JavaScriptIsGone
    \/ ReturnFromDialog

-----------------------------------------------------------------------------
\* The places of the events that answer.
Telling == {i \in DOMAIN ends : ends[i].kind # "destroy" \/ call.op = "openCertificateManagerDialog"}

\* The first thing a dialog says is the answer and takes it off the screen;
\* whatever it says afterwards, and in whatever order, changes nothing: not
\* the error, nor the uri that is resolved to (SetErrorCode and
\* SendMessageBack, cm_napi_dialog_callback.cpp:42-124).
FirstEndAnswers ==
    /\ via # "sa" => Len(seen) <= 1
    /\ via \in {"extension", "ability"} /\ pc \in {"open", "over"} /\ promise # "dropped" =>
           /\ promise = "settled" <=> Telling # {}
           /\ \A i \in Telling : (\A j \in Telling : i <= j) =>
                LET first == ends[i]
                IN  /\ modal # "shown"
                    /\ seen[1].err = IF first.code = "0" THEN "none" ELSE DialogErrorCode(first.code)
                    /\ first.code = "0" => seen[1].value = ProcessCallback(first.uri)

\* The service died under the call, which returned an error.
Failed == via = "sa" /\ returned["dialog"] = "failed"
Gone == via = "sa" /\ "dialog" \in lost

\* A dialog that is over leaves no promise pending, nothing queued and no
\* result context: a promise that JavaScript holds was settled, once, whichever
\* way the dialog was shown and wherever it failed, and no result touches a
\* context that was freed.  There are three exceptions.  A dialog that is
\* destroyed without another word settles nothing (only the certificate
\* manager's own counts that as an answer), and neither does the end of
\* JavaScript.  And when the service dies under the call, the error settles the
\* promise, and a result that the client had taken before settles it again, or
\* comes when the context is freed: "the result callback never fires" of
\* cm_napi_open_ukey_auth_dialog.cpp:450 does not hold then.
NobodyWaits ==
    pc = "over" =>
        /\ ukeyResult \notin {"live", "released"} /\ queue = <<>>
        /\ \/ promise \in {"none", "settled", "dropped"} /\ Len(seen) = 1
           \/ via = "extension" /\ Telling = {}
           \/ Gone /\ seen = <<>>
           \/ Failed /\ promise = "settled" /\ Len(seen) = 2
        /\ ukeyResult = "used" => Failed \/ Gone
        /\ promise = "dropped" => seen[1].how = "throw"
=============================================================================
