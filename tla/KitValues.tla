------------------------------ MODULE KitValues ------------------------------
(***************************************************************************)
(* The JavaScript values the Node-API kit is given, and the parsers of     *)
(* cm_napi_common.cpp and of the dialogs that turn them into C values.  A  *)
(* value is a name; Type, Length and Props say what it looks like to the   *)
(* parsers.  A parser returns the set of what it read: one value, or none  *)
(* when it refuses, so that the parameters of an API read as a set of      *)
(* records.                                                                *)
(***************************************************************************)
EXTENDS Integers, Sequences

CONSTANTS
    Type,       \* the napi type of every value
    Length,     \* the length of strings, bytes and arrays: none, short or above a limit
    Props,      \* the named properties of every object
    CM_MAX_DATA_LEN,            \* the longest string or array that is read
    MAX_LEN_UKEY_CERT_IMPORT    \* the longest certificate a UKey takes

ASSUME ValuesAssumption ==
    /\ MAX_LEN_UKEY_CERT_IMPORT \in 1..CM_MAX_DATA_LEN
    /\ DOMAIN Length \subseteq DOMAIN Type
    /\ DOMAIN Props \subseteq DOMAIN Type
    /\ "undefined" \in DOMAIN Type /\ Type["undefined"] = "undefined"
    /\ "none" \notin DOMAIN Type   \* it stands for a callback that was not given

-----------------------------------------------------------------------------
\* An argument the caller left out is undefined.
Arg(argv, i) == IF i <= Len(argv) THEN argv[i] ELSE "undefined"

Arity(argv, min, max) == Len(argv) \in min..max

\* An array of bytes is an object too.
IsObject(v) == Type[v] \in {"object", "bytes"}
HasProps(v) == Type[v] \notin {"null", "undefined"}
Has(v, p) == v \in DOMAIN Props /\ p \in DOMAIN Props[v]
Prop(v, p) == IF Has(v, p) THEN Props[v][p] ELSE "undefined"

ParseUint32(v) == {x \in {v} : Type[x] = "number"}
ParseBoolean(v) == {x \in {v} : Type[x] = "boolean"}
ParseStringOrEmpty(v) == {x \in {v} : Type[x] = "string" /\ Length[x] <= CM_MAX_DATA_LEN}
ParseString(v) == {x \in ParseStringOrEmpty(v) : Length[x] # 0}
ParsePasswd(v) == ParseStringOrEmpty(v)
ParseCertAlias(v) == ParseStringOrEmpty(v)

\* The copy of an array of length 0 fails: memcpy_s refuses it.
GetUint8Array(v) == {x \in {v} : Type[x] = "bytes" /\ Length[x] \in 1..CM_MAX_DATA_LEN}

\* No callback at all is as good as a callback.
GetCallback(v) ==
    IF ~HasProps(v) THEN {"none"} ELSE {x \in {v} : Type[x] = "function"}

\* An enumerator among those the API knows.
OneOf(v, names) == ParseUint32(v) \cap names

IsValidCertType == {"CM_CA_CERT_SYSTEM", "CM_CA_CERT_USER"}
IsValidCertScope == {"CM_CURRENT_USER", "CM_GLOBAL_USER"}
IsValidCertAlg == {"CM_ALG_INTERNATIONAL", "CM_ALG_SM"}

\* The two checks that getUkeyCertificateList and getUkeyCertificate make first.
CheckUkeyParamsType(argv) == Type[Arg(argv, 1)] = "string" /\ Type[Arg(argv, 2)] # "null"

-----------------------------------------------------------------------------
(* What JavaScript sees of an error code of the SDK.                        *)
NATIVE_CODE_TO_JS_CODE_MAP ==
    [CMR_ERROR_NOT_FOUND |-> "NOT_FOUND",
     CMR_ERROR_NOT_EXIST |-> "NOT_FOUND",
     CMR_ERROR_INVALID_CERT_FORMAT |-> "INVALID_CERT_FORMAT",
     CMR_ERROR_INSUFFICIENT_DATA |-> "INVALID_CERT_FORMAT",
     CMR_ERROR_INVALID_ARGUMENT |-> "PARAM_ERROR",
     CMR_ERROR_PERMISSION_DENIED |-> "HAS_NO_PERMISSION",
     CMR_ERROR_NOT_SYSTEMP_APP |-> "NOT_SYSTEM_APP",
     CMR_ERROR_MAX_CERT_COUNT_REACHED |-> "MAX_CERT_COUNT_REACHED",
     CMR_ERROR_AUTH_CHECK_FAILED |-> "NO_AUTHORIZATION",
     CMR_ERROR_DEVICE_ENTER_ADVSECMODE |-> "DEVICE_ENTER_ADVSECMODE",
     CMR_ERROR_STORE_PATH_NOT_SUPPORTED |-> "STORE_PATH_NOT_SUPPORTED",
     CMR_ERROR_PASSWORD_IS_ERR |-> "PASSWORD_IS_ERROR",
     CMR_ERROR_UKEY_GENERAL_ERROR |-> "ACCESS_UKEY_SERVICE_FAILED",
     CMR_ERROR_UKEY_DEVICE_SUPPORT |-> "CAPABILITY_NOT_SUPPORTED"]

TranformErrorCode(code) ==
    IF code \in DOMAIN NATIVE_CODE_TO_JS_CODE_MAP THEN NATIVE_CODE_TO_JS_CODE_MAP[code]
    ELSE "INNER_FAILURE"
=============================================================================
