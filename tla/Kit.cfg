\* One call at a time; lengths are 0 to 3 against limits of 1 and 2.
SPECIFICATION Spec
CONSTANTS
    Type <- MCType
    Length <- MCLength
    Props <- MCProps
    Elements <- MCElements
    CM_MAX_DATA_LEN = 2
    MAX_LEN_UKEY_CERT_IMPORT = 1
    MAX_LEN_URI = 1
    CM_UKEY_ABILITY_NAME_MAX_LEN = 1
    CM_UKEY_AUTH_CUSTOM_DATA_MAX_SIZE = 1
    CRITERIA_MAX_SIZE = 2
    MaxEnds = 3
    Calls <- MCCalls
    Codes <- MCCodes
    DialogCalls <- MCDialogCalls
    Devices <- MCDevices
    EndCodes <- MCEndCodes
INVARIANTS
    OneOutcome
    SuccessIsDone
    FirstEndAnswers
    NobodyWaits
