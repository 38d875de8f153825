\* Every function of the SDK, from the caller to the handler and back.
CONSTANTS
    Callers <- MCCallers
    Calls <- MCCalls
SPECIFICATION Spec
INVARIANTS
    ArgumentsArrive
    NotRefusedForItsForm
    SuccessIsReal
    OnlyTheSystemManages
    UserIsolation
    ListedUsers
    WipeStaysInBlock
