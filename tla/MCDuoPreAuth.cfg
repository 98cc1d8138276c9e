\* Every answer with up to two devices and every capability list.
CONSTANTS
    PossibleMethods <- MCPossibleMethods
    auth = "auth"
    Responses <- MCResponses
    CallFailed = CallFailed
    NoCall = NoCall
SPECIFICATION Spec
INVARIANT OfferedDevicesAreSupported
