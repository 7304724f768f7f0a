SPECIFICATION LiveSpec
CONSTANTS
    Clients = {c1, c2}
    Limit = 2
    MaxRequests = 5
INVARIANTS
    TypeOK
    NothingLostOrDuplicated
    SNsAreUnique
    NoStaleTimeOut
PROPERTIES
    EventuallyPackaged
    ImplementsRequestLog
