\* A socket that may dispatch several events before any job runs.
SPECIFICATION Spec
CONSTANTS
    Calls = {call1}
    Subs = {sub1, sub2}
    Conns = {ws1, ws2}
    SubIds = {id1, id2}
    Undefined = Undefined
    MaxNotify = 1
    EventsWaitForJobs = FALSE
    CallsInOnError = TRUE
    Faults = {"closeBeforeOpen", "factoryThrows", "sendThrows", "onErrorThrows"}
SYMMETRY Symmetry
INVARIANTS
    TypeOK
    OneLiveSocket
    ResponseMatchesRequest
    NotificationsReachOwner
    NoOrphanedRequest
PROPERTIES
    SilentAfterEnd
    ImplementsSession
\* The system stops when every call was made and answered.
CHECK_DEADLOCK FALSE
