\* A socket that lets jobs run between two events (a browser).  No symmetry:
\* liveness is checked too.
SPECIFICATION FairSpec
CONSTANTS
    Calls = {}
    Subs = {sub1, sub2}
    Conns = {ws1, ws2, ws3}
    SubIds = {id1, id2}
    Undefined = Undefined
    MaxNotify = 1
    EventsWaitForJobs = TRUE
    CallsInOnError = TRUE
    Faults = {"closeBeforeOpen", "factoryThrows", "sendThrows"}
INVARIANTS
    ActiveSubscriptionIsWired
    NoNotificationMissed
PROPERTIES
    CallsSettle
    SubscribesSettle
\* The system stops when every call was made and answered.
CHECK_DEADLOCK FALSE
