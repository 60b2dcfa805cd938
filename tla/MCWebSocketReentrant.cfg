\* An onError may subscribe again.
SPECIFICATION FairSpec
CONSTANTS
    Calls = {}
    Subs = {sub1, sub2}
    Conns = {ws1, ws2}
    SubIds = {id1, id2}
    Undefined = Undefined
    MaxNotify = 1
    EventsWaitForJobs = TRUE
    CallsInOnError = TRUE
    Faults = {}
PROPERTIES
    EverySubscribeSettles
\* The system stops when every call was made and answered.
CHECK_DEADLOCK FALSE
