\* A connection attempt may fail: the socket closes without having opened.
SPECIFICATION FairSpec
CONSTANTS
    Calls = {call1}
    Subs = {sub1}
    Conns = {ws1, ws2}
    SubIds = {id1}
    Undefined = Undefined
    MaxNotify = 1
    EventsWaitForJobs = TRUE
    CallsInOnError = FALSE
    Faults = {"closeBeforeOpen"}
PROPERTIES
    EveryCallSettles
\* The system stops when every call was made and answered.
CHECK_DEADLOCK FALSE
