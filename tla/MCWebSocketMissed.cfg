\* Several events may be dispatched before any job runs.
SPECIFICATION Spec
CONSTANTS
    Calls = {}
    Subs = {sub1}
    Conns = {ws1, ws2}
    SubIds = {id1}
    Undefined = Undefined
    MaxNotify = 1
    EventsWaitForJobs = FALSE
    CallsInOnError = FALSE
    Faults = {}
INVARIANTS
    NoNotificationMissed
\* The system stops when every call was made and answered.
CHECK_DEADLOCK FALSE
