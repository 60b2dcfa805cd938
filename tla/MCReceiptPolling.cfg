\* Odd and even phases of the loop against the deadline, a timeout of zero
\* and one shorter than the interval.
SPECIFICATION FairSpec
CONSTANTS
    PollInterval = 2
    Timeouts = {0, 1, 4, 6, 7}
    MaxLag = 1
    Horizon = 14
INVARIANTS
    MinedInTimeIsFound
    OverrunBounded
    FoundPromptly
PROPERTIES
    WaitSettles
\* The call has ended and the clock is at the horizon.
CHECK_DEADLOCK FALSE
