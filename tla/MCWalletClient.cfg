\* Two calls of every kind at once, with requests that fail.
SPECIFICATION Spec
CONSTANTS
    Calls = {call1, call2}
    Parameters <- MCParameters
    Undefined = Undefined
    Faulty = TRUE
SYMMETRY Symmetry
INVARIANTS
    SignedIsSent
    GivenNonceIsUsedOnce
    OnlyOverlapCollides
    OutcomeIsTrue
\* The system stops when every call has ended.
CHECK_DEADLOCK FALSE
