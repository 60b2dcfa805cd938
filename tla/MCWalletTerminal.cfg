\* A transaction with the terminal context of the README's example.
SPECIFICATION Spec
CONSTANTS
    Calls = {call1, call2}
    Parameters <- TerminalParameters
    Undefined = Undefined
    Faulty = FALSE
INVARIANT
    TerminalContextCarried
CHECK_DEADLOCK FALSE
