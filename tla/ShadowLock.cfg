SPECIFICATION Spec
CONSTANTS
    a = a
    b = b
    Process <- MCProcess
    MaxInodes = 3
INVARIANTS
    OneOwner
CHECK_DEADLOCK FALSE
