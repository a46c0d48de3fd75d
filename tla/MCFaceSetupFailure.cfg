CONSTANTS
    Handles = {"h1"}
    Requests = {"q1"}
    MaxChanges = 1
SPECIFICATION Spec
INVARIANT FailureIsFinal
CHECK_DEADLOCK FALSE
