CONSTANTS
    Modes = {"tty", "process"}
    MaxCases = 3
    MaxResets = 1
    MaxFaults = 3
SPECIFICATION Spec
INVARIANTS IutInv
PROPERTIES FreshIut Ends
CHECK_DEADLOCK FALSE
