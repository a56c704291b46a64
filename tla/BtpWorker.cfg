CONSTANTS
    a = a
    b = b
    Caller = {a, b}
    Command <- MCCommand
    NoCommand = NoCommand
    NoOp = NoOp
    NoCaller = NoCaller
    EventSvc = {"GAP"}
    MaxSent = 2
    MaxEvents = 1
SPECIFICATION Spec
INVARIANTS Pairing GetFinds ResponseOrder BtpInv
PROPERTY LockReturned
CHECK_DEADLOCK FALSE
