CONSTANTS
    lt1 = lt1
    lt2 = lt2
    lt3 = lt3
    e1 = e1
    e2 = e2
    w1 = w1
    w2 = w2
    LT = {lt1,lt2}
    Adder = lt1
    Other = {callback}
    Elem = {e1, e2}
    Wid = {w1, w2}
    Points <- PointsTwo
    Table <- TableBoth
    MaxCancels = 1
    NoLT = NoLT
    NoElem = NoElem
    NoWid = NoWid
SPECIFICATION Spec
INVARIANT NobodyLeftBehind
CHECK_DEADLOCK FALSE
