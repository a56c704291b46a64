\* Two LT threads, one store of each way to read (see MCStackEvents); two test cases, a
\* clean-up of the stack and an initialisation of the layer in each.
CONSTANTS
    LTs = {lt1, lt2}
    Keys = {k1, k2}
    Values = {v1}
    Watched <- MCWatched
    MaxEvents = 2
    MaxCases = 2
    MaxCleanUps = 1
    MaxObjects = 3
    MaxWaits = 2
SPECIFICATION Spec
SYMMETRY Alike
INVARIANTS StackInv Conserved PoppedInOrder OfThisCase
PROPERTIES HonestTimeout
CHECK_DEADLOCK FALSE
