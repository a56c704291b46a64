----------------------------- MODULE MCRunLoop -----------------------------
(* A test case of two LTs, one for which PTS instances are missing, tried  *)
(* twice, and one of one LT, which meets what the first left over.  The    *)
(* handlers are those that ask the IUT and may be slow: every other does a *)
(* part of what they do.                                                   *)
EXTENDS RunLoop

WID == INSTANCE WidHandlers

(* The file and the number of a WID make no difference.                     *)
Class(h) == [asks |-> h.asks, waits |-> h.waits, found |-> TRUE]

(* A file has one handler for a WID.                                        *)
ASSUME OneHandler ==
    Cardinality({<<h.file, h.wid>> : h \in WID!WidHandlers}) = Cardinality(WID!WidHandlers)

MCWidth == <<2, 3, 1>>
MCRetry == <<0, 1, 0>>
MCHandlers == {Class(h) : h \in {k \in WID!WidHandlers : k.asks /\ k.waits = "slow"}}
============================================================================
