------------------------------- MODULE MCSynch -------------------------------
(* Small instances of Synch.                                               *)
EXTENDS Synch

CONSTANTS lt1, lt2, lt3, e1, e2, w1, w2

(* CSIP/CL/SPE/BI-01-C: an element of all three LTs, then one of two.      *)
PointsThree ==
    (e1 :> <<[lt |-> lt1, wid |-> w1], [lt |-> lt2, wid |-> w1], [lt |-> lt3, wid |-> w1]>>)
    @@ (e2 :> <<[lt |-> lt2, wid |-> w2], [lt |-> lt1, wid |-> w2]>>)

PointsTwo ==
    (e1 :> <<[lt |-> lt1, wid |-> w1], [lt |-> lt2, wid |-> w1]>>)
    @@ (e2 :> <<[lt |-> lt2, wid |-> w2], [lt |-> lt1, wid |-> w1]>>)

TableOne == <<e1>>
TableBoth == <<e1, e2>>
=============================================================================
