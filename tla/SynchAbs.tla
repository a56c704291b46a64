------------------------------ MODULE SynchAbs ------------------------------
(***************************************************************************)
(* What a synch element promises to the LT threads that take part in it:   *)
(* nobody handles its WID before everybody is there, the WIDs are handled  *)
(* one at a time in the order of the element's points, and nobody goes on  *)
(* before everybody has handled his.  A thread may drop out at any moment  *)
(* (a cancelled synchronisation, a failed handler); the others must then   *)
(* still never break the order.                                            *)
(***************************************************************************)
EXTENDS Integers, Sequences

CONSTANTS LT, Elem, Points

Party(e) == {Points[e][k].lt : k \in 1..Len(Points[e])}
Earlier(e, t) ==
    {Points[e][j].lt : j \in {i \in 1..Len(Points[e]) :
        \E k \in 1..Len(Points[e]) : i < k /\ Points[e][k].lt = t}}

VARIABLES
    phase,   \* phase[e][t]: where t is with respect to e
    ran      \* ran[e]: the LTs that have handled their WID in this round

vars == <<phase, ran>>

Init ==
    /\ phase = [e \in Elem |-> [t \in LT |-> "out"]]
    /\ ran = [e \in Elem |-> {}]

Move(e, t, from, to) ==
    /\ phase[e][t] = from
    /\ phase' = [phase EXCEPT ![e][t] = to]

(* The last to arrive opens a new round.                                   *)
Arrive(e, t) ==
    /\ t \in Party(e)
    /\ Move(e, t, "out", "arrived")
    /\ ran' = IF \A u \in Party(e) \ {t} : phase[e][u] = "arrived"
              THEN [ran EXCEPT ![e] = {}]
              ELSE ran

Begin(e, t) ==
    /\ \A u \in Party(e) : phase[e][u] # "out"
    /\ Earlier(e, t) \subseteq ran[e]
    /\ t \notin ran[e]
    /\ \A u \in Party(e) : phase[e][u] # "running"
    /\ Move(e, t, "arrived", "running")
    /\ UNCHANGED ran

Finish(e, t) ==
    /\ Move(e, t, "running", "finished")
    /\ ran' = [ran EXCEPT ![e] = @ \cup {t}]

Leave(e, t) ==
    /\ ran[e] = Party(e)
    /\ Move(e, t, "finished", "out")
    /\ UNCHANGED ran

Drop(e, t) ==
    /\ phase[e][t] # "dropped"
    /\ phase' = [phase EXCEPT ![e][t] = "dropped"]
    /\ UNCHANGED ran

Next == \E e \in Elem, t \in LT :
            Arrive(e, t) \/ Begin(e, t) \/ Finish(e, t) \/ Leave(e, t) \/ Drop(e, t)

Spec == Init /\ [][Next]_vars
=============================================================================
