----------------------------- MODULE SynchProofs -----------------------------
(***************************************************************************)
(* Proofs about Synch, for any number of LTs, elements and cancels, and    *)
(* that it implements SynchAbs.                                            *)
(***************************************************************************)
EXTENDS Synch, SequenceTheorems, TLAPS

USE DEF vars, ltVars, elemVars, listVars, cancelVars

(* Removing one item of a list of elements leaves a list of elements.      *)
LEMMA RemoveAtType ==
    ASSUME NEW S, NEW s \in Seq(S), NEW i \in 1..Len(s)
    PROVE  RemoveAt(s, i) \in Seq(S)
BY SubSeqProperties, ConcatProperties DEF RemoveAt

(* The parties of an element are LTs.                                      *)
LEMMA PartyType == \A e \in Elem : Party(e) \subseteq LT
<1> SUFFICES ASSUME NEW e \in Elem, NEW k \in 1..Len(Points[e])
             PROVE  Points[e][k].lt \in LT
    BY DEF Party
<1>1. Points[e][k] \in Point
    BY PointsAssumption, ElementOfSeq
<1> QED
    BY <1>1 DEF Point

(* An iterator stays an iterator when it advances.                         *)
LEMMA AdvanceType ==
    ASSUME iter \in [Actor -> [list : Nat, pos : Nat]], NEW a \in Actor, Advance(a)
    PROVE  iter' \in [Actor -> [list : Nat, pos : Nat]]
<1>1. iter[a] \in [list : Nat, pos : Nat]
    OBVIOUS
<1>2. [list |-> iter[a].list, pos |-> iter[a].pos + 1] \in [list : Nat, pos : Nat]
    BY <1>1
<1> QED
    BY <1>2 DEF Advance

(* The item under an iterator that is not at the end of its list.          *)
LEMMA ItemType ==
    ASSUME TypeOK, NEW a \in Actor, iter[a].list \in 1..Len(heap),
           iter[a].pos \in Nat \ {0}, iter[a].pos <= Len(Items(a))
    PROVE  Items(a)[iter[a].pos] \in Elem
<1>1. Items(a) \in Seq(Elem)
    BY ElementOfSeq DEF TypeOK, Items
<1> QED
    BY <1>1, ElementOfSeq, LenProperties

(* The invariant holds initially.                                          *)
LEMMA InitInv == Init => Inv
<1> SUFFICES ASSUME Init PROVE Inv
    OBVIOUS
<1>1. TypeOK
    <2>1. heap \in Seq(Seq(Elem)) /\ table \in 1..Len(heap)
        BY DEF Init
    <2>2. added \in 0..Len(Table) /\ cancels \in [Actor -> 0..MaxCancels]
        BY BoundAssumption, TableAssumption, LenProperties DEF Init
    <2> QED
        BY <2>1, <2>2 DEF Init, TypeOK, Barrier, NewBarrier, NoIter, PC
<1>2. CursorsOK
    BY AdderAssumption DEF Init, CursorsOK, IterOK, CurOK, AtOK, CancelOK, InElem, Inside, Actor
<1>3. WaitingOK
    BY DEF Init, WaitingOK, StartWaitingOK, EndWaitingOK, NewBarrier
<1>4. FlagsOK
    BY DEF Init, FlagsOK, GenuineOK, AbortFirst
<1>5. ProgressOK
    BY DEF Init, ProgressOK, UnfinishedOK, LoopOK, CheckOK, ActiveOK, Inside
<1>6. TurnOrder
    BY DEF Init, TurnOrder, Handling
<1>7. OwnPointDone
    BY DEF Init, OwnPointDone
<1>8. MeetingOK
    BY AdderAssumption DEF Init, MeetingOK, RanOK, TogetherOK, FinishedOK, PartingOK,
        Entered, Finished, Parting, Inside
<1> QED
    BY <1>1, <1>2, <1>3, <1>4, <1>5, <1>6, <1>7, <1>8 DEF Inv

(* Every step preserves the types.                                         *)
LEMMA TypeStep ==
    TypeOK /\ CursorsOK /\ OwnPointDone /\ [Next]_vars => TypeOK'
<1> SUFFICES ASSUME TypeOK, CursorsOK, OwnPointDone, [Next]_vars PROVE TypeOK'
    OBVIOUS
<1> USE DEF Barrier, PC, Goto
<1>1. ASSUME NEW t \in LT, AddSynchElement(t) PROVE TypeOK'
    BY <1>1, TableAssumption, AppendProperties DEF TypeOK, AddSynchElement
<1>2. ASSUME NEW t \in LT, PreRunDone(t) PROVE TypeOK'
    BY <1>2 DEF TypeOK, PreRunDone
<1>3. ASSUME NEW t \in LT, AwaitStep(t) \/ StoppedExternally(t) \/ Pass(t) PROVE TypeOK'
    BY <1>3 DEF TypeOK, AwaitStep, StoppedExternally, Pass
<1>4. ASSUME NEW t \in LT, RunWid(t) PROVE TypeOK'
    <2>1. iter' \in [Actor -> [list : Nat, pos : Nat]]
        <3>1. [list |-> table, pos |-> 1] \in [list : Nat, pos : Nat]
            BY DEF TypeOK
        <3> QED
            BY <1>4, <3>1 DEF TypeOK, RunWid, Actor
    <2>2. wid' \in [LT -> Wid \cup {NoWid}] /\ pc' \in [LT -> PC]
        BY <1>4 DEF TypeOK, RunWid
    <2> QED
        BY <1>4, <2>1, <2>2 DEF TypeOK, RunWid
<1>5. ASSUME NEW t \in LT, SearchMiss(t) PROVE TypeOK'
    <2>1. iter' \in [Actor -> [list : Nat, pos : Nat]]
        BY <1>5, AdvanceType DEF TypeOK, SearchMiss, Actor
    <2> QED
        BY <1>5, <2>1 DEF TypeOK, SearchMiss
<1>6. ASSUME NEW t \in LT, SearchHit(t) PROVE TypeOK'
    <2>1. Items(t)[iter[t].pos] \in Elem
        <3>1. iter[t].list \in 1..Len(heap) /\ iter[t].pos \in Nat \ {0}
            BY <1>6 DEF CursorsOK, IterOK, SearchHit, Actor
        <3>2. iter[t].pos <= Len(Items(t)) /\ t \in Actor
            BY <1>6 DEF SearchHit, Actor
        <3> QED
            BY <3>1, <3>2, ItemType
    <2> QED
        BY <1>6, <2>1 DEF TypeOK, SearchHit, SearchOver, NoIter, Actor
<1>7. ASSUME NEW t \in LT, SearchEnd(t) PROVE TypeOK'
    BY <1>7 DEF TypeOK, SearchEnd, SearchOver, NoIter, Actor
<1>8. ASSUME NEW t \in LT, EnterStart(t) PROVE TypeOK'
    <2>1. at[t] \in Elem
        BY <1>8 DEF EnterStart, CursorsOK, AtOK, InElem
    <2>2. Enter(start[at[t]], t, Party(at[t])) \in Barrier
        BY <2>1 DEF TypeOK, Enter
    <2>3. start' \in [Elem -> Barrier]
        BY <1>8, <2>1, <2>2 DEF TypeOK, EnterStart
    <2>4. CASE IsLast(start[at[t]], t, Party(at[t]))
        <3>1. /\ done' = [done EXCEPT ![at[t]] = {}]
              /\ ran' = [ran EXCEPT ![at[t]] = {}]
              /\ turn' = [turn EXCEPT ![t] = 1]
              /\ pc' = [pc EXCEPT ![t] = "turn"]
            BY <1>8, <2>4 DEF EnterStart
        <3> QED
            BY <1>8, <2>1, <2>3, <3>1 DEF TypeOK, EnterStart
    <2>5. CASE ~IsLast(start[at[t]], t, Party(at[t]))
        BY <1>8, <2>1, <2>3, <2>5 DEF TypeOK, EnterStart
    <2> QED
        BY <2>4, <2>5
<1>9. ASSUME NEW t \in LT, LeaveStart(t) PROVE TypeOK'
    <2>1. at[t] \in Elem
        BY <1>9 DEF LeaveStart, CursorsOK, AtOK, InElem
    <2>2. Exit(start[at[t]], t) \in Barrier
        BY <2>1 DEF TypeOK, Exit
    <2> QED
        BY <1>9, <2>1, <2>2 DEF TypeOK, LeaveStart
<1>10. ASSUME NEW t \in LT, StartBroken(t) PROVE TypeOK'
    <2>1. at[t] \in Elem
        BY <1>10 DEF StartBroken, CursorsOK, AtOK, InElem
    <2>2. Exit(start[at[t]], t) \in Barrier
        BY <2>1 DEF TypeOK, Exit
    <2> QED
        BY <1>10, <2>1, <2>2 DEF TypeOK, StartBroken
<1>11. ASSUME NEW t \in LT, MyTurn(t) PROVE TypeOK'
    BY <1>11 DEF TypeOK, MyTurn
<1>12. ASSUME NEW t \in LT, PointDone(t) PROVE TypeOK'
    BY <1>12 DEF TypeOK, PointDone
<1>13. ASSUME NEW t \in LT, ReadActivePoint(t) PROVE TypeOK'
    <2>1. at[t] \in Elem
        BY <1>13 DEF ReadActivePoint, CursorsOK, AtOK, InElem, Inside
    <2> QED
        BY <1>13, <2>1 DEF TypeOK, ReadActivePoint
<1>14. ASSUME NEW t \in LT, SetDone(t) PROVE TypeOK'
    <2>1. at[t] \in Elem
        BY <1>14 DEF SetDone, CursorsOK, AtOK, InElem, Inside
    <2>2. mine[t] = t
        BY <1>14 DEF SetDone, OwnPointDone
    <2> QED
        BY <1>14, <2>1, <2>2 DEF TypeOK, SetDone
<1>15. ASSUME NEW t \in LT, EnterEnd(t) PROVE TypeOK'
    <2>1. at[t] \in Elem
        BY <1>15 DEF EnterEnd, CursorsOK, AtOK, InElem
    <2>2. Enter(end[at[t]], t, Party(at[t])) \in Barrier
        BY <2>1 DEF TypeOK, Enter
    <2> QED
        BY <1>15, <2>1, <2>2 DEF TypeOK, EnterEnd
<1>16. ASSUME NEW t \in LT, CheckBroken(t) PROVE TypeOK'
    <2>1. CASE Broken(at[t])
        <3>1. pc' = [pc EXCEPT ![t] = "raised"] /\ turn' = [turn EXCEPT ![t] = 0]
            BY <1>16, <2>1 DEF CheckBroken
        <3> QED
            BY <1>16, <3>1 DEF TypeOK, CheckBroken
    <2>2. CASE ~Broken(at[t])
        <3>1. pc' = [pc EXCEPT ![t] = "turn"]
            BY <1>16, <2>2 DEF CheckBroken
        <3>2. turn' = [turn EXCEPT ![t] = turn[t] + 1]
            BY <1>16, <2>2 DEF CheckBroken
        <3>3. turn' \in [LT -> Nat]
            BY <3>2 DEF TypeOK
        <3> QED
            BY <1>16, <3>1, <3>3 DEF TypeOK, CheckBroken
    <2> QED
        BY <2>1, <2>2
<1>17. ASSUME NEW t \in LT, LeaveEnd(t) PROVE TypeOK'
    <2>1. at[t] \in Elem
        BY <1>17 DEF LeaveEnd, CursorsOK, AtOK, InElem
    <2>2. Exit(end[at[t]], t) \in Barrier
        BY <2>1 DEF TypeOK, Exit
    <2> QED
        BY <1>17, <2>1, <2>2 DEF TypeOK, LeaveEnd
<1>18. ASSUME NEW t \in LT, EndBroken(t) PROVE TypeOK'
    <2>1. at[t] \in Elem
        BY <1>18 DEF EndBroken, CursorsOK, AtOK, InElem
    <2>2. Exit(end[at[t]], t) \in Barrier
        BY <2>1 DEF TypeOK, Exit
    <2> QED
        BY <1>18, <2>1, <2>2 DEF TypeOK, EndBroken
<1>19. ASSUME NEW t \in LT, RemoveElement(t) PROVE TypeOK'
    <2>1. heap' \in Seq(Seq(Elem)) /\ Len(heap') = Len(heap)
        <3>1. heap[table] \in Seq(Elem)
            BY ElementOfSeq DEF TypeOK
        <3>2. ASSUME NEW i \in 1..Len(heap[table]),
                     heap' = [heap EXCEPT ![table] = RemoveAt(@, i)]
              PROVE  heap' \in Seq(Seq(Elem)) /\ Len(heap') = Len(heap)
            <4>1. RemoveAt(heap[table], i) \in Seq(Elem)
                BY <3>1, RemoveAtType
            <4> QED
                BY <3>2, <4>1, ExceptSeq DEF TypeOK
        <3> QED
            BY <1>19, <3>2 DEF TypeOK, RemoveElement
    <2> QED
        BY <1>19, <2>1 DEF TypeOK, RemoveElement
<1>20. ASSUME NEW t \in LT, Stop(t) PROVE TypeOK'
    BY <1>20 DEF TypeOK, Stop, SearchOver, NoIter, Actor
<1>21. ASSUME NEW a \in Actor, CancelSynch(a) PROVE TypeOK'
    BY <1>21, BoundAssumption DEF TypeOK, CancelSynch
<1>22. ASSUME NEW a \in Actor, AbortEnd(a) PROVE TypeOK'
    <2>1. Items(a)[iter[a].pos] \in Elem
        BY <1>22, ItemType DEF CursorsOK, IterOK, AbortEnd
    <2>2. iter' \in [Actor -> [list : Nat, pos : Nat]]
        BY <1>22, AdvanceType DEF TypeOK, AbortEnd
    <2>3. end' \in [Elem -> Barrier]
        <3>1. end[Items(a)[iter[a].pos]] \in Barrier
            BY <2>1 DEF TypeOK
        <3>2. Abort(end[Items(a)[iter[a].pos]]) \in Barrier
            BY <3>1 DEF Abort
        <3> QED
            BY <1>22, <2>1, <3>2 DEF TypeOK, AbortEnd
    <2> QED
        BY <1>22, <2>1, <2>2, <2>3 DEF TypeOK, AbortEnd
<1>23. ASSUME NEW a \in Actor, AbortStart(a) PROVE TypeOK'
    <2>1. cur[a] \in Elem
        BY <1>23 DEF CursorsOK, CurOK, AbortStart
    <2>2. Abort(start[cur[a]]) \in Barrier
        <3>1. start[cur[a]] \in Barrier
            BY <2>1 DEF TypeOK
        <3> QED
            BY <3>1 DEF Abort
    <2> QED
        BY <1>23, <2>1, <2>2 DEF TypeOK, AbortStart
<1>24. ASSUME NEW a \in Actor, SetAllDone(a) PROVE TypeOK'
    <2>1. cur[a] \in Elem
        BY <1>24 DEF CursorsOK, CurOK, SetAllDone
    <2>2. Party(cur[a]) \subseteq LT
        BY <2>1, PartyType
    <2> QED
        BY <1>24, <2>1, <2>2 DEF TypeOK, SetAllDone
<1>25. ASSUME NEW a \in Actor, RebindTable(a) PROVE TypeOK'
    <2>1. heap' \in Seq(Seq(Elem)) /\ Len(heap') = Len(heap) + 1
        BY <1>25, AppendProperties DEF TypeOK, RebindTable
    <2> QED
        BY <1>25, <2>1 DEF TypeOK, RebindTable, NoIter
<1>26. CASE UNCHANGED vars
    BY <1>26 DEF TypeOK
<1> QED
    BY <1>1, <1>2, <1>3, <1>4, <1>5, <1>6, <1>7, <1>8, <1>9, <1>10, <1>11, <1>12,
       <1>13, <1>14, <1>15, <1>16, <1>17, <1>18, <1>19, <1>20, <1>21, <1>22, <1>23,
       <1>24, <1>25, <1>26 DEF Next, Step, Cancel

(* One thread's iterator moves, and nobody else's iterator or place changes.*)
LEMMA IterUpdate ==
    ASSUME TypeOK, IterOK, NEW b \in Actor,
           \A a \in Actor \ {b} :
               iter'[a] = iter[a] /\ cpc'[a] = cpc[a] /\ (a \in LT => pc'[a] = pc[a]),
           Len(heap') \in Nat, Len(heap') >= Len(heap),
           cpc'[b] # "no" \/ (b \in LT /\ pc'[b] = "search")
               => iter'[b].list \in 1..Len(heap') /\ iter'[b].pos \in Nat \ {0}
    PROVE  IterOK'
<1> SUFFICES ASSUME NEW a \in Actor,
                    cpc'[a] # "no" \/ (a \in LT /\ pc'[a] = "search")
             PROVE  iter'[a].list \in 1..Len(heap') /\ iter'[a].pos \in Nat \ {0}
    BY DEF IterOK
<1>1. CASE a = b
    BY <1>1 DEF IterOK
<1>2. CASE a # b
    <2>1. iter[a].list \in 1..Len(heap) /\ iter[a].pos \in Nat \ {0}
        BY <1>2 DEF IterOK
    <2>2. Len(heap) \in Nat
        BY DEF TypeOK
    <2> QED
        BY <1>2, <2>1, <2>2
<1> QED
    BY <1>1, <1>2

(* Every step keeps each iterator on an existing list object.              *)
LEMMA IterStep ==
    TypeOK /\ IterOK /\ CancelOK /\ [Next]_vars => IterOK'
<1> SUFFICES ASSUME TypeOK, IterOK, CancelOK, [Next]_vars PROVE IterOK'
    OBVIOUS
<1>1. ASSUME NEW t \in LT, AddSynchElement(t) PROVE IterOK'
    BY <1>1 DEF TypeOK, IterOK, Goto, AddSynchElement
<1>2. ASSUME NEW t \in LT, PreRunDone(t) PROVE IterOK'
    BY <1>2 DEF TypeOK, IterOK, Goto, PreRunDone
<1>3. ASSUME NEW t \in LT, AwaitStep(t) PROVE IterOK'
    BY <1>3 DEF TypeOK, IterOK, Goto, AwaitStep
<1>4. ASSUME NEW t \in LT, StoppedExternally(t) PROVE IterOK'
    BY <1>4 DEF TypeOK, IterOK, Goto, StoppedExternally
<1>5. ASSUME NEW t \in LT, RunWid(t) PROVE IterOK'
    <2>1. t \in Actor /\ cpc[t] = "no" /\ cpc' = cpc /\ heap' = heap
        BY <1>5 DEF RunWid, CancelOK, Goto, Actor
    <2>2. \A a \in Actor \ {t} : iter'[a] = iter[a] /\ (a \in LT => pc'[a] = pc[a])
        BY <1>5 DEF TypeOK, RunWid, Goto
    <2>3. iter'[t].list = table /\ iter'[t].pos = 1
        BY <1>5, <2>1 DEF TypeOK, RunWid
    <2>9. Len(heap) \in Nat /\ table \in 1..Len(heap)
        BY DEF TypeOK
    <2> QED
        BY <2>1, <2>2, <2>3, <2>9, IterUpdate
<1>6. ASSUME NEW t \in LT, SearchMiss(t) PROVE IterOK'
    <2>1. t \in Actor /\ cpc[t] = "no" /\ cpc' = cpc /\ heap' = heap
        BY <1>6 DEF SearchMiss, CancelOK, Goto, Actor
    <2>2. \A a \in Actor \ {t} : iter'[a] = iter[a] /\ (a \in LT => pc'[a] = pc[a])
        BY <1>6 DEF TypeOK, SearchMiss, Advance
    <2>3. iter[t].list \in 1..Len(heap) /\ iter[t].pos \in Nat \ {0}
        BY <1>6, <2>1 DEF SearchMiss, IterOK
    <2>4. iter'[t].list = iter[t].list /\ iter'[t].pos = iter[t].pos + 1
        BY <1>6, <2>1 DEF TypeOK, SearchMiss, Advance
    <2>9. Len(heap) \in Nat
        BY DEF TypeOK
    <2> QED
        BY <2>1, <2>2, <2>3, <2>4, <2>9, IterUpdate
<1>7. ASSUME NEW t \in LT, SearchHit(t) PROVE IterOK'
    <2>1. t \in Actor /\ cpc[t] = "no" /\ cpc' = cpc /\ heap' = heap
        BY <1>7 DEF SearchHit, CancelOK, Goto, Actor
    <2>2. \A a \in Actor \ {t} : iter'[a] = iter[a] /\ (a \in LT => pc'[a] = pc[a])
        BY <1>7 DEF TypeOK, SearchHit, SearchOver, Goto
    <2>3. pc'[t] # "search"
        BY <1>7 DEF TypeOK, SearchHit, Goto
    <2>9. Len(heap) \in Nat /\ table \in 1..Len(heap)
        BY DEF TypeOK
    <2> QED
        BY <2>1, <2>2, <2>3, <2>9, IterUpdate
<1>8. ASSUME NEW t \in LT, SearchEnd(t) PROVE IterOK'
    <2>1. t \in Actor /\ cpc[t] = "no" /\ cpc' = cpc /\ heap' = heap
        BY <1>8 DEF SearchEnd, CancelOK, Goto, Actor
    <2>2. \A a \in Actor \ {t} : iter'[a] = iter[a] /\ (a \in LT => pc'[a] = pc[a])
        BY <1>8 DEF TypeOK, SearchEnd, SearchOver, Goto
    <2>3. pc'[t] # "search"
        BY <1>8 DEF TypeOK, SearchEnd, Goto
    <2>9. Len(heap) \in Nat /\ table \in 1..Len(heap)
        BY DEF TypeOK
    <2> QED
        BY <2>1, <2>2, <2>3, <2>9, IterUpdate
<1>9. ASSUME NEW t \in LT, EnterStart(t) PROVE IterOK'
    BY <1>9 DEF TypeOK, IterOK, Goto, EnterStart
<1>10. ASSUME NEW t \in LT, LeaveStart(t) PROVE IterOK'
    BY <1>10 DEF TypeOK, IterOK, Goto, LeaveStart
<1>11. ASSUME NEW t \in LT, StartBroken(t) PROVE IterOK'
    BY <1>11 DEF TypeOK, IterOK, Goto, StartBroken
<1>12. ASSUME NEW t \in LT, MyTurn(t) PROVE IterOK'
    BY <1>12 DEF TypeOK, IterOK, Goto, MyTurn
<1>13. ASSUME NEW t \in LT, PointDone(t) PROVE IterOK'
    BY <1>13 DEF TypeOK, IterOK, Goto, PointDone
<1>14. ASSUME NEW t \in LT, CheckBroken(t) PROVE IterOK'
    BY <1>14 DEF TypeOK, IterOK, Goto, CheckBroken
<1>15. ASSUME NEW t \in LT, ReadActivePoint(t) PROVE IterOK'
    BY <1>15 DEF TypeOK, IterOK, Goto, ReadActivePoint
<1>16. ASSUME NEW t \in LT, SetDone(t) PROVE IterOK'
    BY <1>16 DEF TypeOK, IterOK, Goto, SetDone
<1>17. ASSUME NEW t \in LT, EnterEnd(t) PROVE IterOK'
    BY <1>17 DEF TypeOK, IterOK, Goto, EnterEnd
<1>18. ASSUME NEW t \in LT, LeaveEnd(t) PROVE IterOK'
    BY <1>18 DEF TypeOK, IterOK, Goto, LeaveEnd
<1>19. ASSUME NEW t \in LT, EndBroken(t) PROVE IterOK'
    BY <1>19 DEF TypeOK, IterOK, Goto, EndBroken
<1>20. ASSUME NEW t \in LT, RemoveElement(t) PROVE IterOK'
    BY <1>20 DEF TypeOK, IterOK, Goto, RemoveElement
<1>21. ASSUME NEW t \in LT, Stop(t) PROVE IterOK'
    <2>1. t \in Actor /\ cpc[t] = "no" /\ cpc' = cpc /\ heap' = heap
        BY <1>21 DEF Stop, CancelOK, Goto, Actor
    <2>2. \A a \in Actor \ {t} : iter'[a] = iter[a] /\ (a \in LT => pc'[a] = pc[a])
        BY <1>21 DEF TypeOK, Stop, SearchOver
    <2>3. pc'[t] # "search"
        BY <1>21 DEF TypeOK, Stop, Goto
    <2>9. Len(heap) \in Nat /\ table \in 1..Len(heap)
        BY DEF TypeOK
    <2> QED
        BY <2>1, <2>2, <2>3, <2>9, IterUpdate
<1>22. ASSUME NEW t \in LT, Pass(t) PROVE IterOK'
    BY <1>22 DEF TypeOK, IterOK, Goto, Pass
<1>23. ASSUME NEW a \in Actor, CancelSynch(a) PROVE IterOK'
    BY <1>23 DEF TypeOK, IterOK, Goto, CancelSynch
<1>24. ASSUME NEW a \in Actor, AbortEnd(a) PROVE IterOK'
    <2>1. iter[a].list \in 1..Len(heap) /\ iter[a].pos \in Nat \ {0}
        BY <1>24 DEF AbortEnd, IterOK
    <2>2. iter'[a].list = iter[a].list /\ iter'[a].pos = iter[a].pos + 1
        BY <1>24 DEF TypeOK, AbortEnd, Advance
    <2>3. \A c \in Actor \ {a} : iter'[c] = iter[c] /\ cpc'[c] = cpc[c]
        BY <1>24 DEF TypeOK, AbortEnd, Advance
    <2>4. heap' = heap /\ pc' = pc
        BY <1>24 DEF AbortEnd
    <2>9. Len(heap) \in Nat
        BY DEF TypeOK
    <2> QED
        BY <2>1, <2>2, <2>3, <2>4, <2>9, IterUpdate
<1>25. ASSUME NEW a \in Actor, AbortStart(a) PROVE IterOK'
    BY <1>25 DEF TypeOK, IterOK, Goto, AbortStart
<1>26. ASSUME NEW a \in Actor, SetAllDone(a) PROVE IterOK'
    BY <1>26 DEF TypeOK, IterOK, Goto, SetAllDone
<1>27. ASSUME NEW a \in Actor, RebindTable(a) PROVE IterOK'
    <2>1. Len(heap) \in Nat /\ Len(heap') = Len(heap) + 1
        BY <1>27, AppendProperties DEF TypeOK, RebindTable
    <2>2. cpc'[a] = "no" /\ (a \in LT => pc'[a] # "search")
        BY <1>27 DEF TypeOK, RebindTable, CancelOK
    <2>3. \A c \in Actor \ {a} : iter'[c] = iter[c] /\ cpc'[c] = cpc[c]
        BY <1>27 DEF TypeOK, RebindTable
    <2>4. pc' = pc
        BY <1>27 DEF RebindTable
    <2> QED
        BY <2>1, <2>2, <2>3, <2>4, IterUpdate
<1>28. CASE UNCHANGED vars
    BY <1>28 DEF IterOK
<1> QED
    BY <1>1, <1>2, <1>3, <1>4, <1>5, <1>6, <1>7, <1>8, <1>9, <1>10, <1>11,
       <1>12, <1>13, <1>14, <1>15, <1>16, <1>17, <1>18, <1>19, <1>20, <1>21,
       <1>22, <1>23, <1>24, <1>25, <1>26, <1>27, <1>28
    DEF Next, Step, Cancel

(* An LT that cancels stays out of the loop.                               *)
LEMMA CancelOKStep ==
    TypeOK /\ CancelOK /\ [Next]_vars => CancelOK'
<1> SUFFICES ASSUME TypeOK, CancelOK, [Next]_vars PROVE CancelOK'
    OBVIOUS
<1> USE DEF TypeOK, CancelOK, Goto
<1>1. ASSUME NEW t \in LT, AddSynchElement(t) PROVE CancelOK'
    BY <1>1 DEF AddSynchElement
<1>2. ASSUME NEW t \in LT, PreRunDone(t) PROVE CancelOK'
    BY <1>2 DEF PreRunDone
<1>3. ASSUME NEW t \in LT, AwaitStep(t) PROVE CancelOK'
    BY <1>3 DEF AwaitStep
<1>4. ASSUME NEW t \in LT, StoppedExternally(t) PROVE CancelOK'
    BY <1>4 DEF StoppedExternally
<1>5. ASSUME NEW t \in LT, RunWid(t) PROVE CancelOK'
    BY <1>5 DEF RunWid
<1>6. ASSUME NEW t \in LT, SearchMiss(t) PROVE CancelOK'
    BY <1>6 DEF SearchMiss
<1>7. ASSUME NEW t \in LT, SearchHit(t) PROVE CancelOK'
    BY <1>7 DEF SearchHit
<1>8. ASSUME NEW t \in LT, SearchEnd(t) PROVE CancelOK'
    BY <1>8 DEF SearchEnd
<1>9. ASSUME NEW t \in LT, EnterStart(t) PROVE CancelOK'
    BY <1>9 DEF EnterStart
<1>10. ASSUME NEW t \in LT, LeaveStart(t) PROVE CancelOK'
    BY <1>10 DEF LeaveStart
<1>11. ASSUME NEW t \in LT, StartBroken(t) PROVE CancelOK'
    BY <1>11 DEF StartBroken
<1>12. ASSUME NEW t \in LT, MyTurn(t) PROVE CancelOK'
    BY <1>12 DEF MyTurn
<1>13. ASSUME NEW t \in LT, PointDone(t) PROVE CancelOK'
    BY <1>13 DEF PointDone
<1>14. ASSUME NEW t \in LT, CheckBroken(t) PROVE CancelOK'
    BY <1>14 DEF CheckBroken
<1>15. ASSUME NEW t \in LT, ReadActivePoint(t) PROVE CancelOK'
    BY <1>15 DEF ReadActivePoint
<1>16. ASSUME NEW t \in LT, SetDone(t) PROVE CancelOK'
    BY <1>16 DEF SetDone
<1>17. ASSUME NEW t \in LT, EnterEnd(t) PROVE CancelOK'
    BY <1>17 DEF EnterEnd
<1>18. ASSUME NEW t \in LT, LeaveEnd(t) PROVE CancelOK'
    BY <1>18 DEF LeaveEnd
<1>19. ASSUME NEW t \in LT, EndBroken(t) PROVE CancelOK'
    BY <1>19 DEF EndBroken
<1>20. ASSUME NEW t \in LT, RemoveElement(t) PROVE CancelOK'
    BY <1>20 DEF RemoveElement
<1>21. ASSUME NEW t \in LT, Stop(t) PROVE CancelOK'
    BY <1>21 DEF Stop
<1>22. ASSUME NEW t \in LT, Pass(t) PROVE CancelOK'
    BY <1>22 DEF Pass
<1>23. ASSUME NEW a \in Actor, CancelSynch(a) PROVE CancelOK'
    BY <1>23, AdderAssumption, OtherAssumption DEF CancelSynch, MayCancel
<1>24. ASSUME NEW a \in Actor, AbortEnd(a) PROVE CancelOK'
    BY <1>24 DEF AbortEnd
<1>25. ASSUME NEW a \in Actor, AbortStart(a) PROVE CancelOK'
    BY <1>25 DEF AbortStart
<1>26. ASSUME NEW a \in Actor, SetAllDone(a) PROVE CancelOK'
    BY <1>26 DEF SetAllDone
<1>27. ASSUME NEW a \in Actor, RebindTable(a) PROVE CancelOK'
    BY <1>27 DEF RebindTable
<1>28. CASE UNCHANGED vars
    BY <1>28
<1> QED
    BY <1>1, <1>2, <1>3, <1>4, <1>5, <1>6, <1>7, <1>8, <1>9, <1>10, <1>11,
       <1>12, <1>13, <1>14, <1>15, <1>16, <1>17, <1>18, <1>19, <1>20, <1>21,
       <1>22, <1>23, <1>24, <1>25, <1>26, <1>27, <1>28
    DEF Next, Step, Cancel

(* What the barrier operations do to a barrier, field by field.            *)
LEMMA EnterFields ==
    ASSUME NEW b \in Barrier, NEW t, NEW P
    PROVE  /\ IsLast(b, t, P) =>
                 /\ Enter(b, t, P).waiting = b.waiting
                 /\ Enter(b, t, P).state = IF b.waiting = {} THEN "fill" ELSE "drain"
           /\ ~IsLast(b, t, P) =>
                 /\ Enter(b, t, P).waiting = b.waiting \cup {t}
                 /\ Enter(b, t, P).state = b.state
BY DEF Barrier, Enter

(* What leaving a barrier does to it.                                      *)
LEMMA ExitFields ==
    ASSUME NEW b \in Barrier, NEW t
    PROVE  /\ Exit(b, t).waiting = b.waiting \ {t}
           /\ Exit(b, t).state =
                 IF b.state = "drain" /\ b.waiting = {t} THEN "fill" ELSE b.state
BY DEF Barrier, Exit

(* What aborting a barrier does to it.                                     *)
LEMMA AbortFields ==
    ASSUME NEW b \in Barrier
    PROVE  Abort(b).waiting = b.waiting /\ Abort(b).state = "broken"
BY DEF Barrier, Abort

(* A canceller that is inside an element has one.                          *)
LEMMA CurStep ==
    TypeOK /\ IterOK /\ CurOK /\ [Next]_vars => CurOK'
<1> SUFFICES ASSUME TypeOK, IterOK, CurOK, [Next]_vars PROVE CurOK'
    OBVIOUS
<1>1. ASSUME NEW t \in LT, AddSynchElement(t) PROVE CurOK'
    BY <1>1 DEF TypeOK, CurOK, AddSynchElement
<1>2. ASSUME NEW t \in LT, PreRunDone(t) PROVE CurOK'
    BY <1>2 DEF TypeOK, CurOK, PreRunDone
<1>3. ASSUME NEW t \in LT, AwaitStep(t) PROVE CurOK'
    BY <1>3 DEF TypeOK, CurOK, AwaitStep
<1>4. ASSUME NEW t \in LT, StoppedExternally(t) PROVE CurOK'
    BY <1>4 DEF TypeOK, CurOK, StoppedExternally
<1>5. ASSUME NEW t \in LT, RunWid(t) PROVE CurOK'
    BY <1>5 DEF TypeOK, CurOK, RunWid
<1>6. ASSUME NEW t \in LT, SearchMiss(t) PROVE CurOK'
    BY <1>6 DEF TypeOK, CurOK, SearchMiss
<1>7. ASSUME NEW t \in LT, SearchHit(t) PROVE CurOK'
    BY <1>7 DEF TypeOK, CurOK, SearchHit
<1>8. ASSUME NEW t \in LT, SearchEnd(t) PROVE CurOK'
    BY <1>8 DEF TypeOK, CurOK, SearchEnd
<1>9. ASSUME NEW t \in LT, EnterStart(t) PROVE CurOK'
    BY <1>9 DEF TypeOK, CurOK, EnterStart
<1>10. ASSUME NEW t \in LT, LeaveStart(t) PROVE CurOK'
    BY <1>10 DEF TypeOK, CurOK, LeaveStart
<1>11. ASSUME NEW t \in LT, StartBroken(t) PROVE CurOK'
    BY <1>11 DEF TypeOK, CurOK, StartBroken
<1>12. ASSUME NEW t \in LT, MyTurn(t) PROVE CurOK'
    BY <1>12 DEF TypeOK, CurOK, MyTurn
<1>13. ASSUME NEW t \in LT, PointDone(t) PROVE CurOK'
    BY <1>13 DEF TypeOK, CurOK, PointDone
<1>14. ASSUME NEW t \in LT, CheckBroken(t) PROVE CurOK'
    BY <1>14 DEF TypeOK, CurOK, CheckBroken
<1>15. ASSUME NEW t \in LT, ReadActivePoint(t) PROVE CurOK'
    BY <1>15 DEF TypeOK, CurOK, ReadActivePoint
<1>16. ASSUME NEW t \in LT, SetDone(t) PROVE CurOK'
    BY <1>16 DEF TypeOK, CurOK, SetDone
<1>17. ASSUME NEW t \in LT, EnterEnd(t) PROVE CurOK'
    BY <1>17 DEF TypeOK, CurOK, EnterEnd
<1>18. ASSUME NEW t \in LT, LeaveEnd(t) PROVE CurOK'
    BY <1>18 DEF TypeOK, CurOK, LeaveEnd
<1>19. ASSUME NEW t \in LT, EndBroken(t) PROVE CurOK'
    BY <1>19 DEF TypeOK, CurOK, EndBroken
<1>20. ASSUME NEW t \in LT, RemoveElement(t) PROVE CurOK'
    BY <1>20 DEF TypeOK, CurOK, RemoveElement
<1>21. ASSUME NEW t \in LT, Stop(t) PROVE CurOK'
    BY <1>21 DEF TypeOK, CurOK, Stop
<1>22. ASSUME NEW t \in LT, Pass(t) PROVE CurOK'
    BY <1>22 DEF TypeOK, CurOK, Pass
<1>23. ASSUME NEW a \in Actor, CancelSynch(a) PROVE CurOK'
    BY <1>23 DEF TypeOK, CurOK, CancelSynch
<1>24. ASSUME NEW a \in Actor, AbortEnd(a) PROVE CurOK'
    <2>1. Items(a)[iter[a].pos] \in Elem
        BY <1>24, ItemType DEF IterOK, AbortEnd
    <2> QED
        BY <1>24, <2>1 DEF TypeOK, CurOK, AbortEnd
<1>25. ASSUME NEW a \in Actor, AbortStart(a) PROVE CurOK'
    BY <1>25 DEF TypeOK, CurOK, AbortStart
<1>26. ASSUME NEW a \in Actor, SetAllDone(a) PROVE CurOK'
    BY <1>26 DEF TypeOK, CurOK, SetAllDone
<1>27. ASSUME NEW a \in Actor, RebindTable(a) PROVE CurOK'
    BY <1>27 DEF TypeOK, CurOK, RebindTable
<1>28. CASE UNCHANGED vars
    BY <1>28 DEF CurOK
<1> QED
    BY <1>1, <1>2, <1>3, <1>4, <1>5, <1>6, <1>7, <1>8, <1>9, <1>10, <1>11,
       <1>12, <1>13, <1>14, <1>15, <1>16, <1>17, <1>18, <1>19, <1>20, <1>21,
       <1>22, <1>23, <1>24, <1>25, <1>26, <1>27, <1>28
    DEF Next, Step, Cancel

(* An LT inside an element is one of its parties.                          *)
LEMMA AtStep ==
    TypeOK /\ IterOK /\ AtOK /\ [Next]_vars => AtOK'
<1> SUFFICES ASSUME TypeOK, IterOK, AtOK, [Next]_vars PROVE AtOK'
    OBVIOUS
<1> USE DEF InElem, Inside, Goto
<1>1. ASSUME NEW t \in LT, AddSynchElement(t) PROVE AtOK'
    BY <1>1 DEF TypeOK, AtOK, AddSynchElement
<1>2. ASSUME NEW t \in LT, PreRunDone(t) PROVE AtOK'
    BY <1>2 DEF TypeOK, AtOK, PreRunDone
<1>3. ASSUME NEW t \in LT, AwaitStep(t) PROVE AtOK'
    BY <1>3 DEF TypeOK, AtOK, AwaitStep
<1>4. ASSUME NEW t \in LT, StoppedExternally(t) PROVE AtOK'
    BY <1>4 DEF TypeOK, AtOK, StoppedExternally
<1>5. ASSUME NEW t \in LT, RunWid(t) PROVE AtOK'
    BY <1>5 DEF TypeOK, AtOK, RunWid
<1>6. ASSUME NEW t \in LT, SearchMiss(t) PROVE AtOK'
    BY <1>6 DEF TypeOK, AtOK, SearchMiss
<1>7. ASSUME NEW t \in LT, SearchHit(t) PROVE AtOK'
    <2>1. Items(t)[iter[t].pos] \in Elem
        BY <1>7, ItemType DEF IterOK, SearchHit, Actor
    <2>2. t \in Party(Items(t)[iter[t].pos])
        BY <1>7 DEF SearchHit, FindMatching, Party
    <2> QED
        BY <1>7, <2>1, <2>2 DEF TypeOK, AtOK, SearchHit
<1>8. ASSUME NEW t \in LT, SearchEnd(t) PROVE AtOK'
    BY <1>8 DEF TypeOK, AtOK, SearchEnd
<1>9. ASSUME NEW t \in LT, EnterStart(t) PROVE AtOK'
    BY <1>9 DEF TypeOK, AtOK, EnterStart
<1>10. ASSUME NEW t \in LT, LeaveStart(t) PROVE AtOK'
    BY <1>10 DEF TypeOK, AtOK, LeaveStart
<1>11. ASSUME NEW t \in LT, StartBroken(t) PROVE AtOK'
    BY <1>11 DEF TypeOK, AtOK, StartBroken
<1>12. ASSUME NEW t \in LT, MyTurn(t) PROVE AtOK'
    BY <1>12 DEF TypeOK, AtOK, MyTurn
<1>13. ASSUME NEW t \in LT, PointDone(t) PROVE AtOK'
    BY <1>13 DEF TypeOK, AtOK, PointDone
<1>14. ASSUME NEW t \in LT, CheckBroken(t) PROVE AtOK'
    BY <1>14 DEF TypeOK, AtOK, CheckBroken
<1>15. ASSUME NEW t \in LT, ReadActivePoint(t) PROVE AtOK'
    BY <1>15 DEF TypeOK, AtOK, ReadActivePoint
<1>16. ASSUME NEW t \in LT, SetDone(t) PROVE AtOK'
    BY <1>16 DEF TypeOK, AtOK, SetDone
<1>17. ASSUME NEW t \in LT, EnterEnd(t) PROVE AtOK'
    BY <1>17 DEF TypeOK, AtOK, EnterEnd
<1>18. ASSUME NEW t \in LT, LeaveEnd(t) PROVE AtOK'
    BY <1>18 DEF TypeOK, AtOK, LeaveEnd
<1>19. ASSUME NEW t \in LT, EndBroken(t) PROVE AtOK'
    BY <1>19 DEF TypeOK, AtOK, EndBroken
<1>20. ASSUME NEW t \in LT, RemoveElement(t) PROVE AtOK'
    BY <1>20 DEF TypeOK, AtOK, RemoveElement
<1>21. ASSUME NEW t \in LT, Stop(t) PROVE AtOK'
    BY <1>21 DEF TypeOK, AtOK, Stop
<1>22. ASSUME NEW t \in LT, Pass(t) PROVE AtOK'
    BY <1>22 DEF TypeOK, AtOK, Pass
<1>23. ASSUME NEW a \in Actor, CancelSynch(a) PROVE AtOK'
    BY <1>23 DEF TypeOK, AtOK, CancelSynch
<1>24. ASSUME NEW a \in Actor, AbortEnd(a) PROVE AtOK'
    BY <1>24 DEF TypeOK, AtOK, AbortEnd
<1>25. ASSUME NEW a \in Actor, AbortStart(a) PROVE AtOK'
    BY <1>25 DEF TypeOK, AtOK, AbortStart
<1>26. ASSUME NEW a \in Actor, SetAllDone(a) PROVE AtOK'
    BY <1>26 DEF TypeOK, AtOK, SetAllDone
<1>27. ASSUME NEW a \in Actor, RebindTable(a) PROVE AtOK'
    BY <1>27 DEF TypeOK, AtOK, RebindTable
<1>28. CASE UNCHANGED vars
    BY <1>28 DEF AtOK
<1> QED
    BY <1>1, <1>2, <1>3, <1>4, <1>5, <1>6, <1>7, <1>8, <1>9, <1>10, <1>11,
       <1>12, <1>13, <1>14, <1>15, <1>16, <1>17, <1>18, <1>19, <1>20, <1>21,
       <1>22, <1>23, <1>24, <1>25, <1>26, <1>27, <1>28
    DEF Next, Step, Cancel

(* A start barrier knows exactly the LTs blocked at it.                    *)
LEMMA StartWaitingStep ==
    TypeOK /\ CurOK /\ AtOK /\ StartWaitingOK /\ [Next]_vars => StartWaitingOK'
<1> SUFFICES ASSUME TypeOK, CurOK, AtOK, StartWaitingOK, [Next]_vars PROVE StartWaitingOK'
    OBVIOUS
<1> USE DEF InElem, Inside, Goto
<1>1. ASSUME NEW t \in LT, AddSynchElement(t) PROVE StartWaitingOK'
    BY <1>1 DEF TypeOK, StartWaitingOK, AddSynchElement
<1>2. ASSUME NEW t \in LT, PreRunDone(t) PROVE StartWaitingOK'
    BY <1>2 DEF TypeOK, StartWaitingOK, PreRunDone
<1>3. ASSUME NEW t \in LT, AwaitStep(t) PROVE StartWaitingOK'
    BY <1>3 DEF TypeOK, StartWaitingOK, AwaitStep
<1>4. ASSUME NEW t \in LT, StoppedExternally(t) PROVE StartWaitingOK'
    BY <1>4 DEF TypeOK, StartWaitingOK, StoppedExternally
<1>5. ASSUME NEW t \in LT, RunWid(t) PROVE StartWaitingOK'
    BY <1>5 DEF TypeOK, StartWaitingOK, RunWid
<1>6. ASSUME NEW t \in LT, SearchMiss(t) PROVE StartWaitingOK'
    BY <1>6 DEF TypeOK, StartWaitingOK, SearchMiss
<1>7. ASSUME NEW t \in LT, SearchHit(t) PROVE StartWaitingOK'
    BY <1>7 DEF TypeOK, StartWaitingOK, SearchHit
<1>8. ASSUME NEW t \in LT, SearchEnd(t) PROVE StartWaitingOK'
    BY <1>8 DEF TypeOK, StartWaitingOK, SearchEnd
<1>9. ASSUME NEW t \in LT, EnterStart(t) PROVE StartWaitingOK'
    <2>1. at[t] \in Elem /\ start[at[t]] \in Barrier
        BY <1>9 DEF TypeOK, AtOK, InElem, EnterStart
    <2>2. start' = [start EXCEPT ![at[t]] = Enter(start[at[t]], t, Party(at[t]))] /\ at' = at
        BY <1>9 DEF EnterStart
    <2>3. \A e \in Elem \ {at[t]} : start'[e] = start[e]
        BY <2>1, <2>2 DEF TypeOK
    <2>4. \A u \in LT \ {t} : pc'[u] = pc[u]
        BY <1>9 DEF TypeOK, EnterStart
    <2>5. start'[at[t]].waiting = Enter(start[at[t]], t, Party(at[t])).waiting
        BY <2>1, <2>2 DEF TypeOK
    <2>6. CASE IsLast(start[at[t]], t, Party(at[t]))
        <3>1. pc[t] # "at_start" /\ pc'[t] = "turn"
            BY <1>9, <2>6 DEF TypeOK, EnterStart
        <3>2. start'[at[t]].waiting = start[at[t]].waiting
            BY <2>1, <2>5, <2>6, EnterFields
        <3> QED
            BY <2>2, <2>3, <2>4, <3>1, <3>2 DEF StartWaitingOK
    <2>7. CASE ~IsLast(start[at[t]], t, Party(at[t]))
        <3>1. pc'[t] = "at_start"
            BY <1>9, <2>7 DEF TypeOK, EnterStart
        <3>2. start'[at[t]].waiting = start[at[t]].waiting \cup {t}
            BY <2>1, <2>5, <2>7, EnterFields
        <3>3. \A e \in Elem : t \notin start[e].waiting
            BY <1>9 DEF StartWaitingOK, EnterStart
        <3> QED
            BY <2>1, <2>2, <2>3, <2>4, <3>1, <3>2, <3>3 DEF StartWaitingOK
    <2> QED
        BY <2>6, <2>7
<1>10. ASSUME NEW t \in LT, LeaveStart(t) PROVE StartWaitingOK'
    <2>1. at[t] \in Elem /\ start[at[t]] \in Barrier
        BY <1>10 DEF TypeOK, AtOK, InElem, LeaveStart
    <2>2. start' = [start EXCEPT ![at[t]] = Exit(start[at[t]], t)] /\ at' = at
        BY <1>10 DEF LeaveStart
    <2>3. \A e \in Elem \ {at[t]} : start'[e] = start[e]
        BY <2>1, <2>2 DEF TypeOK
    <2>4. start'[at[t]].waiting = start[at[t]].waiting \ {t}
        <3>1. Exit(start[at[t]], t).waiting = start[at[t]].waiting \ {t}
            BY <2>1, ExitFields
        <3> QED
            BY <2>1, <2>2, <3>1 DEF TypeOK
    <2>5. pc'[t] # "at_start" /\ \A u \in LT \ {t} : pc'[u] = pc[u]
        BY <1>10 DEF TypeOK, LeaveStart
    <2> QED
        BY <2>1, <2>2, <2>3, <2>4, <2>5 DEF StartWaitingOK
<1>11. ASSUME NEW t \in LT, StartBroken(t) PROVE StartWaitingOK'
    <2>1. at[t] \in Elem /\ start[at[t]] \in Barrier
        BY <1>11 DEF TypeOK, AtOK, InElem, StartBroken
    <2>2. start' = [start EXCEPT ![at[t]] = Exit(start[at[t]], t)] /\ at' = at
        BY <1>11 DEF StartBroken
    <2>3. \A e \in Elem \ {at[t]} : start'[e] = start[e]
        BY <2>1, <2>2 DEF TypeOK
    <2>4. start'[at[t]].waiting = start[at[t]].waiting \ {t}
        <3>1. Exit(start[at[t]], t).waiting = start[at[t]].waiting \ {t}
            BY <2>1, ExitFields
        <3> QED
            BY <2>1, <2>2, <3>1 DEF TypeOK
    <2>5. pc'[t] # "at_start" /\ \A u \in LT \ {t} : pc'[u] = pc[u]
        BY <1>11 DEF TypeOK, StartBroken
    <2> QED
        BY <2>1, <2>2, <2>3, <2>4, <2>5 DEF StartWaitingOK
<1>12. ASSUME NEW t \in LT, MyTurn(t) PROVE StartWaitingOK'
    BY <1>12 DEF TypeOK, StartWaitingOK, MyTurn
<1>13. ASSUME NEW t \in LT, PointDone(t) PROVE StartWaitingOK'
    BY <1>13 DEF TypeOK, StartWaitingOK, PointDone
<1>14. ASSUME NEW t \in LT, CheckBroken(t) PROVE StartWaitingOK'
    BY <1>14 DEF TypeOK, StartWaitingOK, CheckBroken
<1>15. ASSUME NEW t \in LT, ReadActivePoint(t) PROVE StartWaitingOK'
    BY <1>15 DEF TypeOK, StartWaitingOK, ReadActivePoint
<1>16. ASSUME NEW t \in LT, SetDone(t) PROVE StartWaitingOK'
    BY <1>16 DEF TypeOK, StartWaitingOK, SetDone
<1>17. ASSUME NEW t \in LT, EnterEnd(t) PROVE StartWaitingOK'
    BY <1>17 DEF TypeOK, StartWaitingOK, EnterEnd
<1>18. ASSUME NEW t \in LT, LeaveEnd(t) PROVE StartWaitingOK'
    BY <1>18 DEF TypeOK, StartWaitingOK, LeaveEnd
<1>19. ASSUME NEW t \in LT, EndBroken(t) PROVE StartWaitingOK'
    BY <1>19 DEF TypeOK, StartWaitingOK, EndBroken
<1>20. ASSUME NEW t \in LT, RemoveElement(t) PROVE StartWaitingOK'
    BY <1>20 DEF TypeOK, StartWaitingOK, RemoveElement
<1>21. ASSUME NEW t \in LT, Stop(t) PROVE StartWaitingOK'
    BY <1>21 DEF TypeOK, StartWaitingOK, Stop
<1>22. ASSUME NEW t \in LT, Pass(t) PROVE StartWaitingOK'
    BY <1>22 DEF TypeOK, StartWaitingOK, Pass
<1>23. ASSUME NEW a \in Actor, CancelSynch(a) PROVE StartWaitingOK'
    BY <1>23 DEF TypeOK, StartWaitingOK, CancelSynch
<1>24. ASSUME NEW a \in Actor, AbortEnd(a) PROVE StartWaitingOK'
    BY <1>24 DEF TypeOK, StartWaitingOK, AbortEnd
<1>25. ASSUME NEW a \in Actor, AbortStart(a) PROVE StartWaitingOK'
    <2>1. cur[a] \in Elem /\ start' = [start EXCEPT ![cur[a]] = Abort(start[cur[a]])]
        BY <1>25 DEF CurOK, AbortStart
    <2>2. start[cur[a]] \in Barrier
        BY <2>1 DEF TypeOK
    <2>3. Abort(start[cur[a]]).waiting = start[cur[a]].waiting
        BY <2>2, AbortFields
    <2>4. \A x \in Elem : start'[x].waiting = start[x].waiting
        BY <2>1, <2>3 DEF TypeOK
    <2> QED
        BY <1>25, <2>4 DEF StartWaitingOK, AbortStart
<1>26. ASSUME NEW a \in Actor, SetAllDone(a) PROVE StartWaitingOK'
    BY <1>26 DEF TypeOK, StartWaitingOK, SetAllDone
<1>27. ASSUME NEW a \in Actor, RebindTable(a) PROVE StartWaitingOK'
    BY <1>27 DEF TypeOK, StartWaitingOK, RebindTable
<1>28. CASE UNCHANGED vars
    BY <1>28 DEF StartWaitingOK
<1> QED
    BY <1>1, <1>2, <1>3, <1>4, <1>5, <1>6, <1>7, <1>8, <1>9, <1>10, <1>11,
       <1>12, <1>13, <1>14, <1>15, <1>16, <1>17, <1>18, <1>19, <1>20, <1>21,
       <1>22, <1>23, <1>24, <1>25, <1>26, <1>27, <1>28
    DEF Next, Step, Cancel

(* An end barrier knows exactly the LTs blocked at it.                     *)
LEMMA EndWaitingStep ==
    TypeOK /\ IterOK /\ AtOK /\ EndWaitingOK /\ [Next]_vars => EndWaitingOK'
<1> SUFFICES ASSUME TypeOK, IterOK, AtOK, EndWaitingOK, [Next]_vars PROVE EndWaitingOK'
    OBVIOUS
<1> USE DEF InElem, Inside, Goto
<1>1. ASSUME NEW t \in LT, AddSynchElement(t) PROVE EndWaitingOK'
    BY <1>1 DEF TypeOK, EndWaitingOK, AddSynchElement
<1>2. ASSUME NEW t \in LT, PreRunDone(t) PROVE EndWaitingOK'
    BY <1>2 DEF TypeOK, EndWaitingOK, PreRunDone
<1>3. ASSUME NEW t \in LT, AwaitStep(t) PROVE EndWaitingOK'
    BY <1>3 DEF TypeOK, EndWaitingOK, AwaitStep
<1>4. ASSUME NEW t \in LT, StoppedExternally(t) PROVE EndWaitingOK'
    BY <1>4 DEF TypeOK, EndWaitingOK, StoppedExternally
<1>5. ASSUME NEW t \in LT, RunWid(t) PROVE EndWaitingOK'
    BY <1>5 DEF TypeOK, EndWaitingOK, RunWid
<1>6. ASSUME NEW t \in LT, SearchMiss(t) PROVE EndWaitingOK'
    BY <1>6 DEF TypeOK, EndWaitingOK, SearchMiss
<1>7. ASSUME NEW t \in LT, SearchHit(t) PROVE EndWaitingOK'
    BY <1>7 DEF TypeOK, EndWaitingOK, SearchHit
<1>8. ASSUME NEW t \in LT, SearchEnd(t) PROVE EndWaitingOK'
    BY <1>8 DEF TypeOK, EndWaitingOK, SearchEnd
<1>9. ASSUME NEW t \in LT, EnterStart(t) PROVE EndWaitingOK'
    BY <1>9 DEF TypeOK, EndWaitingOK, EnterStart
<1>10. ASSUME NEW t \in LT, LeaveStart(t) PROVE EndWaitingOK'
    BY <1>10 DEF TypeOK, EndWaitingOK, LeaveStart
<1>11. ASSUME NEW t \in LT, StartBroken(t) PROVE EndWaitingOK'
    BY <1>11 DEF TypeOK, EndWaitingOK, StartBroken
<1>12. ASSUME NEW t \in LT, MyTurn(t) PROVE EndWaitingOK'
    BY <1>12 DEF TypeOK, EndWaitingOK, MyTurn
<1>13. ASSUME NEW t \in LT, PointDone(t) PROVE EndWaitingOK'
    BY <1>13 DEF TypeOK, EndWaitingOK, PointDone
<1>14. ASSUME NEW t \in LT, CheckBroken(t) PROVE EndWaitingOK'
    BY <1>14 DEF TypeOK, EndWaitingOK, CheckBroken
<1>15. ASSUME NEW t \in LT, ReadActivePoint(t) PROVE EndWaitingOK'
    BY <1>15 DEF TypeOK, EndWaitingOK, ReadActivePoint
<1>16. ASSUME NEW t \in LT, SetDone(t) PROVE EndWaitingOK'
    BY <1>16 DEF TypeOK, EndWaitingOK, SetDone
<1>17. ASSUME NEW t \in LT, EnterEnd(t) PROVE EndWaitingOK'
    <2>1. at[t] \in Elem /\ end[at[t]] \in Barrier
        BY <1>17 DEF TypeOK, AtOK, InElem, EnterEnd
    <2>2. end' = [end EXCEPT ![at[t]] = Enter(end[at[t]], t, Party(at[t]))] /\ at' = at
        BY <1>17 DEF EnterEnd
    <2>3. \A e \in Elem \ {at[t]} : end'[e] = end[e]
        BY <2>1, <2>2 DEF TypeOK
    <2>4. \A u \in LT \ {t} : pc'[u] = pc[u]
        BY <1>17 DEF TypeOK, EnterEnd
    <2>5. end'[at[t]].waiting = Enter(end[at[t]], t, Party(at[t])).waiting
        BY <2>1, <2>2 DEF TypeOK
    <2>6. CASE IsLast(end[at[t]], t, Party(at[t]))
        <3>1. pc[t] # "at_end" /\ pc'[t] = "remove"
            BY <1>17, <2>6 DEF TypeOK, EnterEnd
        <3>2. end'[at[t]].waiting = end[at[t]].waiting
            BY <2>1, <2>5, <2>6, EnterFields
        <3> QED
            BY <2>2, <2>3, <2>4, <3>1, <3>2 DEF EndWaitingOK
    <2>7. CASE ~IsLast(end[at[t]], t, Party(at[t]))
        <3>1. pc'[t] = "at_end"
            BY <1>17, <2>7 DEF TypeOK, EnterEnd
        <3>2. end'[at[t]].waiting = end[at[t]].waiting \cup {t}
            BY <2>1, <2>5, <2>7, EnterFields
        <3>3. \A e \in Elem : t \notin end[e].waiting
            BY <1>17 DEF EndWaitingOK, EnterEnd
        <3> QED
            BY <2>1, <2>2, <2>3, <2>4, <3>1, <3>2, <3>3 DEF EndWaitingOK
    <2> QED
        BY <2>6, <2>7
<1>18. ASSUME NEW t \in LT, LeaveEnd(t) PROVE EndWaitingOK'
    <2>1. at[t] \in Elem /\ end[at[t]] \in Barrier
        BY <1>18 DEF TypeOK, AtOK, InElem, LeaveEnd
    <2>2. end' = [end EXCEPT ![at[t]] = Exit(end[at[t]], t)] /\ at' = at
        BY <1>18 DEF LeaveEnd
    <2>3. \A e \in Elem \ {at[t]} : end'[e] = end[e]
        BY <2>1, <2>2 DEF TypeOK
    <2>4. end'[at[t]].waiting = end[at[t]].waiting \ {t}
        <3>1. Exit(end[at[t]], t).waiting = end[at[t]].waiting \ {t}
            BY <2>1, ExitFields
        <3> QED
            BY <2>1, <2>2, <3>1 DEF TypeOK
    <2>5. pc'[t] # "at_end" /\ \A u \in LT \ {t} : pc'[u] = pc[u]
        BY <1>18 DEF TypeOK, LeaveEnd
    <2> QED
        BY <2>1, <2>2, <2>3, <2>4, <2>5 DEF EndWaitingOK
<1>19. ASSUME NEW t \in LT, EndBroken(t) PROVE EndWaitingOK'
    <2>1. at[t] \in Elem /\ end[at[t]] \in Barrier
        BY <1>19 DEF TypeOK, AtOK, InElem, EndBroken
    <2>2. end' = [end EXCEPT ![at[t]] = Exit(end[at[t]], t)] /\ at' = at
        BY <1>19 DEF EndBroken
    <2>3. \A e \in Elem \ {at[t]} : end'[e] = end[e]
        BY <2>1, <2>2 DEF TypeOK
    <2>4. end'[at[t]].waiting = end[at[t]].waiting \ {t}
        <3>1. Exit(end[at[t]], t).waiting = end[at[t]].waiting \ {t}
            BY <2>1, ExitFields
        <3> QED
            BY <2>1, <2>2, <3>1 DEF TypeOK
    <2>5. pc'[t] # "at_end" /\ \A u \in LT \ {t} : pc'[u] = pc[u]
        BY <1>19 DEF TypeOK, EndBroken
    <2> QED
        BY <2>1, <2>2, <2>3, <2>4, <2>5 DEF EndWaitingOK
<1>20. ASSUME NEW t \in LT, RemoveElement(t) PROVE EndWaitingOK'
    BY <1>20 DEF TypeOK, EndWaitingOK, RemoveElement
<1>21. ASSUME NEW t \in LT, Stop(t) PROVE EndWaitingOK'
    BY <1>21 DEF TypeOK, EndWaitingOK, Stop
<1>22. ASSUME NEW t \in LT, Pass(t) PROVE EndWaitingOK'
    BY <1>22 DEF TypeOK, EndWaitingOK, Pass
<1>23. ASSUME NEW a \in Actor, CancelSynch(a) PROVE EndWaitingOK'
    BY <1>23 DEF TypeOK, EndWaitingOK, CancelSynch
<1>24. ASSUME NEW a \in Actor, AbortEnd(a) PROVE EndWaitingOK'
    <2> DEFINE e == Items(a)[iter[a].pos]
    <2>1. e \in Elem
        BY <1>24, ItemType DEF IterOK, AbortEnd
    <2>2. end[e] \in Barrier /\ end' = [end EXCEPT ![e] = Abort(end[e])]
        BY <1>24, <2>1 DEF TypeOK, AbortEnd
    <2>3. end'[e].waiting = end[e].waiting
        BY <2>1, <2>2, AbortFields DEF TypeOK
    <2>4. \A x \in Elem : end'[x].waiting = end[x].waiting
        BY <2>2, <2>3 DEF TypeOK
    <2> QED
        BY <1>24, <2>4 DEF EndWaitingOK, AbortEnd
<1>25. ASSUME NEW a \in Actor, AbortStart(a) PROVE EndWaitingOK'
    BY <1>25 DEF TypeOK, EndWaitingOK, AbortStart
<1>26. ASSUME NEW a \in Actor, SetAllDone(a) PROVE EndWaitingOK'
    BY <1>26 DEF TypeOK, EndWaitingOK, SetAllDone
<1>27. ASSUME NEW a \in Actor, RebindTable(a) PROVE EndWaitingOK'
    BY <1>27 DEF TypeOK, EndWaitingOK, RebindTable
<1>28. CASE UNCHANGED vars
    BY <1>28 DEF EndWaitingOK
<1> QED
    BY <1>1, <1>2, <1>3, <1>4, <1>5, <1>6, <1>7, <1>8, <1>9, <1>10, <1>11,
       <1>12, <1>13, <1>14, <1>15, <1>16, <1>17, <1>18, <1>19, <1>20, <1>21,
       <1>22, <1>23, <1>24, <1>25, <1>26, <1>27, <1>28
    DEF Next, Step, Cancel

(* A start barrier that is broken stays broken.                            *)
LEMMA BrokenStays ==
    ASSUME TypeOK, AtOK, CurOK, [Next]_vars, NEW e \in Elem, start[e].state = "broken"
    PROVE  start'[e].state = "broken"
<1>1. ASSUME NEW t \in LT, EnterStart(t) PROVE start'[e].state = "broken"
    <2>1. e # at[t]
        BY <1>1 DEF EnterStart
    <2> QED
        BY <1>1, <2>1 DEF TypeOK, EnterStart
<1>2. ASSUME NEW t \in LT, LeaveStart(t) PROVE start'[e].state = "broken"
    <2>1. e # at[t]
        BY <1>2 DEF LeaveStart
    <2> QED
        BY <1>2, <2>1 DEF TypeOK, LeaveStart
<1>3. ASSUME NEW t \in LT, StartBroken(t) PROVE start'[e].state = "broken"
    <2>1. start[e] \in Barrier /\ start' = [start EXCEPT ![at[t]] = Exit(start[at[t]], t)]
        BY <1>3 DEF TypeOK, StartBroken
    <2>2. Exit(start[e], t).state = "broken"
        BY <2>1, ExitFields
    <2> QED
        BY <2>1, <2>2 DEF TypeOK
<1>4. ASSUME NEW a \in Actor, AbortStart(a) PROVE start'[e].state = "broken"
    <2>1. start[e] \in Barrier /\ start' = [start EXCEPT ![cur[a]] = Abort(start[cur[a]])]
        BY <1>4 DEF TypeOK, AbortStart
    <2>2. Abort(start[e]).state = "broken"
        BY <2>1, AbortFields
    <2> QED
        BY <2>1, <2>2 DEF TypeOK
<1>5. CASE start' = start
    BY <1>5
<1> QED
    BY <1>1, <1>2, <1>3, <1>4, <1>5
    DEF Next, Step, Cancel, AddSynchElement, PreRunDone, AwaitStep, StoppedExternally,
        RunWid, SearchMiss, SearchHit, SearchEnd, MyTurn, PointDone, CheckBroken,
        ReadActivePoint, SetDone, EnterEnd, LeaveEnd, EndBroken, RemoveElement, Stop, Pass,
        CancelSynch, AbortEnd, SetAllDone, RebindTable

(* The last LT to arrive at a barrier finds nobody inside the element.     *)
LEMMA AloneAtStart ==
    ASSUME AtOK, StartWaitingOK, NEW t \in LT, EnterStart(t),
           IsLast(start[at[t]], t, Party(at[t])),
           NEW u \in LT, at[u] = at[t], pc[u] \in Inside
    PROVE  FALSE
<1>1. at[u] \in Elem /\ u \in Party(at[u]) /\ u # t
    BY DEF AtOK, InElem, Inside, EnterStart
<1>2. u \in start[at[t]].waiting
    BY <1>1 DEF IsLast
<1> QED
    BY <1>1, <1>2 DEF StartWaitingOK, Inside

(* The last LT to arrive at the end barrier finds nobody inside either.    *)
LEMMA AloneAtEnd ==
    ASSUME AtOK, EndWaitingOK, NEW t \in LT, EnterEnd(t),
           IsLast(end[at[t]], t, Party(at[t])),
           NEW u \in LT, at[u] = at[t], pc[u] \in Inside
    PROVE  FALSE
<1>1. at[u] \in Elem /\ u \in Party(at[u]) /\ u # t
    BY DEF AtOK, InElem, Inside, EnterEnd
<1>2. u \in end[at[t]].waiting
    BY <1>1 DEF IsLast
<1> QED
    BY <1>1, <1>2 DEF EndWaitingOK, Inside

(* While the start barrier is not broken, done flags are genuine.          *)
LEMMA GenuineStep ==
    TypeOK /\ AtOK /\ CurOK /\ AbortFirst /\
    OwnPointDone /\ GenuineOK /\ [Next]_vars => GenuineOK'
<1> SUFFICES ASSUME TypeOK, AtOK, CurOK, AbortFirst, OwnPointDone, GenuineOK, [Next]_vars PROVE GenuineOK'
    OBVIOUS
<1>0. \A e \in Elem : start'[e].state # "broken" /\ done'[e] = done[e] /\ ran'[e] = ran[e]
                         => done'[e] \subseteq ran'[e]
    BY BrokenStays DEF GenuineOK
<1>1. ASSUME NEW t \in LT, AddSynchElement(t) \/ PreRunDone(t) \/ AwaitStep(t) \/ StoppedExternally(t) \/ RunWid(t) \/ SearchMiss(t) \/ SearchHit(t) \/ SearchEnd(t) \/ LeaveStart(t) \/ StartBroken(t) \/ MyTurn(t) \/ PointDone(t) \/ CheckBroken(t) \/ ReadActivePoint(t) \/ LeaveEnd(t) \/ EndBroken(t) \/ RemoveElement(t) \/ Stop(t) \/ Pass(t) PROVE GenuineOK'
    BY <1>1, <1>0
    DEF GenuineOK, AddSynchElement, PreRunDone, AwaitStep, StoppedExternally, RunWid, SearchMiss, SearchHit, SearchEnd, LeaveStart, StartBroken, MyTurn, PointDone, CheckBroken, ReadActivePoint, LeaveEnd, EndBroken, RemoveElement, Stop, Pass
<1>2. ASSUME NEW a \in Actor, CancelSynch(a) \/ AbortEnd(a) \/ AbortStart(a) \/ RebindTable(a) PROVE GenuineOK'
    BY <1>2, <1>0 DEF GenuineOK, CancelSynch, AbortEnd, AbortStart, RebindTable
<1>3. ASSUME NEW t \in LT, EnterStart(t) PROVE GenuineOK'
    <2>1. \A e \in Elem : done'[e] = {} \/ (done'[e] = done[e] /\ ran'[e] = ran[e])
        <3>1. CASE IsLast(start[at[t]], t, Party(at[t]))
            BY <1>3, <3>1 DEF TypeOK, EnterStart
        <3>2. CASE ~IsLast(start[at[t]], t, Party(at[t]))
            BY <1>3, <3>2 DEF EnterStart
        <3> QED
            BY <3>1, <3>2
    <2> QED
        BY <2>1, <1>0 DEF GenuineOK
<1>4. ASSUME NEW t \in LT, SetDone(t) PROVE GenuineOK'
    <2>1. mine[t] = t /\ start' = start
        BY <1>4 DEF OwnPointDone, SetDone, Goto
    <2>2. \A e \in Elem : e # at[t] => done'[e] = done[e] /\ ran'[e] = ran[e]
        BY <1>4 DEF TypeOK, SetDone
    <2>3. at[t] \in Elem => done'[at[t]] = done[at[t]] \cup {t} /\ ran'[at[t]] = ran[at[t]] \cup {t}
        BY <1>4, <2>1 DEF TypeOK, SetDone
    <2> QED
        BY <2>1, <2>2, <2>3 DEF GenuineOK
<1>5. ASSUME NEW t \in LT, EnterEnd(t) PROVE GenuineOK'
    <2>1. \A e \in Elem : done'[e] = {} \/ done'[e] = done[e]
        <3>1. CASE IsLast(end[at[t]], t, Party(at[t]))
            BY <1>5, <3>1 DEF TypeOK, EnterEnd
        <3>2. CASE ~IsLast(end[at[t]], t, Party(at[t]))
            BY <1>5, <3>2 DEF EnterEnd
        <3> QED
            BY <3>1, <3>2
    <2>2. start' = start /\ ran' = ran
        BY <1>5 DEF EnterEnd
    <2> QED
        BY <2>1, <2>2 DEF GenuineOK
<1>6. ASSUME NEW a \in Actor, SetAllDone(a) PROVE GenuineOK'
    <2>1. start[cur[a]].state = "broken" /\ start' = start /\ ran' = ran
        BY <1>6 DEF AbortFirst, SetAllDone
    <2>2. \A e \in Elem : e # cur[a] => done'[e] = done[e]
        BY <1>6 DEF TypeOK, SetAllDone
    <2> QED
        BY <2>1, <2>2 DEF GenuineOK
<1>7. CASE UNCHANGED vars
    BY <1>7, <1>0 DEF GenuineOK
<1> QED
    BY <1>1, <1>2, <1>3, <1>4, <1>5, <1>6, <1>7
    DEF Next, Step, Cancel

(* An element with a party has points.                                     *)
LEMMA PartyLen ==
    ASSUME NEW e \in Elem, NEW t \in Party(e)
    PROVE  Len(Points[e]) \in Nat \ {0}
<1>1. Len(Points[e]) \in Nat
    BY PointsAssumption, LenProperties
<1>2. 1..Len(Points[e]) # {}
    BY DEF Party
<1> QED
    BY <1>1, <1>2

(* A canceller aborts the start barrier before it sets done flags.         *)
LEMMA AbortFirstStep ==
    TypeOK /\ AtOK /\ CurOK /\ AbortFirst /\ [Next]_vars => AbortFirst'
<1> SUFFICES ASSUME TypeOK, AtOK, CurOK, AbortFirst, [Next]_vars PROVE AbortFirst'
    OBVIOUS
<1> USE DEF Goto, Inside
<1>1. ASSUME NEW t \in LT, AddSynchElement(t) PROVE AbortFirst'
    BY <1>1 DEF TypeOK, AbortFirst, AddSynchElement
<1>2. ASSUME NEW t \in LT, PreRunDone(t) PROVE AbortFirst'
    BY <1>2 DEF TypeOK, AbortFirst, PreRunDone
<1>3. ASSUME NEW t \in LT, AwaitStep(t) PROVE AbortFirst'
    BY <1>3 DEF TypeOK, AbortFirst, AwaitStep
<1>4. ASSUME NEW t \in LT, StoppedExternally(t) PROVE AbortFirst'
    BY <1>4 DEF TypeOK, AbortFirst, StoppedExternally
<1>5. ASSUME NEW t \in LT, RunWid(t) PROVE AbortFirst'
    BY <1>5 DEF TypeOK, AbortFirst, RunWid
<1>6. ASSUME NEW t \in LT, SearchMiss(t) PROVE AbortFirst'
    BY <1>6 DEF TypeOK, AbortFirst, SearchMiss
<1>7. ASSUME NEW t \in LT, SearchHit(t) PROVE AbortFirst'
    BY <1>7 DEF TypeOK, AbortFirst, SearchHit
<1>8. ASSUME NEW t \in LT, SearchEnd(t) PROVE AbortFirst'
    BY <1>8 DEF TypeOK, AbortFirst, SearchEnd
<1>9. ASSUME NEW t \in LT, EnterStart(t) PROVE AbortFirst'
    BY <1>9, BrokenStays DEF CurOK, AbortFirst, EnterStart
<1>10. ASSUME NEW t \in LT, LeaveStart(t) PROVE AbortFirst'
    BY <1>10, BrokenStays DEF CurOK, AbortFirst, LeaveStart
<1>11. ASSUME NEW t \in LT, StartBroken(t) PROVE AbortFirst'
    BY <1>11, BrokenStays DEF CurOK, AbortFirst, StartBroken
<1>12. ASSUME NEW t \in LT, MyTurn(t) PROVE AbortFirst'
    BY <1>12 DEF TypeOK, AbortFirst, MyTurn
<1>13. ASSUME NEW t \in LT, PointDone(t) PROVE AbortFirst'
    BY <1>13 DEF TypeOK, AbortFirst, PointDone
<1>14. ASSUME NEW t \in LT, CheckBroken(t) PROVE AbortFirst'
    BY <1>14 DEF TypeOK, AbortFirst, CheckBroken
<1>15. ASSUME NEW t \in LT, ReadActivePoint(t) PROVE AbortFirst'
    BY <1>15 DEF TypeOK, AbortFirst, ReadActivePoint
<1>16. ASSUME NEW t \in LT, SetDone(t) PROVE AbortFirst'
    BY <1>16 DEF TypeOK, AbortFirst, SetDone
<1>17. ASSUME NEW t \in LT, EnterEnd(t) PROVE AbortFirst'
    BY <1>17 DEF TypeOK, AbortFirst, EnterEnd
<1>18. ASSUME NEW t \in LT, LeaveEnd(t) PROVE AbortFirst'
    BY <1>18 DEF TypeOK, AbortFirst, LeaveEnd
<1>19. ASSUME NEW t \in LT, EndBroken(t) PROVE AbortFirst'
    BY <1>19 DEF TypeOK, AbortFirst, EndBroken
<1>20. ASSUME NEW t \in LT, RemoveElement(t) PROVE AbortFirst'
    BY <1>20 DEF TypeOK, AbortFirst, RemoveElement
<1>21. ASSUME NEW t \in LT, Stop(t) PROVE AbortFirst'
    BY <1>21 DEF TypeOK, AbortFirst, Stop
<1>22. ASSUME NEW t \in LT, Pass(t) PROVE AbortFirst'
    BY <1>22 DEF TypeOK, AbortFirst, Pass
<1>23. ASSUME NEW a \in Actor, CancelSynch(a) PROVE AbortFirst'
    BY <1>23 DEF TypeOK, AbortFirst, CancelSynch
<1>24. ASSUME NEW a \in Actor, AbortEnd(a) PROVE AbortFirst'
    BY <1>24 DEF TypeOK, AbortFirst, AbortEnd
<1>25. ASSUME NEW a \in Actor, AbortStart(a) PROVE AbortFirst'
    <2>1. cur[a] \in Elem /\ cur' = cur
        BY <1>25 DEF CurOK, AbortStart
    <2>2. start'[cur[a]].state = "broken"
        BY <1>25, <2>1, AbortFields DEF TypeOK, AbortStart
    <2>3. \A c \in Actor \ {a} : cpc'[c] = cpc[c]
        BY <1>25 DEF TypeOK, AbortStart
    <2> QED
        BY <2>1, <2>2, <2>3, BrokenStays DEF CurOK, AbortFirst
<1>26. ASSUME NEW a \in Actor, SetAllDone(a) PROVE AbortFirst'
    BY <1>26 DEF TypeOK, AbortFirst, SetAllDone
<1>27. ASSUME NEW a \in Actor, RebindTable(a) PROVE AbortFirst'
    BY <1>27 DEF TypeOK, AbortFirst, RebindTable
<1>28. CASE UNCHANGED vars
    BY <1>28 DEF AbortFirst
<1> QED
    BY <1>1, <1>2, <1>3, <1>4, <1>5, <1>6, <1>7, <1>8, <1>9, <1>10, <1>11,
       <1>12, <1>13, <1>14, <1>15, <1>16, <1>17, <1>18, <1>19, <1>20, <1>21,
       <1>22, <1>23, <1>24, <1>25, <1>26, <1>27, <1>28
    DEF Next, Step, Cancel

(* An LT inside the element has not finished in this round.                *)
LEMMA UnfinishedStep ==
    TypeOK /\ AtOK /\ CurOK /\ StartWaitingOK /\ EndWaitingOK /\ GenuineOK /\
    UnfinishedOK /\ LoopOK /\ CheckOK /\ [Next]_vars => UnfinishedOK'
<1> SUFFICES ASSUME TypeOK, AtOK, CurOK, StartWaitingOK, EndWaitingOK, GenuineOK, UnfinishedOK, LoopOK, CheckOK, [Next]_vars PROVE UnfinishedOK'
    OBVIOUS
<1> USE DEF Goto, Inside
<1>1. ASSUME NEW t \in LT, AddSynchElement(t) PROVE UnfinishedOK'
    BY <1>1 DEF TypeOK, UnfinishedOK, AddSynchElement
<1>2. ASSUME NEW t \in LT, PreRunDone(t) PROVE UnfinishedOK'
    BY <1>2 DEF TypeOK, UnfinishedOK, PreRunDone
<1>3. ASSUME NEW t \in LT, AwaitStep(t) PROVE UnfinishedOK'
    BY <1>3 DEF TypeOK, UnfinishedOK, AwaitStep
<1>4. ASSUME NEW t \in LT, StoppedExternally(t) PROVE UnfinishedOK'
    BY <1>4 DEF TypeOK, UnfinishedOK, StoppedExternally
<1>5. ASSUME NEW t \in LT, RunWid(t) PROVE UnfinishedOK'
    BY <1>5 DEF TypeOK, UnfinishedOK, RunWid
<1>6. ASSUME NEW t \in LT, SearchMiss(t) PROVE UnfinishedOK'
    BY <1>6 DEF TypeOK, UnfinishedOK, SearchMiss
<1>7. ASSUME NEW t \in LT, SearchHit(t) PROVE UnfinishedOK'
    BY <1>7 DEF TypeOK, UnfinishedOK, SearchHit
<1>8. ASSUME NEW t \in LT, SearchEnd(t) PROVE UnfinishedOK'
    BY <1>8 DEF TypeOK, UnfinishedOK, SearchEnd
<1>9. ASSUME NEW t \in LT, EnterStart(t) PROVE UnfinishedOK'
    <2>1. at[t] \in Elem /\ start[at[t]] \in Barrier /\ at' = at
        BY <1>9 DEF TypeOK, AtOK, InElem, EnterStart
    <2>2. \A u \in LT \ {t} : pc'[u] = pc[u]
        BY <1>9 DEF TypeOK, EnterStart
    <2>3. \A e \in Elem \ {at[t]} : start'[e] = start[e] /\ ran'[e] = ran[e]
        BY <1>9 DEF TypeOK, EnterStart
    <2>4. \A u \in LT : pc'[u] \in Inside \cup {"at_start"} => at[u] \in Elem
        BY <1>9, <2>1, <2>2 DEF AtOK, InElem
    <2>5. CASE IsLast(start[at[t]], t, Party(at[t]))
        <3>1. ran'[at[t]] = {}
            BY <1>9, <2>1, <2>5 DEF TypeOK, EnterStart
        <3> QED
            BY <2>1, <2>2, <2>3, <2>4, <3>1 DEF UnfinishedOK
    <2>6. CASE ~IsLast(start[at[t]], t, Party(at[t]))
        <3>1. ran' = ran /\ pc'[t] = "at_start"
            BY <1>9, <2>6 DEF TypeOK, EnterStart
        <3>2. start'[at[t]].state = "fill"
            BY <1>9, <2>1, <2>6, EnterFields DEF TypeOK, EnterStart
        <3> QED
            BY <2>1, <2>2, <2>3, <2>4, <3>1, <3>2 DEF UnfinishedOK
    <2> QED
        BY <2>5, <2>6
<1>10. ASSUME NEW t \in LT, LeaveStart(t) PROVE UnfinishedOK'
    <2>1. at[t] \in Elem /\ start[at[t]] \in Barrier /\ at' = at /\ ran' = ran
        BY <1>10 DEF TypeOK, AtOK, InElem, LeaveStart
    <2>2. \A e \in Elem : start'[e].state = "drain" => start[e].state = "drain"
        BY <1>10, <2>1, ExitFields DEF TypeOK, LeaveStart
    <2>3. t \notin ran[at[t]] /\ \A u \in LT \ {t} : pc'[u] = pc[u]
        BY <1>10 DEF TypeOK, UnfinishedOK, LeaveStart
    <2> QED
        BY <2>1, <2>2, <2>3 DEF UnfinishedOK, AtOK, InElem
<1>11. ASSUME NEW t \in LT, StartBroken(t) PROVE UnfinishedOK'
    <2>1. at[t] \in Elem /\ start[at[t]] \in Barrier /\ at' = at /\ ran' = ran
        BY <1>11 DEF TypeOK, AtOK, InElem, StartBroken
    <2>2. \A e \in Elem : start'[e].state = "drain" => start[e].state = "drain"
        BY <1>11, <2>1, ExitFields DEF TypeOK, StartBroken
    <2>3. pc'[t] = "raised" /\ \A u \in LT \ {t} : pc'[u] = pc[u]
        BY <1>11 DEF TypeOK, StartBroken
    <2> QED
        BY <2>1, <2>2, <2>3 DEF UnfinishedOK, AtOK, InElem
<1>12. ASSUME NEW t \in LT, MyTurn(t) PROVE UnfinishedOK'
    BY <1>12 DEF TypeOK, UnfinishedOK, MyTurn
<1>13. ASSUME NEW t \in LT, PointDone(t) PROVE UnfinishedOK'
    BY <1>13 DEF TypeOK, UnfinishedOK, PointDone
<1>14. ASSUME NEW t \in LT, CheckBroken(t) PROVE UnfinishedOK'
    BY <1>14 DEF TypeOK, UnfinishedOK, CheckBroken
<1>15. ASSUME NEW t \in LT, ReadActivePoint(t) PROVE UnfinishedOK'
    BY <1>15 DEF TypeOK, UnfinishedOK, ReadActivePoint
<1>16. ASSUME NEW t \in LT, SetDone(t) PROVE UnfinishedOK'
    <2>1. pc'[t] = "enter_end" /\ at' = at /\ start' = start
        BY <1>16 DEF TypeOK, SetDone
    <2>2. \A u \in LT \ {t} : pc'[u] = pc[u]
        BY <1>16 DEF TypeOK, SetDone
    <2>3. \A e \in Elem : ran'[e] \subseteq ran[e] \cup {t}
        BY <1>16 DEF TypeOK, SetDone
    <2> QED
        BY <2>1, <2>2, <2>3 DEF UnfinishedOK, AtOK, InElem
<1>17. ASSUME NEW t \in LT, EnterEnd(t) PROVE UnfinishedOK'
    BY <1>17 DEF TypeOK, UnfinishedOK, EnterEnd
<1>18. ASSUME NEW t \in LT, LeaveEnd(t) PROVE UnfinishedOK'
    BY <1>18 DEF TypeOK, UnfinishedOK, LeaveEnd
<1>19. ASSUME NEW t \in LT, EndBroken(t) PROVE UnfinishedOK'
    BY <1>19 DEF TypeOK, UnfinishedOK, EndBroken
<1>20. ASSUME NEW t \in LT, RemoveElement(t) PROVE UnfinishedOK'
    BY <1>20 DEF TypeOK, UnfinishedOK, RemoveElement
<1>21. ASSUME NEW t \in LT, Stop(t) PROVE UnfinishedOK'
    BY <1>21 DEF TypeOK, UnfinishedOK, Stop
<1>22. ASSUME NEW t \in LT, Pass(t) PROVE UnfinishedOK'
    BY <1>22 DEF TypeOK, UnfinishedOK, Pass
<1>23. ASSUME NEW a \in Actor, CancelSynch(a) PROVE UnfinishedOK'
    BY <1>23 DEF TypeOK, UnfinishedOK, CancelSynch
<1>24. ASSUME NEW a \in Actor, AbortEnd(a) PROVE UnfinishedOK'
    BY <1>24 DEF TypeOK, UnfinishedOK, AbortEnd
<1>25. ASSUME NEW a \in Actor, AbortStart(a) PROVE UnfinishedOK'
    <2>1. cur[a] \in Elem /\ start[cur[a]] \in Barrier
        BY <1>25 DEF TypeOK, CurOK, AbortStart
    <2>2. \A e \in Elem : start'[e].state = "drain" => start[e].state = "drain"
        BY <1>25, <2>1, AbortFields DEF TypeOK, AbortStart
    <2>3. pc' = pc /\ at' = at /\ ran' = ran
        BY <1>25 DEF AbortStart
    <2> QED
        BY <2>2, <2>3 DEF UnfinishedOK, AtOK, InElem
<1>26. ASSUME NEW a \in Actor, SetAllDone(a) PROVE UnfinishedOK'
    BY <1>26 DEF TypeOK, UnfinishedOK, SetAllDone
<1>27. ASSUME NEW a \in Actor, RebindTable(a) PROVE UnfinishedOK'
    BY <1>27 DEF TypeOK, UnfinishedOK, RebindTable
<1>28. CASE UNCHANGED vars
    BY <1>28 DEF UnfinishedOK
<1> QED
    BY <1>1, <1>2, <1>3, <1>4, <1>5, <1>6, <1>7, <1>8, <1>9, <1>10, <1>11,
       <1>12, <1>13, <1>14, <1>15, <1>16, <1>17, <1>18, <1>19, <1>20, <1>21,
       <1>22, <1>23, <1>24, <1>25, <1>26, <1>27, <1>28
    DEF Next, Step, Cancel

(* An LT in the turn loop has seen everybody before its position finish.   *)
LEMMA LoopStep ==
    TypeOK /\ AtOK /\ CurOK /\ StartWaitingOK /\ EndWaitingOK /\ GenuineOK /\
    UnfinishedOK /\ LoopOK /\ CheckOK /\ [Next]_vars => LoopOK'
<1> SUFFICES ASSUME TypeOK, AtOK, CurOK, StartWaitingOK, EndWaitingOK, GenuineOK, UnfinishedOK, LoopOK, CheckOK, [Next]_vars PROVE LoopOK'
    OBVIOUS
<1> USE DEF Goto, Inside
<1>1. ASSUME NEW t \in LT, AddSynchElement(t) PROVE LoopOK'
    BY <1>1 DEF TypeOK, LoopOK, AddSynchElement
<1>2. ASSUME NEW t \in LT, PreRunDone(t) PROVE LoopOK'
    BY <1>2 DEF TypeOK, LoopOK, PreRunDone
<1>3. ASSUME NEW t \in LT, AwaitStep(t) PROVE LoopOK'
    BY <1>3 DEF TypeOK, LoopOK, AwaitStep
<1>4. ASSUME NEW t \in LT, StoppedExternally(t) PROVE LoopOK'
    BY <1>4 DEF TypeOK, LoopOK, StoppedExternally
<1>5. ASSUME NEW t \in LT, RunWid(t) PROVE LoopOK'
    BY <1>5 DEF TypeOK, LoopOK, RunWid
<1>6. ASSUME NEW t \in LT, SearchMiss(t) PROVE LoopOK'
    BY <1>6 DEF TypeOK, LoopOK, SearchMiss
<1>7. ASSUME NEW t \in LT, SearchHit(t) PROVE LoopOK'
    BY <1>7 DEF TypeOK, LoopOK, SearchHit
<1>8. ASSUME NEW t \in LT, SearchEnd(t) PROVE LoopOK'
    BY <1>8 DEF TypeOK, LoopOK, SearchEnd
<1>9. ASSUME NEW t \in LT, EnterStart(t) PROVE LoopOK'
    <2>1. at[t] \in Elem /\ at' = at /\ Len(Points[at[t]]) \in Nat \ {0}
        BY <1>9, PartyLen DEF AtOK, InElem, EnterStart
    <2>2. CASE IsLast(start[at[t]], t, Party(at[t]))
        <3>1. turn'[t] = 1
            BY <1>9, <2>2 DEF TypeOK, EnterStart
        <3>2. ASSUME NEW u \in LT \ {t}, pc'[u] \in {"turn", "check"}
              PROVE  pc[u] = pc'[u] /\ turn'[u] = turn[u] /\ ran'[at[u]] = ran[at[u]]
            <4>1. pc[u] = pc'[u] /\ turn'[u] = turn[u]
                BY <1>9, <2>2 DEF TypeOK, EnterStart
            <4>2. at[u] \in Elem /\ at[u] # at[t]
                BY <1>9, <2>2, <3>2, <4>1, AloneAtStart DEF AtOK, InElem
            <4> QED
                BY <1>9, <2>2, <4>1, <4>2 DEF TypeOK, EnterStart
        <3> QED
            BY <2>1, <3>1, <3>2 DEF LoopOK
    <2>3. CASE ~IsLast(start[at[t]], t, Party(at[t]))
        BY <1>9, <2>3 DEF TypeOK, LoopOK, EnterStart
    <2> QED
        BY <2>2, <2>3
<1>10. ASSUME NEW t \in LT, LeaveStart(t) PROVE LoopOK'
    <2>1. at' = at /\ Len(Points[at[t]]) \in Nat \ {0} /\ ran' = ran
        BY <1>10, PartyLen DEF AtOK, InElem, LeaveStart
    <2> QED
        BY <1>10, <2>1 DEF TypeOK, LoopOK, LeaveStart
<1>11. ASSUME NEW t \in LT, StartBroken(t) PROVE LoopOK'
    BY <1>11 DEF TypeOK, LoopOK, StartBroken
<1>12. ASSUME NEW t \in LT, MyTurn(t) PROVE LoopOK'
    BY <1>12 DEF TypeOK, LoopOK, MyTurn
<1>13. ASSUME NEW t \in LT, PointDone(t) PROVE LoopOK'
    BY <1>13 DEF TypeOK, LoopOK, PointDone
<1>14. ASSUME NEW t \in LT, CheckBroken(t) PROVE LoopOK'
    <2>1. at' = at /\ ran' = ran /\ \A u \in LT \ {t} : pc'[u] = pc[u] /\ turn'[u] = turn[u]
        BY <1>14 DEF TypeOK, CheckBroken
    <2>2. CASE Broken(at[t])
        BY <1>14, <2>1, <2>2 DEF TypeOK, LoopOK, CheckBroken
    <2>3. CASE ~Broken(at[t])
        <3>1. turn'[t] = turn[t] + 1
            BY <1>14, <2>3 DEF TypeOK, CheckBroken
        <3>2. at[t] \in Elem /\ t \in Party(at[t]) /\ t \notin ran[at[t]]
            BY <1>14 DEF AtOK, InElem, UnfinishedOK, CheckBroken
        <3>3. Points[at[t]][turn[t]].lt \in ran[at[t]]
            BY <1>14, <2>3, <3>2 DEF CheckOK, GenuineOK, TurnIs, Broken, CheckBroken
        <3>4. turn[t] \in 1..Len(Points[at[t]])
              /\ \A k \in 1..(turn[t] - 1) : Points[at[t]][k].lt \in ran[at[t]]
            BY <1>14 DEF LoopOK, CheckBroken
        <3>5. PICK r \in 1..Len(Points[at[t]]) : Points[at[t]][r].lt = t
            BY <3>2 DEF Party
        <3>6. Len(Points[at[t]]) \in Nat
            BY <3>2, PartyLen
        <3>7. r > turn[t]
            BY <3>2, <3>3, <3>4, <3>5, <3>6
        <3>8. turn[t] + 1 \in 1..Len(Points[at[t]])
              /\ \A k \in 1..turn[t] : Points[at[t]][k].lt \in ran[at[t]]
            BY <3>3, <3>4, <3>5, <3>6, <3>7
        <3> QED
            BY <2>1, <3>1, <3>4, <3>8 DEF LoopOK
    <2> QED
        BY <2>2, <2>3
<1>15. ASSUME NEW t \in LT, ReadActivePoint(t) PROVE LoopOK'
    BY <1>15 DEF TypeOK, LoopOK, ReadActivePoint
<1>16. ASSUME NEW t \in LT, SetDone(t) PROVE LoopOK'
    <2>1. at' = at /\ turn' = turn /\ pc'[t] = "enter_end"
        BY <1>16 DEF TypeOK, SetDone
    <2>2. \A u \in LT \ {t} : pc'[u] = pc[u]
        BY <1>16 DEF TypeOK, SetDone
    <2>3. \A e \in Elem : ran[e] \subseteq ran'[e]
        BY <1>16 DEF TypeOK, SetDone
    <2> QED
        BY <2>1, <2>2, <2>3 DEF LoopOK, AtOK, InElem
<1>17. ASSUME NEW t \in LT, EnterEnd(t) PROVE LoopOK'
    BY <1>17 DEF TypeOK, LoopOK, EnterEnd
<1>18. ASSUME NEW t \in LT, LeaveEnd(t) PROVE LoopOK'
    BY <1>18 DEF TypeOK, LoopOK, LeaveEnd
<1>19. ASSUME NEW t \in LT, EndBroken(t) PROVE LoopOK'
    BY <1>19 DEF TypeOK, LoopOK, EndBroken
<1>20. ASSUME NEW t \in LT, RemoveElement(t) PROVE LoopOK'
    BY <1>20 DEF TypeOK, LoopOK, RemoveElement
<1>21. ASSUME NEW t \in LT, Stop(t) PROVE LoopOK'
    BY <1>21 DEF TypeOK, LoopOK, Stop
<1>22. ASSUME NEW t \in LT, Pass(t) PROVE LoopOK'
    BY <1>22 DEF TypeOK, LoopOK, Pass
<1>23. ASSUME NEW a \in Actor, CancelSynch(a) PROVE LoopOK'
    BY <1>23 DEF TypeOK, LoopOK, CancelSynch
<1>24. ASSUME NEW a \in Actor, AbortEnd(a) PROVE LoopOK'
    BY <1>24 DEF TypeOK, LoopOK, AbortEnd
<1>25. ASSUME NEW a \in Actor, AbortStart(a) PROVE LoopOK'
    BY <1>25 DEF TypeOK, LoopOK, AbortStart
<1>26. ASSUME NEW a \in Actor, SetAllDone(a) PROVE LoopOK'
    BY <1>26 DEF TypeOK, LoopOK, SetAllDone
<1>27. ASSUME NEW a \in Actor, RebindTable(a) PROVE LoopOK'
    BY <1>27 DEF TypeOK, LoopOK, RebindTable
<1>28. CASE UNCHANGED vars
    BY <1>28 DEF LoopOK
<1> QED
    BY <1>1, <1>2, <1>3, <1>4, <1>5, <1>6, <1>7, <1>8, <1>9, <1>10, <1>11,
       <1>12, <1>13, <1>14, <1>15, <1>16, <1>17, <1>18, <1>19, <1>20, <1>21,
       <1>22, <1>23, <1>24, <1>25, <1>26, <1>27, <1>28
    DEF Next, Step, Cancel

(* The LT whose turn it is follows everybody before it, and no other LT    *)
(* that handles a WID in the element can be before or after it.            *)
LEMMA TurnFollows ==
    ASSUME AtOK, LoopOK, NEW t \in LT, pc[t] = "turn", TurnIs(t) = t
    PROVE  Earlier(at[t], t) \subseteq ran[at[t]]
<1>1. at[t] \in Elem /\ turn[t] \in 1..Len(Points[at[t]])
    BY DEF AtOK, LoopOK, InElem, Inside
<1>2. Len(Points[at[t]]) \in Nat
    BY <1>1, PointsAssumption, LenProperties
<1> SUFFICES ASSUME NEW j \in 1..Len(Points[at[t]]), NEW k \in 1..Len(Points[at[t]]),
                    j < k, Points[at[t]][k].lt = t
             PROVE  Points[at[t]][j].lt \in ran[at[t]]
    BY DEF Earlier
<1>3. k = turn[t]
    BY <1>1, PointsAssumption DEF TurnIs
<1>4. j \in 1..(turn[t] - 1)
    BY <1>1, <1>2, <1>3
<1> QED
    BY <1>4 DEF LoopOK

(* When it is an LT's turn, no other LT handles a WID of the element.      *)
LEMMA TurnAlone ==
    ASSUME AtOK, LoopOK, UnfinishedOK, TurnOrder,
           NEW t \in LT, pc[t] = "turn", TurnIs(t) = t,
           NEW u \in LT, Handling(at[t], u)
    PROVE  FALSE
<1>1. at[u] = at[t] /\ pc[u] \in {"wid", "delay"} /\ u # t
    BY DEF Handling
<1>2. at[t] \in Elem /\ turn[t] \in 1..Len(Points[at[t]]) /\ Points[at[t]][turn[t]].lt = t
    BY DEF AtOK, LoopOK, InElem, Inside, TurnIs
<1>3. u \notin ran[at[t]] /\ t \notin ran[at[t]] /\ u \in Party(at[t])
    BY <1>1 DEF UnfinishedOK, Inside, AtOK, InElem
<1>4. Earlier(at[t], u) \subseteq ran[at[t]]
    BY <1>1, <1>2 DEF TurnOrder
<1>5. PICK i \in 1..Len(Points[at[t]]) : Points[at[t]][i].lt = u
    BY <1>3 DEF Party
<1>6. Len(Points[at[t]]) \in Nat
    BY <1>2, PointsAssumption, LenProperties
<1>7. CASE i < turn[t]
    <2>1. i \in 1..(turn[t] - 1)
        BY <1>2, <1>5, <1>6, <1>7
    <2> QED
        BY <1>3, <1>5, <2>1 DEF LoopOK
<1>8. CASE turn[t] < i
    <2>1. t \in Earlier(at[t], u)
        BY <1>2, <1>5, <1>8 DEF Earlier
    <2> QED
        BY <1>3, <1>4, <2>1
<1>9. CASE i = turn[t]
    BY <1>1, <1>2, <1>5, <1>9
<1> QED
    BY <1>2, <1>5, <1>6, <1>7, <1>8, <1>9

(* An LT that checks for broken barriers has seen a done flag.             *)
LEMMA CheckStep ==
    TypeOK /\ AtOK /\ StartWaitingOK /\ EndWaitingOK /\ CurOK /\
    LoopOK /\ UnfinishedOK /\ CheckOK /\ [Next]_vars => CheckOK'
<1> SUFFICES ASSUME TypeOK, AtOK, StartWaitingOK, EndWaitingOK, CurOK, LoopOK, UnfinishedOK, CheckOK, [Next]_vars PROVE CheckOK'
    OBVIOUS
<1> USE DEF Goto, Inside
<1>1. ASSUME NEW t \in LT, AddSynchElement(t) PROVE CheckOK'
    BY <1>1 DEF TypeOK, CheckOK, TurnIs, AtOK, InElem, AddSynchElement
<1>2. ASSUME NEW t \in LT, PreRunDone(t) PROVE CheckOK'
    BY <1>2 DEF TypeOK, CheckOK, TurnIs, AtOK, InElem, PreRunDone
<1>3. ASSUME NEW t \in LT, AwaitStep(t) PROVE CheckOK'
    BY <1>3 DEF TypeOK, CheckOK, TurnIs, AtOK, InElem, AwaitStep
<1>4. ASSUME NEW t \in LT, StoppedExternally(t) PROVE CheckOK'
    BY <1>4 DEF TypeOK, CheckOK, TurnIs, AtOK, InElem, StoppedExternally
<1>5. ASSUME NEW t \in LT, RunWid(t) PROVE CheckOK'
    BY <1>5 DEF TypeOK, CheckOK, TurnIs, AtOK, InElem, RunWid
<1>6. ASSUME NEW t \in LT, SearchMiss(t) PROVE CheckOK'
    BY <1>6 DEF TypeOK, CheckOK, TurnIs, AtOK, InElem, SearchMiss
<1>7. ASSUME NEW t \in LT, SearchHit(t) PROVE CheckOK'
    BY <1>7 DEF TypeOK, CheckOK, TurnIs, AtOK, InElem, SearchHit
<1>8. ASSUME NEW t \in LT, SearchEnd(t) PROVE CheckOK'
    BY <1>8 DEF TypeOK, CheckOK, TurnIs, AtOK, InElem, SearchEnd
<1>9. ASSUME NEW t \in LT, EnterStart(t) PROVE CheckOK'
    <2>1. at' = at
        BY <1>9 DEF EnterStart
    <2>2. CASE IsLast(start[at[t]], t, Party(at[t]))
        <3>1. ASSUME NEW u \in LT, pc'[u] \in Inside \ {"turn"}
              PROVE  pc[u] = pc'[u] /\ turn'[u] = turn[u] /\ mine' = mine /\ active' = active
                     /\ done'[at[u]] = done[at[u]] /\ ran'[at[u]] = ran[at[u]]
            <4>1. pc[u] = pc'[u] /\ turn'[u] = turn[u] /\ u # t
                BY <1>9, <2>2, <3>1 DEF TypeOK, EnterStart
            <4>2. at[u] \in Elem /\ at[u] # at[t]
                BY <1>9, <2>2, <3>1, <4>1, AloneAtStart DEF AtOK, InElem
            <4> QED
                BY <1>9, <2>2, <4>1, <4>2 DEF TypeOK, EnterStart
        <3> QED
            BY <2>1, <3>1 DEF CheckOK, TurnIs
    <2>3. CASE ~IsLast(start[at[t]], t, Party(at[t]))
        BY <1>9, <2>3 DEF TypeOK, EnterStart, CheckOK, TurnIs
    <2> QED
        BY <2>2, <2>3
<1>10. ASSUME NEW t \in LT, LeaveStart(t) PROVE CheckOK'
    BY <1>10 DEF TypeOK, CheckOK, TurnIs, AtOK, InElem, LeaveStart
<1>11. ASSUME NEW t \in LT, StartBroken(t) PROVE CheckOK'
    BY <1>11 DEF TypeOK, CheckOK, TurnIs, AtOK, InElem, StartBroken
<1>12. ASSUME NEW t \in LT, MyTurn(t) PROVE CheckOK'
    BY <1>12 DEF TypeOK, CheckOK, TurnIs, AtOK, InElem, MyTurn
<1>13. ASSUME NEW t \in LT, PointDone(t) PROVE CheckOK'
    <2>1. at' = at /\ turn' = turn /\ done' = done /\ TurnIs(t) # t /\ TurnIs(t) \in done[at[t]]
        BY <1>13 DEF PointDone
    <2>2. \A u \in LT \ {t} : pc'[u] = pc[u]
        BY <1>13 DEF TypeOK, PointDone
    <2> QED
        BY <2>1, <2>2 DEF CheckOK, TurnIs
<1>14. ASSUME NEW t \in LT, CheckBroken(t) PROVE CheckOK'
    <2>1. at' = at /\ done' = done /\ ran' = ran
        BY <1>14 DEF CheckBroken
    <2>2. pc'[t] \in {"raised", "turn"}
        BY <1>14 DEF TypeOK, CheckBroken
    <2>3. \A u \in LT \ {t} : pc'[u] = pc[u] /\ turn'[u] = turn[u]
        BY <1>14 DEF TypeOK, CheckBroken
    <2> QED
        BY <2>1, <2>2, <2>3 DEF CheckOK, TurnIs
<1>15. ASSUME NEW t \in LT, ReadActivePoint(t) PROVE CheckOK'
    BY <1>15 DEF TypeOK, CheckOK, TurnIs, AtOK, InElem, ReadActivePoint
<1>16. ASSUME NEW t \in LT, SetDone(t) PROVE CheckOK'
    <2>1. at' = at /\ turn' = turn /\ pc'[t] = "enter_end"
        BY <1>16 DEF TypeOK, SetDone
    <2>2. \A u \in LT \ {t} : pc'[u] = pc[u]
        BY <1>16 DEF TypeOK, SetDone
    <2>3. \A e \in Elem : done[e] \subseteq done'[e]
        BY <1>16 DEF TypeOK, SetDone
    <2> QED
        BY <2>1, <2>2, <2>3 DEF CheckOK, TurnIs, AtOK, InElem
<1>17. ASSUME NEW t \in LT, EnterEnd(t) PROVE CheckOK'
    <2>1. at' = at
        BY <1>17 DEF EnterEnd
    <2>2. CASE IsLast(end[at[t]], t, Party(at[t]))
        <3>1. ASSUME NEW u \in LT, pc'[u] \in Inside \ {"turn"}
              PROVE  pc[u] = pc'[u] /\ turn'[u] = turn[u] /\ mine' = mine /\ active' = active
                     /\ done'[at[u]] = done[at[u]] /\ ran'[at[u]] = ran[at[u]]
            <4>1. pc[u] = pc'[u] /\ turn'[u] = turn[u] /\ u # t
                BY <1>17, <2>2, <3>1 DEF TypeOK, EnterEnd
            <4>2. at[u] \in Elem /\ at[u] # at[t]
                BY <1>17, <2>2, <3>1, <4>1, AloneAtEnd DEF AtOK, InElem
            <4> QED
                BY <1>17, <2>2, <4>1, <4>2 DEF TypeOK, EnterEnd
        <3> QED
            BY <2>1, <3>1 DEF CheckOK, TurnIs
    <2>3. CASE ~IsLast(end[at[t]], t, Party(at[t]))
        BY <1>17, <2>3 DEF TypeOK, EnterEnd, CheckOK, TurnIs
    <2> QED
        BY <2>2, <2>3
<1>18. ASSUME NEW t \in LT, LeaveEnd(t) PROVE CheckOK'
    BY <1>18 DEF TypeOK, CheckOK, TurnIs, AtOK, InElem, LeaveEnd
<1>19. ASSUME NEW t \in LT, EndBroken(t) PROVE CheckOK'
    BY <1>19 DEF TypeOK, CheckOK, TurnIs, AtOK, InElem, EndBroken
<1>20. ASSUME NEW t \in LT, RemoveElement(t) PROVE CheckOK'
    BY <1>20 DEF TypeOK, CheckOK, TurnIs, AtOK, InElem, RemoveElement
<1>21. ASSUME NEW t \in LT, Stop(t) PROVE CheckOK'
    BY <1>21 DEF TypeOK, CheckOK, TurnIs, AtOK, InElem, Stop
<1>22. ASSUME NEW t \in LT, Pass(t) PROVE CheckOK'
    BY <1>22 DEF TypeOK, CheckOK, TurnIs, AtOK, InElem, Pass
<1>23. ASSUME NEW a \in Actor, CancelSynch(a) PROVE CheckOK'
    BY <1>23 DEF TypeOK, CheckOK, TurnIs, AtOK, InElem, CancelSynch
<1>24. ASSUME NEW a \in Actor, AbortEnd(a) PROVE CheckOK'
    BY <1>24 DEF TypeOK, CheckOK, TurnIs, AtOK, InElem, AbortEnd
<1>25. ASSUME NEW a \in Actor, AbortStart(a) PROVE CheckOK'
    BY <1>25 DEF TypeOK, CheckOK, TurnIs, AtOK, InElem, AbortStart
<1>26. ASSUME NEW a \in Actor, SetAllDone(a) PROVE CheckOK'
    <2>1. at' = at /\ turn' = turn /\ pc' = pc
        BY <1>26 DEF SetAllDone
    <2>2. ASSUME NEW u \in LT, pc[u] = "check"
          PROVE  TurnIs(u) \in Party(at[u]) /\ at[u] \in Elem
        BY <2>2 DEF TurnIs, LoopOK, Party, AtOK, InElem
    <2>3. \A e \in Elem : done'[e] = done[e] \/ done'[e] = Party(e)
        BY <1>26 DEF TypeOK, SetAllDone
    <2> QED
        BY <2>1, <2>2, <2>3 DEF CheckOK, TurnIs
<1>27. ASSUME NEW a \in Actor, RebindTable(a) PROVE CheckOK'
    BY <1>27 DEF TypeOK, CheckOK, TurnIs, AtOK, InElem, RebindTable
<1>28. CASE UNCHANGED vars
    BY <1>28 DEF CheckOK, TurnIs, AtOK, InElem
<1> QED
    BY <1>1, <1>2, <1>3, <1>4, <1>5, <1>6, <1>7, <1>8, <1>9, <1>10, <1>11,
       <1>12, <1>13, <1>14, <1>15, <1>16, <1>17, <1>18, <1>19, <1>20, <1>21,
       <1>22, <1>23, <1>24, <1>25, <1>26, <1>27, <1>28
    DEF Next, Step, Cancel

(* The active point of an element is that of the LT that handles its WID.  *)
LEMMA ActiveStep ==
    TypeOK /\ AtOK /\ StartWaitingOK /\ LoopOK /\ UnfinishedOK /\
    TurnOrder /\ ActiveOK /\ [Next]_vars => ActiveOK'
<1> SUFFICES ASSUME TypeOK, AtOK, StartWaitingOK, LoopOK, UnfinishedOK, TurnOrder, ActiveOK, [Next]_vars PROVE ActiveOK'
    OBVIOUS
<1> USE DEF Goto, Inside
<1>1. ASSUME NEW t \in LT, AddSynchElement(t) PROVE ActiveOK'
    BY <1>1 DEF TypeOK, ActiveOK, AddSynchElement
<1>2. ASSUME NEW t \in LT, PreRunDone(t) PROVE ActiveOK'
    BY <1>2 DEF TypeOK, ActiveOK, PreRunDone
<1>3. ASSUME NEW t \in LT, AwaitStep(t) PROVE ActiveOK'
    BY <1>3 DEF TypeOK, ActiveOK, AwaitStep
<1>4. ASSUME NEW t \in LT, StoppedExternally(t) PROVE ActiveOK'
    BY <1>4 DEF TypeOK, ActiveOK, StoppedExternally
<1>5. ASSUME NEW t \in LT, RunWid(t) PROVE ActiveOK'
    BY <1>5 DEF TypeOK, ActiveOK, RunWid
<1>6. ASSUME NEW t \in LT, SearchMiss(t) PROVE ActiveOK'
    BY <1>6 DEF TypeOK, ActiveOK, SearchMiss
<1>7. ASSUME NEW t \in LT, SearchHit(t) PROVE ActiveOK'
    BY <1>7 DEF TypeOK, ActiveOK, SearchHit
<1>8. ASSUME NEW t \in LT, SearchEnd(t) PROVE ActiveOK'
    BY <1>8 DEF TypeOK, ActiveOK, SearchEnd
<1>9. ASSUME NEW t \in LT, EnterStart(t) PROVE ActiveOK'
    <2>1. at' = at
        BY <1>9 DEF EnterStart
    <2>2. CASE IsLast(start[at[t]], t, Party(at[t]))
        <3>1. ASSUME NEW u \in LT, pc'[u] \in Inside \ {"turn"}
              PROVE  pc[u] = pc'[u] /\ turn'[u] = turn[u] /\ mine' = mine /\ active' = active
                     /\ done'[at[u]] = done[at[u]] /\ ran'[at[u]] = ran[at[u]]
            <4>1. pc[u] = pc'[u] /\ turn'[u] = turn[u] /\ u # t
                BY <1>9, <2>2, <3>1 DEF TypeOK, EnterStart
            <4>2. at[u] \in Elem /\ at[u] # at[t]
                BY <1>9, <2>2, <3>1, <4>1, AloneAtStart DEF AtOK, InElem
            <4> QED
                BY <1>9, <2>2, <4>1, <4>2 DEF TypeOK, EnterStart
        <3> QED
            BY <2>1, <3>1 DEF ActiveOK
    <2>3. CASE ~IsLast(start[at[t]], t, Party(at[t]))
        BY <1>9, <2>3 DEF TypeOK, EnterStart, ActiveOK
    <2> QED
        BY <2>2, <2>3
<1>10. ASSUME NEW t \in LT, LeaveStart(t) PROVE ActiveOK'
    BY <1>10 DEF TypeOK, ActiveOK, LeaveStart
<1>11. ASSUME NEW t \in LT, StartBroken(t) PROVE ActiveOK'
    BY <1>11 DEF TypeOK, ActiveOK, StartBroken
<1>12. ASSUME NEW t \in LT, MyTurn(t) PROVE ActiveOK'
    <2>1. at' = at /\ active' = [active EXCEPT ![at[t]] = t] /\ TurnIs(t) = t /\ pc[t] = "turn"
        BY <1>12 DEF MyTurn
    <2>2. ASSUME NEW u \in LT \ {t}, pc'[u] = "wid"
          PROVE  active'[at[u]] = active[at[u]] /\ pc[u] = "wid"
        <3>1. pc[u] = "wid"
            BY <1>12, <2>2 DEF TypeOK, MyTurn
        <3>2. at[u] # at[t] /\ at[u] \in Elem
            BY <2>1, <3>1, TurnAlone DEF Handling, AtOK, InElem
        <3> QED
            BY <2>1, <3>1, <3>2 DEF TypeOK
    <2>3. at[t] \in Elem
        BY <2>1 DEF AtOK, InElem
    <2> QED
        BY <2>1, <2>2, <2>3 DEF TypeOK, ActiveOK
<1>13. ASSUME NEW t \in LT, PointDone(t) PROVE ActiveOK'
    BY <1>13 DEF TypeOK, ActiveOK, PointDone
<1>14. ASSUME NEW t \in LT, CheckBroken(t) PROVE ActiveOK'
    BY <1>14 DEF TypeOK, ActiveOK, CheckBroken
<1>15. ASSUME NEW t \in LT, ReadActivePoint(t) PROVE ActiveOK'
    BY <1>15 DEF TypeOK, ActiveOK, ReadActivePoint
<1>16. ASSUME NEW t \in LT, SetDone(t) PROVE ActiveOK'
    BY <1>16 DEF TypeOK, ActiveOK, SetDone
<1>17. ASSUME NEW t \in LT, EnterEnd(t) PROVE ActiveOK'
    BY <1>17 DEF TypeOK, ActiveOK, EnterEnd
<1>18. ASSUME NEW t \in LT, LeaveEnd(t) PROVE ActiveOK'
    BY <1>18 DEF TypeOK, ActiveOK, LeaveEnd
<1>19. ASSUME NEW t \in LT, EndBroken(t) PROVE ActiveOK'
    BY <1>19 DEF TypeOK, ActiveOK, EndBroken
<1>20. ASSUME NEW t \in LT, RemoveElement(t) PROVE ActiveOK'
    BY <1>20 DEF TypeOK, ActiveOK, RemoveElement
<1>21. ASSUME NEW t \in LT, Stop(t) PROVE ActiveOK'
    BY <1>21 DEF TypeOK, ActiveOK, Stop
<1>22. ASSUME NEW t \in LT, Pass(t) PROVE ActiveOK'
    BY <1>22 DEF TypeOK, ActiveOK, Pass
<1>23. ASSUME NEW a \in Actor, CancelSynch(a) PROVE ActiveOK'
    BY <1>23 DEF TypeOK, ActiveOK, CancelSynch
<1>24. ASSUME NEW a \in Actor, AbortEnd(a) PROVE ActiveOK'
    BY <1>24 DEF TypeOK, ActiveOK, AbortEnd
<1>25. ASSUME NEW a \in Actor, AbortStart(a) PROVE ActiveOK'
    BY <1>25 DEF TypeOK, ActiveOK, AbortStart
<1>26. ASSUME NEW a \in Actor, SetAllDone(a) PROVE ActiveOK'
    BY <1>26 DEF TypeOK, ActiveOK, SetAllDone
<1>27. ASSUME NEW a \in Actor, RebindTable(a) PROVE ActiveOK'
    BY <1>27 DEF TypeOK, ActiveOK, RebindTable
<1>28. CASE UNCHANGED vars
    BY <1>28 DEF ActiveOK
<1> QED
    BY <1>1, <1>2, <1>3, <1>4, <1>5, <1>6, <1>7, <1>8, <1>9, <1>10, <1>11,
       <1>12, <1>13, <1>14, <1>15, <1>16, <1>17, <1>18, <1>19, <1>20, <1>21,
       <1>22, <1>23, <1>24, <1>25, <1>26, <1>27, <1>28
    DEF Next, Step, Cancel

(* Every step keeps the order of the turns.                                *)
LEMMA TurnOrderStep ==
    TypeOK /\ AtOK /\ StartWaitingOK /\ LoopOK /\ UnfinishedOK /\
    TurnOrder /\ ActiveOK /\ [Next]_vars => TurnOrder'
<1> SUFFICES ASSUME TypeOK, AtOK, StartWaitingOK, LoopOK, UnfinishedOK, TurnOrder, ActiveOK, [Next]_vars PROVE TurnOrder'
    OBVIOUS
<1> USE DEF Goto, Inside
<1>1. ASSUME NEW t \in LT, AddSynchElement(t) PROVE TurnOrder'
    BY <1>1 DEF TypeOK, TurnOrder, Handling, AddSynchElement
<1>2. ASSUME NEW t \in LT, PreRunDone(t) PROVE TurnOrder'
    BY <1>2 DEF TypeOK, TurnOrder, Handling, PreRunDone
<1>3. ASSUME NEW t \in LT, AwaitStep(t) PROVE TurnOrder'
    BY <1>3 DEF TypeOK, TurnOrder, Handling, AwaitStep
<1>4. ASSUME NEW t \in LT, StoppedExternally(t) PROVE TurnOrder'
    BY <1>4 DEF TypeOK, TurnOrder, Handling, StoppedExternally
<1>5. ASSUME NEW t \in LT, RunWid(t) PROVE TurnOrder'
    BY <1>5 DEF TypeOK, TurnOrder, Handling, RunWid
<1>6. ASSUME NEW t \in LT, SearchMiss(t) PROVE TurnOrder'
    BY <1>6 DEF TypeOK, TurnOrder, Handling, SearchMiss
<1>7. ASSUME NEW t \in LT, SearchHit(t) PROVE TurnOrder'
    BY <1>7 DEF TypeOK, TurnOrder, Handling, SearchHit
<1>8. ASSUME NEW t \in LT, SearchEnd(t) PROVE TurnOrder'
    BY <1>8 DEF TypeOK, TurnOrder, Handling, SearchEnd
<1>9. ASSUME NEW t \in LT, EnterStart(t) PROVE TurnOrder'
    <2>1. at' = at
        BY <1>9 DEF EnterStart
    <2>2. CASE IsLast(start[at[t]], t, Party(at[t]))
        <3>1. ASSUME NEW u \in LT, pc'[u] \in Inside \ {"turn"}
              PROVE  pc[u] = pc'[u] /\ turn'[u] = turn[u] /\ mine' = mine /\ active' = active
                     /\ done'[at[u]] = done[at[u]] /\ ran'[at[u]] = ran[at[u]]
            <4>1. pc[u] = pc'[u] /\ turn'[u] = turn[u] /\ u # t
                BY <1>9, <2>2, <3>1 DEF TypeOK, EnterStart
            <4>2. at[u] \in Elem /\ at[u] # at[t]
                BY <1>9, <2>2, <3>1, <4>1, AloneAtStart DEF AtOK, InElem
            <4> QED
                BY <1>9, <2>2, <4>1, <4>2 DEF TypeOK, EnterStart
        <3> QED
            BY <2>1, <3>1 DEF TurnOrder, Handling
    <2>3. CASE ~IsLast(start[at[t]], t, Party(at[t]))
        BY <1>9, <2>3 DEF TypeOK, EnterStart, TurnOrder, Handling
    <2> QED
        BY <2>2, <2>3
<1>10. ASSUME NEW t \in LT, LeaveStart(t) PROVE TurnOrder'
    BY <1>10 DEF TypeOK, TurnOrder, Handling, LeaveStart
<1>11. ASSUME NEW t \in LT, StartBroken(t) PROVE TurnOrder'
    BY <1>11 DEF TypeOK, TurnOrder, Handling, StartBroken
<1>12. ASSUME NEW t \in LT, MyTurn(t) PROVE TurnOrder'
    <2>1. at' = at /\ ran' = ran /\ TurnIs(t) = t /\ pc[t] = "turn"
        BY <1>12 DEF MyTurn
    <2>2. \A u \in LT \ {t} : pc'[u] = pc[u]
        BY <1>12 DEF TypeOK, MyTurn
    <2> QED
        BY <2>1, <2>2, TurnFollows DEF TurnOrder, Handling
<1>13. ASSUME NEW t \in LT, PointDone(t) PROVE TurnOrder'
    BY <1>13 DEF TypeOK, TurnOrder, Handling, PointDone
<1>14. ASSUME NEW t \in LT, CheckBroken(t) PROVE TurnOrder'
    <2>1. at' = at /\ done' = done /\ ran' = ran
        BY <1>14 DEF CheckBroken
    <2>2. pc'[t] \in {"raised", "turn"}
        BY <1>14 DEF TypeOK, CheckBroken
    <2>3. \A u \in LT \ {t} : pc'[u] = pc[u] /\ turn'[u] = turn[u]
        BY <1>14 DEF TypeOK, CheckBroken
    <2> QED
        BY <2>1, <2>2, <2>3 DEF TurnOrder, Handling
<1>15. ASSUME NEW t \in LT, ReadActivePoint(t) PROVE TurnOrder'
    BY <1>15 DEF TypeOK, TurnOrder, Handling, ReadActivePoint
<1>16. ASSUME NEW t \in LT, SetDone(t) PROVE TurnOrder'
    <2>1. at' = at /\ pc'[t] = "enter_end"
        BY <1>16 DEF TypeOK, SetDone
    <2>2. \A u \in LT \ {t} : pc'[u] = pc[u]
        BY <1>16 DEF TypeOK, SetDone
    <2>3. \A e \in Elem : ran[e] \subseteq ran'[e]
        BY <1>16 DEF TypeOK, SetDone
    <2> QED
        BY <2>1, <2>2, <2>3 DEF TurnOrder, Handling
<1>17. ASSUME NEW t \in LT, EnterEnd(t) PROVE TurnOrder'
    BY <1>17 DEF TypeOK, TurnOrder, Handling, EnterEnd
<1>18. ASSUME NEW t \in LT, LeaveEnd(t) PROVE TurnOrder'
    BY <1>18 DEF TypeOK, TurnOrder, Handling, LeaveEnd
<1>19. ASSUME NEW t \in LT, EndBroken(t) PROVE TurnOrder'
    BY <1>19 DEF TypeOK, TurnOrder, Handling, EndBroken
<1>20. ASSUME NEW t \in LT, RemoveElement(t) PROVE TurnOrder'
    <2>1. pc'[t] = "loop" /\ ran' = ran
        BY <1>20 DEF TypeOK, RemoveElement
    <2>2. \A u \in LT \ {t} : pc'[u] = pc[u] /\ at'[u] = at[u]
        BY <1>20 DEF TypeOK, RemoveElement
    <2> QED
        BY <2>1, <2>2 DEF TurnOrder, Handling
<1>21. ASSUME NEW t \in LT, Stop(t) PROVE TurnOrder'
    BY <1>21 DEF TypeOK, TurnOrder, Handling, Stop
<1>22. ASSUME NEW t \in LT, Pass(t) PROVE TurnOrder'
    BY <1>22 DEF TypeOK, TurnOrder, Handling, Pass
<1>23. ASSUME NEW a \in Actor, CancelSynch(a) PROVE TurnOrder'
    BY <1>23 DEF TypeOK, TurnOrder, Handling, CancelSynch
<1>24. ASSUME NEW a \in Actor, AbortEnd(a) PROVE TurnOrder'
    BY <1>24 DEF TypeOK, TurnOrder, Handling, AbortEnd
<1>25. ASSUME NEW a \in Actor, AbortStart(a) PROVE TurnOrder'
    BY <1>25 DEF TypeOK, TurnOrder, Handling, AbortStart
<1>26. ASSUME NEW a \in Actor, SetAllDone(a) PROVE TurnOrder'
    BY <1>26 DEF TypeOK, TurnOrder, Handling, SetAllDone
<1>27. ASSUME NEW a \in Actor, RebindTable(a) PROVE TurnOrder'
    BY <1>27 DEF TypeOK, TurnOrder, Handling, RebindTable
<1>28. CASE UNCHANGED vars
    BY <1>28 DEF TurnOrder, Handling
<1> QED
    BY <1>1, <1>2, <1>3, <1>4, <1>5, <1>6, <1>7, <1>8, <1>9, <1>10, <1>11,
       <1>12, <1>13, <1>14, <1>15, <1>16, <1>17, <1>18, <1>19, <1>20, <1>21,
       <1>22, <1>23, <1>24, <1>25, <1>26, <1>27, <1>28
    DEF Next, Step, Cancel

(* Every step keeps the point that wait_for_end reads its reader's own.    *)
LEMMA OwnPointStep ==
    TypeOK /\ OwnPointDone /\ ActiveOK /\ [Next]_vars => OwnPointDone'
<1> SUFFICES ASSUME TypeOK, OwnPointDone, ActiveOK, [Next]_vars PROVE OwnPointDone'
    OBVIOUS
<1> USE DEF Goto, Inside
<1>1. ASSUME NEW t \in LT, AddSynchElement(t) PROVE OwnPointDone'
    BY <1>1 DEF TypeOK, OwnPointDone, ActiveOK, AddSynchElement
<1>2. ASSUME NEW t \in LT, PreRunDone(t) PROVE OwnPointDone'
    BY <1>2 DEF TypeOK, OwnPointDone, ActiveOK, PreRunDone
<1>3. ASSUME NEW t \in LT, AwaitStep(t) PROVE OwnPointDone'
    BY <1>3 DEF TypeOK, OwnPointDone, ActiveOK, AwaitStep
<1>4. ASSUME NEW t \in LT, StoppedExternally(t) PROVE OwnPointDone'
    BY <1>4 DEF TypeOK, OwnPointDone, ActiveOK, StoppedExternally
<1>5. ASSUME NEW t \in LT, RunWid(t) PROVE OwnPointDone'
    BY <1>5 DEF TypeOK, OwnPointDone, ActiveOK, RunWid
<1>6. ASSUME NEW t \in LT, SearchMiss(t) PROVE OwnPointDone'
    BY <1>6 DEF TypeOK, OwnPointDone, ActiveOK, SearchMiss
<1>7. ASSUME NEW t \in LT, SearchHit(t) PROVE OwnPointDone'
    BY <1>7 DEF TypeOK, OwnPointDone, ActiveOK, SearchHit
<1>8. ASSUME NEW t \in LT, SearchEnd(t) PROVE OwnPointDone'
    BY <1>8 DEF TypeOK, OwnPointDone, ActiveOK, SearchEnd
<1>9. ASSUME NEW t \in LT, EnterStart(t) PROVE OwnPointDone'
    BY <1>9 DEF TypeOK, OwnPointDone, ActiveOK, EnterStart
<1>10. ASSUME NEW t \in LT, LeaveStart(t) PROVE OwnPointDone'
    BY <1>10 DEF TypeOK, OwnPointDone, ActiveOK, LeaveStart
<1>11. ASSUME NEW t \in LT, StartBroken(t) PROVE OwnPointDone'
    BY <1>11 DEF TypeOK, OwnPointDone, ActiveOK, StartBroken
<1>12. ASSUME NEW t \in LT, MyTurn(t) PROVE OwnPointDone'
    BY <1>12 DEF TypeOK, OwnPointDone, ActiveOK, MyTurn
<1>13. ASSUME NEW t \in LT, PointDone(t) PROVE OwnPointDone'
    BY <1>13 DEF TypeOK, OwnPointDone, ActiveOK, PointDone
<1>14. ASSUME NEW t \in LT, CheckBroken(t) PROVE OwnPointDone'
    BY <1>14 DEF TypeOK, OwnPointDone, ActiveOK, CheckBroken
<1>15. ASSUME NEW t \in LT, ReadActivePoint(t) PROVE OwnPointDone'
    BY <1>15 DEF TypeOK, OwnPointDone, ActiveOK, ReadActivePoint
<1>16. ASSUME NEW t \in LT, SetDone(t) PROVE OwnPointDone'
    BY <1>16 DEF TypeOK, OwnPointDone, ActiveOK, SetDone
<1>17. ASSUME NEW t \in LT, EnterEnd(t) PROVE OwnPointDone'
    BY <1>17 DEF TypeOK, OwnPointDone, ActiveOK, EnterEnd
<1>18. ASSUME NEW t \in LT, LeaveEnd(t) PROVE OwnPointDone'
    BY <1>18 DEF TypeOK, OwnPointDone, ActiveOK, LeaveEnd
<1>19. ASSUME NEW t \in LT, EndBroken(t) PROVE OwnPointDone'
    BY <1>19 DEF TypeOK, OwnPointDone, ActiveOK, EndBroken
<1>20. ASSUME NEW t \in LT, RemoveElement(t) PROVE OwnPointDone'
    BY <1>20 DEF TypeOK, OwnPointDone, ActiveOK, RemoveElement
<1>21. ASSUME NEW t \in LT, Stop(t) PROVE OwnPointDone'
    BY <1>21 DEF TypeOK, OwnPointDone, ActiveOK, Stop
<1>22. ASSUME NEW t \in LT, Pass(t) PROVE OwnPointDone'
    BY <1>22 DEF TypeOK, OwnPointDone, ActiveOK, Pass
<1>23. ASSUME NEW a \in Actor, CancelSynch(a) PROVE OwnPointDone'
    BY <1>23 DEF TypeOK, OwnPointDone, ActiveOK, CancelSynch
<1>24. ASSUME NEW a \in Actor, AbortEnd(a) PROVE OwnPointDone'
    BY <1>24 DEF TypeOK, OwnPointDone, ActiveOK, AbortEnd
<1>25. ASSUME NEW a \in Actor, AbortStart(a) PROVE OwnPointDone'
    BY <1>25 DEF TypeOK, OwnPointDone, ActiveOK, AbortStart
<1>26. ASSUME NEW a \in Actor, SetAllDone(a) PROVE OwnPointDone'
    BY <1>26 DEF TypeOK, OwnPointDone, ActiveOK, SetAllDone
<1>27. ASSUME NEW a \in Actor, RebindTable(a) PROVE OwnPointDone'
    BY <1>27 DEF TypeOK, OwnPointDone, ActiveOK, RebindTable
<1>28. CASE UNCHANGED vars
    BY <1>28 DEF OwnPointDone, ActiveOK
<1> QED
    BY <1>1, <1>2, <1>3, <1>4, <1>5, <1>6, <1>7, <1>8, <1>9, <1>10, <1>11,
       <1>12, <1>13, <1>14, <1>15, <1>16, <1>17, <1>18, <1>19, <1>20, <1>21,
       <1>22, <1>23, <1>24, <1>25, <1>26, <1>27, <1>28
    DEF Next, Step, Cancel

(* An LT that is in an element is one of its parties.                      *)
LEMMA WithinParty ==
    ASSUME AtOK, NEW e \in Elem, NEW t \in LT, Entered(e, t) \/ Finished(e, t)
    PROVE  t \in Party(e)
BY DEF AtOK, InElem, Entered, Finished, Inside

(* What a step that begins, ends and opens no round leaves as it was.      *)
Kept == /\ ran' = ran
        /\ \A e \in Elem, t \in LT :
               /\ Entered(e, t)' => Entered(e, t)
               /\ Finished(e, t)' => Finished(e, t)
               /\ Parting(e, t)' => Parting(e, t)
               /\ Phase(e, t)' = "out" => Phase(e, t) = "out"

LEMMA KeptMeeting == MeetingOK /\ Kept => MeetingOK'
<1> SUFFICES ASSUME MeetingOK, Kept PROVE MeetingOK'
    OBVIOUS
<1>1. \A e \in Elem : Party(e)' = Party(e) /\ Party(e) \subseteq LT
    BY PartyType DEF Party
<1>2. RanOK'
    BY <1>1 DEF MeetingOK, RanOK, Kept
<1>3. TogetherOK'
    BY <1>1 DEF MeetingOK, TogetherOK, Kept
<1>4. FinishedOK'
    BY DEF MeetingOK, FinishedOK, Kept
<1>5. PartingOK'
    BY <1>1 DEF MeetingOK, PartingOK, Kept
<1> QED
    BY <1>2, <1>3, <1>4, <1>5 DEF MeetingOK

(* A place nobody meets at: the LT that moves there is out or is dropped.  *)
Elsewhere == {"pre", "loop", "idle", "search", "enter_start", "remove", "raised", "passed"}

(* One LT moves from a place in a round to one that is no further, or      *)
(* between places outside of rounds; the barriers open nothing.            *)
LEMMA MovedKept ==
    ASSUME TypeOK, NEW t \in LT, ran' = ran,
           \A u \in LT \ {t} : pc'[u] = pc[u] /\ at'[u] = at[u],
           \A e \in Elem : start'[e].state # start[e].state => start'[e].state # "drain",
           \A e \in Elem : end'[e].state # end[e].state => end'[e].state # "drain",
           \/ pc[t] \in Elsewhere \ {"raised"} /\ pc'[t] \in Elsewhere
           \/ at'[t] = at[t] /\ pc'[t] = "raised"
           \/ at'[t] = at[t] /\ pc'[t] = pc[t]
           \/ at'[t] = at[t] /\ pc'[t] \in Inside /\ (\A e \in Elem : at[t] = e => Entered(e, t))
    PROVE  Kept
<1> SUFFICES ASSUME NEW e \in Elem, NEW u \in LT
             PROVE  /\ Entered(e, u)' => Entered(e, u)
                    /\ Finished(e, u)' => Finished(e, u)
                    /\ Parting(e, u)' => Parting(e, u)
                    /\ Phase(e, u)' = "out" => Phase(e, u) = "out"
    BY DEF Kept
<1>1. CASE u # t
    BY <1>1 DEF Entered, Finished, Parting, Phase
<1>2. CASE u = t
    BY <1>2 DEF Entered, Finished, Parting, Phase, Elsewhere, Inside, TypeOK, PC
<1> QED
    BY <1>1, <1>2

(* The round opens: all others wait at the start barrier.                  *)
LEMMA EnterStartMeeting ==
    ASSUME TypeOK, AtOK, StartWaitingOK, EndWaitingOK, MeetingOK, NEW t \in LT, EnterStart(t)
    PROVE  MeetingOK'
<1> DEFINE e == at[t]
<1>1. /\ e \in Elem /\ t \in Party(e) /\ pc[t] = "enter_start" /\ start[e].state = "fill"
      /\ start[e] \in Barrier /\ Party(e) \subseteq LT
      /\ at' = at /\ end' = end
      /\ start' = [start EXCEPT ![e] = Enter(@, t, Party(e))]
      /\ \A u \in LT \ {t} : pc'[u] = pc[u]
    BY PartyType DEF AtOK, InElem, EnterStart, TypeOK
<1>2. CASE ~IsLast(start[e], t, Party(e))
    <2>1. /\ pc' = [pc EXCEPT ![t] = "at_start"] /\ ran' = ran
          /\ \A f \in Elem : start'[f].state = start[f].state
        BY <1>1, <1>2, EnterFields DEF EnterStart, TypeOK
    <2>2. Kept
        BY <1>1, <2>1 DEF Kept, Entered, Finished, Parting, Phase, TypeOK, PC, Inside
    <2> QED
        BY <2>2, KeptMeeting
<1>3. CASE IsLast(start[e], t, Party(e))
    <2>1. /\ pc' = [pc EXCEPT ![t] = "turn"]
          /\ ran' = [ran EXCEPT ![e] = {}]
          /\ \A f \in Elem \ {e} : start'[f] = start[f]
        BY <1>1, <1>3 DEF EnterStart, TypeOK
    <2>2. \A u \in Party(e) \ {t} : u \in start[e].waiting
        BY <1>3 DEF IsLast
    <2>3. \A u \in Party(e) \ {t} : pc[u] = "at_start" /\ at[u] = e
        BY <1>1, <2>2 DEF StartWaitingOK
    <2>4. \A u \in Party(e) : Phase(e, u)' = "arrived"
        BY <1>1, <2>1, <2>3 DEF Phase, TypeOK
    <2>5. \A u \in LT : ~Finished(e, u)' /\ ~Parting(e, u)'
        <3> SUFFICES ASSUME NEW u \in LT, at[u] = e, pc'[u] \in {"enter_end", "at_end"} PROVE FALSE
            BY <1>1 DEF Finished, Parting
        <3>1. u # t /\ pc[u] \in {"enter_end", "at_end"}
            BY <1>1, <2>1 DEF TypeOK
        <3>2. u \in Party(e)
            BY <3>1, <1>1 DEF AtOK, InElem
        <3> QED
            BY <3>1, <3>2, <2>3
    <2>6. ASSUME NEW f \in Elem \ {e}, NEW u \in LT
          PROVE  /\ Entered(f, u)' <=> Entered(f, u)
                 /\ Finished(f, u)' <=> Finished(f, u)
                 /\ Parting(f, u)' <=> Parting(f, u)
                 /\ Phase(f, u)' = Phase(f, u)
                 /\ ran'[f] = ran[f]
        BY <1>1, <2>1 DEF Entered, Finished, Parting, Phase, TypeOK
    <2>7. ran'[e] = {} /\ \A f \in Elem : Party(f)' = Party(f) /\ Party(f) \subseteq LT
        BY <1>1, <2>1, PartyType DEF TypeOK, Party
    <2>8. RanOK'
        BY <2>6, <2>7 DEF MeetingOK, RanOK
    <2>9. TogetherOK'
        BY <1>1, <2>4, <2>6, <2>7 DEF MeetingOK, TogetherOK
    <2>10. FinishedOK'
        BY <1>1, <2>5, <2>6 DEF MeetingOK, FinishedOK
    <2>11. PartingOK'
        BY <1>1, <2>5, <2>6, <2>7 DEF MeetingOK, PartingOK
    <2> QED
        BY <2>8, <2>9, <2>10, <2>11 DEF MeetingOK
<1> QED
    BY <1>2, <1>3

(* An LT has run its WID: nobody parts meanwhile.                          *)
LEMMA SetDoneMeeting ==
    ASSUME TypeOK, AtOK, MeetingOK, NEW t \in LT, SetDone(t)
    PROVE  MeetingOK'
<1> DEFINE e == at[t]
<1>1. /\ e \in Elem /\ t \in Party(e) /\ pc[t] = "delay"
      /\ at' = at /\ end' = end /\ start' = start
      /\ pc' = [pc EXCEPT ![t] = "enter_end"]
      /\ ran' = [ran EXCEPT ![e] = @ \cup {t}]
    BY DEF AtOK, InElem, Inside, SetDone, Goto
<1>2. Entered(e, t) /\ \A u \in LT : ~Parting(e, u)
    BY <1>1 DEF Entered, Inside, MeetingOK, PartingOK
<1>3. ASSUME NEW f \in Elem, NEW u \in LT
      PROVE  /\ Entered(f, u)' => Entered(f, u)
             /\ Finished(f, u)' => Finished(f, u) \/ (f = e /\ u = t)
             /\ Parting(f, u)' => Parting(f, u)
             /\ Phase(f, u)' = "out" => Phase(f, u) = "out"
    BY <1>1 DEF Entered, Finished, Parting, Phase, TypeOK, Inside
<1>4. /\ \A f \in Elem \ {e} : ran'[f] = ran[f]
      /\ ran'[e] = ran[e] \cup {t}
      /\ \A f \in Elem : Party(f)' = Party(f) /\ Party(f) \subseteq LT
    BY <1>1, PartyType DEF TypeOK, Party
<1>5. RanOK'
    BY <1>1, <1>4 DEF MeetingOK, RanOK
<1>6. TogetherOK'
    BY <1>3, <1>4 DEF MeetingOK, TogetherOK
<1>7. FinishedOK'
    BY <1>3, <1>4 DEF MeetingOK, FinishedOK
<1>8. PartingOK'
    BY <1>2, <1>3, <1>4 DEF MeetingOK, PartingOK
<1> QED
    BY <1>5, <1>6, <1>7, <1>8 DEF MeetingOK

(* The last to arrive at the end barrier finds all others there.           *)
LEMMA AllFinished ==
    ASSUME TypeOK, AtOK, EndWaitingOK, MeetingOK, NEW t \in LT, EnterEnd(t),
           IsLast(end[at[t]], t, Party(at[t]))
    PROVE  /\ \A u \in Party(at[t]) \ {t} : pc[u] = "at_end" /\ at[u] = at[t]
           /\ \A u \in LT : ~Entered(at[t], u)
           /\ ran[at[t]] = Party(at[t])
<1>1. at[t] \in Elem /\ t \in Party(at[t]) /\ pc[t] = "enter_end" /\ Party(at[t]) \subseteq LT
    BY PartyType DEF AtOK, InElem, EnterEnd
<1>2. \A u \in Party(at[t]) \ {t} : u \in end[at[t]].waiting
    BY DEF IsLast
<1>3. \A u \in Party(at[t]) \ {t} : pc[u] = "at_end" /\ at[u] = at[t]
    BY <1>1, <1>2 DEF EndWaitingOK
<1>4. \A u \in LT : ~Entered(at[t], u)
    BY <1>1, <1>3, WithinParty DEF Entered, Inside
<1>5. \A u \in Party(at[t]) : Finished(at[t], u)
    BY <1>1, <1>3 DEF Finished
<1> QED
    BY <1>1, <1>3, <1>4, <1>5 DEF MeetingOK, FinishedOK, RanOK

(* The round is over: all have run and nobody is in it any more.           *)
LEMMA EnterEndMeeting ==
    ASSUME TypeOK, AtOK, EndWaitingOK, MeetingOK, NEW t \in LT, EnterEnd(t)
    PROVE  MeetingOK'
<1> DEFINE e == at[t]
<1>1. /\ e \in Elem /\ t \in Party(e) /\ pc[t] = "enter_end" /\ end[e].state = "fill"
      /\ end[e] \in Barrier
      /\ at' = at /\ start' = start /\ ran' = ran
      /\ end' = [end EXCEPT ![e] = Enter(@, t, Party(e))]
    BY DEF AtOK, InElem, EnterEnd, TypeOK
<1>2. CASE ~IsLast(end[e], t, Party(e))
    <2>1. /\ pc' = [pc EXCEPT ![t] = "at_end"]
          /\ \A f \in Elem : end'[f].state = end[f].state
        BY <1>1, <1>2, EnterFields DEF EnterEnd, TypeOK
    <2>2. Kept
        BY <1>1, <2>1 DEF Kept, Entered, Finished, Parting, Phase, TypeOK, PC, Inside
    <2> QED
        BY <2>2, KeptMeeting
<1>3. CASE IsLast(end[e], t, Party(e))
    <2>1. /\ pc' = [pc EXCEPT ![t] = "remove"]
          /\ \A f \in Elem \ {e} : end'[f] = end[f]
        BY <1>1, <1>3 DEF EnterEnd, TypeOK
    <2>2. ASSUME NEW f \in Elem, NEW u \in LT
          PROVE  /\ Entered(f, u)' => Entered(f, u)
                 /\ Finished(f, u)' => Finished(f, u)
                 /\ f # e /\ Parting(f, u)' => Parting(f, u)
                 /\ f # e /\ Phase(f, u)' = "out" => Phase(f, u) = "out"
        BY <1>1, <2>1 DEF Entered, Finished, Parting, Phase, TypeOK, Inside
    <2>3. (\A u \in LT : ~Entered(e, u)) /\ ran[e] = Party(e)
        BY <1>3, AllFinished
    <2>4. \A f \in Elem : Party(f)' = Party(f) /\ Party(f) \subseteq LT
        BY PartyType DEF Party
    <2>5. RanOK'
        BY <1>1, <2>4 DEF MeetingOK, RanOK
    <2>6. TogetherOK'
        BY <2>2, <2>3, <2>4 DEF MeetingOK, TogetherOK
    <2>7. FinishedOK'
        BY <1>1, <2>2 DEF MeetingOK, FinishedOK
    <2>8. PartingOK'
        BY <1>1, <2>2, <2>3, <2>4 DEF MeetingOK, PartingOK
    <2> QED
        BY <2>5, <2>6, <2>7, <2>8 DEF MeetingOK
<1> QED
    BY <1>2, <1>3

(* An LT leaves the end barrier of a round that is over.                   *)
LEMMA LeaveEndMeeting ==
    ASSUME TypeOK, AtOK, MeetingOK, NEW t \in LT, LeaveEnd(t)
    PROVE  MeetingOK'
<1> DEFINE e == at[t]
<1>1. /\ e \in Elem /\ pc[t] = "at_end" /\ end[e].state = "drain" /\ end[e] \in Barrier
      /\ at' = at /\ start' = start /\ ran' = ran
      /\ pc' = [pc EXCEPT ![t] = "remove"]
      /\ end' = [end EXCEPT ![e] = Exit(@, t)]
    BY DEF AtOK, InElem, LeaveEnd, TypeOK
<1>2. \A u \in LT : ~Entered(e, u)
    BY <1>1 DEF Parting, MeetingOK, PartingOK
<1>3. \A f \in Elem : end'[f].state = "drain" => end[f].state = "drain"
    BY <1>1, ExitFields DEF TypeOK
<1>4. ASSUME NEW f \in Elem, NEW u \in LT
      PROVE  /\ Entered(f, u)' => Entered(f, u)
             /\ Finished(f, u)' => Finished(f, u)
             /\ Parting(f, u)' => Parting(f, u)
             /\ f # e /\ Phase(f, u)' = "out" => Phase(f, u) = "out"
    BY <1>1, <1>3 DEF Entered, Finished, Parting, Phase, TypeOK, Inside
<1>5. \A f \in Elem : Party(f)' = Party(f) /\ Party(f) \subseteq LT
    BY PartyType DEF Party
<1>6. RanOK'
    BY <1>1, <1>5 DEF MeetingOK, RanOK
<1>7. TogetherOK'
    BY <1>2, <1>4, <1>5 DEF MeetingOK, TogetherOK
<1>8. FinishedOK'
    BY <1>1, <1>4 DEF MeetingOK, FinishedOK
<1>9. PartingOK'
    BY <1>1, <1>4, <1>5 DEF MeetingOK, PartingOK
<1> QED
    BY <1>6, <1>7, <1>8, <1>9 DEF MeetingOK

(* Every step of a thread keeps what holds of the rounds.                  *)
LEMMA MeetingStep ==
    Inv /\ [Next]_vars => MeetingOK'
<1> SUFFICES ASSUME Inv, [Next]_vars PROVE MeetingOK'
    OBVIOUS
<1>0. TypeOK /\ AtOK /\ StartWaitingOK /\ EndWaitingOK /\ MeetingOK
    BY DEF Inv, CursorsOK, WaitingOK
<1> USE DEF Goto
<1>1. ASSUME NEW t \in LT, AddSynchElement(t) PROVE MeetingOK'
    <2>1. Kept
        BY <1>0, <1>1, MovedKept DEF AddSynchElement, Elsewhere, TypeOK, PC
    <2> QED
        BY <1>0, <2>1, KeptMeeting
<1>2. ASSUME NEW t \in LT, PreRunDone(t) PROVE MeetingOK'
    <2>1. Kept
        BY <1>0, <1>2, MovedKept DEF PreRunDone, Elsewhere, TypeOK, PC
    <2> QED
        BY <1>0, <2>1, KeptMeeting
<1>3. ASSUME NEW t \in LT, AwaitStep(t) PROVE MeetingOK'
    <2>1. Kept
        BY <1>0, <1>3, MovedKept DEF AwaitStep, Elsewhere, TypeOK, PC
    <2> QED
        BY <1>0, <2>1, KeptMeeting
<1>4. ASSUME NEW t \in LT, StoppedExternally(t) PROVE MeetingOK'
    <2>1. Kept
        BY <1>0, <1>4, MovedKept DEF StoppedExternally, Elsewhere, TypeOK, PC
    <2> QED
        BY <1>0, <2>1, KeptMeeting
<1>5. ASSUME NEW t \in LT, RunWid(t) PROVE MeetingOK'
    <2>1. Kept
        BY <1>0, <1>5, MovedKept DEF RunWid, Elsewhere, TypeOK, PC
    <2> QED
        BY <1>0, <2>1, KeptMeeting
<1>6. ASSUME NEW t \in LT, SearchMiss(t) PROVE MeetingOK'
    <2>1. Kept
        BY <1>0, <1>6, MovedKept DEF SearchMiss, Elsewhere, TypeOK, PC
    <2> QED
        BY <1>0, <2>1, KeptMeeting
<1>7. ASSUME NEW t \in LT, SearchHit(t) PROVE MeetingOK'
    <2>1. Kept
        BY <1>0, <1>7, MovedKept DEF SearchHit, Elsewhere, TypeOK, PC
    <2> QED
        BY <1>0, <2>1, KeptMeeting
<1>8. ASSUME NEW t \in LT, SearchEnd(t) PROVE MeetingOK'
    <2>1. Kept
        BY <1>0, <1>8, MovedKept DEF SearchEnd, Elsewhere, TypeOK, PC
    <2> QED
        BY <1>0, <2>1, KeptMeeting
<1>9. ASSUME NEW t \in LT, MyTurn(t) PROVE MeetingOK'
    <2>1. Kept
        BY <1>0, <1>9, MovedKept DEF MyTurn, Elsewhere, TypeOK, PC, Entered, Inside
    <2> QED
        BY <1>0, <2>1, KeptMeeting
<1>10. ASSUME NEW t \in LT, PointDone(t) PROVE MeetingOK'
    <2>1. Kept
        BY <1>0, <1>10, MovedKept DEF PointDone, Elsewhere, TypeOK, PC, Entered, Inside
    <2> QED
        BY <1>0, <2>1, KeptMeeting
<1>11. ASSUME NEW t \in LT, ReadActivePoint(t) PROVE MeetingOK'
    <2>1. Kept
        BY <1>0, <1>11, MovedKept DEF ReadActivePoint, Elsewhere, TypeOK, PC, Entered, Inside
    <2> QED
        BY <1>0, <2>1, KeptMeeting
<1>12. ASSUME NEW t \in LT, CheckBroken(t) PROVE MeetingOK'
    <2>1. Kept
        BY <1>0, <1>12, MovedKept DEF CheckBroken, Elsewhere, TypeOK, PC, Entered, Inside
    <2> QED
        BY <1>0, <2>1, KeptMeeting
<1>13. ASSUME NEW t \in LT, RemoveElement(t) PROVE MeetingOK'
    <2>1. Kept
        BY <1>0, <1>13, MovedKept DEF RemoveElement, Elsewhere, TypeOK, PC
    <2> QED
        BY <1>0, <2>1, KeptMeeting
<1>14. ASSUME NEW t \in LT, Stop(t) PROVE MeetingOK'
    <2>1. Kept
        BY <1>0, <1>14, MovedKept DEF Stop, Elsewhere, TypeOK, PC
    <2> QED
        BY <1>0, <2>1, KeptMeeting
<1>15. ASSUME NEW t \in LT, Pass(t) PROVE MeetingOK'
    <2>1. Kept
        BY <1>0, <1>15, MovedKept DEF Pass, Elsewhere, TypeOK, PC
    <2> QED
        BY <1>0, <2>1, KeptMeeting
<1>16. ASSUME NEW t \in LT, LeaveStart(t) PROVE MeetingOK'
    <2>1. at[t] \in Elem /\ Entered(at[t], t)
        BY <1>16, <1>0 DEF AtOK, InElem, Entered, LeaveStart
    <2>2. \A e \in Elem : start'[e].state # start[e].state => start'[e].state # "drain"
        BY <1>16, <1>0, <2>1, ExitFields DEF LeaveStart, TypeOK
    <2>3. Kept
        BY <1>16, <1>0, <2>1, <2>2, MovedKept DEF LeaveStart, TypeOK, Inside
    <2> QED
        BY <1>0, <2>3, KeptMeeting
<1>17. ASSUME NEW t \in LT, StartBroken(t) PROVE MeetingOK'
    <2>1. at[t] \in Elem
        BY <1>17, <1>0 DEF AtOK, InElem, StartBroken
    <2>2. \A e \in Elem : start'[e].state # start[e].state => start'[e].state # "drain"
        BY <1>17, <1>0, <2>1, ExitFields DEF StartBroken, TypeOK
    <2>3. Kept
        BY <1>17, <1>0, <2>2, MovedKept DEF StartBroken, TypeOK
    <2> QED
        BY <1>0, <2>3, KeptMeeting
<1>18. ASSUME NEW t \in LT, EndBroken(t) PROVE MeetingOK'
    <2>1. at[t] \in Elem
        BY <1>18, <1>0 DEF AtOK, InElem, EndBroken
    <2>2. \A e \in Elem : end'[e].state # end[e].state => end'[e].state # "drain"
        BY <1>18, <1>0, <2>1, ExitFields DEF EndBroken, TypeOK
    <2>3. Kept
        BY <1>18, <1>0, <2>2, MovedKept DEF EndBroken, TypeOK
    <2> QED
        BY <1>0, <2>3, KeptMeeting
<1>19. ASSUME NEW a \in Actor, AbortEnd(a) PROVE MeetingOK'
    <2>1. Items(a)[iter[a].pos] \in Elem
        BY <1>0, <1>19, ItemType DEF Inv, CursorsOK, IterOK, AbortEnd
    <2>2. \A e \in Elem : end'[e].state # end[e].state => end'[e].state # "drain"
        BY <1>19, <1>0, <2>1, AbortFields DEF AbortEnd, TypeOK
    <2>3. Kept
        BY <1>19, <1>0, <2>2 DEF AbortEnd, Kept, Entered, Finished, Parting, Phase
    <2> QED
        BY <1>0, <2>3, KeptMeeting
<1>20. ASSUME NEW a \in Actor, AbortStart(a) PROVE MeetingOK'
    <2>1. cur[a] \in Elem
        BY <1>20 DEF Inv, CursorsOK, CurOK, AbortStart
    <2>2. \A e \in Elem : start'[e].state # start[e].state => start'[e].state # "drain"
        BY <1>20, <1>0, <2>1, AbortFields DEF AbortStart, TypeOK
    <2>3. Kept
        BY <1>20, <1>0, <2>2 DEF AbortStart, Kept, Entered, Finished, Parting, Phase
    <2> QED
        BY <1>0, <2>3, KeptMeeting
<1>21. ASSUME NEW a \in Actor, CancelSynch(a) PROVE MeetingOK'
    <2>1. Kept
        BY <1>21 DEF CancelSynch, Kept, Entered, Finished, Parting, Phase
    <2> QED
        BY <1>0, <2>1, KeptMeeting
<1>22. ASSUME NEW a \in Actor, SetAllDone(a) PROVE MeetingOK'
    <2>1. Kept
        BY <1>22 DEF SetAllDone, Kept, Entered, Finished, Parting, Phase
    <2> QED
        BY <1>0, <2>1, KeptMeeting
<1>23. ASSUME NEW a \in Actor, RebindTable(a) PROVE MeetingOK'
    <2>1. Kept
        BY <1>23 DEF RebindTable, Kept, Entered, Finished, Parting, Phase
    <2> QED
        BY <1>0, <2>1, KeptMeeting
<1>24. CASE UNCHANGED vars
    <2>1. Kept
        BY <1>24 DEF Kept, Entered, Finished, Parting, Phase
    <2> QED
        BY <1>0, <2>1, KeptMeeting
<1>25. ASSUME NEW t \in LT, EnterStart(t) PROVE MeetingOK'
    BY <1>25, <1>0, EnterStartMeeting
<1>26. ASSUME NEW t \in LT, SetDone(t) PROVE MeetingOK'
    BY <1>26, <1>0, SetDoneMeeting
<1>27. ASSUME NEW t \in LT, EnterEnd(t) PROVE MeetingOK'
    BY <1>27, <1>0, EnterEndMeeting
<1>28. ASSUME NEW t \in LT, LeaveEnd(t) PROVE MeetingOK'
    BY <1>28, <1>0, LeaveEndMeeting
<1> QED
    BY <1>1, <1>2, <1>3, <1>4, <1>5, <1>6, <1>7, <1>8, <1>9, <1>10, <1>11, <1>12, <1>13, <1>14, <1>15, <1>16, <1>17, <1>18, <1>19, <1>20, <1>21, <1>22, <1>23, <1>24, <1>25, <1>26, <1>27, <1>28
    DEF Next, Step, Cancel

(* Every step preserves the invariant.                                     *)
LEMMA InvStep ==
    Inv /\ [Next]_vars => Inv'
<1> SUFFICES ASSUME Inv, [Next]_vars PROVE Inv'
    OBVIOUS
<1> USE DEF Inv, CursorsOK, WaitingOK, FlagsOK, ProgressOK
<1>1. TypeOK'
    BY TypeStep
<1>2. IterOK' /\ CurOK' /\ AtOK' /\ CancelOK'
    BY IterStep, CurStep, AtStep, CancelOKStep
<1>3. StartWaitingOK' /\ EndWaitingOK'
    BY StartWaitingStep, EndWaitingStep
<1>4. GenuineOK' /\ AbortFirst'
    BY GenuineStep, AbortFirstStep
<1>5. UnfinishedOK' /\ LoopOK' /\ CheckOK' /\ ActiveOK'
    BY UnfinishedStep, LoopStep, CheckStep, ActiveStep
<1>6. TurnOrder' /\ OwnPointDone'
    BY TurnOrderStep, OwnPointStep
<1>7. MeetingOK'
    BY MeetingStep
<1> QED
    BY <1>1, <1>2, <1>3, <1>4, <1>5, <1>6, <1>7

(* The inductive invariant holds in every reachable state of Synch.        *)
THEOREM Invariance == Spec => []Inv
BY InitInv, InvStep, PTL DEF Spec

(* The invariant implies mutual exclusion in the element: of two LTs that
   handle their WIDs, one would be before the other and so have finished. *)
LEMMA InvTurnExclusive == Inv => TurnExclusive
<1> SUFFICES ASSUME Inv, NEW e \in Elem, NEW t \in LT, NEW u \in LT,
                    Handling(e, t), Handling(e, u), t # u
             PROVE  FALSE
    BY DEF TurnExclusive
<1>1. t \in Party(e) /\ u \in Party(e) /\ t \notin ran[e] /\ u \notin ran[e]
    BY DEF Inv, CursorsOK, AtOK, InElem, Inside, ProgressOK, UnfinishedOK, Handling
<1>2. PICK i \in 1..Len(Points[e]), j \in 1..Len(Points[e]) :
          Points[e][i].lt = t /\ Points[e][j].lt = u
    BY <1>1 DEF Party
<1>3. Len(Points[e]) \in Nat /\ i # j
    BY <1>2, PointsAssumption, LenProperties
<1>4. t \in Earlier(e, u) \/ u \in Earlier(e, t)
    BY <1>2, <1>3 DEF Earlier
<1> QED
    BY <1>1, <1>4 DEF Inv, TurnOrder

(* Every reachable state of Synch is well typed, for any number of LTs,    *)
(* elements, points and cancels.                                           *)
THEOREM TypeCorrect == Spec => []TypeOK
<1>1. Inv => TypeOK
    BY DEF Inv
<1> QED
    BY <1>1, Invariance, PTL

(* No two LTs ever handle the WIDs of one synch element at the same time,  *)
(* whatever is cancelled, fails or is repeated meanwhile.                  *)
THEOREM Exclusion == Spec => []TurnExclusive
BY InvTurnExclusive, Invariance, PTL

(* An LT handles its WID of an element only after every LT whose point     *)
(* comes first has handled its own in the same round.                      *)
THEOREM Order == Spec => []TurnOrder
<1>1. Inv => TurnOrder
    BY DEF Inv
<1> QED
    BY <1>1, Invariance, PTL

(* The point that wait_for_end marks as done is the caller's own.          *)
THEOREM OwnPoint == Spec => []OwnPointDone
<1>1. Inv => OwnPointDone
    BY DEF Inv
<1> QED
    BY <1>1, Invariance, PTL

-----------------------------------------------------------------------------
(* Synch implements SynchAbs: every step is one of its moves or a stutter. *)

(* What the refinement mapping makes of the state.                         *)
PhaseOf == [e \in Elem |-> [t \in LT |-> Phase(e, t)]]

(* One LT changes its phase in one element.                                *)
LEMMA OneMoves ==
    ASSUME NEW e \in Elem, NEW t \in LT, NEW from, NEW to,
           Phase(e, t) = from, Phase(e, t)' = to,
           \A f \in Elem, u \in LT : f # e \/ u # t => Phase(f, u)' = Phase(f, u)
    PROVE  Abs!Move(e, t, from, to)
BY DEF Abs!Move

(* Nobody changes its phase.                                               *)
LEMMA NobodyMoves ==
    ASSUME ran' = ran, \A f \in Elem, u \in LT : Phase(f, u)' = Phase(f, u)
    PROVE  UNCHANGED Abs!vars
BY DEF Abs!vars

(* An LT gives up, wherever it is.                                         *)
LEMMA OneDrops ==
    ASSUME NEW t \in LT, ran' = ran, at' = at,
           pc[t] # "raised", pc'[t] = "raised",
           \A u \in LT \ {t} : pc'[u] = pc[u]
    PROVE  [Abs!Next]_(Abs!vars)
<1>1. \A f \in Elem, u \in LT : f # at[t] \/ u # t => Phase(f, u)' = Phase(f, u)
    BY DEF Phase
<1>2. CASE at[t] \in Elem
    <2>1. Phase(at[t], t) # "dropped" /\ Phase(at[t], t)' = "dropped"
        BY DEF Phase
    <2> DEFINE e == at[t]
    <2>2. PhaseOf' = [PhaseOf EXCEPT ![e][t] = "dropped"]
        BY <1>1, <1>2, <2>1 DEF PhaseOf
    <2>3. Abs!Drop(e, t)
        BY <1>2, <2>1, <2>2 DEF Abs!Drop, PhaseOf
    <2> QED
        BY <1>2, <2>3 DEF Abs!Next
<1>3. CASE at[t] \notin Elem
    BY <1>1, <1>3, NobodyMoves
<1> QED
    BY <1>2, <1>3

(* The others have all arrived exactly when the last one finds them waiting.*)
LEMMA AllArrived ==
    ASSUME Inv, NEW t \in LT, EnterStart(t)
    PROVE  IsLast(start[at[t]], t, Party(at[t])) <=>
               \A u \in Party(at[t]) \ {t} : Phase(at[t], u) = "arrived"
<1> DEFINE e == at[t]
<1>1. /\ e \in Elem /\ t \in Party(e) /\ pc[t] = "enter_start" /\ Party(e) \subseteq LT
      /\ start[e].waiting \subseteq LT /\ AtOK /\ StartWaitingOK
    BY PartyType DEF Inv, CursorsOK, WaitingOK, AtOK, InElem, EnterStart, TypeOK, Barrier
<1>2. ASSUME IsLast(start[e], t, Party(e)), NEW u \in Party(e) \ {t}
      PROVE  Phase(e, u) = "arrived"
    <2>1. u \in start[e].waiting /\ u \in LT
        BY <1>1, <1>2 DEF IsLast
    <2> QED
        BY <1>1, <2>1 DEF StartWaitingOK, Phase
<1>3. ASSUME \A u \in Party(e) \ {t} : Phase(e, u) = "arrived"
      PROVE  IsLast(start[e], t, Party(e))
    <2>1. \A u \in LT : ~Entered(e, u)
        BY <1>1 DEF Inv, MeetingOK, TogetherOK, Phase
    <2>2. \A u \in Party(e) \ {t} : u \in start[e].waiting
        BY <1>1, <1>3, <2>1 DEF Phase, Entered, Inside, StartWaitingOK
    <2>3. \A u \in start[e].waiting : u \in Party(e)
        BY <1>1 DEF StartWaitingOK, AtOK, InElem
    <2> QED
        BY <1>1, <2>2, <2>3 DEF IsLast
<1> QED
    BY <1>2, <1>3

(* An LT arrives at the start barrier.                                     *)
LEMMA Arrives ==
    ASSUME Inv, NEW t \in LT, EnterStart(t)
    PROVE  [Abs!Next]_(Abs!vars)
<1> DEFINE e == at[t]
<1>1. e \in Elem /\ t \in Party(e) /\ at' = at /\ pc[t] = "enter_start"
    BY DEF Inv, CursorsOK, AtOK, InElem, EnterStart
<1>2. pc'[t] \in {"turn", "at_start"} /\ \A u \in LT \ {t} : pc'[u] = pc[u]
    BY DEF EnterStart, Inv, TypeOK
<1>3. ran' = IF IsLast(start[e], t, Party(e)) THEN [ran EXCEPT ![e] = {}] ELSE ran
    BY DEF EnterStart
<1>4. Phase(e, t) = "out" /\ Phase(e, t)' = "arrived"
    BY <1>1, <1>2 DEF Phase
<1>5. \A f \in Elem, u \in LT : f # e \/ u # t => Phase(f, u)' = Phase(f, u)
    BY <1>1, <1>2 DEF Phase
<1>6. Abs!Move(e, t, "out", "arrived")
    BY <1>1, <1>4, <1>5, OneMoves
<1>7. \A u \in Party(e) : PhaseOf[e][u] = Phase(e, u)
    BY <1>1, PartyType DEF PhaseOf
<1>8. Abs!Arrive(e, t)
    BY <1>1, <1>3, <1>6, <1>7, AllArrived DEF Abs!Arrive, Abs!Party, Party, PhaseOf
<1> QED
    BY <1>1, <1>8 DEF Abs!Next

(* An LT begins its WID when it is its turn, alone.                        *)
LEMMA Begins ==
    ASSUME Inv, NEW t \in LT, MyTurn(t)
    PROVE  [Abs!Next]_(Abs!vars)
<1> DEFINE e == at[t]
<1>0. AtOK /\ LoopOK /\ UnfinishedOK /\ TurnOrder /\ MeetingOK
    BY DEF Inv, CursorsOK, ProgressOK
<1>1. /\ e \in Elem /\ at' = at /\ pc[t] = "turn" /\ TurnIs(t) = t /\ ran' = ran
      /\ pc'[t] = "wid" /\ \A u \in LT \ {t} : pc'[u] = pc[u]
    BY DEF Inv, CursorsOK, AtOK, InElem, Inside, MyTurn, Goto, TypeOK
<1>2. Phase(e, t) = "arrived" /\ Phase(e, t)' = "running"
    BY <1>1 DEF Phase
<1>3. \A f \in Elem, u \in LT : f # e \/ u # t => Phase(f, u)' = Phase(f, u)
    BY <1>1 DEF Phase
<1>4. Abs!Move(e, t, "arrived", "running")
    BY <1>1, <1>2, <1>3, OneMoves
<1>5. \A u \in Party(e) : Phase(e, u) # "out"
    BY <1>0, <1>1 DEF MeetingOK, TogetherOK, Entered, Inside
<1>6. \A u \in Party(e) : Phase(e, u) # "running"
    BY <1>0, <1>1, TurnAlone, PartyType DEF Phase, Handling
<1>7. Earlier(e, t) \subseteq ran[e] /\ t \notin ran[e]
    BY <1>0, <1>1, TurnFollows DEF UnfinishedOK, Inside
<1>8. \A u \in Party(e) : PhaseOf[e][u] = Phase(e, u)
    BY <1>1, PartyType DEF PhaseOf
<1>9. Abs!Begin(e, t)
    BY <1>1, <1>4, <1>5, <1>6, <1>7, <1>8
    DEF Abs!Begin, Abs!Party, Abs!Earlier, Party, Earlier, PhaseOf
<1> QED
    BY <1>1, <1>9 DEF Abs!Next

(* An LT finishes its WID.                                                 *)
LEMMA Finishes ==
    ASSUME Inv, NEW t \in LT, SetDone(t)
    PROVE  [Abs!Next]_(Abs!vars)
<1> DEFINE e == at[t]
<1>1. /\ e \in Elem /\ at' = at /\ pc[t] = "delay"
      /\ ran' = [ran EXCEPT ![e] = @ \cup {t}]
      /\ pc'[t] = "enter_end" /\ \A u \in LT \ {t} : pc'[u] = pc[u]
    BY DEF Inv, CursorsOK, AtOK, InElem, Inside, SetDone, Goto, TypeOK
<1>2. Phase(e, t) = "running" /\ Phase(e, t)' = "finished"
    BY <1>1 DEF Phase
<1>3. \A f \in Elem, u \in LT : f # e \/ u # t => Phase(f, u)' = Phase(f, u)
    BY <1>1 DEF Phase
<1>4. Abs!Finish(e, t)
    BY <1>1, <1>2, <1>3, OneMoves DEF Abs!Finish
<1> QED
    BY <1>1, <1>4 DEF Abs!Next

(* An LT leaves a round that all have run in.                              *)
LEMMA Leaves ==
    ASSUME NEW t \in LT, at[t] \in Elem, at' = at, ran' = ran,
           ran[at[t]] = Party(at[t]), pc[t] \in {"enter_end", "at_end"}, pc'[t] = "remove",
           \A u \in LT \ {t} : pc'[u] = pc[u]
    PROVE  [Abs!Next]_(Abs!vars)
<1> DEFINE e == at[t]
<1>1. Phase(e, t) = "finished" /\ Phase(e, t)' = "out"
    BY DEF Phase
<1>2. \A f \in Elem, u \in LT : f # e \/ u # t => Phase(f, u)' = Phase(f, u)
    BY DEF Phase
<1>3. Abs!Leave(e, t)
    BY <1>1, <1>2, OneMoves DEF Abs!Leave, Abs!Party, Party
<1> QED
    BY <1>3 DEF Abs!Next

(* Synch and SynchAbs begin alike.                                         *)
LEMMA MeetsInit == Init => Abs!Init
BY DEF Init, Abs!Init, Phase, AdderAssumption, NoneAssumption

(* Every step of Synch is a move of SynchAbs or none.                      *)
LEMMA MeetsStep == Inv /\ [Next]_vars => [Abs!Next]_(Abs!vars)
<1> SUFFICES ASSUME Inv, [Next]_vars PROVE [Abs!Next]_(Abs!vars)
    OBVIOUS
<1>0. TypeOK /\ AtOK /\ EndWaitingOK /\ MeetingOK
    BY DEF Inv, CursorsOK, WaitingOK
<1> USE DEF Goto
<1>1. ASSUME NEW t \in LT, AddSynchElement(t) PROVE [Abs!Next]_(Abs!vars)
    <2>1. ran' = ran /\ \A f \in Elem, u \in LT : Phase(f, u)' = Phase(f, u)
        BY <1>1, <1>0, NoneAssumption DEF AddSynchElement, Phase, TypeOK
    <2> QED
        BY <2>1, NobodyMoves
<1>2. ASSUME NEW t \in LT, PreRunDone(t) PROVE [Abs!Next]_(Abs!vars)
    <2>1. ran' = ran /\ \A f \in Elem, u \in LT : Phase(f, u)' = Phase(f, u)
        BY <1>2, <1>0, NoneAssumption DEF PreRunDone, Phase, TypeOK
    <2> QED
        BY <2>1, NobodyMoves
<1>3. ASSUME NEW t \in LT, AwaitStep(t) PROVE [Abs!Next]_(Abs!vars)
    <2>1. ran' = ran /\ \A f \in Elem, u \in LT : Phase(f, u)' = Phase(f, u)
        BY <1>3, <1>0, NoneAssumption DEF AwaitStep, Phase, TypeOK
    <2> QED
        BY <2>1, NobodyMoves
<1>4. ASSUME NEW t \in LT, RunWid(t) PROVE [Abs!Next]_(Abs!vars)
    <2>1. ran' = ran /\ \A f \in Elem, u \in LT : Phase(f, u)' = Phase(f, u)
        BY <1>4, <1>0, NoneAssumption DEF RunWid, Phase, TypeOK
    <2> QED
        BY <2>1, NobodyMoves
<1>5. ASSUME NEW t \in LT, SearchMiss(t) PROVE [Abs!Next]_(Abs!vars)
    <2>1. ran' = ran /\ \A f \in Elem, u \in LT : Phase(f, u)' = Phase(f, u)
        BY <1>5, <1>0, NoneAssumption DEF SearchMiss, Phase, TypeOK
    <2> QED
        BY <2>1, NobodyMoves
<1>6. ASSUME NEW t \in LT, SearchHit(t) PROVE [Abs!Next]_(Abs!vars)
    <2>1. ran' = ran /\ \A f \in Elem, u \in LT : Phase(f, u)' = Phase(f, u)
        BY <1>6, <1>0, NoneAssumption DEF SearchHit, Phase, TypeOK
    <2> QED
        BY <2>1, NobodyMoves
<1>7. ASSUME NEW t \in LT, SearchEnd(t) PROVE [Abs!Next]_(Abs!vars)
    <2>1. ran' = ran /\ \A f \in Elem, u \in LT : Phase(f, u)' = Phase(f, u)
        BY <1>7, <1>0, NoneAssumption DEF SearchEnd, Phase, TypeOK
    <2> QED
        BY <2>1, NobodyMoves
<1>8. ASSUME NEW t \in LT, LeaveStart(t) PROVE [Abs!Next]_(Abs!vars)
    <2>1. ran' = ran /\ \A f \in Elem, u \in LT : Phase(f, u)' = Phase(f, u)
        BY <1>8, <1>0, NoneAssumption DEF LeaveStart, Phase, TypeOK
    <2> QED
        BY <2>1, NobodyMoves
<1>9. ASSUME NEW t \in LT, PointDone(t) PROVE [Abs!Next]_(Abs!vars)
    <2>1. ran' = ran /\ \A f \in Elem, u \in LT : Phase(f, u)' = Phase(f, u)
        BY <1>9, <1>0, NoneAssumption DEF PointDone, Phase, TypeOK
    <2> QED
        BY <2>1, NobodyMoves
<1>10. ASSUME NEW t \in LT, ReadActivePoint(t) PROVE [Abs!Next]_(Abs!vars)
    <2>1. ran' = ran /\ \A f \in Elem, u \in LT : Phase(f, u)' = Phase(f, u)
        BY <1>10, <1>0, NoneAssumption DEF ReadActivePoint, Phase, TypeOK
    <2> QED
        BY <2>1, NobodyMoves
<1>11. ASSUME NEW t \in LT, RemoveElement(t) PROVE [Abs!Next]_(Abs!vars)
    <2>1. ran' = ran /\ \A f \in Elem, u \in LT : Phase(f, u)' = Phase(f, u)
        BY <1>11, <1>0, NoneAssumption DEF RemoveElement, Phase, TypeOK
    <2> QED
        BY <2>1, NobodyMoves
<1>12. ASSUME NEW t \in LT, Pass(t) PROVE [Abs!Next]_(Abs!vars)
    <2>1. ran' = ran /\ \A f \in Elem, u \in LT : Phase(f, u)' = Phase(f, u)
        BY <1>12, <1>0, NoneAssumption DEF Pass, Phase, TypeOK
    <2> QED
        BY <2>1, NobodyMoves
<1>13. ASSUME NEW t \in LT, StoppedExternally(t) PROVE [Abs!Next]_(Abs!vars)
    BY <1>13, <1>0, OneDrops DEF StoppedExternally, TypeOK
<1>14. ASSUME NEW t \in LT, StartBroken(t) PROVE [Abs!Next]_(Abs!vars)
    BY <1>14, <1>0, OneDrops DEF StartBroken, TypeOK
<1>15. ASSUME NEW t \in LT, EndBroken(t) PROVE [Abs!Next]_(Abs!vars)
    BY <1>15, <1>0, OneDrops DEF EndBroken, TypeOK
<1>16. ASSUME NEW t \in LT, Stop(t) PROVE [Abs!Next]_(Abs!vars)
    BY <1>16, <1>0, OneDrops DEF Stop, TypeOK
<1>17. ASSUME NEW t \in LT, CheckBroken(t) PROVE [Abs!Next]_(Abs!vars)
    <2>1. ran' = ran /\ at' = at /\ pc[t] = "check" /\ \A u \in LT \ {t} : pc'[u] = pc[u]
        BY <1>17, <1>0 DEF CheckBroken, TypeOK
    <2>2. CASE pc'[t] = "raised"
        BY <2>1, <2>2, OneDrops
    <2>3. CASE pc'[t] = "turn"
        <3>1. \A f \in Elem, u \in LT : Phase(f, u)' = Phase(f, u)
            BY <2>1, <2>3 DEF Phase
        <3> QED
            BY <2>1, <3>1, NobodyMoves
    <2> QED
        BY <1>17, <1>0, <2>2, <2>3 DEF CheckBroken, TypeOK
<1>18. ASSUME NEW t \in LT, EnterEnd(t) PROVE [Abs!Next]_(Abs!vars)
    <2>1. at[t] \in Elem /\ pc[t] = "enter_end" /\ at' = at /\ ran' = ran
        BY <1>18, <1>0 DEF EnterEnd, AtOK, InElem
    <2>2. CASE IsLast(end[at[t]], t, Party(at[t]))
        <3>1. pc' = [pc EXCEPT ![t] = "remove"]
            BY <1>18, <2>2 DEF EnterEnd
        <3>2. ran[at[t]] = Party(at[t])
            BY <1>18, <1>0, <2>2, AllFinished
        <3> QED
            BY <1>0, <2>1, <3>1, <3>2, Leaves DEF TypeOK
    <2>3. CASE ~IsLast(end[at[t]], t, Party(at[t]))
        <3>1. pc' = [pc EXCEPT ![t] = "at_end"]
            BY <1>18, <2>3 DEF EnterEnd
        <3>2. \A f \in Elem, u \in LT : Phase(f, u)' = Phase(f, u)
            BY <1>0, <2>1, <3>1 DEF Phase, TypeOK
        <3> QED
            BY <2>1, <3>2, NobodyMoves
    <2> QED
        BY <2>2, <2>3
<1>19. ASSUME NEW t \in LT, LeaveEnd(t) PROVE [Abs!Next]_(Abs!vars)
    <2>1. at[t] \in Elem /\ Parting(at[t], t)
        BY <1>19, <1>0 DEF LeaveEnd, AtOK, InElem, Parting
    <2>2. ran[at[t]] = Party(at[t])
        BY <1>0, <2>1 DEF MeetingOK, PartingOK
    <2> QED
        BY <1>19, <1>0, <2>1, <2>2, Leaves DEF LeaveEnd, TypeOK
<1>20. ASSUME NEW t \in LT, EnterStart(t) PROVE [Abs!Next]_(Abs!vars)
    BY <1>20, Arrives
<1>21. ASSUME NEW t \in LT, MyTurn(t) PROVE [Abs!Next]_(Abs!vars)
    BY <1>21, Begins
<1>22. ASSUME NEW t \in LT, SetDone(t) PROVE [Abs!Next]_(Abs!vars)
    BY <1>22, Finishes
<1>23. ASSUME NEW a \in Actor, CancelSynch(a) PROVE [Abs!Next]_(Abs!vars)
    BY <1>23, NobodyMoves DEF CancelSynch, Phase
<1>24. ASSUME NEW a \in Actor, AbortEnd(a) PROVE [Abs!Next]_(Abs!vars)
    BY <1>24, NobodyMoves DEF AbortEnd, Phase
<1>25. ASSUME NEW a \in Actor, AbortStart(a) PROVE [Abs!Next]_(Abs!vars)
    BY <1>25, NobodyMoves DEF AbortStart, Phase
<1>26. ASSUME NEW a \in Actor, SetAllDone(a) PROVE [Abs!Next]_(Abs!vars)
    BY <1>26, NobodyMoves DEF SetAllDone, Phase
<1>27. ASSUME NEW a \in Actor, RebindTable(a) PROVE [Abs!Next]_(Abs!vars)
    BY <1>27, NobodyMoves DEF RebindTable, Phase
<1>28. CASE UNCHANGED vars
    BY <1>28, NobodyMoves DEF Phase
<1> QED
    BY <1>1, <1>2, <1>3, <1>4, <1>5, <1>6, <1>7, <1>8, <1>9, <1>10, <1>11, <1>12, <1>13, <1>14, <1>15, <1>16, <1>17, <1>18, <1>19, <1>20, <1>21, <1>22, <1>23, <1>24, <1>25, <1>26, <1>27, <1>28
    DEF Next, Step, Cancel

(* Synch keeps what SynchAbs promises: a round begins when everybody is    *)
(* there, the WIDs are handled one at a time and in order, and nobody goes *)
(* on before all have run, for any number of LTs, elements and cancels.    *)
THEOREM Meeting == Spec => Meets
<1>1. Init => Abs!Init
    BY MeetsInit
<1>2. Inv /\ [Next]_vars => [Abs!Next]_(Abs!vars)
    BY MeetsStep
<1> QED
    BY <1>1, <1>2, Invariance, PTL DEF Spec, Meets, Abs!Spec
=============================================================================
