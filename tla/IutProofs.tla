------------------------------ MODULE IutProofs ------------------------------
(***************************************************************************)
(* Proofs about IutCtl, for any number of test cases, resets and faults.   *)
(***************************************************************************)
EXTENDS IutCtl, TLAPS

USE DEF vars, counters, env, iutVars

(* A counter below its bound.                                               *)
LEMMA Counted == \A m \in Nat : \A n \in 0 .. m : n < m => n + 1 \in 0 .. m
OBVIOUS

-----------------------------------------------------------------------------
(* Types.                                                                   *)

LEMMA TypesNext ==
    ASSUME TypeOK, Next
    PROVE  TypeOK'
<1> USE BoundAssumption DEF TypeOK, Fault, Upsets, Resetting, Boots, NoReset, PerhapsReset,
        Clear, Stopped
<1>1. CASE Booted
    BY Counted, <1>1 DEF Booted
<1>2. CASE Dies
    BY Counted, <1>2 DEF Dies
<1>3. CASE ResetsItself
    BY Counted, <1>3 DEF ResetsItself
<1>4. CASE Receive
    BY Counted, <1>4 DEF Receive
<1>5. CASE BeginCase
    BY Counted, <1>5 DEF BeginCase
<1>6. CASE StartTty
    BY Counted, <1>6 DEF StartTty
<1>7. CASE FlushSerial
    BY Counted, <1>7 DEF FlushSerial
<1>8. CASE StartProcess
    BY Counted, <1>8 DEF StartProcess
<1>9. CASE Accept
    BY Counted, <1>9 DEF Accept
<1>10. CASE CheckAgain
    BY Counted, <1>10 DEF CheckAgain
<1>11. CASE Reset
    BY Counted, <1>11 DEF Reset, ThenAt
<1>12. CASE Ready
    BY Counted, <1>12 DEF Ready
<1>13. CASE NotReady
    BY Counted, <1>13 DEF NotReady
<1>14. CASE Use
    BY Counted, <1>14 DEF Use
<1>15. CASE ResetInCase
    <2>1. resets + 1 \in 0 .. MaxResets
        BY <1>15, Counted DEF ResetInCase
    <2>2. CASE mode = "tty" /\ Clear
        <3>1. upset' \subseteq Upsets /\ queue' \in Nat /\ faults' \in 0 .. MaxFaults
            BY <2>2
        <3>2. pc' \in {"casereset", "stop"} /\ after' \in {"idle", "start"}
            BY <1>15 DEF ResetInCase
        <3>3. isRunning' /\ mode' = "tty"
            BY <1>15, <2>2 DEF ResetInCase
        <3> QED
            BY <2>1, <3>1, <3>2, <3>3, <1>15 DEF ResetInCase
    <2>3. CASE mode = "process" /\ pc' = "stop" /\ UNCHANGED <<queue, env>>
        BY <2>1, <2>3, <1>15 DEF ResetInCase
    <2> QED
        BY <2>2, <2>3, <1>15 DEF ResetInCase
<1>16. CASE EndCase
    BY Counted, <1>16 DEF EndCase
<1>17. CASE StopTty
    BY Counted, <1>17 DEF StopTty
<1>18. CASE StopWaited
    BY Counted, <1>18 DEF StopWaited
<1>19. CASE CloseTty
    BY Counted, <1>19 DEF CloseTty
<1>20. CASE StopProcess
    BY Counted, <1>20 DEF StopProcess
<1>21. CASE Recovery
    BY Counted, <1>21 DEF Recovery
<1>22. CASE CutStart
    BY Counted, <1>22 DEF CutStart
<1>23. CASE CutStop
    BY Counted, <1>23 DEF CutStop
<1> QED
    BY <1>1, <1>2, <1>3, <1>4, <1>5, <1>6, <1>7, <1>8, <1>9, <1>10, <1>11,
       <1>12, <1>13, <1>14, <1>15, <1>16, <1>17, <1>18, <1>19, <1>20, <1>21,
       <1>22, <1>23
       DEF Next, Iut, Thread, Case

LEMMA TypesStep == TypeOK /\ [Next]_vars => TypeOK'
<1>1. TypeOK /\ UNCHANGED vars => TypeOK'
    BY DEF TypeOK
<1> QED
    BY <1>1, TypesNext

-----------------------------------------------------------------------------
(* Boots and events.                                                        *)

LEMMA OneBootNext ==
    ASSUME TypeOK, OneBoot, Next
    PROVE  OneBoot'
<1> USE DEF TypeOK, OneBoot, Uncut, Pending, UnderWay, Silent, Fault, Resetting, Boots, NoReset,
        PerhapsReset, Clear, Stopped
<1>1. CASE Booted
    BY <1>1 DEF Booted
<1>2. CASE Dies
    BY <1>2 DEF Dies
<1>3. CASE ResetsItself
    BY <1>3 DEF ResetsItself
<1>4. CASE Receive
    BY <1>4 DEF Receive
<1>5. CASE BeginCase
    BY <1>5 DEF BeginCase
<1>6. CASE StartTty
    BY <1>6 DEF StartTty
<1>7. CASE FlushSerial
    BY <1>7 DEF FlushSerial
<1>8. CASE StartProcess
    BY <1>8 DEF StartProcess
<1>9. CASE Accept
    BY <1>9 DEF Accept
<1>10. CASE CheckAgain
    BY <1>10 DEF CheckAgain
<1>11. CASE Reset
    BY <1>11 DEF Reset, ThenAt
<1>12. CASE Ready
    BY <1>12 DEF Ready
<1>13. CASE NotReady
    BY <1>13 DEF NotReady
<1>14. CASE Use
    BY <1>14 DEF Use
<1>15. CASE ResetInCase
    BY <1>15 DEF ResetInCase
<1>16. CASE EndCase
    BY <1>16 DEF EndCase
<1>17. CASE StopTty
    BY <1>17 DEF StopTty
<1>18. CASE StopWaited
    BY <1>18 DEF StopWaited
<1>19. CASE CloseTty
    BY <1>19 DEF CloseTty
<1>20. CASE StopProcess
    BY <1>20 DEF StopProcess
<1>21. CASE Recovery
    BY <1>21 DEF Recovery
<1>22. CASE CutStart
    BY <1>22 DEF CutStart
<1>23. CASE CutStop
    BY <1>23 DEF CutStop
<1> QED
    BY <1>1, <1>2, <1>3, <1>4, <1>5, <1>6, <1>7, <1>8, <1>9, <1>10, <1>11,
       <1>12, <1>13, <1>14, <1>15, <1>16, <1>17, <1>18, <1>19, <1>20, <1>21,
       <1>22, <1>23
       DEF Next, Iut, Thread, Case

LEMMA CutBootsNext ==
    ASSUME TypeOK, CutBoots, Next
    PROVE  CutBoots'
<1> USE DEF TypeOK, CutBoots, CutBoard, Pending, UnderWay, Silent, Fault, Resetting, Boots,
        NoReset, PerhapsReset, Clear, Stopped
<1>1. CASE Booted
    BY <1>1 DEF Booted
<1>2. CASE Dies
    BY <1>2 DEF Dies
<1>3. CASE ResetsItself
    BY <1>3 DEF ResetsItself
<1>4. CASE Receive
    BY <1>4 DEF Receive
<1>5. CASE BeginCase
    BY <1>5 DEF BeginCase
<1>6. CASE StartTty
    BY <1>6 DEF StartTty
<1>7. CASE FlushSerial
    BY <1>7 DEF FlushSerial
<1>8. CASE StartProcess
    BY <1>8 DEF StartProcess
<1>9. CASE Accept
    BY <1>9 DEF Accept
<1>10. CASE CheckAgain
    BY <1>10 DEF CheckAgain
<1>11. CASE Reset
    BY <1>11 DEF Reset, ThenAt
<1>12. CASE Ready
    BY <1>12 DEF Ready
<1>13. CASE NotReady
    BY <1>13 DEF NotReady
<1>14. CASE Use
    BY <1>14 DEF Use
<1>15. CASE ResetInCase
    BY <1>15 DEF ResetInCase
<1>16. CASE EndCase
    BY <1>16 DEF EndCase
<1>17. CASE StopTty
    BY <1>17 DEF StopTty
<1>18. CASE StopWaited
    BY <1>18 DEF StopWaited
<1>19. CASE CloseTty
    BY <1>19 DEF CloseTty
<1>20. CASE StopProcess
    BY <1>20 DEF StopProcess
<1>21. CASE Recovery
    BY <1>21 DEF Recovery
<1>22. CASE CutStart
    BY <1>22 DEF CutStart
<1>23. CASE CutStop
    BY <1>23 DEF CutStop
<1> QED
    BY <1>1, <1>2, <1>3, <1>4, <1>5, <1>6, <1>7, <1>8, <1>9, <1>10, <1>11,
       <1>12, <1>13, <1>14, <1>15, <1>16, <1>17, <1>18, <1>19, <1>20, <1>21,
       <1>22, <1>23
       DEF Next, Iut, Thread, Case

-----------------------------------------------------------------------------
(* The theorems.                                                            *)

LEMMA IutInvInit == Init => IutInv
<1> SUFFICES ASSUME Init PROVE IutInv
    OBVIOUS
<1>1. mode \in {"tty", "process"} /\ iut \in {"off", "up"}
    BY ModesAssumption DEF Init
<1>2. 0 \in 0 .. MaxCases /\ 0 \in 0 .. MaxResets /\ 0 \in 0 .. MaxFaults
    BY BoundAssumption
<1>3. TypeOK
    BY <1>1, <1>2 DEF Init, TypeOK, Upsets
<1>4. OneBoot /\ CutBoots
    BY <1>1 DEF Init, OneBoot, CutBoots, Uncut, CutBoard, Pending, UnderWay, Resetting
<1> QED
    BY <1>3, <1>4 DEF IutInv

LEMMA IutInvStep == IutInv /\ [Next]_vars => IutInv'
<1> SUFFICES ASSUME IutInv, [Next]_vars PROVE IutInv'
    OBVIOUS
<1>1. TypeOK'
    BY TypesStep DEF IutInv
<1>2. CASE Next
    BY <1>1, <1>2, OneBootNext, CutBootsNext DEF IutInv
<1>3. CASE UNCHANGED vars
    BY <1>1, <1>3 DEF IutInv, OneBoot, CutBoots, Uncut, CutBoard, Pending, UnderWay, Resetting
<1> QED
    BY <1>2, <1>3

(* The inductive invariant holds in every run.                              *)
THEOREM IutInvariance == Spec => []IutInv
BY IutInvInit, IutInvStep, PTL DEF Spec

(* The variables keep their types, a stopped IUT has no socket.             *)
THEOREM IutTypes == Spec => []TypeOK
<1>1. IutInv => TypeOK
    BY DEF IutInv
<1> QED
    BY <1>1, IutInvariance, PTL

(* A test case, and a part of it after a reset, begins on a fresh IUT, with *)
(* any number of the faults that are tolerated.                             *)
THEOREM IutIsFresh == Spec => FreshIut
<1>1. IutInv /\ [Next]_vars => [Begins /\ Tolerated => iut = "up" /\ ~used]_vars
    <2> SUFFICES ASSUME IutInv, Next, Begins, Tolerated
                 PROVE  iut = "up" /\ ~used
        OBVIOUS
    <2>1. pc = "wait" /\ queue > 0
        BY DEF Begins, Next, Iut, Thread, Case, Booted, Dies, ResetsItself, Receive, BeginCase, StartTty, FlushSerial, StartProcess, Accept, CheckAgain, Reset, Ready, NotReady, Use, ResetInCase, EndCase, StopTty, StopWaited, CloseTty, StopProcess, Recovery, CutStart, CutStop, ThenAt, Resetting
    <2>2. queue \in Nat /\ line \in Nat
        BY DEF IutInv, TypeOK
    <2>3. CASE Uncut
        BY <2>1, <2>2, <2>3 DEF IutInv, OneBoot, Pending, UnderWay
    <2>4. CASE CutBoard
        BY <2>1, <2>2, <2>4 DEF IutInv, CutBoots, Pending, UnderWay
    <2> QED
        BY <2>3, <2>4 DEF Tolerated
<1> QED
    BY <1>1, IutInvariance, PTL DEF Spec, FreshIut
=============================================================================
