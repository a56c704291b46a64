------------------------------ MODULE WidProofs ------------------------------
(***************************************************************************)
(* Proofs about WidDialog, for any number of test cases, retries and WIDs. *)
(***************************************************************************)
EXTENDS WidDialog, DataProofs, TLAPS

USE DEF None, vars, ltVars, callbackVars, ptsVars, responseVars, timerVars, senderVars

(* Every step keeps the types.                                             *)
LEMMA TypeStep ==
    ASSUME TypeOK, PhaseOK, [Next]_vars
    PROVE  TypeOK'
<1> USE MaxTestsAssumption, MaxWidsAssumption, FalseIsBoolean DEF TypeOK
<1>1. CASE Begin
    BY <1>1 DEF Begin, LGoto, Cleanup, LPC, Loop
<1>2. CASE StartRun
    BY <1>2 DEF StartRun, LGoto, LPC, Loop, PhaseOK
<1>3. CASE StartFails
    BY <1>3 DEF StartFails, LGoto, LPC, Loop, PhaseOK
<1>4. CASE StoppedExternally
    BY <1>4 DEF StoppedExternally, LGoto, LPC, Loop
<1>5. CASE Finished
    BY <1>5 DEF Finished, LGoto, Finishing, LPC, Loop
<1>6. CASE NextRound
    BY <1>6 DEF NextRound, Finishing, LPC, Loop
<1>7. CASE GetWakes
    BY <1>7 DEF GetWakes, LGoto, LPC, Loop
<1>8. CASE GetReads
    BY <1>8 DEF GetReads, LGoto, LPC, Loop
<1>9. CASE ClearResult
    BY <1>9 DEF ClearResult, LGoto, LPC, Loop
<1>10. CASE ClearFlag
    BY <1>10 DEF ClearFlag, LGoto, LPC, Loop, PhaseOK
<1>11. CASE NoResponse
    <2>1. steps' \in Seq(0..MaxWids)
        BY <1>11, HeadTailProperties DEF NoResponse
    <2> QED
        BY <1>11, <2>1 DEF NoResponse, LGoto, LPC, Loop
<1>12. CASE HandleWid
    <2>1. Head(steps) \in 0..MaxWids /\ Tail(steps) \in Seq(0..MaxWids)
        BY <1>12, HeadTailProperties DEF HandleWid
    <2>2. Append(Tail(steps), 0) \in Seq(0..MaxWids)
        BY <2>1, AppendProperties
    <2>3. steps' \in Seq(0..MaxWids)
        BY <1>12, <2>1, <2>2 DEF HandleWid
    <2> QED
        BY <1>12, <2>1, <2>3 DEF HandleWid, LGoto, LPC, Loop
<1>13. CASE StepFails
    <2>1. steps' \in Seq(0..MaxWids)
        BY <1>13, HeadTailProperties DEF StepFails
    <2> QED
        BY <1>13, <2>1 DEF StepFails, LGoto, LPC, Loop
<1>14. CASE Respond
    BY <1>14 DEF Respond, LGoto, LPC, Loop
<1>15. CASE CancelWid
    BY <1>15 DEF CancelWid, LGoto, LPC, Loop
<1>16. CASE StopTestCase
    BY <1>16 DEF StopTestCase, LGoto, Close, LPC, Loop
<1>17. CASE EndDialog
    BY <1>17 DEF EndDialog, LGoto, Cleanup, Finishing, LPC, Loop, PhaseOK
<1>18. CASE PostRun
    BY <1>18 DEF PostRun, LGoto, LPC, Loop
<1>19. CASE Stop
    BY <1>19 DEF Stop
<1>20. CASE Interrupt
    BY <1>20 DEF Interrupt, LPC, Loop
<1>21. CASE TakeRequest
    <2>1. run' \in 1..MaxTests /\ requests' \in Seq(1..MaxTests)
        BY <1>21, HeadTailProperties DEF TakeRequest
    <2> QED
        BY <1>21, <2>1 DEF TakeRequest
<1>22. CASE Reopened
    BY <1>22 DEF Reopened
<1>23. CASE RecoverPts
    BY <1>23 DEF RecoverPts
<1>24. CASE LookUpResult
    BY <1>24 DEF LookUpResult
<1>25. CASE SetResult
    <2>1. CASE target = cell
        BY <1>25, <2>1 DEF SetResult
    <2>2. CASE target # cell
        BY <1>25, <2>2 DEF SetResult
    <2> QED
        BY <2>1, <2>2
<1>26. CASE RunEnds
    BY <1>26 DEF RunEnds
<1>27. CASE RunFails
    BY <1>27 DEF RunFails, Close
<1>28. CASE Send
    BY <1>28 DEF Send
<1>29. CASE CallClient
    BY <1>29 DEF CallClient
<1>30. CASE ClientRefuses
    BY <1>30 DEF ClientRefuses
<1>31. CASE ClosedMeanwhile
    BY <1>31 DEF ClosedMeanwhile
<1>32. CASE WaitEnds
    BY <1>32 DEF WaitEnds, TimerLeft
<1>33. CASE WaitTimesOut
    BY <1>33 DEF WaitTimesOut, Close, TimerLeft
<1>34. CASE ReadResponse
    BY <1>34 DEF ReadResponse
<1>35. CASE ClearResponse
    BY <1>35 DEF ClearResponse
<1>36. CASE ReturnResponse
    BY <1>36 DEF ReturnResponse
<1>37. CASE TimerExpires
    BY <1>37 DEF TimerExpires
<1>38. CASE RaiseTimeout
    BY <1>38 DEF RaiseTimeout
<1>39. CASE TimerSetsEvent
    BY <1>39 DEF TimerSetsEvent
<1>40. CASE LateTimer
    BY <1>40 DEF LateTimer
<1>41. CASE UNCHANGED vars
    BY <1>41
<1> QED
    BY <1>1, <1>2, <1>3, <1>4, <1>5, <1>6, <1>7, <1>8, <1>9, <1>10, <1>11, <1>12, <1>13,
       <1>14, <1>15, <1>16, <1>17, <1>18, <1>19, <1>20, <1>21, <1>22, <1>23, <1>24,
       <1>25, <1>26, <1>27, <1>28, <1>29, <1>30, <1>31, <1>32, <1>33, <1>34, <1>35,
       <1>36, <1>37, <1>38, <1>39, <1>40, <1>41 DEF Next, LTStep, PtsStep, SenderStep,
       TimerStep

(* The numbers in a typed state.                                           *)
LEMMA Numbers ==
    ASSUME TypeOK
    PROVE  /\ test \in Nat /\ seen \in Nat /\ vres \in Nat /\ run \in Nat
           /\ \A j \in 1..Len(requests) : requests[j] \in 1..MaxTests /\ requests[j] \in Nat
           /\ Len(requests) \in Nat
           /\ \A k \in 1..MaxTests : verdict[k] \in Nat
<1>1. \A j \in 1..Len(requests) : requests[j] \in 1..MaxTests
    BY ElementOfSeq DEF TypeOK
<1>2. Len(requests) \in Nat
    BY LenProperties DEF TypeOK
<1> QED
    BY <1>1, <1>2, MaxTestsAssumption DEF TypeOK

(* The elements of the pipeline are positive and are test cases.           *)
LEMMA PendingType ==
    ASSUME TypeOK, LineOK
    PROVE  Pending \subseteq 1..MaxTests
<1>1. Requested \subseteq 1..MaxTests
    BY ElementOfSeq DEF TypeOK, Requested
<1>2. seen \in 0..MaxTests /\ vres \in 0..MaxTests
    BY DEF TypeOK
<1>3. ppc # "idle" => run \in 1..MaxTests
    BY MaxTestsAssumption DEF TypeOK, LineOK
<1> QED
    BY <1>1, <1>2, <1>3 DEF Pending

(* What VerdictInv says beyond the types.                                  *)
Verdicts == PhaseOK /\ LineOK /\ InTime /\ Fresh /\ Entitled /\ VerdictOrder

(* Steps that leave the LT thread where it is and move no verdict.         *)
LEMMA Unmoved ==
    ASSUME Verdicts, UNCHANGED <<test, lpc, seen, verdict, gaveUp, vres, run, requests>>,
           ppc' = "idle" <=> ppc = "idle"
    PROVE  Verdicts'
<1>1. Requested' = Requested
    BY DEF Requested
<1>2. Pending' = Pending
    BY <1>1 DEF Pending
<1>3. PhaseOK' /\ VerdictOrder'
    BY DEF Verdicts, PhaseOK, VerdictOrder, Finishing
<1>4. LineOK'
    BY DEF Verdicts, LineOK
<1>5. InTime' /\ Fresh' /\ Entitled'
    BY <1>2 DEF Verdicts, InTime, Fresh, Entitled
<1> QED
    BY <1>3, <1>4, <1>5 DEF Verdicts

(* Steps with which the LT thread goes elsewhere in the dialog.            *)
LEMMA Walk ==
    ASSUME TypeOK, Verdicts, UNCHANGED <<test, verdict, gaveUp, vres, ppc, run, requests>>,
           seen' = None,
           lpc \notin {"idle", "start"},
           lpc' \notin {"start", "clear", "unset"},
           lpc' \in {"idle", "post"} => lpc = "post",
           lpc' \in {"wait", "read"} => ~Finishing
    PROVE  Verdicts'
<1>1. Requested' = Requested
    BY DEF Requested
<1>2. Pending' \subseteq Pending
    BY <1>1 DEF Pending
<1>3. PhaseOK' /\ VerdictOrder'
    BY DEF Verdicts, PhaseOK, VerdictOrder, Finishing
<1>4. LineOK'
    BY Numbers DEF Verdicts, LineOK
<1>5. InTime' /\ Fresh' /\ Entitled'
    BY <1>2 DEF Verdicts, InTime, Fresh, Entitled
<1> QED
    BY <1>3, <1>4, <1>5 DEF Verdicts

(* The next test case begins: what is pending belongs to a given-up one.   *)
LEMMA BeginStep ==
    ASSUME TypeOK, Verdicts, Begin
    PROVE  Verdicts'
<1> USE DEF Begin, LGoto, Cleanup
<1>1. Requested' = Requested
    BY DEF Requested
<1>2. Pending' \subseteq Pending /\ Pending \subseteq 1..MaxTests
    BY <1>1, PendingType DEF Pending, Verdicts
<1>3. seen = None /\ test' = test + 1 /\ test \in Nat
    BY DEF Verdicts, PhaseOK, TypeOK
<1>4. PhaseOK'
    <2>1. \A k \in 1..MaxTests : verdict[k] # None => k <= test + 1
        BY <1>3, MaxTestsAssumption DEF Verdicts, PhaseOK
    <2>2. verdict[test + 1] = None
        BY <1>3, MaxTestsAssumption DEF TypeOK, Verdicts, PhaseOK
    <2> QED
        BY <1>3, <2>1, <2>2 DEF PhaseOK, Finishing
<1>5. LineOK'
    BY <1>3, Numbers DEF Verdicts, LineOK
<1>6. InTime'
    BY <1>2, <1>3, MaxTestsAssumption DEF Verdicts, InTime
<1>7. Fresh' /\ Entitled'
    BY <1>2 DEF Verdicts, Fresh, Entitled
<1>8. VerdictOrder'
    BY DEF Verdicts, VerdictOrder
<1> QED
    BY <1>4, <1>5, <1>6, <1>7, <1>8 DEF Verdicts

(* The run of the test case is requested, behind all that is pending.      *)
LEMMA StartRunStep ==
    ASSUME TypeOK, Verdicts, StartRun
    PROVE  Verdicts'
<1> USE DEF StartRun, LGoto
<1>1. requests' = Append(requests, test) /\ test \in 1..MaxTests /\ seen = None
    BY DEF TypeOK, Verdicts, PhaseOK
<1>2. /\ Len(requests') = Len(requests) + 1 /\ Len(requests) \in Nat
      /\ \A j \in 1..Len(requests) : requests'[j] = requests[j] /\ requests[j] \in Requested
      /\ requests'[Len(requests) + 1] = test
    BY <1>1, AppendProperties, LenProperties DEF TypeOK, Requested
<1>3. Requested' = Requested \cup {test}
    BY <1>2 DEF Requested
<1>4. Pending' = Pending \cup {test} /\ Pending \subseteq 1..MaxTests
    BY <1>3, PendingType DEF Pending, Verdicts
<1>5. \A r \in Pending : r < test
    BY DEF Verdicts, InTime
<1>6. PhaseOK'
    BY DEF Verdicts, PhaseOK
<1>7. LineOK'
    <2>1. seen < test /\ vres < test /\ (ppc # "idle" => run < test)
        BY <1>1, <1>5 DEF Pending, TypeOK
    <2>2. \A j \in 1..Len(requests) : requests[j] < test
        BY <1>2, <1>5 DEF Pending
    <2>3. \A j \in 1..Len(requests') : \A i \in 1..j-1 : requests'[i] < requests'[j]
        BY <1>2, <2>2 DEF Verdicts, LineOK
    <2>4. \A j \in 1..Len(requests') :
              seen < requests'[j] /\ vres < requests'[j] /\ (ppc # "idle" => run < requests'[j])
        BY <1>2, <2>1 DEF Verdicts, LineOK
    <2> QED
        BY <1>1, <2>3, <2>4 DEF Verdicts, LineOK
<1>8. InTime'
    BY <1>1, <1>4, <1>5, MaxTestsAssumption DEF InTime
<1>9. Fresh'
    <2>1. \A k \in 1..MaxTests : verdict[k] < test
        BY <1>1, Numbers DEF Verdicts, PhaseOK, Finishing, VerdictOrder
    <2> QED
        BY <1>4, <2>1 DEF Verdicts, Fresh
<1>10. Entitled' /\ VerdictOrder'
    BY <1>4 DEF Verdicts, Entitled, VerdictOrder
<1> QED
    BY <1>6, <1>7, <1>8, <1>9, <1>10 DEF Verdicts

LEMMA StartFailsStep ==
    ASSUME TypeOK, Verdicts, StartFails
    PROVE  Verdicts'
<1> USE DEF StartFails, LGoto
<1>1. Pending' = Pending
    BY DEF Pending, Requested
<1>2. PhaseOK' /\ LineOK' /\ VerdictOrder'
    BY DEF Verdicts, PhaseOK, LineOK, VerdictOrder
<1>3. InTime' /\ Fresh'
    BY <1>1, PendingType, Numbers DEF Verdicts, InTime, Fresh
<1>4. Entitled'
    BY <1>1, PendingType, Numbers DEF Verdicts, InTime, Entitled
<1> QED
    BY <1>2, <1>3, <1>4 DEF Verdicts

(* get_result takes the result; it is the first one pending.               *)
LEMMA GetReadsStep ==
    ASSUME TypeOK, Verdicts, GetReads
    PROVE  Verdicts'
<1> USE DEF GetReads, LGoto
<1>1. Pending' = Pending
    BY DEF Pending, Requested, Verdicts, PhaseOK
<1>2. PhaseOK' /\ VerdictOrder'
    BY DEF Verdicts, PhaseOK, Finishing, VerdictOrder
<1>3. LineOK'
    BY Numbers DEF Verdicts, LineOK
<1>4. InTime' /\ Fresh' /\ Entitled'
    BY <1>1 DEF Verdicts, InTime, Fresh, Entitled
<1> QED
    BY <1>2, <1>3, <1>4 DEF Verdicts

LEMMA ClearResultStep ==
    ASSUME TypeOK, Verdicts, ClearResult
    PROVE  Verdicts'
<1> USE DEF ClearResult, LGoto
<1>1. Pending' \subseteq Pending
    BY DEF Pending, Requested
<1>2. PhaseOK' /\ VerdictOrder'
    BY DEF Verdicts, PhaseOK, Finishing, VerdictOrder
<1>3. LineOK'
    BY Numbers DEF Verdicts, LineOK
<1>4. InTime' /\ Fresh' /\ Entitled'
    BY <1>1 DEF Verdicts, InTime, Fresh, Entitled
<1> QED
    BY <1>2, <1>3, <1>4 DEF Verdicts

(* The result becomes the status of the test case.                         *)
LEMMA ClearFlagStep ==
    ASSUME TypeOK, Verdicts, ClearFlag
    PROVE  Verdicts'
<1> USE DEF ClearFlag, LGoto
<1>1. CASE seen = None
    <2>1. Pending' = Pending /\ verdict' = verdict
        BY <1>1 DEF Pending, Requested
    <2>2. PhaseOK' /\ VerdictOrder' /\ LineOK'
        BY <1>1, <2>1 DEF Verdicts, PhaseOK, Finishing, VerdictOrder, LineOK
    <2> QED
        BY <2>1, <2>2 DEF Verdicts, InTime, Fresh, Entitled
<1>2. CASE seen # None
    <2>1. /\ test \in 1..MaxTests /\ seen \in 1..test /\ verdict[test] = None
          /\ verdict' = [verdict EXCEPT ![test] = seen]
        BY <1>2, Numbers DEF TypeOK, Verdicts, PhaseOK, Finishing, InTime, Pending
    <2>2. /\ verdict'[test] = seen
          /\ \A k \in 1..MaxTests : k # test => verdict'[k] = verdict[k]
        BY <2>1 DEF TypeOK
    <2>3. Pending' \subseteq Pending /\ Pending' \subseteq 1..MaxTests
        BY PendingType DEF Verdicts, Pending, Requested
    <2>4. \A r \in Pending' : seen < r
        BY <1>2, Numbers DEF Verdicts, LineOK, Pending, Requested
    <2>5. \A k \in 1..MaxTests : verdict[k] < seen
        BY <1>2 DEF Verdicts, Fresh, Pending
    <2>6. PhaseOK'
        BY <2>1, <2>2 DEF Verdicts, PhaseOK
    <2>7. LineOK'
        BY Numbers DEF Verdicts, LineOK
    <2>8. InTime' /\ Entitled'
        BY <2>3 DEF Verdicts, InTime, Entitled
    <2>9. Fresh'
        BY <2>2, <2>3, <2>4 DEF Verdicts, Fresh
    <2>10. VerdictOrder'
        <3>1. seen # test => \E g \in gaveUp : g <= seen
            BY <1>2 DEF Verdicts, Entitled, Pending
        <3>2. \A k \in 1..MaxTests : verdict[k] # None => k < test
            BY <2>1, Numbers DEF Verdicts, PhaseOK
        <3>3. \A i \in 1..test-1 : verdict'[i] = verdict[i]
            BY <2>1, <2>2
        <3>4. ASSUME NEW k \in 1..MaxTests, k # test, verdict[k] # None
              PROVE  /\ verdict'[k] = verdict[k]
                     /\ \A i \in 1..k-1 : verdict'[i] = verdict[i]
            BY <2>2, <3>2, <3>4, MaxTestsAssumption
        <3>5. \A i \in 1..test-1 : verdict'[i] < verdict'[test]
            BY <2>1, <2>2, <2>5, <3>3, MaxTestsAssumption
        <3>6. ASSUME NEW k \in 1..MaxTests, verdict'[k] # None
              PROVE  /\ verdict'[k] <= k
                     /\ verdict'[k] # k => \E g \in gaveUp' : g <= verdict'[k]
                     /\ \A i \in 1..k-1 : verdict'[i] < verdict'[k]
            <4>1. CASE k = test
                BY <2>1, <2>2, <3>1, <3>5, <4>1
            <4>2. CASE k # test
                BY <2>2, <3>4, <3>6, <4>2 DEF Verdicts, VerdictOrder
            <4> QED
                BY <4>1, <4>2
        <3> QED
            BY <3>6 DEF VerdictOrder
    <2> QED
        BY <2>6, <2>7, <2>8, <2>9, <2>10 DEF Verdicts
<1> QED
    BY <1>1, <1>2

(* The test case ends: with a verdict, all that is pending is later than   *)
(* that verdict; without one, the test case counts as given up.            *)
LEMMA EndDialogStep ==
    ASSUME TypeOK, Verdicts, EndDialog
    PROVE  Verdicts'
<1> USE DEF EndDialog, LGoto, Cleanup
<1>1. Pending' \subseteq Pending /\ Pending \subseteq 1..MaxTests
    BY PendingType DEF Pending, Requested, Verdicts
<1>2. PhaseOK' /\ LineOK'
    BY Numbers DEF Verdicts, PhaseOK, LineOK
<1>3. test \in 1..MaxTests
    BY DEF TypeOK, Verdicts, PhaseOK
<1>4. VerdictOrder' /\ InTime' /\ Fresh'
    BY <1>1 DEF Verdicts, VerdictOrder, InTime, Fresh
<1>5. ASSUME NEW r \in Pending PROVE \E g \in gaveUp' : g <= r
    <2>1. CASE \E g \in gaveUp : g <= r
        BY <2>1
    <2>2. CASE r = test /\ ~Finishing
        <3>1. test \in gaveUp'
            BY <2>2
        <3>2. test <= r
            BY <2>2, Numbers
        <3> QED
            BY <3>1, <3>2
    <2>3. CASE r = test /\ Finishing
        <3>1. verdict[test] < test
            BY <1>3, <1>5, <2>3 DEF Verdicts, Fresh
        <3>2. PICK g \in gaveUp : g <= verdict[test]
            BY <1>3, <2>3, <3>1, Numbers DEF Verdicts, VerdictOrder, Finishing
        <3> QED
            BY <1>3, <2>3, <3>1, <3>2, Numbers DEF TypeOK
    <2> QED
        BY <2>1, <2>2, <2>3, <1>5 DEF Verdicts, Entitled
<1>6. Entitled'
    BY <1>1, <1>5 DEF Entitled
<1> QED
    BY <1>2, <1>4, <1>6 DEF Verdicts

(* The PTS thread takes the oldest request.                                *)
LEMMA TakeRequestStep ==
    ASSUME TypeOK, Verdicts, TakeRequest
    PROVE  Verdicts'
<1> USE DEF TakeRequest
<1>1. /\ run' = requests[1] /\ Len(requests) \in Nat \ {0}
      /\ Len(requests') = Len(requests) - 1
      /\ \A j \in 1..Len(requests') : requests'[j] = requests[j + 1]
    BY HeadTailProperties, EmptySeq, LenProperties DEF TypeOK
<1>2. Requested' \subseteq Requested /\ run' \in Requested
    BY <1>1 DEF Requested
<1>3. Pending' \subseteq Pending
    BY <1>2 DEF Pending
<1>4. PhaseOK' /\ VerdictOrder'
    BY DEF Verdicts, PhaseOK, Finishing, VerdictOrder
<1>5. LineOK'
    <2>1. \A j \in 1..Len(requests') :
              /\ seen < requests'[j] /\ vres < requests'[j] /\ run' < requests'[j]
              /\ \A i \in 1..j-1 : requests'[i] < requests'[j]
        BY <1>1 DEF Verdicts, LineOK
    <2>2. seen < run' /\ vres < run'
        BY <1>1 DEF Verdicts, LineOK
    <2> QED
        BY <2>1, <2>2 DEF Verdicts, LineOK
<1>6. InTime' /\ Fresh' /\ Entitled'
    BY <1>3 DEF Verdicts, InTime, Fresh, Entitled
<1> QED
    BY <1>4, <1>5, <1>6 DEF Verdicts

(* The verdict of the run is set, or dropped with an old result object.    *)
LEMMA SetResultStep ==
    ASSUME TypeOK, Verdicts, SetResult
    PROVE  Verdicts'
<1> USE DEF SetResult
<1>1. Pending' \subseteq Pending
    BY DEF Pending, Requested
<1>2. PhaseOK' /\ VerdictOrder'
    BY DEF Verdicts, PhaseOK, Finishing, VerdictOrder
<1>3. LineOK'
    <2>1. CASE target = cell
        BY <2>1, Numbers DEF Verdicts, LineOK
    <2>2. CASE target # cell
        BY <2>2, Numbers DEF Verdicts, LineOK
    <2> QED
        BY <2>1, <2>2
<1>4. InTime' /\ Fresh' /\ Entitled'
    BY <1>1 DEF Verdicts, InTime, Fresh, Entitled
<1> QED
    BY <1>2, <1>3, <1>4 DEF Verdicts

(* Every step keeps the invariant.                                         *)
LEMMA VerdictStep ==
    ASSUME TypeOK, Verdicts, [Next]_vars
    PROVE  Verdicts'
<1>1. CASE Begin
    BY <1>1, BeginStep
<1>2. CASE StartRun
    BY <1>2, StartRunStep
<1>3. CASE StartFails
    BY <1>3, StartFailsStep
<1>4. CASE LTStep
    <2>1. CASE StoppedExternally \/ Finished \/ NextRound
        BY <2>1, Walk DEF StoppedExternally, Finished, NextRound, LGoto, Verdicts, PhaseOK
    <2>2. CASE GetWakes
        BY <2>2, Walk DEF GetWakes, LGoto, Verdicts, PhaseOK
    <2>3. CASE NoResponse \/ HandleWid \/ StepFails \/ Respond
        BY <2>3, Walk DEF NoResponse, HandleWid, StepFails, Respond, LGoto, Verdicts, PhaseOK
    <2>4. CASE CancelWid \/ StopTestCase \/ PostRun
        BY <2>4, Walk DEF CancelWid, StopTestCase, PostRun, LGoto, Verdicts, PhaseOK
    <2> QED
        BY <1>4, <2>1, <2>2, <2>3, <2>4, GetReadsStep, ClearResultStep, ClearFlagStep,
           EndDialogStep DEF LTStep
<1>5. CASE Stop
    BY <1>5, Unmoved DEF Stop
<1>6. CASE Interrupt
    BY <1>6, Walk DEF Interrupt, Loop
<1>7. CASE PtsStep
    <2>1. CASE Reopened \/ RecoverPts \/ LookUpResult
        BY <2>1, Unmoved DEF Reopened, RecoverPts, LookUpResult
    <2> QED
        BY <1>7, <2>1, TakeRequestStep, SetResultStep DEF PtsStep
<1>8. CASE RunEnds \/ RunFails
    BY <1>8, Unmoved DEF RunEnds, RunFails
<1>9. CASE Send \/ SenderStep \/ LateTimer
    BY <1>9, Unmoved DEF Send, SenderStep, CallClient, ClientRefuses, ClosedMeanwhile,
       WaitEnds, WaitTimesOut, ReadResponse, ClearResponse, ReturnResponse, LateTimer
<1>10. CASE TimerStep
    BY <1>10, Unmoved DEF TimerStep, TimerExpires, RaiseTimeout, TimerSetsEvent
<1>11. CASE UNCHANGED vars
    BY <1>11, Unmoved
<1> QED
    BY <1>1, <1>2, <1>3, <1>4, <1>5, <1>6, <1>7, <1>8, <1>9, <1>10, <1>11 DEF Next

LEMMA InitVerdict == Init => TypeOK /\ Verdicts
<1> SUFFICES ASSUME Init PROVE TypeOK /\ Verdicts
    OBVIOUS
<1>1. TypeOK
    BY MaxTestsAssumption, MaxWidsAssumption, FalseIsBoolean DEF Init, TypeOK, LPC
<1>2. Requested = {}
    BY EmptySeq DEF Init, Requested
<1>3. Pending = {}
    BY <1>2 DEF Init, Pending
<1>4. PhaseOK /\ VerdictOrder
    BY DEF Init, PhaseOK, VerdictOrder
<1>5. LineOK
    BY EmptySeq DEF Init, LineOK
<1>6. InTime /\ Fresh /\ Entitled
    BY <1>3 DEF InTime, Fresh, Entitled
<1> QED
    BY <1>1, <1>4, <1>5, <1>6 DEF Verdicts

(* The inductive invariant of verdicts holds in every reachable state.     *)
THEOREM VerdictInvariance == Spec => []VerdictInv
<1>1. Init => VerdictInv
    BY InitVerdict DEF VerdictInv, Verdicts
<1>2. VerdictInv /\ [Next]_vars => VerdictInv'
    <2> SUFFICES ASSUME VerdictInv, [Next]_vars PROVE VerdictInv'
        OBVIOUS
    <2>1. TypeOK /\ PhaseOK /\ Verdicts
        BY DEF VerdictInv, Verdicts
    <2> QED
        BY <2>1, TypeStep, VerdictStep DEF VerdictInv, Verdicts
<1> QED
    BY <1>1, <1>2, PTL DEF Spec

(* The variables of the dialog keep their types.                           *)
THEOREM DialogTypes == Spec => []TypeOK
<1>1. VerdictInv => TypeOK
    BY DEF VerdictInv
<1> QED
    BY <1>1, VerdictInvariance, PTL

(* Verdicts are taken at most once and in order, and shift to a later test *)
(* case only behind one that was given up: set_result and get_result, for  *)
(* any number of runs, retries, failures and interrupts.                   *)
THEOREM VerdictsInOrder == Spec => []VerdictOrder
<1>1. VerdictInv => VerdictOrder
    BY DEF VerdictInv
<1> QED
    BY <1>1, VerdictInvariance, PTL

-----------------------------------------------------------------------------
(* The PTS gets the answer to the WID it has sent.                         *)

(* What is past stays: a step reopens no test case and takes no stray back.*)
LEMMA Past ==
    ASSUME TypeOK, Verdicts, [Next]_vars
    PROVE  /\ test <= test' /\ strays <= strays'
           /\ \A k \in 1..MaxTests : k < test => verdict'[k] = verdict[k]
<1> USE Numbers DEF TypeOK
<1>1. CASE Begin
    BY <1>1, MaxTestsAssumption DEF Begin
<1>2. CASE ClearFlag
    BY <1>2, MaxTestsAssumption DEF ClearFlag
<1>3. CASE LateTimer
    BY <1>3, MaxTestsAssumption DEF LateTimer
<1>4. CASE UNCHANGED <<test, verdict, strays>>
    BY <1>4, MaxTestsAssumption
<1>5. StartRun \/ StartFails \/ Stop \/ Interrupt \/ RunEnds \/ RunFails \/ Send \/ UNCHANGED vars
          => UNCHANGED <<test, verdict, strays>>
    BY DEF StartRun, StartFails, Stop, Interrupt, RunEnds, RunFails, Send
<1>6. LTStep /\ ~ClearFlag => UNCHANGED <<test, verdict, strays>>
    BY DEF LTStep, StoppedExternally, Finished, NextRound, GetWakes, GetReads, ClearResult,
       NoResponse, HandleWid, StepFails, Respond, CancelWid, StopTestCase, EndDialog, PostRun
<1>7. PtsStep \/ SenderStep \/ TimerStep => UNCHANGED <<test, verdict, strays>>
    BY DEF PtsStep, TakeRequest, Reopened, RecoverPts, LookUpResult, SetResult, SenderStep,
       CallClient, ClientRefuses, ClosedMeanwhile, WaitEnds, WaitTimesOut, ReadResponse,
       ClearResponse, ReturnResponse, TimerStep, TimerExpires, RaiseTimeout, TimerSetsEvent
<1> QED
    BY <1>1, <1>2, <1>3, <1>4, <1>5, <1>6, <1>7 DEF Next

(* What was disturbed once stays disturbed.                                *)
LEMMA UndisturbedBefore ==
    ASSUME TypeOK, Verdicts, [Next]_vars, Undisturbed'
    PROVE  Undisturbed
<1>1. strays = 0
    BY Past DEF Undisturbed, TypeOK
<1>2. ASSUME NEW k \in Retries, k <= test, verdict[k-1] # k - 1
      PROVE  FALSE
    <2> k \in 2..MaxTests
        BY RetriesAssumption
    <2> TypeOK'
        BY TypeStep DEF Verdicts
    <2> test \in 0..MaxTests /\ test' \in 0..MaxTests /\ test <= test'
        BY Past DEF TypeOK
    <2>1. k \in Nat /\ k - 1 \in 1..MaxTests /\ k - 1 < test /\ k <= test'
        BY <1>2, MaxTestsAssumption
    <2>2. verdict'[k-1] = verdict[k-1]
        BY <2>1, Past
    <2> QED
        BY <1>2, <2>1, <2>2 DEF Undisturbed, TakesOver
<1> QED
    BY <1>1, <1>2 DEF Undisturbed, TakesOver

(* A WID that reaches a test case comes from that test case's own run: the *)
(* verdict of a run that goes on is nobody's, so its retry would take over.*)
LEMMA RunIsTest ==
    ASSUME TypeOK, Verdicts, Undisturbed, Registered, ppc = "run"
    PROVE  run = test
<1>1. run \in 1..MaxTests /\ run \in Pending
    BY PendingType DEF Pending, Verdicts
<1>2. verdict[run] < run
    BY <1>1 DEF Verdicts, Fresh
<1>3. CASE run < test
    <2>1. run + 1 \in (run+1)..test
        BY <1>1, <1>3, Numbers
    <2>2. run + 1 \in Retries /\ run + 1 <= test
        BY <2>1, <1>1, <1>3, Numbers DEF Registered
    <2>3. verdict[(run + 1) - 1] = (run + 1) - 1
        BY <2>2 DEF Undisturbed, TakesOver
    <2> QED
        BY <1>1, <1>2, <2>3, Numbers
<1> QED
    BY <1>1, <1>3, Numbers DEF Registered

(* Nothing moves but the LT thread, in the loop or out of it.              *)
LEMMA Quiet ==
    ASSUME TypeOK, AnswerInv, Undisturbed' => Undisturbed,
           UNCHANGED <<test, steps, answer, requests, run, closed, rflag, rval, spc, sent,
                       rsp, timer>>,
           ppc' = ppc \/ {ppc, ppc'} \cap {"reopen", "run"} = {},
           lpc' \in Loop => lpc \in Loop,
           lpc' = "start" => lpc = "start",
           lpc' = "respond" <=> lpc = "respond"
    PROVE  AnswerInv'
<1>1. SenderOK' /\ RunOK'
    <2>1. SenderOK'
        BY DEF AnswerInv, SenderOK
    <2>2. run <= test /\ (lpc = "start" => run < test)
        BY Numbers DEF AnswerInv, RunOK
    <2>3. RunOK'
        BY <2>2 DEF AnswerInv, RunOK
    <2> QED
        BY <2>1, <2>3
<1>2. SenderDone' = SenderDone /\ Awaited' = Awaited
    BY DEF SenderDone, Awaited
<1>3. Queued' = Queued /\ Outstanding' = Outstanding
    BY DEF Queued, Outstanding
<1>4. OneWid'
    BY <1>2, <1>3 DEF AnswerInv, OneWid
<1>5. ResponseOK' /\ NoStaleFlag' /\ AnswersMatch'
    BY <1>2 DEF AnswerInv, ResponseOK, NoStaleFlag, AnswersMatch
<1> QED
    BY <1>1, <1>4, <1>5 DEF AnswerInv

(* The LT thread leaves the dialog; it may cancel or close on its way.     *)
LEMMA Leaving ==
    ASSUME TypeOK, AnswerInv, Undisturbed' => Undisturbed,
           UNCHANGED <<test, requests, run, ppc, spc, sent, rsp, timer>>,
           lpc # "start", lpc' \notin Loop \cup {"start"}, answer' = None,
           rval' \in {rval, None}, closed => closed'
    PROVE  AnswerInv'
<1>1. SenderOK' /\ RunOK'
    BY DEF AnswerInv, SenderOK, RunOK, Loop
<1>2. SenderDone => SenderDone'
    BY DEF SenderDone
<1>3. OneWid' /\ NoStaleFlag'
    BY DEF OneWid, NoStaleFlag
<1>4. ResponseOK' /\ AnswersMatch'
    BY <1>2 DEF AnswerInv, ResponseOK, AnswersMatch
<1> QED
    BY <1>1, <1>3, <1>4 DEF AnswerInv

LEMMA BeginAnswers ==
    ASSUME TypeOK, AnswerInv, Undisturbed' => Undisturbed, Begin
    PROVE  AnswerInv'
<1> USE DEF Begin, LGoto
<1>1. SenderOK'
    BY DEF AnswerInv, SenderOK
<1>2. RunOK'
    BY Numbers DEF AnswerInv, RunOK
<1>3. Queued' = {} /\ Outstanding' = {} /\ steps' = <<>>
    BY EmptySeq DEF AnswerInv, SenderOK, Queued, Outstanding
<1>4. OneWid'
    BY <1>3, EmptySeq DEF OneWid
<1>5. SenderDone' = SenderDone
    BY DEF SenderDone
<1>6. ResponseOK' /\ AnswersMatch' /\ NoStaleFlag'
    BY <1>5 DEF AnswerInv, ResponseOK, AnswersMatch, NoStaleFlag, Loop
<1> QED
    BY <1>1, <1>2, <1>4, <1>6 DEF AnswerInv

LEMMA StartRunAnswers ==
    ASSUME TypeOK, Verdicts, AnswerInv, Undisturbed' => Undisturbed, StartRun
    PROVE  AnswerInv'
<1> USE DEF StartRun, LGoto
<1>1. SenderOK'
    BY DEF AnswerInv, SenderOK
<1>2. run < test
    BY DEF AnswerInv, RunOK
<1>3. RunOK'
    <2>1. test \in 1..MaxTests /\ Len(requests) \in Nat
        BY Numbers DEF TypeOK, Verdicts, PhaseOK
    <2>2. \A j \in 1..Len(requests') : run < requests'[j]
        BY <1>2, <2>1, AppendProperties DEF TypeOK, AnswerInv, RunOK
    <2> QED
        BY <1>2, <2>2, Numbers DEF RunOK
<1>4. SenderDone' = SenderDone /\ Awaited' = Awaited /\ Queued' = Queued
      /\ Outstanding' = Outstanding
    BY DEF SenderDone, Awaited, Queued, Outstanding
<1>5. OneWid' /\ ResponseOK' /\ AnswersMatch'
    BY <1>4 DEF AnswerInv, OneWid, ResponseOK, AnswersMatch, Loop
<1>6. NoStaleFlag'
    BY <1>2, Numbers DEF NoStaleFlag
<1> QED
    BY <1>1, <1>3, <1>5, <1>6 DEF AnswerInv

(* The elements of the tail of the steps.                                  *)
LEMMA TailOfSteps ==
    ASSUME TypeOK, steps # <<>>
    PROVE  /\ Tail(steps) \in Seq(0..MaxWids) /\ Len(Tail(steps)) \in Nat
           /\ \A j \in 1..Len(Tail(steps)) :
                 Tail(steps)[j] = steps[j+1] /\ j + 1 \in 1..Len(steps)
           /\ 1 \in 1..Len(steps) /\ Head(steps) = steps[1]
           /\ Head(steps) \in 0..MaxWids
<1>1. steps \in Seq(0..MaxWids) /\ Len(steps) \in Nat
    BY LenProperties DEF TypeOK
<1>2. /\ Head(steps) \in 0..MaxWids /\ Tail(steps) \in Seq(0..MaxWids)
      /\ Len(Tail(steps)) = Len(steps) - 1
      /\ \A j \in 1..Len(Tail(steps)) : Tail(steps)[j] = steps[j+1]
    BY <1>1, HeadTailProperties
<1>3. Len(steps) # 0 /\ Head(steps) = steps[1]
    BY <1>1, EmptySeq, HeadTailProperties
<1> QED
    BY <1>1, <1>2, <1>3

(* A deferred step is done.                                                *)
LEMMA NoResponseAnswers ==
    ASSUME TypeOK, AnswerInv, Undisturbed' => Undisturbed, NoResponse, steps # <<>>
    PROVE  AnswerInv'
<1> USE DEF NoResponse, LGoto
<1>1. SenderOK' /\ RunOK'
    BY DEF AnswerInv, SenderOK, RunOK
<1>2. SenderDone' = SenderDone /\ Awaited' = Awaited
    BY DEF SenderDone, Awaited
<1>3. /\ steps' = Tail(steps) /\ Len(steps') \in Nat
      /\ \A j \in 1..Len(steps') : steps'[j] = steps[j+1] /\ j + 1 \in 1..Len(steps)
    BY TailOfSteps
<1>4. Queued' \subseteq Queued /\ Outstanding' \subseteq Outstanding
    BY <1>3 DEF Queued, Outstanding
<1>5. OneWid'
    <2> SUFFICES ASSUME Undisturbed'
        PROVE  /\ \A w \in Outstanding : w = sent /\ run = test /\ (SenderDone \/ Awaited)
               /\ answer # None => Queued = {}
               /\ \A i, j \in 1..Len(steps') : steps'[i] # None /\ steps'[j] # None => i = j
        BY <1>2, <1>4 DEF OneWid
    <2>1. \A i, j \in 1..Len(steps) : steps[i] # None /\ steps[j] # None => i = j
        BY DEF AnswerInv, OneWid, Loop
    <2>2. \A i, j \in 1..Len(steps') : steps'[i] # None /\ steps'[j] # None => i = j
        BY <1>3, <2>1
    <2> QED
        BY <2>2 DEF AnswerInv, OneWid, Loop
<1>6. ResponseOK' /\ NoStaleFlag' /\ AnswersMatch'
    BY <1>2 DEF AnswerInv, ResponseOK, NoStaleFlag, AnswersMatch, Loop
<1> QED
    BY <1>1, <1>5, <1>6 DEF AnswerInv

(* The WID that is handled is the only one queued.                         *)
LEMMA HandleWidAnswers ==
    ASSUME TypeOK, AnswerInv, Undisturbed' => Undisturbed, HandleWid
    PROVE  AnswerInv'
<1> USE DEF HandleWid, LGoto
<1>1. SenderOK' /\ RunOK'
    BY DEF AnswerInv, SenderOK, RunOK
<1>2. SenderDone' = SenderDone /\ Awaited' = Awaited
    BY DEF SenderDone, Awaited
<1>3. /\ Len(Tail(steps)) \in Nat
      /\ \A j \in 1..Len(Tail(steps)) : Tail(steps)[j] = steps[j+1] /\ j + 1 \in 1..Len(steps)
      /\ 1 \in 1..Len(steps) /\ answer' = steps[1] /\ answer' # None
    BY TailOfSteps
<1>4. answer' \in Outstanding
    BY <1>3 DEF Queued, Outstanding
<1>5. OneWid'
    <2> SUFFICES ASSUME Undisturbed' PROVE OneWid'
        BY DEF OneWid
    <2>1. \A i, j \in 1..Len(steps) : steps[i] # None /\ steps[j] # None => i = j
        BY DEF AnswerInv, OneWid, Loop
    <2>2. \A j \in 1..Len(Tail(steps)) : Tail(steps)[j] = None
        <3> SUFFICES ASSUME NEW j \in 1..Len(Tail(steps)), steps[j+1] # None PROVE FALSE
            BY <1>3
        <3>1. j + 1 = 1
            BY <1>3, <2>1
        <3> QED
            BY <3>1, <1>3
    <2>3. \A j \in 1..Len(steps') : steps'[j] = None
        <3>1. CASE steps' = Tail(steps)
            BY <3>1, <2>2
        <3>2. CASE steps' = Append(Tail(steps), 0)
            <4>1. /\ Len(steps') = Len(Tail(steps)) + 1
                  /\ \A j \in 1..Len(Tail(steps)) : steps'[j] = Tail(steps)[j]
                  /\ steps'[Len(Tail(steps)) + 1] = 0
                BY <3>2, TailOfSteps, AppendProperties
            <4> QED
                BY <4>1, <2>2, <1>3
        <3> QED
            BY <3>1, <3>2
    <2>4. Queued' = {} /\ Outstanding' = {answer'}
        BY <2>3, <1>3 DEF Queued, Outstanding
    <2>5. answer' = sent /\ run = test /\ (SenderDone \/ Awaited)
        BY <1>4 DEF AnswerInv, OneWid, Loop
    <2> QED
        BY <1>2, <2>3, <2>4, <2>5 DEF OneWid
<1>6. ResponseOK' /\ NoStaleFlag' /\ AnswersMatch'
    BY <1>2 DEF AnswerInv, ResponseOK, NoStaleFlag, AnswersMatch, Loop
<1> QED
    BY <1>1, <1>5, <1>6 DEF AnswerInv

(* The response: the sender waits for it, or will send nothing any more.   *)
LEMMA RespondAnswers ==
    ASSUME TypeOK, AnswerInv, Undisturbed' => Undisturbed, Respond
    PROVE  AnswerInv'
<1> USE DEF Respond, LGoto
<1>1. SenderOK' /\ RunOK'
    BY DEF AnswerInv, SenderOK, RunOK
<1>2. SenderDone' = SenderDone /\ (Undisturbed' => Queued = {}) /\ Queued' = Queued
    BY DEF AnswerInv, SenderOK, OneWid, SenderDone, Queued, Loop
<1>3. answer # None /\ (Undisturbed' => answer = sent /\ (SenderDone \/ Awaited))
    BY DEF AnswerInv, SenderOK, OneWid, Outstanding, Loop
<1>4. OneWid'
    <2>1. Undisturbed' => Outstanding' = {}
        BY <1>2 DEF Outstanding
    <2> QED
        BY <2>1 DEF AnswerInv, OneWid, Loop
<1>5. ResponseOK' /\ NoStaleFlag'
    BY <1>2, <1>3 DEF AnswerInv, ResponseOK, NoStaleFlag, Loop, Awaited, SenderDone
<1>6. AnswersMatch'
    BY DEF AnswerInv, AnswersMatch
<1> QED
    BY <1>1, <1>4, <1>5, <1>6 DEF AnswerInv

(* A run begins: the LT thread has no WID to answer, because the one of an *)
(* earlier run cannot be left in a test case that has been begun since.    *)
LEMMA TakeRequestAnswers ==
    ASSUME TypeOK, Verdicts, AnswerInv, Undisturbed' => Undisturbed, TakeRequest
    PROVE  AnswerInv'
<1> USE DEF TakeRequest
<1>1. /\ run' = requests[1] /\ Len(requests) \in Nat \ {0}
      /\ Len(requests') = Len(requests) - 1
      /\ \A j \in 1..Len(requests') : requests'[j] = requests[j + 1]
    BY HeadTailProperties, EmptySeq, LenProperties DEF TypeOK
<1>2. SenderOK'
    BY DEF AnswerInv, SenderOK
<1>3. run' \in Pending /\ run' \in 1..MaxTests /\ run < run'
    BY <1>1, PendingType DEF Pending, Requested, Verdicts, AnswerInv, RunOK
<1>4. RunOK'
    <2>1. \A j \in 1..Len(requests') : run' < requests'[j]
        BY <1>1 DEF Verdicts, LineOK
    <2> QED
        BY <1>3, <2>1 DEF RunOK, Verdicts, InTime
<1>5. run # test
    BY <1>3, Numbers DEF Verdicts, InTime
<1>6. OneWid'
    <2>1. Queued' = Queued /\ Outstanding' = Outstanding
        BY DEF Queued, Outstanding
    <2>2. Undisturbed' /\ lpc \in Loop \cup {"start"} => Outstanding = {}
        BY <1>5 DEF AnswerInv, OneWid
    <2> QED
        BY <2>1, <2>2 DEF AnswerInv, OneWid
<1>7. ResponseOK' /\ NoStaleFlag' /\ AnswersMatch'
    BY DEF AnswerInv, ResponseOK, NoStaleFlag, AnswersMatch
<1> QED
    BY <1>2, <1>4, <1>6, <1>7 DEF AnswerInv

(* Steps of the other threads that leave the WID, the steps and the answer *)
(* of the LT alone.  They end no wait for an answer but by closing.        *)
LEMMA SenderGoesOn ==
    ASSUME TypeOK, AnswerInv, Undisturbed' => Undisturbed, SenderOK',
           UNCHANGED <<test, lpc, steps, answer, requests, run, sent>>,
           SenderDone => SenderDone',
           Awaited => Awaited' \/ SenderDone',
           rval' \in {rval, None},
           Undisturbed' /\ rval' # None => SenderDone' \/ spc' \in {"wait", "read", "clear"},
           rsp' \in {rsp, None},
           rsp' # None => spc \in {"clear", "unset"},
           rflag' => \/ ~(ppc' = "run" /\ spc' \in {"out", "call"})
                     \/ rflag /\ ppc = "run" /\ spc \in {"out", "call"}
    PROVE  AnswerInv'
<1>1. RunOK'
    BY DEF AnswerInv, RunOK
<1>2. Queued' = Queued /\ Outstanding' = Outstanding
    BY DEF Queued, Outstanding
<1>3. OneWid'
    BY <1>2 DEF AnswerInv, OneWid
<1>4. ResponseOK'
    BY DEF AnswerInv, ResponseOK
<1>5. NoStaleFlag'
    BY DEF AnswerInv, NoStaleFlag
<1>6. AnswersMatch'
    BY DEF AnswerInv, AnswersMatch
<1> QED
    BY <1>1, <1>3, <1>4, <1>5, <1>6 DEF AnswerInv

LEMMA PtsAnswers ==
    ASSUME TypeOK, AnswerInv, Undisturbed' => Undisturbed,
           Reopened \/ RecoverPts \/ RunEnds \/ RunFails
    PROVE  AnswerInv'
<1> USE DEF SenderDone, Awaited
<1>1. SenderOK
    BY DEF AnswerInv
<1>2. CASE Reopened
    <2>1. SenderOK'
        BY <1>1, <1>2 DEF Reopened, SenderOK
    <2>2. Undisturbed' /\ rval' # None => SenderDone
        BY <1>1, <1>2 DEF Reopened, SenderOK, AnswerInv, ResponseOK
    <2> QED
        BY <1>1, <1>2, <2>1, <2>2, SenderGoesOn DEF Reopened, SenderOK
<1>3. CASE RecoverPts
    <2>1. SenderOK'
        BY <1>1, <1>3 DEF RecoverPts, SenderOK
    <2> QED
        BY <1>1, <1>3, <2>1, SenderGoesOn DEF RecoverPts, SenderOK
<1>4. CASE RunEnds
    <2>1. SenderOK'
        BY <1>1, <1>4 DEF RunEnds, SenderOK
    <2> QED
        BY <1>1, <1>4, <2>1, SenderGoesOn DEF RunEnds, SenderOK
<1>5. CASE RunFails
    <2>1. SenderOK'
        BY <1>1, <1>5 DEF RunFails, Close, SenderOK
    <2> QED
        BY <1>1, <1>5, <2>1, SenderGoesOn DEF RunFails, Close, SenderOK
<1> QED
    BY <1>2, <1>3, <1>4, <1>5

(* A further WID is sent once the one before has been answered.            *)
LEMMA SendAnswers ==
    ASSUME TypeOK, AnswerInv, Undisturbed' => Undisturbed, Send
    PROVE  AnswerInv'
<1> USE DEF Send
<1>1. SenderOK' /\ RunOK'
    BY DEF AnswerInv, SenderOK, RunOK
<1>2. ~SenderDone /\ ~Awaited
    BY DEF SenderDone, Awaited
<1>3. Queued' = Queued /\ Outstanding' = Outstanding
    BY DEF Queued, Outstanding
<1>4. Undisturbed' /\ lpc \in Loop \cup {"start"} => Outstanding = {}
    BY <1>2 DEF AnswerInv, OneWid
<1>5. Undisturbed' => rval = None
    BY <1>2 DEF AnswerInv, ResponseOK
<1>6. OneWid'
    BY <1>3, <1>4 DEF AnswerInv, OneWid
<1>7. ResponseOK'
    BY <1>5 DEF ResponseOK
<1>8. NoStaleFlag'
    BY DEF AnswerInv, NoStaleFlag, SenderDone
<1>9. AnswersMatch'
    BY DEF AnswersMatch
<1> QED
    BY <1>1, <1>6, <1>7, <1>8, <1>9 DEF AnswerInv

(* The WID reaches the LT thread of its own test case, which has no other, *)
(* and the sender waits for it with its event clear.                       *)
LEMMA CallClientAnswers ==
    ASSUME TypeOK, Verdicts, AnswerInv, Undisturbed' => Undisturbed, CallClient
    PROVE  AnswerInv'
<1> USE DEF CallClient
<1>1. SenderOK' /\ RunOK' /\ ppc = "run"
    BY DEF AnswerInv, SenderOK, RunOK
<1>2. ~SenderDone /\ ~Awaited
    BY <1>1 DEF SenderDone, Awaited
<1>3. ResponseOK' /\ NoStaleFlag' /\ AnswersMatch'
    BY DEF AnswerInv, SenderDone, ResponseOK, NoStaleFlag, AnswersMatch
<1>4. OneWid'
    <2> SUFFICES ASSUME Undisturbed', lpc \in Loop \cup {"start"} PROVE OneWid'
        BY DEF OneWid
    <2>1. run = test
        BY <1>1, RunIsTest
    <2>2. lpc \in Loop
        BY <2>1, Numbers DEF AnswerInv, RunOK
    <2>3. ~rflag
        BY <1>1, <1>2, <2>1, <2>2 DEF AnswerInv, NoStaleFlag
    <2>4. Outstanding = {}
        BY <1>2 DEF AnswerInv, OneWid
    <2>5. Len(steps) \in Nat /\ \A j \in 1..Len(steps) : steps[j] = None
        BY <2>4, LenProperties DEF Outstanding, Queued, TypeOK
    <2>6. /\ Len(steps') = Len(steps) + 1
          /\ \A j \in 1..Len(steps) : steps'[j] = steps[j]
          /\ steps'[Len(steps) + 1] = sent
        BY AppendProperties DEF TypeOK
    <2>7. Outstanding' \subseteq {sent} /\ answer' = None
        BY <2>4, <2>5, <2>6 DEF Outstanding, Queued
    <2>8. \A i, j \in 1..Len(steps') : steps'[i] # None /\ steps'[j] # None => i = j
        BY <2>5, <2>6
    <2>9. Awaited'
        BY <2>3 DEF Awaited
    <2> QED
        BY <2>1, <2>7, <2>8, <2>9 DEF OneWid
<1> QED
    BY <1>1, <1>3, <1>4 DEF AnswerInv

(* The answer that is read is the one to the WID that was sent.            *)
LEMMA ReadResponseAnswers ==
    ASSUME TypeOK, AnswerInv, Undisturbed' => Undisturbed, ReadResponse
    PROVE  AnswerInv'
<1> USE DEF ReadResponse
<1>1. SenderOK' /\ RunOK'
    BY DEF AnswerInv, SenderOK, RunOK
<1>2. SenderDone' = SenderDone /\ ~Awaited
    BY DEF SenderDone, Awaited
<1>3. Queued' = Queued /\ Outstanding' = Outstanding
    BY DEF Queued, Outstanding
<1>4. OneWid'
    BY <1>2, <1>3 DEF AnswerInv, OneWid
<1>5. ResponseOK' /\ NoStaleFlag'
    BY <1>2 DEF AnswerInv, ResponseOK, NoStaleFlag
<1>6. AnswersMatch'
    BY DEF AnswerInv, ResponseOK, AnswersMatch
<1> QED
    BY <1>1, <1>4, <1>5, <1>6 DEF AnswerInv

LEMMA SenderAnswers ==
    ASSUME TypeOK, AnswerInv, Undisturbed' => Undisturbed,
           \/ ClientRefuses \/ ClosedMeanwhile \/ WaitEnds \/ WaitTimesOut
           \/ ClearResponse \/ ReturnResponse \/ TimerStep
    PROVE  AnswerInv'
<1> USE DEF SenderDone, Awaited
<1>1. SenderOK
    BY DEF AnswerInv
<1>2. CASE ClientRefuses
    <2>1. SenderOK'
        BY <1>1, <1>2 DEF ClientRefuses, SenderOK
    <2> QED
        BY <1>1, <1>2, <2>1, SenderGoesOn DEF ClientRefuses, SenderOK
<1>3. CASE ClosedMeanwhile
    <2>1. SenderOK'
        BY <1>1, <1>3 DEF ClosedMeanwhile, SenderOK
    <2> QED
        BY <1>1, <1>3, <2>1, SenderGoesOn DEF ClosedMeanwhile, SenderOK
<1>4. CASE WaitEnds
    <2>1. SenderOK'
        BY <1>1, <1>4 DEF WaitEnds, TimerLeft, SenderOK
    <2> QED
        BY <1>1, <1>4, <2>1, SenderGoesOn DEF WaitEnds, TimerLeft, SenderOK
<1>5. CASE WaitTimesOut
    <2>1. SenderOK'
        BY <1>1, <1>5 DEF WaitTimesOut, TimerLeft, Close, SenderOK
    <2> QED
        BY <1>1, <1>5, <2>1, SenderGoesOn DEF WaitTimesOut, TimerLeft, Close, SenderOK
<1>6. CASE ClearResponse
    <2>1. SenderOK'
        BY <1>1, <1>6 DEF ClearResponse, SenderOK
    <2> QED
        BY <1>1, <1>6, <2>1, SenderGoesOn DEF ClearResponse, SenderOK
<1>7. CASE ReturnResponse
    <2>1. SenderOK'
        BY <1>1, <1>7 DEF ReturnResponse, SenderOK
    <2>2. Undisturbed' /\ rval' # None => SenderDone
        BY <1>7 DEF ReturnResponse, AnswerInv, ResponseOK
    <2> QED
        BY <1>1, <1>7, <2>1, <2>2, SenderGoesOn DEF ReturnResponse, SenderOK
<1>8. CASE TimerStep
    <2>1. SenderOK'
        BY <1>1, <1>8 DEF TimerStep, TimerExpires, RaiseTimeout, TimerSetsEvent, SenderOK
    <2>2. Undisturbed' /\ rval' # None => SenderDone \/ spc \in {"wait", "read", "clear"}
        BY <1>8 DEF TimerStep, TimerExpires, RaiseTimeout, TimerSetsEvent, AnswerInv, ResponseOK
    <2> QED
        BY <1>1, <1>8, <2>1, <2>2, SenderGoesOn DEF TimerStep, TimerExpires, RaiseTimeout,
           TimerSetsEvent, SenderOK
<1> QED
    BY <1>2, <1>3, <1>4, <1>5, <1>6, <1>7, <1>8

(* A late timer disturbs the dialog from then on.                          *)
LEMMA LateTimerAnswers ==
    ASSUME TypeOK, AnswerInv, LateTimer
    PROVE  AnswerInv'
<1>1. ~Undisturbed'
    BY DEF LateTimer, Undisturbed, TypeOK
<1>2. SenderOK' /\ RunOK'
    BY DEF LateTimer, AnswerInv, SenderOK, RunOK
<1> QED
    BY <1>1, <1>2 DEF AnswerInv, OneWid, ResponseOK, NoStaleFlag, AnswersMatch

(* Every step keeps the invariant.                                         *)
LEMMA AnswerStep ==
    ASSUME TypeOK, Verdicts, AnswerInv, [Next]_vars
    PROVE  AnswerInv'
<1> USE UndisturbedBefore
<1>1. CASE Begin \/ StartRun
    BY <1>1, BeginAnswers, StartRunAnswers
<1>2. CASE StartFails \/ Stop \/ UNCHANGED vars
    <2>1. CASE StartFails
        BY <2>1, Quiet DEF StartFails, LGoto, Loop
    <2>2. CASE Stop \/ UNCHANGED vars
        BY <2>2, Quiet DEF Stop
    <2> QED
        BY <1>2, <2>1, <2>2
<1>3. CASE StoppedExternally \/ Finished \/ NextRound \/ EndDialog \/ PostRun
    BY <1>3, Quiet DEF StoppedExternally, Finished, NextRound, EndDialog, PostRun, LGoto, Loop
<1>4. CASE GetWakes \/ GetReads \/ ClearResult \/ ClearFlag
    BY <1>4, Quiet DEF GetWakes, GetReads, ClearResult, ClearFlag, LGoto, Loop
<1>5. CASE NoResponse
    <2>1. CASE steps = <<>>
        BY <1>5, <2>1, Quiet, EmptySeq DEF NoResponse, LGoto, Loop
    <2> QED
        BY <1>5, <2>1, NoResponseAnswers
<1>6. CASE HandleWid \/ Respond
    BY <1>6, HandleWidAnswers, RespondAnswers
<1>7. CASE StepFails \/ CancelWid \/ StopTestCase
    BY <1>7, Leaving DEF StepFails, CancelWid, StopTestCase, Close, LGoto, Loop, AnswerInv,
       SenderOK
<1>8. CASE Interrupt
    BY <1>8, Leaving DEF Interrupt, Loop
<1>9. CASE PtsStep \/ RunEnds \/ RunFails
    <2>1. CASE LookUpResult \/ SetResult
        BY <2>1, Quiet DEF LookUpResult, SetResult
    <2> QED
        BY <1>9, <2>1, TakeRequestAnswers, PtsAnswers DEF PtsStep
<1>10. CASE Send \/ SenderStep \/ TimerStep \/ LateTimer
    BY <1>10, SendAnswers, CallClientAnswers, ReadResponseAnswers, SenderAnswers,
       LateTimerAnswers DEF SenderStep
<1> QED
    BY <1>1, <1>2, <1>3, <1>4, <1>5, <1>6, <1>7, <1>8, <1>9, <1>10 DEF Next, LTStep

LEMMA InitAnswers == Init => AnswerInv
<1> SUFFICES ASSUME Init PROVE AnswerInv
    OBVIOUS
<1>1. SenderOK /\ RunOK
    BY EmptySeq DEF Init, SenderOK, RunOK
<1>2. OneWid /\ ResponseOK /\ NoStaleFlag /\ AnswersMatch
    BY DEF Init, OneWid, ResponseOK, NoStaleFlag, AnswersMatch, Loop
<1> QED
    BY <1>1, <1>2 DEF AnswerInv

(* The inductive invariant of the dialog holds in every reachable state.   *)
THEOREM DialogInvariance == Spec => []DialogInv
<1>1. Init => DialogInv
    BY InitVerdict, InitAnswers DEF DialogInv, VerdictInv, Verdicts
<1>2. DialogInv /\ [Next]_vars => DialogInv'
    <2> SUFFICES ASSUME DialogInv, [Next]_vars PROVE DialogInv'
        OBVIOUS
    <2>1. TypeOK /\ PhaseOK /\ Verdicts /\ AnswerInv
        BY DEF DialogInv, VerdictInv, AnswerInv, Verdicts
    <2> QED
        BY <2>1, TypeStep, VerdictStep, AnswerStep
        DEF DialogInv, VerdictInv, AnswerInv, Verdicts
<1> QED
    BY <1>1, <1>2, PTL DEF Spec

(* set_wid_response and OnImplicitSend: but for a late timer and a retry   *)
(* that takes over a run, the PTS gets the answer to the WID it has sent.  *)
THEOREM AnswersAlwaysMatch == Spec => []AnswersMatch
<1>1. DialogInv => AnswersMatch
    BY DEF DialogInv, AnswerInv
<1> QED
    BY <1>1, DialogInvariance, PTL
=============================================================================
