---------------------------- MODULE RunLoopProofs ----------------------------
(***************************************************************************)
(* Proofs about RunLoop, for any list of test cases, LTs, handlers and     *)
(* verdicts, and any number of WIDs and failures.                          *)
(***************************************************************************)
EXTENDS RunLoop, DataProofs, TLAPS

USE DEF mainVars, cases, vars, threads

-----------------------------------------------------------------------------
(* Data.                                                                    *)

(* Where the names and numbers of the LTs lie.                              *)
LEMMA Numbers ==
    /\ LTs \subseteq Nat \ {0}
    /\ tc \in DOMAIN Width =>
           /\ Width[tc] \in Nat \ {0}
           /\ Active \subseteq LTs /\ 1 \in Active
           /\ \A i \in Active : Name(i) \in Names
<1>1. \A t \in DOMAIN Width : Width[t] \in Nat \ {0}
    BY WidthAssumption
<1> QED
    BY <1>1 DEF LTs, Active, Names, Name

-----------------------------------------------------------------------------
(* Types.                                                                   *)

LEMMA TypesInit == Init => Types
<1> SUFFICES ASSUME Init PROVE Types
    OBVIOUS
<1> USE BoundAssumption, FalseIsBoolean DEF Init
<1>1. 1 \in DOMAIN Width
    BY WidthAssumption
<1>2. NoPeer \in Peers
    BY DEF NoPeer, Peers
<1>3. MainTypes
    BY <1>1 DEF MainTypes, Statuses, Codes
<1>4. ThreadTypes
    BY DEF ThreadTypes, Places, Codes
<1>5. CaseTypes
    BY DEF CaseTypes, Statuses, States
<1>6. PeerTypes
    BY <1>2 DEF PeerTypes
<1> QED
    BY <1>3, <1>4, <1>5, <1>6 DEF Types, MainTypes, CaseTypes

(* RUNNING_TEST_CASE holds test cases, and those without the one that ended.*)
LEMMA RunningTyped ==
    ASSUME Types, Registered, NEW i \in Active, Alive(i), lt[i] # "begin"
    PROVE  LET k == CHOOSE k \in DOMAIN running : running[k] = Name(i)
           IN  /\ k \in DOMAIN running /\ running[k] = Name(i)
               /\ RemoveAt(running, k) \in Seq(Names)
<1>1. Name(i) \in Names /\ running \in Seq(Names)
    BY Numbers DEF Types, MainTypes, CaseTypes
<1>2. \E k \in DOMAIN running : running[k] = Name(i)
    BY <1>1 DEF Registered, Contains, Name, Alive
<1> QED
    BY <1>1, <1>2, RemovedElements


(* An LT that takes a step is one of the test case that runs.              *)
LEMMA Stepping ==
    ASSUME MainTypes, LocksOK, NEW i \in LTs, LT(i) \/ PTS(i)
    PROVE  Alive(i) /\ Going /\ i \in Active /\ Name(i) \in Names /\ Name(i) = <<tc, i>>
<1>1. Alive(i)
    BY DEF Alive, LT, Begin, PreRun, Look, SyncLook, StartTestCase, Loop, Await, Step,
       Except, Cancel, Inner, Fin, FinLook, PostRun, PostRunFails, Interrupted, InterruptBegin,
       InterruptOuter, InterruptWork, InterruptExcept, InterruptCancel, InterruptFinally, Working, Starting,
       Finishing, PTS, Ask, AskTimesOut, GiveVerdict, PtsStep
<1> QED
    BY <1>1, Numbers DEF MainTypes, LocksOK, Name

(* Every step of an LT keeps the types.                                    *)
LEMMA ThreadTypesLT ==
    ASSUME Types, NEW i \in LTs, LT(i)
    PROVE  ThreadTypes'
<1> USE DEF Types, ThreadTypes, CaseTypes, Goto, SetErr, TryLock, Fails, Ends, Leaves,
            Places, Working, Starting, Finishing, Codes
<1>1. CASE Begin(i)
    BY FalseIsBoolean, <1>1 DEF Begin
<1>2. CASE PreRun(i)
    BY FalseIsBoolean, <1>2 DEF PreRun
<1>3. CASE Look(i)
    BY FalseIsBoolean, LenProperties, <1>3 DEF Look
<1>4. CASE SyncLook(i)
    BY FalseIsBoolean, <1>4 DEF SyncLook
<1>5. CASE StartTestCase(i)
    BY FalseIsBoolean, <1>5 DEF StartTestCase
<1>6. CASE Loop(i)
    BY FalseIsBoolean, <1>6 DEF Loop
<1>7. CASE Await(i)
    <2>1. peer[i].verdict \in Verdicts \cup {"none"}
        BY DEF PeerTypes, Peers
    <2> QED
        BY FalseIsBoolean, <1>7, <2>1 DEF Await
<1>8. CASE Step(i)
    BY FalseIsBoolean, <1>8 DEF Step
<1>9. CASE Except(i)
    BY FalseIsBoolean, <1>9 DEF Except
<1>10. CASE Inner(i)
    BY FalseIsBoolean, <1>10 DEF Inner
<1>11. CASE Fin(i)
    BY FalseIsBoolean, <1>11 DEF Fin
<1>12. CASE FinLook(i)
    BY FalseIsBoolean, <1>12 DEF FinLook
<1>13. CASE PostRun(i)
    BY FalseIsBoolean, <1>13 DEF PostRun
<1>14. CASE PostRunFails(i)
    BY FalseIsBoolean, <1>14 DEF PostRunFails
<1>15. CASE InterruptBegin(i)
    BY FalseIsBoolean, <1>15 DEF InterruptBegin, Raised
<1>16. CASE InterruptOuter(i)
    BY FalseIsBoolean, <1>16 DEF InterruptOuter, Raised
<1>17. CASE InterruptWork(i)
    BY FalseIsBoolean, <1>17 DEF InterruptWork, Raised
<1>18. CASE InterruptExcept(i)
    BY FalseIsBoolean, <1>18 DEF InterruptExcept, Raised
<1>19. CASE InterruptFinally(i)
    BY FalseIsBoolean, <1>19 DEF InterruptFinally, Raised
<1>20. CASE Cancel(i)
    BY FalseIsBoolean, <1>20 DEF Cancel
<1>21. CASE InterruptCancel(i)
    BY FalseIsBoolean, <1>21 DEF InterruptCancel, Raised
<1> QED
    BY <1>1, <1>2, <1>3, <1>4, <1>5, <1>6, <1>7, <1>8, <1>9, <1>10,
       <1>11, <1>12, <1>13, <1>14, <1>15, <1>16, <1>17, <1>18, <1>19, <1>20, <1>21 DEF LT, Interrupted

LEMMA MainTypesLT ==
    ASSUME Types, NEW i \in LTs, LT(i)
    PROVE  MainTypes'
<1> USE BoundAssumption DEF Types, MainTypes, Ends
<1>1. CASE Begin(i)
    BY FalseIsBoolean, <1>1 DEF Begin
<1>2. CASE PreRun(i)
    BY FalseIsBoolean, <1>2 DEF PreRun
<1>3. CASE Look(i)
    BY FalseIsBoolean, <1>3 DEF Look
<1>4. CASE SyncLook(i)
    BY FalseIsBoolean, <1>4 DEF SyncLook
<1>5. CASE StartTestCase(i)
    BY FalseIsBoolean, <1>5 DEF StartTestCase
<1>6. CASE Loop(i)
    BY FalseIsBoolean, <1>6 DEF Loop
<1>7. CASE Await(i)
    BY FalseIsBoolean, <1>7 DEF Await
<1>8. CASE Step(i)
    BY FalseIsBoolean, <1>8 DEF Step
<1>9. CASE Except(i)
    BY FalseIsBoolean, <1>9 DEF Except
<1>10. CASE Inner(i)
    BY FalseIsBoolean, <1>10 DEF Inner
<1>11. CASE Fin(i)
    BY FalseIsBoolean, <1>11 DEF Fin
<1>12. CASE FinLook(i)
    BY FalseIsBoolean, <1>12 DEF FinLook
<1>13. CASE PostRun(i)
    BY FalseIsBoolean, <1>13 DEF PostRun
<1>14. CASE PostRunFails(i)
    BY FalseIsBoolean, <1>14 DEF PostRunFails
<1>15. CASE InterruptBegin(i)
    BY FalseIsBoolean, <1>15 DEF InterruptBegin, Raised
<1>16. CASE InterruptOuter(i)
    BY FalseIsBoolean, <1>16 DEF InterruptOuter, Raised
<1>17. CASE InterruptWork(i)
    BY FalseIsBoolean, <1>17 DEF InterruptWork, Raised
<1>18. CASE InterruptExcept(i)
    BY FalseIsBoolean, <1>18 DEF InterruptExcept, Raised
<1>19. CASE InterruptFinally(i)
    BY FalseIsBoolean, <1>19 DEF InterruptFinally, Raised
<1>20. CASE Cancel(i)
    BY FalseIsBoolean, <1>20 DEF Cancel
<1>21. CASE InterruptCancel(i)
    BY FalseIsBoolean, <1>21 DEF InterruptCancel, Raised
<1> QED
    BY <1>1, <1>2, <1>3, <1>4, <1>5, <1>6, <1>7, <1>8, <1>9, <1>10,
       <1>11, <1>12, <1>13, <1>14, <1>15, <1>16, <1>17, <1>18, <1>19, <1>20, <1>21 DEF LT, Interrupted

LEMMA CaseTypesLT ==
    ASSUME Types, LocksOK, Registered, NEW i \in LTs, LT(i)
    PROVE  CaseTypes'
<1>0. Alive(i) /\ i \in Active /\ Name(i) \in Names
    BY Stepping DEF Types
<1> USE DEF Types, CaseTypes, ThreadTypes, SetState, SetStatus, SetCode, Codes, Statuses, States
<1>1. CASE Begin(i)
    <2>1. Append(running, Name(i)) \in Seq(Names)
        BY <1>0, AppendProperties
    <2> QED
        BY <1>0, <1>1, <2>1 DEF Begin
<1>2. CASE PreRun(i)
    BY <1>0, <1>2 DEF PreRun
<1>3. CASE Look(i)
    BY <1>0, <1>3 DEF Look
<1>4. CASE SyncLook(i)
    BY <1>0, <1>4 DEF SyncLook
<1>5. CASE StartTestCase(i)
    BY <1>0, <1>5 DEF StartTestCase
<1>6. CASE Loop(i)
    BY <1>0, <1>6 DEF Loop
<1>7. CASE Await(i)
    <2>1. peer[i].verdict \in Verdicts \cup {"none"}
        BY DEF PeerTypes, Peers
    <2> QED
        BY <1>0, <1>7, <2>1 DEF Await
<1>8. CASE Step(i)
    BY <1>0, <1>8 DEF Step
<1>9. CASE Except(i)
    BY <1>0, <1>9 DEF Except
<1>10. CASE Inner(i)
    BY <1>0, <1>10 DEF Inner
<1>11. CASE Fin(i)
    BY <1>0, <1>11 DEF Fin
<1>12. CASE FinLook(i)
    BY <1>0, <1>12 DEF FinLook
<1>13. CASE PostRun(i)
    BY <1>0, <1>13, RunningTyped DEF PostRun, Alive
<1>14. CASE PostRunFails(i)
    BY <1>0, <1>14 DEF PostRunFails
<1>15. CASE InterruptBegin(i)
    BY <1>0, <1>15 DEF InterruptBegin, Raised
<1>16. CASE InterruptOuter(i)
    BY <1>0, <1>16 DEF InterruptOuter, Raised
<1>17. CASE InterruptWork(i)
    BY <1>0, <1>17 DEF InterruptWork, Raised
<1>18. CASE InterruptExcept(i)
    BY <1>0, <1>18 DEF InterruptExcept, Raised
<1>19. CASE InterruptFinally(i)
    BY <1>0, <1>19 DEF InterruptFinally, Raised
<1>20. CASE Cancel(i)
    BY <1>0, <1>20 DEF Cancel
<1>21. CASE InterruptCancel(i)
    BY <1>0, <1>21 DEF InterruptCancel, Raised
<1> QED
    BY <1>1, <1>2, <1>3, <1>4, <1>5, <1>6, <1>7, <1>8, <1>9, <1>10,
       <1>11, <1>12, <1>13, <1>14, <1>15, <1>16, <1>17, <1>18, <1>19, <1>20, <1>21 DEF LT, Interrupted

LEMMA PeerTypesLT ==
    ASSUME Types, StepsOK, NEW i \in LTs, LT(i)
    PROVE  PeerTypes'
<1>0. NoPeer \in Peers
    BY BoundAssumption DEF NoPeer, Peers
<1> USE DEF Types, ThreadTypes, PeerTypes, Goto, Fails, Ends, Leaves, Working, Starting, Finishing
<1>1. CASE Begin(i)
    BY <1>0, <1>1 DEF Begin
<1>2. CASE PreRun(i)
    BY <1>0, <1>2 DEF PreRun
<1>3. CASE Look(i)
    BY <1>0, <1>3 DEF Look
<1>4. CASE SyncLook(i)
    BY <1>0, <1>4 DEF SyncLook
<1>5. CASE StartTestCase(i)
    <2>1. [NoPeer EXCEPT !.pts = "runs"] \in Peers
        BY <1>0 DEF Peers
    <2>2. peer[i] = NoPeer
        BY <1>5 DEF StartTestCase
    <2>3. peer' = peer \/ peer' = [peer EXCEPT ![i] = [NoPeer EXCEPT !.pts = "runs"]]
        BY <1>5, <2>2 DEF StartTestCase
    <2> QED
        BY <1>0, <1>5, <2>1, <2>3 DEF StartTestCase
<1>6. CASE Loop(i)
    BY <1>0, <1>6 DEF Loop
<1>7. CASE Await(i)
    <2>1. [peer[i] EXCEPT !.verdict = "none"] \in Peers
        BY DEF Peers
    <2>2. peer' = [peer EXCEPT ![i] = [peer[i] EXCEPT !.verdict = "none"]]
        BY <1>7 DEF Await
    <2> QED
        BY <1>0, <1>7, <2>1, <2>2 DEF Await
<1>8. CASE Step(i)
    <2>1. Tail(peer[i].steps) \in Seq(Handlers \cup {Missing}) /\ Answered(i) \in {"idle", "runs", "asks"}
        BY <1>8, HeadTailProperties DEF Step, StepsOK, Peers, Answered
    <2>2. [peer[i] EXCEPT !.steps = Tail(@), !.pts = Answered(i)] \in Peers
        BY <2>1 DEF Peers
    <2>3. \/ peer' = [peer EXCEPT ![i] = [peer[i] EXCEPT !.steps = Tail(@), !.pts = Answered(i)]]
          \/ peer' = [peer EXCEPT ![i] = NoPeer]
        BY <1>8 DEF Step
    <2>4. peer' \in [LTs -> Peers]
        BY <1>0, <2>2, <2>3
    <2>5. /\ lt[i] = "step" /\ \A j \in LTs \ {i} : lt'[j] = lt[j]
          /\ lt'[i] = "loop" \/ (peer' = [peer EXCEPT ![i] = NoPeer])
        BY <1>8 DEF Step
    <2> QED
        BY <2>3, <2>4, <2>5
<1>9. CASE Except(i)
    BY <1>0, <1>9 DEF Except
<1>10. CASE Inner(i)
    BY <1>0, <1>10 DEF Inner
<1>11. CASE Fin(i)
    BY <1>0, <1>11 DEF Fin
<1>12. CASE FinLook(i)
    BY <1>0, <1>12 DEF FinLook
<1>13. CASE PostRun(i)
    BY <1>0, <1>13 DEF PostRun
<1>14. CASE PostRunFails(i)
    BY <1>0, <1>14 DEF PostRunFails
<1>15. CASE InterruptBegin(i)
    BY <1>0, <1>15 DEF InterruptBegin, Raised
<1>16. CASE InterruptOuter(i)
    BY <1>0, <1>16 DEF InterruptOuter, Raised
<1>17. CASE InterruptWork(i)
    BY <1>0, <1>17 DEF InterruptWork, Raised
<1>18. CASE InterruptExcept(i)
    BY <1>0, <1>18 DEF InterruptExcept, Raised
<1>19. CASE InterruptFinally(i)
    BY <1>0, <1>19 DEF InterruptFinally, Raised
<1>20. CASE Cancel(i)
    BY <1>0, <1>20 DEF Cancel
<1>21. CASE InterruptCancel(i)
    BY <1>0, <1>21 DEF InterruptCancel, Raised
<1> QED
    BY <1>1, <1>2, <1>3, <1>4, <1>5, <1>6, <1>7, <1>8, <1>9, <1>10,
       <1>11, <1>12, <1>13, <1>14, <1>15, <1>16, <1>17, <1>18, <1>19, <1>20, <1>21 DEF LT, Interrupted

LEMMA TypesPTS ==
    ASSUME Types, StepsOK, LocksOK, NEW i \in LTs, PTS(i)
    PROVE  Types'
<1>1. peer[i] \in Peers
    BY DEF Types, PeerTypes
<1>2. ASSUME NEW h \in Handlers \cup {Missing}, Ask(i, h)
      PROVE  [peer[i] EXCEPT !.pts = "asks", !.wids = @ + 1, !.steps = Append(@, h)] \in Peers
    <2>1. peer[i].wids + 1 \in 0 .. MaxWids
        BY <1>1, <1>2, BoundAssumption DEF Ask, Peers
    <2>2. Append(peer[i].steps, h) \in Seq(Handlers \cup {Missing})
        BY <1>1, AppendProperties DEF Peers
    <2> QED
        BY <1>1, <2>1, <2>2 DEF Peers
<1>3. [peer[i] EXCEPT !.pts = "runs"] \in Peers
    BY <1>1 DEF Peers
<1>4. ASSUME NEW v \in Verdicts
      PROVE  [peer[i] EXCEPT !.pts = "idle", !.verdict = v] \in Peers
    BY <1>1 DEF Peers
<1>5. PtsStep(i) /\ \E q \in Peers : peer' = [peer EXCEPT ![i] = q]
    <2>1. ASSUME NEW h \in Handlers \cup {Missing}, Ask(i, h)
          PROVE  PtsStep(i) /\ \E q \in Peers : peer' = [peer EXCEPT ![i] = q]
        <3>1. peer' = [peer EXCEPT ![i] = [peer[i] EXCEPT !.pts = "asks", !.wids = @ + 1,
                                                          !.steps = Append(@, h)]]
            BY <1>1, <2>1 DEF Ask
        <3> QED
            BY <1>2, <2>1, <3>1 DEF Ask
    <2>2. CASE AskTimesOut(i)
        <3>1. peer' = [peer EXCEPT ![i] = [peer[i] EXCEPT !.pts = "runs"]]
            BY <1>1, <2>2 DEF AskTimesOut
        <3> QED
            BY <1>3, <2>2, <3>1 DEF AskTimesOut
    <2>3. ASSUME NEW v \in Verdicts, GiveVerdict(i, v)
          PROVE  PtsStep(i) /\ \E q \in Peers : peer' = [peer EXCEPT ![i] = q]
        <3>1. peer' = [peer EXCEPT ![i] = [peer[i] EXCEPT !.pts = "idle", !.verdict = v]]
            BY <1>1, <2>3 DEF GiveVerdict
        <3> QED
            BY <1>4, <2>3, <3>1 DEF GiveVerdict
    <2> QED
        BY <2>1, <2>2, <2>3 DEF PTS
<1> QED
    BY <1>5 DEF Types, MainTypes, ThreadTypes, CaseTypes, PeerTypes, PtsStep

(* With enough PTSes Prepare makes the threads, statuses and states anew.   *)
LEMMA PrepareFits ==
    ASSUME tc \in DOMAIN Width, Prepare, Width[tc] <= Ptses
    PROVE  /\ state' = [n \in Names |-> IF n[1] = tc THEN "none" ELSE state[n]]
           /\ status' = [n \in Names |-> IF n[1] = tc THEN "init" ELSE status[n]]
           /\ lt' = [i \in LTs |-> IF i \in Active THEN "begin" ELSE "dead"]
           /\ lock' = [i \in LTs |-> "free"]
           /\ err' = [i \in LTs |-> "none"]
<1>1. ~(Width[tc] > Ptses)
    BY Numbers, PtsesAssumption
<1> QED
    BY <1>1 DEF Prepare

LEMMA TypesMain ==
    ASSUME Types, LocksOK, Main
    PROVE  Types'
<1> USE FalseIsBoolean, BoundAssumption DEF Types, MainTypes, ThreadTypes, CaseTypes, PeerTypes
<1>1. CASE Prepare
    <2>1. MainTypes'
        BY <1>1 DEF Prepare, Statuses
    <2>2. own' \in [LTs -> Verdicts \cup {"none"}] /\ cutShort' = {} /\ UNCHANGED <<pending, looked, running, leftOver, peer>>
        BY <1>1 DEF Prepare
    <2>3. CASE Width[tc] <= Ptses
        <3>1. "none" \in States /\ "init" \in Statuses /\ "none" \in Codes /\ {"begin", "dead"} \subseteq Places
            BY DEF Statuses, States, Codes, Places
        <3>2. /\ state' = [n \in Names |-> IF n[1] = tc THEN "none" ELSE state[n]]
              /\ status' = [n \in Names |-> IF n[1] = tc THEN "init" ELSE status[n]]
              /\ lt' = [i \in LTs |-> IF i \in Active THEN "begin" ELSE "dead"]
              /\ lock' = [i \in LTs |-> "free"]
              /\ err' = [i \in LTs |-> "none"]
            BY <1>1, <2>3, PrepareFits
        <3>3. state' \in [Names -> States]
            BY <3>1, <3>2
        <3>4. status' \in [Names -> Statuses]
            BY <3>1, <3>2
        <3>5. lt' \in [LTs -> Places]
            BY <3>1, <3>2
        <3>6. lock' \in [LTs -> {"free", "lt", "main"}] /\ err' \in [LTs -> Codes]
            BY <3>1, <3>2
        <3>7. \A i \in LTs : lt[i] \notin Working /\ lt'[i] \notin Working
            BY <1>1, <3>2 DEF Prepare, LocksOK, Alive, Going, Working
        <3> QED
            BY <2>1, <2>2, <3>3, <3>4, <3>5, <3>6, <3>7
    <2>4. CASE ~(Width[tc] <= Ptses)
        BY <1>1, <2>1, <2>2, <2>4 DEF Prepare
    <2> QED
        BY <2>3, <2>4
<1>2. CASE Wake \/ Superguard
    BY <1>2 DEF Wake, Superguard, Wakes
<1>3. CASE Interrupt
    <2>1. MainTypes'
        BY <1>3 DEF Interrupt
    <2>2. ThreadTypes'
        BY <1>3 DEF Interrupt
    <2> QED
        BY <1>3, <2>1, <2>2 DEF Interrupt
<1>4. CASE Inject
    <2>1. MainTypes'
        BY <1>4 DEF Inject
    <2>2. pending' \in [LTs -> BOOLEAN]
        BY <1>4 DEF Inject, Alive
    <2>3. ThreadTypes'
        BY <1>4, <2>2 DEF Inject
    <2> QED
        BY <1>4, <2>1, <2>3 DEF Inject
<1>5. CASE Join
    <2>1. Name(1) \in Names /\ \A i \in Active : Name(i) \in Names
        BY Numbers
    <2>2. FinalStatus \in [Names -> Statuses]
        BY <2>1 DEF FinalStatus, Statuses
    <2>3. Reported \in Statuses
        <3> DEFINE bad == {i \in Active : FinalStatus[Name(i)] # "PASS"}
        <3>1. CASE bad = {}
            BY <3>1, VerdictsAssumption DEF Reported, Statuses
        <3>2. CASE bad # {}
            <4>1. bad \subseteq Nat
                BY Numbers
            <4>2. Min(bad) \in bad
                BY <3>2, <4>1, LeastNatural
            <4> QED
                BY <2>1, <2>2, <3>2, <4>2 DEF Reported
        <3> QED
            BY <3>1, <3>2
    <2> QED
        BY <1>5, <2>2, <2>3 DEF Join
<1>6. CASE Decide
    BY <1>6, WidthAssumption DEF Decide
<1> QED
    BY <1>1, <1>2, <1>3, <1>4, <1>5, <1>6 DEF Main

LEMMA TypesStep ==
    ASSUME Types, StepsOK, LocksOK, Registered, [Next]_vars
    PROVE  Types'
<1>1. ASSUME NEW i \in LTs, LT(i)
      PROVE  Types'
    BY <1>1, MainTypesLT, ThreadTypesLT, CaseTypesLT, PeerTypesLT DEF Types
<1>2. CASE UNCHANGED vars
    BY <1>2 DEF Types, MainTypes, ThreadTypes, CaseTypes, PeerTypes
<1> QED
    BY <1>1, <1>2, TypesPTS, TypesMain DEF Next

-----------------------------------------------------------------------------
(* Threads and locks.                                                       *)

(* What a step of an LT does to its lock, to its interrupt and to the count *)
(* of ended threads.                                                        *)
LEMMA ThreadLT ==
    ASSUME Types, NEW i \in LTs, LT(i)
    PROVE  /\ UNCHANGED mainVars
           /\ \E p \in Places : lt' = [lt EXCEPT ![i] = p]
           /\ \/ UNCHANGED lock
              \/ lock[i] = "free" /\ lock' = [lock EXCEPT ![i] = "lt"]
              \/ (lock[i] = "lt" \/ lt[i] = "pre") /\ lock' = [lock EXCEPT ![i] = "free"]
           /\ UNCHANGED pending \/ pending' = [pending EXCEPT ![i] = FALSE]
           /\ lt[i] # "dead" /\ lt'[i] # "begin"
           /\ lt'[i] = "pre" => lock'[i] = "lt" /\ ~pending'[i]
           /\ lt'[i] = "dead" => ~pending'[i]
           /\ finish'.count = finish.count + (IF lt'[i] = "dead" THEN 1 ELSE 0)
           /\ finish.flag => finish'.flag
<1> USE DEF Types, MainTypes, ThreadTypes, Goto, SetErr, TryLock, Fails, Ends, Leaves,
            Places, Working, Starting, Finishing
<1>1. CASE Begin(i)
    BY <1>1 DEF Begin
<1>2. CASE PreRun(i)
    BY <1>2 DEF PreRun
<1>3. CASE Look(i)
    BY <1>3 DEF Look
<1>4. CASE SyncLook(i)
    BY <1>4 DEF SyncLook
<1>5. CASE StartTestCase(i)
    BY <1>5 DEF StartTestCase
<1>6. CASE Loop(i)
    BY <1>6 DEF Loop
<1>7. CASE Await(i)
    <2>1. PICK p \in {"loop", "step"} : lt' = [lt EXCEPT ![i] = p]
        BY <1>7 DEF Await
    <2>2. lt'[i] = p /\ p \in Places /\ p \notin {"begin", "pre", "dead"}
        BY <2>1
    <2>3. UNCHANGED <<mainVars, lock, pending, finish>> /\ lt[i] = "await"
        BY <1>7 DEF Await
    <2>4. \E q \in Places : lt' = [lt EXCEPT ![i] = q]
        BY <2>1, <2>2
    <2>5. /\ lt'[i] # "begin" /\ lt'[i] # "pre" /\ lt'[i] # "dead"
          /\ finish'.count = finish.count + 0 /\ finish'.flag = finish.flag
        BY <2>2, <2>3
    <2> QED
        BY <2>3, <2>4, <2>5
<1>8. CASE Step(i)
    <2>1. PICK p \in {"loop", "except"} : lt' = [lt EXCEPT ![i] = p]
        BY <1>8 DEF Step
    <2>2. lt'[i] = p /\ p \in Places /\ p \notin {"begin", "pre", "dead"}
        BY <2>1
    <2>3. UNCHANGED <<mainVars, lock, pending, finish>> /\ lt[i] = "step"
        BY <1>8 DEF Step
    <2>4. \E q \in Places : lt' = [lt EXCEPT ![i] = q]
        BY <2>1, <2>2
    <2>5. /\ lt'[i] # "begin" /\ lt'[i] # "pre" /\ lt'[i] # "dead"
          /\ finish'.count = finish.count + 0 /\ finish'.flag = finish.flag
        BY <2>2, <2>3
    <2> QED
        BY <2>3, <2>4, <2>5
<1>9. CASE Except(i)
    BY <1>9 DEF Except
<1>10. CASE Inner(i)
    BY <1>10 DEF Inner
<1>11. CASE Fin(i)
    BY <1>11 DEF Fin
<1>12. CASE FinLook(i)
    <2>1. CASE Changed(i)
        BY <1>12, <2>1 DEF FinLook
    <2>2. CASE ~Changed(i)
        <3>1. PICK p \in {"post", "finsync"} : lt' = [lt EXCEPT ![i] = p]
            BY <1>12, <2>2 DEF FinLook
        <3>2. UNCHANGED <<mainVars, lock, pending, finish>> /\ lt[i] = "finlook"
            BY <1>12, <2>2 DEF FinLook
        <3>3. lt'[i] = p /\ p \in Places /\ p \notin {"begin", "pre", "dead"}
            BY <3>1
        <3>4. \E q \in Places : lt' = [lt EXCEPT ![i] = q]
            BY <3>1, <3>3
        <3>5. /\ lt'[i] # "begin" /\ lt'[i] # "pre" /\ lt'[i] # "dead"
              /\ finish'.count = finish.count + 0 /\ finish'.flag = finish.flag
            BY <3>2, <3>3
        <3> QED
            BY <3>2, <3>4, <3>5
    <2> QED
        BY <2>1, <2>2
<1>13. CASE PostRun(i)
    BY <1>13 DEF PostRun
<1>14. CASE PostRunFails(i)
    BY <1>14 DEF PostRunFails
<1>15. CASE InterruptBegin(i)
    BY <1>15 DEF InterruptBegin, Raised
<1>16. CASE InterruptOuter(i)
    BY <1>16 DEF InterruptOuter, Raised
<1>17. CASE InterruptWork(i)
    BY <1>17 DEF InterruptWork, Raised
<1>18. CASE InterruptExcept(i)
    BY <1>18 DEF InterruptExcept, Raised
<1>19. CASE InterruptFinally(i)
    BY <1>19 DEF InterruptFinally, Raised
<1>20. CASE Cancel(i)
    BY <1>20 DEF Cancel
<1>21. CASE InterruptCancel(i)
    BY <1>21 DEF InterruptCancel, Raised
<1> QED
    BY <1>1, <1>2, <1>3, <1>4, <1>5, <1>6, <1>7, <1>8, <1>9, <1>10,
       <1>11, <1>12, <1>13, <1>14, <1>15, <1>16, <1>17, <1>18, <1>19, <1>20, <1>21 DEF LT, Interrupted

LEMMA LocksStep ==
    ASSUME Types, HeldOK, LocksOK, [Next]_vars
    PROVE  HeldOK' /\ LocksOK'
<1> USE DEF Types, MainTypes, ThreadTypes, HeldOK, LocksOK, Alive, Going
<1>1. ASSUME NEW i \in LTs, LT(i)
      PROVE  HeldOK' /\ LocksOK'
    <2>1. PICK p \in Places : lt' = [lt EXCEPT ![i] = p]
        BY <1>1, ThreadLT
    <2>2. UNCHANGED mainVars /\ Active' = Active /\ lt[i] # "dead"
        BY <1>1, ThreadLT DEF Active
    <2>3. /\ \A j \in LTs \ {i} : lt'[j] = lt[j] /\ lock'[j] = lock[j] /\ pending'[j] = pending[j]
          /\ lock'[i] = "main" <=> lock[i] = "main"
          /\ pending'[i] => pending[i]
        BY <1>1, <2>1, ThreadLT
    <2>4. /\ lt'[i] = "pre" => lock'[i] = "lt" /\ ~pending'[i]
          /\ lt'[i] = "dead" => ~pending'[i]
        BY <1>1, ThreadLT
    <2>5. HeldOK'
        BY <2>2, <2>3
    <2>6. (\A j \in LTs : Alive(j) => Going /\ j \in Active)'
        BY <2>2, <2>3
    <2>7. (main = "inject" => at \in Active /\ lock[at] = "main")'
        BY <2>2, <2>3, Numbers
    <2>8. (\A j \in LTs : pending[j] => Alive(j) /\ main # "wait")'
        BY <2>2, <2>3, <2>4
    <2>9. (\A j \in LTs : lt[j] = "pre" => lock[j] = "lt" /\ ~pending[j])'
        BY <2>2, <2>3, <2>4
    <2> QED
        BY <2>5, <2>6, <2>7, <2>8, <2>9
<1>2. ASSUME NEW i \in LTs, PTS(i)
      PROVE  HeldOK' /\ LocksOK'
    BY <1>2 DEF PTS, Ask, AskTimesOut, GiveVerdict, PtsStep, Active
<1>3. CASE Prepare
    <2>1. \A i \in LTs : lt[i] = "dead" /\ ~pending[i] /\ lock[i] # "main"
        BY <1>3 DEF Prepare
    <2>2. CASE Width[tc] <= Ptses
        <3>1. /\ lt' = [i \in LTs |-> IF i \in Active THEN "begin" ELSE "dead"]
              /\ lock' = [i \in LTs |-> "free"]
              /\ main' = "wait" /\ UNCHANGED <<pending, at, tc>>
            BY <1>3, <2>2, Numbers, PtsesAssumption DEF Prepare
        <3> QED
            BY <2>1, <3>1 DEF Active
    <2>3. CASE ~(Width[tc] <= Ptses)
        BY <1>3, <2>1, <2>3 DEF Prepare, Active
    <2> QED
        BY <2>2, <2>3
<1>4. CASE Wake \/ Superguard
    BY <1>4 DEF Wake, Superguard, Wakes, Active
<1>5. CASE Interrupt
    <2>1. Width[tc] \in Nat
        BY Numbers
    <2>2. CASE at <= Width[tc] /\ Alive(at) /\ lock[at] = "free" /\ main' = "inject"
        <3>1. at \in Active /\ at \in LTs
            BY <2>1, <2>2, Numbers DEF Active
        <3>2. lock' = [lock EXCEPT ![at] = "main"]
            BY <1>5, <2>2 DEF Interrupt
        <3>3. lock'[at] = "main" /\ (\A i \in LTs \ {at} : lock'[i] = lock[i]) /\ lt[at] # "pre"
            BY <2>2, <3>1, <3>2
        <3>4. UNCHANGED <<tc, at, lt, pending>> /\ Active' = Active
            BY <1>5, <2>2 DEF Interrupt, Active
        <3>5. \A i \in LTs : lock[i] # "main"
            BY <1>5 DEF Interrupt
        <3>6. \A i \in LTs \ {at} : lock'[i] # "main"
            BY <3>3, <3>5
        <3>7. HeldOK'
            BY <2>2, <3>4, <3>6
        <3> QED
            BY <1>5, <2>2, <3>1, <3>3, <3>4, <3>7
    <2>3. CASE UNCHANGED lock /\ main' \in {"interrupt", "join"}
        BY <1>5, <2>3 DEF Interrupt, Active
    <2> QED
        BY <1>5, <2>2, <2>3 DEF Interrupt
<1>6. CASE Inject
    <2>1. at \in Active /\ at \in LTs /\ lock[at] = "main" /\ lt[at] # "pre"
        BY <1>6, Numbers DEF Inject
    <2>2. /\ main' = "interrupt" /\ UNCHANGED <<lt, tc>> /\ Active' = Active
          /\ lock' = [lock EXCEPT ![at] = "free"]
          /\ pending' = [pending EXCEPT ![at] = lt[at] # "dead"]
        BY <1>6 DEF Inject, Active
    <2>3. /\ pending'[at] = (lt[at] # "dead") /\ \A i \in LTs \ {at} : pending'[i] = pending[i]
          /\ lock'[at] = "free" /\ \A i \in LTs \ {at} : lock'[i] = lock[i] /\ lock[i] # "main"
        BY <1>6, <2>1, <2>2 DEF Inject
    <2> QED
        BY <1>6, <2>1, <2>2, <2>3 DEF Inject
<1>7. CASE Join
    BY <1>7 DEF Join, Active
<1>8. CASE Decide
    BY <1>8 DEF Decide
<1>9. CASE UNCHANGED vars
    BY <1>9 DEF Active
<1> QED
    BY <1>1, <1>2, <1>3, <1>4, <1>5, <1>6, <1>7, <1>8, <1>9 DEF Next, Main

(* The threads counted are those that have ended.                           *)
LEMMA CountStep ==
    ASSUME Types, LocksOK, CountOK, [Next]_vars
    PROVE  CountOK'
<1> DEFINE Ended == {i \in Active : ~Alive(i)}
<1> USE DEF Types, MainTypes, ThreadTypes, CountOK
<1>0. IsFiniteSet(Active) /\ Active \subseteq LTs
    BY Numbers, FS_Interval DEF Active
<1>1. ASSUME NEW i \in LTs, LT(i)
      PROVE  CountOK'
    <2>1. PICK p \in Places : lt' = [lt EXCEPT ![i] = p]
        BY <1>1, ThreadLT
    <2>2. UNCHANGED mainVars /\ Active' = Active /\ Going' = Going /\ i \in Active /\ Going /\ i \notin Ended
        BY <1>1, ThreadLT, Stepping DEF Active, Going
    <2>3. CASE p = "dead"
        <3>1. Ended' = Ended \cup {i}
            BY <1>0, <2>1, <2>2, <2>3 DEF Alive
        <3>2. IsFiniteSet(Ended)
            BY <1>0, FS_Subset
        <3>3. Cardinality(Ended') = Cardinality(Ended) + 1
            <4> HIDE DEF Ended
            <4> QED
                BY <2>2, <3>1, <3>2, FS_AddElement
        <3>4. finish'.count = finish.count + 1
            BY <1>1, <2>1, <2>3, ThreadLT
        <3> QED
            BY <2>2, <3>3, <3>4
    <2>4. CASE p # "dead"
        <3>1. Ended' = Ended
            BY <1>0, <2>1, <2>2, <2>4 DEF Alive
        <3>2. finish'.count = finish.count
            BY <1>1, <2>1, <2>4, ThreadLT
        <3> QED
            BY <2>2, <3>1, <3>2
    <2> QED
        BY <2>3, <2>4
<1>2. ASSUME NEW i \in LTs, PTS(i)
      PROVE  CountOK'
    BY <1>2 DEF PTS, Ask, AskTimesOut, GiveVerdict, PtsStep, Active, Going, Alive
<1>3. CASE Prepare
    <2>1. CASE Width[tc] <= Ptses
        <3>1. /\ lt' = [i \in LTs |-> IF i \in Active THEN "begin" ELSE "dead"]
              /\ finish'.count = 0 /\ UNCHANGED tc
            BY <1>3, <2>1, Numbers, PtsesAssumption DEF Prepare
        <3>2. Ended' = {}
            BY <1>0, <3>1 DEF Alive, Active
        <3> QED
            BY <3>1, <3>2, FS_EmptySet
    <2>2. CASE ~(Width[tc] <= Ptses)
        BY <1>3, <2>2 DEF Prepare, Going
    <2> QED
        BY <2>1, <2>2
<1>4. CASE Main /\ ~Prepare
    BY <1>4 DEF Main, Wake, Superguard, Wakes, Interrupt, Inject, Join, Decide, Active, Going, Alive
<1>5. CASE UNCHANGED vars
    BY <1>5 DEF Active, Going, Alive
<1> QED
    BY <1>1, <1>2, <1>3, <1>4, <1>5 DEF Next

-----------------------------------------------------------------------------
(* RUNNING_TEST_CASE.                                                       *)

LEMMA StepsStep ==
    ASSUME Types, StepsOK, LocksOK, [Next]_vars
    PROVE  StepsOK'
<1> USE DEF Types, MainTypes, ThreadTypes, StepsOK
<1>1. ASSUME NEW i \in LTs, LT(i)
      PROVE  StepsOK'
    <2>1. \E p \in Places : lt' = [lt EXCEPT ![i] = p]
        BY <1>1, ThreadLT
    <2>2. \A j \in LTs \ {i} : peer'[j] = peer[j]
        BY <1>1 DEF LT, Begin, PreRun, Look, SyncLook, StartTestCase, Loop, Await, Step,
           Except, Cancel, Inner, Fin, FinLook, PostRun, PostRunFails, Interrupted, InterruptBegin,
           InterruptOuter, InterruptWork, InterruptExcept, InterruptCancel, InterruptFinally, PeerTypes, Leaves
    <2>3. lt'[i] = "step" => peer'[i].steps # <<>>
        <3>1. CASE Loop(i)
            BY <3>1 DEF Loop, Goto, Leaves
        <3>2. CASE Await(i)
            <4>1. peer'[i].steps = peer[i].steps
                BY <3>2 DEF Await, PeerTypes, Peers
            <4> QED
                BY <3>2, <4>1 DEF Await, Goto
        <3>3. CASE ~Loop(i) /\ ~Await(i)
            BY <1>1, <3>3 DEF LT, Begin, PreRun, Look, SyncLook, StartTestCase, Step,
               Except, Cancel, Inner, Fin, FinLook, PostRun, PostRunFails, Interrupted, InterruptBegin,
               InterruptOuter, InterruptWork, InterruptExcept, InterruptCancel, InterruptFinally, Goto, Fails,
               Ends, Leaves
        <3> QED
            BY <3>1, <3>2, <3>3
    <2> QED
        BY <2>1, <2>2, <2>3
<1>2. ASSUME NEW i \in LTs, PTS(i)
      PROVE  StepsOK'
    <2>1. \A j \in LTs \ {i} : peer'[j] = peer[j]
        BY <1>2 DEF PTS, Ask, AskTimesOut, GiveVerdict, PeerTypes
    <2>2. peer[i].steps # <<>> => peer'[i].steps # <<>>
        <3>1. peer \in [LTs -> Peers] /\ peer[i].steps \in Seq(Handlers \cup {Missing})
            BY DEF PeerTypes, Peers
        <3>2. ASSUME NEW h \in Handlers \cup {Missing}, Ask(i, h)
              PROVE  peer'[i].steps # <<>>
            <4>1. peer'[i].steps = Append(peer[i].steps, h)
                BY <3>1, <3>2 DEF Ask, Peers
            <4>2. Len(Append(peer[i].steps, h)) # 0
                BY <3>1
            <4>3. Len(<<>>) = 0
                OBVIOUS
            <4> HIDE DEF NoPeer
            <4> QED
                BY ONLY <4>1, <4>2, <4>3
        <3>3. CASE AskTimesOut(i) \/ \E v \in Verdicts : GiveVerdict(i, v)
            BY <3>1, <3>3 DEF AskTimesOut, GiveVerdict, Peers
        <3> QED
            BY <1>2, <3>2, <3>3 DEF PTS
    <2>3. UNCHANGED lt
        BY <1>2 DEF PTS, Ask, AskTimesOut, GiveVerdict, PtsStep
    <2> QED
        BY <2>1, <2>2, <2>3
<1>3. CASE Prepare
    BY <1>3 DEF Prepare, LocksOK, Alive, Going
<1>4. CASE Main /\ ~Prepare
    BY <1>4 DEF Main, Wake, Superguard, Wakes, Interrupt, Inject, Join, Decide
<1>5. CASE UNCHANGED vars
    BY <1>5
<1> QED
    BY <1>1, <1>2, <1>3, <1>4, <1>5 DEF Next

(* What a step of an LT does to RUNNING_TEST_CASE and to the test cases     *)
(* left over.                                                               *)
LEMMA RunningLT ==
    ASSUME Types, NEW i \in LTs, LT(i)
    PROVE  /\ \/ Begin(i) \/ PostRun(i)
              \/ /\ UNCHANGED running /\ leftOver' = leftOver \cup {Name(i)}
                 /\ lt[i] # "begin" /\ lt'[i] = "dead"
              \/ /\ UNCHANGED <<running, leftOver>>
                 /\ lt'[i] \in {"begin", "dead"} <=> lt[i] \in {"begin", "dead"}
           /\ \A j \in LTs \ {i} : looked'[j] = looked[j]
           /\ lt'[i] = "finlook" => looked'[i] = Len(running) /\ UNCHANGED running
<1> USE DEF Types, MainTypes, ThreadTypes, Goto, SetErr, TryLock, Fails, Ends, Leaves,
            Places, Working, Starting, Finishing, cases
<1>1. CASE Begin(i)
    BY <1>1 DEF Begin
<1>2. CASE PreRun(i)
    BY <1>2 DEF PreRun
<1>3. CASE Look(i)
    BY <1>3 DEF Look
<1>4. CASE SyncLook(i)
    BY <1>4 DEF SyncLook
<1>5. CASE StartTestCase(i)
    BY <1>5 DEF StartTestCase
<1>6. CASE Loop(i)
    BY <1>6 DEF Loop
<1>7. CASE Await(i)
    BY <1>7 DEF Await
<1>8. CASE Step(i)
    BY <1>8 DEF Step
<1>9. CASE Except(i)
    BY <1>9 DEF Except
<1>10. CASE Inner(i)
    BY <1>10 DEF Inner
<1>11. CASE Fin(i)
    BY <1>11 DEF Fin
<1>12. CASE FinLook(i)
    BY <1>12 DEF FinLook
<1>13. CASE PostRun(i)
    BY <1>13 DEF PostRun
<1>14. CASE PostRunFails(i)
    BY <1>14 DEF PostRunFails
<1>15. CASE InterruptBegin(i)
    BY <1>15 DEF InterruptBegin, Raised
<1>16. CASE InterruptOuter(i)
    BY <1>16 DEF InterruptOuter, Raised
<1>17. CASE InterruptWork(i)
    BY <1>17 DEF InterruptWork, Raised
<1>18. CASE InterruptExcept(i)
    BY <1>18 DEF InterruptExcept, Raised
<1>19. CASE InterruptFinally(i)
    BY <1>19 DEF InterruptFinally, Raised
<1>20. CASE Cancel(i)
    BY <1>20 DEF Cancel
<1>21. CASE InterruptCancel(i)
    BY <1>21 DEF InterruptCancel, Raised
<1> QED
    BY <1>1, <1>2, <1>3, <1>4, <1>5, <1>6, <1>7, <1>8, <1>9, <1>10,
       <1>11, <1>12, <1>13, <1>14, <1>15, <1>16, <1>17, <1>18, <1>19, <1>20, <1>21 DEF LT, Interrupted

(* Who is in RUNNING_TEST_CASE after a test case has ended.                 *)
LEMMA RunningRemoved ==
    ASSUME Types, RunningOK, Registered, NEW i \in Active, PostRun(i)
    PROVE  /\ Len(running') = Len(running) - 1
           /\ \A k, l \in DOMAIN running' : running'[k] = running'[l] => k = l
           /\ \A n \in Names : Contains(running', n) <=> Contains(running, n) /\ n # Name(i)
<1> DEFINE k == CHOOSE k \in DOMAIN running : running[k] = Name(i)
<1>1. /\ k \in DOMAIN running /\ running[k] = Name(i) /\ running' = RemoveAt(running, k)
      /\ running \in Seq(Names)
    BY RunningTyped DEF PostRun, Alive, Types, CaseTypes
<1> HIDE DEF k
<1>2. /\ running' \in Seq(Names) /\ Len(running') = Len(running) - 1
      /\ \A j \in 1 .. Len(running) - 1 : running'[j] = IF j < k THEN running[j] ELSE running[j + 1]
    BY <1>1, RemovedElements
<1>3. /\ DOMAIN running = 1 .. Len(running) /\ DOMAIN running' = 1 .. Len(running) - 1
      /\ Len(running) \in Nat /\ k \in 1 .. Len(running)
    BY <1>1, <1>2
<1>4. \A j, l \in 1 .. Len(running) : running[j] = running[l] => j = l
    BY <1>3 DEF RunningOK
<1>5. \A j, l \in 1 .. Len(running) - 1 : running'[j] = running'[l] => j = l
    <2> DEFINE place(j) == IF j < k THEN j ELSE j + 1
    <2>1. \A j \in 1 .. Len(running) - 1 : place(j) \in 1 .. Len(running) /\ running'[j] = running[place(j)]
        BY <1>2, <1>3
    <2>2. \A j, l \in 1 .. Len(running) - 1 : place(j) = place(l) => j = l
        BY <1>3
    <2> HIDE DEF place
    <2> QED
        BY <1>4, <2>1, <2>2
<1>6. ASSUME NEW n \in Names
      PROVE  Contains(running', n) <=> Contains(running, n) /\ n # Name(i)
    <2>1. ASSUME NEW j \in 1 .. Len(running) - 1, running'[j] = n
          PROVE  \E l \in 1 .. Len(running) : l # k /\ running[l] = n
        <3>1. CASE j < k
            BY <1>2, <1>3, <2>1, <3>1
        <3>2. CASE ~(j < k)
            <4>1. j + 1 \in 1 .. Len(running) /\ j + 1 # k /\ running[j + 1] = n
                BY <1>2, <1>3, <2>1, <3>2
            <4> QED
                BY <4>1
        <3> QED
            BY <3>1, <3>2
    <2>2. ASSUME NEW l \in 1 .. Len(running), running[l] = n, l # k
          PROVE  \E j \in 1 .. Len(running) - 1 : running'[j] = n
        <3>1. CASE l < k
            BY <1>2, <1>3, <2>2, <3>1
        <3>2. CASE ~(l < k)
            <4>1. l - 1 \in 1 .. Len(running) - 1 /\ ~(l - 1 < k) /\ (l - 1) + 1 = l
                BY <1>3, <2>2, <3>2
            <4>2. running'[l - 1] = n
                BY <1>2, <2>2, <4>1
            <4> QED
                BY <4>1, <4>2
        <3> QED
            BY <3>1, <3>2
    <2>3. (\E l \in 1 .. Len(running) : l # k /\ running[l] = n)
              <=> (\E l \in 1 .. Len(running) : running[l] = n) /\ n # Name(i)
        BY <1>1, <1>3, <1>4
    <2> QED
        BY <1>2, <1>3, <2>1, <2>2, <2>3 DEF Contains
<1> QED
    BY <1>2, <1>3, <1>5, <1>6

LEMMA RunningStep ==
    ASSUME Types, LocksOK, RunningOK, Registered, [Next]_vars
    PROVE  RunningOK'
<1> USE DEF Types, MainTypes, ThreadTypes, CaseTypes, RunningOK
<1>1. ASSUME NEW i \in LTs, LT(i)
      PROVE  RunningOK'
    <2>1. \E p \in Places : lt' = [lt EXCEPT ![i] = p]
        BY <1>1, ThreadLT
    <2>2. i \in Active /\ Name(i) \in Names
        BY <1>1, Stepping
    <2>4. CASE UNCHANGED running
        BY <2>4
    <2>5. CASE PostRun(i)
        BY <2>2, <2>5, RunningRemoved DEF Types
    <2>6. CASE Begin(i) /\ running' # running
        <3>1. running' = Append(running, Name(i)) /\ ~Contains(running, Name(i))
            BY <2>6 DEF Begin
        <3>2. /\ Len(running') = Len(running) + 1 /\ running' \in Seq(Names)
              /\ running'[Len(running) + 1] = Name(i)
              /\ \A k \in 1 .. Len(running) : running'[k] = running[k]
            BY <2>2, <3>1, AppendProperties
        <3>3. \A k \in 1 .. Len(running) : running[k] # Name(i)
            BY <3>1 DEF Contains
        <3>4. \A k, l \in DOMAIN running' : running'[k] = running'[l] => k = l
            <4>1. DOMAIN running' = 1 .. Len(running) + 1 /\ Len(running) \in Nat
                BY <3>2
            <4>2. \A k, l \in 1 .. Len(running) : running[k] = running[l] => k = l
                OBVIOUS
            <4>3. \A k, l \in 1 .. Len(running) : running'[k] = running'[l] => k = l
                BY <3>2, <4>2
            <4>4. \A k \in 1 .. Len(running) : running'[k] # running'[Len(running) + 1]
                BY <3>2, <3>3
            <4>5. \A k \in DOMAIN running' : k \in 1 .. Len(running) \/ k = Len(running) + 1
                BY <4>1
            <4> QED
                BY <4>3, <4>4, <4>5
        <3> QED
            BY <3>4
    <2> QED
        BY <1>1, <2>4, <2>5, <2>6, RunningLT
<1>2. ASSUME NEW i \in LTs, PTS(i)
      PROVE  RunningOK'
    BY <1>2 DEF PTS, Ask, AskTimesOut, GiveVerdict, PtsStep
<1>3. CASE Prepare
    BY <1>3 DEF Prepare, LocksOK, Alive, Going
<1>4. CASE Main /\ ~Prepare
    BY <1>4 DEF Main, Wake, Superguard, Wakes, Interrupt, Inject, Join, Decide
<1>5. CASE UNCHANGED vars
    BY <1>5
<1> QED
    BY <1>1, <1>2, <1>3, <1>4, <1>5 DEF Next

LEMMA RegisteredStep ==
    ASSUME Types, LocksOK, RunningOK, Registered, [Next]_vars
    PROVE  Registered'
<1> USE DEF Types, MainTypes, ThreadTypes, CaseTypes
<1>0. \A n \in Names : n[2] \in LTs /\ (n[1] = tc => n = Name(n[2]))
    BY DEF Names, Name
<1>1. ASSUME NEW i \in LTs, LT(i)
      PROVE  Registered'
    <2>1. \E p \in Places : lt' = [lt EXCEPT ![i] = p]
        BY <1>1, ThreadLT
    <2>2. /\ i \in Active /\ Name(i) \in Names /\ Name(i)[1] = tc /\ Name(i)[2] = i /\ tc' = tc
          /\ lt[i] # "dead" /\ lt'[i] # "begin"
        BY <1>1, Stepping, ThreadLT DEF Name
    <2>3. \A j \in LTs \ {i} : lt'[j] = lt[j]
        BY <2>1
    <2> SUFFICES ASSUME NEW n \in Names
                 PROVE  Contains(running', n) <=>
                            \/ n[1] = tc /\ lt'[n[2]] \notin {"begin", "dead"}
                            \/ n \in leftOver'
        BY <2>2 DEF Registered
    <2>4. n = Name(i) \/ n[1] # tc \/ n[2] \in LTs \ {i}
        BY <1>0
    <2>5. Contains(running, n) <=>
              \/ n[1] = tc /\ lt[n[2]] \notin {"begin", "dead"}
              \/ n \in leftOver
        BY DEF Registered
    <2>6. CASE Begin(i)
        <3>1. Contains(running', n) <=> Contains(running, n) \/ n = Name(i)
            <4>1. CASE Contains(running, Name(i))
                BY <2>6, <4>1 DEF Begin
            <4>2. CASE ~Contains(running, Name(i))
                <5>1. running' = Append(running, Name(i)) /\ Len(running) \in Nat
                    BY <2>6, <4>2 DEF Begin
                <5>2. /\ Len(running') = Len(running) + 1 /\ running'[Len(running) + 1] = Name(i)
                      /\ \A k \in 1 .. Len(running) : running'[k] = running[k]
                    BY <2>2, <5>1, AppendProperties
                <5> QED
                    BY <5>1, <5>2 DEF Contains
            <4> QED
                BY <4>1, <4>2
        <3> QED
            BY <2>2, <2>3, <2>4, <2>5, <2>6, <3>1 DEF Begin, Goto
    <2>7. CASE PostRun(i)
        <3>1. lt'[i] = "dead" /\ leftOver' = leftOver \ {Name(i)}
            BY <2>7 DEF PostRun, Ends, Goto
        <3>2. Contains(running', n) <=> Contains(running, n) /\ n # Name(i)
            BY <2>2, <2>7, RunningRemoved
        <3> QED
            BY <2>2, <2>3, <2>4, <2>5, <3>1, <3>2
    <2>8. CASE UNCHANGED running /\ leftOver' = leftOver \cup {Name(i)} /\ lt[i] # "begin" /\ lt'[i] = "dead"
        BY <2>2, <2>3, <2>4, <2>5, <2>8
    <2>9. CASE /\ UNCHANGED <<running, leftOver>>
               /\ lt'[i] \in {"begin", "dead"} <=> lt[i] \in {"begin", "dead"}
        BY <2>2, <2>3, <2>4, <2>5, <2>9
    <2> QED
        BY <1>1, <2>6, <2>7, <2>8, <2>9, RunningLT
<1>2. ASSUME NEW i \in LTs, PTS(i)
      PROVE  Registered'
    BY <1>2 DEF PTS, Ask, AskTimesOut, GiveVerdict, PtsStep, Registered
<1>3. CASE Prepare
    <2>1. \A i \in LTs : lt[i] = "dead" /\ lt'[i] \in {"begin", "dead"}
        BY <1>3 DEF Prepare, LocksOK, Alive, Going
    <2>2. UNCHANGED <<running, leftOver, tc>>
        BY <1>3 DEF Prepare
    <2> QED
        BY <1>0, <2>1, <2>2 DEF Registered
<1>4. CASE Main /\ ~Prepare /\ ~Decide
    BY <1>4 DEF Main, Wake, Superguard, Wakes, Interrupt, Inject, Join, Registered
<1>5. CASE Decide
    <2>1. \A i \in LTs : lt[i] = "dead"
        BY <1>5 DEF Decide, LocksOK, Alive, Going
    <2>2. UNCHANGED <<running, leftOver, lt>>
        BY <1>5 DEF Decide
    <2> QED
        BY <1>0, <2>1, <2>2 DEF Registered
<1>6. CASE UNCHANGED vars
    BY <1>6 DEF Registered
<1> QED
    BY <1>1, <1>2, <1>3, <1>4, <1>5, <1>6 DEF Next

-----------------------------------------------------------------------------
(* Verdicts.                                                                *)

(* An LT writes nothing of another one.                                     *)
LEMMA FrameLT ==
    ASSUME Types, LocksOK, NEW i \in LTs, LT(i)
    PROVE  /\ \A n \in Names \ {Name(i)} : state'[n] = state[n] /\ status'[n] = status[n]
           /\ \A j \in LTs \ {i} : own'[j] = own[j] /\ err'[j] = err[j]
           /\ cutShort \subseteq cutShort'
<1>0. Name(i) \in Names
    BY Stepping DEF Types
<1> USE <1>0 DEF Types, ThreadTypes, CaseTypes, SetState, SetStatus, SetErr, SetCode, Fails
<1>1. CASE Begin(i)
    BY <1>1 DEF Begin
<1>2. CASE PreRun(i)
    BY <1>2 DEF PreRun
<1>3. CASE Look(i)
    BY <1>3 DEF Look
<1>4. CASE SyncLook(i)
    BY <1>4 DEF SyncLook
<1>5. CASE StartTestCase(i)
    BY <1>5 DEF StartTestCase
<1>6. CASE Loop(i)
    BY <1>6 DEF Loop
<1>7. CASE Await(i)
    BY <1>7 DEF Await
<1>8. CASE Step(i)
    BY <1>8 DEF Step
<1>9. CASE Except(i)
    BY <1>9 DEF Except
<1>10. CASE Inner(i)
    BY <1>10 DEF Inner
<1>11. CASE Fin(i)
    BY <1>11 DEF Fin
<1>12. CASE FinLook(i)
    BY <1>12 DEF FinLook
<1>13. CASE PostRun(i)
    BY <1>13 DEF PostRun
<1>14. CASE PostRunFails(i)
    BY <1>14 DEF PostRunFails
<1>15. CASE InterruptBegin(i)
    BY <1>15 DEF InterruptBegin, Raised
<1>16. CASE InterruptOuter(i)
    BY <1>16 DEF InterruptOuter, Raised
<1>17. CASE InterruptWork(i)
    BY <1>17 DEF InterruptWork, Raised
<1>18. CASE InterruptExcept(i)
    BY <1>18 DEF InterruptExcept, Raised
<1>19. CASE InterruptFinally(i)
    BY <1>19 DEF InterruptFinally, Raised
<1>20. CASE Cancel(i)
    BY <1>20 DEF Cancel
<1>21. CASE InterruptCancel(i)
    BY <1>21 DEF InterruptCancel, Raised
<1> QED
    BY <1>1, <1>2, <1>3, <1>4, <1>5, <1>6, <1>7, <1>8, <1>9, <1>10,
       <1>11, <1>12, <1>13, <1>14, <1>15, <1>16, <1>17, <1>18, <1>19, <1>20, <1>21 DEF LT, Interrupted

(* A dictionary of another size has grown or shrunk.                        *)
LEMMA MoreOrLess == \A m, n \in Nat : m # n => n < m \/ m < n
    OBVIOUS

(* How an LT gets its status, and what it ends with.                        *)
LEMMA CourseLT ==
    ASSUME Types, LocksOK, NEW i \in LTs, LT(i)
    PROVE  /\ status'[Name(i)] = "PASS" =>
                  \/ lt[i] = "await" /\ lt'[i] \in {"loop", "step"} /\ own'[i] = "PASS"
                  \/ status[Name(i)] = "PASS" /\ own'[i] = own[i]
           /\ lt'[i] \in Starting \cup {"begin", "pre"} => lt[i] \in Starting \cup {"begin", "pre"}
           /\ lt'[i] \in Finishing \ {"fin"} =>
                  \/ state'[Name(i)] = "FINISHED"
                  \/ lt[i] \in Finishing \ {"fin"} /\ state'[Name(i)] = state[Name(i)]
           /\ state'[Name(i)] = "FINISHED" =>
                  \/ lt'[i] \in (Finishing \ {"fin"}) \cup {"dead"}
                  \/ state[Name(i)] = "FINISHED" /\ lt[i] \notin Finishing \ {"fin"}
           /\ lt'[i] = "dead" /\ status'[Name(i)] = "PASS" /\ err'[i] # "none" =>
                  pending[i] \/ (lt[i] = "finlook" /\ looked[i] < Len(running)) \/ i \in cutShort'
           /\ finish'.flag => finish.flag \/ (lt'[i] = "post" /\ status'[Name(i)] # "PASS")
<1>0. Name(i) \in Names
    BY Stepping DEF Types
<1> USE <1>0 DEF Types, MainTypes, ThreadTypes, CaseTypes, Goto, SetState, SetStatus, SetErr, SetCode,
            Fails, Ends, Leaves, Codes, Starting, Finishing, Working, cases
<1>1. CASE Begin(i)
    BY <1>1 DEF Begin
<1>2. CASE PreRun(i)
    BY <1>2 DEF PreRun
<1>3. CASE Look(i)
    BY <1>3 DEF Look
<1>4. CASE SyncLook(i)
    BY <1>4 DEF SyncLook
<1>5. CASE StartTestCase(i)
    BY <1>5 DEF StartTestCase
<1>6. CASE Loop(i)
    BY <1>6 DEF Loop
<1>7. CASE Await(i)
    <2>1. lt[i] = "await" /\ lt'[i] \in {"loop", "step"} /\ UNCHANGED finish
        BY <1>7 DEF Await
    <2>2. CASE peer[i].verdict = "none"
        BY <1>7, <2>1, <2>2 DEF Await
    <2>3. CASE peer[i].verdict # "none"
        <3>1. /\ status'[Name(i)] = peer[i].verdict /\ own'[i] = peer[i].verdict
              /\ state'[Name(i)] = "FINISHING"
            BY <1>7, <2>3 DEF Await
        <3> QED
            BY <2>1, <3>1
    <2> QED
        BY <2>2, <2>3
<1>8. CASE Step(i)
    BY <1>8 DEF Step
<1>9. CASE Except(i)
    BY <1>9 DEF Except
<1>10. CASE Inner(i)
    BY <1>10 DEF Inner
<1>11. CASE Fin(i)
    BY <1>11 DEF Fin
<1>12. CASE FinLook(i)
    <2>1. lt[i] = "finlook" /\ UNCHANGED <<state, status, own, err>>
        BY <1>12 DEF FinLook
    <2>2. CASE Changed(i)
        <3>1. lt'[i] = "dead" /\ finish'.flag = finish.flag
            BY <1>12, <2>2 DEF FinLook
        <3>2. looked[i] < Len(running) \/ Len(running) < looked[i]
            <4>1. Len(running) \in Nat /\ looked[i] \in Nat
                BY LenProperties DEF ThreadTypes, CaseTypes, Types
            <4>2. Len(running) # looked[i]
                BY <2>2 DEF Changed
            <4> QED
                BY <4>1, <4>2, MoreOrLess
        <3>3. Len(running) < looked[i] => i \in cutShort'
            BY <1>12, <2>2 DEF FinLook
        <3> QED
            BY <2>1, <3>1, <3>2, <3>3
    <2>3. CASE ~Changed(i)
        <3>1. lt'[i] \in {"post", "finsync"} /\ UNCHANGED finish
            BY <1>12, <2>3 DEF FinLook
        <3> QED
            BY <2>1, <3>1
    <2> QED
        BY <2>2, <2>3
<1>13. CASE PostRun(i)
    BY <1>13 DEF PostRun
<1>14. CASE PostRunFails(i)
    BY <1>14 DEF PostRunFails
<1>15. CASE InterruptBegin(i)
    BY <1>15 DEF InterruptBegin, Raised
<1>16. CASE InterruptOuter(i)
    BY <1>16 DEF InterruptOuter, Raised
<1>17. CASE InterruptWork(i)
    BY <1>17 DEF InterruptWork, Raised
<1>18. CASE InterruptExcept(i)
    BY <1>18 DEF InterruptExcept, Raised
<1>19. CASE InterruptFinally(i)
    BY <1>19 DEF InterruptFinally, Raised
<1>20. CASE Cancel(i)
    BY <1>20 DEF Cancel
<1>21. CASE InterruptCancel(i)
    BY <1>21 DEF InterruptCancel, Raised
<1> QED
    BY <1>1, <1>2, <1>3, <1>4, <1>5, <1>6, <1>7, <1>8, <1>9, <1>10,
       <1>11, <1>12, <1>13, <1>14, <1>15, <1>16, <1>17, <1>18, <1>19, <1>20, <1>21 DEF LT, Interrupted

(* How an LT goes on that has no PASS, or that has finished.                *)
LEMMA EndLT ==
    ASSUME Types, LocksOK, NEW i \in LTs, LT(i)
    PROVE  /\ lt[i] = "post" =>
                  lt'[i] = "dead" /\ (status[Name(i)] # "PASS" => status'[Name(i)] # "PASS")
           /\ lt[i] \in {"pre", "sync", "synclook", "fin"} /\ status[Name(i)] # "PASS" =>
                  /\ status'[Name(i)] # "PASS"
                  /\ \/ lt'[i] \in {"sync", "synclook", "fin", "post", "dead"}
                     \/ lt[i] = "synclook" /\ InSync("RUNNING")
           /\ lt[i] \in {"finsync", "finlook"} =>
                  /\ UNCHANGED <<state, running>>
                  /\ \/ lt'[i] \in {"finsync", "finlook", "dead"}
                     \/ InSync("FINISHED") \/ finish.flag
<1>0. Name(i) \in Names
    BY Stepping DEF Types
<1> USE <1>0 DEF Types, MainTypes, ThreadTypes, CaseTypes, Goto, SetState, SetStatus, SetErr, SetCode,
            Fails, Ends, Leaves, Codes, Starting, Finishing, Working, cases
<1>1. CASE Begin(i)
    BY <1>1 DEF Begin
<1>2. CASE PreRun(i)
    BY <1>2 DEF PreRun
<1>3. CASE Look(i)
    BY <1>3 DEF Look
<1>4. CASE SyncLook(i)
    BY <1>4 DEF SyncLook
<1>5. CASE StartTestCase(i)
    BY <1>5 DEF StartTestCase
<1>6. CASE Loop(i)
    BY <1>6 DEF Loop
<1>7. CASE Await(i)
    BY <1>7 DEF Await
<1>8. CASE Step(i)
    BY <1>8 DEF Step
<1>9. CASE Except(i)
    BY <1>9 DEF Except
<1>10. CASE Inner(i)
    BY <1>10 DEF Inner
<1>11. CASE Fin(i)
    BY <1>11 DEF Fin
<1>12. CASE FinLook(i)
    BY <1>12 DEF FinLook, GivesUp
<1>13. CASE PostRun(i)
    BY <1>13 DEF PostRun
<1>14. CASE PostRunFails(i)
    BY <1>14 DEF PostRunFails
<1>15. CASE InterruptBegin(i)
    BY <1>15 DEF InterruptBegin, Raised
<1>16. CASE InterruptOuter(i)
    BY <1>16 DEF InterruptOuter, Raised
<1>17. CASE InterruptWork(i)
    BY <1>17 DEF InterruptWork, Raised
<1>18. CASE InterruptExcept(i)
    BY <1>18 DEF InterruptExcept, Raised
<1>19. CASE InterruptFinally(i)
    BY <1>19 DEF InterruptFinally, Raised
<1>20. CASE Cancel(i)
    BY <1>20 DEF Cancel
<1>21. CASE InterruptCancel(i)
    BY <1>21 DEF InterruptCancel, Raised
<1> QED
    BY <1>1, <1>2, <1>3, <1>4, <1>5, <1>6, <1>7, <1>8, <1>9, <1>10,
       <1>11, <1>12, <1>13, <1>14, <1>15, <1>16, <1>17, <1>18, <1>19, <1>20, <1>21 DEF LT, Interrupted

(* What an LT leaves as it is.                                              *)
LEMMA OthersLT ==
    ASSUME Types, LocksOK, NEW i \in LTs, LT(i)
    PROVE  /\ i \in Active /\ lt[i] # "dead" /\ Going /\ Active' = Active /\ Active \subseteq LTs
           /\ \A j \in Active : Name(j) \in Names /\ Name(j)' = Name(j)
           /\ \A j \in Active \ {i} :
                  /\ Name(j) # Name(i) /\ lt'[j] = lt[j] /\ looked'[j] = looked[j]
                  /\ state'[Name(j)] = state[Name(j)] /\ status'[Name(j)] = status[Name(j)]
                  /\ own'[j] = own[j] /\ err'[j] = err[j]
<1>1. /\ i \in Active /\ i \in LTs /\ lt[i] # "dead" /\ Going /\ Active' = Active /\ Active \subseteq LTs
      /\ \A j \in Active : Name(j) \in Names /\ Name(j)' = Name(j)
      /\ \A j \in Active \ {i} : Name(j) # Name(i)
    BY Stepping, ThreadLT, Numbers DEF Types, MainTypes, Active, Name
<1>2. \E p \in Places : lt' = [lt EXCEPT ![i] = p]
    BY ThreadLT
<1> QED
    BY <1>1, <1>2, RunningLT, FrameLT DEF Types, ThreadTypes

(* An LT that is lost stays lost.                                           *)
LEMMA LostLT ==
    ASSUME Types, LocksOK, AnyLost, NEW i \in LTs, LT(i)
    PROVE  AnyLost'
<1>1. PICK j \in Active : Lost(j)
    BY DEF AnyLost
<1>2. Lost(j)'
    <2>1. CASE j = i
        BY <1>1, <2>1, OthersLT, EndLT DEF Lost
    <2>2. CASE j # i
        BY <1>1, <2>2, OthersLT DEF Lost
    <2> QED
        BY <2>1, <2>2
<1> QED
    BY <1>2, OthersLT DEF AnyLost

(* What is doomed stays doomed.                                             *)
LEMMA DoomedLT ==
    ASSUME Types, LocksOK, RunningOK, Registered, VerdictsOK, Doomed, ~superguard,
           NEW i \in LTs, LT(i)
    PROVE  Doomed'
<1>1. /\ i \in Active /\ lt[i] # "dead" /\ Going /\ Active' = Active /\ Active \subseteq LTs
      /\ \A j \in Active : Name(j) \in Names /\ Name(j)' = Name(j)
    BY OthersLT
<1>2. \A j \in Active \ {i} : /\ Name(j) # Name(i) /\ lt'[j] = lt[j] /\ state'[Name(j)] = state[Name(j)]
                             /\ status'[Name(j)] = status[Name(j)]
    BY OthersLT
<1>3. CASE AnyLost
    BY <1>3, LostLT DEF Doomed
<1> SUFFICES ASSUME NEW k \in Active, Bars(k), NEW j \in Active, Barred(j), ~AnyLost
             PROVE  Doomed'
    BY <1>3 DEF Doomed
<1>4. ~Lost(j) /\ lt[j] \in {"pre", "sync", "synclook", "fin"} /\ status[Name(j)] # "PASS"
    BY DEF AnyLost, Barred, Lost
<1>5. Contains(running, Name(j)) /\ state[Name(j)] # "FINISHED" /\ j # k
    <2>1. Name(j)[1] = tc /\ Name(j)[2] = j
        BY DEF Name
    <2> QED
        BY <1>1, <1>4, <2>1 DEF Registered, VerdictsOK, Finishing, Bars
<1>6. Barred(j)'
    <2>1. CASE j = i
        <3>1. ~InSync("RUNNING")
            BY DEF Bars, InSync, Others, Contains, Types, CaseTypes
        <3> QED
            BY <1>1, <1>4, <2>1, <3>1, EndLT DEF Barred
    <2>2. CASE j # i
        BY <1>1, <1>2, <2>2 DEF Barred
    <2> QED
        BY <2>1, <2>2
<1>7. Bars(k)'
    <2>1. CASE k = i
        <3>1. ~InSync("FINISHED") /\ ~finish.flag
            <4>1. ~InSync("FINISHED")
                BY <1>5 DEF InSync, Others, Contains, Types, CaseTypes
            <4> QED
                BY <1>1, <4>1 DEF VerdictsOK, Alive
        <3>2. lt[i] \in {"finsync", "finlook"}
            BY <1>1, <2>1 DEF Bars
        <3> QED
            BY <1>1, <2>1, <3>1, <3>2, EndLT DEF Bars
    <2>2. CASE k # i
        <3>1. CASE UNCHANGED running
            BY <1>1, <1>2, <2>2, <3>1 DEF Bars
        <3>2. CASE Begin(i) /\ running' # running
            <4>1. running' = Append(running, Name(i)) /\ running \in Seq(Names)
                BY <3>2 DEF Begin, Types, CaseTypes
            <4>2. Contains(running', Name(k))
                BY <1>1, <4>1, AppendProperties DEF Contains, Bars
            <4> QED
                BY <1>1, <1>2, <2>2, <4>2 DEF Bars
        <3>3. CASE PostRun(i)
            BY <1>1, <1>2, <2>2, <3>3, RunningRemoved DEF Bars
        <3> QED
            BY <3>1, <3>2, <3>3, RunningLT
    <2> QED
        BY <2>1, <2>2
<1> QED
    BY <1>1, <1>6, <1>7 DEF Doomed

(* When every thread has counted itself, all have ended.                    *)
LEMMA AllCounted ==
    ASSUME Types, CountOK, Going, finish.count = Width[tc]
    PROVE  \A i \in Active : ~Alive(i)
<1> DEFINE Ended == {i \in Active : ~Alive(i)}
<1>1. Width[tc] \in Nat
    BY Numbers DEF Types, MainTypes
<1>2. IsFiniteSet(Active) /\ Cardinality(Active) = Width[tc]
    BY <1>1, FS_Interval DEF Active
<1>3. Cardinality(Ended) = Cardinality(Active)
    BY <1>2 DEF CountOK
<1>4. Ended = Active
    BY <1>2, <1>3, FS_Subset
<1> QED
    BY <1>4

LEMMA VerdictsLT ==
    ASSUME Types, LocksOK, RunningOK, Registered, VerdictsOK, NEW i \in LTs, LT(i)
    PROVE  VerdictsOK'
<1>1. /\ i \in Active /\ i \in LTs /\ lt[i] # "dead" /\ Going /\ Active' = Active /\ Active \subseteq LTs
      /\ UNCHANGED <<main, superguard, tc>> /\ Going' /\ Name(i) \in Names
      /\ \A j \in Active : Name(j)' = Name(j)
    BY OthersLT, ThreadLT DEF Going
<1>2. /\ \A j \in Active \ {i} : lt'[j] = lt[j] /\ looked'[j] = looked[j]
      /\ \A j \in Active \ {i} : state'[Name(j)] = state[Name(j)] /\ status'[Name(j)] = status[Name(j)]
      /\ \A j \in Active \ {i} : own'[j] = own[j] /\ err'[j] = err[j]
      /\ cutShort \subseteq cutShort'
    BY OthersLT, FrameLT
<1>3. superguard \/ Doomed => superguard \/ Doomed'
    BY DoomedLT
<1>4. finish'.flag => superguard \/ AnyLost'
    <2>1. CASE lt'[i] = "post" /\ status'[Name(i)] # "PASS"
        BY <1>1, <2>1 DEF AnyLost, Lost
    <2>2. CASE finish.flag
        BY <1>1, <2>2, LostLT DEF VerdictsOK, Alive
    <2> QED
        BY <2>1, <2>2, CourseLT
<1>5. (main # "wait" => finish'.flag) /\ (main = "wait" => ~superguard)
    BY <1>1, ThreadLT DEF VerdictsOK
<1> SUFFICES ASSUME NEW j \in Active
             PROVE  /\ lt'[j] \in Starting \cup {"begin", "pre"} => status'[Name(j)] # "PASS"
                    /\ state'[Name(j)] = "FINISHED" =>
                           lt'[j] \in (Finishing \ {"fin"}) \cup {"dead"}
                    /\ lt'[j] \in Finishing \ {"fin"} => state'[Name(j)] = "FINISHED"
                    /\ status'[Name(j)] = "PASS" => own'[j] = "PASS"
                    /\ lt'[j] = "finlook" /\ looked'[j] < Len(running') => superguard \/ Doomed'
                    /\ lt'[j] = "dead" /\ status'[Name(j)] = "PASS" /\ err'[j] # "none"
                           => superguard \/ Doomed' \/ j \in cutShort'
    BY <1>1, <1>4, <1>5 DEF VerdictsOK
<1>6. /\ lt[j] \in Starting \cup {"begin", "pre"} => status[Name(j)] # "PASS"
      /\ state[Name(j)] = "FINISHED" => lt[j] \in (Finishing \ {"fin"}) \cup {"dead"}
      /\ lt[j] \in Finishing \ {"fin"} => state[Name(j)] = "FINISHED"
      /\ status[Name(j)] = "PASS" => own[j] = "PASS"
      /\ lt[j] = "finlook" /\ looked[j] < Len(running) => superguard \/ Doomed
      /\ lt[j] = "dead" /\ status[Name(j)] = "PASS" /\ err[j] # "none"
             => superguard \/ Doomed \/ j \in cutShort
    BY <1>1 DEF VerdictsOK
<1>7. lt'[j] \in Starting \cup {"begin", "pre"} => status'[Name(j)] # "PASS"
    BY <1>2, <1>6, CourseLT DEF Starting
<1>8. /\ state'[Name(j)] = "FINISHED" => lt'[j] \in (Finishing \ {"fin"}) \cup {"dead"}
      /\ lt'[j] \in Finishing \ {"fin"} => state'[Name(j)] = "FINISHED"
    BY <1>1, <1>2, <1>6, CourseLT
<1>9. status'[Name(j)] = "PASS" => own'[j] = "PASS"
    BY <1>2, <1>6, CourseLT
<1>10. ASSUME lt'[j] = "finlook", looked'[j] < Len(running')
       PROVE  superguard \/ Doomed'
    <2>1. j # i /\ lt[j] = "finlook" /\ looked'[j] = looked[j]
        BY <1>2, <1>10, RunningLT DEF Types, CaseTypes
    <2>2. CASE UNCHANGED running
        BY <1>3, <1>6, <1>10, <2>1, <2>2
    <2>3. CASE PostRun(i)
        <3>1. Len(running') = Len(running) - 1 /\ Len(running) \in Nat /\ looked[j] \in Nat
            BY <1>1, <2>3, RunningRemoved DEF Types, CaseTypes, ThreadTypes
        <3> QED
            BY <1>3, <1>6, <1>10, <2>1, <3>1
    <2>4. CASE Begin(i)
        <3>1. running' = running \/ running' = Append(running, Name(i))
            BY <2>4 DEF Begin
        <3>2. Contains(running, Name(j))
            BY <1>1, <2>1, Numbers DEF Registered, Name, Types, MainTypes
        <3>3. Contains(running', Name(j))
            BY <1>1, <3>1, <3>2, AppendProperties DEF Contains, Types, CaseTypes
        <3>4. Bars(j)'
            BY <1>1, <1>8, <1>10, <3>3 DEF Bars, Finishing
        <3>5. lt'[i] = "pre" /\ UNCHANGED status /\ status[Name(i)] # "PASS"
            BY <1>1, <2>4 DEF Begin, Goto, Types, ThreadTypes, VerdictsOK
        <3>6. Barred(i)'
            BY <1>1, <3>5 DEF Barred
        <3> QED
            BY <1>1, <3>4, <3>6 DEF Doomed
    <2> QED
        BY <2>2, <2>3, <2>4, RunningLT
<1>11. ASSUME lt'[j] = "dead", status'[Name(j)] = "PASS", err'[j] # "none"
       PROVE  superguard \/ Doomed' \/ j \in cutShort'
    <2>1. CASE j # i
        BY <1>2, <1>3, <1>6, <1>11, <2>1
    <2>2. CASE j = i /\ pending[i]
        <3>1. finish.flag
            BY <1>1, <2>2 DEF LocksOK, VerdictsOK
        <3>2. superguard \/ AnyLost
            BY <1>1, <3>1 DEF VerdictsOK, Alive
        <3> QED
            BY <1>3, <3>2 DEF Doomed
    <2>3. CASE j = i /\ lt[i] = "finlook" /\ looked[i] < Len(running)
        BY <1>3, <1>6, <2>3
    <2>4. CASE j = i /\ i \in cutShort'
        BY <2>4
    <2> QED
        BY <1>11, <2>1, <2>2, <2>3, <2>4, CourseLT
<1> QED
    BY <1>7, <1>8, <1>9, <1>10, <1>11

LEMMA VerdictsMain ==
    ASSUME Types, LocksOK, CountOK, VerdictsOK, Main
    PROVE  VerdictsOK'
<1> USE DEF Types, MainTypes, ThreadTypes, CaseTypes
<1>1. CASE Prepare
    <2>1. CASE Width[tc] <= Ptses
        <3>1. /\ lt' = [i \in LTs |-> IF i \in Active THEN "begin" ELSE "dead"]
              /\ status' = [n \in Names |-> IF n[1] = tc THEN "init" ELSE status[n]]
              /\ state' = [n \in Names |-> IF n[1] = tc THEN "none" ELSE state[n]]
              /\ main' = "wait" /\ superguard' = FALSE /\ finish'.flag = FALSE /\ UNCHANGED tc
            BY <1>1, <2>1, Numbers, PtsesAssumption DEF Prepare
        <3>2. /\ Active' = Active /\ Active \subseteq LTs
              /\ \A i \in Active : /\ Name(i) \in Names /\ Name(i)[1] = tc /\ Name(i)' = Name(i)
            BY <3>1, Numbers DEF Active, Name
        <3>3. \A i \in Active : lt'[i] = "begin" /\ status'[Name(i)] = "init" /\ state'[Name(i)] = "none"
            BY <3>1, <3>2
        <3> QED
            BY <3>1, <3>2, <3>3 DEF VerdictsOK, Finishing
    <2>2. CASE ~(Width[tc] <= Ptses)
        BY <1>1, <2>2 DEF Prepare, VerdictsOK, Going
    <2> QED
        BY <2>1, <2>2
<1>2. CASE Wake \/ Superguard
    <2>1. /\ UNCHANGED <<tc, lt, looked, running, cases, own, err, cutShort>> /\ finish'.flag = TRUE
          /\ main = "wait" /\ main' = "interrupt" /\ Going /\ finish'.count = finish.count
        BY <1>2 DEF Wake, Superguard, Wakes, Going
    <2>2. Doomed' = Doomed /\ AnyLost' = AnyLost
        BY <2>1 DEF Doomed, AnyLost, Lost, Barred, Bars, Active, Name
    <2>3. superguard' \/ AnyLost \/ \A i \in Active : ~Alive(i)
        <3>1. CASE Superguard
            BY <3>1 DEF Superguard, Wakes
        <3>2. CASE Wake
            BY <2>1, <3>2, AllCounted DEF Wake, VerdictsOK
        <3> QED
            BY <1>2, <3>1, <3>2
    <2>4. superguard => superguard'
        BY <2>1 DEF VerdictsOK
    <2> QED
        BY <2>1, <2>2, <2>3, <2>4 DEF VerdictsOK, Active, Name, Alive
<1>3. CASE Interrupt \/ Inject
    <2>1. /\ UNCHANGED <<tc, lt, looked, running, cases, own, err, cutShort, finish, superguard>>
          /\ main # "wait" /\ main' # "wait" /\ Going
        BY <1>3 DEF Interrupt, Inject, Going
    <2>2. Doomed' = Doomed /\ AnyLost' = AnyLost
        BY <2>1 DEF Doomed, AnyLost, Lost, Barred, Bars, Active, Name
    <2> QED
        BY <2>1, <2>2 DEF VerdictsOK, Active, Name, Alive
<1>4. CASE Join \/ Decide
    BY <1>4 DEF Join, Decide, VerdictsOK, Going
<1> QED
    BY <1>1, <1>2, <1>3, <1>4 DEF Main

LEMMA VerdictsStep ==
    ASSUME Types, LocksOK, CountOK, RunningOK, Registered, VerdictsOK, [Next]_vars
    PROVE  VerdictsOK'
<1>1. ASSUME UNCHANGED <<main, tc, superguard, lt, looked, cases, own, err, cutShort, finish>>
      PROVE  VerdictsOK'
    BY <1>1 DEF VerdictsOK, Doomed, AnyLost, Lost, Barred, Bars, Active, Name, Alive, Going
<1>2. ASSUME NEW i \in LTs, PTS(i)
      PROVE  VerdictsOK'
    BY <1>1, <1>2 DEF PTS, Ask, AskTimesOut, GiveVerdict, PtsStep
<1> QED
    BY <1>1, <1>2, VerdictsLT, VerdictsMain DEF Next

LEMMA PassHonestStep ==
    ASSUME Types, LocksOK, VerdictsOK, PassHonest, [Next]_vars
    PROVE  PassHonest'
<1> USE DEF Types, MainTypes, ThreadTypes, CaseTypes
<1>1. CASE Join
    <2> SUFFICES ASSUME recorded'[tc] = "PASS"
                 PROVE  /\ ~superguard
                        /\ \A i \in Active : own[i] = "PASS" /\ (err[i] = "none" \/ i \in cutShort)
        BY <1>1 DEF Join, PassHonest, Active
    <2> DEFINE bad == {i \in Active : FinalStatus[Name(i)] # "PASS"}
    <2>1. Reported = "PASS"
        BY <1>1 DEF Join
    <2>2. bad = {}
        <3> SUFFICES ASSUME bad # {} PROVE FALSE
            OBVIOUS
        <3>1. bad \subseteq Nat
            BY Numbers
        <3>2. Min(bad) \in bad
            BY <3>1, LeastNatural
        <3> QED
            BY <2>1, <3>2 DEF Reported
    <2>3. Going /\ Active \subseteq LTs /\ 1 \in Active /\ \A i \in Active : Name(i) \in Names /\ lt[i] = "dead"
        BY <1>1, Numbers DEF Join, Going, Alive
    <2>4. ~superguard
        BY <2>2, <2>3 DEF FinalStatus
    <2>5. \A i \in Active : status[Name(i)] = "PASS"
        BY <2>2, <2>4 DEF FinalStatus
    <2>6. ~Doomed
        BY <2>5 DEF Doomed, AnyLost, Lost, Barred
    <2> QED
        BY <2>3, <2>4, <2>5, <2>6 DEF VerdictsOK
<1>2. CASE Prepare
    <2>1. main' = "decide" => recorded' = [recorded EXCEPT ![tc] = "LT_NOT_AVAILABLE"] /\ UNCHANGED tc
        BY <1>2 DEF Prepare
    <2> QED
        BY <2>1 DEF PassHonest
<1>3. CASE Wake \/ Superguard \/ Interrupt \/ Inject \/ Decide
    BY <1>3 DEF Wake, Superguard, Wakes, Interrupt, Inject, Decide, PassHonest
<1>4. ASSUME NEW i \in LTs, LT(i)
      PROVE  PassHonest'
    BY <1>4, Stepping, ThreadLT DEF PassHonest, Going
<1>5. ASSUME NEW i \in LTs, PTS(i)
      PROVE  PassHonest'
    BY <1>5 DEF PTS, Ask, AskTimesOut, GiveVerdict, PtsStep, PassHonest, Active
<1>6. CASE UNCHANGED vars
    BY <1>6 DEF PassHonest, Active
<1> QED
    BY <1>1, <1>2, <1>3, <1>4, <1>5, <1>6 DEF Next, Main

-----------------------------------------------------------------------------
(* The theorems.                                                            *)

LEMMA RunInvInit == Init => RunInv
<1> SUFFICES ASSUME Init PROVE RunInv
    OBVIOUS
<1>1. Types
    BY TypesInit
<1>2. HeldOK /\ CountOK /\ StepsOK /\ LocksOK /\ VerdictsOK /\ PassHonest
    BY DEF Init, HeldOK, CountOK, StepsOK, LocksOK, VerdictsOK, PassHonest, Going, Alive
<1>3. RunningOK /\ Registered
    <2>1. \A n \in Names : n[2] \in LTs
        BY DEF Names
    <2> QED
        BY <2>1 DEF Init, RunningOK, Registered, Contains
<1> QED
    BY <1>1, <1>2, <1>3 DEF RunInv, TypeOK

LEMMA RunInvStep == RunInv /\ [Next]_vars => RunInv'
BY TypesStep, LocksStep, CountStep, StepsStep, RunningStep, RegisteredStep, VerdictsStep,
   PassHonestStep DEF RunInv, TypeOK

(* The inductive invariant holds of every run.                              *)
THEOREM RunInvariance == Spec => []RunInv
BY RunInvInit, RunInvStep, PTL DEF Spec

(* The variables keep their types, an interrupt waits for the lock of its   *)
(* LT, and finish_count is of the threads that have ended.                  *)
THEOREM TypeCorrect == Spec => []TypeOK
<1>1. RunInv => TypeOK
    BY DEF RunInv
<1> QED
    BY <1>1, RunInvariance, PTL

(* RUNNING_TEST_CASE holds the test cases of the LTs that run, and those    *)
(* whose clean-up was cut short.                                            *)
THEOREM RegisteredInvariance == Spec => []Registered
<1>1. RunInv => Registered
    BY DEF RunInv
<1> QED
    BY <1>1, RunInvariance, PTL

(* A reported PASS is a PASS of every LT, without error and superguard.     *)
THEOREM PassIsHonest == Spec => []PassHonest
<1>1. RunInv => PassHonest
    BY DEF RunInv
<1> QED
    BY <1>1, RunInvariance, PTL

(* Between two runs no thread, interrupt or held lock is left.              *)
THEOREM RunsAreApart == Spec => []RunsApart
<1>1. RunInv => RunsApart
    BY DEF RunInv, TypeOK, HeldOK, LocksOK, RunsApart, Going
<1> QED
    BY <1>1, RunInvariance, PTL

(* No interrupt is raised in pre_run.                                       *)
THEOREM PreRunIsWhole == Spec => PreRunWhole
<1>1. RunInv /\ [Next]_vars => [\A i \in LTs : ~RaisedIn(i, {"pre"})]_vars
    BY DEF RunInv, LocksOK, RaisedIn
<1> QED
    BY <1>1, RunInvariance, PTL DEF Spec, PreRunWhole
=============================================================================
