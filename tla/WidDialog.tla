----------------------------- MODULE WidDialog -----------------------------
(***************************************************************************)
(* The dialog of one lower tester (LT) with its PTS while test cases run:  *)
(* the LT thread of autopts/client.py (LTThread._run_test_case), its       *)
(* ClientCallback, and on the other side of XML-RPC the PTS thread of      *)
(* autoptsserver.py with PyPTS.run_test_case and PTSSender of              *)
(* autopts/ptscontrol.py.                                                  *)
(*                                                                         *)
(* RunTestCase blocks the PTS thread.  Meanwhile the PTS asks for the      *)
(* handling of WIDs: PTSSender.OnImplicitSend tells the client, which      *)
(* queues a step for the LT thread and answers "WAIT"; OnImplicitSend then *)
(* waits for set_wid_response, at most 90 seconds.  When RunTestCase has   *)
(* ended its verdict is sent to the client, where the LT thread waits for  *)
(* it in between the steps.  Requests, WIDs and verdicts carry no identity *)
(* of the run they belong to.                                              *)
(*                                                                         *)
(* Both sides wait at a ResultWithFlag (autopts/utils.py): a result        *)
(* guarded by a lock and an event that is not, so that clear() takes two   *)
(* steps, and a timer thread per wait() with a timeout.                    *)
(***************************************************************************)
EXTENDS Integers, Sequences

CONSTANTS
    MaxTests,    \* bound: test cases (or retries) run one after the other
    MaxWids,     \* bound: WIDs sent by the PTS, over all runs
    Deferring,   \* the WIDs whose handling queues a further step
    Retries      \* the test cases that are the one before them run again

ASSUME MaxTestsAssumption == MaxTests \in Nat
ASSUME MaxWidsAssumption == MaxWids \in Nat
ASSUME DeferringAssumption == Deferring \subseteq 1..MaxWids
ASSUME RetriesAssumption == Retries \subseteq 2..MaxTests

None == 0    \* no result, no answer, no WID, no test case; also a deferred step

VARIABLES
    \* the LT thread
    test,     \* the test case that runs or ran last
    lpc,      \* where the thread is
    steps,    \* steps_queue: WIDs to handle; None is a deferred step
    answer,   \* the WID whose handler has produced a response
    seen,     \* the result that get_result has read
    verdict,  \* verdict[k]: the run whose result became test case k's status
    stopped,  \* finish_count's flag
    \* the ClientCallback
    reg,      \* the test case is in RUNNING_TEST_CASE
    cell,     \* which ResultWithFlag object _results['run_test_case'] is
    vflag,    \* its event
    vres,     \* its result: the run that gave it
    exc,      \* its exception queue is not empty
    \* the PTS thread
    requests, \* ptscontrol_request_queue
    ppc,      \* where the thread is
    run,      \* the test case that PyPTS.run_test_case executes
    target,   \* the ResultWithFlag object that set_result has looked up
    \* the PTSSender
    closed,   \* _end
    rflag,    \* event of _response
    rval,     \* result of _response: the WID that the LT answered
    spc,      \* where OnImplicitSend is
    sent,     \* WIDs sent so far; the last one is the pending one
    rsp,      \* what OnImplicitSend is going to return
    timer,    \* timer of the pending wait
    late,     \* timers past their wait that will still set the event
    \* history
    strays,   \* how many late timers have set the event
    gaveUp    \* the test cases whose LT thread ended without a verdict

ltVars == <<test, lpc, steps, answer, seen, verdict, stopped, gaveUp>>
callbackVars == <<cell, vflag, vres, exc>>
ptsVars == <<requests, ppc, run, target>>
responseVars == <<closed, rflag, rval>>
timerVars == <<timer, late, strays>>
senderVars == <<responseVars, spc, sent, rsp, timerVars>>
vars == <<ltVars, reg, callbackVars, ptsVars, senderVars>>

Loop == {"loop", "wait", "read", "clear", "unset", "step", "respond"}
LPC == Loop \cup {"idle", "start", "cancel", "close", "end", "post"}

TypeOK ==
    /\ test \in 0..MaxTests
    /\ lpc \in LPC
    /\ steps \in Seq(0..MaxWids)
    /\ answer \in 0..MaxWids
    /\ seen \in 0..MaxTests
    /\ verdict \in [1..MaxTests -> 0..MaxTests]
    /\ stopped \in BOOLEAN
    /\ reg \in BOOLEAN
    /\ cell \in Nat
    /\ vflag \in BOOLEAN
    /\ vres \in 0..MaxTests
    /\ exc \in BOOLEAN
    /\ requests \in Seq(1..MaxTests)
    /\ ppc \in {"idle", "reopen", "run", "recover", "report", "set"}
    /\ run \in 0..MaxTests
    /\ target \in Nat
    /\ closed \in BOOLEAN
    /\ rflag \in BOOLEAN
    /\ rval \in 0..MaxWids
    /\ spc \in {"out", "call", "wait", "read", "clear", "unset"}
    /\ sent \in 0..MaxWids
    /\ rsp \in 0..MaxWids
    /\ timer \in {"off", "armed", "fired", "raising", "done"}
    /\ late \in Nat
    /\ strays \in Nat
    /\ gaveUp \subseteq 1..MaxTests

Init ==
    /\ test = 0 /\ lpc = "idle" /\ steps = <<>> /\ answer = None /\ seen = None
    /\ verdict = [k \in 1..MaxTests |-> None]
    /\ stopped = FALSE
    /\ reg = FALSE
    /\ cell = 0 /\ vflag = FALSE /\ vres = None /\ exc = FALSE
    /\ requests = <<>> /\ ppc = "idle" /\ run = None /\ target = 0
    /\ closed = FALSE /\ rflag = FALSE /\ rval = None
    /\ spc = "out" /\ sent = 0 /\ rsp = None
    /\ timer = "off" /\ late = 0
    /\ strays = 0 /\ gaveUp = {}

-----------------------------------------------------------------------------
(* The LT thread.                                                          *)

LGoto(from, to) == lpc = from /\ lpc' = to

(* callback.cleanup(): new result objects, an empty exception queue.       *)
Cleanup ==
    /\ cell' = cell + 1
    /\ vflag' = FALSE
    /\ vres' = None
    /\ exc' = FALSE

(* The main thread starts a new LT thread for the next test case, or for   *)
(* the same one again; the thread registers it and runs pre_run.           *)
Begin ==
    /\ test < MaxTests
    /\ LGoto("idle", "start")
    /\ test' = test + 1
    /\ steps' = <<>>
    /\ stopped' = FALSE
    /\ reg' = TRUE
    /\ Cleanup
    /\ UNCHANGED <<answer, seen, verdict, gaveUp, ptsVars, senderVars>>

(* pts.run_test_case only queues the request.                              *)
StartRun ==
    /\ LGoto("start", "loop")
    /\ requests' = Append(requests, test)
    /\ UNCHANGED <<test, steps, answer, seen, verdict, stopped, gaveUp, reg, callbackVars,
                   ppc, run, target, senderVars>>

(* pre_run, synchronize_instances or the request failed.                   *)
StartFails ==
    /\ LGoto("start", "post")
    /\ gaveUp' = gaveUp \cup {test}
    /\ UNCHANGED <<test, steps, answer, seen, verdict, stopped, reg, callbackVars, ptsVars,
                   senderVars>>

(* state == "FINISHING": a verdict has been taken.                         *)
Finishing == verdict[test] # None

StoppedExternally ==
    /\ stopped
    /\ LGoto("loop", "end")
    /\ UNCHANGED <<test, steps, answer, seen, verdict, stopped, gaveUp, reg, callbackVars,
                   ptsVars, senderVars>>

Finished ==
    /\ LGoto("loop", "end")
    /\ ~stopped
    /\ Finishing
    /\ steps = <<>>
    /\ UNCHANGED <<test, steps, answer, seen, verdict, stopped, gaveUp, reg, callbackVars,
                   ptsVars, senderVars>>

NextRound ==
    /\ lpc = "loop"
    /\ ~stopped
    /\ ~(Finishing /\ steps = <<>>)
    /\ lpc' = IF Finishing THEN "step" ELSE "wait"
    /\ UNCHANGED <<test, steps, answer, seen, verdict, stopped, gaveUp, reg, callbackVars,
                   ptsVars, senderVars>>

(* get_result: wait while there is no step and no result ...               *)
GetWakes ==
    /\ steps # <<>> \/ vflag
    /\ LGoto("wait", "read")
    /\ UNCHANGED <<test, steps, answer, seen, verdict, stopped, gaveUp, reg, callbackVars,
                   ptsVars, senderVars>>

(* ... read the result under its lock ...                                  *)
GetReads ==
    /\ LGoto("read", "clear")
    /\ seen' = vres
    /\ UNCHANGED <<test, steps, answer, verdict, stopped, gaveUp, reg, callbackVars, ptsVars,
                   senderVars>>

(* Mutant: clear() keeps the result.                                       *)
ResultKept ==
    /\ LGoto("clear", "unset")
    /\ UNCHANGED <<test, steps, answer, seen, verdict, stopped, gaveUp, reg, callbackVars,
                   ptsVars, senderVars>>

(* ... and clear it: the result under the lock, then the event.            *)
ClearResult ==
    /\ LGoto("clear", "unset")
    /\ vres' = None
    /\ UNCHANGED <<test, steps, answer, seen, verdict, stopped, gaveUp, reg, cell, vflag, exc,
                   ptsVars, senderVars>>

ClearFlag ==
    /\ LGoto("unset", "step")
    /\ vflag' = FALSE
    /\ verdict' = IF seen = None THEN verdict ELSE [verdict EXCEPT ![test] = seen]
    /\ seen' = None
    /\ UNCHANGED <<test, steps, answer, stopped, gaveUp, reg, cell, vres, exc, ptsVars,
                   senderVars>>

(* run_next_step: nothing to do, or a deferred step, which has no response.*)
NoResponse ==
    /\ LGoto("step", "loop")
    /\ \/ steps = <<>> /\ UNCHANGED steps
       \/ steps # <<>> /\ Head(steps) = None /\ steps' = Tail(steps)
    /\ UNCHANGED <<test, answer, seen, verdict, stopped, gaveUp, reg, callbackVars, ptsVars,
                   senderVars>>

(* run_wid: the handler answers, and may leave a step for afterwards.      *)
HandleWid ==
    /\ LGoto("step", "respond")
    /\ steps # <<>> /\ Head(steps) # None
    /\ answer' = Head(steps)
    /\ steps' = IF Head(steps) \in Deferring THEN Append(Tail(steps), None) ELSE Tail(steps)
    /\ UNCHANGED <<test, seen, verdict, stopped, gaveUp, reg, callbackVars, ptsVars, senderVars>>

StepFails ==
    /\ LGoto("step", "cancel")
    /\ steps # <<>>
    /\ steps' = Tail(steps)
    /\ UNCHANGED <<test, answer, seen, verdict, stopped, gaveUp, reg, callbackVars, ptsVars,
                   senderVars>>

Respond ==
    /\ LGoto("respond", "loop")
    /\ rval' = answer
    /\ rflag' = TRUE
    /\ answer' = None
    /\ UNCHANGED <<test, steps, seen, verdict, stopped, gaveUp, reg, callbackVars, ptsVars,
                   closed, spc, sent, rsp, timerVars>>

(* The main thread, on a superguard timeout, or another LT sets the flag;  *)
(* the main thread then injects a KeyboardInterrupt into this thread.      *)
Stop ==
    /\ lpc \in Loop \cup {"start"}
    /\ ~stopped
    /\ stopped' = TRUE
    /\ UNCHANGED <<test, lpc, steps, answer, seen, verdict, gaveUp, reg, callbackVars, ptsVars,
                   senderVars>>

Interrupt ==
    /\ stopped
    /\ lpc \in Loop
    /\ lpc' = "cancel"
    /\ answer' = None
    /\ seen' = None
    /\ UNCHANGED <<test, steps, verdict, stopped, gaveUp, reg, callbackVars, ptsVars, senderVars>>

(* The thread failed: "Cancel" for the WID that may be pending, then       *)
(* stop_test_case, which closes the sender but does not stop the PTS.      *)
CancelWid ==
    /\ LGoto("cancel", "close")
    /\ rval' = None
    /\ rflag' = TRUE
    /\ UNCHANGED <<test, steps, answer, seen, verdict, stopped, gaveUp, reg, callbackVars,
                   ptsVars, closed, spc, sent, rsp, timerVars>>

(* PTSSender.close                                                         *)
Close ==
    /\ closed' = TRUE
    /\ rval' = None
    /\ rflag' = TRUE

StopTestCase ==
    /\ LGoto("close", "end")
    /\ Close
    /\ UNCHANGED <<test, steps, answer, seen, verdict, stopped, gaveUp, reg, callbackVars,
                   ptsVars, spc, sent, rsp, timerVars>>

EndDialog ==
    /\ LGoto("end", "post")
    /\ gaveUp' = IF Finishing THEN gaveUp ELSE gaveUp \cup {test}
    /\ Cleanup
    /\ UNCHANGED <<test, steps, answer, seen, verdict, stopped, reg, ptsVars, senderVars>>

(* post_run, then the test case is no longer in RUNNING_TEST_CASE.         *)
PostRun ==
    /\ LGoto("post", "idle")
    /\ reg' = FALSE
    /\ UNCHANGED <<test, steps, answer, seen, verdict, stopped, gaveUp, callbackVars, ptsVars,
                   senderVars>>

-----------------------------------------------------------------------------
(* The PTS thread: PyPTS.run_test_case.                                    *)

(* Mutant: reopen() does not clear the response.                           *)
ReopenUncleared ==
    /\ ppc = "idle"
    /\ requests # <<>>
    /\ run' = Head(requests)
    /\ requests' = Tail(requests)
    /\ ppc' = "run"
    /\ closed' = FALSE
    /\ UNCHANGED <<ltVars, reg, callbackVars, target, rflag, rval, spc, sent, rsp, timerVars>>

(* Mutant: the request stays in the queue.                                 *)
RequestStays ==
    /\ ppc = "idle"
    /\ requests # <<>>
    /\ run' = Head(requests)
    /\ ppc' = "reopen"
    /\ closed' = FALSE
    /\ rval' = None
    /\ UNCHANGED <<ltVars, reg, callbackVars, requests, target, rflag, spc, sent, rsp, timerVars>>

(* The sender is reopened; clear() takes its two steps here, too.          *)
TakeRequest ==
    /\ ppc = "idle"
    /\ requests # <<>>
    /\ run' = Head(requests)
    /\ requests' = Tail(requests)
    /\ ppc' = "reopen"
    /\ closed' = FALSE
    /\ rval' = None
    /\ UNCHANGED <<ltVars, reg, callbackVars, target, rflag, spc, sent, rsp, timerVars>>

Reopened ==
    /\ ppc = "reopen"
    /\ ppc' = "run"
    /\ rflag' = FALSE
    /\ UNCHANGED <<ltVars, reg, callbackVars, requests, run, target, closed, rval, spc, sent,
                   rsp, timerVars>>

(* RunTestCase returns, which it does in between two OnImplicitSend calls, *)
(* and the PTSLogger has the final verdict.                                *)
RunEnds ==
    /\ ppc = "run"
    /\ spc = "out"
    /\ ppc' = "report"
    /\ UNCHANGED <<ltVars, reg, callbackVars, requests, run, target, senderVars>>

(* It fails, there is no dongle, or no verdict was logged within 30 s.     *)
RunFails ==
    /\ ppc = "run"
    /\ spc = "out"
    /\ ppc' = "recover"
    /\ Close
    /\ UNCHANGED <<ltVars, reg, callbackVars, requests, run, target, spc, sent, rsp, timerVars>>

(* recover_pts makes a new PTSSender; the result is an error.              *)
RecoverPts ==
    /\ ppc = "recover"
    /\ ppc' = "report"
    /\ closed' = FALSE
    /\ rval' = None
    /\ rflag' = FALSE
    /\ late' = 0
    /\ UNCHANGED <<ltVars, reg, callbackVars, requests, run, target, spc, sent, rsp, timer, strays>>

(* ClientCallback.set_result: look up the result object, then set it.      *)
LookUpResult ==
    /\ ppc = "report"
    /\ ppc' = "set"
    /\ target' = cell
    /\ UNCHANGED <<ltVars, reg, callbackVars, requests, run, senderVars>>

(* Mutant: the result is set without its event.                            *)
ResultOnly ==
    /\ ppc = "set"
    /\ ppc' = "idle"
    /\ vres' = IF target = cell THEN run ELSE vres
    /\ UNCHANGED <<ltVars, reg, cell, vflag, exc, requests, run, target, senderVars>>

SetResult ==
    /\ ppc = "set"
    /\ ppc' = "idle"
    /\ IF target = cell
       THEN vres' = run /\ vflag' = TRUE
       ELSE UNCHANGED <<vres, vflag>>
    /\ UNCHANGED <<ltVars, reg, cell, exc, requests, run, target, senderVars>>

-----------------------------------------------------------------------------
(* PTSSender.OnImplicitSend.  A closed sender raises at once.              *)

Send ==
    /\ ppc = "run"
    /\ spc = "out"
    /\ ~closed
    /\ sent < MaxWids
    /\ sent' = sent + 1
    /\ spc' = "call"
    /\ UNCHANGED <<ltVars, reg, callbackVars, ptsVars, responseVars, rsp, timerVars>>

(* RUNNING_TEST_CASE is looked up by name, which a retry shares.           *)
Registered == reg /\ run <= test /\ (run+1)..test \subseteq Retries

(* Mutant: get() without a timeout.                                        *)
NoTimeout ==
    /\ spc = "call"
    /\ ~closed
    /\ Registered
    /\ steps' = Append(steps, sent)
    /\ spc' = "wait"
    /\ UNCHANGED <<test, lpc, answer, seen, verdict, stopped, gaveUp, reg, callbackVars, ptsVars,
                   responseVars, sent, rsp, timerVars>>

CallClient ==
    /\ spc = "call"
    /\ ~closed
    /\ Registered
    /\ steps' = Append(steps, sent)
    /\ spc' = "wait"
    /\ timer' = "armed"
    /\ UNCHANGED <<test, lpc, answer, seen, verdict, stopped, gaveUp, reg, callbackVars, ptsVars,
                   responseVars, sent, rsp, late, strays>>

(* The client does not run the test case and answers "Cancel".             *)
ClientRefuses ==
    /\ spc = "call"
    /\ ~closed
    /\ ~Registered
    /\ exc' = TRUE
    /\ spc' = "clear"
    /\ UNCHANGED <<ltVars, reg, cell, vflag, vres, ptsVars, responseVars, sent, rsp, timerVars>>

ClosedMeanwhile ==
    /\ spc = "call"
    /\ closed
    /\ spc' = "clear"
    /\ UNCHANGED <<ltVars, reg, callbackVars, ptsVars, responseVars, sent, rsp, timerVars>>

(* threading.Timer: it is past cancelling when it has expired; on_timeout  *)
(* sets raise_timeout and then the event.                                  *)
TimerExpires ==
    /\ timer = "armed"
    /\ timer' = "fired"
    /\ UNCHANGED <<ltVars, reg, callbackVars, ptsVars, responseVars, spc, sent, rsp, late, strays>>

RaiseTimeout ==
    /\ timer = "fired"
    /\ timer' = "raising"
    /\ UNCHANGED <<ltVars, reg, callbackVars, ptsVars, responseVars, spc, sent, rsp, late, strays>>

TimerSetsEvent ==
    /\ timer = "raising"
    /\ timer' = "done"
    /\ rflag' = TRUE
    /\ UNCHANGED <<ltVars, reg, callbackVars, ptsVars, closed, rval, spc, sent, rsp, late, strays>>

LateTimer ==
    /\ late > 0
    /\ late' = late - 1
    /\ strays' = strays + 1
    /\ rflag' = TRUE
    /\ UNCHANGED <<ltVars, reg, callbackVars, ptsVars, closed, rval, spc, sent, rsp, timer>>

(* The wait ends and the timer is cancelled, if it still can be.           *)
TimerLeft ==
    /\ timer' = "off"
    /\ late' = IF timer \in {"fired", "raising"} THEN late + 1 ELSE late

WaitEnds ==
    /\ spc = "wait"
    /\ rflag \/ closed
    /\ timer \notin {"raising", "done"}
    /\ TimerLeft
    /\ spc' = "read"
    /\ UNCHANGED <<ltVars, reg, callbackVars, ptsVars, responseVars, sent, rsp, strays>>

WaitTimesOut ==
    /\ spc = "wait"
    /\ rflag \/ closed
    /\ timer \in {"raising", "done"}
    /\ TimerLeft
    /\ Close
    /\ spc' = "clear"
    /\ UNCHANGED <<ltVars, reg, callbackVars, ptsVars, sent, rsp, strays>>

(* No handler answers END_TEST_CASE, which would close the sender.          *)
ReadResponse ==
    /\ spc = "read"
    /\ rsp' = rval
    /\ spc' = "clear"
    /\ UNCHANGED <<ltVars, reg, callbackVars, ptsVars, responseVars, sent, timerVars>>

ClearResponse ==
    /\ spc = "clear"
    /\ rval' = None
    /\ spc' = "unset"
    /\ UNCHANGED <<ltVars, reg, callbackVars, ptsVars, closed, rflag, sent, rsp, timerVars>>

(* The event is cleared and the PTS gets the response.                     *)
ReturnResponse ==
    /\ spc = "unset"
    /\ rflag' = FALSE
    /\ rsp' = None
    /\ spc' = "out"
    /\ UNCHANGED <<ltVars, reg, callbackVars, ptsVars, closed, rval, sent, timerVars>>

-----------------------------------------------------------------------------
(* The steps an LT thread takes by itself once it is in the dialog.        *)
LTStep ==
    \/ StoppedExternally \/ Finished \/ NextRound
    \/ GetWakes \/ GetReads \/ ClearResult \/ ClearFlag
    \/ NoResponse \/ HandleWid \/ StepFails \/ Respond
    \/ CancelWid \/ StopTestCase \/ EndDialog \/ PostRun

PtsStep == TakeRequest \/ Reopened \/ RecoverPts \/ LookUpResult \/ SetResult

SenderStep ==
    \/ CallClient \/ ClientRefuses \/ ClosedMeanwhile
    \/ WaitEnds \/ WaitTimesOut
    \/ ReadResponse \/ ClearResponse \/ ReturnResponse

TimerStep == TimerExpires \/ RaiseTimeout \/ TimerSetsEvent

Next ==
    \/ Begin \/ StartRun \/ StartFails \/ LTStep \/ Stop \/ Interrupt
    \/ PtsStep \/ RunEnds \/ RunFails
    \/ Send \/ SenderStep \/ TimerStep \/ LateTimer

Spec == Init /\ [][Next]_vars

(* Threads run and timers expire.  The PTS need not end a run, and nobody  *)
(* need interrupt an LT thread: without --superguard there is no timeout.  *)
Fairness ==
    /\ WF_vars(LTStep)
    /\ WF_vars(PtsStep)
    /\ WF_vars(SenderStep)
    /\ WF_vars(TimerStep)

FairSpec == Spec /\ Fairness

-----------------------------------------------------------------------------
(* PROPERTIES *)

(* A retry began while a run of the test case it repeats was not over.     *)
TakesOver == \E k \in Retries : k <= test /\ verdict[k-1] # k - 1

Undisturbed == strays = 0 /\ ~TakesOver

(* The PTS never gets the answer to another WID, although answers carry no *)
(* identity, the LT answers whenever it is ready, even after the 90 s, and *)
(* a given-up run goes on while the next test case has begun.  Two things  *)
(* do break it: a timer that sets the event after its wait has ended, so   *)
(* that the next WID is answered before it is handled, and a retry that    *)
(* takes over the WIDs of a run of the same name that is not over.         *)
AnswersMatch ==
    Undisturbed /\ spc \in {"clear", "unset"} => rsp \in {None, sent}

(* Results carry no identity of their run, yet no verdict becomes the      *)
(* status of two test cases, none overtakes another, and a test case gets  *)
(* the verdict of an earlier one only if an LT thread has given up that    *)
(* one or one before it, which shifts the verdicts of all that follow.     *)
VerdictOrder ==
    \A k \in 1..MaxTests : verdict[k] # None =>
        /\ verdict[k] <= k
        /\ verdict[k] # k => \E g \in gaveUp : g <= verdict[k]
        /\ \A i \in 1..k-1 : verdict[i] < verdict[k]

(* The status of a test case is the verdict of its own run, as the comment *)
(* "Wait for the test case result" of the LT loop has it.                  *)
VerdictOwn ==
    \A k \in 1..MaxTests : verdict[k] \in {None, k}

(* The PTS is never stuck in OnImplicitSend, whatever the LT does: a       *)
(* response, a timeout or the closing of the sender ends the wait.         *)
SenderReturns == spc = "wait" ~> spc = "out"

(* A verdict that comes while the LT waits with no step left is taken.     *)
VerdictTaken ==
    (ppc = "set" /\ target = cell /\ run = test /\ lpc = "wait" /\ steps = <<>>)
        ~> (lpc \notin Loop \/ verdict[test] = test)

(* A verdict that is set for the running test case ends its loop, at least *)
(* with the last step done: get_result is to return what was set.          *)
VerdictReaches ==
    (ppc = "set" /\ target = cell /\ run = test /\ lpc \in Loop)
        ~> (lpc \notin Loop \/ verdict[test] # None)
-----------------------------------------------------------------------------
(* THE INDUCTIVE INVARIANT behind VerdictOrder.                            *)

Requested == {requests[j] : j \in 1..Len(requests)}

(* The runs whose verdict may still become the status of a test case, in   *)
(* the order in which it would: seen, vres, run, and those requested.      *)
Pending == ({seen, vres} \ {None}) \cup (IF ppc = "idle" THEN {} ELSE {run}) \cup Requested

PhaseOK ==
    /\ lpc # "idle" => test # 0
    /\ \A k \in 1..MaxTests : verdict[k] # None => k <= test
    /\ lpc \in {"start", "wait", "read", "clear", "unset"} => ~Finishing
    /\ seen # None => lpc \in {"clear", "unset"}

LineOK ==
    /\ seen # None /\ vres # None => IF lpc = "unset" THEN seen < vres ELSE seen <= vres
    /\ ppc # "idle" => seen < run /\ vres < run
    /\ \A j \in 1..Len(requests) :
          /\ seen < requests[j] /\ vres < requests[j]
          /\ ppc # "idle" => run < requests[j]
          /\ \A i \in 1..j-1 : requests[i] < requests[j]

InTime == \A r \in Pending : IF lpc = "start" THEN r < test ELSE r <= test

Fresh == \A r \in Pending : \A k \in 1..MaxTests : verdict[k] < r

(* Whoever takes a verdict next may: it is his, or somebody had given up.  *)
Entitled ==
    \A r \in Pending :
        \/ r = test /\ lpc \notin {"idle", "start", "post"}
        \/ \E g \in gaveUp : g <= r

VerdictInv ==
    TypeOK /\ PhaseOK /\ LineOK /\ InTime /\ Fresh /\ Entitled /\ VerdictOrder
-----------------------------------------------------------------------------
(* THE INDUCTIVE INVARIANT behind AnswersMatch; it rests on VerdictInv.    *)

SenderOK ==
    /\ spc # "out" => ppc = "run"
    /\ timer # "off" => spc = "wait"
    /\ spc \notin {"clear", "unset"} => rsp = None
    /\ answer # None <=> lpc = "respond"

RunOK ==
    /\ IF lpc = "start" THEN run < test ELSE run <= test
    /\ \A j \in 1..Len(requests) : run < requests[j]

Queued == {steps[j] : j \in 1..Len(steps)} \ {None}
Outstanding == Queued \cup ({answer} \ {None})

(* The sender will not send another WID in this run, or it is still        *)
(* waiting for the answer to this one and has no reason to go on.          *)
SenderDone == closed \/ ppc \notin {"reopen", "run"}
Awaited == spc = "wait" /\ (rflag => timer \in {"raising", "done"})

(* The LT thread has at most one WID to answer: the last one sent.         *)
OneWid ==
    Undisturbed /\ lpc \in Loop \cup {"start"} =>
        /\ \A w \in Outstanding : w = sent /\ run = test /\ (SenderDone \/ Awaited)
        /\ answer # None => Queued = {}
        /\ \A i, j \in 1..Len(steps) : steps[i] # None /\ steps[j] # None => i = j

ResponseOK ==
    Undisturbed /\ rval # None =>
        rval = sent /\ (SenderDone \/ spc \in {"wait", "read", "clear"})

NoStaleFlag ==
    Undisturbed /\ lpc \in Loop /\ run = test /\ ~SenderDone /\ ppc = "run"
        /\ spc \in {"out", "call"} => ~rflag

AnswerInv ==
    SenderOK /\ RunOK /\ OneWid /\ ResponseOK /\ NoStaleFlag /\ AnswersMatch

(* What the steps of the LT thread, of the PTS thread and of the sender    *)
(* keep between them: pending verdicts are in the order of the runs, each  *)
(* for its own test case or behind one given up, and a WID that is not     *)
(* answered yet is the last one sent, awaited or never to be followed.     *)
DialogInv == VerdictInv /\ AnswerInv
=============================================================================
