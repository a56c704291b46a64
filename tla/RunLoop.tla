------------------------------ MODULE RunLoop ------------------------------
(***************************************************************************)
(* The run of a list of test cases (run_test_cases and run_test_case of    *)
(* autopts/client.py): the main thread starts an LT thread per PTS         *)
(* instance of a test case, waits for all of them, for the first that      *)
(* fails or for the superguard, interrupts those still alive, joins them,  *)
(* and decides from the statuses whether to recover and to run again.      *)
(*                                                                         *)
(* An LT thread (LTThread) registers its test case, sets up, waits for the *)
(* others, starts the test case of its PTS, answers WIDs until there is a  *)
(* verdict, and cleans up.  An interrupt is a KeyboardInterrupt that the   *)
(* main thread injects while it holds the interrupt_lock of the LT; it is  *)
(* raised at the next step of the LT.                                      *)
(*                                                                         *)
(* External: PTS, which asks WIDs and gives a verdict when it likes, and   *)
(* what the handlers of WidHandlers do besides what their class says.      *)
(* The barriers of autopts/ptsprojects/stack/synch.py are modelled in      *)
(* Synch, a verdict of a run that was given up in WidDialog, Ctrl+C and a  *)
(* test case without profile not at all.                                   *)
(***************************************************************************)
EXTENDS Naturals, Sequences, FiniteSets, SequencesExt

CONSTANTS
    Width,       \* for each test case of the list the number of its LTs
    Ptses,       \* how many PTS instances there are
    Handlers,    \* WID handlers, by class (see WidHandlers)
    Verdicts,    \* what PTS ends a test case with: PASS and others
    Retry,       \* args.retry
    StressTest,  \* args.stress_test: a pass does not end the retries
    RepeatUntilFailed,
    MaxWids,     \* bound: WIDs per LT and run
    MaxBroken    \* bound: failures of setting up and cleaning up of the IUT

ASSUME WidthAssumption == Width \in Seq(Nat \ {0}) /\ Width # <<>>
ASSUME PtsesAssumption == Ptses \in Nat \ {0}
ASSUME VerdictsAssumption == "PASS" \in Verdicts /\ "none" \notin Verdicts
ASSUME BoundAssumption == MaxWids \in Nat /\ MaxBroken \in Nat

VARIABLES
    main,       \* where the main thread is
    tc,         \* the test case it runs, by its place in the list
    attempt,    \* stats.run_count
    at,         \* the LT thread it is interrupting
    superguard, \* the superguard timed out in this run
    recorded,   \* the status of the last run of each test case
    lt,         \* where each LT thread is
    lock,       \* who holds its interrupt_lock
    pending,    \* an injected KeyboardInterrupt that is not raised yet
    err,        \* error_code
    peer,       \* the PTS of an LT in its loop: what it does, steps_queue, how
                \* many WIDs it has asked, and _results["run_test_case"]
    looked,     \* size of RUNNING_TEST_CASE when the LT began to iterate over it, else 0
    state, status, \* of the test case objects
    running,    \* RUNNING_TEST_CASE: its keys, in the order of insertion
    finish,     \* finish_count: the counter and the flag
    exceptions, \* the queue of exceptions: how many
    breaks,     \* failures of setting up and cleaning up so far
    own,        \* history: the verdict an LT took in this run
    cutShort,   \* history: LTs that never cleaned up because another one did
                \* while they looked at RUNNING_TEST_CASE
    leftOver    \* history: test cases whose LT ended before it had cleaned up

LTs == UNION {1 .. Width[t] : t \in DOMAIN Width}
Names == {n \in (DOMAIN Width) \X LTs : n[2] <= Width[n[1]]}
Name(i) == <<tc, i>>
Active == 1 .. Width[tc]
Alive(i) == lt[i] # "dead"

mainVars == <<main, tc, attempt, at, superguard, recorded>>
cases    == <<state, status, running>>
vars == <<mainVars, lt, lock, pending, err, peer, looked, cases, finish,
          exceptions, breaks, own, cutShort, leftOver>>

(* A WID of which no module of the project has a handler.                   *)
Missing == [asks |-> FALSE, waits |-> "no", found |-> FALSE]
(* PTS does not wait longer than 90 s for an answer.                        *)
Slow(h) == h.waits = "slow"

(* What PTS does when its LT has left the loop is modelled in WidDialog.     *)
NoPeer == [pts |-> "idle", steps |-> <<>>, wids |-> 0, verdict |-> "none"]

(* Where the interrupt_lock is held, where WIDs are answered, and where an  *)
(* exception passes post_run by.                                            *)
Working == {"loop", "await", "step"}
Starting == {"sync", "synclook", "start"}
Finishing == {"fin", "finsync", "finlook", "post"}
Places == Working \cup Starting \cup Finishing
            \cup {"begin", "pre", "except", "cancel", "inner", "dead"}
Codes == {"none", "ERROR", "MISSING WID ERROR"}
Statuses == Verdicts \cup Codes \cup {"init", "RUNNING", "SUPERGUARD TIMEOUT", "LT_NOT_AVAILABLE"}
States == {"none", "PRE_RUN", "RUNNING", "FINISHING", "E_FATAL_ERROR", "FINISHED"}

MainTypes ==
    /\ main \in {"prepare", "wait", "interrupt", "inject", "join", "decide", "done"}
    /\ tc \in DOMAIN Width /\ attempt \in Nat /\ at \in Nat \ {0} /\ superguard \in BOOLEAN
    /\ recorded \in [DOMAIN Width -> Statuses]
    /\ finish \in [count : Nat, flag : BOOLEAN]
    /\ exceptions \in Nat /\ breaks \in 0 .. MaxBroken
ThreadTypes ==
    /\ lt \in [LTs -> Places]
    /\ lock \in [LTs -> {"free", "lt", "main"}]
    /\ pending \in [LTs -> BOOLEAN]
    /\ err \in [LTs -> Codes]
    /\ looked \in [LTs -> Nat]
    /\ own \in [LTs -> Verdicts \cup {"none"}]
    /\ cutShort \subseteq LTs
CaseTypes ==
    /\ state \in [Names -> States] /\ status \in [Names -> Statuses]
    /\ running \in Seq(Names)
    /\ leftOver \subseteq Names
Peers == [pts : {"idle", "runs", "asks"}, steps : Seq(Handlers \cup {Missing}),
          wids : 0 .. MaxWids, verdict : Verdicts \cup {"none"}]
PeerTypes ==
    /\ peer \in [LTs -> Peers]
    /\ \A i \in LTs : lt[i] \notin Working => peer[i] = NoPeer
Types == MainTypes /\ ThreadTypes /\ CaseTypes /\ PeerTypes

Going == main \in {"wait", "interrupt", "inject", "join"}

(* An interrupt waits for the lock, and finish_count is of the threads that *)
(* have ended.                                                              *)
HeldOK == \A i \in LTs : lock[i] = "main" => main = "inject" /\ at = i
CountOK == Going => finish.count = Cardinality({i \in Active : ~Alive(i)})

TypeOK == Types /\ HeldOK /\ CountOK

Init ==
    /\ main = "prepare" /\ tc = 1 /\ attempt = 0 /\ at = 1 /\ superguard = FALSE
    /\ recorded = [t \in DOMAIN Width |-> "none"]
    /\ lt = [i \in LTs |-> "dead"]
    /\ lock = [i \in LTs |-> "free"]
    /\ pending = [i \in LTs |-> FALSE]
    /\ err = [i \in LTs |-> "none"]
    /\ peer = [i \in LTs |-> NoPeer]
    /\ looked = [i \in LTs |-> 0]
    /\ state = [n \in Names |-> "none"] /\ status = [n \in Names |-> "init"]
    /\ running = <<>>
    /\ finish = [count |-> 0, flag |-> FALSE]
    /\ exceptions = 0 /\ breaks = 0
    /\ own = [i \in LTs |-> "none"] /\ cutShort = {} /\ leftOver = {}

-----------------------------------------------------------------------------
(* The LT threads.                                                          *)

Goto(i, place) == lt' = [lt EXCEPT ![i] = place]
SetState(i, s) == state' = [state EXCEPT ![Name(i)] = s]
SetStatus(i, s) == status' = [status EXCEPT ![Name(i)] = s]
SetErr(i, e) == err' = [err EXCEPT ![i] = e]
TryLock(i) == lock' = IF lock[i] = "free" THEN [lock EXCEPT ![i] = "lt"] ELSE lock
Fails(i, e) == SetErr(i, e) /\ Goto(i, "fin")

(* run: the thread counts itself and releases the lock if it holds it.      *)
Ends(i) ==
    /\ Goto(i, "dead")
    /\ finish' = [finish EXCEPT !.count = @ + 1]
    /\ lock' = IF lock[i] = "lt" THEN [lock EXCEPT ![i] = "free"] ELSE lock

(* Mutant: the thread sets up without its interrupt_lock.                   *)
BeginUnlocked(i) ==
    /\ lt[i] = "begin" /\ ~pending[i] /\ lock[i] = "free"
    /\ running' = IF Contains(running, Name(i)) THEN running ELSE Append(running, Name(i))
    /\ SetState(i, "PRE_RUN")
    /\ Goto(i, "pre")
    /\ UNCHANGED <<mainVars, lock, pending, err, peer, looked, status, finish,
                   exceptions, breaks, own, cutShort, leftOver>>

Begin(i) ==
    /\ lt[i] = "begin" /\ ~pending[i] /\ lock[i] = "free"
    /\ lock' = [lock EXCEPT ![i] = "lt"]
    /\ running' = IF Contains(running, Name(i)) THEN running ELSE Append(running, Name(i))
    /\ SetState(i, "PRE_RUN")
    /\ Goto(i, "pre")
    /\ UNCHANGED <<mainVars, pending, err, peer, looked, status, finish,
                   exceptions, breaks, own, cutShort, leftOver>>

(* test_case.pre_run(), which starts the IUT and may fail.                  *)
PreRun(i) ==
    /\ lt[i] = "pre" /\ ~pending[i]
    /\ \/ /\ SetStatus(i, "RUNNING") /\ SetState(i, "RUNNING")
          /\ lock' = [lock EXCEPT ![i] = "free"]
          /\ Goto(i, "sync")
          /\ UNCHANGED <<err, breaks>>
       \/ /\ breaks < MaxBroken /\ breaks' = breaks + 1
          /\ Fails(i, "ERROR")
          /\ UNCHANGED <<lock, state, status>>
    /\ UNCHANGED <<mainVars, pending, peer, looked, running, finish, exceptions,
                   own, cutShort, leftOver>>

(* synchronize_instances: a look is an iteration over RUNNING_TEST_CASE,    *)
(* which raises RuntimeError when the dictionary has another size than when *)
(* it began.                                                                *)
Look(i) ==
    /\ \/ lt[i] = "sync" /\ Goto(i, "synclook")
       \/ lt[i] = "finsync" /\ Goto(i, "finlook")
    /\ ~pending[i]
    /\ looked' = [looked EXCEPT ![i] = Len(running)]
    /\ UNCHANGED <<mainVars, lock, pending, err, peer, cases, finish, exceptions,
                   breaks, own, cutShort, leftOver>>

Changed(i) == Len(running) # looked[i]
Others(s) == {k \in DOMAIN running : state[running[k]] # s}
InSync(s) == Others(s) = {}
GivesUp(s, breakState) ==
    ~InSync(s) /\ (state[running[Min(Others(s))]] \in breakState \/ finish.flag)

SyncLook(i) ==
    /\ lt[i] = "synclook" /\ ~pending[i]
    /\ IF Changed(i) \/ GivesUp("RUNNING", {"FINISHED"})
       THEN Fails(i, "ERROR")
       ELSE Goto(i, IF InSync("RUNNING") THEN "start" ELSE "sync") /\ UNCHANGED err
    /\ looked' = [looked EXCEPT ![i] = 0]
    /\ UNCHANGED <<mainVars, lock, pending, peer, cases, finish, exceptions,
                   breaks, own, cutShort, leftOver>>

(* pts.run_test_case: WAIT, or the server refuses.                          *)
StartTestCase(i) ==
    /\ lt[i] = "start" /\ ~pending[i]
    /\ \/ /\ Goto(i, "loop") /\ peer' = [peer EXCEPT ![i].pts = "runs"]
          /\ UNCHANGED <<err, breaks>>
       \/ /\ breaks < MaxBroken /\ breaks' = breaks + 1
          /\ Fails(i, "ERROR") /\ UNCHANGED peer
    /\ UNCHANGED <<mainVars, lock, pending, looked, cases, finish,
                   exceptions, own, cutShort, leftOver>>

(* The loop looks at the flag only between two steps.                       *)
Leaves(i, place) == Goto(i, place) /\ peer' = [peer EXCEPT ![i] = NoPeer]

Loop(i) ==
    LET waits == state[Name(i)] = "RUNNING"
        done  == finish.flag \/ (~waits /\ peer[i].steps = <<>>)
    IN  /\ lt[i] = "loop" /\ ~pending[i]
        /\ IF done THEN Leaves(i, "inner")
                   ELSE Goto(i, IF waits THEN "await" ELSE "step") /\ UNCHANGED peer
        /\ UNCHANGED <<mainVars, lock, pending, err, looked, cases, finish, exceptions,
                       breaks, own, cutShort, leftOver>>

(* get_result ends with a verdict or with a step to do.                     *)
Await(i) ==
    LET v == peer[i].verdict
    IN  /\ lt[i] = "await" /\ ~pending[i]
        /\ v # "none" \/ peer[i].steps # <<>>
        /\ IF v = "none"
           THEN UNCHANGED <<state, status, own>>
           ELSE /\ SetStatus(i, v) /\ SetState(i, "FINISHING")
                /\ own' = [own EXCEPT ![i] = v]
        /\ peer' = [peer EXCEPT ![i].verdict = "none"]
        /\ Goto(i, IF peer[i].steps = <<>> THEN "loop" ELSE "step")
        /\ UNCHANGED <<mainVars, lock, pending, err, looked, running, finish, exceptions,
                       breaks, cutShort, leftOver>>

(* run_next_step and set_wid_response: the handler answers, raises a BTP    *)
(* error, or there is none.                                                 *)
Answered(i) == IF peer[i].pts = "asks" THEN "runs" ELSE peer[i].pts

Step(i) ==
    LET h == Head(peer[i].steps)
    IN  /\ lt[i] = "step" /\ ~pending[i]
        /\ \/ /\ h # Missing
              /\ peer' = [peer EXCEPT ![i].steps = Tail(@), ![i].pts = Answered(i)]
              /\ Goto(i, "loop")
              /\ UNCHANGED err
           \/ /\ h = Missing \/ h.asks
              /\ SetErr(i, IF h = Missing THEN "MISSING WID ERROR" ELSE "ERROR")
              /\ Leaves(i, "except")
        /\ UNCHANGED <<mainVars, lock, pending, looked, cases, finish, exceptions,
                       breaks, own, cutShort, leftOver>>

(* except: the lock is taken only if it is free at this moment; then        *)
(* exceptions.put, set_wid_response("Cancel") and stop_test_case, which may *)
(* raise: what is left is then skipped, but not the finally.                *)
Except(i) ==
    /\ lt[i] = "except" /\ ~pending[i]
    /\ TryLock(i)
    /\ Goto(i, "cancel")
    /\ UNCHANGED <<mainVars, pending, err, peer, looked, cases, finish, exceptions,
                   breaks, own, cutShort, leftOver>>

Cancel(i) ==
    /\ lt[i] = "cancel" /\ ~pending[i]
    /\ exceptions' = exceptions + 1
    /\ \/ Goto(i, "inner") /\ UNCHANGED <<lock, err, breaks>>
       \/ /\ breaks < MaxBroken /\ breaks' = breaks + 1
          /\ TryLock(i) /\ Fails(i, "ERROR")
    /\ UNCHANGED <<mainVars, pending, peer, looked, cases, finish, own, cutShort, leftOver>>

(* finally: the lock again; then the flag, and an error of the callback     *)
(* thread.                                                                  *)
Inner(i) ==
    /\ lt[i] = "inner" /\ ~pending[i]
    /\ TryLock(i)
    /\ IF finish.flag THEN SetState(i, "E_FATAL_ERROR") ELSE UNCHANGED state
    /\ \/ UNCHANGED <<err, breaks>>
       \/ breaks < MaxBroken /\ breaks' = breaks + 1 /\ SetErr(i, "ERROR")
    /\ Goto(i, "fin")
    /\ UNCHANGED <<mainVars, pending, peer, looked, status, running, finish, exceptions,
                   own, cutShort, leftOver>>

Fin(i) ==
    /\ lt[i] = "fin" /\ ~pending[i]
    /\ SetState(i, "FINISHED")
    /\ IF status[Name(i)] # "PASS"
       THEN finish' = [finish EXCEPT !.flag = TRUE] /\ Goto(i, "post")
       ELSE Goto(i, "finsync") /\ UNCHANGED finish
    /\ UNCHANGED <<mainVars, lock, pending, err, peer, looked, status, running, exceptions,
                   breaks, own, cutShort, leftOver>>

(* The finished LTs wait for the others; an exception passes post_run by.   *)
FinLook(i) ==
    /\ lt[i] = "finlook" /\ ~pending[i]
    /\ IF Changed(i)
       THEN /\ Ends(i)
            /\ exceptions' = exceptions + 1
            /\ leftOver' = leftOver \cup {Name(i)}
            /\ cutShort' = IF Len(running) < looked[i] THEN cutShort \cup {i} ELSE cutShort
       ELSE /\ Goto(i, IF InSync("FINISHED") \/ GivesUp("FINISHED", {}) THEN "post" ELSE "finsync")
            /\ UNCHANGED <<lock, finish, exceptions, leftOver, cutShort>>
    /\ looked' = [looked EXCEPT ![i] = 0]
    /\ UNCHANGED <<mainVars, pending, err, peer, cases, breaks, own>>

(* post_run: the status, then the commands that clean up.                   *)
SetCode(i) == IF err[i] = "none" THEN UNCHANGED status ELSE SetStatus(i, err[i])

(* Mutant: the test case stays in RUNNING_TEST_CASE.                        *)
PostRunKeeps(i) ==
    /\ lt[i] = "post" /\ ~pending[i]
    /\ SetCode(i)
    /\ leftOver' = leftOver \ {Name(i)}
    /\ Ends(i)
    /\ UNCHANGED <<mainVars, pending, err, peer, looked, state, running, exceptions, breaks, own, cutShort>>

PostRun(i) ==
    /\ lt[i] = "post" /\ ~pending[i]
    /\ SetCode(i)
    /\ running' = RemoveAt(running, CHOOSE k \in DOMAIN running : running[k] = Name(i))
    /\ leftOver' = leftOver \ {Name(i)}
    /\ Ends(i)
    /\ UNCHANGED <<mainVars, pending, err, peer, looked, state, exceptions, breaks, own, cutShort>>

(* Cleaning up may fail; then the test case stays in RUNNING_TEST_CASE.     *)
PostRunFails(i) ==
    /\ lt[i] = "post" /\ ~pending[i]
    /\ breaks < MaxBroken /\ breaks' = breaks + 1
    /\ SetCode(i)
    /\ exceptions' = exceptions + 1
    /\ leftOver' = leftOver \cup {Name(i)}
    /\ Ends(i)
    /\ UNCHANGED <<mainVars, pending, err, peer, looked, state, running, own, cutShort>>

-----------------------------------------------------------------------------
(* The injected KeyboardInterrupt.                                          *)

Raised(i) == /\ pending[i] /\ pending' = [pending EXCEPT ![i] = FALSE]
             /\ looked' = [looked EXCEPT ![i] = 0]
             /\ UNCHANGED <<mainVars, state, running, breaks, own, cutShort>>

(* Not yet in _run_test_case: nothing to clean up.                          *)
InterruptBegin(i) ==
    /\ lt[i] = "begin" /\ Raised(i)
    /\ Ends(i)
    /\ UNCHANGED <<err, peer, status, exceptions, leftOver>>

(* Outside the inner try, where the lock is not taken, or in its finally.   *)
InterruptOuter(i) ==
    /\ lt[i] \in Starting \cup {"pre", "inner"} /\ Raised(i)
    /\ Fails(i, "ERROR")
    /\ (lt[i] = "inner" /\ TryLock(i)) \/ UNCHANGED lock
    /\ UNCHANGED <<peer, status, finish, exceptions, leftOver>>

InterruptWork(i) ==
    /\ lt[i] \in Working /\ Raised(i)
    /\ SetErr(i, "ERROR") /\ Leaves(i, "except")
    /\ UNCHANGED <<lock, status, finish, exceptions, leftOver>>

(* Ignored while the lock is tried, which is not taken.                     *)
InterruptExcept(i) ==
    /\ lt[i] = "except" /\ Raised(i)
    /\ Goto(i, "cancel")
    /\ UNCHANGED <<lock, err, peer, status, finish, exceptions, leftOver>>

(* Before or after exceptions.put.                                          *)
InterruptCancel(i) ==
    /\ lt[i] = "cancel" /\ Raised(i)
    /\ TryLock(i) /\ Fails(i, "ERROR")
    /\ exceptions' \in {exceptions, exceptions + 1}
    /\ UNCHANGED <<peer, status, finish, leftOver>>

(* In the outer finally: the rest of it is left out, or of post_run, before *)
(* or after it has set the status.                                          *)
InterruptFinally(i) ==
    /\ lt[i] \in Finishing /\ Raised(i)
    /\ (lt[i] = "post" /\ SetCode(i)) \/ UNCHANGED status
    /\ Ends(i)
    /\ leftOver' = leftOver \cup {Name(i)}
    /\ UNCHANGED <<err, peer, exceptions>>

Interrupted(i) ==
    \/ InterruptBegin(i) \/ InterruptOuter(i) \/ InterruptWork(i)
    \/ InterruptExcept(i) \/ InterruptCancel(i) \/ InterruptFinally(i)

LT(i) ==
    \/ Begin(i) \/ PreRun(i) \/ Look(i) \/ SyncLook(i) \/ StartTestCase(i)
    \/ Loop(i) \/ Await(i) \/ Step(i) \/ Except(i) \/ Cancel(i) \/ Inner(i)
    \/ Fin(i) \/ FinLook(i) \/ PostRun(i) \/ PostRunFails(i)
    \/ Interrupted(i)

-----------------------------------------------------------------------------
(* PTS, towards an LT that listens to it.                                   *)

PtsStep(i) ==
    /\ lt[i] \in Working
    /\ UNCHANGED <<mainVars, lt, lock, pending, err, looked, cases, finish, exceptions,
                   breaks, own, cutShort, leftOver>>

Ask(i, h) ==
    /\ peer[i].pts = "runs" /\ peer[i].wids < MaxWids
    /\ peer' = [peer EXCEPT ![i].pts = "asks", ![i].wids = @ + 1, ![i].steps = Append(@, h)]
    /\ PtsStep(i)

(* OnImplicitSend gives a slow handler up.                                  *)
AskTimesOut(i) ==
    /\ peer[i].pts = "asks" /\ Slow(Head(peer[i].steps))
    /\ peer' = [peer EXCEPT ![i].pts = "runs"]
    /\ PtsStep(i)

GiveVerdict(i, v) ==
    /\ peer[i].pts = "runs"
    /\ peer' = [peer EXCEPT ![i].pts = "idle", ![i].verdict = v]
    /\ PtsStep(i)

PTS(i) ==
    \/ \E h \in Handlers \cup {Missing} : Ask(i, h)
    \/ AskTimesOut(i)
    \/ \E v \in Verdicts : GiveVerdict(i, v)

-----------------------------------------------------------------------------
(* The main thread.                                                         *)

threads == <<lt, lock, pending, err, peer, looked, own, cutShort, breaks>>

(* Every LT gets a test case that is reset, and a thread; with too few PTS  *)
(* instances none does.                                                     *)
Prepare ==
    /\ main = "prepare"
    /\ superguard' = FALSE /\ finish' = [count |-> 0, flag |-> FALSE]
    /\ own' = [i \in LTs |-> "none"] /\ cutShort' = {}
    /\ \/ /\ Width[tc] <= Ptses
          /\ main' = "wait"
          /\ state' = [n \in Names |-> IF n[1] = tc THEN "none" ELSE state[n]]
          /\ status' = [n \in Names |-> IF n[1] = tc THEN "init" ELSE status[n]]
          /\ lt' = [i \in LTs |-> IF i \in Active THEN "begin" ELSE "dead"]
          /\ lock' = [i \in LTs |-> "free"]
          /\ err' = [i \in LTs |-> "none"]
          /\ UNCHANGED recorded
       \/ /\ Width[tc] > Ptses
          /\ main' = "decide"
          /\ recorded' = [recorded EXCEPT ![tc] = "LT_NOT_AVAILABLE"]
          /\ UNCHANGED <<state, status, lt, lock, err>>
    /\ UNCHANGED <<tc, attempt, at, pending, peer, looked, running, exceptions, breaks, leftOver>>

(* Mutant: the LTs that wait for each other are not told.                   *)
WakesSilently(timeout) ==
    /\ main = "wait" /\ main' = "interrupt"
    /\ superguard' = timeout
    /\ UNCHANGED <<tc, attempt, at, recorded, threads, cases, finish, exceptions, leftOver>>

Wakes(timeout) ==
    /\ main = "wait" /\ main' = "interrupt"
    /\ superguard' = timeout
    /\ finish' = [finish EXCEPT !.flag = TRUE]
    /\ UNCHANGED <<tc, attempt, at, recorded, threads, cases, exceptions, leftOver>>

Wake == (finish.count = Width[tc] \/ finish.flag) /\ Wakes(FALSE)
Superguard == Wakes(TRUE)

(* thread.interrupt() of one thread after the other.                        *)
Interrupt ==
    /\ main = "interrupt"
    /\ \/ /\ at <= Width[tc] /\ Alive(at) /\ lock[at] = "free"
          /\ lock' = [lock EXCEPT ![at] = "main"]
          /\ main' = "inject" /\ UNCHANGED at
       \/ /\ at <= Width[tc] /\ ~Alive(at)
          /\ at' = at + 1 /\ UNCHANGED <<main, lock>>
       \/ /\ at > Width[tc]
          /\ main' = "join" /\ at' = 1 /\ UNCHANGED lock
    /\ UNCHANGED <<tc, attempt, superguard, recorded, lt, pending, err, peer, looked, own, cutShort,
                   breaks, cases, finish, exceptions, leftOver>>

(* Mutant: the lock is not released.                                        *)
InjectLocked ==
    /\ main = "inject"
    /\ pending' = [pending EXCEPT ![at] = Alive(at)]
    /\ at' = at + 1 /\ main' = "interrupt"
    /\ UNCHANGED <<tc, attempt, superguard, recorded, lt, lock, err, peer, looked, own, cutShort,
                   breaks, cases, finish, exceptions, leftOver>>

Inject ==
    /\ main = "inject"
    /\ pending' = [pending EXCEPT ![at] = Alive(at)]
    /\ lock' = [lock EXCEPT ![at] = "free"]
    /\ at' = at + 1 /\ main' = "interrupt"
    /\ UNCHANGED <<tc, attempt, superguard, recorded, lt, err, peer, looked, own, cutShort, breaks,
                   cases, finish, exceptions, leftOver>>

(* The first status that is no PASS; the superguard sets that of LT1.       *)
FinalStatus == IF superguard THEN [status EXCEPT ![Name(1)] = "SUPERGUARD TIMEOUT"] ELSE status
(* Mutant: only LT1 counts.                                                 *)
ReportedFirst == FinalStatus[Name(1)]

Reported ==
    LET bad == {i \in Active : FinalStatus[Name(i)] # "PASS"}
    IN  IF bad = {} THEN "PASS" ELSE FinalStatus[Name(Min(bad))]

(* Mutant: the threads are not waited for.                                  *)
JoinAtOnce ==
    /\ main = "join"
    /\ main' = "decide"
    /\ status' = FinalStatus
    /\ recorded' = [recorded EXCEPT ![tc] = Reported]
    /\ UNCHANGED <<tc, attempt, at, superguard, threads, state, running, finish,
                   exceptions, leftOver>>

Join ==
    /\ main = "join"
    /\ \A i \in Active : ~Alive(i)
    /\ main' = "decide"
    /\ status' = FinalStatus
    /\ recorded' = [recorded EXCEPT ![tc] = Reported]
    /\ UNCHANGED <<tc, attempt, at, superguard, threads, state, running, finish,
                   exceptions, leftOver>>

(* The exceptions of the run are taken; then the next run of the test case, *)
(* or the next test case.                                                   *)
Again ==
    LET s == recorded[tc]
    IN  \/ RepeatUntilFailed /\ s = "PASS"
        \/ /\ attempt # Retry[tc]
           /\ s \in {"PASS", "MISSING WID ERROR"} => StressTest
Decide ==
    /\ main = "decide"
    /\ exceptions' = 0
    /\ \/ /\ Again /\ main' = "prepare" /\ UNCHANGED tc
          /\ attempt' = IF RepeatUntilFailed /\ recorded[tc] = "PASS" THEN attempt ELSE attempt + 1
       \/ /\ ~Again /\ tc < Len(Width)
          /\ main' = "prepare" /\ tc' = tc + 1 /\ attempt' = 0
       \/ /\ ~Again /\ tc = Len(Width)
          /\ main' = "done" /\ UNCHANGED <<tc, attempt>>
    /\ UNCHANGED <<at, superguard, recorded, threads, cases, finish, leftOver>>

Main == Prepare \/ Wake \/ Superguard \/ Interrupt \/ Inject \/ Join \/ Decide

Next == Main \/ \E i \in LTs : LT(i) \/ PTS(i)

(* Threads run and commands end.  PTS owes nobody a verdict, a handler may  *)
(* wait in a Barrier, and without --superguard no Timer is started.         *)
Handling(i) == lt[i] = "step"
Fairness ==
    /\ WF_vars(Main /\ ~Superguard)
    /\ \A i \in LTs : WF_vars(~Handling(i) /\ LT(i))
Spec == Init /\ [][Next]_vars /\ Fairness

-----------------------------------------------------------------------------
(* RUNNING_TEST_CASE holds exactly the test cases of the LTs that run and   *)
(* those whose clean-up was cut short: a finished LT without trouble leaves *)
(* nothing that would stop the synchronization of later test cases.         *)
Registered ==
    \A n \in Names :
        Contains(running, n) <=>
            \/ n[1] = tc /\ lt[n[2]] \notin {"begin", "dead"}
            \/ n \in leftOver

(* A test case is reported as passed only if every LT of the run took the   *)
(* verdict PASS in this run, met no error, and the superguard kept quiet.   *)
(* The error of an LT is lost if another one takes itself out of            *)
(* RUNNING_TEST_CASE during its last look: post_run is passed by.           *)
PassHonest ==
    main = "decide" /\ recorded[tc] = "PASS" =>
        /\ ~superguard
        /\ \A i \in Active : own[i] = "PASS" /\ (err[i] = "none" \/ i \in cutShort)

(* Nothing of a run goes on when the next one begins: the LT threads have   *)
(* ended, no interrupt is under way that would hit a thread of the next     *)
(* run, and the locks are free.                                             *)
RunsApart ==
    main \in {"prepare", "decide", "done"} =>
        \A i \in LTs : ~Alive(i) /\ ~pending[i] /\ lock[i] # "main"

(* An interrupt never hits test_case.pre_run(): "Acquire the lock to        *)
(* prevent breaking pre- or post-test-case steps" (LTThread.interrupt).     *)
RaisedIn(i, places) == pending[i] /\ ~pending'[i] /\ lt[i] \in places
PreRunWhole == [][\A i \in LTs : ~RaisedIn(i, {"pre"})]_vars

(* An interrupt never hits test_case.post_run(), by the same comment.       *)
PostRunWhole == [][\A i \in LTs : ~RaisedIn(i, {"post"})]_vars

(* Every list of test cases comes to an end, whatever PTS does, if the      *)
(* handlers return and the main thread never waits for ever: an LT fails,   *)
(* all have ended, or the superguard, which is off by default, times out.   *)
(* From then on no LT waits for a verdict, for another LT or for a lock.    *)
RunEnds ==
    []<>(main # "wait") /\ (\A i \in LTs : []<>(~Handling(i))) => <>(main = "done")

-----------------------------------------------------------------------------
(* The inductive invariant behind them (RunLoopProofs).                     *)

(* LT threads exist only during a run.  The main thread injects with the    *)
(* lock of the LT in its hands, and an LT in pre_run holds its own.         *)
LocksOK ==
    /\ \A i \in LTs : Alive(i) => Going /\ i \in Active
    /\ main = "inject" => at \in Active /\ lock[at] = "main"
    /\ \A i \in LTs : pending[i] => Alive(i) /\ main # "wait"
    /\ \A i \in LTs : lt[i] = "pre" => lock[i] = "lt" /\ ~pending[i]

(* A test case is in RUNNING_TEST_CASE once.                                *)
RunningOK == \A k, l \in DOMAIN running : running[k] = running[l] => k = l

(* An LT that will not pass: it is past its verdict without PASS, or it has *)
(* begun after another one had finished, which it now waits for in vain.    *)
Lost(j) == lt[j] \in {"post", "dead"} /\ status[Name(j)] # "PASS"
Barred(j) ==
    /\ lt[j] \in {"pre", "sync", "synclook", "fin", "post", "dead"}
    /\ status[Name(j)] # "PASS"
Bars(i) ==
    /\ Contains(running, Name(i)) /\ state[Name(i)] = "FINISHED"
    /\ lt[i] \in {"finsync", "finlook", "dead"}
AnyLost == \E j \in Active : Lost(j)
Doomed == AnyLost \/ \E i, j \in Active : Bars(i) /\ Barred(j)

(* An LT that ends with an error behind a PASS does so because another one  *)
(* will not pass or because of the superguard.                              *)
VerdictsOK ==
    Going =>
      /\ finish.flag => superguard \/ AnyLost \/ \A i \in Active : ~Alive(i)
      /\ main # "wait" => finish.flag
      /\ main = "wait" => ~superguard
      /\ \A i \in Active :
           /\ lt[i] \in Starting \cup {"begin", "pre"} => status[Name(i)] # "PASS"
           /\ state[Name(i)] = "FINISHED" =>
                  lt[i] \in (Finishing \ {"fin"}) \cup {"dead"}
           /\ lt[i] \in Finishing \ {"fin"} => state[Name(i)] = "FINISHED"
           /\ status[Name(i)] = "PASS" => own[i] = "PASS"
           /\ lt[i] = "finlook" /\ looked[i] < Len(running) => superguard \/ Doomed
           /\ lt[i] = "dead" /\ status[Name(i)] = "PASS" /\ err[i] # "none"
                  => superguard \/ Doomed \/ i \in cutShort

StepsOK == \A i \in LTs : lt[i] = "step" => peer[i].steps # <<>>

RunInv == /\ TypeOK /\ StepsOK /\ LocksOK /\ RunningOK /\ VerdictsOK
          /\ Registered /\ PassHonest
=============================================================================
