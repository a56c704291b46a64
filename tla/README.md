# Verification of auto-pts

auto-pts drives the Bluetooth SIG's Profile Tuning Suite (PTS, a Windows tool)
and an implementation under test (IUT) through conformance test cases.  This
directory holds TLA+ models of its concurrent core, TLC configurations that
check them on small instances, and theorems that TLAPS proves for every value of
the constants.  Paths below are relative to `src/`.

## The system

| Part | Code | State it keeps | Operations | Hard behaviour |
|---|---|---|---|---|
| Synchronisation of LT threads | `autopts/ptsprojects/stack/synch.py` | the synch table; per element two barriers, the active point, a done flag per point | add, wait_for_start, wait_for_end, cancel_synch | barriers, flags and list shared by all LT threads; cancel at any moment |
| WID and verdict dialog | `autopts/client.py` (ClientCallback, LTThread), `autopts/ptscontrol.py` (PTSSender, PyPTS.run_test_case), `autoptsserver.py` | steps queue, result objects, exception queue, request queue, pending response | on_implicit_send, run_next_step, set_wid_response, set_result, get_result, stop_test_case | two processes; time-outs, late answers, runs that cannot be stopped |
| Waiting primitives | `autopts/utils.py` | result, event, lock; timer threads | set, get, wait, clear; CounterWithFlag; InterruptableThread | clear in two steps; timers past cancelling |
| LT thread life cycle | `autopts/client.py` (LTThread, run_test_case, synchronize_instances) | RUNNING_TEST_CASE, finish_count, the interrupt lock, test case states | start, stop, interrupt, superguard | one LT's failure ends the others; injected KeyboardInterrupt |
| Run loop | `autopts/client.py` (run_test_cases, TestCaseRunStats) | results, retry counts, regressions | run, retry, recover | retry of a test case whose run is not over |
| PTS control | `autopts/ptscontrol.py` (PyPTS, PTSLogger) | recovery list, temporary changes, PTS and COM objects | set_pics/set_pixit, recover_pts, restart, stop | replay after a crash, exceptions half-way |
| PTS server | `autoptsserver.py` | request and response queues, superguard timer | dispatch blocking and nonblocking | stale responses, timer thread beside the PTS thread |
| BTP framing and worker | `autopts/pybtp/iutctl_common.py`, `parser.py` | receive queue, socket lock | send, read, send_wait_rsp | request/response pairing, partial frames |
| IUT control | `autopts/ptsprojects/iutctl.py` | socket, board, IUT-ready events | start, stop, wait_iut_ready_event | reset events across test cases |
| Stack state | `autopts/ptsprojects/stack/` | event queues per service | waits with a predicate | filled by the receiver thread, polled by handlers |
| BTP services | `autopts/pybtp/btp/` | none of their own | a function per command, a handler per event | which reader compares what; which store an event goes to |
| WID handlers | `autopts/wid/` | none of their own | one handler per WID | whether it talks to the IUT and waits longer than the PTS |
| Project tables | `autopts/ptsprojects/{zephyr,mynewt,bluez}/` | none | test cases and PIXIT values | none: data |
| Bot, cron, tools, boards | `autopts/bot/`, `tools/`, `autopts/ptsprojects/boards/` | files, processes | build, report, schedule | I/O |

A test case runs as one LT (lower tester) thread per PTS instance.  The thread
registers the test case in RUNNING_TEST_CASE, runs pre_run, waits until all LTs
are running, and asks its PTS (over XML-RPC) to run the test case.  The PTS
calls OnImplicitSend for every WID; the client queues a step for the LT thread
and the PTS waits for set_wid_response.  The handler of a WID may first have to
meet the other LTs at a synch element, and talks BTP to the IUT.  The PTS's
verdict comes as the result of the asynchronous run_test_case.

What makes these parts correct:
- synchronisation: the WIDs of an element are handled one at a time and in
  order, in rounds that all LTs begin and end together; a failure wakes everyone;
- dialog: an answer reaches the WID it answers, a verdict its test case, each
  once; nobody waits for ever;
- life cycle: a failed LT ends all, every thread ends, the registration is removed;
- PTS control and server: after a recovery the PTS has the settings set last;
  a blocking call gets its own reply;
- BTP: a response is that of the request; frames are cut where they were joined;
- IUT control: a test case starts on an IUT that is ready and that nobody has
  used since it booted, and at best with one reset.

## Modules

| Module | Models | State and code |
|---|---|---|
| `SynchAbs` | what a synch element promises | `phase[e][t]`, `ran[e]`: no variables of the code |
| `Synch` | `synch.py` and how LT threads use it | `heap`/`table`: list objects and the one that `_synch_table` names; `start`, `end`: the barriers; `done`: flags; `active`: active_synch_point; `iter`: the iterators of searches and cancels; `pc`, `cpc`: where a thread is in its dialog and in cancel_synch |
| `MCSynch` | instances of `Synch` for TLC | |
| `SynchProofs` | theorems about `Synch`: its properties, and that it implements `SynchAbs` | |
| `WidDialog` | one LT thread, its ClientCallback, the PTS thread and its PTSSender over several test cases | `lpc`, `steps`, `verdict`: the LT thread; `cell`, `vres`, `vflag`: the ResultWithFlag of run_test_case; `requests`, `ppc`, `run`: the PTS thread; `closed`, `rval`, `rflag`, `spc`, `timer`: PTSSender and its waiting; `late`: timers that outlived their wait |
| `WidProofs` | theorems about `WidDialog`: verdicts, then answers | |
| `RunLoopProofs`, `PtsProofs`, `BtpProofs`, `StackProofs`, `IutProofs` | theorems about `RunLoop`, `PtsServer`, `BtpWorker`, `StackEvents`, `IutCtl` | |
| `DataProofs` | lemmas about numbers and sequences that these share | |
| `WidHandlers` | every WID handler by class: no IUT, asks it, waits, waits longer than 90 s | one set of rows per part of a file of `autopts/wid/`; no state |
| `RunLoop` (`MCRunLoop`) | the list of test cases, the LT threads of a run, their PTS instances as far as a listening LT sees them | `main`, `tc`, `attempt`, `at`: the main thread in run_test_cases and run_test_case; `lt`, `lock`, `pending`, `err`: LT threads, interrupt_lock, injected KeyboardInterrupt, error_code; `state`, `status`, `running`: the test case objects and RUNNING_TEST_CASE; `finish`: finish_count; `looked`: the size of RUNNING_TEST_CASE when an iteration over it began; `peer`: the PTS of an LT |
| `PtsServer` (`MCPtsServer`) | `_dispatch`, the PTS thread with its two queues, PyPTS's recovery list and temporary changes, the superguard timer | `requests`, `replies`, `results`: the queues and the client's result objects; `pc`, `cur`, `index`, `tries`: the PTS thread; `pts`: PTS, its workspace and values; `recov`, `temp`, `flag`: _recov, _temp_changes, _recov_in_progress; `timer`, `killer`: the superguard, if there is one; `lost`: the call whose result was lost last |
| `BtpCommands` | every BTP command: how it sends, who reads its response and what the reader compares | one set of rows per part of a file of `autopts/pybtp/btp/`; no state |
| `BtpWorker` (`MCBtpWorker`) | BTPWorker and BTPSocket, and threads that run commands of `BtpCommands` | `requests`, `link`, `rx`, `rxq`: from the IUT to _rx_queue; `lock`; `pc`, `cmd`, `req`, `got`: the commands; `worker`: open to closed; `upset`: what has gone wrong |
| `StackStores` | every store of the stack that an event handler writes or a function waits for, with the way it is written and read | one set of rows per service; no state |
| `StackEvents` (`MCStackEvents`) | the receiver that fills a store of `StackStores`, LT threads that wait for it, Timers, stack.cleanup, the ..._init of the layer, the next test case, Ctrl+C | `row`: the store; `log`: the events received; `case`, `cleanups`: how many there were; `object`, `renewed`: which object the layer has and whether it was made in this test case; `store`, `known`: what the objects hold; `pc`, `wait`, `armed`, `outcome`: the waits |
| `IutCtl` | start, reset, wait_iut_ready_event and stop of IUTCtl over test cases, for a board and for a process | `queue`: how many IUT-ready events; `line`, `link`, `leaked`: how many are on the serial line, whether it is connected, and to a socket nobody closes; `iut`, `used`; `isRunning`; `pc`, `after`: the thread; `upset`: the faults so far |

Each action is one step between two points where another thread can interfere:
a lock is taken, an event is set or looked at, a shared list or attribute is
read or written.  `threading.Barrier` and the PTS itself are external: the
barrier is modelled from its documented behaviour (fill, action of the last
arrival, drain, broken for good after an abort), the PTS by what the code
accepts from it (it sends WIDs only while RunTestCase executes, one at a time;
RunTestCase returns between two of them, with a verdict or an exception).

Abstractions.  WIDs, LTs and elements are model values; responses are named by
the WID they answer and verdicts by the run they belong to, so that a mix-up is
visible although the code cannot see it.  A point's delay is a step that takes
as long as it likes.  A WID handler answers or raises.  In `Synch` a
KeyboardInterrupt reaches a thread anywhere but inside Barrier.wait.  In
`WidDialog` cleanup and registration are one step (a result that arrives
between them goes to the new result object in both), and an interrupt that hits
the except clause or the clean-up of a failing LT thread is left out there: it
is in `RunLoop`.  OnImplicitSend closes the sender when it is answered
END_TEST_CASE (`autopts/ptscontrol.py:278`); nothing in the repository answers
that, so `ReadResponse` does not.

`RunLoop` and `WidDialog` divide the LT loop: `RunLoop` keeps the threads, the
locks and the statuses of several LTs and lets a PTS ask and give a verdict to
an LT that listens; what a PTS does with an LT that does not is `WidDialog`'s.
The barriers of synchronised test cases are in `Synch` only.  `RunLoop` takes
the classes of handlers from `WidHandlers`, `BtpWorker` its commands from
`BtpCommands`, `StackEvents` its stores from `StackStores`: these three are
tables of the code's control (is there a send, a read, a wait, with which
comparison and time-out), read off the functions they map, and the composed
modules say what follows from each kind.  The rows are finer than the
properties: which row a command, handler or store has matters only through its
kind, and each module states which kinds its run instantiates.

In `RunLoop` the except clause of the LT loop is two steps, so an interrupt can
skip set_wid_response or stop_test_case, and stop_test_case may fail; the
deletion of an entry of RUNNING_TEST_CASE races with iterations of other LTs
that have begun (`FinLook`).  `PtsServer` and `RunLoop` leave open whether there
is a superguard: `--superguard` is 0 by default (`cliparser.py:125`,
`autoptsserver.py:327`) and then no Timer is started (`autopts/utils.py:139`,
`autoptsserver.py:288`).

In `BtpWorker` octets are not modelled: a frame is a header with or without data
behind it, and once a part of a frame was dropped the receiver may read
anything.  In `PtsServer` one PIXIT, one PICS and the call timeout stand for all:
the recovery list treats the names of a kind alike.

In `IutCtl` a reset is a step of its own (`Reset`): the program that performs it
runs for up to 20 s, so the receiver can act between queue.clear(), or the look
at the length of the queue, and the moment the board resets.  Events carry no
mark of their boot; `queue` and `line` only count them.  One assumption on time
is made: a boot is over or has failed before a wait of 30 s ends (`NotReady`,
`StopWaited`).  A boot that outlasts the flush of the serial line, which takes a
second, is one of the faults ("astray" in `upset`).  `upset` collects the kinds
of faults that have occurred: a boot or a reset that fails, an exception in
start, in the middle of a reset, in post_run or in stop ("cut"), a board that
resets itself in the body of a test case, and a boot that nobody knows of and
that is under way when the queue is cleared.

In `StackEvents` an object of a layer is renewed by `CleanUp` and `Initialise`
only where the code does so (`CleanedUp`, `Initialised`): stack.cleanup does not
know l2cap and keeps the queue of IUT-ready events, mesh_init keeps an object
there is.  The socket stays open from the clean-up until the IUT is stopped
(`autopts/ptsprojects/zephyr/ztestcase.py:44-49`), and a recovery cleans up once
more (`autopts/client.py:1740`), so events come at any time and the clean-ups
are counted apart from the test cases.  The channels of l2cap and their data are
one group that goes with the channel.  The handles of sdp have no row: a second
handle of an address nests the list of the first (`sdp.py:23`).

## What the runs check

| Run | Instance | Result |
|---|---|---|
| `SynchSafety` | 3 LTs, an element of three and one of two points in different orders (as in CSIP/CL/SPE/BI-01-C), each LT may fail at any moment and cancels once | TypeOK, TurnExclusive, TurnOrder, OwnPointDone hold; `Meets`: the threads implement SynchAbs |
| `SynchLiveness` | 2 LTs, one element in the table, a callback thread that cancels as well | the inductive invariant Inv; RoundEnds; FailureReleases |
| `SynchLeftBehind` | 2 LTs, two elements, a callback thread | NobodyLeftBehind is violated |
| `WidDialog` | 3 runs, the third a retry of the second, 2 WIDs of which one queues a deferred step; any number of stops, failures, time-outs | AnswersMatch, VerdictOrder, the inductive invariant DialogInv, SenderReturns and VerdictTaken hold |
| `WidStaleVerdict` | 2 test cases | VerdictOwn is violated |
| `WidLostVerdict` | 1 test case, 1 WID with a deferred step | VerdictReaches is violated |
| `RunLoop` | test cases of 2, 3 and 1 LTs on 2 PTSes, the second (which has too few PTSes) tried twice; a WID per LT and run, whose handler may fail, be slow or be missing; one failure of a set-up, stop or clean-up; the superguard at any time or never | Registered, PassHonest, RunsApart, the inductive invariant RunInv, PreRunWhole and RunEnds hold |
| `RunPostBroken` | the same | PostRunWhole is violated |
| `PtsServer` | 3 calls after the set-up out of all kinds; 2 attempts to start PTS; one call abandoned; results lost; with and without a superguard; client and server in one process | Settled, OwnReply, the inductive invariants ReplyInv and SettledInv, and Answered hold |
| `BtpWorker` | 2 threads, 2 requests, 1 event; a command of each style | Pairing, GetFinds, ResponseOrder, the inductive invariant BtpInv and LockReturned hold |
| `StackEvents` | 2 threads (interchangeable), 2 waits, 2 events with 2 keys; 2 test cases, 1 clean-up, 3 objects of the layer; stores of each way of writing and each way of reading | Conserved, PoppedInOrder, OfThisCase, the inductive invariant StackInv and HonestTimeout hold |
| `IutCtl` | 3 test cases with a reset in each, board and process, up to three faults of any kind | FreshIut (for the tolerated kinds), the inductive invariant IutInv and Ends hold |

The inductive invariant of a module is the one its proofs use; the type
invariant is a conjunct of it, so runs that check it do not list TypeOK again
(SettledInv is inductive beside ReplyInv, which has the types).

Bounds and why they suffice.  Three LTs are the most the program runs
(LT1 to LT3).  Elements are independent except for the list they share, so two
show every effect of removal and iteration; an LT may use an element again as
long as it is in the list, so rounds repeat without a bound.  One cancel per
thread: a second cancel of the same thread meets only the new list.  In
`WidDialog` three runs are the least in which a given-up run, a later one and a
retry of that are all different; two WIDs are the least for an answer to go to
the wrong one; every WID starts one timer, so time-outs need no bound.
`RunLoop`: two LTs meet every race of an LT with the main thread and with
another LT; the last test case, of one LT, is run on what the first left in
RUNNING_TEST_CASE, and the middle one takes the way without threads and the
retry.  One WID suffices, since the loop is the same for the next.
`PtsServer`: the set-up before the three calls records a workspace and a PIXIT;
a setting, a test case with its recovery or restart, and one more call are what
a value needs to be set, lost and found again, and two calls after an abandoned
one show the shift of replies.  `BtpWorker`: a response can go wrong with one
request before it, so two requests suffice; commands that agree in service,
style and check behave alike, and the run has each style and each check once.
`StackEvents`: two events are the least for order, two waits the least for
sharing, two objects for a wait that outlives the object it began with; what a
test case leaves to the next shows with two of them and three objects (before,
between and after clean-up and initialisation); stores written and read in the same way behave alike, so the run has
one of each way of reading and one of each way of writing (not of each of the 17
pairs that occur).  `IutCtl`: what a stop leaves to the next start is all that is
carried over, so three test cases show the first, a middle and a last one; the
combinations of faults that break FreshIut have two members (below), so three
faults show them and what one more adds.

What the violated properties show:
- *NobodyLeftBehind.*  lt1 and lt2 finish a round of e1.  A verdict other than
  PASS arrives and the callback thread cancels: it aborts e1's barriers, but lt2
  has passed the end barrier and removes e1 from the list that the cancel is
  iterating over; e2 moves to the first place and the iterator ends.  lt2 gets
  its next WID, finds e2 in the table, and waits at its unbroken start barrier;
  the cancel then binds a new table.  No later cancel sees e2.
- *VerdictOwn.*  A test case is stopped while its RunTestCase goes on (the code
  notes that the PTS has no working StopTestCase).  The next test case is
  queued; the first verdict that arrives is that of the old run.
- *VerdictReaches.*  A deferred step ends get_result's wait; the read gives no
  result; the verdict is set; clear() erases it.  The loop waits for a verdict
  that will not come again, until the superguard, if there is one.
- *PostRunWhole.*  pre_run of one LT is done, its lock is released, and
  synchronize_instances fails because another LT has finished.  The outer
  finally runs post_run without the lock, the main thread takes it and injects
  the KeyboardInterrupt, and post_run is cut: the IUT may not be stopped, and
  the test case stays in RUNNING_TEST_CASE, where a later test case finds it
  FINISHED and ends with SynchError.  PreRunWhole, the other half of the same
  comment in the code, holds.

The properties that do hold are stated as exactly as the code allows.
`AnswersMatch` holds until a timer that could no longer be cancelled sets the
event of a later wait, or a retry takes over the WIDs of a run of the same name
that is not over.  `VerdictOrder` is what is left of VerdictOwn: no verdict is
taken twice or overtakes another, and verdicts shift only after a give-up.
`Pairing` names the five ways in which a command can get another's response
(a read that timed out, overlapping commands, a response that nobody reads, an
event without handler, a torn frame): without one of them it gets its own.
`OwnReply` says how far replies of the server shift after a call was
interrupted in the wait for its reply (client and server in one process).
`Settled` claims nothing after a recovery that raised, until the caches are
cleaned, nor of a PIXIT whose temporary change is not reverted.
`HonestTimeout` excuses a scan during which another wait shortened the list.
`Registered` names what a clean-up that was cut or failed leaves behind.
`PassHonest` excepts an LT that has passed and whose last look at
RUNNING_TEST_CASE ended with RuntimeError because another LT deleted its entry:
post_run is skipped, an error of the callback thread with it, and the status
stays PASS.
`RunEnds` has two premises, that the main thread does not wait for ever and that
every handler returns: without a superguard nothing ends a run whose PTS gives
no verdict, and a handler may sit in a Barrier (NobodyLeftBehind).
`Answered` excepts results that are lost and, for a nonblocking method, a server
that has ended; without a superguard it presupposes that RunTestCase comes back.
`OfThisCase` excludes events of an earlier test case only for a wait whose test
case has initialised the layer before; otherwise it excludes what came before
the last clean-up, and for l2cap and IUT-ready events not even that.
`FreshIut` holds while only tolerated faults have occurred: any number of failed
boots, failed resets and resets of the board by itself in the body of a test
case, as long as none of these boots is still under way when the queue is
cleared; or, on a board, any number of exceptions and failed resets.

Met while modelling, and not a violation of anything the repository says of
itself (see the hazards in PROJECT.json): the HAP handler of PRESET_CHANGED
names a queue that does not exist, so the event is lost and each wait for it
times out; the response to PACS commands is never read and stays in the queue
for the next command that compares too little; two temporary changes of one
PIXIT make the second revert raise, which restarts PTS and keeps the list of
temporary changes for ever; a second read of a BIS stream whose list was
emptied raises IndexError; an error response with an unknown status is dropped
and its command times out; the second service record handle of an address nests
the first, so that a wait for it raises TypeError; a result of a nonblocking
method is lost when the callback is gone or set_result raises, and run_test_case
is awaited without a timeout.  A test case can begin on an IUT-ready event of an
earlier boot, with the board still booting or used since, in these cases: a
board resets itself and its event comes between queue.clear() and the reset (one
fault, if the boot is slow or the reset late enough); a boot outlasts the
flush; or an exception cuts a start or stop and, besides, a boot fails or the
board resets itself.  With QEMU or a native process one cut is enough, since
stop leaves the queue as it is.

Deadlock is not checked: the test run ends, and a bounded number of WIDs,
requests, events, calls and test cases ends each model.

Fairness.  Threads run, so their own steps are weakly fair, and an LT thread
that has failed performs its cancel (its `finally` clause).  Timers expire.
Not fair: the arrival of WIDs, the end of a run, the failure of a handler,
an interrupt by the main thread, and cancels of other threads.  The
liveness run of `Synch` has one element in the table: with two and a second
cancelling thread, NobodyLeftBehind's race breaks FailureReleases as well.
`RunLoop`: the main thread and each LT thread run, since commands end (they have
time-outs); not fair are the superguard, the return of a handler, which may wait
in a Barrier, and PTS: RunEnds names the first two as premises.
`PtsServer`: the PTS thread runs, except that RunTestCase of a running PTS may
never return; a superguard that is armed fires, but there need be none; the
client takes what is there.
`BtpWorker`: a thread in read() goes on, its timer fires; neither the IUT nor
the receiver is fair.  `StackEvents` has no liveness property: its waits all have
a Timer, and the run takes the threads for interchangeable, which holds for
safety only.  `IutCtl`: a boot ends or has failed, the worker reads, the
thread runs; nothing forces a test case to begin.

## What is proved

`SynchProofs` proves, for any LTs, elements, points, tables and cancels under
the assumptions of `Synch` (an LT has at most one point in an element; the
table lists an element at most once; the None values are not members):

- `Invariance`: Spec => []Inv;
- `TypeCorrect`, `Exclusion`, `Order`, `OwnPoint`: TypeOK, TurnExclusive,
  TurnOrder and OwnPointDone;
- `Meeting`: Spec => Meets, that Synch implements SynchAbs.

None of TurnExclusive, TurnOrder and OwnPointDone is inductive.  The argument: a done flag that is set
while the start barrier is not broken was set by an LT that ran its WID in this
round (`GenuineOK`), because cancel_synch aborts the barriers before it sets
flags (`AbortFirst`) and because the flags are cleared by the last arrival,
before anyone is released.  So an LT that passes the check behind point.wait()
(`LoopOK`, `CheckOK`) has every earlier LT in `ran`.  An LT between its turn
and set_done is not in `ran` (`UnfinishedOK`), and two LTs of one element are
ordered by their points, so one of them would have to be in `ran` already: that
gives exclusion, and with it that active_synch_point is still the reader's own
(`ActiveOK`).  `WaitingOK`, `CursorsOK` tie the barriers and iterators to the
threads' positions.  The initial state, each action (`Invariance` has one lemma
per action and conjunct) and the implications are proved; TLC checks Inv in
`SynchLiveness`.

The refinement maps each thread to "out", "arrived", "running", "finished" or
"dropped" of an element by its place in the code.  For its steps to be those of
SynchAbs, a round that has begun must have all parties in it (`TogetherOK`),
whoever is at the end must have run (`FinishedOK`), and while the end barrier
drains all have run and nobody has begun anew (`PartingOK`); with `RanOK` these
are the conjunct `MeetingOK` of Inv.  Then `MeetsStep` goes through the actions:
the barriers give Arrive and Leave (the last arrival clears `ran`), the turn
gives Begin, whose guards are TurnExclusive and TurnOrder, the end of the WID
Finish, a thread that raises Drop; the loop, the flags, the iterators and the
cancels stutter.

`WidProofs` proves, for any number of test cases and WIDs and
any set of retries and deferring WIDs:

- `DialogInvariance`: Spec => []DialogInv, with DialogInv the conjunction of
  VerdictInv and AnswerInv (`VerdictInvariance` is the first half alone);
- `DialogTypes`, `VerdictsInOrder`, `AnswersAlwaysMatch`: TypeOK, VerdictOrder
  and AnswersMatch.

The argument for verdicts.  What may still become a status sits in a pipeline:
what get_result has read, the result object, the run of the PTS thread, the
requests.  Run numbers increase along it (`LineOK`), all are later than every
verdict taken (`Fresh`) and none is later than the test case that runs
(`InTime`).  Each is the current test case's own, or some test case no later
than it was given up (`Entitled`): when a test case ends with an earlier run's
verdict, its own run stays behind, but the give-up that brought the earlier one
also accounts for it.  set_result, get_result and clear() move elements along
the pipeline or drop them, so a verdict is later than all taken before.

The argument for answers rests on that.  A run that goes on has not delivered
its verdict, so a WID of an earlier run that reaches the running test case by
name comes from a run that a retry has taken over (`RunIsTest`); without such a
retry, a WID in the hands of the LT thread is the last one sent, in the run of
this test case, and its sender is still waiting for it without an event or will
send no other in this run (`OneWid`).  A response that is stored is then the
one for that WID (`ResponseOK`); the event of a sender that is not waiting is
clear (`NoStaleFlag`) unless a late timer has set it, which is the other
exception AnswersMatch names.  A disturbed dialog stays disturbed (`Past`,
`UndisturbedBefore`).

`RunLoopProofs` proves, for any list of test cases, LTs, classes of handlers and
retries:

- `RunInvariance`: Spec => []RunInv; `TypeCorrect`: TypeOK;
- `RegisteredInvariance`, `PassIsHonest`, `RunsAreApart`: Registered,
  PassHonest, RunsApart;
- `PreRunIsWhole`: the action property PreRunWhole.

The main thread injects only with the LT's lock in its hands and only after the
wait is over, and an LT in pre_run holds its own lock (`LocksOK`): so pre_run is
never hit, and no interrupt outlives the join.  finish_count is the number of LT
threads that have ended (in TypeOK), which is why the wait cannot end early.
For PassHonest the difficulty is an LT that has taken PASS and then ends with an
error: it can only have been interrupted because finish_count's flag was set,
and before all have ended only an LT that will not pass or the superguard leads
to that; or its last look at RUNNING_TEST_CASE met an entry too many or too few.
An entry too many is an LT that was registered after another had finished: it
will leave synchronize_instances with SynchError (`Bars`, `Barred`), so there is
an LT that is, or will be, past its verdict without PASS (`Lost`, `Doomed`),
which is stable until the run ends (`VerdictsOK`).  An entry too few is the
exception that PassHonest names (`cutShort`).

`PtsProofs` proves, for any number of calls, abandoned calls, parameters, values
and failing starts:

- `ReplyInvariance`: Spec => []ReplyInv; `PtsTypeCorrect`, `RepliesOwn`: TypeOK
  and OwnReply;
- `SettledInvariance`: Spec => []SettledInv; `PtsSettled`: Settled.

Replies: blocking calls are numbered, and what the client took or left, what
lies in the queue of replies, what the thread is busy with and what lies in the
queue of requests are consecutive numbers (`InTurn`); a caller that leaves moves
the border of the first part by one, which is the shift OwnReply names.  Of the
other calls there is one at a time, in the queue, in the thread or answered,
until a wait for a result times out (`OneOther`).  Settings: _recov, with the
item about to be recorded, always restores what is wanted (`RecovRight`): for
each name the newest item carries the wanted value and a workspace is opened
before it, set_pixit items are unique per name because add_recov removes the one
before, and PTS itself has the wanted values but for what is still to be
replayed or reverted (`ValuesRight`, with `Pending`).  Nothing is wanted between
cleanup_caches and restart_pts (`Forgotten`), which is what lets a restart
forget the workspace; `Within` and `InOrder` say in which methods a recovery
happens and in which order the calls come.

`BtpProofs` proves, for any threads, commands, services and number of requests:

- `BtpInvariance`: Spec => []BtpInv; `BtpTypes`: TypeOK;
- `ResponsesInOrder`, `ResponsesPair`, `GetAlwaysFinds`: ResponseOrder, Pairing
  and GetFinds.

Requests, frames on the link, octets in the buffer, the queue and what was read
form one pipeline; while no frame is torn its numbers rise and none exceeds the
number of requests sent (`Numbered`).  Unless commands overlap one runs at a
time (`OneAtATime`), and until one of the named causes has occurred everything
in the pipeline answers the command that runs and the queue holds no event
(`OwnAnswers`): so what it reads is its own.  Each cause is recorded in `upset`
at the step where it occurs, and stays.

`StackProofs` proves, for every row of `StackStores` and any threads, keys,
values, events, test cases and waits:

- `StackInvariance`: Spec => []StackInv; `Typed`: TypeOK;
- `NoneLostNoneShared`, `NothingLeftOver`, `SentOrder`: Conserved, OfThisCase and
  PoppedInOrder;
- `TimeoutsHonest`: the action property HonestTimeout.

First the table: every store that waits scan is only ever appended to (or its
event is lost), which is proved row by row (`HandledRows`, `AwaitedRows`,
`RowFacts`).  Then the actions are reduced to what they do to the stores: leave
them, empty one, write one, or take one item out (`Effects`).  Every object
holds events it received, in the order they came (`Stored`, with `Logged`), and
objects follow one another in the log.  An object made in this test case, or
since the last clean-up, has received nothing older (`Current`); a wait stays
with the object it began with (`Waiting`) and its report says when that was
(`Reported`): that gives OfThisCase.  What is left in a popped list came after
what was popped (`LeftLater`), within an object; between objects their numbers
order the events: that gives PoppedInOrder.  Conserved
is inductive once a report is known to be new, since each wait reports once
(the numbers in `Reported`); list.remove may take another of two equal events,
which changes no count.  A scan still has before it every match of its snapshot
(`Scanning`): nobody takes from the list without clearing the snapshot, and
appending does not move what is there.

`IutProofs` proves, for any number of test cases, resets and faults:
`IutInvariance` (Spec => []IutInv), `IutTypes` and `IutIsFresh` (FreshIut).
The invariant has a half for each of the two tolerated ways.  Without exceptions
(`OneBoot`) no reset begins while a boot is under way, so clear() leaves an empty
queue for the event of the reset that follows it: from then on there is at most
one event, in the queue or on the line, of the last boot, and it was not used; a
board that resets itself makes more, until the test case ends and clears them.
With exceptions, on a board that always boots (`CutBoots`), there may be several
boots and events when a start or stop was cut, but none of them was used, and the
start that follows flushes what is on the line; at the moment an event is
awaited no boot is under way but the one it waits for.  Either half implies that
the IUT is up and unused when the wait ends, though the event has no mark of its
boot.

`DataProofs` has what these need of numbers and sequences: a set of naturals has
a least element (by the well-foundedness of inclusion on finite sets, since the
induction theorems cannot be used), and what RemoveAt leaves.

The assumptions are those named in the modules: sizes are naturals, sets that
the code enumerates are not empty, the None values are not members, the watched
stores are rows of `StackStores`.  TLC evaluates each in a run.

Only model-checked: liveness (RoundEnds, FailureReleases, SenderReturns,
VerdictTaken, RunEnds, Answered, LockReturned, Ends), since fairness
and ENABLED are outside what TLAPS proves here.  Every safety property and the
refinement that a passing run checks is proved.  The four violated properties
are TLC's counterexamples.

## Plan

The models and the proofs of their safety properties are done.  What would come
next:

1. An exact condition under which VerdictOwn and VerdictReaches hold (for
   example no stop and no deferred step), proved from DialogInv.
2. For `RunLoop`, the queue of exceptions and run_recovery, so that the choice to
   recover (`autopts/client.py:1417`) is checked.
3. For `Synch`, what NobodyLeftBehind becomes when no cancel overlaps the end of
   a round.

## Not modelled

- Ctrl+C of a whole run (set_global_end) except in the waits of `StackEvents`,
  and AUTO_PTS_LOCAL, which skips the test case.
- run_recovery beyond iut.stop, the clean-up of the stack and the server's
  restart: its retry loop recovers all PTSes one after the other through the
  calls of `PtsServer`, and which exceptions lead to it is not modelled.
- The service record handles of sdp, lists nested in lists.
- Statistics, the test-run database, regressions, pre_test_case_fn.
- gdb mode, btattach, btproxy, btmon, RTT and UART loggers, boards, QEMU and
  other subprocesses: I/O beside the IUT's start and stop.
- What a WID handler answers, what a BTP request or event carries, PIXIT and
  PICS values and the project tables: profile data without interleaving.
- Logging, the wording of responses and reports, PTSLogger's records.
- The bot, cron jobs, command line and stand-alone tools: scripts and I/O.
