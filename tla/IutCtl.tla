------------------------------- MODULE IutCtl -------------------------------
(***************************************************************************)
(* Starting, resetting and stopping the IUT (IutCtl of                     *)
(* autopts/ptsprojects/iutctl.py) by the commands of a test case           *)
(* (ztestcase.py) and by the recovery.  The IUT sends an IUT ready event   *)
(* when it has booted.  A board on a serial line ("tty") is reset when a   *)
(* test case stops, and the event of this boot is kept in the queue for    *)
(* the next test case, which then needs no reset.  QEMU or a native        *)
(* process ("process") lives as long as the test case.                     *)
(*                                                                         *)
(* A reset is a program that runs for up to 20 s: the receiver goes on     *)
(* between what comes before it (a clear() or a look at the queue) and the *)
(* moment the board resets, and after that.                                *)
(*                                                                         *)
(* External: the IUT, which boots, may die while it boots and may reset by *)
(* itself; the serial line, which keeps what nobody reads; socat.  A boot  *)
(* is over, or has failed, in the 30 s of a wait.  A reset that was cut by *)
(* an exception has reached the board by then or never does.  The modes    *)
(* with gdb, btattach and btproxy are left out.                            *)
(***************************************************************************)
EXTENDS Naturals

CONSTANTS
    Modes,     \* iut_mode: "tty", "process" for qemu and native
    MaxCases,  \* bound: test cases
    MaxResets, \* bound: resets in a test case
    MaxFaults  \* bound: steps of the environment and exceptions named in Upsets

ASSUME ModesAssumption == Modes \subseteq {"tty", "process"}
ASSUME BoundAssumption == MaxCases \in Nat /\ MaxResets \in Nat /\ MaxFaults \in Nat

VARIABLES
    mode,      \* iut_mode
    pc,        \* where the thread is that uses the IUT
    after,     \* where stop returns to
    cases,     \* test cases begun
    resets,    \* resets in this test case
    isRunning, \* is_running
    queue,     \* how many IUT ready events are in their queue
    line,      \* how many are sent and not read
    link,      \* the socket is open, with a worker that reads it
    leaked,    \* so is that of an earlier start, which nobody closes any more
    iut,       \* "off", "boots", "dead" or "up"
    used,      \* a test case has used the IUT since it booted last
    faults,    \* faults so far
    upset      \* of which kinds

counters == <<mode, cases, resets>>
env == <<faults, upset>>
iutVars == <<iut, used>>
vars == <<mode, pc, after, cases, resets, isRunning, queue, line, link, leaked, iut, used,
          faults, upset>>

(* "died"    a boot fails                                                   *)
(* "failed"  the program that resets the board fails, which is logged       *)
(* "cut"     an exception ends what the thread does with the IUT            *)
(* "self"    the board resets itself in the body of a test case             *)
(* "astray"  a boot nobody knows of, still under way when the queue is      *)
(*           cleared or when the line has been flushed                      *)
Upsets == {"died", "failed", "cut", "self", "astray"}

(* Where the program resets the board, and what the thread does then.       *)
Resetting == {"startreset", "checkreset", "casereset", "stopreset"}
ThenAt(p) == CASE p = "startreset" -> "flush"
               [] p = "stopreset" -> "stopwait"
               [] OTHER -> "wait"

TypeOK ==
    /\ mode \in Modes
    /\ pc \in {"idle", "start", "flush", "accept", "check", "wait", "body",
               "stop", "stopwait", "close"} \cup Resetting
    /\ after \in {"idle", "start"}
    /\ cases \in 0 .. MaxCases /\ resets \in 0 .. MaxResets
    /\ isRunning \in BOOLEAN
    /\ queue \in Nat /\ line \in Nat
    /\ link \in BOOLEAN /\ leaked \in BOOLEAN
    /\ iut \in {"off", "boots", "dead", "up"}
    /\ used \in BOOLEAN
    /\ faults \in 0 .. MaxFaults /\ upset \subseteq Upsets
    \* a stopped IUT has no socket of its own
    /\ ~isRunning => ~link /\ pc \in {"idle", "start"}
    \* the steps on the line are those of a board
    /\ mode = "process" => pc \in {"idle", "start", "accept", "wait", "body", "stop"}

Init ==
    /\ mode \in Modes
    /\ pc = "idle" /\ after = "idle" /\ cases = 0 /\ resets = 0
    /\ isRunning = FALSE /\ queue = 0 /\ line = 0 /\ link = FALSE /\ leaked = FALSE
    /\ iut = IF mode = "tty" THEN "up" ELSE "off"
    /\ used = TRUE /\ faults = 0 /\ upset = {}

-----------------------------------------------------------------------------
(* The IUT, the line and the receiver.                                      *)

Boots == iut' = "boots" /\ used' = FALSE
NoReset == UNCHANGED iutVars

Fault(kind) == /\ faults < MaxFaults /\ faults' = faults + 1
               /\ upset' = upset \cup {kind}

Booted ==
    /\ iut = "boots" /\ iut' = "up"
    /\ line' = line + 1
    /\ UNCHANGED <<counters, pc, after, isRunning, queue, link, leaked, used, env>>

Dies ==
    /\ iut = "boots" /\ iut' = "dead" /\ Fault("died")
    /\ UNCHANGED <<counters, pc, after, isRunning, queue, line, link, leaked, used>>

(* The queue is cleared for a board that resets in the middle of a test     *)
(* case; at any other time, or in a process, nobody expects it.             *)
ResetsItself ==
    /\ iut \in {"boots", "up"} /\ Boots
    /\ Fault(IF mode = "tty" /\ pc = "body" THEN "self" ELSE "astray")
    /\ UNCHANGED <<counters, pc, after, isRunning, queue, line, link, leaked>>

(* _rx_task and the handler of the event.                                   *)
Receive ==
    /\ link \/ (leaked /\ mode = "tty")
    /\ line > 0
    /\ queue' = queue + 1 /\ line' = line - 1
    /\ UNCHANGED <<counters, pc, after, isRunning, link, leaked, iutVars, env>>

UnderWay == iut = "boots" \/ line > 0

(* No event will come any more before the end of a wait.                    *)
Silent == queue = 0 /\ (line = 0 \/ ~link) /\ iut # "boots"

-----------------------------------------------------------------------------
(* Resets.                                                                  *)

(* clear() of the queue.                                                    *)
Clear ==
    /\ queue' = 0
    /\ upset' = IF "self" \in upset /\ UnderWay THEN upset \cup {"astray"} ELSE upset
    /\ UNCHANGED faults

(* Board.reset: the program ends, and has reset the board or has failed.    *)
Reset ==
    /\ pc \in Resetting /\ pc' = ThenAt(pc)
    /\ \/ Boots /\ UNCHANGED env
       \/ NoReset /\ Fault("failed")
    /\ UNCHANGED <<counters, after, isRunning, queue, line, link, leaked>>

-----------------------------------------------------------------------------
(* Start.                                                                   *)

BeginCase ==
    /\ pc = "idle" /\ cases < MaxCases
    /\ cases' = cases + 1 /\ resets' = 0 /\ pc' = "start"
    /\ UNCHANGED <<mode, after, isRunning, queue, line, link, leaked, iutVars, env>>

(* A board that has sent no event is reset.                                 *)
StartTty ==
    /\ pc = "start" /\ mode = "tty"
    /\ isRunning' = TRUE
    /\ pc' = IF queue = 0 THEN "startreset" ELSE "flush"
    /\ UNCHANGED <<counters, after, queue, line, link, leaked, iutVars, env>>

(* The flush reads the line for a second.  A slow boot outlasts it.         *)
FlushSerial ==
    /\ pc = "flush"
    /\ IF iut = "boots" THEN Fault("astray") ELSE UNCHANGED env
    /\ line' = 0 /\ pc' = "accept"
    /\ UNCHANGED <<counters, after, isRunning, queue, link, leaked, iutVars>>

(* A process boots when it is started.                                      *)
StartProcess ==
    /\ pc = "start" /\ mode = "process"
    /\ isRunning' = TRUE /\ Boots /\ line' = 0 /\ pc' = "accept"
    /\ UNCHANGED <<counters, after, queue, link, leaked, env>>

(* socat or the process connects to the socket, which replaces that of an   *)
(* IUT that was not stopped.                                                *)
Accept ==
    /\ pc = "accept"
    /\ link' = TRUE /\ leaked' = (leaked \/ link)
    /\ pc' = IF mode = "tty" THEN "check" ELSE "wait"
    /\ UNCHANGED <<counters, after, isRunning, queue, line, iutVars, env>>

(* The queue again: the event of a reset before was flushed.                *)
CheckAgain ==
    /\ pc = "check"
    /\ pc' = IF queue = 0 THEN "checkreset" ELSE "wait"
    /\ UNCHANGED <<counters, after, isRunning, queue, line, link, leaked, iutVars, env>>

(* wait_iut_ready_event: the event is taken and the queue cleared; without  *)
(* an event the IUT is stopped and the test case fails.                     *)
Ready ==
    /\ pc = "wait" /\ queue > 0
    /\ Clear /\ pc' = "body"
    /\ UNCHANGED <<counters, after, isRunning, line, link, leaked, iutVars>>

NotReady ==
    /\ pc = "wait" /\ Silent
    /\ pc' = "stop" /\ after' = "idle"
    /\ UNCHANGED <<counters, isRunning, queue, line, link, leaked, iutVars, env>>

-----------------------------------------------------------------------------
(* The test case.                                                           *)

Use ==
    /\ pc = "body" /\ ~used /\ used' = TRUE
    /\ UNCHANGED <<counters, pc, after, isRunning, queue, line, link, leaked, iut, env>>

(* Mutant: the reset in a test case without clear().                        *)
ResetKeepsQueue ==
    /\ pc = "body" /\ resets < MaxResets /\ resets' = resets + 1
    /\ \/ /\ mode = "tty"
          /\ pc' = "casereset" /\ UNCHANGED after
       \/ /\ mode = "process"
          /\ pc' = "stop" /\ after' = "start"
    /\ UNCHANGED <<mode, cases, isRunning, queue, line, link, leaked, iutVars, env>>

(* wait_iut_ready_event() in a test case resets the IUT first.              *)
ResetInCase ==
    /\ pc = "body" /\ resets < MaxResets /\ resets' = resets + 1
    /\ \/ /\ mode = "tty"
          /\ Clear
          /\ pc' = "casereset" /\ UNCHANGED after
       \/ /\ mode = "process"
          /\ pc' = "stop" /\ after' = "start" /\ UNCHANGED <<queue, env>>
    /\ UNCHANGED <<mode, cases, isRunning, line, link, leaked, iutVars>>

EndCase ==
    /\ pc = "body"
    /\ pc' = "stop" /\ after' = "idle"
    /\ UNCHANGED <<counters, isRunning, queue, line, link, leaked, iutVars, env>>

-----------------------------------------------------------------------------
(* Stop.                                                                    *)

(* Mutant: stop without clear(); the event of an unexpected reset stays.    *)
StopKeepsQueue ==
    /\ pc = "stop" /\ mode = "tty"
    /\ pc' = "stopreset"
    /\ UNCHANGED <<counters, after, isRunning, queue, line, link, leaked, iutVars, env>>

(* The queue is cleared, the board reset, its event left in the queue and   *)
(* then the socket closed.                                                  *)
StopTty ==
    /\ pc = "stop" /\ mode = "tty"
    /\ Clear /\ pc' = "stopreset"
    /\ UNCHANGED <<counters, after, isRunning, line, link, leaked, iutVars>>

(* Mutant: stop waits for the event without a timeout.                      *)
StopWaitsForever ==
    /\ pc = "stopwait" /\ queue > 0
    /\ pc' = "close"
    /\ UNCHANGED <<counters, after, isRunning, queue, line, link, leaked, iutVars, env>>

StopWaited ==
    /\ pc = "stopwait" /\ (queue > 0 \/ Silent)
    /\ pc' = "close"
    /\ UNCHANGED <<counters, after, isRunning, queue, line, link, leaked, iutVars, env>>

(* A failed start goes on with post_run, which finds the IUT stopped.       *)
Stopped == link' = FALSE /\ isRunning' = FALSE /\ pc' = after

CloseTty ==
    /\ pc = "close" /\ Stopped
    /\ UNCHANGED <<counters, after, queue, line, leaked, iutVars, env>>

StopProcess ==
    /\ pc = "stop" /\ mode = "process"
    /\ Stopped /\ iut' = "off" /\ line' = 0
    /\ UNCHANGED <<counters, after, queue, leaked, used, env>>

(* run_recovery after a test case: iut.stop().                              *)
Recovery ==
    /\ pc = "idle" /\ isRunning
    /\ pc' = "stop" /\ after' = "idle"
    /\ UNCHANGED <<counters, isRunning, queue, line, link, leaked, iutVars, env>>

-----------------------------------------------------------------------------
(* Exceptions.                                                              *)

(* A reset that is cut may have reached the board.                          *)
PerhapsReset == IF pc \in Resetting THEN Boots \/ NoReset ELSE NoReset

(* start fails: the reset takes longer than 20 s or nothing connects; so    *)
(* does a reset in a test case, which the interrupt of the LT may also cut. *)
(* post_run stops the IUT.                                                  *)
CutStart ==
    /\ \/ pc \in {"startreset", "checkreset", "casereset", "accept"}
       \/ resets > 0 /\ pc \in {"start", "wait"}
       \/ pc = "stop" /\ after = "start"
    /\ Fault("cut") /\ PerhapsReset
    /\ pc' = IF isRunning THEN "stop" ELSE "idle"
    /\ after' = "idle"
    /\ UNCHANGED <<counters, isRunning, queue, line, link, leaked>>

(* The interrupt of an LT cuts post_run before or in stop, or the reset in  *)
(* stop takes longer than 20 s; the socket may have been closed by then.    *)
CutStop ==
    /\ pc \in {"body", "stopreset", "stopwait", "close"} \/ (pc = "stop" /\ after = "idle")
    /\ Fault("cut") /\ PerhapsReset
    /\ pc' = "idle" /\ after' = "idle"
    /\ link' \in IF pc = "close" THEN {link, FALSE} ELSE {link}
    /\ UNCHANGED <<counters, isRunning, queue, line, leaked>>

-----------------------------------------------------------------------------

Iut == Booted \/ Dies \/ ResetsItself
Thread ==
    \/ StartTty \/ FlushSerial \/ Accept \/ CheckAgain \/ StartProcess \/ Reset
    \/ Ready \/ NotReady \/ StopTty \/ StopWaited \/ CloseTty \/ StopProcess
Case == BeginCase \/ Use \/ ResetInCase \/ EndCase \/ CutStart \/ CutStop \/ Recovery

Next == Iut \/ Receive \/ Thread \/ Case

(* A boot ends or has failed, the worker reads, the thread runs.            *)
Spec == Init /\ [][Next]_vars /\ WF_vars(Booted) /\ WF_vars(Receive) /\ WF_vars(Thread)

-----------------------------------------------------------------------------
(* The faults the commands cope with: boots and resets that fail, and a     *)
(* board that resets itself in the body of a test case, if its event is     *)
(* there when the queue is cleared; or exceptions and resets that fail,     *)
(* with a board that always boots.                                          *)
Uncut == "cut" \notin upset /\ "astray" \notin upset
CutBoard == mode = "tty" /\ \A kind \in {"died", "self", "astray"} : kind \notin upset
Tolerated == Uncut \/ CutBoard

(* A test case, and a part of it after a reset, begins on an IUT that is up *)
(* and that no earlier test case or part has used, although the event it    *)
(* waited for carries no mark of its boot.                                  *)
Begins == pc = "wait" /\ pc' = "body"
FreshIut == [][Begins /\ Tolerated => iut = "up" /\ ~used]_vars

(* What a start or a stop does comes to an end, whatever the IUT does.      *)
Ends == pc \notin {"idle", "body"} ~> pc \in {"idle", "body"}

-----------------------------------------------------------------------------
(* The inductive invariant behind FreshIut (IutProofs).                     *)

Pending == queue > 0 \/ UnderWay

(* Without exceptions there is at most one event, of the last boot, which   *)
(* is over; only a board that reset itself has more, until the test case    *)
(* clears them.  No reset begins while a boot is under way.                 *)
OneBoot == Uncut =>
    /\ pc = "idle" => ~isRunning
    /\ mode = "process" => "self" \notin upset /\ (pc \in {"idle", "start"} => iut = "off")
    /\ pc \notin {"idle", "start", "startreset", "flush", "accept"} => link
    /\ pc \in {"idle", "start", "check", "close"} \cup Resetting => ~UnderWay
    /\ pc = "accept" /\ mode = "tty" => ~UnderWay
    /\ pc \in Resetting => queue = 0
    /\ IF pc \in {"body", "stop"}
       THEN "self" \notin upset => ~Pending
       ELSE /\ queue + line <= 1 /\ (queue + line = 1 => iut = "up")
            /\ Pending => ~used

(* A board whose start or stop was cut may have several boots and events,   *)
(* but none of them was used, and when the event of its start is awaited    *)
(* none but this is still to come.                                          *)
CutBoots == CutBoard =>
    /\ iut \in {"boots", "up"}
    /\ Pending => ~used
    /\ pc \in {"accept", "check"} => ~UnderWay
    /\ pc \in {"checkreset", "casereset", "body"} => ~Pending
    /\ pc = "wait" /\ UnderWay => queue = 0 /\ line <= 1 /\ (line = 1 => iut = "up")

IutInv == TypeOK /\ OneBoot /\ CutBoots
=============================================================================
