---------------------------- MODULE StackEvents ----------------------------
(***************************************************************************)
(* One store of the stack (a row of StackStores), the receiver thread that *)
(* writes it and the LT threads whose WID handlers wait on it:             *)
(* wait_for_event and wait_event_with_condition of                         *)
(* autopts/ptsprojects/stack/common.py with what the functions of the      *)
(* layers do around them.                                                  *)
(*                                                                         *)
(* A layer's object is renewed by stack.cleanup() at the end of a test     *)
(* case and by the layer's ..._init() among the pre-conditions of one that *)
(* uses it, where they do so; a wait keeps the object it began with.       *)
(* store, known and the like are functions of the object.  The socket is   *)
(* open until the IUT is stopped, after the clean-up: an event of the test *)
(* case that ends may come in between.                                     *)
(*                                                                         *)
(* An event has a key, what a condition compares, and a value; two events  *)
(* with the same key and value are equal for list.remove.  Its position in *)
(* the log identifies it.                                                  *)
(***************************************************************************)
EXTENDS Naturals, Sequences, FiniteSets, SequencesExt, StackStores

CONSTANTS
    LTs,          \* the threads that wait
    Keys, Values, \* what events carry
    Watched,      \* the stores one of which is watched
    MaxEvents,    \* bound: events
    MaxCases,     \* bound: test cases
    MaxCleanUps,  \* bound: clean-ups of the stack
    MaxObjects,   \* bound: objects of the layer, one after the other
    MaxWaits      \* bound: waits of all threads

ASSUME StoresExist == Watched \subseteq Stores
ASSUME KeysExist == Keys # {}
ASSUME BoundAssumption ==
    /\ MaxEvents \in Nat /\ MaxCases \in Nat \ {0} /\ MaxCleanUps \in Nat
    /\ MaxObjects \in Nat \ {0} /\ MaxWaits \in Nat

VARIABLES
    row,       \* the store that is watched
    log,       \* every event received, with the test case, the clean-ups and the
               \*   object of the time it came
    case,      \* the number of the test case
    cleanups,  \* the clean-ups of the stack so far
    object,    \* the object the layer has now: they are numbered
    renewed,   \* that object was made in this test case
    store,     \* for each object, the events (their numbers in the log) it holds
    known,     \* for each object, the streams that have an entry
    globalEnd, \* set_global_end was called
    pc,        \* where a thread is: "idle", "fast", "enter", "loop", "scan", "got", "late"
    wait,      \* the wait of a thread, or of its last one
    armed,     \* the flag the Timer of a wait clears
    outcome,   \* how the last wait ended: "none", "event", "timeout", "end",
               \*   "ValueError", "IndexError"
    reports,   \* the events waits returned: the object, who, and the event
    snapshot   \* the events of the store when a scan began and nobody took since

epoch == <<case, cleanups, object, renewed>>
vars == <<row, log, epoch, store, known, globalEnd, pc, wait, armed, outcome,
          reports, snapshot>>

Cases    == 1 .. MaxCases
CleanUps == 0 .. MaxCleanUps
Objects  == 1 .. MaxObjects
Events   == 1 .. MaxEvents
NoWait == [object |-> 1, key |-> CHOOSE k \in Keys : TRUE, since |-> 0, index |-> 1,
           found |-> 0, waited |-> FALSE, case |-> 1, cleanups |-> 0,
           renewed |-> FALSE, number |-> 0]

(* The conditions that look at what the event carries; three take any event. *)
AnyEvent == {<<"CORE", "IUT_READY">>, <<"CSIP", "LOCK">>, <<"MICS", "MUTE_STATE">>}
Keyed == /\ row.read \in {"remove", "keep", "take", "stream"}
         /\ <<row.layer, row.store>> \notin AnyEvent
KeysUsed == IF Keyed THEN Keys ELSE {NoWait.key}
InQueue == row.read \in {"remove", "keep"}
(* The functions that look before they call wait_for_event; only where the  *)
(* two looks are followed by different steps are they told apart.           *)
LooksFirst == row.read = "half"

(* stack.cleanup() keeps the core service's queue of IUT ready events and   *)
(* does not know l2cap; core_init() does the same as the clean-up, and      *)
(* mesh_init() returns if there is an object.                               *)
CleanedUp   == row.layer \notin {"CORE", "L2CAP"}
Initialised == row.layer \notin {"CORE", "MESH"}

(* Mutant: the layer keeps its object.                                      *)
RenewNothing(does) == renewed' = (renewed \/ does) /\ UNCHANGED object

Renew(does) == /\ does => object < MaxObjects
               /\ object' = IF does THEN object + 1 ELSE object
               /\ renewed' = (renewed \/ does)

Matches(lt, e) == Keyed => log[e].key = wait[lt].key
Held(lt) == store[wait[lt].object]

(* What wait_for_event polls.                                               *)
Holds(lt) ==
    CASE row.read = "stream" -> wait[lt].key \in known[wait[lt].object]
      [] row.read = "count"  -> \E i \in DOMAIN Held(lt) : Held(lt)[i] > wait[lt].since
      [] OTHER               -> \E i \in DOMAIN Held(lt) : Matches(lt, Held(lt)[i])

Init ==
    /\ row \in Watched
    /\ log = <<>>
    /\ case = 1 /\ cleanups = 0
    /\ object = 1 /\ renewed = FALSE
    /\ store = [o \in Objects |-> <<>>]
    /\ known = [o \in Objects |-> {}]
    /\ globalEnd = FALSE
    /\ pc = [lt \in LTs |-> "idle"]
    /\ wait = [lt \in LTs |-> NoWait]
    /\ armed = [lt \in LTs |-> FALSE]
    /\ outcome = [lt \in LTs |-> "none"]
    /\ reports = {}
    /\ snapshot = [lt \in LTs |-> {}]

-----------------------------------------------------------------------------
(* The receiver thread: event_handler calls the handler of the event, which *)
(* writes the object the stack has now.                                     *)

Received(k, v) == /\ Len(log) < MaxEvents
                  /\ ~globalEnd
                  /\ log' = Append(log, [key |-> k, value |-> v, case |-> case,
                                         cleanups |-> cleanups, object |-> object])

(* Mutant: the handler stores the event before the one it is called for.    *)
WriteEarlier(k, v) ==
    /\ Received(k, v)
    /\ row.write = "append"
    /\ store' = [store EXCEPT ![object] = Append(@, Len(log))]
    /\ UNCHANGED <<row, epoch, known, globalEnd, pc, wait, armed, outcome, reports, snapshot>>

Write(k, v) ==
    /\ Received(k, v)
    /\ store' = [store EXCEPT ![object] =
                    CASE row.write \in {"append", "group"} -> Append(@, Len(log'))
                      [] row.write \in {"set", "level"}    -> <<Len(log')>>
                      [] row.write = "lost"                -> @]
    /\ known' = [known EXCEPT ![object] = IF row.read = "stream" THEN @ \cup {k} ELSE @]
    /\ UNCHANGED <<row, epoch, globalEnd, pc, wait, armed, outcome, reports, snapshot>>

(* The disconnection of a link or channel, the loss of a group.             *)
Clear ==
    /\ row.write \in {"level", "group"}
    /\ ~globalEnd
    /\ store[object] # <<>>
    /\ store' = [store EXCEPT ![object] = <<>>]
    /\ known' = [known EXCEPT ![object] = {}]
    /\ UNCHANGED <<row, log, epoch, globalEnd, pc, wait, armed, outcome, reports, snapshot>>

(* stack.cleanup(), the last but one command of the test case of one LT:    *)
(* another LT may still be waiting.  A test case may be cut off before it,  *)
(* and a recovery cleans up again.                                          *)
CleanUp ==
    /\ cleanups < MaxCleanUps
    /\ ~globalEnd
    /\ cleanups' = cleanups + 1
    /\ Renew(CleanedUp)
    /\ UNCHANGED <<row, log, case, store, known, globalEnd, pc, wait, armed, outcome,
                   reports, snapshot>>

(* The ..._init() of the layer among the pre-conditions of an LT (a second  *)
(* renewal within the test case is left out).                               *)
Initialise ==
    /\ Initialised /\ ~renewed
    /\ ~globalEnd
    /\ Renew(TRUE)
    /\ UNCHANGED <<row, log, case, cleanups, store, known, globalEnd, pc, wait, armed,
                   outcome, reports, snapshot>>

(* The threads of the LTs were joined; the next test case begins.           *)
NextCase ==
    /\ case < MaxCases
    /\ ~globalEnd
    /\ \A lt \in LTs : pc[lt] = "idle"
    /\ case' = case + 1
    /\ renewed' = FALSE
    /\ UNCHANGED <<row, log, cleanups, object, store, known, globalEnd, pc, wait, armed,
                   outcome, reports, snapshot>>

(* Ctrl-C; the receiver ends, and so do the LT threads at their next look.   *)
SetGlobalEnd ==
    /\ ~globalEnd
    /\ globalEnd' = TRUE
    /\ UNCHANGED <<row, log, epoch, store, known, pc, wait, armed, outcome, reports, snapshot>>

-----------------------------------------------------------------------------
(* The waits.                                                               *)

Goto(lt, there) == pc' = [pc EXCEPT ![lt] = there]

End(lt, how) == /\ Goto(lt, "idle")
                /\ outcome' = [outcome EXCEPT ![lt] = how]
                /\ armed' = [armed EXCEPT ![lt] = FALSE]
                /\ wait' = [wait EXCEPT ![lt] = [NoWait EXCEPT !.number = wait[lt].number]]

Forget(lt) == snapshot' = [snapshot EXCEPT ![lt] = {}]

(* A WID handler waits; a GATT client function first clears what it asks for. *)
Begin(lt, k) ==
    /\ pc[lt] = "idle"
    /\ ~globalEnd
    /\ FoldFunction(LAMBDA w, n : w.number + n, 0, wait) < MaxWaits
    /\ k \in KeysUsed
    /\ wait' = [wait EXCEPT ![lt] = [NoWait EXCEPT
                    !.object = object, !.key = k,
                    !.since = IF row.read = "count" THEN Len(log) ELSE 0,
                    !.case = case, !.cleanups = cleanups, !.renewed = renewed,
                    !.number = wait[lt].number + 1]]
    /\ IF row.read = "asked" THEN store' = [store EXCEPT ![object] = <<>>]
                             ELSE UNCHANGED store
    /\ IF InQueue THEN /\ Goto(lt, "loop")
                       /\ armed' = [armed EXCEPT ![lt] = TRUE]
                  ELSE /\ Goto(lt, IF LooksFirst THEN "fast" ELSE "enter")
                       /\ UNCHANGED armed
    /\ outcome' = [outcome EXCEPT ![lt] = "none"]
    /\ UNCHANGED <<row, log, epoch, known, globalEnd, reports, snapshot>>

(* The condition holds: the thread leaves the wait, and then reads the store. *)
Satisfied(lt, waited) ==
    /\ Holds(lt)
    /\ Goto(lt, "got")
    /\ wait' = [wait EXCEPT ![lt].waited = waited,
                            ![lt].found = LET hit == {e \in Range(Held(lt)) : Matches(lt, e)}
                                          IN  IF hit = {} THEN 0 ELSE CHOOSE e \in hit :
                                                \A f \in hit : e <= f]
    /\ armed' = [armed EXCEPT ![lt] = FALSE]

(* The look before wait_for_event.                                          *)
LookFirst(lt) ==
    /\ pc[lt] = "fast"
    /\ \/ Satisfied(lt, FALSE)
       \/ ~Holds(lt) /\ Goto(lt, "enter") /\ UNCHANGED <<wait, armed>>
    /\ UNCHANGED <<row, log, epoch, store, known, globalEnd, outcome, reports, snapshot>>

(* wait_for_event: a look, then the Timer.                                  *)
EnterWait(lt) ==
    /\ pc[lt] = "enter"
    /\ \/ Satisfied(lt, TRUE)
       \/ /\ ~Holds(lt)
          /\ Goto(lt, "loop")
          /\ armed' = [armed EXCEPT ![lt] = TRUE]
          /\ UNCHANGED wait
    /\ UNCHANGED <<row, log, epoch, store, known, globalEnd, outcome, reports, snapshot>>

(* timeout_cb in the thread of the Timer.                                   *)
Expire(lt) ==
    /\ armed[lt]
    /\ armed' = [armed EXCEPT ![lt] = FALSE]
    /\ UNCHANGED <<row, log, epoch, store, known, globalEnd, pc, wait, outcome, reports,
                   snapshot>>

(* raise_on_global_end in the loop of either function.                      *)
Interrupted(lt) ==
    /\ pc[lt] = "loop"
    /\ armed[lt] /\ globalEnd
    /\ End(lt, "end") /\ Forget(lt)
    /\ UNCHANGED <<row, log, epoch, store, known, globalEnd, reports>>

(* The loop of wait_for_event finds its condition true.                     *)
Poll(lt) ==
    /\ pc[lt] = "loop" /\ ~InQueue
    /\ armed[lt] /\ ~globalEnd
    /\ Satisfied(lt, TRUE)
    /\ UNCHANGED <<row, log, epoch, store, known, globalEnd, outcome, reports, snapshot>>

(* The flag is found cleared.                                               *)
TimedOut(lt) ==
    /\ pc[lt] = "loop"
    /\ ~armed[lt]
    /\ IF row.read \in {"value", "drain"} THEN /\ Goto(lt, "late")
                                               /\ UNCHANGED <<outcome, armed, wait>>
                                          ELSE End(lt, "timeout")
    /\ Forget(lt)
    /\ UNCHANGED <<row, log, epoch, store, known, globalEnd, reports>>

-----------------------------------------------------------------------------
(* wait_event_with_condition: for ev in event_queue, an index into a list   *)
(* that the receiver extends and other waits shorten.                       *)

ScanBegins(lt) ==
    /\ pc[lt] = "loop" /\ InQueue
    /\ armed[lt] /\ ~globalEnd
    /\ Goto(lt, "scan")
    /\ wait' = [wait EXCEPT ![lt].index = 1]
    /\ snapshot' = [snapshot EXCEPT ![lt] = Range(Held(lt))]
    /\ UNCHANGED <<row, log, epoch, store, known, globalEnd, armed, outcome, reports>>

ScanNext(lt) ==
    /\ pc[lt] = "scan"
    /\ wait[lt].index <= Len(Held(lt))
    /\ LET e == Held(lt)[wait[lt].index] IN
         IF Matches(lt, e)
         THEN /\ Goto(lt, "got")
              /\ wait' = [wait EXCEPT ![lt].found = e]
              /\ armed' = [armed EXCEPT ![lt] = FALSE]
         ELSE /\ wait' = [wait EXCEPT ![lt].index = @ + 1]
              /\ UNCHANGED <<pc, armed>>
    /\ UNCHANGED <<row, log, epoch, store, known, globalEnd, outcome, reports, snapshot>>

(* Mutant: the loop ends one short of the list.                             *)
ScanEndsShort(lt) ==
    /\ pc[lt] = "scan"
    /\ wait[lt].index >= Len(Held(lt))
    /\ Goto(lt, "loop")
    /\ UNCHANGED <<row, log, epoch, store, known, globalEnd, wait, armed, outcome, reports,
                   snapshot>>

(* The end of the list; sleep(0.5).                                         *)
ScanEnds(lt) ==
    /\ pc[lt] = "scan"
    /\ wait[lt].index > Len(Held(lt))
    /\ Goto(lt, "loop")
    /\ UNCHANGED <<row, log, epoch, store, known, globalEnd, wait, armed, outcome, reports,
                   snapshot>>

-----------------------------------------------------------------------------
(* What is done with the store once the condition was found true.           *)

Report(lt, es) == reports' = reports \cup
    {[object |-> wait[lt].object, by |-> lt, number |-> wait[lt].number,
      case |-> wait[lt].case, cleanups |-> wait[lt].cleanups,
      renewed |-> wait[lt].renewed, event |-> e] : e \in es}

Empty(lt) == store' = [store EXCEPT ![wait[lt].object] = <<>>]
DropAt(lt, i) == store' = [store EXCEPT ![wait[lt].object] = RemoveAt(@, i)]

(* list.remove: the first event that is equal to the one found.             *)
Equal(e, f) == log[e].key = log[f].key /\ log[e].value = log[f].value
(* Mutant: the event is returned and stays in the list.                     *)
TakeOutNothing(lt) ==
    /\ Report(lt, {wait[lt].found})
    /\ End(lt, "event") /\ Forget(lt)
    /\ UNCHANGED store

TakeOut(lt) ==
    LET equal == {i \in DOMAIN Held(lt) : Equal(Held(lt)[i], wait[lt].found)}
    IN  IF equal = {}
        THEN End(lt, "ValueError") /\ Forget(lt) /\ UNCHANGED <<store, reports>>
        ELSE LET i == CHOOSE i \in equal : \A j \in equal : i <= j
             IN  /\ DropAt(lt, i)
                 /\ Report(lt, {wait[lt].found})
                 /\ snapshot' = [o \in LTs |-> IF o = lt THEN {} ELSE
                      IF pc[o] = "scan" /\ wait[o].object = wait[lt].object
                      THEN {} ELSE snapshot[o] \ {Held(lt)[i]}]
                 /\ End(lt, "event")

(* Mutant: pop().                                                           *)
PopLast(lt) ==
    LET mine == {i \in DOMAIN Held(lt) : Matches(lt, Held(lt)[i])}
    IN  IF mine = {}
        THEN End(lt, "IndexError") /\ UNCHANGED <<store, reports>>
        ELSE LET i == CHOOSE i \in mine : \A j \in mine : i >= j
             IN  /\ DropAt(lt, i)
                 /\ Report(lt, {Held(lt)[i]})
                 /\ End(lt, "event")

(* pop(0) of the list, or of the list of the stream.                        *)
Pop(lt) ==
    LET mine == {i \in DOMAIN Held(lt) : Matches(lt, Held(lt)[i])}
    IN  IF mine = {}
        THEN End(lt, "IndexError") /\ UNCHANGED <<store, reports>>
        ELSE LET i == CHOOSE i \in mine : \A j \in mine : i <= j
             IN  /\ DropAt(lt, i)
                 /\ Report(lt, {Held(lt)[i]})
                 /\ End(lt, "event")

ReadStore(lt) ==
    /\ pc[lt] = "got"
    /\ CASE row.read = "remove" -> TakeOut(lt)
         [] row.read \in {"pop", "stream"} -> Pop(lt) /\ Forget(lt)
         [] row.read = "drain" -> /\ Empty(lt) /\ Report(lt, Range(Held(lt)))
                                  /\ End(lt, "event") /\ Forget(lt)
         [] row.read \in {"take", "half"} ->
                /\ IF row.read = "take" \/ wait[lt].waited THEN Empty(lt)
                                                           ELSE UNCHANGED store
                /\ Report(lt, {wait[lt].found})
                /\ End(lt, "event") /\ Forget(lt)
         [] OTHER -> /\ Report(lt, {wait[lt].found})
                     /\ End(lt, "event") /\ Forget(lt) /\ UNCHANGED store
    /\ UNCHANGED <<row, log, epoch, known, globalEnd>>

(* The functions that return the value whether the wait found it or not.    *)
ReadLate(lt) ==
    /\ pc[lt] = "late"
    /\ IF Held(lt) = <<>>
       THEN End(lt, "timeout") /\ UNCHANGED <<store, reports>>
       ELSE /\ Report(lt, IF row.read = "drain" THEN Range(Held(lt))
                                                ELSE {Held(lt)[1]})
            /\ IF row.read = "drain" THEN Empty(lt) ELSE UNCHANGED store
            /\ End(lt, "event")
    /\ UNCHANGED <<row, log, epoch, known, globalEnd, snapshot>>

-----------------------------------------------------------------------------

Step(lt) == \/ LookFirst(lt) \/ EnterWait(lt) \/ Interrupted(lt) \/ Poll(lt)
            \/ TimedOut(lt) \/ ScanBegins(lt) \/ ScanNext(lt) \/ ScanEnds(lt)
            \/ ReadStore(lt) \/ ReadLate(lt)

Next == \/ \E k \in KeysUsed, v \in Values : Write(k, v)
        \/ Clear
        \/ CleanUp \/ Initialise \/ NextCase
        \/ SetGlobalEnd
        \/ \E lt \in LTs : \/ \E k \in KeysUsed : Begin(lt, k)
                           \/ Expire(lt)
                           \/ Step(lt)

Spec == Init /\ [][Next]_vars

-----------------------------------------------------------------------------
(* Properties.                                                              *)

TypeOK ==
    /\ row \in Stores
    /\ log \in Seq([key : Keys, value : Values, case : Cases, cleanups : CleanUps,
                    object : Objects])
    /\ Len(log) <= MaxEvents
    /\ case \in Cases /\ cleanups \in CleanUps
    /\ object \in Objects /\ renewed \in BOOLEAN
    /\ store \in [Objects -> Seq(Events)]
    /\ known \in [Objects -> SUBSET Keys]
    /\ globalEnd \in BOOLEAN
    /\ pc \in [LTs -> {"idle", "fast", "enter", "loop", "scan", "got", "late"}]
    /\ wait \in [LTs -> [object : Objects, key : Keys, since : 0 .. MaxEvents,
                         index : Nat \ {0}, found : 0 .. MaxEvents,
                         waited : BOOLEAN, case : Cases, cleanups : CleanUps,
                         renewed : BOOLEAN, number : Nat]]
    /\ armed \in [LTs -> BOOLEAN]
    /\ outcome \in [LTs -> {"none", "event", "timeout", "end", "ValueError", "IndexError"}]
    /\ reports \subseteq [object : Objects, by : LTs, number : Nat, case : Cases,
                          cleanups : CleanUps, renewed : BOOLEAN, event : Events]
    /\ snapshot \in [LTs -> SUBSET Events]

(* Two waits never share an event and none is dropped: of a list that waits *)
(* shorten, what was received is what is still there and what waits         *)
(* returned, counted over equal events, for whichever of two equal ones     *)
(* list.remove takes and whoever of two threads that found the same event   *)
(* raises ValueError.                                                       *)
Conserved ==
    row.write = "append" /\ row.read \in {"remove", "pop"} =>
        \A o \in Objects, k \in Keys, v \in Values :
            LET Is(e) == log[e].key = k /\ log[e].value = v
                received == {e \in DOMAIN log : Is(e) /\ log[e].object = o}
            IN  Cardinality(received) =
                      Cardinality({e \in Range(store[o]) : Is(e)})
                    + Cardinality({r \in reports : r.object = o /\ Is(r.event)})

(* The event is of the test case, or at least not older than the clean-up.  *)
Fresh(w, e) == /\ w.renewed => log[e].case >= w.case
               /\ CleanedUp => log[e].cleanups >= w.cleanups

(* Whatever a wait finds latched or left over, if the test case initialised  *)
(* the layer before the wait it returns an event of that test case, and in   *)
(* any case none that came before the last clean-up: a layer that a test     *)
(* case uses but does not initialise can give it what came between the       *)
(* clean-up of the one before and its stop.  IUT_READY is carried over, and  *)
(* of l2cap only the first is true.                                          *)
OfThisCase == \A r \in reports : Fresh(r, r.event)

(* Lists that are popped give the events of a thread's waits in the order    *)
(* the IUT sent them.                                                        *)
PoppedInOrder ==
    row.read \in {"pop", "stream"} =>
        \A r, s \in reports :
            /\ r.by = s.by /\ r.number < s.number
            /\ Keyed => log[r.event].key = log[s.event].key
            => r.event < s.event

(* A wait of wait_event_with_condition does not give up on an event that was *)
(* in the list when its last scan began, unless another wait shortened the   *)
(* list meanwhile (the index of the loop then skips one).                    *)
HonestTimeout ==
    [][\A lt \in LTs :
          InQueue /\ pc[lt] = "loop" /\ outcome'[lt] = "timeout" /\ pc'[lt] = "idle" =>
              ~\E e \in snapshot[lt] : Matches(lt, e)]_vars

-----------------------------------------------------------------------------
(* The inductive invariant behind the safety properties (StackProofs).      *)

(* Objects follow each other, and one holds what came in while it was the   *)
(* layer's, in the order it came.                                           *)
Logged == \A i, j \in DOMAIN log :
    log[i].object <= object /\ (i < j => log[i].object <= log[j].object)
Stored == \A o \in Objects : \A i, j \in DOMAIN store[o] :
    /\ store[o][i] \in DOMAIN log
    /\ log[store[o][i]].object = o
    /\ i < j => store[o][i] < store[o][j]

(* What the object of the layer received since it was made.                 *)
Current == \A e \in DOMAIN log : log[e].object = object =>
    /\ renewed => log[e].case = case
    /\ CleanedUp => log[e].cleanups = cleanups

(* A wait stays with the object it began with, whatever that receives later. *)
Waiting == \A lt \in LTs : pc[lt] # "idle" =>
    /\ wait[lt].object <= object
    /\ wait[lt].case <= case /\ wait[lt].cleanups <= cleanups
    /\ \A e \in DOMAIN log : log[e].object = wait[lt].object => Fresh(wait[lt], e)
    /\ pc[lt] = "late" => row.read \in {"value", "drain"}
    /\ pc[lt] = "got" /\ row.read # "stream" =>
           wait[lt].found \in DOMAIN log /\ log[wait[lt].found].object = wait[lt].object

(* A thread reports once for each of its waits that pops or removes, and    *)
(* never goes back to an earlier object.                                    *)
Reported == \A r \in reports :
    /\ r.event \in DOMAIN log
    /\ log[r.event].object = r.object
    /\ r.object <= object
    /\ r.number <= wait[r.by].number
    /\ pc[r.by] # "idle" => r.number < wait[r.by].number /\ r.object <= wait[r.by].object

(* What is left in a list that is popped came after what was popped.        *)
LeftLater == row.read \in {"pop", "stream"} =>
    \A r \in reports : \A i \in DOMAIN store[r.object] :
        (Keyed => log[store[r.object][i]].key = log[r.event].key) =>
            r.event < store[r.object][i]

(* A scan has yet to reach whatever it should find, and the one before a    *)
(* sleep found nothing.                                                     *)
Scanning == \A lt \in LTs :
    /\ snapshot[lt] \subseteq DOMAIN log
    /\ ~InQueue \/ pc[lt] \notin {"loop", "scan", "got"} => snapshot[lt] = {}
    /\ pc[lt] = "loop" => ~\E e \in snapshot[lt] : Matches(lt, e)
    /\ pc[lt] = "scan" => \A e \in snapshot[lt] : Matches(lt, e) =>
           \E i \in DOMAIN Held(lt) : i >= wait[lt].index /\ Held(lt)[i] = e

StackInv == /\ TypeOK /\ IsFiniteSet(reports)
            /\ Logged /\ Stored /\ Current /\ Waiting /\ Reported /\ LeftLater /\ Scanning
            /\ Conserved /\ OfThisCase /\ PoppedInOrder

=============================================================================
