------------------------------- MODULE Synch -------------------------------
(***************************************************************************)
(* Synchronisation of the lower-tester (LT) threads of one test case:      *)
(* autopts/ptsprojects/stack/synch.py, driven by the LT threads of         *)
(* autopts/client.py through TestCase.run_wid (ptsprojects/testcase.py).   *)
(*                                                                         *)
(* A synch element names, for several LTs, the WID that each of them must  *)
(* handle together with the others.  All LTs meet at a start barrier, run  *)
(* their WIDs one after the other in the order of the element's points,    *)
(* and meet again at an end barrier, after which the element is removed    *)
(* from the synch table.  Any thread may cancel the synchronisation: it    *)
(* walks the table, aborts both barriers of each element and sets the done *)
(* flags of its points, then binds _synch_table to a new empty list.       *)
(*                                                                         *)
(* A Python list object is an entry of "heap"; "table" is the entry that   *)
(* _synch_table names.  An iterator keeps the list it was created on, so a *)
(* search or a cancel that is under way does not notice the rebinding, but *)
(* it does notice the removal of an earlier item from its list.            *)
(*                                                                         *)
(* threading.Barrier (standard library) is modelled from its documented    *)
(* behaviour: it fills, drains once the last party has arrived and has run *)
(* the action, and stays broken after an abort.                            *)
(***************************************************************************)
EXTENDS Integers, Sequences, FiniteSets, SequencesExt

CONSTANTS
    LT,          \* the LT threads, one per TestCase instance of the test case
    Adder,       \* the LT whose pre_run commands fill the synch table (LT1)
    Other,       \* other threads that cancel: XML-RPC callback threads, main
    Elem,        \* the synch elements
    Wid,         \* the WIDs that the PTS may send
    Points,      \* Points[e]: the SynchPoints of e, in order, as [lt, wid]
    Table,       \* the elements in the order the test case adds them
    MaxCancels,  \* bound: cancels performed by one thread
    NoLT,        \* active_synch_point = None
    NoElem,      \* synch_elem = None
    NoWid        \* no WID is being handled

Actor == LT \cup Other

Point == [lt : LT, wid : Wid]

ASSUME AdderAssumption == Adder \in LT
ASSUME OtherAssumption == LT \cap Other = {}
ASSUME PointsAssumption ==
    /\ Points \in [Elem -> Seq(Point)]
    /\ \A e \in Elem : \A j, k \in 1..Len(Points[e]) :
           Points[e][j].lt = Points[e][k].lt => j = k
ASSUME TableAssumption ==
    /\ Table \in Seq(Elem)
    /\ \A j, k \in 1..Len(Table) : Table[j] = Table[k] => j = k
ASSUME BoundAssumption == MaxCancels \in Nat
ASSUME NoneAssumption == NoLT \notin LT /\ NoElem \notin Elem /\ NoWid \notin Wid

(* The LTs that take part in e, and those whose turn comes before t's.     *)
Party(e) == {Points[e][k].lt : k \in 1..Len(Points[e])}
Earlier(e, t) ==
    {Points[e][j].lt : j \in {i \in 1..Len(Points[e]) :
        \E k \in 1..Len(Points[e]) : i < k /\ Points[e][k].lt = t}}

VARIABLES
    heap,     \* the list objects that _synch_table was bound to
    table,    \* the list object it is bound to
    added,    \* how many elements of Table have been added
    start,    \* start[e]: _start_barrier
    end,      \* end[e]: _end_barrier
    done,     \* done[e]: the LTs whose points have the done flag set
    active,   \* active[e]: active_synch_point
    pc,       \* pc[t]: where LT t is
    wid,      \* wid[t]: the WID that LT t handles
    at,       \* at[t]: the element LT t found
    iter,     \* iter[a]: the list iterator of a search or of a cancel
    turn,     \* turn[t]: the loop position in wait_for_your_turn
    mine,     \* mine[t]: the local synch_point of wait_for_end
    cpc,      \* cpc[a]: where thread a is in cancel_synch
    cur,      \* cur[a]: the element that a is cancelling
    cancels,  \* cancels[a]: cancels begun by a
    flag,     \* finish_count's flag: some LT did not pass
    ran       \* history: the LTs that completed their WID since e's last start

ltVars   == <<pc, wid, at, turn, mine>>
elemVars == <<start, end, done, active>>
listVars == <<heap, table, added>>
cancelVars == <<cpc, cur, cancels, flag>>
vars == <<ltVars, elemVars, listVars, cancelVars, iter, ran>>

Barrier == [state : {"fill", "drain", "broken"}, waiting : SUBSET LT]

PC == {"pre", "loop", "idle", "search", "enter_start", "at_start", "turn", "check",
       "wid", "delay", "enter_end", "at_end", "remove", "raised", "passed"}

TypeOK ==
    /\ heap \in Seq(Seq(Elem))
    /\ table \in 1..Len(heap)
    /\ added \in 0..Len(Table)
    /\ start \in [Elem -> Barrier]
    /\ end \in [Elem -> Barrier]
    /\ done \in [Elem -> SUBSET LT]
    /\ active \in [Elem -> LT \cup {NoLT}]
    /\ pc \in [LT -> PC]
    /\ wid \in [LT -> Wid \cup {NoWid}]
    /\ at \in [LT -> Elem \cup {NoElem}]
    /\ iter \in [Actor -> [list : Nat, pos : Nat]]
    /\ turn \in [LT -> Nat]
    /\ mine \in [LT -> LT \cup {NoLT}]
    /\ cpc \in [Actor -> {"no", "loop", "abort_start", "set_done"}]
    /\ cur \in [Actor -> Elem \cup {NoElem}]
    /\ cancels \in [Actor -> 0..MaxCancels]
    /\ flag \in BOOLEAN
    /\ ran \in [Elem -> SUBSET LT]

NewBarrier == [state |-> "fill", waiting |-> {}]
NoIter == [list |-> 0, pos |-> 0]

Init ==
    /\ heap = << <<>> >>
    /\ table = 1
    /\ added = 0
    /\ start = [e \in Elem |-> NewBarrier]
    /\ end = [e \in Elem |-> NewBarrier]
    /\ done = [e \in Elem |-> {}]
    /\ active = [e \in Elem |-> NoLT]
    /\ pc = [t \in LT |-> IF t = Adder THEN "pre" ELSE "loop"]
    /\ wid = [t \in LT |-> NoWid]
    /\ at = [t \in LT |-> NoElem]
    /\ iter = [a \in Actor |-> NoIter]
    /\ turn = [t \in LT |-> 0]
    /\ mine = [t \in LT |-> NoLT]
    /\ cpc = [a \in Actor |-> "no"]
    /\ cur = [a \in Actor |-> NoElem]
    /\ cancels = [a \in Actor |-> 0]
    /\ flag = FALSE
    /\ ran = [e \in Elem |-> {}]

-----------------------------------------------------------------------------
(* threading.Barrier for the parties P.  The last party to arrive leaves   *)
(* at once, so it is never among the waiting; a barrier of one party does  *)
(* not drain.                                                              *)

(* Mutant: a barrier made for one party too few.                           *)
OneMissing(b, t, P) == Cardinality(b.waiting \cup {t}) + 1 >= Cardinality(P)

IsLast(b, t, P) == b.waiting \cup {t} = P

Enter(b, t, P) ==
    IF IsLast(b, t, P)
    THEN [b EXCEPT !.state = IF b.waiting = {} THEN "fill" ELSE "drain"]
    ELSE [b EXCEPT !.waiting = @ \cup {t}]

Exit(b, t) ==
    [state |-> IF b.state = "drain" /\ b.waiting = {t} THEN "fill" ELSE b.state,
     waiting |-> b.waiting \ {t}]

Abort(b) == [b EXCEPT !.state = "broken"]

Broken(e) == start[e].state = "broken" \/ end[e].state = "broken"

Goto(t, from, to) == pc[t] = from /\ pc' = [pc EXCEPT ![t] = to]

(* Iterators: the list that a's iterator is on, and one step of it.         *)
Items(a) == heap[iter[a].list]

Advance(a) ==
    iter' = [iter EXCEPT ![a] = [list |-> iter[a].list, pos |-> iter[a].pos + 1]]

-----------------------------------------------------------------------------
(* Filling the table: LT1's pre_run calls add_synch_element once for each  *)
(* element, with fresh done flags.                                         *)

AddSynchElement(t) ==
    /\ t = Adder
    /\ pc[t] = "pre"
    /\ added < Len(Table)
    /\ added' = added + 1
    /\ heap' = [heap EXCEPT ![table] = Append(@, Table[added + 1])]
    /\ UNCHANGED <<table, ltVars, elemVars, cancelVars, iter, ran>>

PreRunDone(t) ==
    /\ t = Adder
    /\ added = Len(Table)
    /\ Goto(t, "pre", "loop")
    /\ UNCHANGED <<listVars, wid, at, turn, mine, elemVars, cancelVars, iter, ran>>

-----------------------------------------------------------------------------
(* The loop of the LT thread: it looks at finish_count's flag and then     *)
(* waits, however long, for the next WID.                                  *)

AwaitStep(t) ==
    /\ ~flag
    /\ Goto(t, "loop", "idle")
    /\ UNCHANGED <<listVars, wid, at, turn, mine, elemVars, cancelVars, iter, ran>>

StoppedExternally(t) ==
    /\ flag
    /\ Goto(t, "loop", "raised")
    /\ UNCHANGED <<listVars, wid, at, turn, mine, elemVars, cancelVars, iter, ran>>

(* Synch.wait_for_start: search the table for the LT's WID ...             *)

RunWid(t) ==
    /\ Goto(t, "idle", "search")
    /\ \E w \in Wid : wid' = [wid EXCEPT ![t] = w]
    /\ iter' = [iter EXCEPT ![t] = [list |-> table, pos |-> 1]]
    /\ UNCHANGED <<listVars, at, turn, mine, elemVars, cancelVars, ran>>

FindMatching(e, t) == \E k \in 1..Len(Points[e]) :
                          Points[e][k] = [lt |-> t, wid |-> wid[t]]

(* Locals that are not read again are reset, here and below, so that TLC   *)
(* does not tell apart states that differ in them only.                    *)
SearchOver(t) ==
    /\ wid' = [wid EXCEPT ![t] = NoWid]
    /\ iter' = [iter EXCEPT ![t] = NoIter]

SearchMiss(t) ==
    /\ pc[t] = "search"
    /\ iter[t].pos <= Len(Items(t))
    /\ ~FindMatching(Items(t)[iter[t].pos], t)
    /\ Advance(t)
    /\ UNCHANGED <<listVars, ltVars, elemVars, cancelVars, ran>>

SearchHit(t) ==
    /\ Goto(t, "search", "enter_start")
    /\ iter[t].pos <= Len(Items(t))
    /\ FindMatching(Items(t)[iter[t].pos], t)
    /\ at' = [at EXCEPT ![t] = Items(t)[iter[t].pos]]
    /\ SearchOver(t)
    /\ UNCHANGED <<listVars, turn, mine, elemVars, cancelVars, ran>>

(* ... no point matches: the WID is handled without synchronisation.       *)
SearchEnd(t) ==
    /\ Goto(t, "search", "loop")
    /\ iter[t].pos > Len(Items(t))
    /\ SearchOver(t)
    /\ UNCHANGED <<listVars, at, turn, mine, elemVars, cancelVars, ran>>

(* ... wait at the start barrier; the last to arrive clears the done flags *)
(* (the barrier's action) before anybody is released.                      *)
EnterStart(t) == LET e == at[t] IN
    /\ pc[t] = "enter_start"
    /\ start[e].state = "fill"
    /\ start' = [start EXCEPT ![e] = Enter(@, t, Party(e))]
    /\ IF IsLast(start[e], t, Party(e))
       THEN /\ pc' = [pc EXCEPT ![t] = "turn"]
            /\ done' = [done EXCEPT ![e] = {}]
            /\ ran' = [ran EXCEPT ![e] = {}]
            /\ turn' = [turn EXCEPT ![t] = 1]
       ELSE /\ pc' = [pc EXCEPT ![t] = "at_start"]
            /\ UNCHANGED <<done, ran, turn>>
    /\ UNCHANGED <<listVars, wid, at, mine, end, active, cancelVars, iter>>

LeaveStart(t) == LET e == at[t] IN
    /\ pc[t] = "at_start"
    /\ start[e].state = "drain"
    /\ pc' = [pc EXCEPT ![t] = "turn"]
    /\ start' = [start EXCEPT ![e] = Exit(@, t)]
    /\ turn' = [turn EXCEPT ![t] = 1]
    /\ UNCHANGED <<listVars, wid, at, mine, end, done, active, cancelVars, iter, ran>>

(* BrokenBarrierError, on entering the barrier or while waiting at it.     *)
StartBroken(t) == LET e == at[t] IN
    /\ pc[t] \in {"enter_start", "at_start"}
    /\ start[e].state = "broken"
    /\ pc' = [pc EXCEPT ![t] = "raised"]
    /\ start' = [start EXCEPT ![e] = Exit(@, t)]
    /\ UNCHANGED <<listVars, wid, at, turn, mine, end, done, active, cancelVars, iter, ran>>

-----------------------------------------------------------------------------
(* SynchElem.wait_for_your_turn: own point, or wait for an earlier one.    *)

TurnIs(t) == Points[at[t]][turn[t]].lt

MyTurn(t) ==
    /\ Goto(t, "turn", "wid")
    /\ TurnIs(t) = t
    /\ active' = [active EXCEPT ![at[t]] = t]
    /\ turn' = [turn EXCEPT ![t] = 0]
    /\ UNCHANGED <<listVars, wid, at, mine, start, end, done, cancelVars, iter, ran>>

(* Mutant: point.wait() returns at once.                                   *)
PointNotAwaited(t) ==
    /\ Goto(t, "turn", "check")
    /\ TurnIs(t) # t
    /\ UNCHANGED <<listVars, wid, at, turn, mine, elemVars, cancelVars, iter, ran>>

PointDone(t) ==
    /\ Goto(t, "turn", "check")
    /\ TurnIs(t) # t
    /\ TurnIs(t) \in done[at[t]]
    /\ UNCHANGED <<listVars, wid, at, turn, mine, elemVars, cancelVars, iter, ran>>

(* Mutant: the barriers are not looked at after the wait.                  *)
NoCheck(t) ==
    /\ Goto(t, "check", "turn")
    /\ turn' = [turn EXCEPT ![t] = @ + 1]
    /\ UNCHANGED <<listVars, wid, at, mine, elemVars, cancelVars, iter, ran>>

CheckBroken(t) ==
    /\ pc[t] = "check"
    /\ \/ /\ Broken(at[t])
          /\ pc' = [pc EXCEPT ![t] = "raised"]
          /\ turn' = [turn EXCEPT ![t] = 0]
       \/ /\ ~Broken(at[t])
          /\ pc' = [pc EXCEPT ![t] = "turn"]
          /\ turn' = [turn EXCEPT ![t] = @ + 1]
    /\ UNCHANGED <<listVars, wid, at, mine, elemVars, cancelVars, iter, ran>>

-----------------------------------------------------------------------------
(* The WID handler has answered and the deferred step Synch.wait_for_end   *)
(* runs: it reads the element's active point, sleeps for the point's delay *)
(* and only then sets the done flag of the point it read.                  *)

ReadActivePoint(t) ==
    /\ Goto(t, "wid", "delay")
    /\ mine' = [mine EXCEPT ![t] = active[at[t]]]
    /\ UNCHANGED <<listVars, wid, at, turn, elemVars, cancelVars, iter, ran>>

(* Mutant: wait_for_end goes to the barrier without set_done.              *)
DoneForgotten(t) ==
    /\ Goto(t, "delay", "enter_end")
    /\ ran' = [ran EXCEPT ![at[t]] = @ \cup {t}]
    /\ mine' = [mine EXCEPT ![t] = NoLT]
    /\ UNCHANGED <<listVars, wid, at, turn, elemVars, cancelVars, iter>>

SetDone(t) ==
    /\ Goto(t, "delay", "enter_end")
    /\ done' = [done EXCEPT ![at[t]] = @ \cup {mine[t]}]
    /\ ran' = [ran EXCEPT ![at[t]] = @ \cup {t}]
    /\ mine' = [mine EXCEPT ![t] = NoLT]
    /\ UNCHANGED <<listVars, wid, at, turn, start, end, active, cancelVars, iter>>

EnterEnd(t) == LET e == at[t] IN
    /\ pc[t] = "enter_end"
    /\ end[e].state = "fill"
    /\ end' = [end EXCEPT ![e] = Enter(@, t, Party(e))]
    /\ IF IsLast(end[e], t, Party(e))
       THEN /\ pc' = [pc EXCEPT ![t] = "remove"]
            /\ done' = [done EXCEPT ![e] = {}]
       ELSE /\ pc' = [pc EXCEPT ![t] = "at_end"]
            /\ UNCHANGED done
    /\ UNCHANGED <<listVars, wid, at, turn, mine, start, active, cancelVars, iter, ran>>

LeaveEnd(t) == LET e == at[t] IN
    /\ pc[t] = "at_end"
    /\ end[e].state = "drain"
    /\ pc' = [pc EXCEPT ![t] = "remove"]
    /\ end' = [end EXCEPT ![e] = Exit(@, t)]
    /\ UNCHANGED <<listVars, wid, at, turn, mine, start, done, active, cancelVars, iter, ran>>

EndBroken(t) == LET e == at[t] IN
    /\ pc[t] \in {"enter_end", "at_end"}
    /\ end[e].state = "broken"
    /\ pc' = [pc EXCEPT ![t] = "raised"]
    /\ end' = [end EXCEPT ![e] = Exit(@, t)]
    /\ UNCHANGED <<listVars, wid, at, turn, mine, start, done, active, cancelVars, iter, ran>>

(* list.remove of the element; a missing element is ignored.               *)
RemoveElement(t) ==
    /\ Goto(t, "remove", "loop")
    /\ \/ /\ \A i \in 1..Len(heap[table]) : heap[table][i] # at[t]
          /\ UNCHANGED heap
       \/ \E i \in 1..Len(heap[table]) :
             /\ heap[table][i] = at[t]
             /\ heap' = [heap EXCEPT ![table] = RemoveAt(@, i)]
    /\ at' = [at EXCEPT ![t] = NoElem]
    /\ UNCHANGED <<table, added, wid, turn, mine, elemVars, cancelVars, iter, ran>>

-----------------------------------------------------------------------------
(* The LT thread leaves the dialog: on an exception of a WID handler or a  *)
(* KeyboardInterrupt injected by the main thread (not while the thread is  *)
(* blocked in a barrier), or with the verdict PASS between two WIDs.       *)

Stop(t) ==
    /\ pc[t] \notin {"at_start", "at_end", "raised", "passed"}
    /\ pc' = [pc EXCEPT ![t] = "raised"]
    /\ SearchOver(t)
    /\ turn' = [turn EXCEPT ![t] = 0]
    /\ mine' = [mine EXCEPT ![t] = NoLT]
    /\ UNCHANGED <<listVars, at, elemVars, cancelVars, ran>>

Pass(t) ==
    /\ Goto(t, "idle", "passed")
    /\ UNCHANGED <<listVars, wid, at, turn, mine, elemVars, cancelVars, iter, ran>>

-----------------------------------------------------------------------------
(* Synch.cancel_synch, by an LT in its "finally" (verdict other than PASS),*)
(* by LT1's clean-up after the test case, or by another thread.            *)

MayCancel(a) ==
    \/ a \in Other
    \/ a \in LT /\ pc[a] = "raised"
    \/ a = Adder /\ pc[a] = "passed"

CancelSynch(a) ==
    /\ MayCancel(a)
    /\ cpc[a] = "no"
    /\ cancels[a] < MaxCancels
    /\ cancels' = [cancels EXCEPT ![a] = @ + 1]
    /\ flag' = (flag \/ (a \in LT /\ pc[a] = "raised"))
    /\ cpc' = [cpc EXCEPT ![a] = "loop"]
    /\ iter' = [iter EXCEPT ![a] = [list |-> table, pos |-> 1]]
    /\ UNCHANGED <<listVars, ltVars, elemVars, cur, ran>>

(* Mutant: the done flags are set before the start barrier is aborted.     *)
AbortEndOnly(a) ==
    /\ cpc[a] = "loop"
    /\ iter[a].pos <= Len(Items(a))
    /\ LET e == Items(a)[iter[a].pos] IN
          /\ cur' = [cur EXCEPT ![a] = e]
          /\ end' = [end EXCEPT ![e] = Abort(@)]
    /\ Advance(a)
    /\ cpc' = [cpc EXCEPT ![a] = "set_done"]
    /\ UNCHANGED <<listVars, ltVars, start, done, active, cancels, flag, ran>>

AbortEnd(a) ==
    /\ cpc[a] = "loop"
    /\ iter[a].pos <= Len(Items(a))
    /\ LET e == Items(a)[iter[a].pos] IN
          /\ cur' = [cur EXCEPT ![a] = e]
          /\ end' = [end EXCEPT ![e] = Abort(@)]
    /\ Advance(a)
    /\ cpc' = [cpc EXCEPT ![a] = "abort_start"]
    /\ UNCHANGED <<listVars, ltVars, start, done, active, cancels, flag, ran>>

(* Mutant: the start barrier is not aborted.                               *)
StartNotAborted(a) ==
    /\ cpc[a] = "abort_start"
    /\ cpc' = [cpc EXCEPT ![a] = "set_done"]
    /\ UNCHANGED <<listVars, ltVars, elemVars, cur, cancels, flag, iter, ran>>

AbortStart(a) ==
    /\ cpc[a] = "abort_start"
    /\ start' = [start EXCEPT ![cur[a]] = Abort(@)]
    /\ cpc' = [cpc EXCEPT ![a] = "set_done"]
    /\ UNCHANGED <<listVars, ltVars, end, done, active, cur, cancels, flag, iter, ran>>

SetAllDone(a) ==
    /\ cpc[a] = "set_done"
    /\ done' = [done EXCEPT ![cur[a]] = Party(cur[a])]
    /\ cur' = [cur EXCEPT ![a] = NoElem]
    /\ cpc' = [cpc EXCEPT ![a] = "loop"]
    /\ UNCHANGED <<listVars, ltVars, start, end, active, cancels, flag, iter, ran>>

(* Mutant: the table names a list that is never made.                      *)
NoNewList(a) ==
    /\ cpc[a] = "loop"
    /\ iter[a].pos > Len(Items(a))
    /\ table' = Len(heap) + 1
    /\ cpc' = [cpc EXCEPT ![a] = "no"]
    /\ iter' = [iter EXCEPT ![a] = NoIter]
    /\ UNCHANGED <<heap, added, ltVars, elemVars, cur, cancels, flag, ran>>

RebindTable(a) ==
    /\ cpc[a] = "loop"
    /\ iter[a].pos > Len(Items(a))
    /\ heap' = Append(heap, <<>>)
    /\ table' = Len(heap) + 1
    /\ cpc' = [cpc EXCEPT ![a] = "no"]
    /\ iter' = [iter EXCEPT ![a] = NoIter]
    /\ UNCHANGED <<added, ltVars, elemVars, cur, cancels, flag, ran>>

-----------------------------------------------------------------------------
(* The steps a thread takes by itself.                                     *)
Step(t) ==
    \/ AwaitStep(t) \/ StoppedExternally(t)
    \/ SearchMiss(t) \/ SearchHit(t) \/ SearchEnd(t)
    \/ EnterStart(t) \/ LeaveStart(t) \/ StartBroken(t)
    \/ MyTurn(t) \/ PointDone(t) \/ CheckBroken(t)
    \/ ReadActivePoint(t) \/ SetDone(t)
    \/ EnterEnd(t) \/ LeaveEnd(t) \/ EndBroken(t) \/ RemoveElement(t)

Cancel(a) ==
    CancelSynch(a) \/ AbortEnd(a) \/ AbortStart(a) \/ SetAllDone(a) \/ RebindTable(a)

Next ==
    \/ \E t \in LT : \/ AddSynchElement(t) \/ PreRunDone(t)
                     \/ RunWid(t) \/ Step(t) \/ Stop(t) \/ Pass(t)
    \/ \E a \in Actor : Cancel(a)

Spec == Init /\ [][Next]_vars

(* A runnable thread runs.  Nothing obliges the PTS to send a WID, a WID   *)
(* handler to fail, or a thread other than a failed LT to begin a cancel.  *)
Fairness ==
    /\ \A t \in LT : WF_vars(Step(t))
    /\ \A t \in LT : WF_vars(pc[t] = "raised" /\ CancelSynch(t))
    /\ \A a \in Actor : WF_vars(AbortEnd(a) \/ AbortStart(a) \/ SetAllDone(a) \/ RebindTable(a))

FairSpec == Spec /\ Fairness

-----------------------------------------------------------------------------
(* PROPERTIES *)

Inside == {"turn", "check", "wid", "delay"}
Handling(e, t) == at[t] = e /\ pc[t] \in {"wid", "delay"}

(* Two LTs never handle the WIDs of one element at the same time, whatever *)
(* is cancelled meanwhile: wait_for_your_turn must see the broken barrier  *)
(* before it trusts a done flag that cancel_synch has set.                 *)
TurnExclusive ==
    \A e \in Elem : \A t, u \in LT : Handling(e, t) /\ Handling(e, u) => t = u

(* An LT handles its WID only when every LT before it in the element has   *)
(* handled its own in this round, so the order of the points is kept even  *)
(* across the clearing of the flags and a cancel.                          *)
TurnOrder ==
    \A e \in Elem, t \in LT : Handling(e, t) => Earlier(e, t) \subseteq ran[e]

(* wait_for_end reads the active point from the shared element long after  *)
(* wait_for_your_turn wrote it: it must still be the reader's own point.   *)
OwnPointDone ==
    \A t \in LT : pc[t] = "delay" => mine[t] = t

(* The threads meet as SynchAbs promises: a round begins when all of them  *)
(* are there and nobody leaves it before all have run, under cancels and   *)
(* failures at any moment.                                                 *)
Phase(e, t) ==
    IF at[t] # e THEN "out"
    ELSE CASE pc[t] \in {"at_start", "turn", "check"} -> "arrived"
           [] pc[t] \in {"wid", "delay"} -> "running"
           [] pc[t] \in {"enter_end", "at_end"} -> "finished"
           [] pc[t] = "raised" -> "dropped"
           [] OTHER -> "out"

Abs == INSTANCE SynchAbs WITH
           phase <- [e \in Elem |-> [t \in LT |-> Phase(e, t)]]

Meets == Abs!Spec

(* Once all have arrived, the round ends for everybody: all WIDs run and   *)
(* all LTs go on, or the synchronisation breaks and wakes them.            *)
RoundEnds ==
    \A e \in Elem : start[e].state = "drain" ~>
        \A t \in LT : ~(at[t] = e /\ pc[t] \in Inside \cup {"at_start", "enter_end", "at_end"})

(* A cancel leaves no LT behind: when every cancel has run to its end, no  *)
(* LT still waits at an unbroken barrier of an element that is no longer   *)
(* in the table, where no later cancel can find it.                        *)
NobodyLeftBehind ==
    (\A a \in Actor : cpc[a] = "no") =>
        \A t \in LT :
            /\ pc[t] = "at_start" /\ start[at[t]].state = "fill"
            => \E i \in 1..Len(heap[table]) : heap[table][i] = at[t]

(* A failed LT does not keep its partners waiting: the cancel that it      *)
(* performs on its way out ends every round that needs it.                 *)
FailureReleases ==
    \A e \in Elem : \A t, u \in LT :
        (pc[t] = "raised" /\ t \in Party(e) /\ at[u] = e /\ pc[u] \in {"at_start", "at_end", "turn"})
            ~> ~(at[u] = e /\ pc[u] \in {"at_start", "at_end", "turn"})
-----------------------------------------------------------------------------
(* THE INDUCTIVE INVARIANT behind the safety properties and Meets.         *)

InElem == Inside \cup {"enter_start", "at_start", "enter_end", "at_end", "remove"}

(* Iterators and loop variables are on an existing list and element.       *)
IterOK ==
    \A a \in Actor : cpc[a] # "no" \/ (a \in LT /\ pc[a] = "search") =>
        iter[a].list \in 1..Len(heap) /\ iter[a].pos \in Nat \ {0}
CurOK == \A a \in Actor : cpc[a] \in {"abort_start", "set_done"} => cur[a] \in Elem
AtOK == \A t \in LT : pc[t] \in InElem => at[t] \in Elem /\ t \in Party(at[t])

(* An LT cancels only after it has left the loop, so its one iterator is   *)
(* never shared by a search and a cancel.                                  *)
CancelOK == \A t \in LT : cpc[t] # "no" => pc[t] \in {"raised", "passed"}

CursorsOK == IterOK /\ CurOK /\ AtOK /\ CancelOK

(* A barrier knows exactly the threads that are blocked at it.             *)
StartWaitingOK == \A e \in Elem, t \in LT :
    t \in start[e].waiting <=> pc[t] = "at_start" /\ at[t] = e
EndWaitingOK == \A e \in Elem, t \in LT :
    t \in end[e].waiting <=> pc[t] = "at_end" /\ at[t] = e

WaitingOK == StartWaitingOK /\ EndWaitingOK

(* A done flag is genuine unless a cancel has broken the start barrier, and*)
(* it is the canceller that has broken it before it sets the flags.        *)
GenuineOK == \A e \in Elem : start[e].state # "broken" => done[e] \subseteq ran[e]
AbortFirst == \A a \in Actor : cpc[a] = "set_done" => start[cur[a]].state = "broken"

FlagsOK == GenuineOK /\ AbortFirst

(* Since the start of the round, an LT inside the element has not finished *)
(* and has seen every LT before its loop position finish.                  *)
UnfinishedOK == \A t \in LT :
    pc[t] \in Inside \/ (pc[t] = "at_start" /\ start[at[t]].state = "drain")
        => t \notin ran[at[t]]
LoopOK == \A t \in LT : pc[t] \in {"turn", "check"} =>
    /\ turn[t] \in 1..Len(Points[at[t]])
    /\ \A k \in 1..(turn[t] - 1) : Points[at[t]][k].lt \in ran[at[t]]
CheckOK == \A t \in LT :
    pc[t] = "check" => TurnIs(t) # t /\ TurnIs(t) \in done[at[t]]
ActiveOK == \A t \in LT : pc[t] = "wid" => active[at[t]] = t

ProgressOK == UnfinishedOK /\ LoopOK /\ CheckOK /\ ActiveOK

(* The round of e that t is in: begun, its own WID handled, or over.       *)
Entered(e, t) == /\ at[t] = e
                 /\ pc[t] \in Inside \/ (pc[t] = "at_start" /\ start[e].state = "drain")
Finished(e, t) == at[t] = e /\ pc[t] \in {"enter_end", "at_end"}
Parting(e, t) == at[t] = e /\ pc[t] = "at_end" /\ end[e].state = "drain"

(* Only parties run, everybody is there once a round has begun, and nobody *)
(* parts before all have run, when no new round can have begun.            *)
RanOK == \A e \in Elem : ran[e] \subseteq Party(e)
TogetherOK == \A e \in Elem : \A t \in LT, u \in Party(e) :
    Entered(e, t) => Phase(e, u) # "out"
FinishedOK == \A e \in Elem, t \in LT : Finished(e, t) => t \in ran[e]
PartingOK == \A e \in Elem : \A t, u \in LT :
    Parting(e, t) => ran[e] = Party(e) /\ ~Entered(e, u)

MeetingOK == RanOK /\ TogetherOK /\ FinishedOK /\ PartingOK

Inv ==
    /\ TypeOK
    /\ CursorsOK
    /\ WaitingOK
    /\ FlagsOK
    /\ ProgressOK
    /\ MeetingOK
    /\ TurnOrder
    /\ OwnPointDone
=============================================================================
