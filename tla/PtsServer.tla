----------------------------- MODULE PtsServer -----------------------------
(***************************************************************************)
(* One PTS instance of the server: the thread that calls PTS               *)
(* (PyPTSWithCallback of autoptsserver.py, with the methods of PyPTS in    *)
(* autopts/ptscontrol.py), the client that dispatches methods to it, and   *)
(* the superguard Timer that stops PTS under a method.                     *)
(*                                                                         *)
(* The server runs in the client's process (PtsServer of client.py) or in  *)
(* one of its own; only in the first can an interrupted LT thread leave    *)
(* _dispatch_blocking while its reply is still to come.                    *)
(*                                                                         *)
(* PTS itself is external: a new instance has no workspace and defaults,   *)
(* it refuses a PICS or PIXIT value it already has, and RunTestCase may    *)
(* never return.  enable_maximum_logging is recorded as set_pics is.       *)
(***************************************************************************)
EXTENDS Naturals, Sequences, FiniteSets, SequencesExt

CONSTANTS
    Pixits, Pics, \* names of the parameters that are set
    Values,       \* their values
    Timeouts,     \* the call timeouts that are set
    Default,      \* the value in a new workspace; of the timeout: none
    Unset,        \* no caller has asked for a value
    OneProcess,   \* the server is a thread of the client
    StartRetries, \* dongle_init_retry: failing starts after which the server ends
    MaxCalls,     \* bound: calls of the client
    MaxAbandons   \* bound: calls it does not wait for the end of

ASSUME NamesAssumption == /\ Pixits \cap Pics = {}
                          /\ {"none", "timeout"} \cap (Pixits \cup Pics) = {}
ASSUME ValuesAssumption == Pixits # {} /\ Values # {}
ASSUME SwitchAssumption == OneProcess \in BOOLEAN
ASSUME BoundAssumption == /\ StartRetries \in Nat \ {0}
                          /\ MaxCalls \in Nat /\ MaxAbandons \in Nat

VARIABLES
    caller,   \* the client: idle or in a call, its number and kind
    called,   \* how many calls there were: the blocking, the others
    requests, \* ptscontrol_request_queue
    replies,  \* ptscontrol_response_queue: the numbers of the calls replied to
    results,  \* ClientCallback._results: the number of the call answered, 0 when clear
    got,      \* the number of the call whose reply the client took last, 0 if none
    left,     \* blocking calls the client was interrupted in
    gaveUp,   \* waits of the client for a result that timed out
    lost,     \* the number of the call whose result was lost last, 0 if none
    pc, cur,  \* where the PTS thread is and in which request
    index,    \* the item it replays or reverts
    tries,    \* starts of PTS that failed
    pts,      \* PTS: whether it runs, its workspace and values; the sender and logger
    recov, temp, flag, \* _recov, the names in _temp_changes, _recov_in_progress
    end,      \* _end is set
    timer, killer, \* the superguard Timer ("none": --superguard is 0), the thread it started
    wanted,   \* the values set successfully for good
    failed    \* a recovery raised since the caches were cleaned

client == <<caller, called, results, got, left, gaveUp, lost>>
memory == <<recov, temp, flag, wanted, failed>>
thread == <<pc, cur, index, tries>>
vars == <<caller, called, requests, replies, results, got, left, gaveUp, lost, pc, cur,
          index, tries, pts, recov, temp, flag, end, timer, killer, wanted, failed>>

Names == Pixits \cup Pics \cup {"timeout"}
Call(m, key, val) == [m |-> m, key |-> key, val |-> val]
Plain(m) == Call(m, "none", Default)

Nonblocking == {"restart_pts", "recover_pts", "run_test_case"}
OpenWorkspace == Plain("open_workspace")
SettingCalls ==
    [m : {"set_pixit", "update_pixit_param"}, key : Pixits, val : Values]
        \cup [m : {"set_pics"}, key : Pics, val : Values]
        \cup [m : {"set_call_timeout"}, key : {"timeout"}, val : Timeouts]
Calls == SettingCalls \cup {OpenWorkspace}
            \cup {Plain(m) : m \in {"cleanup_caches", "stop_pts"} \cup Nonblocking}
Recordable == {c \in SettingCalls : c.m # "update_pixit_param"} \cup {OpenWorkspace}
Request == [call : Calls, number : 1 .. MaxCalls]
NoRequest == [call |-> Plain("stop_pts"), number |-> 0]

Defaults == [n \in Names |-> Default]
Started == [up |-> TRUE, open |-> FALSE, value |-> Defaults, sender |-> "open"]
Stopped == [up |-> FALSE, open |-> FALSE, value |-> Defaults, sender |-> "none"]

(* What PTS does with a call of its interface.                              *)
Accepts(c) ==
    /\ pts.up
    /\ c.m \in {"set_pixit", "update_pixit_param", "set_pics"} =>
           pts.open /\ pts.value[c.key] # c.val
Effect(c) ==
    IF c = OpenWorkspace
    THEN [pts EXCEPT !.open = TRUE,
                     !.value = [Defaults EXCEPT !["timeout"] = pts.value["timeout"]]]
    ELSE [pts EXCEPT !.value[c.key] = c.val]
Wants(c) ==
    CASE c = OpenWorkspace            -> [n \in Names |-> IF n = "timeout" THEN wanted[n] ELSE Unset]
      [] c.m = "update_pixit_param"   -> wanted
      [] OTHER                        -> [wanted EXCEPT ![c.key] = c.val]

(* After init_pts and the project's set_pixits: a workspace is open, a      *)
(* PIXIT is set, and both are recorded.                                     *)
FirstPixit == CHOOSE c \in SettingCalls : c.m = "set_pixit"

Init ==
    /\ caller = [state |-> "idle", blocking |-> TRUE, number |-> 0, m |-> "stop_pts"]
    /\ called = [blocking |-> 0, others |-> 0]
    /\ requests = <<>> /\ replies = <<>>
    /\ results = [m \in Nonblocking |-> 0]
    /\ got = 0 /\ left = 0 /\ gaveUp = 0 /\ lost = 0
    /\ pc = "idle" /\ cur = NoRequest /\ index = 1 /\ tries = 0
    /\ pts = [Started EXCEPT !.open = TRUE, !.value[FirstPixit.key] = FirstPixit.val]
    /\ recov = <<OpenWorkspace, FirstPixit>> /\ temp = <<>> /\ flag = FALSE
    /\ end = FALSE /\ timer \in {"off", "none"} /\ killer = "none"
    /\ wanted = [n \in Names |-> IF n = FirstPixit.key THEN FirstPixit.val ELSE Unset]
    /\ failed = FALSE

-----------------------------------------------------------------------------
(* The client.                                                              *)

TimedOut == MaxCalls + 1 \* in results: the Timer of a wait set the flag

(* init_pts cleans the caches and restarts PTS.  A test case begins with    *)
(* callback.cleanup().                                                      *)
Dispatch(c) ==
    LET blocking == c.m \notin Nonblocking
        number   == IF blocking THEN called.blocking + 1 ELSE called.others + 1
    IN  /\ caller.state = "idle" /\ ~end
        /\ called.blocking + called.others < MaxCalls
        /\ c.m = "restart_pts" <=> caller.m = "cleanup_caches"
        /\ requests' = Append(requests, [call |-> c, number |-> number])
        /\ called' = IF blocking THEN [called EXCEPT !.blocking = @ + 1]
                                 ELSE [called EXCEPT !.others = @ + 1]
        /\ caller' = [state |-> "waits", blocking |-> blocking, number |-> number, m |-> c.m]
        /\ results' = IF c.m = "run_test_case" THEN [m \in Nonblocking |-> 0] ELSE results
        /\ got' = 0
        /\ UNCHANGED <<replies, left, gaveUp, lost, thread, pts, memory, end, timer, killer>>

(* Mutant: the wait for a reply does not look at _end.                      *)
GetReplyOnly ==
    /\ caller.state = "waits" /\ caller.blocking
    /\ replies # <<>> /\ got' = Head(replies) /\ replies' = Tail(replies)
    /\ caller' = [caller EXCEPT !.state = "idle"]
    /\ UNCHANGED <<called, requests, results, left, gaveUp, lost, thread, pts, memory, end,
                   timer, killer>>

(* _dispatch_blocking takes what comes first, and None when the server ends. *)
GetReply ==
    /\ caller.state = "waits" /\ caller.blocking
    /\ \/ replies # <<>> /\ got' = Head(replies) /\ replies' = Tail(replies)
       \/ replies = <<>> /\ end /\ UNCHANGED <<got, replies>>
    /\ caller' = [caller EXCEPT !.state = "idle"]
    /\ UNCHANGED <<called, requests, results, left, gaveUp, lost, thread, pts, memory, end,
                   timer, killer>>

GetResult ==
    /\ caller.state = "waits" /\ ~caller.blocking /\ results[caller.m] # 0
    /\ got' = results[caller.m]
    /\ results' = [results EXCEPT ![caller.m] = 0]
    /\ caller' = [caller EXCEPT !.state = "idle"]
    /\ UNCHANGED <<called, requests, replies, left, gaveUp, lost, thread, pts, memory, end,
                   timer, killer>>

(* The LT thread is interrupted inside _dispatch_blocking; or the wait for  *)
(* a result times out, which leaves the flag of the result set.             *)
Abandon ==
    /\ caller.state = "waits"
    /\ left + gaveUp < MaxAbandons
    /\ \/ caller.blocking /\ OneProcess /\ left' = left + 1 /\ UNCHANGED <<gaveUp, results>>
       \/ /\ ~caller.blocking /\ gaveUp' = gaveUp + 1 /\ UNCHANGED left
          /\ results' = [results EXCEPT ![caller.m] = IF @ = 0 THEN TimedOut ELSE @]
    /\ caller' = [caller EXCEPT !.state = "idle"]
    /\ UNCHANGED <<called, requests, replies, got, lost, thread, pts, memory, end, timer, killer>>

-----------------------------------------------------------------------------
(* The PTS thread.                                                          *)

Entry(m) ==
    CASE m = "stop_pts"       -> "stop"
      [] m = "cleanup_caches" -> "clean"
      [] m = "restart_pts"    -> "restart"
      [] m = "recover_pts"    -> "recover"
      [] m = "run_test_case"  -> "reopen"
      [] OTHER                -> "call"

At(from, to) == pc = from /\ pc' = to

(* _handle_ptscontrol_request.  The superguard takes minutes: of the        *)
(* methods only those the client does not block in can last as long.        *)
Handle ==
    /\ pc = "idle" /\ ~end /\ requests # <<>>
    /\ cur' = Head(requests) /\ requests' = Tail(requests)
    /\ pc' = Entry(cur'.call.m)
    /\ timer' = IF timer = "off" /\ cur'.call.m \in Nonblocking THEN "armed" ELSE timer
    /\ UNCHANGED <<client, replies, index, tries, pts, memory, end, killer>>

Rest == pc' = "idle" /\ cur' = NoRequest /\ index' = 1 /\ tries' = 0

TimerCancelled == timer' = IF timer = "armed" THEN "off" ELSE timer

(* Mutant: the reply goes to the response queue whoever asked.              *)
ReplyQueued ==
    /\ pc = "reply" /\ Rest
    /\ TimerCancelled
    /\ replies' = Append(replies, cur.number)
    /\ results' = IF cur.call.m \in Nonblocking
                  THEN [results EXCEPT ![cur.call.m] = cur.number] ELSE results
    /\ UNCHANGED <<caller, called, got, left, gaveUp, lost, requests, pts, memory,
                   end, killer>>

(* A result is lost when there is no callback any more, or set_result       *)
(* raises, which is only logged.                                            *)
Reply ==
    /\ pc = "reply" /\ Rest
    /\ TimerCancelled
    /\ \/ /\ cur.call.m \notin Nonblocking
          /\ replies' = Append(replies, cur.number) /\ UNCHANGED <<results, lost>>
       \/ /\ cur.call.m \in Nonblocking
          /\ results' = [results EXCEPT ![cur.call.m] = cur.number] /\ UNCHANGED <<replies, lost>>
       \/ /\ cur.call.m \in Nonblocking
          /\ lost' = cur.number /\ UNCHANGED <<replies, results>>
    /\ UNCHANGED <<caller, called, got, left, gaveUp, requests, pts, memory,
                   end, killer>>

(* The loop of _pts_thread_work ends and stops PTS.                         *)
ThreadEnds ==
    /\ pc = "idle" /\ end
    /\ pc' = "ended"
    /\ pts' = Stopped
    /\ UNCHANGED <<client, requests, replies, cur, index, tries, memory, end, timer, killer>>

(* A setter calls PTS; when PTS refuses it raises, or returns (set_pics).   *)
CallPts ==
    /\ pc = "call"
    /\ IF Accepts(cur.call)
       THEN pc' = "record" /\ pts' = Effect(cur.call) /\ wanted' = Wants(cur.call)
       ELSE pc' = "reply" /\ UNCHANGED <<pts, wanted>>
    /\ UNCHANGED <<client, requests, replies, cur, index, tries, recov, temp, flag, end,
                   timer, killer, failed>>

(* Mutant: a PIXIT that is recorded keeps its item.                         *)
AddedOnce(c) ==
    IF \E i \in DOMAIN recov : c.m = "set_pixit" /\ recov[i].m = c.m /\ recov[i].key = c.key
    THEN recov ELSE Append(recov, c)

(* Where a PIXIT is recorded.                                               *)
SetAt(name) == {i \in DOMAIN recov : recov[i].m = "set_pixit" /\ recov[i].key = name}

(* add_recov: the first item that sets the same PIXIT is removed.           *)
Added(c) ==
    IF c.m = "set_pixit" /\ SetAt(c.key) # {}
    THEN Append(RemoveAt(recov, Min(SetAt(c.key))), c)
    ELSE Append(recov, c)

(* del_recov without arguments: what is left of a list when the items of a  *)
(* method are dropped, for each of its beginnings.                          *)
Without(s, m) ==
    LET kept[n \in 0 .. Len(s)] ==
            IF n = 0 THEN <<>>
            ELSE IF s[n].m = m THEN kept[n - 1] ELSE Append(kept[n - 1], s[n])
    IN  kept

Recorded ==
    CASE flag /\ cur.call # Call("set_call_timeout", "timeout", Default) -> recov
      [] cur.call.m = "update_pixit_param"          -> recov
      [] cur.call.m = "set_call_timeout" /\ cur.call.val = Default
                         -> Without(recov, "set_call_timeout")[Len(recov)]
      [] OTHER           -> Added(cur.call)

Record ==
    /\ At("record", "reply")
    /\ recov' = Recorded
    /\ temp' = IF cur.call.m = "update_pixit_param" /\ ~flag
               THEN Append(temp, cur.call.key) ELSE temp
    /\ UNCHANGED <<client, requests, replies, cur, index, tries, pts, flag, end, timer,
                   killer, wanted, failed>>

StopPts ==
    /\ At("stop", "reply")
    /\ pts' = Stopped
    /\ UNCHANGED <<client, requests, replies, cur, index, tries, memory, end, timer, killer>>

CleanupCaches ==
    /\ At("clean", "reply")
    /\ recov' = <<>> /\ flag' = FALSE
    /\ wanted' = [n \in Names |-> Unset] /\ failed' = FALSE
    /\ UNCHANGED <<client, requests, replies, cur, index, tries, pts, temp, end, timer, killer>>

-----------------------------------------------------------------------------
(* recover_pts and restart_pts.                                             *)

Recover ==
    /\ At("recover", "restart")
    /\ flag' = TRUE
    /\ UNCHANGED <<client, requests, replies, cur, index, tries, pts, recov, temp, end,
                   timer, killer, wanted, failed>>

Restarted == IF cur.call.m = "restart_pts" THEN "reply" ELSE "replay"

RestartPts ==
    /\ pc = "restart"
    /\ pc' = IF end THEN Restarted ELSE "start"
    /\ pts' = IF end THEN pts ELSE Stopped
    /\ tries' = 0 /\ index' = 1
    /\ UNCHANGED <<client, requests, replies, cur, memory, end, timer, killer>>

StartPts ==
    /\ At("start", Restarted)
    /\ pts' = Started
    /\ UNCHANGED <<client, requests, replies, cur, index, tries, memory, end, timer, killer>>

StartFails ==
    /\ pc = "start"
    /\ tries' = tries + 1
    /\ end' = (tries' >= StartRetries)
    /\ pc' = IF end' THEN Restarted ELSE "start"
    /\ pts' = Stopped
    /\ UNCHANGED <<client, requests, replies, cur, index, memory, timer, killer>>

(* The items of _recov are called again; one that raises ends recover_pts   *)
(* with _recov_in_progress set.  set_pics does not raise when PTS refuses.  *)
Passes(c) == Accepts(c) \/ (c.m = "set_pics" /\ pts.up)

ReplayItem ==
    /\ pc = "replay" /\ index <= Len(recov)
    /\ \/ /\ Passes(recov[index])
          /\ pts' = IF Accepts(recov[index]) THEN Effect(recov[index]) ELSE pts
          /\ index' = index + 1 /\ UNCHANGED <<pc, failed>>
       \/ pc' = "reply" /\ failed' = TRUE /\ UNCHANGED <<pts, index>>
    /\ UNCHANGED <<client, requests, replies, cur, tries, recov, temp, flag, end, timer,
                   killer, wanted>>

Recovered ==
    /\ At("replay", "reply")
    /\ index > Len(recov)
    /\ flag' = FALSE
    /\ UNCHANGED <<client, requests, replies, cur, index, tries, pts, recov, temp, end,
                   timer, killer, wanted, failed>>

-----------------------------------------------------------------------------
(* run_test_case.                                                           *)

Reopen ==
    /\ pc = "reopen"
    /\ IF pts.up /\ pts.sender # "none"
       THEN pc' = "running" /\ pts' = [pts EXCEPT !.sender = "open"]
       ELSE pc' = "except" /\ UNCHANGED pts
    /\ UNCHANGED <<client, requests, replies, cur, index, tries, memory, end, timer, killer>>

(* RunTestCase returns, or raises: its timeout, or PTS is gone.             *)
RunTestCase ==
    /\ pc = "running"
    /\ \/ pts.up /\ pc' = "status"
       \/ pc' = "except"
    /\ UNCHANGED <<client, requests, replies, cur, index, tries, pts, memory, end, timer, killer>>

(* get_test_case_status: a final verdict, None from a closed logger, or a   *)
(* TimeoutError.  Without temporary changes there is nothing to revert.     *)
GetTestCaseStatus ==
    /\ pc = "status"
    /\ \/ /\ pts.sender # "none"
          /\ IF temp = <<>> THEN pc' = "reply" /\ UNCHANGED flag
                            ELSE pc' = "revert" /\ flag' = TRUE
       \/ pts.sender # "closed" /\ pc' = "except" /\ UNCHANGED flag
    /\ index' = 1
    /\ UNCHANGED <<client, requests, replies, cur, tries, pts, recov, temp, end, timer,
                   killer, wanted, failed>>

(* _revert_temp_changes sets the PIXITs that are recorded again.            *)
RevertItem ==
    /\ pc = "revert" /\ index <= Len(temp)
    /\ LET items == SetAt(temp[index])
           item  == recov[Min(items)]
       IN  \/ items = {} /\ index' = index + 1 /\ UNCHANGED <<pc, pts>>
           \/ /\ items # {} /\ Accepts(item)
              /\ pts' = Effect(item) /\ index' = index + 1 /\ UNCHANGED pc
           \/ /\ items # {} /\ ~Accepts(item)
              /\ pc' = "except" /\ UNCHANGED <<pts, index>>
    /\ UNCHANGED <<client, requests, replies, cur, tries, memory, end, timer, killer>>

Reverted ==
    /\ At("revert", "reply")
    /\ index > Len(temp)
    /\ flag' = FALSE /\ temp' = <<>>
    /\ UNCHANGED <<client, requests, replies, cur, index, tries, pts, recov, end, timer,
                   killer, wanted, failed>>

(* Any exception: stop_test_case closes the sender, then recover_pts.       *)
StopTestCase ==
    /\ At("except", "recover")
    /\ pts' = IF pts.sender = "none" THEN pts ELSE [pts EXCEPT !.sender = "closed"]
    /\ UNCHANGED <<client, requests, replies, cur, index, tries, memory, end, timer, killer>>

-----------------------------------------------------------------------------
(* The superguard: stop_pts in a thread of its own, at any point of the     *)
(* method, and still going when the next one runs.                          *)

Fire ==
    /\ timer = "armed" /\ killer = "none"
    /\ timer' = "off" /\ killer' = "closing"
    /\ UNCHANGED <<client, requests, replies, thread, pts, memory, end>>

CloseSender ==
    /\ killer = "closing" /\ killer' = "killing"
    /\ pts' = [pts EXCEPT !.sender = "none"]
    /\ UNCHANGED <<client, requests, replies, thread, memory, end, timer>>

KillPts ==
    /\ killer = "killing" /\ killer' = "none"
    /\ pts' = Stopped
    /\ UNCHANGED <<client, requests, replies, thread, memory, end, timer>>

-----------------------------------------------------------------------------
Thread ==
    \/ Handle \/ Reply \/ ThreadEnds \/ CallPts \/ Record \/ StopPts \/ CleanupCaches
    \/ Recover \/ RestartPts \/ StartPts \/ StartFails \/ ReplayItem \/ Recovered
    \/ Reopen \/ RunTestCase \/ GetTestCaseStatus \/ RevertItem \/ Reverted \/ StopTestCase
Superguard == Fire \/ CloseSender \/ KillPts
Client == GetReply \/ GetResult

Next ==
    \/ \E c \in Calls : Dispatch(c)
    \/ Client \/ Abandon \/ Thread \/ Superguard

(* Only RunTestCase of a running PTS may never return.  A superguard that   *)
(* is armed fires.                                                          *)
Returns == Thread /\ ~(pc = "running" /\ pts.up)

Spec == Init /\ [][Next]_vars /\ WF_vars(Returns) /\ WF_vars(Superguard) /\ WF_vars(Client)

-----------------------------------------------------------------------------
(* Every variable has its type; PTS has values other than the defaults only *)
(* while it runs.                                                           *)
ClientTypes ==
    /\ caller \in [state : {"idle", "waits"}, blocking : BOOLEAN, number : 0 .. MaxCalls,
                   m : {c.m : c \in Calls}]
    /\ called \in [blocking : 0 .. MaxCalls, others : 0 .. MaxCalls]
    /\ requests \in Seq(Request) /\ replies \in Seq(1 .. MaxCalls)
    /\ results \in [Nonblocking -> 0 .. TimedOut]
    /\ got \in 0 .. TimedOut /\ left \in 0 .. MaxAbandons /\ gaveUp \in 0 .. MaxAbandons
    /\ lost \in 0 .. MaxCalls
ThreadTypes ==
    /\ pc \in {"idle", "ended", "call", "record", "stop", "clean", "recover", "restart", "start",
              "replay", "reopen", "running", "status", "revert", "except", "reply"}
    /\ cur \in Request \cup {NoRequest}
    /\ index \in Nat \ {0} /\ tries \in 0 .. StartRetries
    /\ end \in BOOLEAN
    /\ timer \in {"none", "off", "armed"} /\ killer \in {"none", "closing", "killing"}
PtsTypes ==
    /\ pts \in [up : BOOLEAN, open : BOOLEAN, value : [Names -> Values \cup Timeouts \cup {Default}],
                sender : {"none", "open", "closed"}]
    /\ ~pts.up => ~pts.open /\ pts.value = Defaults
MemoryTypes ==
    /\ recov \in Seq(Recordable) /\ temp \in Seq(Pixits) /\ flag \in BOOLEAN
    /\ wanted \in [Names -> Values \cup Timeouts \cup {Default, Unset}]
    /\ failed \in BOOLEAN
TypeOK == ClientTypes /\ ThreadTypes /\ PtsTypes /\ MemoryTypes

(* Between two methods a PTS that runs has every value a caller set for     *)
(* good, through any number of restarts, kills by the superguard and test   *)
(* cases with temporary changes: recover_pts and _revert_temp_changes       *)
(* restore exactly these.  It is not claimed once a recovery has raised,    *)
(* which stops add_recov until the next one, nor of a parameter whose       *)
(* temporary change was not reverted.                                       *)
Settled ==
    pc = "idle" /\ pts.up /\ ~failed =>
        \A n \in Names \ ToSet(temp) : wanted[n] # Unset => pts.value[n] = wanted[n]

(* A blocking call gets its own reply, until a caller is interrupted in     *)
(* one; from then on each call gets the reply of a call before it, as many  *)
(* before as were interrupted.  The result of another method is its own     *)
(* unless a wait for a result has timed out.                                *)
OwnReply ==
    caller.state = "idle" /\ got # 0 =>
        IF caller.blocking THEN got + left = caller.number
                           ELSE gaveUp > 0 \/ got = caller.number

(* The method the thread is in.                                             *)
InMethod ==
    /\ pc \in {"call", "record"} => cur.call \in SettingCalls \cup {OpenWorkspace}
    /\ pc = "stop" => cur.call.m = "stop_pts"
    /\ pc = "clean" => cur.call.m = "cleanup_caches"
    /\ pc \in {"recover", "replay"} => cur.call.m \in {"recover_pts", "run_test_case"}
    /\ pc \in {"restart", "start"} =>
           cur.call.m \in {"restart_pts", "recover_pts", "run_test_case"}
    /\ pc \in {"reopen", "running", "status", "revert", "except"} => cur.call.m = "run_test_case"

(* OwnReply as it stays true, in parts.  What the client last called, and   *)
(* what the thread is busy with.                                            *)
Blocks(r) == r.call.m \notin Nonblocking
Busy == cur # NoRequest

Calling ==
    /\ caller.blocking <=> caller.m \notin Nonblocking
    /\ caller.state = "waits" =>
           got = 0 /\ caller.number = IF caller.blocking THEN called.blocking ELSE called.others
    /\ Busy <=> pc \notin {"idle", "ended"}
    /\ InMethod
    /\ pc = "start" => tries < StartRetries /\ ~end

(* The replies the client took or left; those that were made or will be     *)
(* made next.                                                               *)
Taken == called.blocking - left - (IF caller.state = "waits" /\ caller.blocking THEN 1 ELSE 0)
Made == Taken + Len(replies) + (IF Busy /\ Blocks(cur) THEN 1 ELSE 0)

(* The blocking calls are replied to in their order, each once.             *)
InTurn ==
    ~end \/ caller.state = "waits" =>
        /\ \A i \in DOMAIN replies : replies[i] = Taken + i
        /\ Busy /\ Blocks(cur) => cur.number = Made
        /\ Made <= called.blocking
        /\ \A i \in DOMAIN requests : Blocks(requests[i]) =>
               requests[i].number \in Made + 1 .. called.blocking
        /\ \A i, j \in DOMAIN requests :
               i < j /\ Blocks(requests[i]) /\ Blocks(requests[j]) =>
                   requests[i].number < requests[j].number
        /\ \A n \in Made + 1 .. called.blocking : \E i \in DOMAIN requests :
               Blocks(requests[i]) /\ requests[i].number = n

(* Until a wait for a result times out, the client waits for the one call   *)
(* of the other kind there is: in the queue, in the thread or answered.     *)
Awaited(m, n) == caller.state = "waits" /\ caller.m = m /\ caller.number = n

OneOther ==
    gaveUp = 0 =>
        /\ \A m \in Nonblocking : results[m] # 0 =>
               /\ Awaited(m, results[m])
               /\ Busy => Blocks(cur)
               /\ \A i \in DOMAIN requests : Blocks(requests[i])
        /\ Busy /\ ~Blocks(cur) =>
               /\ Awaited(cur.call.m, cur.number)
               /\ \A i \in DOMAIN requests : Blocks(requests[i])
        /\ \A i \in DOMAIN requests : ~Blocks(requests[i]) =>
               /\ Awaited(requests[i].call.m, requests[i].number)
               /\ \A j \in DOMAIN requests : ~Blocks(requests[j]) => i = j

ReplyInv == TypeOK /\ Calling /\ InTurn /\ OneOther /\ OwnReply

(* Settled as it stays true, in parts.                                      *)
Within ==
    /\ flag /\ ~failed => pc \in {"revert", "except", "recover", "restart", "start", "replay"}
                           /\ cur.call.m # "restart_pts"
    /\ end => ~pts.up
    /\ pc = "start" => ~pts.up /\ index = 1

(* restart_pts is called after cleanup_caches and nothing else is: between  *)
(* them no value is wanted.                                                 *)
InOrder ==
    /\ \A i \in DOMAIN requests : i + 1 \in DOMAIN requests =>
           (requests[i + 1].call.m = "restart_pts" <=> requests[i].call.m = "cleanup_caches")
    /\ Busy /\ requests # <<>> =>
           (requests[1].call.m = "restart_pts" <=> cur.call.m = "cleanup_caches")
    /\ requests # <<>> => caller.m = requests[Len(requests)].call.m
    /\ Busy /\ requests = <<>> => caller.m = cur.call.m
CleanedUp ==
    \/ Busy /\ cur.call.m = "restart_pts"
    \/ Busy /\ cur.call.m = "cleanup_caches" /\ pc = "reply"
    \/ ~Busy /\ requests # <<>> /\ requests[1].call.m = "restart_pts"
    \/ ~Busy /\ requests = <<>> /\ caller.m = "cleanup_caches"
Forgotten == CleanedUp => \A n \in Names : wanted[n] = Unset

(* The items of _recov, with the one that is about to be recorded, replayed *)
(* in their order, give what is wanted.                                     *)
Items == IF pc = "record" THEN Recorded ELSE recov
Opens(s, i) == \E j \in DOMAIN s : j < i /\ s[j] = OpenWorkspace
Newest(s, n, i) ==
    /\ s[i].key = n
    /\ \A j \in DOMAIN s : j > i => s[j].key # n /\ (n # "timeout" => s[j] # OpenWorkspace)
Restores(s, n, v) ==
    \/ \E i \in DOMAIN s : Newest(s, n, i) /\ s[i].val = v /\ (n # "timeout" => Opens(s, i))
    \/ n = "timeout" /\ v = Default /\ \A i \in DOMAIN s : s[i].key # n
OnePixit(s) == \A i, j \in DOMAIN s :
    s[i].m = "set_pixit" /\ s[j].m = "set_pixit" /\ s[i].key = s[j].key => i = j

RecovRight ==
    /\ OnePixit(recov)
    /\ ~failed => \A n \in Names : wanted[n] # Unset => Restores(Items, n, wanted[n])
    /\ ~failed /\ pts.open => CleanedUp \/ Opens(Items, Len(Items) + 1)
    /\ pc = "reply" /\ cur.call.m = "restart_pts" => ~pts.open

(* PTS has what is wanted, but for temporary changes and what is still to   *)
(* be reverted or replayed.                                                 *)
Pending ==
    CASE pc = "replay" -> {n \in Names : \E i \in DOMAIN recov : i >= index /\ Newest(recov, n, i)}
      [] pc = "revert" -> {temp[i] : i \in index .. Len(temp)}
      [] pc = "record" /\ cur.call.m = "update_pixit_param" -> ToSet(temp) \cup {cur.call.key}
      [] OTHER         -> ToSet(temp)

ValuesRight ==
    /\ pts.up /\ ~failed => \A n \in Names \ Pending :
           wanted[n] # Unset => pts.value[n] = wanted[n]
    /\ pc = "replay" /\ pts.up /\ Opens(recov, index) => pts.open

SettledInv == Within /\ InOrder /\ Forgotten /\ RecovRight /\ ValuesRight

(* Every call is answered, a blocking one always, the others unless their   *)
(* result is lost or the server ended because PTS did not start any more    *)
(* (the client itself then waits without end in run_test_case).  Without    *)
(* --superguard this takes that RunTestCase comes back.                     *)
Answered ==
    []<>(timer # "none" \/ pc # "running") =>
        (caller.state = "waits")
            ~> (\/ caller.state = "idle"
                \/ ~caller.blocking /\ (end \/ lost = caller.number))
=============================================================================
