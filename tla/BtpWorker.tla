----------------------------- MODULE BtpWorker -----------------------------
(***************************************************************************)
(* The BTP connection to the implementation under test (IUT):              *)
(* BTPWorker and BTPSocket of autopts/pybtp/iutctl_common.py, and the      *)
(* commands of autopts/pybtp/btp/ that talk over it.                       *)
(*                                                                         *)
(* WID handlers of several LT threads send commands over one socket.  A    *)
(* receiver thread cuts the stream into frames, hands events to the event  *)
(* handler and puts all the rest into one queue, from which whoever reads  *)
(* next takes the first frame.  A command is run in one of three styles:   *)
(*   "locked"  send_wait_rsp: the lock is held until the response is read; *)
(*   "pair"    send, then read at once: the lock is held while sending;    *)
(*   "split"   send here, read in a later call (the *_rsp functions);      *)
(*   "unread"  send, and leave the response in the queue.                  *)
(* The reader compares service and opcode of what it got with what it      *)
(* expects (check = "op"), the service only ("svc"), or nothing ("none").  *)
(* BtpCommands lists the commands with their styles and checks.            *)
(*                                                                         *)
(* The IUT (external) answers each request once, in order, or not at all,  *)
(* and sends events, whose opcodes are those of no command.  A frame is a  *)
(* header, with or without data behind it; once a part of a frame is lost, *)
(* frames can no longer be told apart and the receiver reads anything.     *)
(***************************************************************************)
EXTENDS Integers, Sequences, FiniteSets

CONSTANTS
    Caller,     \* the threads that run BTP commands (LT threads)
    Command,    \* the commands, as [svc, op, style, check]
    NoCommand,  \* no command is being run
    NoOp,       \* the opcode of an event, which no command has
    NoCaller,   \* the lock is free
    EventSvc,   \* the services whose events the IUT sends
    MaxSent,    \* bound: requests sent over one connection
    MaxEvents   \* bound: events the IUT sends

ASSUME CommandAssumption ==
    \A c \in Command :
        /\ c.style \in {"locked", "pair", "split", "unread"}
        /\ c.check \in {"op", "svc", "none"}
        /\ c.op # NoOp
        /\ c.style = "locked" => c.check = "op"
ASSUME EventAssumption == EventSvc \subseteq {c.svc : c \in Command}
ASSUME NoneAssumption == NoCaller \notin Caller /\ NoCommand \notin Command
ASSUME BoundAssumption == MaxSent \in Nat /\ MaxEvents \in Nat

VARIABLES
    requests,  \* requests the IUT has received and not answered, in order
    link,      \* frames on their way to the receiver
    rx,        \* what the receiver is reading
    rxq,       \* _rx_queue
    events,    \* how many events the IUT has sent
    lock,      \* the thread that holds _lock
    pc,        \* pc[c]: where thread c is in its command
    cmd,       \* cmd[c]: the command it runs, or NoCommand
    req,       \* req[c]: the number of its request
    got,       \* got[c]: how its last command ended
    sent,      \* requests sent so far
    worker,    \* where the worker is in its life: open, closing, closed
    upset      \* history: what has gone wrong on this connection

iutVars == <<requests, link, events>>
rxVars  == <<rx, rxq>>
callVars == <<lock, pc, cmd, req, got, sent>>
vars == <<iutVars, rxVars, callVars, worker, upset>>

Svc == {c.svc : c \in Command}
Op == {c.op : c \in Command}

(* Header and origin of a frame.  "of" is the number of the request that a *)
(* response answers or of the event; 0 for what was never sent.            *)
Frame == [kind : {"rsp", "status", "event"}, svc : Svc, op : Op \cup {NoOp}, of : Nat]
NoFrame == [kind |-> "none"]
Request == [of : Nat, svc : Svc, op : Op]
Causes == {"late", "overlap", "unread", "stray", "torn"}

TypeOK ==
    /\ requests \in Seq(Request)
    /\ link \in Seq(Frame)
    /\ rx \in [at : {"header", "data", "frame", "off"}, frame : Frame \cup {NoFrame}]
    /\ rx.at \in {"data", "frame"} => rx.frame \in Frame
    /\ rxq \in Seq(Frame)
    /\ events \in 0..MaxEvents
    /\ lock \in Caller \cup {NoCaller}
    /\ pc \in [Caller -> {"idle", "sent", "read", "get"}]
    /\ cmd \in [Caller -> Command \cup {NoCommand}]
    /\ \A c \in Caller : pc[c] # "idle" => cmd[c] \in Command
    /\ req \in [Caller -> Nat]
    /\ got \in [Caller -> {"none", "own", "other", "error", "timeout"}]
    /\ sent \in 0..MaxSent
    /\ worker \in {"open", "closing", "joined", "closed"}
    /\ upset \in SUBSET Causes

Init ==
    /\ requests = <<>>
    /\ link = <<>>
    /\ rx = [at |-> "header", frame |-> NoFrame]
    /\ rxq = <<>>
    /\ events = 0
    /\ lock = NoCaller
    /\ pc = [c \in Caller |-> "idle"]
    /\ cmd = [c \in Caller |-> NoCommand]
    /\ req = [c \in Caller |-> 0]
    /\ got = [c \in Caller |-> "none"]
    /\ sent = 0
    /\ worker = "open"
    /\ upset = {}

-----------------------------------------------------------------------------
(* The threads that run commands.                                          *)

(* The threads whose request has been sent and whose response has not been *)
(* taken.                                                                  *)
Outstanding == {c \in Caller : pc[c] # "idle"}

(* Mutant: send_wait_rsp forgets the lock when it raises or returns.       *)
ReturnLocked(c) ==
    /\ pc' = [pc EXCEPT ![c] = "idle"]
    /\ cmd' = [cmd EXCEPT ![c] = NoCommand]
    /\ req' = [req EXCEPT ![c] = 0]
    /\ UNCHANGED lock

(* The call returns or raises; send_wait_rsp gives the lock back.          *)
Return(c) ==
    /\ pc' = [pc EXCEPT ![c] = "idle"]
    /\ cmd' = [cmd EXCEPT ![c] = NoCommand]
    /\ req' = [req EXCEPT ![c] = 0]
    /\ lock' = IF lock = c THEN NoCaller ELSE lock

(* _socket.send under the lock.  send_wait_rsp keeps the lock, send gives  *)
(* it back at once; both wait for it while another thread holds it.        *)
Send(c, k) ==
    /\ pc[c] = "idle"
    /\ lock = NoCaller
    /\ worker # "closed"
    /\ sent < MaxSent
    /\ sent' = sent + 1
    /\ cmd' = [cmd EXCEPT ![c] = k]
    /\ req' = [req EXCEPT ![c] = sent + 1]
    /\ requests' = Append(requests, [of |-> sent + 1, svc |-> k.svc, op |-> k.op])
    /\ lock' = IF k.style = "locked" THEN c ELSE lock
    /\ pc' = [pc EXCEPT ![c] = IF k.style \in {"split", "unread"} THEN "sent" ELSE "read"]
    /\ got' = [got EXCEPT ![c] = "none"]
    /\ upset' = upset \cup (IF Outstanding # {} THEN {"overlap"} ELSE {})
    /\ UNCHANGED <<link, events, rxVars, worker>>

(* The socket is closed: the command raises, and the lock is given back.   *)
SendFails(c) ==
    /\ pc[c] = "idle"
    /\ lock = NoCaller
    /\ worker = "closed"
    /\ got[c] # "error"
    /\ got' = [got EXCEPT ![c] = "error"]
    /\ UNCHANGED <<iutVars, rxVars, lock, pc, cmd, req, sent, worker, upset>>

(* The response of a split command is read by a later call ...             *)
ReadLater(c) ==
    /\ pc[c] = "sent"
    /\ cmd[c].style = "split"
    /\ pc' = [pc EXCEPT ![c] = "read"]
    /\ UNCHANGED <<iutVars, rxVars, lock, cmd, req, got, sent, worker, upset>>

(* ... or never, when no WID asks for it or no function reads it.          *)
NeverRead(c) ==
    /\ pc[c] = "sent"
    /\ Return(c)
    /\ upset' = upset \cup {"unread"}
    /\ UNCHANGED <<iutVars, rxVars, got, sent, worker>>

(* read: the queue is not empty, the timer is cancelled, and the thread    *)
(* goes on to take a frame in a call of its own, without a time-out.       *)
Peek(c) ==
    /\ pc[c] = "read"
    /\ rxq # <<>>
    /\ pc' = [pc EXCEPT ![c] = "get"]
    /\ UNCHANGED <<iutVars, rxVars, lock, cmd, req, got, sent, worker, upset>>

(* btp_hdr_check, and the same comparisons in send_wait_rsp.               *)
Accepts(k, f) ==
    \/ k.check = "none"
    \/ /\ f.svc = k.svc
       /\ f.kind # "status"
       /\ k.check = "op" => f.kind = "rsp" /\ f.op = k.op

Outcome(c, f) ==
    IF ~Accepts(cmd[c], f) THEN "error"
    ELSE IF f.kind # "event" /\ f.of = req[c] THEN "own" ELSE "other"

(* Mutant: the frame is looked at and stays in the queue.                  *)
GetKeeps(c) ==
    /\ pc[c] = "get"
    /\ rxq # <<>>
    /\ got' = [got EXCEPT ![c] = Outcome(c, Head(rxq))]
    /\ Return(c)
    /\ UNCHANGED <<iutVars, rxVars, sent, worker, upset>>

Get(c) ==
    /\ pc[c] = "get"
    /\ rxq # <<>>
    /\ rxq' = Tail(rxq)
    /\ got' = [got EXCEPT ![c] = Outcome(c, Head(rxq))]
    /\ Return(c)
    /\ UNCHANGED <<iutVars, rx, sent, worker, upset>>

(* The timer of read() clears the flag: TimeoutError, also when a frame    *)
(* has come in the meantime.                                               *)
ReadTimeout(c) ==
    /\ pc[c] = "read"
    /\ got' = [got EXCEPT ![c] = "timeout"]
    /\ Return(c)
    /\ upset' = upset \cup {"late"}
    /\ UNCHANGED <<iutVars, rxVars, sent, worker>>

-----------------------------------------------------------------------------
(* The IUT.                                                                *)

Respond ==
    /\ requests # <<>>
    /\ worker # "closed"
    /\ \E kind \in {"rsp", "status"} :
           link' = Append(link, [kind |-> kind, svc |-> Head(requests).svc,
                                 op |-> Head(requests).op, of |-> Head(requests).of])
    /\ requests' = Tail(requests)
    /\ UNCHANGED <<events, rxVars, callVars, worker, upset>>

SendEvent ==
    /\ events < MaxEvents
    /\ worker # "closed"
    /\ events' = events + 1
    /\ \E s \in EventSvc :
           link' = Append(link, [kind |-> "event", svc |-> s, op |-> NoOp, of |-> events + 1])
    /\ UNCHANGED <<requests, rxVars, callVars, worker, upset>>

-----------------------------------------------------------------------------
(* The receiver thread.                                                    *)

Torn == "torn" \in upset

(* A header arrives; the frame is complete if no data follows.             *)
ReadHeader ==
    /\ rx.at = "header"
    /\ worker = "open"
    /\ link # <<>>
    /\ ~Torn
    /\ \E at \in {"data", "frame"} : rx' = [at |-> at, frame |-> Head(link)]
    /\ link' = Tail(link)
    /\ UNCHANGED <<requests, events, rxq, callVars, worker, upset>>

ReadData ==
    /\ rx.at = "data"
    /\ rx' = [rx EXCEPT !.at = "frame"]
    /\ UNCHANGED <<iutVars, rxq, callVars, worker, upset>>

(* The data does not come within the time-out of the receiver (one         *)
(* second): what has been read of the frame is dropped.                    *)
DataTimeout ==
    /\ rx.at = "data"
    /\ rx' = [at |-> "header", frame |-> NoFrame]
    /\ upset' = upset \cup {"torn"}
    /\ UNCHANGED <<iutVars, rxq, callVars, worker>>

(* Reading on in the middle of a frame: some octets are taken for a header *)
(* (at worst for that of a frame somebody waits for), or wait for more     *)
(* data that is not meant for them.                                        *)
ReadGarbage ==
    /\ rx.at = "header"
    /\ worker = "open"
    /\ Torn
    /\ link # <<>>
    /\ link' = Tail(link)
    /\ \/ \E kind \in {"rsp", "status", "event"}, k \in Command :
              rx' = [at |-> "frame",
                     frame |-> [kind |-> kind, svc |-> k.svc, op |-> k.op, of |-> 0]]
       \/ rx' = rx
    /\ UNCHANGED <<requests, events, rxq, callVars, worker, upset>>

NextFrame == [at |-> "header", frame |-> NoFrame]

(* An event is handled, or its handler raises, which is logged.            *)
HandleEvent ==
    /\ rx.at = "frame"
    /\ rx.frame.kind = "event"
    /\ rx' = NextFrame
    /\ UNCHANGED <<iutVars, rxq, callVars, worker, upset>>

(* An event nobody handles goes where the responses go.                    *)
UnhandledEvent ==
    /\ rx.at = "frame"
    /\ rx.frame.kind = "event"
    /\ rx' = NextFrame
    /\ rxq' = Append(rxq, rx.frame)
    /\ upset' = upset \cup {"stray"}
    /\ UNCHANGED <<iutVars, callVars, worker>>

(* Mutant: the newest response is taken first.                             *)
PutFirst ==
    /\ rx.at = "frame"
    /\ rx.frame.kind # "event"
    /\ rx' = NextFrame
    /\ rxq' = <<rx.frame>> \o rxq
    /\ UNCHANGED <<iutVars, callVars, worker, upset>>

PutResponse ==
    /\ rx.at = "frame"
    /\ rx.frame.kind # "event"
    /\ rx' = NextFrame
    /\ rxq' = Append(rxq, rx.frame)
    /\ UNCHANGED <<iutVars, callVars, worker, upset>>

-----------------------------------------------------------------------------
(* BTPWorker.close: stop the receiver, wait for it, empty the queue, close *)
(* the socket.                                                             *)

(* Mutant: the queue is emptied first, while commands still run.           *)
CloseResets ==
    /\ worker = "open"
    /\ worker' = "closing"
    /\ rxq' = <<>>
    /\ UNCHANGED <<iutVars, rx, callVars, upset>>

Close ==
    /\ worker = "open"
    /\ worker' = "closing"
    /\ UNCHANGED <<iutVars, rxVars, callVars, upset>>

ReceiverEnds ==
    /\ worker = "closing"
    /\ rx.at = "header"
    /\ rx' = [rx EXCEPT !.at = "off"]
    /\ worker' = "joined"
    /\ UNCHANGED <<iutVars, rxq, callVars, upset>>

ResetQueue ==
    /\ worker = "joined"
    /\ worker' = "closed"
    /\ rxq' = <<>>
    /\ UNCHANGED <<iutVars, rx, callVars, upset>>

-----------------------------------------------------------------------------
CallerStep(c) ==
    \/ \E k \in Command : Send(c, k)
    \/ SendFails(c)
    \/ ReadLater(c)
    \/ NeverRead(c)
    \/ Peek(c)
    \/ Get(c)
    \/ ReadTimeout(c)

ReceiverStep ==
    \/ ReadHeader
    \/ ReadData
    \/ DataTimeout
    \/ ReadGarbage
    \/ HandleEvent
    \/ UnhandledEvent
    \/ PutResponse
    \/ ReceiverEnds

Next ==
    \/ \E c \in Caller : CallerStep(c)
    \/ Respond
    \/ SendEvent
    \/ ReceiverStep
    \/ Close
    \/ ResetQueue

(* Threads run, and the timer of read() expires.                           *)
Fairness ==
    \A c \in Caller : WF_vars(Peek(c) \/ Get(c) \/ ReadTimeout(c))

Spec == Init /\ [][Next]_vars /\ Fairness

-----------------------------------------------------------------------------
(* A command that succeeds has got the response to its own request, unless *)
(* on this connection a read has timed out, two commands have overlapped,  *)
(* a response was never asked for, an event had no handler, or a frame was *)
(* torn: the pairing of requests and responses by order alone              *)
(* (iutctl_common.py, send_wait_rsp and the *_rsp functions).              *)
Pairing == \A c \in Caller : got[c] = "other" => upset # {}

(* A thread waits in queue.get() for a frame that another one has taken    *)
(* only if commands have overlapped or the worker is being closed: read()  *)
(* has cancelled its timer by then, so nothing would wake the thread.      *)
GetFinds ==
    \A c \in Caller : pc[c] = "get" /\ rxq = <<>> =>
        "overlap" \in upset \/ worker = "closed"

(* The numbers of the requests that the frames of a sequence answer.        *)
Answers(s) == {s[i].of : i \in {k \in DOMAIN s : s[k].kind # "event"}}
InOrder(s) ==
    \A i, j \in DOMAIN s :
        i < j /\ s[i].kind # "event" /\ s[j].kind # "event" => s[i].of < s[j].of
Before(S, T) == \A x \in S, y \in T : x < y

(* What the queue, the receiver, the link and the IUT hold: the order in    *)
(* which it will be read.                                                   *)
Reading == IF rx.at \in {"data", "frame"} THEN <<rx.frame>> ELSE <<>>
Asked == {requests[i].of : i \in DOMAIN requests}
Pipeline == Answers(rxq) \cup Answers(Reading) \cup Answers(link) \cup Asked

(* Responses are read in the order of their requests and none is read      *)
(* twice, whatever times out and whoever reads it, until a frame is torn.  *)
ResponseOrder ==
    ~Torn =>
      /\ InOrder(rxq) /\ InOrder(link)
      /\ \A i, j \in DOMAIN requests : i < j => requests[i].of < requests[j].of
      /\ Before(Answers(rxq), Answers(Reading) \cup Answers(link) \cup Asked)
      /\ Before(Answers(Reading), Answers(link) \cup Asked)
      /\ Before(Answers(link), Asked)

(* send_wait_rsp gives the lock back, if no other thread has taken its     *)
(* response away: everyone who sends waits for that lock.                  *)
LockReturned ==
    \A c \in Caller : lock = c ~>
        (lock # c \/ "overlap" \in upset \/ worker = "closed")

-----------------------------------------------------------------------------
(* The inductive invariant behind them (BtpProofs).                         *)

(* Nothing answers a request that has not been sent.                        *)
Numbered == ~Torn => \A x \in Pipeline : x <= sent

(* Without an overlap one command runs at a time.                           *)
OneAtATime ==
    "overlap" \notin upset => \A c, d \in Outstanding : c = d

(* Whatever is on its way then answers the command that runs.               *)
OwnAnswers ==
    upset = {} =>
      /\ \A x \in Pipeline : \E c \in Outstanding : req[c] = x
      /\ \A i \in DOMAIN rxq : rxq[i].kind # "event"

BtpInv == /\ TypeOK /\ ResponseOrder /\ Numbered /\ OneAtATime /\ OwnAnswers
          /\ Pairing /\ GetFinds
=============================================================================
