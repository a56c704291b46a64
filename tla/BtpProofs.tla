----------------------------- MODULE BtpProofs -----------------------------
(***************************************************************************)
(* Proofs about BtpWorker, for any threads, commands and services, and any *)
(* number of requests and events.                                          *)
(***************************************************************************)
EXTENDS BtpWorker, SequenceTheorems, TLAPS

USE DEF vars, iutVars, rxVars, callVars

-----------------------------------------------------------------------------
(* Types.                                                                   *)

LEMMA TypesInit == Init => TypeOK
BY BoundAssumption DEF Init, TypeOK

(* What is sent is a request, what comes back is a frame.                   *)
LEMMA Framed ==
    /\ \A k \in Command, n \in Nat : [of |-> n, svc |-> k.svc, op |-> k.op] \in Request
    /\ \A r \in Request, kind \in {"rsp", "status"} :
           [kind |-> kind, svc |-> r.svc, op |-> r.op, of |-> r.of] \in Frame
    /\ \A s \in EventSvc, n \in Nat : [kind |-> "event", svc |-> s, op |-> NoOp, of |-> n] \in Frame
    /\ \A k \in Command, kind \in {"rsp", "status", "event"} :
           [kind |-> kind, svc |-> k.svc, op |-> k.op, of |-> 0] \in Frame
    /\ NoFrame \in Frame \cup {NoFrame}
    /\ NoFrame.kind # "event" /\ NoFrame \notin Frame
BY EventAssumption DEF Request, Frame, Svc, Op, NoFrame

LEMMA TypesCaller ==
    ASSUME TypeOK, NEW c \in Caller, CallerStep(c)
    PROVE  TypeOK'
<1> USE BoundAssumption, NoneAssumption DEF TypeOK, Return, Causes
<1>1. ASSUME NEW k \in Command, Send(c, k)
      PROVE  TypeOK'
    <2>1. requests' \in Seq(Request)
        <3>0. sent + 1 \in Nat
            OBVIOUS
        <3>1. [of |-> sent + 1, svc |-> k.svc, op |-> k.op] \in Request
            BY <3>0, Framed
        <3> QED
            BY <1>1, <3>1, AppendProperties DEF Send
    <2>2. sent' \in 0 .. MaxSent /\ req' \in [Caller -> Nat] /\ cmd' \in [Caller -> Command \cup {NoCommand}]
        BY <1>1 DEF Send
    <2>3. /\ pc' \in [Caller -> {"idle", "sent", "read", "get"}] /\ lock' \in Caller \cup {NoCaller}
          /\ got' \in [Caller -> {"none", "own", "other", "error", "timeout"}]
        BY <1>1 DEF Send
    <2>4. \A d \in Caller : pc'[d] # "idle" => cmd'[d] \in Command
        BY <1>1 DEF Send
    <2>5. upset' \subseteq Causes /\ UNCHANGED <<link, events, rx, rxq, worker>>
        BY <1>1 DEF Send
    <2> QED
        BY <2>1, <2>2, <2>3, <2>4, <2>5
<1>2. CASE SendFails(c)
    BY <1>2 DEF SendFails
<1>3. CASE ReadLater(c)
    BY <1>3 DEF ReadLater
<1>4. CASE NeverRead(c)
    BY <1>4 DEF NeverRead
<1>5. CASE Peek(c)
    BY <1>5 DEF Peek
<1>6. CASE Get(c)
    <2>1. rxq' \in Seq(Frame)
        BY <1>6, HeadTailProperties DEF Get
    <2>2. Outcome(c, Head(rxq)) \in {"none", "own", "other", "error", "timeout"}
        BY DEF Outcome
    <2> QED
        BY <1>6, <2>1, <2>2 DEF Get
<1>7. CASE ReadTimeout(c)
    BY <1>7 DEF ReadTimeout
<1> QED
    BY <1>1, <1>2, <1>3, <1>4, <1>5, <1>6, <1>7 DEF CallerStep

LEMMA TypesReceiver ==
    ASSUME TypeOK, ReceiverStep
    PROVE  TypeOK'
<1> USE DEF TypeOK, Causes, NextFrame
<1>1. CASE ReadHeader
    <2>1. Head(link) \in Frame /\ link' \in Seq(Frame)
        BY <1>1, HeadTailProperties DEF ReadHeader
    <2> QED
        BY <1>1, <2>1 DEF ReadHeader
<1>2. CASE ReadData
    BY <1>2 DEF ReadData
<1>3. CASE DataTimeout
    BY <1>3 DEF DataTimeout
<1>4. CASE ReadGarbage
    <2>1. link' \in Seq(Frame)
        BY <1>4, HeadTailProperties DEF ReadGarbage
    <2>2. rx' = rx \/ \E f \in Frame : rx' = [at |-> "frame", frame |-> f]
        BY <1>4, Framed DEF ReadGarbage
    <2> QED
        BY <1>4, <2>1, <2>2 DEF ReadGarbage
<1>5. CASE HandleEvent
    BY <1>5 DEF HandleEvent
<1>6. CASE UnhandledEvent
    <2>1. rxq' \in Seq(Frame)
        BY <1>6, AppendProperties DEF UnhandledEvent
    <2> QED
        BY <1>6, <2>1 DEF UnhandledEvent
<1>7. CASE PutResponse
    <2>1. rxq' \in Seq(Frame)
        BY <1>7, AppendProperties DEF PutResponse
    <2> QED
        BY <1>7, <2>1 DEF PutResponse
<1>8. CASE ReceiverEnds
    BY <1>8 DEF ReceiverEnds
<1> QED
    BY <1>1, <1>2, <1>3, <1>4, <1>5, <1>6, <1>7, <1>8 DEF ReceiverStep

LEMMA TypesStep == TypeOK /\ [Next]_vars => TypeOK'
<1> SUFFICES ASSUME TypeOK, [Next]_vars PROVE TypeOK'
    OBVIOUS
<1>1. CASE Respond
    <2>1. Head(requests) \in Request /\ requests' \in Seq(Request)
        BY <1>1, HeadTailProperties DEF Respond, TypeOK
    <2>2. \E f \in Frame : link' = Append(link, f)
        BY <1>1, <2>1, Framed DEF Respond
    <2>3. link' \in Seq(Frame)
        BY <2>2, AppendProperties DEF TypeOK
    <2> QED
        BY <1>1, <2>1, <2>3 DEF Respond, TypeOK
<1>2. CASE SendEvent
    <2>1. events + 1 \in 0 .. MaxEvents /\ events + 1 \in Nat
        BY <1>2, BoundAssumption DEF SendEvent, TypeOK
    <2>2. \E f \in Frame : link' = Append(link, f)
        BY <1>2, <2>1, Framed DEF SendEvent
    <2>3. link' \in Seq(Frame)
        BY <2>2, AppendProperties DEF TypeOK
    <2> QED
        BY <1>2, <2>1, <2>3 DEF SendEvent, TypeOK
<1>3. CASE Close
    BY <1>3 DEF Close, TypeOK
<1>4. CASE ResetQueue
    <2>1. <<>> \in Seq(Frame)
        OBVIOUS
    <2> QED
        BY <1>4, <2>1 DEF ResetQueue, TypeOK
<1>5. CASE UNCHANGED vars
    BY <1>5 DEF TypeOK
<1> QED
    BY <1>1, <1>2, <1>3, <1>4, <1>5, TypesCaller, TypesReceiver DEF Next

-----------------------------------------------------------------------------
(* The pipeline.                                                            *)

(* Answers and their order when a frame is put behind the others.           *)
LEMMA Appended ==
    ASSUME NEW s \in Seq(Frame), NEW f \in Frame
    PROVE  /\ Answers(Append(s, f)) = Answers(s) \cup (IF f.kind # "event" THEN {f.of} ELSE {})
           /\ InOrder(s) /\ (f.kind # "event" => \A x \in Answers(s) : x < f.of)
                  => InOrder(Append(s, f))
<1>1. /\ Len(s) \in Nat /\ DOMAIN s = 1 .. Len(s) /\ DOMAIN Append(s, f) = 1 .. Len(s) + 1
      /\ Append(s, f)[Len(s) + 1] = f /\ \A i \in 1 .. Len(s) : Append(s, f)[i] = s[i]
    BY AppendProperties
<1>2. \A i \in 1 .. Len(s) + 1 : i \in 1 .. Len(s) \/ i = Len(s) + 1
    BY <1>1
<1>3. Answers(Append(s, f)) = Answers(s) \cup (IF f.kind # "event" THEN {f.of} ELSE {})
    BY <1>1, <1>2 DEF Answers
<1>4. ASSUME InOrder(s), f.kind # "event" => \A x \in Answers(s) : x < f.of,
             NEW i \in 1 .. Len(s) + 1, NEW j \in 1 .. Len(s) + 1, i < j,
             Append(s, f)[i].kind # "event", Append(s, f)[j].kind # "event"
      PROVE  Append(s, f)[i].of < Append(s, f)[j].of
    <2>1. i \in 1 .. Len(s) /\ Append(s, f)[i] = s[i]
        BY <1>1, <1>4
    <2>2. CASE j \in 1 .. Len(s)
        BY <1>1, <1>4, <2>1, <2>2 DEF InOrder
    <2>3. CASE j = Len(s) + 1
        BY <1>1, <1>4, <2>1, <2>3 DEF Answers
    <2> QED
        BY <1>2, <2>2, <2>3
<1> QED
    BY <1>1, <1>3, <1>4 DEF InOrder

(* ... when the first one is taken ...                                      *)
LEMMA Taken ==
    ASSUME NEW s \in Seq(Frame), s # <<>>
    PROVE  /\ Head(s) \in Frame
           /\ Answers(s) = Answers(Tail(s)) \cup (IF Head(s).kind # "event" THEN {Head(s).of} ELSE {})
           /\ InOrder(s) => /\ InOrder(Tail(s))
                            /\ Head(s).kind # "event" => \A x \in Answers(Tail(s)) : Head(s).of < x
<1>1. /\ Len(s) \in Nat \ {0} /\ DOMAIN s = 1 .. Len(s) /\ DOMAIN Tail(s) = 1 .. Len(s) - 1
      /\ Head(s) = s[1] /\ Head(s) \in Frame /\ \A i \in 1 .. Len(s) - 1 : Tail(s)[i] = s[i + 1]
    BY HeadTailProperties
<1>2. \A i \in 1 .. Len(s) - 1 : i + 1 \in 1 .. Len(s) /\ 1 < i + 1
    BY <1>1
<1>3. \A i \in 1 .. Len(s) : i = 1 \/ (i - 1 \in 1 .. Len(s) - 1 /\ (i - 1) + 1 = i)
    BY <1>1
<1>4. Answers(s) = Answers(Tail(s)) \cup (IF Head(s).kind # "event" THEN {Head(s).of} ELSE {})
    <2>1. ASSUME NEW x \in Answers(s)
          PROVE  x \in Answers(Tail(s)) \/ (Head(s).kind # "event" /\ x = Head(s).of)
        <3>1. PICK i \in 1 .. Len(s) : s[i].kind # "event" /\ x = s[i].of
            BY <1>1, <2>1 DEF Answers
        <3>2. CASE i = 1
            BY <1>1, <3>1, <3>2
        <3>3. CASE i - 1 \in 1 .. Len(s) - 1
            <4>1. Tail(s)[i - 1] = s[i]
                BY <1>1, <3>3
            <4> QED
                BY <1>1, <3>1, <3>3, <4>1 DEF Answers
        <3> QED
            BY <1>3, <3>2, <3>3
    <2>2. ASSUME NEW x \in Answers(Tail(s))
          PROVE  x \in Answers(s)
        <3>1. PICK i \in 1 .. Len(s) - 1 : Tail(s)[i].kind # "event" /\ x = Tail(s)[i].of
            BY <1>1, <2>2 DEF Answers
        <3> QED
            BY <1>1, <1>2, <3>1 DEF Answers
    <2>3. Head(s).kind # "event" => Head(s).of \in Answers(s)
        BY <1>1 DEF Answers
    <2> QED
        BY <2>1, <2>2, <2>3
<1>5. ASSUME InOrder(s)
      PROVE  InOrder(Tail(s))
    BY <1>1, <1>2, <1>5 DEF InOrder
<1>6. ASSUME InOrder(s), Head(s).kind # "event", NEW x \in Answers(Tail(s))
      PROVE  Head(s).of < x
    <2>1. PICK i \in 1 .. Len(s) - 1 : Tail(s)[i].kind # "event" /\ x = Tail(s)[i].of
        BY <1>1, <1>6 DEF Answers
    <2> QED
        BY <1>1, <1>2, <1>6, <2>1 DEF InOrder
<1> QED
    BY <1>1, <1>4, <1>5, <1>6

(* ... and when there is none, or one.                                      *)
LEMMA Few ==
    /\ Answers(<<>>) = {} /\ InOrder(<<>>)
    /\ \A f \in Frame : Answers(<<f>>) = IF f.kind # "event" THEN {f.of} ELSE {}
<1>1. Answers(<<>>) = {} /\ InOrder(<<>>)
    BY DEF Answers, InOrder
<1>2. ASSUME NEW f \in Frame
      PROVE  Answers(<<f>>) = IF f.kind # "event" THEN {f.of} ELSE {}
    <2>1. DOMAIN <<f>> = {1} /\ <<f>>[1] = f
        OBVIOUS
    <2> QED
        BY <2>1 DEF Answers
<1> QED
    BY <1>1, <1>2

(* Everything in the pipeline is a number.                                  *)
LEMMA Numbers ==
    TypeOK => /\ Answers(rxq) \subseteq Nat /\ Answers(Reading) \subseteq Nat
              /\ Answers(link) \subseteq Nat /\ Asked \subseteq Nat
<1>1. \A s \in Seq(Frame) : Answers(s) \subseteq Nat
    <2> SUFFICES ASSUME NEW s \in Seq(Frame), NEW i \in DOMAIN s PROVE s[i].of \in Nat
        BY DEF Answers
    <2>1. s[i] \in Frame
        OBVIOUS
    <2> QED
        BY <2>1 DEF Frame
<1>2. TypeOK => Reading \in Seq(Frame)
    BY DEF TypeOK, Reading
<1>3. TypeOK => Asked \subseteq Nat
    <2> SUFFICES ASSUME requests \in Seq(Request), NEW i \in DOMAIN requests PROVE requests[i].of \in Nat
        BY DEF Asked, TypeOK
    <2>1. requests[i] \in Request
        OBVIOUS
    <2> QED
        BY <2>1 DEF Request
<1> QED
    BY <1>1, <1>2, <1>3 DEF TypeOK

(* The requests of the IUT are in order.                                    *)
AskedInOrder == \A i, j \in DOMAIN requests : i < j => requests[i].of < requests[j].of

LEMMA AskedMore ==
    ASSUME TypeOK, AskedInOrder, \A x \in Asked : x <= sent,
           NEW r \in Request, r.of = sent + 1, requests' = Append(requests, r)
    PROVE  AskedInOrder' /\ Asked' = Asked \cup {sent + 1}
<1> DEFINE n == Len(requests)
<1>1. /\ n \in Nat /\ DOMAIN requests = 1 .. n /\ DOMAIN requests' = 1 .. n + 1 /\ sent \in Nat
      /\ requests'[n + 1].of = sent + 1 /\ \A i \in 1 .. n : requests'[i] = requests[i]
    BY AppendProperties, BoundAssumption DEF TypeOK
<1>2. \A i \in 1 .. n : requests[i].of \in Asked /\ requests[i].of \in Nat
    BY <1>1, Numbers DEF Asked
<1> HIDE DEF n
<1>3. \A i \in 1 .. n + 1 : i \in 1 .. n \/ i = n + 1
    BY <1>1
<1>4. Asked' = Asked \cup {sent + 1}
    BY <1>1, <1>3 DEF Asked
<1>5. ASSUME NEW i \in 1 .. n + 1, NEW j \in 1 .. n + 1, i < j
      PROVE  requests'[i].of < requests'[j].of
    <2>1. i \in 1 .. n
        BY <1>1, <1>5
    <2>2. CASE j \in 1 .. n
        BY <1>1, <1>5, <2>1, <2>2 DEF AskedInOrder
    <2>3. CASE j = n + 1
        <3>1. requests[i].of <= sent
            BY <1>2, <2>1
        <3> QED
            BY <1>1, <1>2, <2>1, <2>3, <3>1
    <2> QED
        BY <1>3, <2>2, <2>3
<1> QED
    BY <1>1, <1>4, <1>5 DEF AskedInOrder

LEMMA AskedLess ==
    ASSUME TypeOK, AskedInOrder, requests # <<>>, requests' = Tail(requests)
    PROVE  /\ AskedInOrder' /\ Asked = Asked' \cup {Head(requests).of}
           /\ \A x \in Asked' : Head(requests).of < x
<1> DEFINE n == Len(requests)
<1>1. /\ n \in Nat \ {0} /\ DOMAIN requests = 1 .. n /\ DOMAIN requests' = 1 .. n - 1
      /\ Head(requests) = requests[1] /\ \A i \in 1 .. n - 1 : requests'[i] = requests[i + 1]
    BY HeadTailProperties DEF TypeOK
<1> HIDE DEF n
<1>2. \A i \in 1 .. n - 1 : i + 1 \in 1 .. n /\ 1 < i + 1 /\ \A j \in 1 .. n - 1 : i < j => i + 1 < j + 1
    BY <1>1
<1>3. \A i \in 1 .. n : i = 1 \/ (i - 1 \in 1 .. n - 1 /\ (i - 1) + 1 = i)
    BY <1>1
<1>4. Asked = Asked' \cup {Head(requests).of}
    <2>1. ASSUME NEW i \in 1 .. n
          PROVE  requests[i].of \in Asked' \cup {Head(requests).of}
        <3>1. CASE i = 1
            BY <1>1, <3>1
        <3>2. CASE i - 1 \in 1 .. n - 1 /\ (i - 1) + 1 = i
            <4>1. requests'[i - 1] = requests[i]
                BY <1>1, <3>2
            <4> QED
                BY <1>1, <3>2, <4>1 DEF Asked
        <3> QED
            BY <1>3, <3>1, <3>2
    <2>2. ASSUME NEW i \in 1 .. n - 1
          PROVE  requests'[i].of \in Asked
        BY <1>1, <1>2 DEF Asked
    <2>3. Head(requests).of \in Asked
        BY <1>1 DEF Asked
    <2> QED
        BY <1>1, <2>1, <2>2, <2>3 DEF Asked
<1>5. AskedInOrder'
    BY <1>1, <1>2 DEF AskedInOrder
<1>6. \A x \in Asked' : Head(requests).of < x
    BY <1>1, <1>2 DEF AskedInOrder, Asked
<1> QED
    BY <1>4, <1>5, <1>6

(* Frames keep their order, whoever takes the next one, and only a command  *)
(* that is sent adds to them.                                               *)
LEMMA OrderStep ==
    ASSUME TypeOK, ResponseOrder, Numbered, [Next]_vars
    PROVE  /\ ResponseOrder' /\ Numbered'
           /\ ~Torn' /\ (\A c \in Caller, k \in Command : ~Send(c, k)) => Pipeline' \subseteq Pipeline
<1> DEFINE Q == Answers(rxq)
           G == Answers(Reading)
           L == Answers(link)
<1> DEFINE Ordered == /\ InOrder(rxq) /\ InOrder(link) /\ AskedInOrder
                      /\ Before(Q, G \cup L \cup Asked) /\ Before(G, L \cup Asked) /\ Before(L, Asked)
                      /\ \A x \in Q \cup G \cup L \cup Asked : x <= sent
<1> USE DEF Before
<1>1. ~Torn => Ordered
    BY DEF ResponseOrder, Numbered, AskedInOrder, Pipeline
<1>2. (~Torn' => Ordered') => ResponseOrder' /\ Numbered'
    BY DEF ResponseOrder, Numbered, AskedInOrder, Pipeline
<1>3. Q \subseteq Nat /\ G \subseteq Nat /\ L \subseteq Nat /\ Asked \subseteq Nat /\ sent \in Nat
    BY Numbers, BoundAssumption DEF TypeOK
<1> DEFINE Fewer == Q' \cup G' \cup L' \cup Asked' \subseteq Q \cup G \cup L \cup Asked
<1> SUFFICES ASSUME ~Torn'
             PROVE  Ordered' /\ ((\A c \in Caller, k \in Command : ~Send(c, k)) => Fewer)
    BY <1>2 DEF Pipeline
<1>4. CASE ~Torn /\ UNCHANGED <<rx, rxq, link, requests, sent>>
    BY <1>1, <1>4 DEF Reading, AskedInOrder, Asked
<1>5. ASSUME NEW c \in Caller, NEW k \in Command, Send(c, k)
      PROVE  Ordered'
    <2>1. ~Torn /\ UNCHANGED <<rx, rxq, link>> /\ sent' = sent + 1
        BY <1>5 DEF Send, Torn
    <2>2. AskedInOrder' /\ Asked' = Asked \cup {sent + 1}
        <3>1. [of |-> sent + 1, svc |-> k.svc, op |-> k.op] \in Request
            BY <1>3, <1>5, Framed
        <3>2. requests' = Append(requests, [of |-> sent + 1, svc |-> k.svc, op |-> k.op])
            BY <1>5 DEF Send
        <3> QED
            BY <1>1, <2>1, <3>1, <3>2, AskedMore
    <2>3. Q' = Q /\ G' = G /\ L' = L
        BY <2>1 DEF Reading
    <2>4. \A x \in Q \cup G \cup L \cup Asked : x \in Nat /\ x <= sent /\ x < sent + 1 /\ x <= sent + 1
        <3> HIDE DEF Q, G, L
        <3> QED
            BY <1>1, <1>3, <2>1
    <2> QED
        BY <1>1, <1>3, <2>1, <2>2, <2>3, <2>4
<1>6. ASSUME NEW c \in Caller, Get(c)
      PROVE  Ordered' /\ Fewer
    <2>1. ~Torn /\ UNCHANGED <<rx, link, requests, sent>> /\ rxq # <<>> /\ rxq' = Tail(rxq)
        BY <1>6 DEF Get, Torn
    <2>2. InOrder(rxq') /\ Q' \subseteq Q
        BY <1>1, <2>1, Taken DEF TypeOK
    <2>3. G' = G /\ L' = L /\ Asked' = Asked /\ AskedInOrder' = AskedInOrder
        BY <2>1 DEF Reading, Asked, AskedInOrder
    <2> QED
        BY <1>1, <2>1, <2>2, <2>3
<1>7. ASSUME NEW c \in Caller, CallerStep(c)
      PROVE  Ordered' /\ ((\A d \in Caller, k \in Command : ~Send(d, k)) => Fewer)
    BY <1>4, <1>5, <1>6, <1>7 DEF CallerStep, SendFails, ReadLater, NeverRead, Peek, ReadTimeout,
       Return, Torn
<1>8. CASE ReadHeader
    <2>1. ~Torn /\ UNCHANGED <<rxq, requests, sent>> /\ link # <<>> /\ link' = Tail(link)
        BY <1>8 DEF ReadHeader
    <2>2. Reading = <<>> /\ Reading' = <<Head(link)>>
        BY <1>8 DEF ReadHeader, Reading
    <2> DEFINE h == Head(link)
    <2>5. /\ h \in Frame /\ L = L' \cup (IF h.kind # "event" THEN {h.of} ELSE {})
          /\ InOrder(link') /\ (h.kind # "event" => \A x \in L' : h.of < x)
        BY <1>1, <2>1, Taken DEF TypeOK
    <2>6. G = {} /\ G' = IF h.kind # "event" THEN {h.of} ELSE {}
        <3>1. Answers(<<h>>) = IF h.kind # "event" THEN {h.of} ELSE {}
            BY <2>5, Few
        <3> QED
            BY <2>2, <3>1, Few
    <2> HIDE DEF h
    <2>3. /\ InOrder(link') /\ L = L' \cup G' /\ Before(G', L') /\ G = {}
        BY <2>5, <2>6
    <2>4. Q' = Q /\ Asked' = Asked /\ AskedInOrder' = AskedInOrder
        BY <2>1 DEF Asked, AskedInOrder
    <2> QED
        BY <1>1, <2>1, <2>3, <2>4
<1>9. CASE ReadData \/ ReceiverEnds
    <2>1. ~Torn /\ UNCHANGED <<rxq, link, requests, sent>> /\ Reading' = Reading
        BY <1>9 DEF ReadData, ReceiverEnds, Reading, TypeOK, Torn
    <2> QED
        BY <1>1, <2>1 DEF Asked, AskedInOrder
<1>10. CASE HandleEvent \/ UnhandledEvent \/ PutResponse
    <2>1. ~Torn /\ UNCHANGED <<link, requests, sent>>
        BY <1>10 DEF HandleEvent, UnhandledEvent, PutResponse, Torn
    <2>2. Reading = <<rx.frame>> /\ Reading' = <<>> /\ rx.frame \in Frame
        BY <1>10 DEF HandleEvent, UnhandledEvent, PutResponse, Reading, NextFrame, TypeOK
    <2>3. InOrder(rxq') /\ Q' \subseteq Q \cup G
        <3>1. CASE HandleEvent
            BY <1>1, <2>1, <3>1 DEF HandleEvent
        <3>2. CASE UnhandledEvent
            BY <1>1, <2>1, <2>2, <3>2, Appended DEF UnhandledEvent, TypeOK
        <3>3. CASE PutResponse
            <4>1. rxq' = Append(rxq, rx.frame) /\ rx.frame.kind # "event"
                BY <3>3 DEF PutResponse
            <4>2. G = {rx.frame.of}
                BY <2>2, <4>1, Few
            <4> QED
                BY <1>1, <2>1, <2>2, <4>1, <4>2, Appended DEF TypeOK
        <3> QED
            BY <1>10, <3>1, <3>2, <3>3
    <2>4. G' = {} /\ L' = L /\ Asked' = Asked /\ AskedInOrder' = AskedInOrder
        BY <2>1, <2>2, Few DEF Asked, AskedInOrder
    <2> QED
        BY <1>1, <2>1, <2>3, <2>4
<1>11. CASE DataTimeout \/ ReadGarbage
    BY <1>11 DEF DataTimeout, ReadGarbage, Torn
<1>12. CASE Respond
    <2>1. ~Torn /\ UNCHANGED <<rxq, rx, sent>> /\ requests # <<>> /\ requests' = Tail(requests)
        BY <1>12 DEF Respond, Torn
    <2>2. PICK kind \in {"rsp", "status"} :
              link' = Append(link, [kind |-> kind, svc |-> Head(requests).svc,
                                    op |-> Head(requests).op, of |-> Head(requests).of])
        BY <1>12 DEF Respond
    <2>3. Head(requests) \in Request
        BY <2>1, HeadTailProperties DEF TypeOK
    <2> DEFINE f == [kind |-> kind, svc |-> Head(requests).svc,
                     op |-> Head(requests).op, of |-> Head(requests).of]
    <2>4. f \in Frame /\ f.kind # "event" /\ f.of = Head(requests).of /\ link' = Append(link, f)
        BY <2>2, <2>3, Framed
    <2> HIDE DEF f
    <2>5. AskedInOrder' /\ Asked = Asked' \cup {f.of} /\ \A x \in Asked' : f.of < x
        BY <1>1, <2>1, <2>4, AskedLess
    <2>6. L' = L \cup {f.of} /\ InOrder(link')
        BY <1>1, <2>1, <2>4, <2>5, Appended DEF TypeOK
    <2>7. Q' = Q /\ G' = G
        BY <2>1 DEF Reading
    <2> QED
        BY <1>1, <2>1, <2>5, <2>6, <2>7
<1>13. CASE SendEvent
    <2>1. ~Torn /\ UNCHANGED <<rxq, rx, sent, requests>>
        BY <1>13 DEF SendEvent, Torn
    <2>2. PICK s \in EventSvc :
              link' = Append(link, [kind |-> "event", svc |-> s, op |-> NoOp, of |-> events + 1])
        BY <1>13 DEF SendEvent
    <2>3. events + 1 \in Nat
        BY BoundAssumption DEF TypeOK
    <2> DEFINE f == [kind |-> "event", svc |-> s, op |-> NoOp, of |-> events + 1]
    <2>4. f \in Frame /\ f.kind = "event" /\ link' = Append(link, f)
        BY <2>2, <2>3, Framed
    <2> HIDE DEF f
    <2>5. L' = L /\ InOrder(link')
        <3>1. link \in Seq(Frame) /\ InOrder(link)
            BY <1>1, <2>1 DEF TypeOK
        <3>2. Answers(Append(link, f)) = L /\ InOrder(Append(link, f))
            BY <2>4, <3>1, Appended
        <3> QED
            BY <2>4, <3>2
    <2> QED
        BY <1>1, <2>1, <2>5 DEF Reading, Asked, AskedInOrder
<1>14. CASE ResetQueue
    <2>1. ~Torn /\ UNCHANGED <<link, rx, sent, requests>> /\ rxq' = <<>>
        BY <1>14 DEF ResetQueue, Torn
    <2>2. Q' = {} /\ InOrder(rxq')
        BY <2>1, Few
    <2> QED
        BY <1>1, <2>1, <2>2 DEF Reading, Asked, AskedInOrder
<1>15. CASE Close \/ UNCHANGED vars
    BY <1>4, <1>15 DEF Close, Torn
<1> QED
    BY <1>7, <1>8, <1>9, <1>10, <1>11, <1>12, <1>13, <1>14, <1>15 DEF Next, ReceiverStep

-----------------------------------------------------------------------------
(* The callers.                                                             *)

(* What has gone wrong is not forgotten, and only a command that is sent    *)
(* makes a thread wait.                                                     *)
LEMMA Callers ==
    ASSUME TypeOK, [Next]_vars
    PROVE  /\ upset \subseteq upset'
           /\ worker = "closed" => worker' = "closed"
           /\ \/ \E c \in Caller, k \in Command : Send(c, k)
              \/ /\ Outstanding' \subseteq Outstanding
                 /\ \A c \in Outstanding' : req'[c] = req[c]
<1> USE DEF TypeOK, Outstanding
<1>1. ASSUME NEW c \in Caller, CallerStep(c)
      PROVE  /\ upset \subseteq upset' /\ UNCHANGED worker
             /\ \/ \E k \in Command : Send(c, k)
                \/ /\ Outstanding' \subseteq Outstanding
                   /\ \A d \in Outstanding' : req'[d] = req[d]
    <2>1. CASE \E k \in Command : Send(c, k)
        BY <2>1 DEF Send
    <2>2. CASE SendFails(c) \/ ReadLater(c) \/ Peek(c)
        BY <2>2 DEF SendFails, ReadLater, Peek
    <2>3. CASE NeverRead(c) \/ Get(c) \/ ReadTimeout(c)
        BY <2>3 DEF NeverRead, Get, ReadTimeout, Return
    <2> QED
        BY <1>1, <2>1, <2>2, <2>3 DEF CallerStep
<1>2. CASE ReceiverStep \/ Respond \/ SendEvent \/ Close \/ ResetQueue
    BY <1>2 DEF ReceiverStep, ReadHeader, ReadData, DataTimeout, ReadGarbage, HandleEvent,
       UnhandledEvent, PutResponse, ReceiverEnds, Respond, SendEvent, Close, ResetQueue
<1>3. CASE UNCHANGED vars
    BY <1>3
<1> QED
    BY <1>1, <1>2, <1>3 DEF Next

(* A command that is sent without an overlap is the only one.               *)
LEMMA Alone ==
    ASSUME TypeOK, NEW c \in Caller, NEW k \in Command, Send(c, k), "overlap" \notin upset'
    PROVE  Outstanding = {} /\ Outstanding' = {c} /\ req'[c] = sent + 1
BY DEF TypeOK, Send, Outstanding

LEMMA OneAtATimeStep ==
    ASSUME TypeOK, OneAtATime, [Next]_vars
    PROVE  OneAtATime'
BY Callers, Alone DEF OneAtATime

LEMMA OwnAnswersStep ==
    ASSUME TypeOK, ResponseOrder, Numbered, OneAtATime, OwnAnswers, [Next]_vars
    PROVE  OwnAnswers'
<1> SUFFICES ASSUME upset' = {}
             PROVE  /\ \A x \in Pipeline' : \E c \in Outstanding' : req'[c] = x
                    /\ \A i \in DOMAIN rxq' : rxq'[i].kind # "event"
    BY DEF OwnAnswers
<1>1. /\ upset = {} /\ ~Torn /\ ~Torn'
      /\ \A x \in Pipeline : \E c \in Outstanding : req[c] = x
      /\ \A i \in DOMAIN rxq : rxq[i].kind # "event"
    BY Callers DEF OwnAnswers, Torn
<1>2. ASSUME NEW c \in Caller, NEW k \in Command, Send(c, k)
      PROVE  /\ \A x \in Pipeline' : \E d \in Outstanding' : req'[d] = x
             /\ UNCHANGED rxq
    <2>1. Outstanding = {} /\ Outstanding' = {c} /\ req'[c] = sent + 1
        BY <1>2, Alone
    <2>2. Pipeline = {}
        BY <1>1, <2>1
    <2>3. UNCHANGED <<rxq, rx, link>>
        BY <1>2 DEF Send
    <2>4. Asked' = Asked \cup {sent + 1}
        <3>1. sent + 1 \in Nat
            BY BoundAssumption DEF TypeOK
        <3>2. [of |-> sent + 1, svc |-> k.svc, op |-> k.op] \in Request
            BY <3>1, Framed
        <3>3. requests' = Append(requests, [of |-> sent + 1, svc |-> k.svc, op |-> k.op])
            BY <1>2 DEF Send
        <3> QED
            BY <1>1, <3>2, <3>3, AskedMore DEF ResponseOrder, Numbered, AskedInOrder, Pipeline
    <2>5. Pipeline' \subseteq Pipeline \cup {sent + 1}
        BY <2>3, <2>4 DEF Pipeline, Reading
    <2> QED
        BY <2>1, <2>2, <2>3, <2>5
<1>3. ASSUME NEW c \in Caller, Get(c)
      PROVE  /\ Pipeline' = {}
             /\ \A i \in DOMAIN rxq' : rxq'[i].kind # "event"
    <2>1. rxq # <<>> /\ rxq' = Tail(rxq) /\ UNCHANGED <<rx, link, requests>> /\ rxq \in Seq(Frame)
        BY <1>3 DEF Get, TypeOK
    <2>2. c \in Outstanding /\ \A d \in Outstanding : d = c
        BY <1>1, <1>3 DEF Get, Outstanding, OneAtATime
    <2>3. /\ Len(rxq) \in Nat \ {0} /\ DOMAIN rxq = 1 .. Len(rxq) /\ DOMAIN rxq' = 1 .. Len(rxq) - 1
          /\ Head(rxq) = rxq[1] /\ \A i \in 1 .. Len(rxq) - 1 : rxq'[i] = rxq[i + 1]
        BY <2>1, HeadTailProperties
    <2>4. \A i \in DOMAIN rxq' : rxq'[i].kind # "event"
        BY <1>1, <2>3
    <2> DEFINE h == Head(rxq)
    <2>5. h.kind # "event" /\ h \in Frame
        <3>1. 1 \in DOMAIN rxq /\ h = rxq[1]
            BY <2>3
        <3>2. h \in Frame
            BY <2>1, Taken
        <3> QED
            BY <1>1, <3>1, <3>2
    <2>6. /\ Answers(rxq) = Answers(rxq') \cup {h.of} /\ \A x \in Answers(rxq') : h.of < x
        BY <1>1, <2>1, <2>5, Taken DEF ResponseOrder
    <2>7. \A x \in Answers(Reading) \cup Answers(link) \cup Asked : h.of < x
        BY <1>1, <2>6 DEF ResponseOrder, Before
    <2>8. Pipeline' = Answers(rxq') \cup Answers(Reading) \cup Answers(link) \cup Asked
        BY <2>1 DEF Pipeline, Reading, Asked
    <2>9. h.of \in Nat /\ h.of \in Pipeline
        BY <2>5, <2>6 DEF Pipeline, Frame
    <2>10. \A x \in Pipeline' : x \in Pipeline /\ h.of < x
        BY <2>6, <2>7, <2>8 DEF Pipeline
    <2>11. \A x \in Pipeline : x = req[c]
        BY <1>1, <2>2
    <2>12. Pipeline' = {}
        BY <2>9, <2>10, <2>11
    <2> QED
        BY <2>4, <2>12
<1>4. ASSUME NEW c \in Caller, NeverRead(c) \/ ReadTimeout(c)
      PROVE  FALSE
    BY <1>4 DEF NeverRead, ReadTimeout
<1>5. ASSUME NEW c \in Caller, SendFails(c) \/ ReadLater(c) \/ Peek(c)
      PROVE  /\ UNCHANGED <<rxq, req>> /\ Pipeline' = Pipeline /\ Outstanding' = Outstanding
    BY <1>5 DEF SendFails, ReadLater, Peek, Pipeline, Reading, Asked, Outstanding, TypeOK
<1>6. CASE ReceiverStep \/ Respond \/ SendEvent \/ Close \/ ResetQueue \/ UNCHANGED vars
    <2>1. UNCHANGED <<pc, req, sent>>
        BY <1>6 DEF ReceiverStep, ReadHeader, ReadData, DataTimeout, ReadGarbage, HandleEvent,
           UnhandledEvent, PutResponse, ReceiverEnds, Respond, SendEvent, Close, ResetQueue
    <2>2. \A c \in Caller, k \in Command : ~Send(c, k)
        BY <2>1, BoundAssumption DEF Send, TypeOK
    <2>3. Pipeline' \subseteq Pipeline /\ Outstanding' = Outstanding
        BY <1>1, <2>1, <2>2, OrderStep DEF Outstanding
    <2>4. \A i \in DOMAIN rxq' : rxq'[i].kind # "event"
        <3>1. CASE PutResponse
            <4>1. rxq' = Append(rxq, rx.frame) /\ rx.frame.kind # "event" /\ rxq \in Seq(Frame) /\ rx.frame \in Frame
                BY <3>1 DEF PutResponse, TypeOK
            <4>2. /\ Len(rxq) \in Nat /\ DOMAIN rxq = 1 .. Len(rxq) /\ DOMAIN rxq' = 1 .. Len(rxq) + 1
                  /\ rxq'[Len(rxq) + 1] = rx.frame /\ \A i \in 1 .. Len(rxq) : rxq'[i] = rxq[i]
                BY <4>1, AppendProperties
            <4>3. \A i \in 1 .. Len(rxq) + 1 : i \in 1 .. Len(rxq) \/ i = Len(rxq) + 1
                BY <4>2
            <4> QED
                BY <1>1, <4>1, <4>2, <4>3
        <3>2. CASE ResetQueue
            BY <3>2 DEF ResetQueue
        <3>3. CASE UNCHANGED rxq
            BY <1>1, <3>3
        <3>4. ~UnhandledEvent
            BY DEF UnhandledEvent
        <3> QED
            BY <1>6, <3>1, <3>2, <3>3, <3>4 DEF ReceiverStep, ReadHeader, ReadData, DataTimeout,
               ReadGarbage, HandleEvent, ReceiverEnds, Respond, SendEvent, Close
    <2> QED
        BY <1>1, <2>1, <2>3, <2>4
<1> QED
    BY <1>1, <1>2, <1>3, <1>4, <1>5, <1>6 DEF Next, CallerStep

LEMMA PairingStep ==
    ASSUME TypeOK, OneAtATime, OwnAnswers, Pairing, [Next]_vars
    PROVE  Pairing'
<1> SUFFICES ASSUME upset' = {}, NEW c \in Caller
             PROVE  got'[c] # "other"
    BY DEF Pairing
<1>1. upset = {} /\ got[c] # "other"
    BY Callers DEF Pairing
<1>2. CASE Get(c)
    <2>1. rxq # <<>> /\ rxq \in Seq(Frame) /\ got'[c] = Outcome(c, Head(rxq)) /\ c \in Outstanding
        BY <1>2 DEF Get, TypeOK, Outstanding
    <2>2. Head(rxq).kind # "event"
        <3>1. 1 \in DOMAIN rxq /\ Head(rxq) = rxq[1]
            BY <2>1, HeadTailProperties
        <3> QED
            BY <1>1, <3>1 DEF OwnAnswers
    <2>3. Head(rxq).of \in Pipeline
        BY <2>1, <2>2, Taken DEF Pipeline
    <2>4. Head(rxq).of = req[c]
        BY <1>1, <2>1, <2>3 DEF OwnAnswers, OneAtATime
    <2> QED
        BY <2>1, <2>2, <2>4 DEF Outcome
<1>3. CASE ~Get(c)
    <2>1. got'[c] \in {got[c], "none", "error", "timeout"}
        BY <1>3 DEF TypeOK, Next, CallerStep, Send, SendFails, ReadLater, NeverRead, Peek, Get, ReadTimeout,
           ReceiverStep, ReadHeader, ReadData, DataTimeout, ReadGarbage, HandleEvent,
           UnhandledEvent, PutResponse, ReceiverEnds, Respond, SendEvent, Close, ResetQueue
    <2> QED
        BY <1>1, <2>1
<1> QED
    BY <1>2, <1>3

LEMMA GetFindsStep ==
    ASSUME TypeOK, OneAtATime, GetFinds, [Next]_vars
    PROVE  GetFinds'
<1> SUFFICES ASSUME "overlap" \notin upset', worker' # "closed", NEW c \in Caller, pc'[c] = "get"
             PROVE  rxq' # <<>>
    BY DEF GetFinds
<1>1. /\ "overlap" \notin upset /\ worker # "closed"
      /\ pc[c] = "get" => rxq # <<>>
    BY Callers DEF GetFinds
<1>2. CASE pc[c] # "get"
    <2>1. Peek(c)
        BY <1>2 DEF TypeOK, Next, CallerStep, Send, SendFails, ReadLater, NeverRead, Get, ReadTimeout, Return,
           ReceiverStep, ReadHeader, ReadData, DataTimeout, ReadGarbage, HandleEvent, Peek,
           UnhandledEvent, PutResponse, ReceiverEnds, Respond, SendEvent, Close, ResetQueue
    <2> QED
        BY <2>1 DEF Peek
<1>3. CASE pc[c] = "get"
    <2>1. ASSUME NEW d \in Caller, Get(d)
          PROVE  FALSE
        <3>1. d = c
            BY <1>1, <1>3, <2>1 DEF Get, OneAtATime, Outstanding
        <3> QED
            BY <2>1, <3>1 DEF Get, Return, TypeOK
    <2>2. CASE UnhandledEvent \/ PutResponse
        <3>1. rx.frame \in Frame /\ rxq \in Seq(Frame) /\ rxq' = Append(rxq, rx.frame)
            BY <2>2 DEF UnhandledEvent, PutResponse, TypeOK
        <3> QED
            BY <3>1, AppendProperties
    <2>3. CASE UNCHANGED rxq
        BY <1>1, <1>3, <2>3
    <2>4. ~ResetQueue
        BY DEF ResetQueue
    <2> QED
        BY <2>1, <2>2, <2>3, <2>4 DEF Next, CallerStep, Send, SendFails, ReadLater, NeverRead, Peek, ReadTimeout,
           ReceiverStep, ReadHeader, ReadData, DataTimeout, ReadGarbage, HandleEvent,
           ReceiverEnds, Respond, SendEvent, Close
<1> QED
    BY <1>2, <1>3

-----------------------------------------------------------------------------
(* The theorems.                                                            *)

LEMMA BtpInvInit == Init => BtpInv
<1> SUFFICES ASSUME Init PROVE BtpInv
    OBVIOUS
<1>1. TypeOK
    BY TypesInit
<1>2. rxq = <<>> /\ Reading = <<>> /\ link = <<>> /\ requests = <<>>
    BY DEF Init, Reading
<1>3. Pipeline = {}
    BY <1>2, Few DEF Pipeline, Asked
<1>4. ResponseOrder
    BY <1>2, Few DEF ResponseOrder, Before
<1>5. Numbered /\ OneAtATime /\ OwnAnswers /\ Pairing /\ GetFinds
    BY <1>2, <1>3 DEF Init, Numbered, OneAtATime, OwnAnswers, Pairing, GetFinds, Outstanding
<1> QED
    BY <1>1, <1>4, <1>5 DEF BtpInv

LEMMA BtpInvStep == BtpInv /\ [Next]_vars => BtpInv'
BY TypesStep, OrderStep, OneAtATimeStep, OwnAnswersStep, PairingStep, GetFindsStep DEF BtpInv

(* The inductive invariant holds of every connection.                       *)
THEOREM BtpInvariance == Spec => []BtpInv
BY BtpInvInit, BtpInvStep, PTL DEF Spec

(* The variables keep their types.                                          *)
THEOREM BtpTypes == Spec => []TypeOK
<1>1. BtpInv => TypeOK
    BY DEF BtpInv
<1> QED
    BY <1>1, BtpInvariance, PTL

(* Responses are read in the order of their requests, each at most once.    *)
THEOREM ResponsesInOrder == Spec => []ResponseOrder
<1>1. BtpInv => ResponseOrder
    BY DEF BtpInv
<1> QED
    BY <1>1, BtpInvariance, PTL

(* A response is taken for another command's only after something has gone  *)
(* wrong on the connection.                                                 *)
THEOREM ResponsesPair == Spec => []Pairing
<1>1. BtpInv => Pairing
    BY DEF BtpInv
<1> QED
    BY <1>1, BtpInvariance, PTL

(* Without an overlap nobody waits without a time-out for a frame that      *)
(* another thread has taken.                                                *)
THEOREM GetAlwaysFinds == Spec => []GetFinds
<1>1. BtpInv => GetFinds
    BY DEF BtpInv
<1> QED
    BY <1>1, BtpInvariance, PTL
=============================================================================
