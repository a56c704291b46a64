---------------------------- MODULE StackProofs ----------------------------
(***************************************************************************)
(* Proofs about StackEvents, for every store of StackStores and any number *)
(* of threads, keys, values, events, test cases and waits.                 *)
(***************************************************************************)
EXTENDS StackEvents, DataProofs

Writes == {"append", "set", "level", "group", "lost"}
Queued == {"append", "lost"}

(* What a family of stores has in common.                                   *)
LEMMA HandledRow ==
    ASSUME NEW layer, NEW write, NEW stores, NEW h \in Handled(layer, write, stores)
    PROVE  h.layer = layer /\ h.write = write /\ h.store \in stores
BY DEF Handled

LEMMA AwaitedRow ==
    ASSUME NEW layer, NEW read, NEW stores, NEW a \in Awaited(layer, read, stores)
    PROVE  a.layer = layer /\ a.read = read /\ a.store \in stores
BY DEF Awaited

(* The handlers of the layers with event queues append to them.             *)
QueueLayers == {"AICS", "ASCS", "BAP", "CAP", "CSIP", "HAP", "MCP", "MICP", "MICS",
                "PACS", "PBP", "TMAP", "VCP", "VOCS", "CORE"}
CountedCcp == {"DISCOVERED", "CALL_STATES"}
HandledRight(h) ==
    /\ h.write \in Writes
    /\ h.layer \in QueueLayers => h.write \in Queued
    /\ h.layer = "CCP" /\ h.store \notin CountedCcp => h.write \in Queued
AwaitedRight(a) ==
    a.read \in {"remove", "keep"} =>
        a.layer \in QueueLayers \/ (a.layer = "CCP" /\ a.store \notin CountedCcp)

LEMMA HandledRows == \A h \in HandledStores : HandledRight(h)
<1>1. \A h \in AicsEvents : HandledRight(h)
    BY HandledRow DEF AicsEvents, HandledRight, Writes, Queued, QueueLayers, CountedCcp
<1>2. \A h \in AscsEvents : HandledRight(h)
    BY HandledRow DEF AscsEvents, HandledRight, Writes, Queued, QueueLayers, CountedCcp
<1>3. \A h \in BapStreamsEvents : HandledRight(h)
    BY HandledRow DEF BapStreamsEvents, HandledRight, Writes, Queued, QueueLayers, CountedCcp
<1>4. \A h \in BapAssistantEvents : HandledRight(h)
    BY HandledRow DEF BapAssistantEvents, HandledRight, Writes, Queued, QueueLayers, CountedCcp
<1>5. \A h \in CapEvents : HandledRight(h)
    BY HandledRow DEF CapEvents, HandledRight, Writes, Queued, QueueLayers, CountedCcp
<1>6. \A h \in CsipEvents : HandledRight(h)
    BY HandledRow DEF CsipEvents, HandledRight, Writes, Queued, QueueLayers, CountedCcp
<1>7. \A h \in HapEvents : HandledRight(h)
    BY HandledRow DEF HapEvents, HandledRight, Writes, Queued, QueueLayers, CountedCcp
<1>8. \A h \in McpTracksEvents : HandledRight(h)
    BY HandledRow DEF McpTracksEvents, HandledRight, Writes, Queued, QueueLayers, CountedCcp
<1>9. \A h \in McpPlayingEvents : HandledRight(h)
    BY HandledRow DEF McpPlayingEvents, HandledRight, Writes, Queued, QueueLayers, CountedCcp
<1>10. \A h \in McpControlEvents : HandledRight(h)
    BY HandledRow DEF McpControlEvents, HandledRight, Writes, Queued, QueueLayers, CountedCcp
<1>11. \A h \in MicpEvents : HandledRight(h)
    BY HandledRow DEF MicpEvents, HandledRight, Writes, Queued, QueueLayers, CountedCcp
<1>12. \A h \in MicsEvents : HandledRight(h)
    BY HandledRow DEF MicsEvents, HandledRight, Writes, Queued, QueueLayers, CountedCcp
<1>13. \A h \in PacsEvents : HandledRight(h)
    BY HandledRow DEF PacsEvents, HandledRight, Writes, Queued, QueueLayers, CountedCcp
<1>14. \A h \in PbpEvents : HandledRight(h)
    BY HandledRow DEF PbpEvents, HandledRight, Writes, Queued, QueueLayers, CountedCcp
<1>15. \A h \in TmapEvents : HandledRight(h)
    BY HandledRow DEF TmapEvents, HandledRight, Writes, Queued, QueueLayers, CountedCcp
<1>16. \A h \in VcpEvents : HandledRight(h)
    BY HandledRow DEF VcpEvents, HandledRight, Writes, Queued, QueueLayers, CountedCcp
<1>17. \A h \in VocsEvents : HandledRight(h)
    BY HandledRow DEF VocsEvents, HandledRight, Writes, Queued, QueueLayers, CountedCcp
<1>18. \A h \in CoreEvents : HandledRight(h)
    BY HandledRow DEF CoreEvents, HandledRight, Writes, Queued, QueueLayers, CountedCcp
<1>19. \A h \in CcpEvents : HandledRight(h)
    BY HandledRow DEF CcpEvents, HandledRight, Writes, Queued, QueueLayers, CountedCcp
<1>20. \A h \in CcpStates : HandledRight(h)
    BY HandledRow DEF CcpStates, HandledRight, Writes, Queued, QueueLayers, CountedCcp
<1>21. \A h \in GapLinkEvents : HandledRight(h)
    BY HandledRow DEF GapLinkEvents, HandledRight, Writes, Queued, QueueLayers, CountedCcp
<1>22. \A h \in GapSyncEvents : HandledRight(h)
    BY HandledRow DEF GapSyncEvents, HandledRight, Writes, Queued, QueueLayers, CountedCcp
<1>23. \A h \in GapStreamEvents : HandledRight(h)
    BY HandledRow DEF GapStreamEvents, HandledRight, Writes, Queued, QueueLayers, CountedCcp
<1>24. \A h \in GapKeyEvents : HandledRight(h)
    BY HandledRow DEF GapKeyEvents, HandledRight, Writes, Queued, QueueLayers, CountedCcp
<1>25. \A h \in GattEvents : HandledRight(h)
    BY HandledRow DEF GattEvents, HandledRight, Writes, Queued, QueueLayers, CountedCcp
<1>26. \A h \in GattClientServices : HandledRight(h)
    BY HandledRow DEF GattClientServices, HandledRight, Writes, Queued, QueueLayers, CountedCcp
<1>27. \A h \in GattClientCharacteristics : HandledRight(h)
    BY HandledRow DEF GattClientCharacteristics, HandledRight, Writes, Queued, QueueLayers, CountedCcp
<1>28. \A h \in GattClientReads : HandledRight(h)
    BY HandledRow DEF GattClientReads, HandledRight, Writes, Queued, QueueLayers, CountedCcp
<1>29. \A h \in GattClientWrites : HandledRight(h)
    BY HandledRow DEF GattClientWrites, HandledRight, Writes, Queued, QueueLayers, CountedCcp
<1>30. \A h \in GattClientExchange : HandledRight(h)
    BY HandledRow DEF GattClientExchange, HandledRight, Writes, Queued, QueueLayers, CountedCcp
<1>31. \A h \in IasEvents : HandledRight(h)
    BY HandledRow DEF IasEvents, HandledRight, Writes, Queued, QueueLayers, CountedCcp
<1>32. \A h \in L2capEvents : HandledRight(h)
    BY HandledRow DEF L2capEvents, HandledRight, Writes, Queued, QueueLayers, CountedCcp
<1>33. \A h \in MeshProvisioningEvents : HandledRight(h)
    BY HandledRow DEF MeshProvisioningEvents, HandledRight, Writes, Queued, QueueLayers, CountedCcp
<1>34. \A h \in MeshNodeEvents : HandledRight(h)
    BY HandledRow DEF MeshNodeEvents, HandledRight, Writes, Queued, QueueLayers, CountedCcp
<1>35. \A h \in MeshModelEvents : HandledRight(h)
    BY HandledRow DEF MeshModelEvents, HandledRight, Writes, Queued, QueueLayers, CountedCcp
<1>36. \A h \in RfcommEvents : HandledRight(h)
    BY HandledRow DEF RfcommEvents, HandledRight, Writes, Queued, QueueLayers, CountedCcp
<1> QED
    BY <1>1, <1>2, <1>3, <1>4, <1>5, <1>6, <1>7, <1>8, <1>9, <1>10, <1>11, <1>12, <1>13, <1>14, <1>15, <1>16, <1>17, <1>18, <1>19, <1>20, <1>21, <1>22, <1>23, <1>24, <1>25, <1>26, <1>27, <1>28, <1>29, <1>30, <1>31, <1>32, <1>33, <1>34, <1>35, <1>36
    DEF HandledStores

(* Only queues are waited on with wait_event_with_condition.                *)
LEMMA AwaitedRows == \A a \in AwaitedStores : AwaitedRight(a)
<1>1. \A a \in AicsWaits : AwaitedRight(a)
    BY AwaitedRow DEF AicsWaits, AwaitedRight, QueueLayers, CountedCcp
<1>2. \A a \in AscsWaits : AwaitedRight(a)
    BY AwaitedRow DEF AscsWaits, AwaitedRight, QueueLayers, CountedCcp
<1>3. \A a \in BapWaits : AwaitedRight(a)
    BY AwaitedRow DEF BapWaits, AwaitedRight, QueueLayers, CountedCcp
<1>4. \A a \in CapWaits : AwaitedRight(a)
    BY AwaitedRow DEF CapWaits, AwaitedRight, QueueLayers, CountedCcp
<1>5. \A a \in CsipWaits : AwaitedRight(a)
    BY AwaitedRow DEF CsipWaits, AwaitedRight, QueueLayers, CountedCcp
<1>6. \A a \in HapWaits : AwaitedRight(a)
    BY AwaitedRow DEF HapWaits, AwaitedRight, QueueLayers, CountedCcp
<1>7. \A a \in McpWaits : AwaitedRight(a)
    BY AwaitedRow DEF McpWaits, AwaitedRight, QueueLayers, CountedCcp
<1>8. \A a \in MicpWaits : AwaitedRight(a)
    BY AwaitedRow DEF MicpWaits, AwaitedRight, QueueLayers, CountedCcp
<1>9. \A a \in MicsWaits : AwaitedRight(a)
    BY AwaitedRow DEF MicsWaits, AwaitedRight, QueueLayers, CountedCcp
<1>10. \A a \in PacsWaits : AwaitedRight(a)
    BY AwaitedRow DEF PacsWaits, AwaitedRight, QueueLayers, CountedCcp
<1>11. \A a \in PbpWaits : AwaitedRight(a)
    BY AwaitedRow DEF PbpWaits, AwaitedRight, QueueLayers, CountedCcp
<1>12. \A a \in TmapWaits : AwaitedRight(a)
    BY AwaitedRow DEF TmapWaits, AwaitedRight, QueueLayers, CountedCcp
<1>13. \A a \in VcpWaits : AwaitedRight(a)
    BY AwaitedRow DEF VcpWaits, AwaitedRight, QueueLayers, CountedCcp
<1>14. \A a \in VocsWaits : AwaitedRight(a)
    BY AwaitedRow DEF VocsWaits, AwaitedRight, QueueLayers, CountedCcp
<1>15. \A a \in CoreWaits : AwaitedRight(a)
    BY AwaitedRow DEF CoreWaits, AwaitedRight, QueueLayers, CountedCcp
<1>16. \A a \in CcpWaits : AwaitedRight(a)
    BY AwaitedRow DEF CcpWaits, AwaitedRight, QueueLayers, CountedCcp
<1>17. \A a \in CcpCounts : AwaitedRight(a)
    BY AwaitedRow DEF CcpCounts, AwaitedRight, QueueLayers, CountedCcp
<1>18. \A a \in GapLinkWaits : AwaitedRight(a)
    BY AwaitedRow DEF GapLinkWaits, AwaitedRight, QueueLayers, CountedCcp
<1>19. \A a \in GapStreamWaits : AwaitedRight(a)
    BY AwaitedRow DEF GapStreamWaits, AwaitedRight, QueueLayers, CountedCcp
<1>20. \A a \in GapValues : AwaitedRight(a)
    BY AwaitedRow DEF GapValues, AwaitedRight, QueueLayers, CountedCcp
<1>21. \A a \in GattWaits : AwaitedRight(a)
    BY AwaitedRow DEF GattWaits, AwaitedRight, QueueLayers, CountedCcp
<1>22. \A a \in GattClientWaits : AwaitedRight(a)
    BY AwaitedRow DEF GattClientWaits, AwaitedRight, QueueLayers, CountedCcp
<1>23. \A a \in IasWaits : AwaitedRight(a)
    BY AwaitedRow DEF IasWaits, AwaitedRight, QueueLayers, CountedCcp
<1>24. \A a \in L2capChannelWaits : AwaitedRight(a)
    BY AwaitedRow DEF L2capChannelWaits, AwaitedRight, QueueLayers, CountedCcp
<1>25. \A a \in L2capWaits : AwaitedRight(a)
    BY AwaitedRow DEF L2capWaits, AwaitedRight, QueueLayers, CountedCcp
<1>26. \A a \in MeshModelWaits : AwaitedRight(a)
    BY AwaitedRow DEF MeshModelWaits, AwaitedRight, QueueLayers, CountedCcp
<1>27. \A a \in MeshWaits : AwaitedRight(a)
    BY AwaitedRow DEF MeshWaits, AwaitedRight, QueueLayers, CountedCcp
<1>28. \A a \in RfcommWaits : AwaitedRight(a)
    BY AwaitedRow DEF RfcommWaits, AwaitedRight, QueueLayers, CountedCcp
<1> QED
    BY <1>1, <1>2, <1>3, <1>4, <1>5, <1>6, <1>7, <1>8, <1>9, <1>10, <1>11, <1>12, <1>13, <1>14, <1>15, <1>16, <1>17, <1>18, <1>19, <1>20, <1>21, <1>22, <1>23, <1>24, <1>25, <1>26, <1>27, <1>28
    DEF AwaitedStores

(* A queue that waits scan is written at its end only.                      *)
LEMMA RowFacts ==
    ASSUME row \in Stores
    PROVE  row.write \in Writes /\ (InQueue => row.write \in Queued)
<1>1. PICK h \in HandledStores, a \in AwaitedStores :
          /\ h.layer = a.layer /\ h.store = a.store
          /\ row = [layer |-> h.layer, store |-> h.store, write |-> h.write, read |-> a.read]
    BY DEF Stores
<1>2. HandledRight(h) /\ AwaitedRight(a)
    BY HandledRows, AwaitedRows
<1> QED
    BY <1>1, <1>2 DEF HandledRight, AwaitedRight, InQueue

-----------------------------------------------------------------------------
(* Types.                                                                   *)

Waits == [object : Objects, key : Keys, since : 0 .. MaxEvents, index : Nat \ {0},
          found : 0 .. MaxEvents, waited : BOOLEAN, case : Cases, cleanups : CleanUps,
          renewed : BOOLEAN, number : Nat]
Entries == [key : Keys, value : Values, case : Cases, cleanups : CleanUps, object : Objects]
Told == [object : Objects, by : LTs, number : Nat, case : Cases, cleanups : CleanUps,
         renewed : BOOLEAN, event : Events]
Places == {"idle", "fast", "enter", "loop", "scan", "got", "late"}
Outcomes == {"none", "event", "timeout", "end", "ValueError", "IndexError"}

(* The types of what a thread alone has, and of what all share.             *)
EpochTypes == /\ case \in Cases /\ cleanups \in CleanUps
              /\ object \in Objects /\ renewed \in BOOLEAN
ThreadTypes == /\ pc \in [LTs -> Places] /\ wait \in [LTs -> Waits]
               /\ armed \in [LTs -> BOOLEAN] /\ outcome \in [LTs -> Outcomes]
SharedTypes == /\ row \in Stores /\ log \in Seq(Entries) /\ Len(log) <= MaxEvents
               /\ EpochTypes /\ globalEnd \in BOOLEAN
StoreTypes == store \in [Objects -> Seq(Events)] /\ known \in [Objects -> SUBSET Keys]

LEMMA TypeParts ==
    TypeOK <=> /\ ThreadTypes /\ SharedTypes /\ StoreTypes
               /\ reports \subseteq Told /\ snapshot \in [LTs -> SUBSET Events]
BY DEF TypeOK, ThreadTypes, SharedTypes, EpochTypes, StoreTypes, Waits, Entries, Told, Places, Outcomes

LEMMA FirstCase == /\ 1 \in Cases /\ 0 \in CleanUps /\ 1 \in Objects /\ 1 \in Nat \ {0}
                   /\ Cases \subseteq Nat /\ CleanUps \subseteq Nat /\ Objects \subseteq Nat
BY BoundAssumption DEF Cases, CleanUps, Objects

LEMMA NoWaitType == NoWait \in Waits /\ NoWait.key \in Keys /\ KeysUsed \subseteq Keys
<1>1. (CHOOSE k \in Keys : TRUE) \in Keys
    BY KeysExist
<1>2. 0 \in 0 .. MaxEvents
    BY BoundAssumption
<1> QED
    BY <1>1, <1>2, FirstCase DEF NoWait, Waits, KeysUsed

LEMMA ObjectType == ASSUME TypeOK PROVE object \in Objects /\ EpochTypes
BY DEF TypeOK, EpochTypes

(* The events in the log are those that may be received.                    *)
LEMMA LogDomain ==
    ASSUME TypeOK
    PROVE  /\ Len(log) \in Nat /\ DOMAIN log = 1 .. Len(log) /\ DOMAIN log \subseteq Events
           /\ Len(log) \in 0 .. MaxEvents /\ \A e \in DOMAIN log : log[e] \in Entries
<1>1. Len(log) \in Nat /\ DOMAIN log = 1 .. Len(log) /\ log \in Seq(Entries) /\ Len(log) <= MaxEvents
    BY DEF TypeOK, Entries
<1>2. \A e \in DOMAIN log : log[e] \in Entries
    BY <1>1, ElementOfSeq
<1> QED
    BY <1>1, <1>2, BoundAssumption DEF Events

LEMMA HeldType ==
    ASSUME TypeOK, NEW lt \in LTs
    PROVE  /\ wait[lt] \in Waits /\ wait[lt].object \in Objects
           /\ Held(lt) \in Seq(Events) /\ Held(lt) = store[wait[lt].object]
           /\ Len(Held(lt)) \in Nat /\ DOMAIN Held(lt) = 1 .. Len(Held(lt))
           /\ \A i \in DOMAIN Held(lt) : Held(lt)[i] \in Events
<1>1. wait[lt] \in Waits /\ wait[lt].object \in Objects
    BY DEF TypeOK, Waits
<1>2. store[wait[lt].object] \in Seq(Events)
    BY <1>1 DEF TypeOK
<1> QED
    BY <1>1, <1>2 DEF Held

(* The events that are held.                                                *)
LEMMA RangeType ==
    ASSUME TypeOK, NEW o \in Objects
    PROVE  /\ store[o] \in Seq(Events) /\ Range(store[o]) \subseteq Events
           /\ \A e \in Range(store[o]) : \E i \in DOMAIN store[o] : store[o][i] = e
           /\ \A i \in DOMAIN store[o] : store[o][i] \in Range(store[o])
           /\ IsFiniteSet(Range(store[o]))
<1>1. store[o] \in Seq(Events)
    BY DEF TypeOK
<1>2. IsFiniteSet(Events)
    BY BoundAssumption, FS_Interval DEF Events
<1>3. Range(store[o]) \subseteq Events
    BY <1>1 DEF Range
<1> QED
    BY <1>1, <1>2, <1>3, FS_Subset DEF Range

-----------------------------------------------------------------------------
(* What the pieces of the actions do to the thread that takes them.         *)

(* What a wait remembers of when it began.                                  *)
Kept(w, u) == w.case = u.case /\ w.cleanups = u.cleanups /\ w.renewed = u.renewed

(* The threads but one stay as they are.                                    *)
Apart(lt) == \A u \in LTs \ {lt} : /\ pc'[u] = pc[u] /\ wait'[u] = wait[u]
                                   /\ armed'[u] = armed[u] /\ outcome'[u] = outcome[u]

(* A wait that ends.                                                        *)
LEMMA EndFacts ==
    ASSUME ThreadTypes, NEW lt \in LTs, NEW how \in Outcomes, End(lt, how)
    PROVE  /\ ThreadTypes' /\ Apart(lt) /\ pc'[lt] = "idle" /\ outcome'[lt] = how
           /\ wait'[lt].number = wait[lt].number
<1>1. wait[lt] \in Waits /\ wait[lt].number \in Nat
    BY DEF ThreadTypes, Waits
<1>2. [NoWait EXCEPT !.number = wait[lt].number] \in Waits
    BY <1>1, NoWaitType DEF Waits
<1>3. [NoWait EXCEPT !.number = wait[lt].number].number = wait[lt].number
    BY DEF NoWait
<1> DEFINE w == [NoWait EXCEPT !.number = wait[lt].number]
<1>4. /\ pc' = [pc EXCEPT ![lt] = "idle"] /\ outcome' = [outcome EXCEPT ![lt] = how]
      /\ armed' = [armed EXCEPT ![lt] = FALSE] /\ wait' = [wait EXCEPT ![lt] = w]
      /\ w \in Waits /\ w.number = wait[lt].number
    BY <1>2, <1>3 DEF End, Goto
<1> HIDE DEF w
<1> QED
    BY <1>4 DEF ThreadTypes, Places, Apart

(* What the first match of the store is.                                    *)
Hit(lt) == LET hit == {e \in Range(Held(lt)) : Matches(lt, e)}
           IN  IF hit = {} THEN 0 ELSE CHOOSE e \in hit : \A f \in hit : e <= f

LEMMA HitType ==
    ASSUME TypeOK, NEW lt \in LTs
    PROVE  /\ Hit(lt) \in 0 .. MaxEvents
           /\ Holds(lt) /\ row.read # "stream" =>
                  \E i \in DOMAIN Held(lt) : Held(lt)[i] = Hit(lt)
<1> DEFINE hit == {e \in Range(Held(lt)) : Matches(lt, e)}
<1>1. /\ wait[lt].object \in Objects /\ Held(lt) = store[wait[lt].object]
      /\ hit \subseteq Range(Held(lt)) /\ Range(Held(lt)) \subseteq Events
    BY HeldType, RangeType
<1>2. hit \subseteq Nat /\ Events \subseteq 0 .. MaxEvents
    BY <1>1, BoundAssumption DEF Events
<1>3. ASSUME hit # {}
      PROVE  Hit(lt) \in hit
    <2>1. Min(hit) \in hit
        BY <1>2, <1>3, LeastNatural
    <2>2. Hit(lt) = Min(hit)
        BY <1>3 DEF Hit, Min
    <2> QED
        BY <2>1, <2>2
<1>4. hit = {} => Hit(lt) = 0
    BY DEF Hit
<1>5. ASSUME Holds(lt), row.read # "stream"
      PROVE  hit # {}
    <2>1. CASE row.read = "count"
        <3>1. ~Keyed
            BY <2>1 DEF Keyed
        <3>2. PICK i \in DOMAIN Held(lt) : TRUE
            BY <1>5, <2>1 DEF Holds
        <3>3. Held(lt)[i] \in hit
            BY <1>1, <3>1, <3>2, RangeType DEF Matches
        <3> QED
            BY <3>3
    <2>2. CASE row.read # "count"
        <3>1. PICK i \in DOMAIN Held(lt) : Matches(lt, Held(lt)[i])
            BY <1>5, <2>2 DEF Holds
        <3>2. Held(lt)[i] \in hit
            BY <1>1, <3>1, RangeType
        <3> QED
            BY <3>2
    <2> QED
        BY <2>1, <2>2
<1>6. 0 \in 0 .. MaxEvents
    BY BoundAssumption
<1>7. hit \subseteq 0 .. MaxEvents
    BY <1>1, <1>2
<1>8. \A e \in hit : \E i \in DOMAIN Held(lt) : Held(lt)[i] = e
    BY DEF Range
<1> HIDE DEF hit
<1> QED
    BY <1>3, <1>4, <1>5, <1>6, <1>7, <1>8

(* A thread that found its condition true.                                  *)
LEMMA SatisfiedFacts ==
    ASSUME TypeOK, NEW lt \in LTs, NEW waited \in BOOLEAN, Satisfied(lt, waited),
           outcome' = outcome
    PROVE  /\ ThreadTypes' /\ Apart(lt) /\ pc'[lt] = "got"
           /\ wait'[lt].number = wait[lt].number /\ wait'[lt].object = wait[lt].object
           /\ Kept(wait'[lt], wait[lt])
           /\ row.read # "stream" => \E i \in DOMAIN Held(lt) : Held(lt)[i] = wait'[lt].found
<1>0. ThreadTypes /\ wait[lt] \in Waits
    BY TypeParts, HeldType
<1>1. /\ pc' = [pc EXCEPT ![lt] = "got"] /\ armed' = [armed EXCEPT ![lt] = FALSE]
      /\ wait' = [wait EXCEPT ![lt] = [wait[lt] EXCEPT !.waited = waited, !.found = Hit(lt)]]
    <2>1. wait' = [wait EXCEPT ![lt].waited = waited, ![lt].found = Hit(lt)]
        BY DEF Satisfied, Hit
    <2> QED
        BY <1>0, <2>1 DEF Satisfied, Goto, ThreadTypes
<1> DEFINE w == [wait[lt] EXCEPT !.waited = waited, !.found = Hit(lt)]
<1>2. Hit(lt) \in 0 .. MaxEvents
    BY HitType
<1>3. /\ w \in Waits /\ w.number = wait[lt].number /\ w.object = wait[lt].object
      /\ Kept(w, wait[lt]) /\ w.found = Hit(lt)
    BY <1>0, <1>2 DEF Waits, Kept
<1>4. wait' = [wait EXCEPT ![lt] = w]
    BY <1>1
<1> HIDE DEF w
<1>5. wait'[lt] = w /\ pc'[lt] = "got" /\ ThreadTypes' /\ Apart(lt)
    BY <1>0, <1>1, <1>3, <1>4 DEF ThreadTypes, Apart, Places
<1>6. row.read # "stream" => \E i \in DOMAIN Held(lt) : Held(lt)[i] = Hit(lt)
    BY HitType DEF Satisfied
<1> QED
    BY <1>3, <1>5, <1>6

(* The scan that goes on, and the one that finds.                           *)
LEMMA ScanNextFacts ==
    ASSUME TypeOK, NEW lt \in LTs, ScanNext(lt)
    PROVE  /\ ThreadTypes' /\ Apart(lt)
           /\ wait'[lt].number = wait[lt].number /\ wait'[lt].object = wait[lt].object
           /\ Kept(wait'[lt], wait[lt]) /\ wait'[lt].key = wait[lt].key
           /\ wait[lt].index \in DOMAIN Held(lt)
           /\ \/ /\ pc'[lt] = "got" /\ wait'[lt].found = Held(lt)[wait[lt].index]
              \/ /\ pc'[lt] = "scan" /\ ~Matches(lt, Held(lt)[wait[lt].index])
                 /\ wait'[lt].index = wait[lt].index + 1
<1> DEFINE e == Held(lt)[wait[lt].index]
<1>0. /\ ThreadTypes /\ wait[lt] \in Waits /\ wait[lt].index \in DOMAIN Held(lt)
      /\ e \in Events /\ e \in 0 .. MaxEvents
    BY TypeParts, HeldType, BoundAssumption DEF ScanNext, Waits, Events
<1>1. CASE Matches(lt, e)
    <2> DEFINE w == [wait[lt] EXCEPT !.found = e]
    <2>1. /\ pc' = [pc EXCEPT ![lt] = "got"] /\ armed' = [armed EXCEPT ![lt] = FALSE]
          /\ wait' = [wait EXCEPT ![lt] = w] /\ outcome' = outcome
        BY <1>0, <1>1 DEF ScanNext, Goto, ThreadTypes
    <2>2. /\ w \in Waits /\ w.number = wait[lt].number /\ w.object = wait[lt].object
          /\ Kept(w, wait[lt]) /\ w.key = wait[lt].key /\ w.found = e
        BY <1>0 DEF Waits, Kept
    <2> HIDE DEF w, e
    <2>3. wait'[lt] = w /\ pc'[lt] = "got" /\ ThreadTypes' /\ Apart(lt)
        BY <1>0, <2>1, <2>2 DEF ThreadTypes, Apart, Places
    <2> QED
        BY <1>0, <2>2, <2>3 DEF e
<1>2. CASE ~Matches(lt, e)
    <2> DEFINE w == [wait[lt] EXCEPT !.index = wait[lt].index + 1]
    <2>1. /\ pc' = pc /\ armed' = armed /\ wait' = [wait EXCEPT ![lt] = w] /\ outcome' = outcome
        BY <1>0, <1>2 DEF ScanNext, ThreadTypes
    <2>2. /\ w \in Waits /\ w.number = wait[lt].number /\ w.object = wait[lt].object
          /\ Kept(w, wait[lt]) /\ w.key = wait[lt].key /\ w.index = wait[lt].index + 1
        BY <1>0 DEF Waits, Kept
    <2> HIDE DEF w, e
    <2>3. wait'[lt] = w /\ pc'[lt] = "scan" /\ ThreadTypes' /\ Apart(lt)
        BY <1>0, <2>1, <2>2 DEF ThreadTypes, Apart, Places, ScanNext
    <2> QED
        BY <1>0, <1>2, <2>2, <2>3 DEF e
<1> QED
    BY <1>1, <1>2

(* A wait that begins.                                                      *)
LEMMA BeginFacts ==
    ASSUME TypeOK, NEW lt \in LTs, NEW k \in KeysUsed, Begin(lt, k)
    PROVE  /\ ThreadTypes' /\ Apart(lt)
           /\ pc[lt] = "idle" /\ pc'[lt] \in {"loop", "fast", "enter"}
           /\ wait'[lt].object = object /\ wait'[lt].case = case
           /\ wait'[lt].cleanups = cleanups /\ wait'[lt].renewed = renewed
           /\ wait'[lt].number = wait[lt].number + 1
           /\ \/ store' = store
              \/ row.read = "asked" /\ store' = [store EXCEPT ![object] = <<>>]
<1> DEFINE w == [NoWait EXCEPT !.object = object, !.key = k,
                     !.since = IF row.read = "count" THEN Len(log) ELSE 0,
                     !.case = case, !.cleanups = cleanups, !.renewed = renewed,
                     !.number = wait[lt].number + 1]
<1>0. ThreadTypes /\ wait[lt] \in Waits /\ wait[lt].number \in Nat
    BY TypeParts, HeldType DEF Waits
<1>1. /\ wait' = [wait EXCEPT ![lt] = w] /\ outcome' = [outcome EXCEPT ![lt] = "none"]
      /\ pc[lt] = "idle" /\ pc \in [LTs -> Places]
    BY <1>0 DEF Begin, ThreadTypes
<1>2. (IF row.read = "count" THEN Len(log) ELSE 0) \in 0 .. MaxEvents
    BY LogDomain, BoundAssumption
<1>3. /\ w \in Waits /\ w.object = object /\ w.case = case
      /\ w.cleanups = cleanups /\ w.renewed = renewed
      /\ w.number = wait[lt].number + 1
    <2>1. k \in Keys /\ EpochTypes /\ wait[lt].number + 1 \in Nat
        BY <1>0, NoWaitType, ObjectType
    <2> QED
        BY <1>2, <2>1, NoWaitType DEF Waits, NoWait, EpochTypes
<1> HIDE DEF w
<1>4. wait'[lt] = w /\ wait' \in [LTs -> Waits] /\ \A u \in LTs \ {lt} : wait'[u] = wait[u]
    BY <1>0, <1>1, <1>3 DEF ThreadTypes
<1>5. /\ outcome' \in [LTs -> Outcomes]
      /\ \A u \in LTs \ {lt} : outcome'[u] = outcome[u]
    BY <1>0, <1>1 DEF ThreadTypes, Outcomes
<1>6. CASE InQueue
    <2>1. pc' = [pc EXCEPT ![lt] = "loop"] /\ armed' = [armed EXCEPT ![lt] = TRUE]
        BY <1>6 DEF Begin, Goto
    <2> QED
        BY <1>0, <1>1, <1>3, <1>4, <1>5, <2>1 DEF ThreadTypes, Places, Apart, Begin
<1>7. CASE ~InQueue
    <2>1. pc' = [pc EXCEPT ![lt] = IF LooksFirst THEN "fast" ELSE "enter"] /\ armed' = armed
        BY <1>7 DEF Begin, Goto
    <2>2. (IF LooksFirst THEN "fast" ELSE "enter") \in {"fast", "enter"}
        OBVIOUS
    <2> QED
        BY <1>0, <1>1, <1>3, <1>4, <1>5, <2>1, <2>2 DEF ThreadTypes, Places, Apart, Begin
<1> QED
    BY <1>6, <1>7

(* What a step does to its thread: it stays in its wait, or ends it.        *)
Stays(lt) == /\ pc'[lt] # "idle" => /\ pc[lt] # "idle"
                                    /\ wait'[lt].object = wait[lt].object
                                    /\ Kept(wait'[lt], wait[lt])
             /\ wait'[lt].number = wait[lt].number

(* The steps that leave the store and the reports alone.                    *)
Look(lt) == \/ LookFirst(lt) \/ EnterWait(lt) \/ Expire(lt) \/ Interrupted(lt) \/ Poll(lt)
            \/ TimedOut(lt) \/ ScanBegins(lt) \/ ScanNext(lt) \/ ScanEnds(lt)

(* A wait that only looks stays what it is, and finds what is held.         *)
LEMMA LookFacts ==
    ASSUME TypeOK, NEW lt \in LTs, Look(lt)
    PROVE  /\ ThreadTypes' /\ Apart(lt) /\ Stays(lt)
           /\ pc'[lt] = "got" /\ row.read # "stream" =>
                  \/ pc[lt] = "got" /\ wait'[lt].found = wait[lt].found
                  \/ \E i \in DOMAIN Held(lt) : Held(lt)[i] = wait'[lt].found
           /\ pc'[lt] = "late" => pc[lt] = "late" \/ row.read \in {"value", "drain"}
           /\ UNCHANGED <<row, log, epoch, store, known, globalEnd, reports>>
<1>0. ThreadTypes /\ wait[lt] \in Waits /\ armed[lt] \in BOOLEAN /\ pc[lt] \in Places
    BY TypeParts, HeldType DEF ThreadTypes
<1>1. CASE LookFirst(lt)
    <2>1. CASE Satisfied(lt, FALSE)
        BY <1>1, <2>1, SatisfiedFacts DEF LookFirst, Stays
    <2>2. CASE ~Holds(lt) /\ Goto(lt, "enter") /\ UNCHANGED <<wait, armed>>
        BY <1>0, <1>1, <2>2 DEF LookFirst, Goto, ThreadTypes, Apart, Stays, Kept, Places
    <2> QED
        BY <1>1, <2>1, <2>2 DEF LookFirst
<1>2. CASE EnterWait(lt)
    <2>1. CASE Satisfied(lt, TRUE)
        BY <1>2, <2>1, SatisfiedFacts DEF EnterWait, Stays
    <2>2. CASE Goto(lt, "loop") /\ armed' = [armed EXCEPT ![lt] = TRUE] /\ UNCHANGED wait
        BY <1>0, <1>2, <2>2 DEF EnterWait, Goto, ThreadTypes, Apart, Stays, Kept, Places
    <2> QED
        BY <1>2, <2>1, <2>2 DEF EnterWait
<1>3. CASE Expire(lt)
    <2>1. ThreadTypes' /\ Apart(lt) /\ Stays(lt)
        BY <1>0, <1>3 DEF Expire, ThreadTypes, Apart, Stays, Kept
    <2> QED
        BY <1>3, <2>1 DEF Expire
<1>4. CASE Interrupted(lt)
    BY <1>0, <1>4, EndFacts DEF Interrupted, Stays, Outcomes
<1>5. CASE Poll(lt)
    BY <1>0, <1>5, SatisfiedFacts DEF Poll, Stays
<1>6. CASE TimedOut(lt)
    <2>1. CASE row.read \in {"value", "drain"}
        BY <1>0, <1>6, <2>1 DEF TimedOut, Goto, ThreadTypes, Apart, Stays, Kept, Places
    <2>2. CASE row.read \notin {"value", "drain"}
        BY <1>0, <1>6, <2>2, EndFacts DEF TimedOut, Stays, Outcomes
    <2> QED
        BY <2>1, <2>2
<1>7. CASE ScanBegins(lt)
    <2> DEFINE w == [wait[lt] EXCEPT !.index = 1]
    <2>1. /\ w \in Waits /\ w.object = wait[lt].object /\ Kept(w, wait[lt])
          /\ w.number = wait[lt].number
        BY <1>0, FirstCase DEF Waits, Kept
    <2>2. wait' = [wait EXCEPT ![lt] = w] /\ pc' = [pc EXCEPT ![lt] = "scan"]
          /\ armed' = armed /\ outcome' = outcome /\ pc[lt] = "loop"
        BY <1>0, <1>7 DEF ScanBegins, Goto, ThreadTypes
    <2> HIDE DEF w
    <2>3. ThreadTypes' /\ Apart(lt) /\ pc'[lt] = "scan" /\ wait'[lt] = w
        BY <1>0, <2>1, <2>2 DEF ThreadTypes, Apart, Places
    <2> QED
        BY <1>7, <2>1, <2>2, <2>3 DEF ScanBegins, Stays
<1>8. CASE ScanNext(lt)
    BY <1>0, <1>8, ScanNextFacts DEF ScanNext, Stays
<1>9. CASE ScanEnds(lt)
    BY <1>0, <1>9 DEF ScanEnds, Goto, ThreadTypes, Apart, Stays, Kept, Places
<1> QED
    BY <1>1, <1>2, <1>3, <1>4, <1>5, <1>6, <1>7, <1>8, <1>9 DEF Look

(* What reading the store after the condition held may do with it.          *)

(* An event that is reported carries the wait it is reported by.            *)
Telling(lt, e) == [object |-> wait[lt].object, by |-> lt, number |-> wait[lt].number,
                   case |-> wait[lt].case, cleanups |-> wait[lt].cleanups,
                   renewed |-> wait[lt].renewed, event |-> e]

(* One item is taken out of the list: what stands for it is reported.       *)
Taking(lt, i, e) ==
    /\ i \in DOMAIN Held(lt) /\ e \in Events
    /\ store' = [store EXCEPT ![wait[lt].object] = RemoveAt(@, i)]
    /\ reports' = reports \cup {Telling(lt, e)}

(* The store of lists that nobody shortens is read, emptied or left.        *)
Reading(lt) ==
    /\ row.read \notin {"remove", "pop", "stream"}
    /\ \/ store' = store
       \/ row.read # "keep" /\ store' = [store EXCEPT ![wait[lt].object] = <<>>]
    /\ \E es \in SUBSET Events :
          /\ \A e \in es : \/ \E i \in DOMAIN Held(lt) : Held(lt)[i] = e
                           \/ pc[lt] = "got" /\ row.read # "stream" /\ e = wait[lt].found
          /\ reports' = reports \cup {Telling(lt, e) : e \in es}

(* list.pop(0) takes the first match of the thread.                         *)
Popping(lt) ==
    /\ row.read \in {"pop", "stream"}
    /\ \E i \in DOMAIN Held(lt) :
          /\ Matches(lt, Held(lt)[i])
          /\ \A j \in DOMAIN Held(lt) : Matches(lt, Held(lt)[j]) => i <= j
          /\ Taking(lt, i, Held(lt)[i])

(* list.remove takes an event that is equal to the one found.               *)
Removing(lt) ==
    /\ row.read = "remove" /\ pc[lt] = "got"
    /\ \E i \in DOMAIN Held(lt) :
          /\ Equal(Held(lt)[i], wait[lt].found)
          /\ Taking(lt, i, wait[lt].found)
          /\ snapshot' = [o \in LTs |-> IF o = lt THEN {} ELSE
                IF pc[o] = "scan" /\ wait[o].object = wait[lt].object
                THEN {} ELSE snapshot[o] \ {Held(lt)[i]}]

(* Whichever way, the wait is over.                                         *)
LEMMA ReadFacts ==
    ASSUME TypeOK, Waiting, NEW lt \in LTs, ReadStore(lt) \/ ReadLate(lt)
    PROVE  /\ ThreadTypes' /\ Apart(lt) /\ pc[lt] \in {"got", "late"} /\ pc'[lt] = "idle"
           /\ wait'[lt].number = wait[lt].number
           /\ outcome'[lt] = "timeout" => pc[lt] = "late"
           /\ UNCHANGED <<row, log, epoch, known, globalEnd>>
           /\ \/ UNCHANGED <<store, reports>>
              \/ Reading(lt) \/ Popping(lt) \/ Removing(lt)
           /\ \/ Removing(lt) \/ snapshot' = [snapshot EXCEPT ![lt] = {}]
              \/ pc[lt] = "late" /\ snapshot' = snapshot
<1> DEFINE Ended == /\ ThreadTypes' /\ Apart(lt) /\ pc'[lt] = "idle"
                    /\ wait'[lt].number = wait[lt].number
<1>0. /\ ThreadTypes /\ wait[lt] \in Waits /\ "event" \in Outcomes /\ "timeout" \in Outcomes
      /\ "ValueError" \in Outcomes /\ "IndexError" \in Outcomes
    BY TypeParts, HeldType DEF Outcomes
<1>1. \A es : Report(lt, es) => reports' = reports \cup {Telling(lt, e) : e \in es}
    BY DEF Report, Telling
<1>2. /\ Range(Held(lt)) \in SUBSET Events
      /\ \A e \in Range(Held(lt)) : \E i \in DOMAIN Held(lt) : Held(lt)[i] = e
    BY HeldType DEF Range
<1>3. pc[lt] = "got" /\ row.read # "stream" => wait[lt].found \in Events
    BY LogDomain DEF Waiting
<1>4. Empty(lt) => store' = [store EXCEPT ![wait[lt].object] = <<>>]
    BY DEF Empty
<1>5. CASE ReadStore(lt)
    <2>0. pc[lt] = "got" /\ UNCHANGED <<row, log, epoch, known, globalEnd>>
        BY <1>5 DEF ReadStore
    <2>1. CASE row.read = "remove"
        <3>1. TakeOut(lt)
            BY <1>5, <2>1 DEF ReadStore
        <3> DEFINE equal == {i \in DOMAIN Held(lt) : Equal(Held(lt)[i], wait[lt].found)}
        <3>2. CASE equal = {}
            BY <1>0, <2>0, <3>1, <3>2, EndFacts DEF TakeOut, Forget
        <3>3. CASE equal # {}
            <4> DEFINE i == CHOOSE i \in equal : \A j \in equal : i <= j
            <4>1. equal \subseteq Nat
                BY HeldType
            <4>2. i \in equal
                <5>1. Min(equal) \in equal
                    BY <3>3, <4>1, LeastNatural
                <5> QED
                    BY <5>1 DEF Min
            <4>3. /\ DropAt(lt, i) /\ Report(lt, {wait[lt].found}) /\ End(lt, "event")
                  /\ snapshot' = [o \in LTs |-> IF o = lt THEN {} ELSE
                        IF pc[o] = "scan" /\ wait[o].object = wait[lt].object
                        THEN {} ELSE snapshot[o] \ {Held(lt)[i]}]
                BY <3>1, <3>3 DEF TakeOut
            <4> HIDE DEF i
            <4>4. Taking(lt, i, wait[lt].found) /\ Equal(Held(lt)[i], wait[lt].found)
                BY <1>1, <1>3, <2>0, <2>1, <4>2, <4>3 DEF DropAt, Taking
            <4>5. Removing(lt)
                BY <2>0, <2>1, <4>3, <4>4 DEF Removing, Taking
            <4> QED
                BY <1>0, <2>0, <4>3, <4>5, EndFacts
        <3> QED
            BY <3>2, <3>3
    <2>2. CASE row.read \in {"pop", "stream"}
        <3>1. Pop(lt) /\ Forget(lt)
            BY <1>5, <2>2 DEF ReadStore
        <3> DEFINE mine == {i \in DOMAIN Held(lt) : Matches(lt, Held(lt)[i])}
        <3>2. CASE mine = {}
            BY <1>0, <2>0, <3>1, <3>2, EndFacts DEF Pop, Forget
        <3>3. CASE mine # {}
            <4> DEFINE i == CHOOSE i \in mine : \A j \in mine : i <= j
            <4>1. mine \subseteq Nat
                BY HeldType
            <4>2. i \in mine /\ \A j \in mine : i <= j
                <5>1. Min(mine) \in mine /\ \A j \in mine : Min(mine) <= j
                    BY <3>3, <4>1, LeastNatural
                <5> QED
                    BY <5>1 DEF Min
            <4>3. DropAt(lt, i) /\ Report(lt, {Held(lt)[i]}) /\ End(lt, "event")
                BY <3>1, <3>3 DEF Pop
            <4> HIDE DEF i
            <4>4. Taking(lt, i, Held(lt)[i])
                BY <1>1, <4>2, <4>3, HeldType DEF DropAt, Taking
            <4>5. Popping(lt)
                BY <2>2, <4>2, <4>4 DEF Popping
            <4> QED
                BY <1>0, <2>0, <3>1, <4>3, <4>5, EndFacts DEF Forget
        <3> QED
            BY <3>2, <3>3
    <2>3. CASE row.read \notin {"remove", "pop", "stream"}
        <3>1. /\ End(lt, "event") /\ Forget(lt)
              /\ store' = store \/ (row.read # "keep" /\ Empty(lt))
              /\ \/ Report(lt, Range(Held(lt)))
                 \/ Report(lt, {wait[lt].found})
            BY <1>5, <2>3 DEF ReadStore
        <3>2. Reading(lt)
            <4>1. CASE Report(lt, Range(Held(lt)))
                BY <1>1, <1>2, <1>4, <2>3, <3>1, <4>1 DEF Reading
            <4>2. CASE Report(lt, {wait[lt].found})
                <5>1. reports' = reports \cup {Telling(lt, e) : e \in {wait[lt].found}}
                    BY <1>1, <4>2
                <5>2. {wait[lt].found} \in SUBSET Events
                    BY <1>3, <2>0, <2>3
                <5> QED
                    BY <1>4, <2>0, <2>3, <3>1, <5>1, <5>2 DEF Reading
            <4> QED
                BY <3>1, <4>1, <4>2
        <3> QED
            BY <1>0, <2>0, <3>1, <3>2, EndFacts DEF Forget
    <2> QED
        BY <2>1, <2>2, <2>3
<1>6. CASE ReadLate(lt)
    <2>0. pc[lt] = "late" /\ UNCHANGED <<row, log, epoch, known, globalEnd, snapshot>>
        BY <1>6 DEF ReadLate
    <2>1. CASE Held(lt) = <<>>
        BY <1>0, <1>6, <2>0, <2>1, EndFacts DEF ReadLate
    <2>2. CASE Held(lt) # <<>>
        <3>1. /\ End(lt, "event") /\ (store' = store \/ Empty(lt))
              /\ \/ Report(lt, Range(Held(lt)))
                 \/ Report(lt, {Held(lt)[1]})
            BY <1>6, <2>2 DEF ReadLate
        <3>2. 1 \in DOMAIN Held(lt)
            BY <2>2, HeldType, EmptySeq
        <3>3. row.read \in {"value", "drain"}
            BY <2>0 DEF Waiting
        <3>4. Reading(lt)
            <4>1. CASE Report(lt, Range(Held(lt)))
                BY <1>1, <1>2, <1>4, <3>1, <3>3, <4>1 DEF Reading
            <4>2. CASE Report(lt, {Held(lt)[1]})
                <5>1. /\ reports' = reports \cup {Telling(lt, e) : e \in {Held(lt)[1]}}
                      /\ {Held(lt)[1]} \in SUBSET Events
                    BY <1>1, <3>2, <4>2, HeldType
                <5> QED
                    BY <1>4, <3>1, <3>2, <3>3, <5>1 DEF Reading
            <4> QED
                BY <3>1, <4>1, <4>2
        <3> QED
            BY <1>0, <2>0, <3>1, <3>4, EndFacts
    <2> QED
        BY <2>1, <2>2
<1> QED
    BY <1>5, <1>6

-----------------------------------------------------------------------------
(* Test cases, clean-ups and objects.                                       *)

(* They only ever grow, and where the layer has a new object, it is of this *)
(* test case.                                                               *)
Onward == case <= case' /\ cleanups <= cleanups' /\ object <= object'
Turned == \/ UNCHANGED epoch
          \/ object' = object + 1 /\ case' = case
          \/ /\ object' = object /\ case' = case /\ renewed' = renewed
             /\ cleanups' = cleanups \/ ~CleanedUp
          \/ object' = object /\ cleanups' = cleanups /\ renewed' = FALSE

LEMMA RenewFacts ==
    ASSUME TypeOK, NEW does \in BOOLEAN, Renew(does)
    PROVE  /\ object' \in Objects /\ renewed' \in BOOLEAN /\ object <= object'
           /\ does => object' = object + 1
           /\ ~does => object' = object /\ renewed' = renewed
BY BoundAssumption DEF TypeOK, Renew, Objects

LEMMA Onwards ==
    ASSUME TypeOK, [Next]_vars
    PROVE  EpochTypes' /\ Onward /\ Turned
<1>0. EpochTypes /\ CleanedUp \in BOOLEAN
    BY ObjectType DEF CleanedUp
<1>1. CASE UNCHANGED epoch
    <2>1. EpochTypes'
        BY <1>0, <1>1 DEF EpochTypes, epoch
    <2>2. Onward
        BY <1>0, <1>1, FirstCase DEF EpochTypes, epoch, Onward
    <2> QED
        BY <1>1, <2>1, <2>2 DEF Turned
<1>2. CASE CleanUp
    <2>1. /\ cleanups' = cleanups + 1 /\ case' = case /\ cleanups' \in CleanUps
          /\ cleanups <= cleanups' /\ case <= case'
        BY <1>0, <1>2, BoundAssumption DEF CleanUp, EpochTypes, CleanUps, Cases
    <2>2. Renew(CleanedUp)
        BY <1>2 DEF CleanUp
    <2> QED
        BY <1>0, <2>1, <2>2, RenewFacts DEF EpochTypes, Onward, Turned
<1>3. CASE Initialise
    <2>1. UNCHANGED <<case, cleanups>> /\ Renew(TRUE)
        BY <1>3 DEF Initialise
    <2>2. cleanups <= cleanups' /\ case <= case'
        BY <1>0, <2>1, FirstCase DEF EpochTypes
    <2> QED
        BY <1>0, <2>1, <2>2, RenewFacts DEF EpochTypes, Onward, Turned
<1>4. CASE NextCase
    <2>1. /\ UNCHANGED <<object, cleanups>> /\ case' = case + 1 /\ case' \in Cases /\ renewed' = FALSE
          /\ case <= case' /\ object <= object' /\ cleanups <= cleanups'
        BY <1>0, <1>4, BoundAssumption, FirstCase DEF NextCase, EpochTypes, Cases
    <2> QED
        BY <1>0, <2>1 DEF EpochTypes, Onward, Turned
<1> QED
    BY <1>1, <1>2, <1>3, <1>4 DEF Next, Step, Write, Received, Clear, SetGlobalEnd, Begin, LookFirst,
        EnterWait, Expire, Interrupted, Poll, TimedOut, ScanBegins, ScanNext, ScanEnds, ReadStore,
        ReadLate, vars

-----------------------------------------------------------------------------
(* What the steps do to the log, the store and the reports.                 *)

Still == /\ UNCHANGED <<row, log, store, reports>>
         /\ EpochTypes' /\ Onward
Emptied == /\ UNCHANGED <<row, log, epoch, reports>>
           /\ ~(row.write = "append" /\ row.read \in {"remove", "pop"})
           /\ \E o \in Objects : store' = [store EXCEPT ![o] = <<>>]
Read(lt) == /\ UNCHANGED <<row, log, epoch>> /\ pc[lt] \in {"got", "late"}
            /\ pc'[lt] = "idle" /\ wait'[lt].number = wait[lt].number
            /\ Reading(lt) \/ Popping(lt) \/ Removing(lt)

LEMMA Effects ==
    ASSUME TypeOK, Waiting, [Next]_vars
    PROVE  \/ Still \/ Emptied
           \/ \E k \in KeysUsed, v \in Values : Write(k, v)
           \/ \E lt \in LTs : Read(lt)
<1>0. EpochTypes' /\ Onward
    BY Onwards
<1>1. CASE \E k \in KeysUsed, v \in Values : Write(k, v)
    BY <1>1
<1>2. CASE Clear
    BY <1>2, ObjectType DEF Clear, Emptied
<1>3. CASE CleanUp
    BY <1>3, ObjectType, Onwards DEF CleanUp, Still
<1>4. CASE SetGlobalEnd
    BY <1>0, <1>4, ObjectType DEF SetGlobalEnd, Still
<1>9. CASE Initialise
    BY <1>9, Onwards DEF Initialise, Still
<1>10. CASE NextCase
    BY <1>10, Onwards DEF NextCase, Still
<1>5. ASSUME NEW lt \in LTs, NEW k \in KeysUsed, Begin(lt, k)
      PROVE  Still \/ Emptied
    <2>1. UNCHANGED <<row, log, epoch, reports>>
        BY <1>5 DEF Begin
    <2> QED
        BY <1>0, <1>5, <2>1, BeginFacts, ObjectType DEF Still, Emptied
<1>6. ASSUME NEW lt \in LTs, Look(lt)
      PROVE  Still
    BY <1>0, <1>6, LookFacts, ObjectType DEF Still
<1>7. ASSUME NEW lt \in LTs, ReadStore(lt) \/ ReadLate(lt)
      PROVE  Still \/ Read(lt)
    BY <1>0, <1>7, ReadFacts, ObjectType DEF Still, Read
<1>8. CASE UNCHANGED vars
    BY <1>0, <1>8, ObjectType DEF vars, Still
<1> QED
    BY <1>1, <1>2, <1>3, <1>4, <1>5, <1>6, <1>7, <1>8, <1>9, <1>10 DEF Next, Step, Look

(* What is received is the next event of the log; the object of the stack   *)
(* holds it last, if it holds it.                                           *)
LEMMA WriteFacts ==
    ASSUME TypeOK, NEW k \in KeysUsed, NEW v \in Values, Write(k, v)
    PROVE  /\ UNCHANGED <<row, epoch, reports>>
           /\ log' \in Seq(Entries) /\ Len(log') = Len(log) + 1 /\ Len(log') <= MaxEvents
           /\ Len(log) \in Nat /\ Len(log') \in Events
           /\ DOMAIN log = 1 .. Len(log) /\ DOMAIN log' = 1 .. Len(log')
           /\ \A e \in DOMAIN log : log'[e] = log[e]
           /\ log'[Len(log')].case = case /\ log'[Len(log')].cleanups = cleanups
           /\ log'[Len(log')].object = object
           /\ object \in Objects /\ store'[object] \in Seq(Events)
           /\ StoreTypes'
           /\ \A o \in Objects \ {object} : store'[o] = store[o]
           /\ \A j \in DOMAIN store'[object] :
                 \/ j \in DOMAIN store[object] /\ store'[object][j] = store[object][j]
                 \/ /\ store'[object][j] = Len(log')
                    /\ \A i \in DOMAIN store'[object] : i <= j
           /\ row.write \in Queued => \A j \in DOMAIN store[object] :
                 j \in DOMAIN store'[object] /\ store'[object][j] = store[object][j]
           /\ row.write = "append" =>
                 Range(store'[object]) = Range(store[object]) \cup {Len(log')}
<1> DEFINE entry == [key |-> k, value |-> v, case |-> case,
                               cleanups |-> cleanups, object |-> object]
           n == Len(log')
           held == store[object]
<1>1. /\ log' = Append(log, entry) /\ Len(log) < MaxEvents /\ UNCHANGED <<row, epoch, reports>>
      /\ object \in Objects /\ held \in Seq(Events) /\ row.write \in Writes
    BY ObjectType, RowFacts DEF Write, Received, TypeOK
<1>2. entry \in Entries /\ log \in Seq(Entries)
    BY NoWaitType DEF TypeOK, Entries
<1> HIDE DEF entry
<1>3. /\ log' \in Seq(Entries) /\ Len(log') = Len(log) + 1 /\ log'[Len(log) + 1] = entry
      /\ \A e \in 1 .. Len(log) : log'[e] = log[e]
    BY <1>1, <1>2, AppendProperties
<1>4. /\ Len(log) \in Nat /\ DOMAIN log = 1 .. Len(log) /\ DOMAIN log' = 1 .. Len(log')
      /\ n \in Events /\ n <= MaxEvents
    BY <1>1, <1>2, <1>3, LogDomain, BoundAssumption DEF Events
<1> DEFINE new == CASE row.write \in {"append", "group"} -> Append(held, n)
                    [] row.write \in {"set", "level"}    -> <<n>>
                    [] row.write = "lost"                -> held
<1>5. store' = [store EXCEPT ![object] = new]
    BY DEF Write
<1> HIDE DEF n, new, held
<1>6. /\ new \in Seq(Events)
      /\ \A j \in DOMAIN new : \/ j \in DOMAIN held /\ new[j] = held[j]
                               \/ new[j] = n /\ \A i \in DOMAIN new : i <= j
      /\ row.write \in Queued => \A j \in DOMAIN held : j \in DOMAIN new /\ new[j] = held[j]
      /\ row.write = "append" => Range(new) = Range(held) \cup {n}
    <2>1. CASE row.write \in {"append", "group"}
        <3>1. new = Append(held, n)
            BY <2>1 DEF new
        <3>2. /\ new \in Seq(Events) /\ Len(new) = Len(held) + 1 /\ new[Len(held) + 1] = n
              /\ \A j \in 1 .. Len(held) : new[j] = held[j]
            BY <1>1, <1>4, <3>1, AppendProperties
        <3>3. /\ Len(held) \in Nat /\ DOMAIN held = 1 .. Len(held)
              /\ DOMAIN new = 1 .. Len(held) + 1
            BY <1>1, <3>2
        <3>4. Range(new) = Range(held) \cup {n}
            <4>1. ASSUME NEW x \in Range(new) PROVE x \in Range(held) \cup {n}
                BY <3>2, <3>3 DEF Range
            <4>2. ASSUME NEW x \in Range(held) \cup {n} PROVE x \in Range(new)
                <5>1. CASE x = n
                    BY <3>2, <3>3, <5>1 DEF Range
                <5>2. CASE x \in Range(held)
                    <6>1. PICK j \in 1 .. Len(held) : held[j] = x
                        BY <3>3, <5>2 DEF Range
                    <6> QED
                        BY <3>2, <3>3, <6>1 DEF Range
                <5> QED
                    BY <5>1, <5>2
            <4> QED
                BY <4>1, <4>2
        <3>5. \A j \in DOMAIN new : \/ j \in DOMAIN held /\ new[j] = held[j]
                                    \/ new[j] = n /\ \A i \in DOMAIN new : i <= j
            BY <3>2, <3>3
        <3>6. \A j \in DOMAIN held : j \in DOMAIN new /\ new[j] = held[j]
            BY <3>2, <3>3
        <3> QED
            BY <3>2, <3>4, <3>5, <3>6
    <2>2. CASE row.write \in {"set", "level"}
        <3>1. new = <<n>> /\ row.write # "append" /\ row.write \notin Queued
            BY <2>2 DEF new, Queued
        <3>2. new \in Seq(Events) /\ DOMAIN new = {1} /\ new[1] = n
            BY <1>4, <3>1
        <3> QED
            BY <3>1, <3>2
    <2>3. CASE row.write = "lost"
        <3>1. new = held
            BY <2>3 DEF new
        <3> QED
            BY <1>1, <2>3, <3>1
    <2> QED
        BY <1>1, <2>1, <2>2, <2>3 DEF Writes
<1>7. /\ store'[object] = new /\ store' \in [Objects -> Seq(Events)]
      /\ \A o \in Objects \ {object} : store'[o] = store[o]
    BY <1>1, <1>5, <1>6 DEF TypeOK
<1>8. known' \in [Objects -> SUBSET Keys]
    BY <1>1, NoWaitType DEF Write, TypeOK
<1> QED
    BY <1>1, <1>3, <1>4, <1>6, <1>7, <1>8 DEF StoreTypes, entry, n, held

(* An item is taken out of what a wait holds.                               *)
LEMMA TakingFacts ==
    ASSUME TypeOK, Stored, NEW lt \in LTs, NEW i, NEW e, Taking(lt, i, e)
    PROVE  /\ wait[lt].object \in Objects /\ store' \in [Objects -> Seq(Events)]
           /\ \A o \in Objects \ {wait[lt].object} : store'[o] = store[o]
           /\ \A j \in DOMAIN store'[wait[lt].object] :
                 \E m \in DOMAIN Held(lt) : m # i /\ store'[wait[lt].object][j] = Held(lt)[m]
           /\ \A j, m \in DOMAIN store'[wait[lt].object] :
                 j < m => store'[wait[lt].object][j] < store'[wait[lt].object][m]
           /\ Range(store'[wait[lt].object]) = Range(Held(lt)) \ {Held(lt)[i]}
<1> DEFINE o == wait[lt].object
           s == store[o]
           t == RemoveAt(s, i)
<1>1. /\ o \in Objects /\ Held(lt) = s /\ s \in Seq(Events)
      /\ i \in DOMAIN s /\ DOMAIN s = 1 .. Len(s) /\ Len(s) \in Nat
      /\ \A j \in DOMAIN s : s[j] \in Nat
    BY HeldType DEF Taking, Events
<1>2. \A j, m \in DOMAIN s : j < m => s[j] < s[m]
    BY <1>1 DEF Stored
<1>3. store' = [store EXCEPT ![o] = t]
    BY DEF Taking
<1> HIDE DEF s
<1>4. /\ t \in Seq(Events) /\ Len(t) = Len(s) - 1
      /\ \A j \in 1 .. Len(s) - 1 : t[j] = IF j < i THEN s[j] ELSE s[j + 1]
    BY <1>1, RemovedElements
<1> HIDE DEF t
<1>5. DOMAIN t = 1 .. Len(s) - 1 /\ i \in 1 .. Len(s)
    BY <1>1, <1>4
<1>6. /\ store'[o] = t /\ store' \in [Objects -> Seq(Events)]
      /\ \A p \in Objects \ {o} : store'[p] = store[p]
    BY <1>1, <1>3, <1>4 DEF TypeOK
<1>7. ASSUME NEW j \in DOMAIN t
      PROVE  \E m \in DOMAIN s : m # i /\ t[j] = s[m]
    <2>1. CASE j < i
        <3>1. j \in DOMAIN s /\ j # i /\ t[j] = s[j]
            BY <1>1, <1>4, <1>5, <2>1
        <3> QED
            BY <3>1
    <2>2. CASE ~(j < i)
        <3>1. j + 1 \in DOMAIN s /\ j + 1 # i /\ t[j] = s[j + 1]
            BY <1>1, <1>4, <1>5, <2>2
        <3> QED
            BY <3>1
    <2> QED
        BY <2>1, <2>2
<1>8. ASSUME NEW m \in DOMAIN s, m # i
      PROVE  \E j \in DOMAIN t : t[j] = s[m]
    <2>1. CASE m < i
        <3>1. m \in DOMAIN t /\ t[m] = s[m]
            BY <1>1, <1>4, <1>5, <2>1
        <3> QED
            BY <3>1
    <2>2. CASE ~(m < i)
        <3>1. m - 1 \in DOMAIN t /\ ~(m - 1 < i) /\ (m - 1) + 1 = m
            BY <1>1, <1>5, <1>8, <2>2
        <3>2. t[m - 1] = s[(m - 1) + 1]
            BY <1>4, <1>5, <3>1
        <3> QED
            BY <3>1, <3>2
    <2> QED
        BY <2>1, <2>2
<1>9. ASSUME NEW j \in DOMAIN t, NEW m \in DOMAIN t, j < m
      PROVE  t[j] < t[m]
    <2>1. PICK p \in DOMAIN s : t[j] = s[p] /\ p = IF j < i THEN j ELSE j + 1
        BY <1>1, <1>4, <1>5
    <2>2. PICK q \in DOMAIN s : t[m] = s[q] /\ q = IF m < i THEN m ELSE m + 1
        BY <1>1, <1>4, <1>5
    <2>3. p < q
        BY <1>5, <1>9, <2>1, <2>2
    <2> QED
        BY <1>2, <2>1, <2>2, <2>3
<1>10. \A m \in DOMAIN s : m # i => s[m] # s[i]
    <2> SUFFICES ASSUME NEW m \in DOMAIN s, m # i PROVE s[m] # s[i]
        OBVIOUS
    <2>1. m < i \/ i < m
        BY <1>1
    <2> QED
        BY <1>1, <1>2, <2>1
<1>11. Range(t) = Range(s) \ {s[i]}
    <2>1. ASSUME NEW x \in Range(t) PROVE x \in Range(s) \ {s[i]}
        BY <1>7, <1>10 DEF Range
    <2>2. ASSUME NEW x \in Range(s) \ {s[i]} PROVE x \in Range(t)
        <3>1. PICK m \in DOMAIN s : s[m] = x /\ m # i
            BY DEF Range
        <3> QED
            BY <1>8, <3>1 DEF Range
    <2> QED
        BY <2>1, <2>2
<1> QED
    BY <1>1, <1>6, <1>7, <1>9, <1>11

-----------------------------------------------------------------------------
(* Every step keeps the types.                                              *)
LEMMA TypesStep ==
    ASSUME TypeOK, Waiting, Stored, [Next]_vars
    PROVE  TypeOK'
<1>0. /\ ThreadTypes /\ SharedTypes /\ StoreTypes
      /\ reports \subseteq Told /\ snapshot \in [LTs -> SUBSET Events]
    BY TypeParts
<1>1. SharedTypes'
    <2>0. EpochTypes'
        BY Onwards
    <2>1. CASE \E k \in KeysUsed, v \in Values : Write(k, v)
        BY <1>0, <2>0, <2>1, WriteFacts DEF SharedTypes, Write
    <2>2. ASSUME NEW lt \in LTs, NEW k \in KeysUsed, Begin(lt, k)
          PROVE  SharedTypes'
        BY <1>0, <2>0, <2>2 DEF SharedTypes, Begin
    <2>3. ASSUME NEW lt \in LTs, Look(lt)
          PROVE  SharedTypes'
        BY <1>0, <2>0, <2>3, LookFacts DEF SharedTypes
    <2>4. ASSUME NEW lt \in LTs, ReadStore(lt) \/ ReadLate(lt)
          PROVE  SharedTypes'
        BY <1>0, <2>0, <2>4, ReadFacts DEF SharedTypes
    <2>5. CASE Clear
        BY <1>0, <2>0, <2>5 DEF SharedTypes, Clear
    <2>6. CASE CleanUp \/ Initialise \/ NextCase
        BY <1>0, <2>0, <2>6 DEF SharedTypes, CleanUp, Initialise, NextCase
    <2>7. CASE SetGlobalEnd
        BY <1>0, <2>0, <2>7 DEF SharedTypes, SetGlobalEnd
    <2>8. CASE UNCHANGED vars
        BY <1>0, <2>0, <2>8 DEF SharedTypes, vars
    <2> QED
        BY <2>1, <2>2, <2>3, <2>4, <2>5, <2>6, <2>7, <2>8 DEF Next, Step, Look
<1>2. ThreadTypes'
    <2>1. ASSUME NEW lt \in LTs, NEW k \in KeysUsed, Begin(lt, k)
          PROVE  ThreadTypes'
        BY <2>1, BeginFacts
    <2>2. ASSUME NEW lt \in LTs, Look(lt)
          PROVE  ThreadTypes'
        BY <2>2, LookFacts
    <2>3. ASSUME NEW lt \in LTs, ReadStore(lt) \/ ReadLate(lt)
          PROVE  ThreadTypes'
        BY <2>3, ReadFacts
    <2>4. CASE UNCHANGED <<pc, wait, armed, outcome>>
        BY <1>0, <2>4 DEF ThreadTypes
    <2> QED
        BY <2>1, <2>2, <2>3, <2>4
        DEF Next, Step, Look, Write, Clear, CleanUp, Initialise, NextCase,
            SetGlobalEnd, vars
<1>3. store' \in [Objects -> Seq(Events)] /\ reports' \subseteq Told
    <2>1. CASE Still
        BY <1>0, <2>1 DEF Still, StoreTypes
    <2>2. CASE Emptied
        <3>1. <<>> \in Seq(Events)
            OBVIOUS
        <3> QED
            BY <1>0, <2>2, <3>1 DEF Emptied, StoreTypes
    <2>3. CASE \E k \in KeysUsed, v \in Values : Write(k, v)
        BY <1>0, <2>3, WriteFacts DEF StoreTypes
    <2>4. ASSUME NEW lt \in LTs, Read(lt)
          PROVE  store' \in [Objects -> Seq(Events)] /\ reports' \subseteq Told
        <3>0. wait[lt] \in Waits /\ wait[lt].object \in Objects
            BY HeldType
        <3>1. \A e \in Events : Telling(lt, e) \in Told
            BY <3>0 DEF Telling, Told, Waits
        <3>2. CASE Reading(lt)
            <4>1. <<>> \in Seq(Events)
                OBVIOUS
            <4>2. store' \in [Objects -> Seq(Events)]
                BY <1>0, <3>0, <3>2, <4>1 DEF Reading, StoreTypes
            <4>3. reports' \subseteq Told
                BY <1>0, <3>1, <3>2 DEF Reading
            <4> QED
                BY <4>2, <4>3
        <3>3. ASSUME NEW i, NEW e, Taking(lt, i, e)
              PROVE  store' \in [Objects -> Seq(Events)] /\ reports' \subseteq Told
            <4>1. store' \in [Objects -> Seq(Events)]
                BY <3>3, TakingFacts
            <4>2. e \in Events /\ reports' = reports \cup {Telling(lt, e)}
                BY <3>3 DEF Taking
            <4> QED
                BY <1>0, <3>1, <4>1, <4>2
        <3> QED
            BY <2>4, <3>2, <3>3 DEF Read, Popping, Removing
    <2> QED
        BY <2>1, <2>2, <2>3, <2>4, Effects
<1>4. known' \in [Objects -> SUBSET Keys]
    <2>1. CASE \E k \in KeysUsed, v \in Values : Write(k, v)
        BY <2>1, WriteFacts DEF StoreTypes
    <2>2. CASE Clear
        BY <1>0, <2>2, ObjectType DEF Clear, StoreTypes
    <2>3. CASE UNCHANGED known
        BY <1>0, <2>3 DEF StoreTypes
    <2> QED
        BY <2>1, <2>2, <2>3, LookFacts, ReadFacts
        DEF Next, Step, Look, Begin, CleanUp, Initialise, NextCase,
            SetGlobalEnd, vars
<1>5. snapshot' \in [LTs -> SUBSET Events]
    <2>1. ASSUME NEW lt \in LTs, ScanBegins(lt)
          PROVE  snapshot' \in [LTs -> SUBSET Events]
        <3>1. Range(Held(lt)) \in SUBSET Events
            BY HeldType DEF Range
        <3> QED
            BY <1>0, <2>1, <3>1 DEF ScanBegins
    <2>2. ASSUME NEW lt \in LTs, Forget(lt)
          PROVE  snapshot' \in [LTs -> SUBSET Events]
        BY <1>0, <2>2 DEF Forget
    <2>3. ASSUME NEW lt \in LTs, ReadStore(lt) \/ ReadLate(lt)
          PROVE  snapshot' \in [LTs -> SUBSET Events]
        BY <1>0, <2>3, ReadFacts DEF Removing
    <2>4. CASE UNCHANGED snapshot
        BY <1>0, <2>4
    <2> QED
        BY <2>1, <2>2, <2>3, <2>4
        DEF Next, Step, Write, Clear, CleanUp, Initialise, NextCase, SetGlobalEnd, Begin, LookFirst, EnterWait,
            Expire, Interrupted, Poll, TimedOut, ScanNext, ScanEnds, vars
<1> QED
    BY <1>1, <1>2, <1>3, <1>4, <1>5, TypeParts DEF StoreTypes, TypeOK, ThreadTypes,
        SharedTypes, EpochTypes, Waits, Entries, Told, Places, Outcomes

-----------------------------------------------------------------------------
(* The log and the stores.                                                  *)

(* Steps that receive nothing leave in a store what was in it, in its order.*)
Quiet == Still \/ Emptied \/ \E lt \in LTs : Read(lt)

LEMMA QuietFacts ==
    ASSUME TypeOK, Stored, Quiet
    PROVE  /\ row' = row /\ log' = log
           /\ \A o \in Objects : \A i \in DOMAIN store'[o] :
                 \E m \in DOMAIN store[o] : store'[o][i] = store[o][m]
           /\ \A o \in Objects : \A i, j \in DOMAIN store'[o] :
                 i < j => store'[o][i] < store'[o][j]
<1> DEFINE Goal == /\ \A o \in Objects : \A i \in DOMAIN store'[o] :
                         \E m \in DOMAIN store[o] : store'[o][i] = store[o][m]
                   /\ \A o \in Objects : \A i, j \in DOMAIN store'[o] :
                         i < j => store'[o][i] < store'[o][j]
<1>0. store \in [Objects -> Seq(Events)]
    BY DEF TypeOK, Objects
<1>1. ASSUME store' = store PROVE Goal
    BY <1>1 DEF Stored
<1>2. ASSUME NEW o \in Objects, store' = [store EXCEPT ![o] = <<>>] PROVE Goal
    <2>1. DOMAIN store'[o] = {} /\ \A p \in Objects \ {o} : store'[p] = store[p]
        BY <1>0, <1>2
    <2> QED
        BY <2>1 DEF Stored
<1>3. ASSUME NEW lt \in LTs, Reading(lt) PROVE Goal
    BY <1>1, <1>2, <1>3, HeldType DEF Reading
<1>4. ASSUME NEW lt \in LTs, NEW i, NEW e, Taking(lt, i, e) PROVE Goal
    <2>1. wait[lt].object \in Objects /\ Held(lt) = store[wait[lt].object]
        BY HeldType
    <2>2. \A p \in Objects \ {wait[lt].object} : store'[p] = store[p]
        BY <1>4, TakingFacts
    <2>3. /\ \A j \in DOMAIN store'[wait[lt].object] :
                 \E m \in DOMAIN Held(lt) : m # i /\ store'[wait[lt].object][j] = Held(lt)[m]
          /\ \A j, m \in DOMAIN store'[wait[lt].object] :
                 j < m => store'[wait[lt].object][j] < store'[wait[lt].object][m]
        BY <1>4, TakingFacts
    <2> QED
        BY <2>1, <2>2, <2>3 DEF Stored
<1>5. Goal
    BY <1>1, <1>2, <1>3, <1>4 DEF Quiet, Still, Emptied, Read, Popping, Removing
<1>6. row' = row /\ log' = log
    BY DEF Quiet, Still, Emptied, Read
<1> QED
    BY <1>5, <1>6

LEMMA LoggedStep ==
    ASSUME TypeOK, Waiting, Stored, Logged, [Next]_vars
    PROVE  Logged'
<1>0. /\ object \in Nat /\ object' \in Nat /\ object <= object'
      /\ \A e \in DOMAIN log : log[e].object \in Nat
    BY Onwards, ObjectType, FirstCase, LogDomain DEF EpochTypes, Onward, Entries
<1>1. CASE Quiet
    <2> SUFFICES ASSUME NEW i \in DOMAIN log, NEW j \in DOMAIN log
                 PROVE  log[i].object <= object' /\ (i < j => log[i].object <= log[j].object)
        BY <1>1, QuietFacts DEF Logged
    <2>1. log[i].object <= object /\ (i < j => log[i].object <= log[j].object)
        BY DEF Logged
    <2> QED
        BY <1>0, <2>1
<1>2. ASSUME NEW k \in KeysUsed, NEW v \in Values, Write(k, v)
      PROVE  Logged'
    <2>1. /\ object' = object /\ Len(log) \in Nat
          /\ DOMAIN log = 1 .. Len(log) /\ DOMAIN log' = 1 .. Len(log) + 1
          /\ \A e \in DOMAIN log : log'[e] = log[e]
          /\ log'[Len(log) + 1].object = object
        BY <1>2, WriteFacts DEF epoch
    <2> QED
        BY <1>0, <2>1 DEF Logged
<1> QED
    BY <1>1, <1>2, Effects DEF Quiet

LEMMA StoredStep ==
    ASSUME TypeOK, Waiting, Stored, [Next]_vars
    PROVE  Stored'
<1>1. CASE Quiet
    BY <1>1, QuietFacts DEF Stored
<1>2. ASSUME NEW k \in KeysUsed, NEW v \in Values, Write(k, v)
      PROVE  Stored'
    <2>1. /\ row' = row /\ Len(log) \in Nat /\ Len(log') = Len(log) + 1
          /\ DOMAIN log = 1 .. Len(log) /\ DOMAIN log' = 1 .. Len(log')
          /\ \A e \in DOMAIN log : log'[e] = log[e]
          /\ log'[Len(log')].object = object
        BY <1>2, WriteFacts
    <2>2. /\ object \in Objects
          /\ \A o \in Objects \ {object} : store'[o] = store[o]
        BY <1>2, WriteFacts
    <2>3. \A j \in DOMAIN store'[object] :
                 \/ j \in DOMAIN store[object] /\ store'[object][j] = store[object][j]
                 \/ /\ store'[object][j] = Len(log')
                    /\ \A i \in DOMAIN store'[object] : i <= j
        BY <1>2, WriteFacts
    <2>5. \A i \in DOMAIN store[object] : /\ store[object][i] \in DOMAIN log
                                          /\ log[store[object][i]].object = object
        BY <2>2 DEF Stored
    <2>6. DOMAIN store'[object] \subseteq Nat
        <3>1. store'[object] \in Seq(Events)
            BY <1>2, WriteFacts
        <3> QED
            BY <3>1
    <2>7. ASSUME NEW i \in DOMAIN store'[object], NEW j \in DOMAIN store'[object]
          PROVE  /\ store'[object][i] \in DOMAIN log'
                 /\ log'[store'[object][i]].object = object
                 /\ i < j => store'[object][i] < store'[object][j]
        <3>1. CASE store'[object][i] = Len(log') /\ \A m \in DOMAIN store'[object] : m <= i
            BY <2>1, <2>6, <3>1
        <3>2. CASE i \in DOMAIN store[object] /\ store'[object][i] = store[object][i]
            <4>1. CASE store'[object][j] = Len(log')
                BY <2>1, <2>5, <3>2, <4>1
            <4>2. CASE j \in DOMAIN store[object] /\ store'[object][j] = store[object][j]
                BY <2>1, <2>2, <2>5, <3>2, <4>2 DEF Stored
            <4> QED
                BY <2>3, <4>1, <4>2
        <3> QED
            BY <2>3, <3>1, <3>2
    <2>8. ASSUME NEW o \in Objects \ {object}, NEW i \in DOMAIN store[o], NEW j \in DOMAIN store[o]
          PROVE  /\ store'[o][i] \in DOMAIN log'
                 /\ log'[store'[o][i]].object = o
                 /\ i < j => store'[o][i] < store'[o][j]
        BY <2>1, <2>2 DEF Stored
    <2> QED
        BY <2>1, <2>2, <2>7, <2>8 DEF Stored
<1> QED
    BY <1>1, <1>2, Effects DEF Quiet

-----------------------------------------------------------------------------
(* What is popped.                                                          *)

(* The pop takes the first match, so what matches and stays came later, and *)
(* what this thread popped before came earlier.                             *)
LEMMA PoppingFacts ==
    ASSUME TypeOK, Stored, Logged, Waiting, Reported, LeftLater, NEW lt \in LTs,
           Popping(lt), pc[lt] \in {"got", "late"}
    PROVE  \E e \in DOMAIN log :
              /\ reports' = reports \cup {Telling(lt, e)} /\ (Keyed => log[e].key = wait[lt].key)
              /\ \A j \in DOMAIN store'[wait[lt].object] :
                    (Keyed => log[store'[wait[lt].object][j]].key = log[e].key) =>
                        e < store'[wait[lt].object][j]
              /\ \A r \in reports : r.by = lt /\ (Keyed => log[r.event].key = log[e].key) =>
                    r.event < e
<1> DEFINE o == wait[lt].object
<1>1. PICK i \in DOMAIN Held(lt) :
          /\ Matches(lt, Held(lt)[i])
          /\ \A j \in DOMAIN Held(lt) : Matches(lt, Held(lt)[j]) => i <= j
          /\ Taking(lt, i, Held(lt)[i])
    BY DEF Popping
<1> DEFINE e == Held(lt)[i]
<1>2. o \in Objects /\ Held(lt) = store[o] /\ DOMAIN Held(lt) \subseteq Nat
    BY HeldType
<1>3. e \in DOMAIN log /\ log[e].object = o
    BY <1>2 DEF Stored
<1>4. DOMAIN log \subseteq Nat /\ \A f \in DOMAIN log : log[f].object \in Nat
    BY LogDomain DEF Entries, Objects
<1>5. reports' = reports \cup {Telling(lt, e)} /\ (Keyed => log[e].key = wait[lt].key)
    BY <1>1 DEF Taking, Matches
<1>6. ASSUME NEW j \in DOMAIN store'[o], Keyed => log[store'[o][j]].key = log[e].key
      PROVE  e < store'[o][j]
    <2>1. PICK m \in DOMAIN Held(lt) : m # i /\ store'[o][j] = Held(lt)[m]
        BY <1>1, TakingFacts
    <2>2. i <= m
        BY <1>1, <1>5, <1>6, <2>1 DEF Matches
    <2>3. i < m
        BY <1>2, <2>1, <2>2
    <2> QED
        BY <1>2, <2>1, <2>3 DEF Stored
<1>7. ASSUME NEW r \in reports, r.by = lt, Keyed => log[r.event].key = log[e].key
      PROVE  r.event < e
    <2>1. /\ r.event \in DOMAIN log /\ r.object <= o
          /\ log[r.event].object = r.object
          /\ r.object \in Objects
        BY <1>7 DEF Reported, TypeOK
    <2>2. CASE r.object = o
        BY <1>2, <1>7, <2>1, <2>2 DEF LeftLater, Popping
    <2>3. CASE r.object # o
        <3>2. log[r.event].object < log[e].object
            BY <1>2, <1>3, <2>1, <2>3 DEF Objects
        <3>3. CASE e < r.event
            <4>1. log[e].object <= log[r.event].object
                BY <1>3, <2>1, <3>3 DEF Logged
            <4> QED
                BY <1>3, <1>4, <2>1, <3>2, <4>1
        <3>4. e # r.event
            BY <1>3, <1>4, <3>2
        <3> QED
            BY <1>3, <1>4, <2>1, <3>3, <3>4
    <2> QED
        BY <2>2, <2>3
<1> QED
    BY <1>3, <1>5, <1>6, <1>7

(* A popped list is read by nothing else.                                   *)
LEMMA PoppedRead ==
    ASSUME row.read \in {"pop", "stream"}, NEW lt \in LTs, Read(lt)
    PROVE  Popping(lt) /\ UNCHANGED <<row, log, epoch>> /\ pc[lt] \in {"got", "late"}
BY DEF Read, Reading, Removing

LEMMA LeftLaterStep ==
    ASSUME TypeOK, Stored, Logged, Waiting, Reported, LeftLater, [Next]_vars
    PROVE  LeftLater'
<1>0. \A r \in reports : r.object \in Objects /\ r.event \in DOMAIN log
    BY DEF TypeOK, Reported
<1>1. ASSUME Quiet, row.read \in {"pop", "stream"}, NEW r \in reports,
             NEW j \in DOMAIN store'[r.object],
             Keyed => log[store'[r.object][j]].key = log[r.event].key
      PROVE  r.event < store'[r.object][j]
    <2>1. PICK m \in DOMAIN store[r.object] : store'[r.object][j] = store[r.object][m]
        BY <1>0, <1>1, QuietFacts
    <2> QED
        BY <1>1, <2>1 DEF LeftLater
<1>2. CASE Still \/ Emptied
    <2>1. Quiet /\ reports' = reports /\ row' = row /\ log' = log
        BY <1>2 DEF Quiet, Still, Emptied
    <2>2. Keyed' <=> Keyed
        BY <2>1 DEF Keyed
    <2> QED
        BY <1>1, <2>1, <2>2 DEF LeftLater
<1>3. ASSUME NEW k \in KeysUsed, NEW v \in Values, Write(k, v)
      PROVE  LeftLater'
    <2>1. /\ row' = row /\ reports' = reports /\ Len(log) \in Nat /\ Len(log') = Len(log) + 1
          /\ DOMAIN log = 1 .. Len(log)
          /\ \A e \in DOMAIN log : log'[e] = log[e]
        BY <1>3, WriteFacts
    <2>2. /\ object \in Objects
          /\ \A o \in Objects \ {object} : store'[o] = store[o]
        BY <1>3, WriteFacts
    <2>3. \A j \in DOMAIN store'[object] :
                 \/ j \in DOMAIN store[object] /\ store'[object][j] = store[object][j]
                 \/ store'[object][j] = Len(log')
        BY <1>3, WriteFacts
    <2>4. Keyed' <=> Keyed
        BY <2>1 DEF Keyed
    <2> SUFFICES ASSUME row.read \in {"pop", "stream"}, NEW r \in reports,
                        NEW j \in DOMAIN store'[r.object],
                        Keyed => log'[store'[r.object][j]].key = log'[r.event].key
                 PROVE  r.event < store'[r.object][j]
        BY <2>1, <2>4 DEF LeftLater
    <2>5. CASE store'[r.object][j] = Len(log')
        BY <1>0, <2>1, <2>5
    <2>6. CASE j \in DOMAIN store[r.object] /\ store'[r.object][j] = store[r.object][j]
        <3>1. store[r.object][j] \in DOMAIN log
            BY <1>0, <2>6 DEF Stored
        <3>2. Keyed => log[store[r.object][j]].key = log[r.event].key
            BY <1>0, <2>1, <2>6, <3>1
        <3> QED
            BY <2>6, <3>2 DEF LeftLater
    <2>7. r.object # object => store'[r.object] = store[r.object]
        BY <1>0, <2>2
    <2> QED
        BY <2>3, <2>5, <2>6, <2>7
<1>4. ASSUME NEW lt \in LTs, Read(lt)
      PROVE  LeftLater'
    <2>1. Quiet /\ row' = row /\ log' = log
        BY <1>4 DEF Quiet, Read
    <2>2. Keyed' <=> Keyed
        BY <2>1 DEF Keyed
    <2> SUFFICES ASSUME row.read \in {"pop", "stream"}, NEW r \in reports',
                        NEW j \in DOMAIN store'[r.object],
                        Keyed => log[store'[r.object][j]].key = log[r.event].key
                 PROVE  r.event < store'[r.object][j]
        BY <2>1, <2>2 DEF LeftLater
    <2>3. Popping(lt) /\ pc[lt] \in {"got", "late"}
        BY <1>4, PoppedRead
    <2>4. PICK e \in DOMAIN log :
              /\ reports' = reports \cup {Telling(lt, e)}
              /\ \A i \in DOMAIN store'[wait[lt].object] :
                    (Keyed => log[store'[wait[lt].object][i]].key = log[e].key) =>
                        e < store'[wait[lt].object][i]
        BY <2>3, PoppingFacts
    <2>5. CASE r \in reports
        BY <1>1, <2>1, <2>5
    <2>6. CASE r = Telling(lt, e)
        <3>1. r.object = wait[lt].object /\ r.event = e
            BY <2>6 DEF Telling
        <3> QED
            BY <2>4, <3>1
    <2> QED
        BY <2>4, <2>5, <2>6
<1> QED
    BY <1>2, <1>3, <1>4, Effects

LEMMA PoppedInOrderStep ==
    ASSUME TypeOK, Stored, Logged, Waiting, Reported, LeftLater, PoppedInOrder, [Next]_vars
    PROVE  PoppedInOrder'
<1>0. \A r \in reports : r.event \in DOMAIN log
    BY DEF Reported
<1>1. CASE Still \/ Emptied
    <2>1. reports' = reports /\ row' = row /\ log' = log
        BY <1>1 DEF Still, Emptied
    <2>2. Keyed' <=> Keyed
        BY <2>1 DEF Keyed
    <2> QED
        BY <2>1, <2>2 DEF PoppedInOrder
<1>2. ASSUME NEW k \in KeysUsed, NEW v \in Values, Write(k, v)
      PROVE  PoppedInOrder'
    <2>1. /\ row' = row /\ reports' = reports
          /\ \A e \in DOMAIN log : log'[e] = log[e]
        BY <1>2, WriteFacts
    <2>2. Keyed' <=> Keyed
        BY <2>1 DEF Keyed
    <2>3. \A r \in reports : log'[r.event] = log[r.event]
        BY <1>0, <2>1
    <2> QED
        BY <2>1, <2>2, <2>3 DEF PoppedInOrder
<1>3. ASSUME NEW lt \in LTs, Read(lt)
      PROVE  PoppedInOrder'
    <2>1. row' = row /\ log' = log
        BY <1>3 DEF Read
    <2>2. Keyed' <=> Keyed
        BY <2>1 DEF Keyed
    <2> SUFFICES ASSUME row.read \in {"pop", "stream"}, NEW r \in reports', NEW s \in reports',
                        r.by = s.by, r.number < s.number,
                        Keyed => log[r.event].key = log[s.event].key
                 PROVE  r.event < s.event
        BY <2>1, <2>2 DEF PoppedInOrder
    <2>3. Popping(lt) /\ pc[lt] \in {"got", "late"}
        BY <1>3, PoppedRead
    <2>4. PICK e \in DOMAIN log :
              /\ reports' = reports \cup {Telling(lt, e)}
              /\ \A q \in reports : q.by = lt /\ (Keyed => log[q.event].key = log[e].key) =>
                    q.event < e
        BY <2>3, PoppingFacts
    <2>5. /\ Telling(lt, e).by = lt /\ Telling(lt, e).event = e
          /\ Telling(lt, e).number = wait[lt].number /\ wait[lt].number \in Nat
        BY HeldType DEF Telling, Waits
    <2>6. \A q \in reports : q.by = lt => q.number < wait[lt].number /\ q.number \in Nat
        BY <2>3 DEF Reported, TypeOK
    <2>7. CASE r \in reports /\ s \in reports
        BY <2>7 DEF PoppedInOrder
    <2>8. CASE r \in reports /\ s = Telling(lt, e)
        BY <2>4, <2>5, <2>8
    <2>9. CASE r = Telling(lt, e)
        <3>1. s \notin reports
            <4>1. ASSUME s \in reports PROVE FALSE
                <5>1. s.number < wait[lt].number /\ s.number \in Nat /\ wait[lt].number < s.number
                    BY <2>5, <2>6, <2>9, <4>1
                <5> QED
                    BY <2>5, <5>1
            <4> QED
                BY <4>1
        <3>2. s = r
            BY <2>4, <2>9, <3>1
        <3> QED
            BY <2>5, <2>9, <3>2
    <2> QED
        BY <2>4, <2>7, <2>8, <2>9
<1> QED
    BY <1>1, <1>2, <1>3, Effects

-----------------------------------------------------------------------------
(* Counting events of a key and a value: received, still there, returned.   *)

Is(e, k, v) == log[e].key = k /\ log[e].value = v
Came(o, k, v) == {e \in DOMAIN log : Is(e, k, v) /\ log[e].object = o}
Here(o, k, v) == {e \in Range(store[o]) : Is(e, k, v)}
Gone(o, k, v) == {r \in reports : r.object = o /\ Is(r.event, k, v)}
Shortened == row.write = "append" /\ row.read \in {"remove", "pop"}

LEMMA Counted ==
    Conserved <=> (Shortened => \A o \in Objects, k \in Keys, v \in Values :
            Cardinality(Came(o, k, v)) = Cardinality(Here(o, k, v)) + Cardinality(Gone(o, k, v)))
BY DEF Conserved, Shortened, Came, Here, Gone, Is

LEMMA CountedSets ==
    ASSUME TypeOK, IsFiniteSet(reports), NEW o \in Objects, NEW k, NEW v
    PROVE  /\ IsFiniteSet(Came(o, k, v)) /\ IsFiniteSet(Here(o, k, v)) /\ IsFiniteSet(Gone(o, k, v))
           /\ Cardinality(Came(o, k, v)) \in Nat /\ Cardinality(Here(o, k, v)) \in Nat
           /\ Cardinality(Gone(o, k, v)) \in Nat
<1>1. IsFiniteSet(DOMAIN log) /\ IsFiniteSet(Range(store[o]))
    BY LogDomain, RangeType, FS_Interval
<1>2. /\ Came(o, k, v) \subseteq DOMAIN log /\ Here(o, k, v) \subseteq Range(store[o])
      /\ Gone(o, k, v) \subseteq reports
    BY DEF Came, Here, Gone
<1>3. IsFiniteSet(Came(o, k, v)) /\ IsFiniteSet(Here(o, k, v)) /\ IsFiniteSet(Gone(o, k, v))
    BY <1>1, <1>2, FS_Subset
<1> QED
    BY <1>3, FS_CardinalityType

(* What an event that is taken out counts for one is reported.              *)
LEMMA TakenCounts ==
    ASSUME TypeOK, IsFiniteSet(reports), Stored, Reported, NEW lt \in LTs,
           NEW i, NEW e, Taking(lt, i, e), Equal(Held(lt)[i], e), pc[lt] \in {"got", "late"},
           log' = log, row' = row, NEW o \in Objects, NEW k, NEW v
    PROVE  Cardinality(Here(o, k, v)') + Cardinality(Gone(o, k, v)')
               = Cardinality(Here(o, k, v)) + Cardinality(Gone(o, k, v))
<1> DEFINE f == Held(lt)[i]
           r == Telling(lt, e)
<1>1. /\ wait[lt].object \in Objects /\ Held(lt) = store[wait[lt].object]
      /\ i \in DOMAIN Held(lt) /\ reports' = reports \cup {r}
    BY HeldType DEF Taking
<1>2. /\ \A p \in Objects \ {wait[lt].object} : store'[p] = store[p]
      /\ Range(store'[wait[lt].object]) = Range(Held(lt)) \ {f}
    BY TakingFacts
<1>3. r \notin reports /\ r.object = wait[lt].object /\ r.event = e
    <2>1. r.by = lt /\ r.number = wait[lt].number /\ r.object = wait[lt].object /\ r.event = e
        BY DEF Telling
    <2>2. wait[lt].number \in Nat
        BY HeldType DEF Waits
    <2>3. ASSUME r \in reports PROVE FALSE
        <3>1. r.number < wait[lt].number
            BY <2>1, <2>3 DEF Reported
        <3> QED
            BY <2>1, <2>2, <3>1
    <2> QED
        BY <2>1, <2>3
<1>4. Is(f, k, v) <=> Is(e, k, v)
    BY DEF Equal, Is
<1>5. f \in Range(Held(lt))
    BY <1>1, RangeType
<1> HIDE DEF f, r
<1>6. \A x : Is(x, k, v)' <=> Is(x, k, v)
    BY DEF Is
<1>7. CASE o = wait[lt].object /\ Is(e, k, v)
    <2>1. f \in Here(o, k, v) /\ Here(o, k, v)' = Here(o, k, v) \ {f}
        BY <1>1, <1>2, <1>4, <1>5, <1>6, <1>7 DEF Here
    <2>2. r \notin Gone(o, k, v) /\ Gone(o, k, v)' = Gone(o, k, v) \cup {r}
        BY <1>1, <1>3, <1>6, <1>7 DEF Gone
    <2>3. Cardinality(Here(o, k, v) \ {f}) = Cardinality(Here(o, k, v)) - 1
        BY <2>1, CountedSets, FS_RemoveElement
    <2>4. Cardinality(Gone(o, k, v) \cup {r}) = Cardinality(Gone(o, k, v)) + 1
        BY <2>2, CountedSets, FS_AddElement
    <2> QED
        BY <2>1, <2>2, <2>3, <2>4, CountedSets
<1>8. CASE ~(o = wait[lt].object /\ Is(e, k, v))
    <2>1. Here(o, k, v)' = Here(o, k, v)
        BY <1>1, <1>2, <1>4, <1>6, <1>8 DEF Here
    <2>2. Gone(o, k, v)' = Gone(o, k, v)
        BY <1>1, <1>3, <1>6, <1>8 DEF Gone
    <2> QED
        BY <2>1, <2>2
<1> QED
    BY <1>7, <1>8

(* What is received counts for one in the object of the stack.              *)
LEMMA ReceivedCounts ==
    ASSUME TypeOK, IsFiniteSet(reports), Stored, Reported,
           NEW n \in KeysUsed, NEW w \in Values, Write(n, w), Shortened,
           NEW o \in Objects, NEW k \in Keys, NEW v \in Values,
           Cardinality(Came(o, k, v)) = Cardinality(Here(o, k, v)) + Cardinality(Gone(o, k, v))
    PROVE  Cardinality(Came(o, k, v)') = Cardinality(Here(o, k, v)') + Cardinality(Gone(o, k, v)')
<1>0. PICK new : new = Len(log')
    OBVIOUS
<1>1. /\ row' = row /\ reports' = reports /\ new \notin DOMAIN log
      /\ DOMAIN log' = DOMAIN log \cup {new}
      /\ \A e \in DOMAIN log : log'[e] = log[e]
    <2>1. /\ row' = row /\ reports' = reports /\ Len(log) \in Nat /\ new = Len(log) + 1
          /\ DOMAIN log = 1 .. Len(log) /\ DOMAIN log' = 1 .. new
          /\ \A e \in DOMAIN log : log'[e] = log[e]
        BY <1>0, WriteFacts
    <2> QED
        BY <2>1
<1>2. log'[new].object = object
    BY <1>0, WriteFacts
<1>4. /\ \A p \in Objects \ {object} : store'[p] = store[p]
      /\ Range(store'[object]) = Range(store[object]) \cup {new}
    BY <1>0, WriteFacts DEF Shortened
<1>5. \A e \in DOMAIN log : Is(e, k, v)' <=> Is(e, k, v)
    BY <1>1 DEF Is
<1>6. \A e \in Range(store[o]) : e \in DOMAIN log
    <2>1. \A e \in Range(store[o]) : \E i \in DOMAIN store[o] : store[o][i] = e
        BY RangeType
    <2> QED
        BY <2>1 DEF Stored
<1>7. Gone(o, k, v)' = Gone(o, k, v)
    <2>1. \A r \in reports : r.event \in DOMAIN log
        BY DEF Reported
    <2> QED
        BY <1>1, <1>5, <2>1 DEF Gone
<1>8. CASE o = object /\ Is(new, k, v)'
    <2>1. new \notin Came(o, k, v) /\ Came(o, k, v)' = Came(o, k, v) \cup {new}
        BY <1>1, <1>2, <1>5, <1>8 DEF Came
    <2>2. new \notin Here(o, k, v) /\ Here(o, k, v)' = Here(o, k, v) \cup {new}
        BY <1>1, <1>4, <1>5, <1>6, <1>8 DEF Here
    <2>3. Cardinality(Came(o, k, v) \cup {new}) = Cardinality(Came(o, k, v)) + 1
        BY <2>1, CountedSets, FS_AddElement
    <2>4. Cardinality(Here(o, k, v) \cup {new}) = Cardinality(Here(o, k, v)) + 1
        BY <2>2, CountedSets, FS_AddElement
    <2> QED
        BY <1>7, <2>1, <2>2, <2>3, <2>4, CountedSets
<1>9. CASE ~(o = object /\ Is(new, k, v)')
    <2>1. Came(o, k, v)' = Came(o, k, v)
        <3>1. ~(Is(new, k, v)' /\ log'[new].object = o)
            BY <1>2, <1>9
        <3> QED
            BY <1>1, <1>5, <3>1 DEF Came
    <2>2. Here(o, k, v)' = Here(o, k, v)
        <3>1. CASE o = object
            BY <1>4, <1>5, <1>6, <1>9, <3>1 DEF Here
        <3>2. CASE o # object
            BY <1>4, <1>5, <1>6, <3>2 DEF Here
        <3> QED
            BY <3>1, <3>2
    <2> QED
        BY <1>7, <2>1, <2>2
<1> QED
    BY <1>8, <1>9

LEMMA ConservedStep ==
    ASSUME TypeOK, IsFiniteSet(reports), Stored, Waiting, Reported, Conserved, [Next]_vars
    PROVE  Conserved'
<1> DEFINE Balance(o, k, v) == Cardinality(Came(o, k, v))
                                   = Cardinality(Here(o, k, v)) + Cardinality(Gone(o, k, v))
<1>0. Shortened => \A o \in Objects, k \in Keys, v \in Values : Balance(o, k, v)
    BY Counted
<1>1. CASE Still
    BY <1>1 DEF Still, Conserved
<1>2. CASE Emptied
    BY <1>2 DEF Emptied, Conserved
<1>3. ASSUME NEW n \in KeysUsed, NEW w \in Values, Write(n, w), Shortened',
             NEW o \in Objects, NEW k \in Keys, NEW v \in Values
      PROVE  Balance(o, k, v)'
    <2>1. Shortened
        BY <1>3, WriteFacts DEF Shortened
    <2> QED
        BY <1>0, <1>3, <2>1, ReceivedCounts
<1>4. ASSUME NEW lt \in LTs, Read(lt), Shortened',
             NEW o \in Objects, NEW k \in Keys, NEW v \in Values
      PROVE  Balance(o, k, v)'
    <2>1. Shortened /\ log' = log /\ row' = row /\ pc[lt] \in {"got", "late"}
        BY <1>4 DEF Shortened, Read
    <2>2. PICK i, e : Taking(lt, i, e) /\ Equal(Held(lt)[i], e)
        <3>1. CASE Popping(lt)
            BY <3>1 DEF Popping, Equal
        <3>2. CASE Removing(lt)
            BY <3>2 DEF Removing
        <3> QED
            BY <1>4, <2>1, <3>1, <3>2 DEF Read, Reading, Shortened
    <2>3. Cardinality(Here(o, k, v)') + Cardinality(Gone(o, k, v)')
               = Cardinality(Here(o, k, v)) + Cardinality(Gone(o, k, v))
        BY <2>1, <2>2, TakenCounts
    <2>4. Came(o, k, v)' = Came(o, k, v)
        BY <2>1 DEF Came, Is
    <2> QED
        BY <1>0, <1>4, <2>1, <2>3, <2>4
<1>5. row' = row
    BY Effects, WriteFacts DEF Still, Emptied, Read
<1>6. ASSUME Shortened' => \A o \in Objects, k \in Keys, v \in Values : Balance(o, k, v)'
      PROVE  Conserved'
    BY <1>5, <1>6 DEF Conserved, Shortened, Came, Here, Gone, Is
<1> HIDE DEF Balance
<1> QED
    BY <1>1, <1>2, <1>3, <1>4, <1>6, Effects

-----------------------------------------------------------------------------
(* The waits and what they report.                                          *)

(* What is in the log stays as it is.                                       *)
LEMMA Lasting ==
    ASSUME TypeOK, Waiting, Stored, [Next]_vars
    PROVE  row' = row /\ DOMAIN log \subseteq DOMAIN log' /\ \A e \in DOMAIN log : log'[e] = log[e]
<1>1. CASE Quiet
    BY <1>1, QuietFacts
<1>2. ASSUME NEW k \in KeysUsed, NEW v \in Values, Write(k, v)
      PROVE  row' = row /\ DOMAIN log \subseteq DOMAIN log' /\ \A e \in DOMAIN log : log'[e] = log[e]
    <2>1. /\ row' = row /\ Len(log) \in Nat /\ Len(log') = Len(log) + 1
          /\ DOMAIN log = 1 .. Len(log) /\ DOMAIN log' = 1 .. Len(log')
          /\ \A e \in DOMAIN log : log'[e] = log[e]
        BY <1>2, WriteFacts
    <2> QED
        BY <2>1
<1> QED
    BY <1>1, <1>2, Effects DEF Quiet

(* What is new in it is what came now.                                      *)
LEMMA Arriving ==
    ASSUME TypeOK, Waiting, Stored, [Next]_vars, NEW e \in DOMAIN log', e \notin DOMAIN log
    PROVE  /\ log'[e].case = case /\ log'[e].cleanups = cleanups /\ log'[e].object = object
           /\ UNCHANGED epoch
<1>1. ~Quiet
    BY QuietFacts
<1>2. PICK k \in KeysUsed, v \in Values : Write(k, v)
    BY <1>1, Effects DEF Quiet
<1>3. UNCHANGED epoch
    BY <1>2, WriteFacts
<1>4. e = Len(log')
    <2>1. /\ Len(log) \in Nat /\ Len(log') = Len(log) + 1
          /\ DOMAIN log = 1 .. Len(log) /\ DOMAIN log' = 1 .. Len(log')
        BY <1>2, WriteFacts
    <2> QED
        BY <2>1
<1> QED
    BY <1>2, <1>3, <1>4, WriteFacts

(* An event of an object that was there is one of those, or came now.       *)
LEMMA CurrentStep ==
    ASSUME TypeOK, Waiting, Stored, Logged, Current, [Next]_vars
    PROVE  Current'
<1>1. /\ EpochTypes /\ EpochTypes' /\ Turned /\ row' = row
      /\ \A e \in DOMAIN log : log'[e] = log[e]
    BY ObjectType, Onwards, Lasting
<1>2. \A e \in DOMAIN log : log[e].object \in Nat /\ log[e].object <= object /\ object \in Nat
    BY <1>1, LogDomain, FirstCase DEF Logged, Entries, EpochTypes
<1>3. CleanedUp' <=> CleanedUp
    BY <1>1 DEF CleanedUp
<1> SUFFICES ASSUME NEW e \in DOMAIN log', log'[e].object = object'
             PROVE  /\ renewed' => log'[e].case = case'
                    /\ CleanedUp => log'[e].cleanups = cleanups'
    BY <1>3 DEF Current
<1>4. CASE e \notin DOMAIN log
    BY <1>4, Arriving DEF epoch
<1>5. CASE e \in DOMAIN log
    <2>1. log[e].object = object' /\ log'[e] = log[e] /\ object' # object + 1
        BY <1>1, <1>2, <1>5
    <2>2. object' = object
        BY <1>1, <2>1 DEF Turned, epoch
    <2>3. (renewed => log[e].case = case) /\ (CleanedUp => log[e].cleanups = cleanups)
        BY <1>5, <2>1, <2>2 DEF Current
    <2> QED
        BY <1>1, <2>1, <2>2, <2>3 DEF Turned, epoch
<1> QED
    BY <1>4, <1>5

(* A step is a step of one thread, or of none.                              *)
Alone == UNCHANGED <<pc, wait, armed, outcome, snapshot>>

LEMMA Actors ==
    ASSUME [Next]_vars
    PROVE  \/ Alone
           \/ \E lt \in LTs : \/ \E k \in KeysUsed : Begin(lt, k)
                              \/ Look(lt) \/ ReadStore(lt) \/ ReadLate(lt)
BY DEF Next, Step, Look, Alone, Write, Clear, CleanUp, Initialise, NextCase,
            SetGlobalEnd, vars

(* What a thread in a wait is bound to.                                     *)
Bound(lt) ==
    /\ wait[lt].object <= object
    /\ wait[lt].case <= case /\ wait[lt].cleanups <= cleanups
    /\ \A e \in DOMAIN log : log[e].object = wait[lt].object => Fresh(wait[lt], e)
    /\ pc[lt] = "late" => row.read \in {"value", "drain"}
    /\ pc[lt] = "got" /\ row.read # "stream" =>
           wait[lt].found \in DOMAIN log /\ log[wait[lt].found].object = wait[lt].object

(* What comes later is fresh to a wait that goes on.                        *)
LEMMA StaysBound ==
    ASSUME TypeOK, Stored, Waiting, [Next]_vars, NEW u \in LTs, pc[u] # "idle",
           wait'[u].object = wait[u].object, Kept(wait'[u], wait[u])
    PROVE  /\ wait'[u].object <= object'
           /\ wait'[u].case <= case' /\ wait'[u].cleanups <= cleanups'
           /\ \A e \in DOMAIN log' : log'[e].object = wait'[u].object => Fresh(wait[u], e)'
<1>1. /\ EpochTypes /\ EpochTypes' /\ Onward /\ row' = row
      /\ \A e \in DOMAIN log : log'[e] = log[e]
    BY ObjectType, Onwards, Lasting
<1>2. /\ case \in Nat /\ case' \in Nat /\ cleanups \in Nat /\ cleanups' \in Nat
      /\ object \in Nat /\ object' \in Nat
      /\ wait[u].object \in Nat /\ wait[u].case \in Nat /\ wait[u].cleanups \in Nat
    BY <1>1, HeldType, FirstCase DEF EpochTypes, Waits
<1>3. Bound(u)
    BY DEF Waiting, Bound
<1>4. CleanedUp' <=> CleanedUp
    BY <1>1 DEF CleanedUp
<1>5. ASSUME NEW e \in DOMAIN log', log'[e].object = wait'[u].object
      PROVE  Fresh(wait[u], e)'
    <2>1. CASE e \in DOMAIN log
        <3>1. log'[e] = log[e] /\ Fresh(wait[u], e)
            BY <1>1, <1>3, <1>5, <2>1 DEF Bound
        <3> QED
            BY <1>4, <3>1 DEF Fresh, Kept
    <2>2. CASE e \notin DOMAIN log
        <3>1. log'[e].case = case /\ log'[e].cleanups = cleanups
            BY <2>2, Arriving
        <3> QED
            BY <1>2, <1>3, <3>1 DEF Bound, Fresh, Kept
    <2> QED
        BY <2>1, <2>2
<1> QED
    BY <1>1, <1>2, <1>3, <1>5 DEF Bound, Kept, Onward

LEMMA WaitingStep ==
    ASSUME TypeOK, Stored, Logged, Current, Waiting, [Next]_vars
    PROVE  Waiting'
<1>0. row' = row /\ DOMAIN log \subseteq DOMAIN log' /\ \A e \in DOMAIN log : log'[e] = log[e]
    BY Lasting
<1>1. \A lt \in LTs : pc[lt] # "idle" => Bound(lt)
    BY DEF Waiting, Bound
<1>3. ASSUME NEW u \in LTs, pc'[u] = pc[u], wait'[u] = wait[u], pc'[u] # "idle"
      PROVE  Bound(u)'
    <2>1. Kept(wait'[u], wait[u])
        BY <1>3 DEF Kept
    <2> QED
        BY <1>0, <1>1, <1>3, <2>1, StaysBound DEF Bound
<1>4. ASSUME NEW u \in LTs, NEW lt \in LTs, pc'[u] # "idle",
             (\E k \in KeysUsed : Begin(lt, k)) \/ Look(lt) \/ ReadStore(lt) \/ ReadLate(lt)
      PROVE  Bound(u)'
    <2>1. CASE u # lt
        <3>1. Apart(lt)
            BY <1>4, BeginFacts, LookFacts, ReadFacts
        <3> QED
            BY <1>3, <1>4, <2>1, <3>1 DEF Apart
    <2>2. ASSUME NEW k \in KeysUsed, Begin(lt, k), u = lt
          PROVE  Bound(u)'
        <3>1. /\ pc'[u] \in {"loop", "fast", "enter"}
              /\ wait'[u].object = object /\ wait'[u].case = case
              /\ wait'[u].cleanups = cleanups /\ wait'[u].renewed = renewed
            BY <2>2, BeginFacts
        <3>2. UNCHANGED <<epoch, log>> /\ EpochTypes
            BY <2>2, ObjectType DEF Begin
        <3>3. object <= object /\ case <= case /\ cleanups <= cleanups
            BY <3>2, FirstCase DEF EpochTypes
        <3>4. ASSUME NEW e \in DOMAIN log, log[e].object = object
              PROVE  Fresh(wait[u], e)'
            <4>1. (renewed => log[e].case >= case) /\ (CleanedUp => log[e].cleanups >= cleanups)
                BY <3>2, <3>3, <3>4, FirstCase DEF Current, EpochTypes
            <4> QED
                BY <1>0, <3>1, <3>2, <4>1 DEF Fresh, CleanedUp
        <3> QED
            BY <1>0, <3>1, <3>2, <3>3, <3>4 DEF Bound, epoch
    <2>3. CASE Look(lt) /\ u = lt
        <3>1. /\ pc[u] # "idle" /\ wait'[u].object = wait[u].object /\ Kept(wait'[u], wait[u])
              /\ pc'[u] = "late" => pc[u] = "late" \/ row.read \in {"value", "drain"}
              /\ pc'[u] = "got" /\ row.read # "stream" =>
                    \/ pc[u] = "got" /\ wait'[u].found = wait[u].found
                    \/ \E i \in DOMAIN Held(u) : Held(u)[i] = wait'[u].found
            BY <1>4, <2>3, LookFacts DEF Stays
        <3>2. wait[u].object \in Objects /\ Held(u) = store[wait[u].object]
            BY HeldType
        <3>3. \A i \in DOMAIN Held(u) :
                  Held(u)[i] \in DOMAIN log /\ log[Held(u)[i]].object = wait[u].object
            BY <3>2 DEF Stored
        <3>4. pc'[u] = "got" /\ row.read # "stream" =>
                  wait'[u].found \in DOMAIN log /\ log[wait'[u].found].object = wait[u].object
            BY <1>1, <3>1, <3>3 DEF Bound
        <3> QED
            BY <1>0, <1>1, <3>1, <3>4, StaysBound DEF Bound
    <2>4. CASE (ReadStore(lt) \/ ReadLate(lt)) /\ u = lt
        BY <1>4, <2>4, ReadFacts
    <2> QED
        BY <1>4, <2>1, <2>2, <2>3, <2>4
<1>5. \A u \in LTs : pc'[u] # "idle" => Bound(u)'
    BY <1>3, <1>4, Actors DEF Alone
<1> QED
    BY <1>5 DEF Waiting, Bound

(* A report of the thread that reads.                                       *)
LEMMA NewReports ==
    ASSUME TypeOK, Stored, Waiting, NEW lt \in LTs, Read(lt), NEW r \in reports', r \notin reports
    PROVE  \E e \in DOMAIN log : /\ r = Telling(lt, e)
                                 /\ log[e].object = wait[lt].object
<1>1. /\ wait[lt].object \in Objects /\ Held(lt) = store[wait[lt].object]
    BY HeldType
<1>2. \A i \in DOMAIN Held(lt) : /\ Held(lt)[i] \in DOMAIN log
                                 /\ log[Held(lt)[i]].object = wait[lt].object
    BY <1>1 DEF Stored
<1>3. pc[lt] = "got" /\ row.read # "stream" =>
          /\ wait[lt].found \in DOMAIN log
          /\ log[wait[lt].found].object = wait[lt].object
    BY DEF Waiting
<1>4. CASE Reading(lt)
    <2>1. PICK es \in SUBSET Events :
              /\ \A e \in es : \/ \E i \in DOMAIN Held(lt) : Held(lt)[i] = e
                               \/ pc[lt] = "got" /\ row.read # "stream" /\ e = wait[lt].found
              /\ reports' = reports \cup {Telling(lt, e) : e \in es}
        BY <1>4 DEF Reading
    <2>2. PICK e \in es : r = Telling(lt, e)
        BY <2>1
    <2> QED
        BY <1>2, <1>3, <2>1, <2>2
<1>5. CASE Popping(lt)
    <2>1. PICK i \in DOMAIN Held(lt) : reports' = reports \cup {Telling(lt, Held(lt)[i])}
        BY <1>5 DEF Popping, Taking
    <2> QED
        BY <1>2, <2>1
<1>6. CASE Removing(lt)
    <2>1. /\ pc[lt] = "got" /\ row.read # "stream"
          /\ reports' = reports \cup {Telling(lt, wait[lt].found)}
        BY <1>6 DEF Removing, Taking
    <2> QED
        BY <1>3, <2>1
<1> QED
    BY <1>4, <1>5, <1>6 DEF Read

LEMMA ReportedStep ==
    ASSUME TypeOK, Stored, Waiting, Reported, [Next]_vars
    PROVE  Reported'
<1>0. /\ DOMAIN log \subseteq DOMAIN log' /\ \A e \in DOMAIN log : log'[e] = log[e]
      /\ EpochTypes' /\ object <= object'
    BY Onwards, Lasting DEF Onward
<1>1. /\ object \in Nat /\ object' \in Nat
      /\ \A u \in LTs : wait[u].number \in Nat /\ wait[u].object \in Nat
    <2>1. /\ object \in Objects /\ object' \in Objects
          /\ \A u \in LTs : wait[u].number \in Nat /\ wait[u].object \in Objects
        BY <1>0, ObjectType, HeldType DEF EpochTypes, Waits
    <2> QED
        BY <2>1 DEF Objects
<1>2. \A r \in reports : r.by \in LTs /\ r.number \in Nat /\ r.object \in Nat
    BY DEF TypeOK, Objects
(* Of a report that was there, only who made it may have moved on.          *)
<1>3. ASSUME NEW r \in reports, wait'[r.by].number >= wait[r.by].number,
             wait'[r.by].number \in Nat,
             pc'[r.by] # "idle" =>
                 \/ pc[r.by] # "idle" /\ wait'[r.by].number = wait[r.by].number
                                      /\ wait'[r.by].object = wait[r.by].object
                 \/ wait'[r.by].number > wait[r.by].number /\ wait'[r.by].object = object
      PROVE  /\ r.event \in DOMAIN log'
             /\ log'[r.event].object = r.object
             /\ r.object <= object' /\ r.number <= wait'[r.by].number
             /\ pc'[r.by] # "idle" => /\ r.number < wait'[r.by].number
                                      /\ r.object <= wait'[r.by].object
    <2>1. /\ r.event \in DOMAIN log
          /\ log[r.event].object = r.object
          /\ r.object <= object
          /\ r.number <= wait[r.by].number
          /\ pc[r.by] # "idle" => r.number < wait[r.by].number /\ r.object <= wait[r.by].object
        BY DEF Reported
    <2> QED
        BY <1>0, <1>1, <1>2, <1>3, <2>1
<1>4. ASSUME NEW u \in LTs
      PROVE  /\ wait'[u].number >= wait[u].number /\ wait'[u].number \in Nat
             /\ pc'[u] # "idle" =>
                 \/ pc[u] # "idle" /\ wait'[u].number = wait[u].number
                                   /\ wait'[u].object = wait[u].object
                 \/ wait'[u].number > wait[u].number /\ wait'[u].object = object
    <2>1. CASE pc'[u] = pc[u] /\ wait'[u] = wait[u]
        BY <1>1, <2>1
    <2>2. ASSUME NEW lt \in LTs, u # lt,
                 (\E k \in KeysUsed : Begin(lt, k)) \/ Look(lt) \/ ReadStore(lt) \/ ReadLate(lt)
          PROVE  pc'[u] = pc[u] /\ wait'[u] = wait[u]
        <3>1. Apart(lt)
            BY <2>2, BeginFacts, LookFacts, ReadFacts
        <3> QED
            BY <2>2, <3>1 DEF Apart
    <2>3. ASSUME NEW k \in KeysUsed, Begin(u, k)
          PROVE  wait'[u].number = wait[u].number + 1 /\ wait'[u].object = object
        BY <2>3, BeginFacts
    <2>4. ASSUME Look(u) \/ ReadStore(u) \/ ReadLate(u)
          PROVE  /\ wait'[u].number = wait[u].number
                 /\ pc'[u] # "idle" => pc[u] # "idle" /\ wait'[u].object = wait[u].object
        BY <2>4, LookFacts, ReadFacts DEF Stays
    <2>5. CASE Alone
        BY <2>1, <2>5 DEF Alone
    <2>6. CASE \E k \in KeysUsed : Begin(u, k)
        BY <1>1, <2>3, <2>6
    <2>7. CASE Look(u) \/ ReadStore(u) \/ ReadLate(u)
        BY <1>1, <2>4, <2>7
    <2> QED
        BY <2>1, <2>2, <2>5, <2>6, <2>7, Actors
<1>5. ASSUME NEW lt \in LTs, Read(lt), NEW r \in reports', r \notin reports
      PROVE  /\ r.event \in DOMAIN log'
             /\ log'[r.event].object = r.object
             /\ r.object <= object' /\ r.number <= wait'[r.by].number
             /\ pc'[r.by] = "idle"
    <2>1. PICK e \in DOMAIN log : /\ r = Telling(lt, e)
                                  /\ log[e].object = wait[lt].object
        BY <1>5, NewReports
    <2>2. /\ r.event = e /\ r.by = lt /\ r.object = wait[lt].object
          /\ r.number = wait[lt].number
        BY <2>1 DEF Telling
    <2>3. /\ pc[lt] # "idle" /\ pc'[lt] = "idle" /\ wait'[lt].number = wait[lt].number
        BY <1>5 DEF Read
    <2>4. wait[lt].object <= object
        BY <2>3 DEF Waiting
    <2> QED
        BY <1>0, <1>1, <2>1, <2>2, <2>3, <2>4
<1>6. ASSUME NEW r \in reports' PROVE r \in reports \/ \E lt \in LTs : Read(lt)
    BY Effects, WriteFacts DEF Still, Emptied
<1> QED
    BY <1>2, <1>3, <1>4, <1>5, <1>6 DEF Reported

-----------------------------------------------------------------------------
(* The scans.                                                               *)

(* What a scan of a thread still owes.                                      *)
Owes(lt) ==
    /\ snapshot[lt] \subseteq DOMAIN log
    /\ ~InQueue \/ pc[lt] \notin {"loop", "scan", "got"} => snapshot[lt] = {}
    /\ pc[lt] = "loop" => ~\E e \in snapshot[lt] : Matches(lt, e)
    /\ pc[lt] = "scan" => \A e \in snapshot[lt] : Matches(lt, e) =>
           \E i \in DOMAIN Held(lt) : i >= wait[lt].index /\ Held(lt)[i] = e

LEMMA OwesNothing ==
    ASSUME NEW lt \in LTs, snapshot'[lt] = {}
    PROVE  Owes(lt)'
BY DEF Owes

(* Nothing but a read of another thread takes from what a scan goes over.   *)
LEMMA OwesStill ==
    ASSUME TypeOK, Waiting, Stored, [Next]_vars, NEW u \in LTs, Owes(u),
           pc'[u] = pc[u], wait'[u] = wait[u], snapshot'[u] \subseteq snapshot[u],
           pc[u] = "scan" /\ snapshot'[u] # {} =>
               \A i \in DOMAIN store[wait[u].object] :
                   /\ i \in DOMAIN store'[wait[u].object]
                   /\ store'[wait[u].object][i] = store[wait[u].object][i]
    PROVE  Owes(u)'
<1>0. /\ row' = row /\ DOMAIN log \subseteq DOMAIN log' /\ \A e \in DOMAIN log : log'[e] = log[e]
    BY Lasting
<1>1. snapshot'[u] \subseteq DOMAIN log
    BY DEF Owes
<1>2. (InQueue' <=> InQueue) /\ \A e \in DOMAIN log : Matches(u, e)' <=> Matches(u, e)
    BY <1>0 DEF InQueue, Matches, Keyed
<1>3. snapshot'[u] \subseteq DOMAIN log'
    BY <1>0, <1>1
<1>4. ~InQueue' \/ pc'[u] \notin {"loop", "scan", "got"} => snapshot'[u] = {}
    BY <1>2 DEF Owes
<1>5. pc'[u] = "loop" => ~\E e \in snapshot'[u] : Matches(u, e)'
    BY <1>1, <1>2 DEF Owes
<1>6. ASSUME pc'[u] = "scan", NEW e \in snapshot'[u], Matches(u, e)'
      PROVE  \E i \in DOMAIN Held(u)' : i >= wait'[u].index /\ Held(u)'[i] = e
    <2>1. PICK i \in DOMAIN Held(u) : i >= wait[u].index /\ Held(u)[i] = e
        BY <1>1, <1>2, <1>6 DEF Owes
    <2> QED
        BY <1>6, <2>1 DEF Held
<1> QED
    BY <1>3, <1>4, <1>5, <1>6 DEF Owes

LEMMA ScanningStep ==
    ASSUME TypeOK, Waiting, Stored, Scanning, [Next]_vars
    PROVE  Scanning'
<1>0. \A u \in LTs : Owes(u)
    BY DEF Scanning, Owes
<1>1. snapshot \in [LTs -> SUBSET Events]
    BY DEF TypeOK
<1>2. /\ row' = row /\ DOMAIN log \subseteq DOMAIN log' /\ \A e \in DOMAIN log : log'[e] = log[e]
    BY Lasting
<1>3. ASSUME NEW u \in LTs, store' = store, pc'[u] = pc[u], wait'[u] = wait[u],
             snapshot'[u] \subseteq snapshot[u]
      PROVE  Owes(u)'
    BY <1>0, <1>3, OwesStill
<1>4. ASSUME NEW u \in LTs, ~InQueue, snapshot'[u] \subseteq snapshot[u]
      PROVE  Owes(u)'
    <2>1. snapshot'[u] = {}
        BY <1>0, <1>4 DEF Owes
    <2> QED
        BY <2>1, OwesNothing
<1>5. ASSUME NEW k \in KeysUsed, NEW v \in Values, Write(k, v), NEW u \in LTs
      PROVE  Owes(u)'
    <2>1. pc' = pc /\ wait' = wait /\ snapshot' = snapshot
        BY <1>5 DEF Write
    <2>2. CASE InQueue
        <3>1. row.write \in Queued /\ wait[u].object \in Objects
            BY <2>2, RowFacts, HeldType DEF TypeOK
        <3>2. /\ \A j \in DOMAIN store[object] :
                    j \in DOMAIN store'[object] /\ store'[object][j] = store[object][j]
              /\ \A o \in Objects \ {object} : store'[o] = store[o]
            BY <1>5, <3>1, WriteFacts
        <3> QED
            BY <1>0, <2>1, <3>1, <3>2, OwesStill
    <2> QED
        BY <1>4, <2>1, <2>2
<1>6. ASSUME Clear, NEW u \in LTs
      PROVE  Owes(u)'
    <2>1. ~InQueue /\ snapshot' = snapshot
        BY <1>6, RowFacts DEF Clear, Queued, TypeOK
    <2> QED
        BY <1>4, <2>1
<1>7. ASSUME CleanUp \/ Initialise \/ NextCase \/ SetGlobalEnd \/ UNCHANGED vars \/ \E lt \in LTs : Expire(lt),
             NEW u \in LTs
      PROVE  Owes(u)'
    <2>1. UNCHANGED <<store, pc, wait, snapshot>>
        BY <1>7 DEF CleanUp, Initialise, NextCase, SetGlobalEnd, Expire, vars
    <2> QED
        BY <1>3, <2>1
<1>8. ASSUME NEW lt \in LTs, NEW k \in KeysUsed, Begin(lt, k), NEW u \in LTs
      PROVE  Owes(u)'
    <2>1. snapshot' = snapshot
        BY <1>8 DEF Begin
    <2>2. CASE u = lt
        <3>1. snapshot[u] = {}
            BY <1>0, <1>8, <2>2 DEF Begin, Owes
        <3> QED
            BY <2>1, <3>1, OwesNothing
    <2>3. CASE u # lt /\ store' = store
        <3>1. pc'[u] = pc[u] /\ wait'[u] = wait[u]
            BY <1>8, <2>3, BeginFacts DEF Apart
        <3> QED
            BY <1>3, <2>1, <2>3, <3>1
    <2>4. CASE row.read = "asked"
        BY <1>4, <2>1, <2>4 DEF InQueue
    <2> QED
        BY <1>8, <2>2, <2>3, <2>4, BeginFacts
<1>9. ASSUME NEW lt \in LTs, Look(lt), NEW u \in LTs, u # lt
      PROVE  Owes(u)'
    <2>1. pc'[u] = pc[u] /\ wait'[u] = wait[u] /\ store' = store
        BY <1>9, LookFacts DEF Apart
    <2>2. snapshot'[u] = snapshot[u]
        BY <1>1, <1>9 DEF Look, LookFirst, EnterWait, Expire, Interrupted, Poll, TimedOut,
            ScanBegins, ScanNext, ScanEnds, Forget
    <2> QED
        BY <1>3, <2>1, <2>2
<1>10. ASSUME NEW lt \in LTs, LookFirst(lt) \/ EnterWait(lt) \/ Poll(lt)
       PROVE  Owes(lt)'
    <2>1. snapshot'[lt] = snapshot[lt] /\ (pc[lt] \in {"fast", "enter"} \/ ~InQueue)
        BY <1>10 DEF LookFirst, EnterWait, Poll
    <2>2. snapshot[lt] = {}
        BY <1>0, <2>1 DEF Owes
    <2> QED
        BY <2>1, <2>2, OwesNothing
<1>11. ASSUME NEW lt \in LTs, Interrupted(lt) \/ TimedOut(lt)
       PROVE  Owes(lt)'
    <2>1. snapshot'[lt] = {}
        BY <1>1, <1>11 DEF Interrupted, TimedOut, Forget
    <2> QED
        BY <2>1, OwesNothing
<1>12. ASSUME NEW lt \in LTs, ScanBegins(lt)
       PROVE  Owes(lt)'
    <2>1. /\ InQueue /\ UNCHANGED <<row, log, store>>
          /\ pc' = [pc EXCEPT ![lt] = "scan"] /\ wait' = [wait EXCEPT ![lt].index = 1]
          /\ snapshot' = [snapshot EXCEPT ![lt] = Range(Held(lt))]
        BY <1>12 DEF ScanBegins, Goto
    <2>2. /\ pc'[lt] = "scan" /\ snapshot'[lt] = Range(Held(lt))
          /\ wait'[lt].index = 1 /\ wait'[lt].object = wait[lt].object
        BY <1>1, <2>1, HeldType DEF TypeOK, Waits
    <2>3. wait[lt].object \in Objects /\ Held(lt) = store[wait[lt].object]
        BY HeldType
    <2>4. Held(lt)' = Held(lt)
        BY <2>1, <2>2 DEF Held
    <2>5. \A e \in Range(Held(lt)) :
              /\ e \in DOMAIN log
              /\ \E i \in DOMAIN Held(lt) : i >= 1 /\ Held(lt)[i] = e
        <3>1. DOMAIN Held(lt) = 1 .. Len(Held(lt))
            BY HeldType
        <3> QED
            BY <2>3, <3>1 DEF Range, Stored
    <2>6. InQueue'
        BY <2>1 DEF InQueue
    <2> QED
        BY <2>1, <2>2, <2>4, <2>5, <2>6 DEF Owes
<1>13. ASSUME NEW lt \in LTs, ScanNext(lt)
       PROVE  Owes(lt)'
    <2>1. /\ pc[lt] = "scan" /\ UNCHANGED <<row, log, store, snapshot>>
        BY <1>13 DEF ScanNext
    <2>2. /\ wait'[lt].object = wait[lt].object /\ wait'[lt].key = wait[lt].key
          /\ \/ pc'[lt] = "got"
             \/ /\ pc'[lt] = "scan" /\ ~Matches(lt, Held(lt)[wait[lt].index])
                /\ wait'[lt].index = wait[lt].index + 1
        BY <1>13, ScanNextFacts
    <2>3. /\ Held(lt)' = Held(lt) /\ (InQueue' <=> InQueue)
          /\ \A e : Matches(lt, e)' <=> Matches(lt, e)
        BY <2>1, <2>2 DEF Held, InQueue, Matches, Keyed
    <2>4. ASSUME pc'[lt] = "scan", NEW e \in snapshot[lt], Matches(lt, e)
          PROVE  \E i \in DOMAIN Held(lt) : i >= wait'[lt].index /\ Held(lt)[i] = e
        <3>1. PICK i \in DOMAIN Held(lt) : i >= wait[lt].index /\ Held(lt)[i] = e
            BY <1>0, <2>1, <2>4 DEF Owes
        <3>2. i # wait[lt].index /\ wait'[lt].index = wait[lt].index + 1
            BY <2>2, <2>4, <3>1
        <3>3. i \in Nat /\ wait[lt].index \in Nat
            BY HeldType DEF Waits
        <3> QED
            BY <3>1, <3>2, <3>3
    <2> QED
        BY <1>0, <2>1, <2>2, <2>3, <2>4 DEF Owes
<1>14. ASSUME NEW lt \in LTs, ScanEnds(lt)
       PROVE  Owes(lt)'
    <2>1. /\ pc[lt] = "scan" /\ wait[lt].index > Len(Held(lt))
          /\ UNCHANGED <<row, log, store, snapshot, wait>> /\ pc' = [pc EXCEPT ![lt] = "loop"]
        BY <1>14 DEF ScanEnds, Goto
    <2>2. pc'[lt] = "loop"
        BY <2>1 DEF TypeOK
    <2>3. (InQueue' <=> InQueue) /\ \A e : Matches(lt, e)' <=> Matches(lt, e)
        BY <2>1 DEF InQueue, Matches, Keyed
    <2>4. ASSUME NEW e \in snapshot[lt], Matches(lt, e)
          PROVE  FALSE
        <3>1. PICK i \in DOMAIN Held(lt) : i >= wait[lt].index /\ Held(lt)[i] = e
            BY <1>0, <2>1, <2>4 DEF Owes
        <3>2. /\ Len(Held(lt)) \in Nat /\ DOMAIN Held(lt) = 1 .. Len(Held(lt))
              /\ wait[lt].index \in Nat
            BY HeldType DEF Waits
        <3> QED
            BY <2>1, <3>1, <3>2
    <2> QED
        BY <1>0, <2>1, <2>2, <2>3, <2>4 DEF Owes
<1>15. ASSUME NEW lt \in LTs, ReadStore(lt) \/ ReadLate(lt), NEW u \in LTs
       PROVE  Owes(u)'
    <2>1. CASE Removing(lt)
        <3>1. PICK i \in DOMAIN Held(lt) :
                  /\ Taking(lt, i, wait[lt].found)
                  /\ snapshot' = [o \in LTs |-> IF o = lt THEN {} ELSE
                        IF pc[o] = "scan" /\ wait[o].object = wait[lt].object
                        THEN {} ELSE snapshot[o] \ {Held(lt)[i]}]
            BY <2>1 DEF Removing
        <3>2. CASE u = lt \/ (pc[u] = "scan" /\ wait[u].object = wait[lt].object)
            <4>1. snapshot'[u] = {}
                BY <3>1, <3>2
            <4> QED
                BY <4>1, OwesNothing
        <3>3. CASE u # lt /\ ~(pc[u] = "scan" /\ wait[u].object = wait[lt].object)
            <4>1. pc'[u] = pc[u] /\ wait'[u] = wait[u] /\ wait[u].object \in Objects
                BY <1>15, <3>3, ReadFacts, HeldType DEF Apart
            <4>2. snapshot'[u] \subseteq snapshot[u]
                BY <3>1, <3>3
            <4>3. pc[u] = "scan" => store'[wait[u].object] = store[wait[u].object]
                BY <3>1, <3>3, <4>1, TakingFacts
            <4> QED
                BY <1>0, <4>1, <4>2, <4>3, OwesStill
        <3> QED
            BY <3>2, <3>3
    <2>2. CASE ~Removing(lt) /\ u = lt
        <3>1. pc[lt] = "late" => snapshot[lt] = {}
            BY <1>0 DEF Owes
        <3>2. snapshot'[lt] = {}
            BY <1>1, <1>15, <2>2, <3>1, ReadFacts
        <3> QED
            BY <2>2, <3>2, OwesNothing
    <2>3. CASE ~Removing(lt) /\ u # lt
        <3>1. pc'[u] = pc[u] /\ wait'[u] = wait[u]
            BY <1>15, <2>3, ReadFacts DEF Apart
        <3>2. snapshot'[u] = snapshot[u]
            <4>1. snapshot' = [snapshot EXCEPT ![lt] = {}] \/ snapshot' = snapshot
                BY <1>15, <2>3, ReadFacts
            <4> QED
                BY <1>1, <2>3, <4>1
        <3>3. store' = store \/ ~InQueue
            <4>1. UNCHANGED <<store, reports>> \/ Reading(lt) \/ Popping(lt)
                BY <1>15, <2>3, ReadFacts
            <4> QED
                BY <4>1 DEF Reading, Popping, InQueue
        <3> QED
            BY <1>3, <1>4, <3>1, <3>2, <3>3
    <2> QED
        BY <2>1, <2>2, <2>3
<1>16. ASSUME NEW lt \in LTs, Step(lt), NEW u \in LTs
       PROVE  Owes(u)'
    <2>1. CASE u = lt
        BY <1>10, <1>11, <1>12, <1>13, <1>14, <1>15, <1>16, <2>1 DEF Step
    <2>2. CASE u # lt
        BY <1>9, <1>15, <1>16, <2>2 DEF Step, Look
    <2> QED
        BY <2>1, <2>2
<1>17. \A u \in LTs : Owes(u)'
    BY <1>5, <1>6, <1>7, <1>8, <1>16 DEF Next
<1> QED
    BY <1>17 DEF Scanning, Owes

-----------------------------------------------------------------------------
(* The invariant holds at first and is kept.                                *)

LEMMA InitStackInv == Init => StackInv
<1> SUFFICES ASSUME Init PROVE StackInv
    OBVIOUS
<1>1. /\ row \in Stores /\ log = <<>> /\ EpochTypes /\ reports = {} /\ globalEnd = FALSE
      /\ store = [o \in Objects |-> <<>>] /\ known = [o \in Objects |-> {}]
      /\ pc = [lt \in LTs |-> "idle"] /\ wait = [lt \in LTs |-> NoWait]
      /\ armed = [lt \in LTs |-> FALSE] /\ outcome = [lt \in LTs |-> "none"]
      /\ snapshot = [lt \in LTs |-> {}]
    BY FirstCase, StoresExist DEF Init, EpochTypes
<1>2. DOMAIN log = {} /\ Len(log) = 0 /\ log \in Seq(Entries)
    BY <1>1
<1>3. TypeOK
    <2>1. NoWait \in Waits /\ 1 \in Objects /\ <<>> \in Seq(Events)
        BY NoWaitType, FirstCase
    <2>2. ThreadTypes
        BY <1>1, <2>1 DEF ThreadTypes, Places, Outcomes
    <2>3. SharedTypes
        <3>1. log \in Seq(Entries) /\ Len(log) <= MaxEvents
            BY <1>2, BoundAssumption
        <3> QED
            BY <1>1, <2>1, <3>1, FalseIsBoolean DEF SharedTypes
    <2>4. StoreTypes
        BY <1>1, <2>1 DEF StoreTypes
    <2>5. reports \subseteq Told /\ snapshot \in [LTs -> SUBSET Events]
        BY <1>1
    <2> QED
        BY <2>2, <2>3, <2>4, <2>5, TypeParts
<1>4. IsFiniteSet(reports)
    BY <1>1, FS_EmptySet
<1>5. Logged
    BY <1>2 DEF Logged
<1>6. \A o \in Objects : DOMAIN store[o] = {}
    BY <1>1
<1>7. Stored /\ Current /\ Waiting /\ Reported /\ LeftLater /\ OfThisCase /\ PoppedInOrder
    BY <1>1, <1>2, <1>6 DEF Stored, Current, Waiting, Reported, LeftLater, OfThisCase, PoppedInOrder
<1>8. Scanning
    BY <1>1 DEF Scanning
<1>9. Conserved
    <2>1. ASSUME NEW o \in Objects, NEW k, NEW v
          PROVE  Cardinality(Came(o, k, v)) = Cardinality(Here(o, k, v)) + Cardinality(Gone(o, k, v))
        <3>1. Came(o, k, v) = {} /\ Here(o, k, v) = {} /\ Gone(o, k, v) = {}
            BY <1>1, <1>2, <1>6 DEF Came, Here, Gone, Range
        <3>2. Cardinality({}) = 0
            BY FS_EmptySet
        <3> QED
            BY <3>1, <3>2
    <2> QED
        BY <2>1, Counted
<1> QED
    BY <1>3, <1>4, <1>5, <1>7, <1>8, <1>9 DEF StackInv

LEMMA FiniteReports ==
    ASSUME TypeOK, Waiting, Stored, IsFiniteSet(reports), [Next]_vars
    PROVE  IsFiniteSet(reports')
<1>1. CASE reports' = reports
    BY <1>1
<1>2. ASSUME NEW lt \in LTs, NEW es \in SUBSET Events,
             reports' = reports \cup {Telling(lt, e) : e \in es}
      PROVE  IsFiniteSet(reports')
    <2>1. IsFiniteSet(es)
        <3>1. IsFiniteSet(Events)
            BY BoundAssumption, FS_Interval DEF Events
        <3> QED
            BY <3>1, FS_Subset
    <2>2. IsFiniteSet({Telling(lt, e) : e \in es})
        <3> DEFINE T == {Telling(lt, e) : e \in es}
                   f == [e \in es |-> Telling(lt, e)]
        <3>1. f \in Surjection(es, T)
            BY DEF Surjection
        <3> HIDE DEF f
        <3> QED
            BY <2>1, <3>1, FS_Surjection
    <2> QED
        BY <1>2, <2>2, FS_Union
<1>3. ASSUME NEW lt \in LTs, NEW i, NEW e, Taking(lt, i, e)
      PROVE  IsFiniteSet(reports')
    BY <1>3, FS_AddElement DEF Taking
<1>4. ASSUME NEW lt \in LTs, Read(lt)
      PROVE  IsFiniteSet(reports')
    BY <1>2, <1>3, <1>4 DEF Read, Reading, Popping, Removing
<1> QED
    BY <1>1, <1>4, Effects, WriteFacts DEF Still, Emptied

(* What a wait returns is of its object, all of which is fresh to it.       *)
LEMMA OfThisCaseStep ==
    ASSUME TypeOK, Stored, Waiting, Reported, OfThisCase, [Next]_vars
    PROVE  OfThisCase'
<1>1. row' = row /\ \A e \in DOMAIN log : log'[e] = log[e]
    BY Lasting
<1>2. CleanedUp' <=> CleanedUp
    BY <1>1 DEF CleanedUp
<1>3. ASSUME NEW r \in reports, log'[r.event] = log[r.event]
      PROVE  Fresh(r, r.event)'
    BY <1>2, <1>3 DEF OfThisCase, Fresh
<1>4. ASSUME NEW lt \in LTs, Read(lt), NEW r \in reports', r \notin reports
      PROVE  Fresh(r, r.event)'
    <2>1. PICK e \in DOMAIN log : r = Telling(lt, e) /\ log[e].object = wait[lt].object
        BY <1>4, NewReports
    <2>2. /\ r.event = e /\ r.case = wait[lt].case /\ r.cleanups = wait[lt].cleanups
          /\ r.renewed = wait[lt].renewed
        BY <2>1 DEF Telling
    <2>3. Fresh(wait[lt], e)
        BY <1>4, <2>1 DEF Waiting, Read
    <2> QED
        BY <1>1, <1>2, <2>1, <2>2, <2>3 DEF Fresh
<1>5. ASSUME NEW r \in reports' PROVE r \in reports \/ \E lt \in LTs : Read(lt)
    BY Effects, WriteFacts DEF Still, Emptied
<1>6. \A r \in reports : log'[r.event] = log[r.event]
    BY <1>1 DEF Reported
<1> QED
    BY <1>3, <1>4, <1>5, <1>6 DEF OfThisCase

LEMMA StepStackInv == StackInv /\ [Next]_vars => StackInv'
<1> SUFFICES ASSUME StackInv, [Next]_vars PROVE StackInv'
    OBVIOUS
<1>1. /\ TypeOK /\ IsFiniteSet(reports) /\ Logged /\ Stored /\ Current /\ Waiting
      /\ Reported /\ LeftLater /\ Scanning /\ Conserved /\ OfThisCase /\ PoppedInOrder
    BY DEF StackInv
<1>2. TypeOK' /\ IsFiniteSet(reports')
    BY <1>1, TypesStep, FiniteReports
<1>3. Logged' /\ Stored' /\ Current' /\ Waiting' /\ Reported'
    BY <1>1, LoggedStep, StoredStep, CurrentStep, WaitingStep, ReportedStep
<1>4. LeftLater' /\ PoppedInOrder'
    BY <1>1, LeftLaterStep, PoppedInOrderStep
<1>5. Scanning' /\ Conserved'
    BY <1>1, ScanningStep, ConservedStep
<1>6. OfThisCase'
    BY <1>1, OfThisCaseStep
<1> QED
    BY <1>2, <1>3, <1>4, <1>5, <1>6 DEF StackInv

-----------------------------------------------------------------------------
(* The theorems.                                                            *)

(* The stack, the receiver and the waits keep StackInv.                     *)
THEOREM StackInvariance == Spec => []StackInv
<1>1. Init => StackInv
    BY InitStackInv
<1>2. StackInv /\ [Next]_vars => StackInv'
    BY StepStackInv
<1> QED
    BY <1>1, <1>2, PTL DEF Spec

(* The variables keep their types.                                          *)
THEOREM Typed == Spec => []TypeOK
<1>1. StackInv => TypeOK
    BY DEF StackInv
<1> QED
    BY <1>1, StackInvariance, PTL

(* Two waits never share an event of a list they shorten and none is        *)
(* dropped, whatever the threads do between each other's steps.             *)
THEOREM NoneLostNoneShared == Spec => []Conserved
<1>1. StackInv => Conserved
    BY DEF StackInv
<1> QED
    BY <1>1, StackInvariance, PTL

(* No wait returns an event of a test case before its own if that           *)
(* initialised the layer, nor, where stack.cleanup() renews the layer, one  *)
(* that came before the last clean-up.                                      *)
THEOREM NothingLeftOver == Spec => []OfThisCase
<1>1. StackInv => OfThisCase
    BY DEF StackInv
<1> QED
    BY <1>1, StackInvariance, PTL

(* A thread pops the events of a list in the order the IUT sent them.       *)
THEOREM SentOrder == Spec => []PoppedInOrder
<1>1. StackInv => PoppedInOrder
    BY DEF StackInv
<1> QED
    BY <1>1, StackInvariance, PTL

(* A wait does not give up on an event its last whole scan went over.       *)
THEOREM TimeoutsHonest == Spec => HonestTimeout
<1>1. StackInv /\ [Next]_vars => [\A lt \in LTs :
          InQueue /\ pc[lt] = "loop" /\ outcome'[lt] = "timeout" /\ pc'[lt] = "idle" =>
              ~\E e \in snapshot[lt] : Matches(lt, e)]_vars
    BY DEF StackInv, Scanning
<1> QED
    BY <1>1, StackInvariance, PTL DEF Spec, HonestTimeout
=============================================================================
