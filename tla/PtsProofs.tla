------------------------------ MODULE PtsProofs ------------------------------
(***************************************************************************)
(* Proofs about PtsServer, for any PIXITs, PICS and values, any number of  *)
(* calls and of calls abandoned, and any number of failing starts.         *)
(***************************************************************************)
EXTENDS PtsServer, DataProofs, TLAPS

USE DEF client, memory, thread, vars

-----------------------------------------------------------------------------
(* Data.                                                                    *)

(* The function that drops the items of a method is the one it defines.     *)
LEMMA WithoutIs ==
    ASSUME NEW S, NEW s \in Seq(S), NEW m
    PROVE  /\ Without(s, m)[0] = <<>>
           /\ \A n \in 0 .. Len(s) : n < Len(s) =>
                  Without(s, m)[n + 1] = IF s[n + 1].m = m THEN Without(s, m)[n]
                                         ELSE Append(Without(s, m)[n], s[n + 1])
<1> DEFINE Body(f, n) == IF n = 0 THEN <<>>
                         ELSE IF s[n].m = m THEN f[n - 1] ELSE Append(f[n - 1], s[n])
           good == {n \in 0 .. Len(s) : \E f : f = [i \in 0 .. n |-> Body(f, i)]}
<1>1. Len(s) \in Nat
    OBVIOUS
<1>2. 0 \in good
    <2> DEFINE f == [i \in 0 .. 0 |-> <<>>]
    <2>1. f = [i \in 0 .. 0 |-> Body(f, i)]
        OBVIOUS
    <2> HIDE DEF f
    <2>2. \E g : g = [i \in 0 .. 0 |-> Body(g, i)]
        BY <2>1
    <2> QED
        BY <1>1, <2>2
<1>3. ASSUME NEW n \in 0 .. Len(s), n \in good, n < Len(s)
      PROVE  n + 1 \in good
    <2>1. PICK f : f = [i \in 0 .. n |-> Body(f, i)]
        BY <1>3
    <2> DEFINE g == [i \in 0 .. n + 1 |-> IF i = n + 1 THEN Body(f, n + 1) ELSE f[i]]
    <2>2. ASSUME NEW i \in 0 .. n + 1
          PROVE  g[i] = Body(g, i)
        <3>1. CASE i = 0
            BY <1>1, <2>1, <3>1
        <3>2. CASE i = n + 1
            <4>1. g[i - 1] = f[i - 1] /\ g[i] = Body(f, i) /\ i # 0
                BY <3>2
            <4> QED
                BY <4>1
        <3>3. CASE i # 0 /\ i # n + 1
            <4>1. i \in 0 .. n /\ g[i] = f[i] /\ g[i - 1] = f[i - 1]
                BY <3>3
            <4>2. f[i] = Body(f, i)
                BY <2>1, <4>1
            <4> QED
                BY <4>1, <4>2
        <3> QED
            BY <3>1, <3>2, <3>3
    <2>3. g = [i \in 0 .. n + 1 |-> g[i]]
        OBVIOUS
    <2>4. g = [i \in 0 .. n + 1 |-> Body(g, i)]
        BY <2>2, <2>3
    <2>5. n + 1 \in 0 .. Len(s)
        BY <1>1, <1>3
    <2> QED
        BY <2>4, <2>5
<1> HIDE DEF good
<1>4. Len(s) \in good
    <2>1. \A n \in 0 .. Len(s) : n \in good
        BY <1>1, <1>2, <1>3, Climb
    <2> QED
        BY <1>1, <2>1
<1>5. Without(s, m) = CHOOSE f : f = [i \in 0 .. Len(s) |-> Body(f, i)]
    BY DEF Without
<1>6. Without(s, m) = [i \in 0 .. Len(s) |-> Body(Without(s, m), i)]
    BY <1>4, <1>5 DEF good
<1>7. \A i \in 0 .. Len(s) : Without(s, m)[i] = Body(Without(s, m), i)
    BY <1>6
<1>8. Without(s, m)[0] = <<>>
    BY <1>1, <1>7
<1>9. ASSUME NEW n \in 0 .. Len(s), n < Len(s)
      PROVE  Without(s, m)[n + 1] = IF s[n + 1].m = m THEN Without(s, m)[n]
                                    ELSE Append(Without(s, m)[n], s[n + 1])
    <2>1. n + 1 \in 0 .. Len(s) /\ n + 1 # 0 /\ (n + 1) - 1 = n
        BY <1>1, <1>9
    <2> QED
        BY <1>7, <2>1
<1> QED
    BY <1>8, <1>9

LEMMA WithoutThins ==
    ASSUME NEW S, NEW s \in Seq(S), NEW m
    PROVE  LET t == Without(s, m)[Len(s)]
           IN  /\ t \in Seq(S)
               /\ \A k \in 1 .. Len(t) : t[k].m # m
               /\ \E e : /\ Thinned(t, s, e)
                         /\ \A i \in 1 .. Len(s) : s[i].m # m => \E j \in 1 .. Len(t) : e[j] = i
<1> DEFINE f == Without(s, m)
           Part(n, e) == /\ e \in [1 .. Len(f[n]) -> 1 .. n]
                         /\ \A k \in 1 .. Len(f[n]) : f[n][k] = s[e[k]] /\ f[n][k].m # m
                         /\ \A j, k \in 1 .. Len(f[n]) : j < k => e[j] < e[k]
                         /\ \A i \in 1 .. n : s[i].m # m => \E j \in 1 .. Len(f[n]) : e[j] = i
           good == {n \in 0 .. Len(s) : f[n] \in Seq(S) /\ \E e : Part(n, e)}
<1>1. Len(s) \in Nat /\ \A i \in 1 .. Len(s) : s[i] \in S
    OBVIOUS
<1>2. /\ f[0] = <<>>
      /\ \A n \in 0 .. Len(s) : n < Len(s) =>
             f[n + 1] = IF s[n + 1].m = m THEN f[n] ELSE Append(f[n], s[n + 1])
    BY WithoutIs
<1> HIDE DEF f
<1>3. 0 \in good
    <2>1. f[0] \in Seq(S) /\ Len(f[0]) = 0
        BY <1>2
    <2>2. Part(0, [k \in 1 .. 0 |-> k])
        BY <2>1
    <2> QED
        BY <1>1, <2>1, <2>2
<1>4. ASSUME NEW n \in 0 .. Len(s), n \in good, n < Len(s)
      PROVE  n + 1 \in good
    <2>1. PICK e : Part(n, e)
        BY <1>4
    <2>2. n + 1 \in 0 .. Len(s) /\ n + 1 \in 1 .. Len(s) /\ s[n + 1] \in S /\ f[n] \in Seq(S)
        BY <1>1, <1>4
    <2>3. Len(f[n]) \in Nat
        BY <2>2
    <2>4. CASE s[n + 1].m = m
        <3>1. f[n + 1] = f[n]
            BY <1>2, <1>4, <2>4
        <3>2. e \in [1 .. Len(f[n + 1]) -> 1 .. n + 1]
            BY <2>1, <2>3, <3>1
        <3>3. \A i \in 1 .. n + 1 : s[i].m # m => i \in 1 .. n
            BY <2>4
        <3>4. \A i \in 1 .. n + 1 : s[i].m # m => \E j \in 1 .. Len(f[n + 1]) : e[j] = i
            BY <2>1, <3>1, <3>3
        <3>5. Part(n + 1, e)
            BY <2>1, <3>1, <3>2, <3>4
        <3> QED
            BY <2>2, <3>1, <3>5
    <2>5. CASE s[n + 1].m # m
        <3> DEFINE g == [k \in 1 .. Len(f[n]) + 1 |-> IF k = Len(f[n]) + 1 THEN n + 1 ELSE e[k]]
        <3>1. f[n + 1] = Append(f[n], s[n + 1])
            BY <1>2, <1>4, <2>5
        <3>2. /\ f[n + 1] \in Seq(S) /\ Len(f[n + 1]) = Len(f[n]) + 1
              /\ \A k \in 1 .. Len(f[n]) : f[n + 1][k] = f[n][k]
              /\ f[n + 1][Len(f[n]) + 1] = s[n + 1]
            BY <2>2, <3>1, AppendProperties
        <3>3. /\ \A k \in 1 .. Len(f[n]) : k \in 1 .. Len(f[n]) + 1 /\ g[k] = e[k] /\ e[k] \in 1 .. n
              /\ g[Len(f[n]) + 1] = n + 1
            <4>1. \A k \in 1 .. Len(f[n]) : k \in 1 .. Len(f[n]) + 1 /\ k # Len(f[n]) + 1
                BY <2>3
            <4>2. \A k \in 1 .. Len(f[n]) : e[k] \in 1 .. n
                BY <2>1
            <4>3. Len(f[n]) + 1 \in 1 .. Len(f[n]) + 1
                BY <2>3
            <4> QED
                BY <4>1, <4>2, <4>3
        <3>4. \A k \in 1 .. Len(f[n]) + 1 : k \in 1 .. Len(f[n]) \/ k = Len(f[n]) + 1
            BY <2>3
        <3>5. g \in [1 .. Len(f[n + 1]) -> 1 .. n + 1]
            BY <2>1, <2>3, <3>2
        <3> HIDE DEF g
        <3>6. \A k \in 1 .. Len(f[n + 1]) : f[n + 1][k] = s[g[k]] /\ f[n + 1][k].m # m
            BY <2>1, <2>5, <3>2, <3>3, <3>4
        <3>7. \A j, k \in 1 .. Len(f[n + 1]) : j < k => g[j] < g[k]
            <4> SUFFICES ASSUME NEW j \in 1 .. Len(f[n + 1]), NEW k \in 1 .. Len(f[n + 1]), j < k
                         PROVE  g[j] < g[k]
                OBVIOUS
            <4>1. j \in 1 .. Len(f[n])
                BY <2>3, <3>2
            <4>2. CASE k = Len(f[n]) + 1
                BY <3>3, <4>1, <4>2
            <4>3. CASE k \in 1 .. Len(f[n])
                BY <2>1, <3>3, <4>1, <4>3
            <4> QED
                BY <3>2, <3>4, <4>2, <4>3
        <3>8. \A i \in 1 .. n + 1 : s[i].m # m => \E j \in 1 .. Len(f[n + 1]) : g[j] = i
            <4> SUFFICES ASSUME NEW i \in 1 .. n + 1, s[i].m # m
                         PROVE  \E j \in 1 .. Len(f[n + 1]) : g[j] = i
                OBVIOUS
            <4>1. CASE i = n + 1
                BY <2>3, <3>2, <3>3, <4>1
            <4>2. CASE i \in 1 .. n
                <5>1. PICK j \in 1 .. Len(f[n]) : e[j] = i
                    BY <2>1, <4>2
                <5> QED
                    BY <3>2, <3>3, <5>1
            <4> QED
                BY <4>1, <4>2
        <3>9. Part(n + 1, g)
            BY <3>5, <3>6, <3>7, <3>8
        <3> QED
            BY <2>2, <3>2, <3>9
    <2> QED
        BY <2>4, <2>5
<1>5. Len(s) \in good
    <2> HIDE DEF good
    <2>1. \A n \in 0 .. Len(s) : n \in good
        BY <1>1, <1>3, <1>4, Climb
    <2> QED
        BY <1>1, <2>1
<1>6. PICK e : Part(Len(s), e)
    BY <1>5
<1>7. Thinned(f[Len(s)], s, e)
    BY <1>6 DEF Thinned
<1> QED
    BY <1>5, <1>6, <1>7 DEF f

-----------------------------------------------------------------------------
(* Types.                                                                   *)

(* What the names of the calls are, and the keys of those that set values.  *)
LEMMA CallTypes ==
    /\ OpenWorkspace \in Calls /\ OpenWorkspace.key = "none"
    /\ \A c \in SettingCalls :
           /\ c \in Calls /\ c.key \in Names /\ c.val \in Values \cup Timeouts
           /\ c.m \in {"set_pixit", "update_pixit_param"} => c.key \in Pixits
           /\ c.m = "set_pics" => c.key \in Pics
           /\ c.m = "set_call_timeout" => c.key = "timeout"
           /\ c.m \in {"set_pixit", "update_pixit_param", "set_pics", "set_call_timeout"}
    /\ \A c \in Calls :
           \/ c \in SettingCalls \/ c = OpenWorkspace
           \/ c.key = "none" /\ c.m \in {"cleanup_caches", "stop_pts"} \cup Nonblocking
    /\ OpenWorkspace.m = "open_workspace"
<1>1. OpenWorkspace = [m |-> "open_workspace", key |-> "none", val |-> Default]
    BY DEF OpenWorkspace, Plain, Call
<1>2. ASSUME NEW c \in SettingCalls
      PROVE  /\ c \in Calls /\ c.key \in Names /\ c.val \in Values \cup Timeouts
             /\ c.m \in {"set_pixit", "update_pixit_param"} => c.key \in Pixits
             /\ c.m = "set_pics" => c.key \in Pics
             /\ c.m = "set_call_timeout" => c.key = "timeout"
             /\ c.m \in {"set_pixit", "update_pixit_param", "set_pics", "set_call_timeout"}
    <2>1. CASE c \in [m : {"set_pixit", "update_pixit_param"}, key : Pixits, val : Values]
        BY <2>1 DEF Calls, Names
    <2>2. CASE c \in [m : {"set_pics"}, key : Pics, val : Values]
        BY <2>2 DEF Calls, Names
    <2>3. CASE c \in [m : {"set_call_timeout"}, key : {"timeout"}, val : Timeouts]
        BY <2>3 DEF Calls, Names
    <2> QED
        BY <2>1, <2>2, <2>3 DEF SettingCalls
<1>3. ASSUME NEW c \in Calls, c \notin SettingCalls, c # OpenWorkspace
      PROVE  c.key = "none" /\ c.m \in {"cleanup_caches", "stop_pts"} \cup Nonblocking
    <2>1. PICK m \in {"cleanup_caches", "stop_pts"} \cup Nonblocking : c = Plain(m)
        BY <1>3 DEF Calls
    <2> QED
        BY <2>1 DEF Plain, Call
<1> QED
    BY <1>1, <1>2, <1>3 DEF Calls

LEMMA FirstIs ==
    /\ FirstPixit \in SettingCalls /\ FirstPixit.m = "set_pixit"
    /\ FirstPixit.key \in Pixits /\ FirstPixit.val \in Values /\ FirstPixit.key \in Names
<1>1. PICK p \in Pixits, v \in Values : TRUE
    BY ValuesAssumption
<1>2. [m |-> "set_pixit", key |-> p, val |-> v] \in SettingCalls
    BY DEF SettingCalls
<1>3. \E c \in SettingCalls : c.m = "set_pixit"
    BY <1>2
<1>4. FirstPixit \in SettingCalls /\ FirstPixit.m = "set_pixit"
    BY <1>3 DEF FirstPixit
<1>5. FirstPixit.key \in Pixits /\ FirstPixit.val \in Values
    BY <1>4 DEF SettingCalls
<1> QED
    BY <1>4, <1>5 DEF Names

LEMMA TypeInit == Init => TypeOK
<1> SUFFICES ASSUME Init PROVE TypeOK
    OBVIOUS
<1> USE BoundAssumption, FalseIsBoolean DEF Init
<1>1. caller.m \in {c.m : c \in Calls}
    <2>1. Plain("stop_pts") \in Calls /\ Plain("stop_pts").m = "stop_pts"
        BY DEF Calls, Plain, Call
    <2> QED
        BY <2>1
<1>2. /\ caller \in [state : {"idle", "waits"}, blocking : BOOLEAN, number : 0 .. MaxCalls,
                     m : {c.m : c \in Calls}]
      /\ called \in [blocking : 0 .. MaxCalls, others : 0 .. MaxCalls]
    BY <1>1
<1>3. pts \in [up : BOOLEAN, open : BOOLEAN, value : [Names -> Values \cup Timeouts \cup {Default}],
               sender : {"none", "open", "closed"}]
    BY FirstIs DEF Started, Defaults
<1>4. recov \in Seq(Recordable)
    <2>1. OpenWorkspace \in Recordable /\ FirstPixit \in Recordable
        BY FirstIs DEF Recordable
    <2> QED
        BY <2>1
<1>5. wanted \in [Names -> Values \cup Timeouts \cup {Default, Unset}]
    BY FirstIs
<1>6. results \in [Nonblocking -> 0 .. TimedOut]
    BY DEF TimedOut
<1>7. pts.up
    BY DEF Started
<1> QED
    BY <1>2, <1>3, <1>4, <1>5, <1>6, <1>7 DEF TypeOK, ClientTypes, ThreadTypes, PtsTypes, MemoryTypes, TimedOut

PtsType == [up : BOOLEAN, open : BOOLEAN, value : [Names -> Values \cup Timeouts \cup {Default}],
            sender : {"none", "open", "closed"}]

LEMMA NewPts ==
    /\ Started \in PtsType /\ Stopped \in PtsType
    /\ ~Stopped.up /\ ~Stopped.open /\ Stopped.value = Defaults
    /\ Started.up /\ ~Started.open /\ Started.value = Defaults
BY FalseIsBoolean DEF PtsType, Started, Stopped, Defaults

(* What a call that sets a value does to PTS.                               *)
LEMMA EffectTypes ==
    ASSUME TypeOK, NEW c \in SettingCalls \cup {OpenWorkspace}, Accepts(c)
    PROVE  /\ Effect(c) \in PtsType /\ Effect(c).up
           /\ Wants(c) \in [Names -> Values \cup Timeouts \cup {Default, Unset}]
<1> USE CallTypes
<1>1. pts \in PtsType /\ pts.up /\ wanted \in [Names -> Values \cup Timeouts \cup {Default, Unset}]
    BY DEF TypeOK, PtsTypes, MemoryTypes, PtsType, Accepts
<1>2. "timeout" \in Names
    BY DEF Names
<1>3. CASE c = OpenWorkspace
    <2>1. pts.value["timeout"] \in Values \cup Timeouts \cup {Default}
        BY <1>1, <1>2 DEF PtsType
    <2>2. [Defaults EXCEPT !["timeout"] = pts.value["timeout"]] \in [Names -> Values \cup Timeouts \cup {Default}]
        BY <2>1 DEF Defaults
    <2>3. Effect(c) \in PtsType /\ Effect(c).up
        BY <1>1, <1>3, <2>2 DEF Effect, PtsType
    <2>4. Wants(c) = [n \in Names |-> IF n = "timeout" THEN wanted[n] ELSE Unset]
        BY <1>3 DEF Wants
    <2> QED
        BY <1>1, <2>3, <2>4
<1>4. CASE c # OpenWorkspace
    <2>1. c \in SettingCalls /\ c.key \in Names /\ c.val \in Values \cup Timeouts
        BY <1>4
    <2>2. Effect(c) = [pts EXCEPT !.value[c.key] = c.val]
        BY <1>4 DEF Effect
    <2>3. Effect(c) \in PtsType /\ Effect(c).up
        BY <1>1, <2>1, <2>2 DEF PtsType
    <2>4. Wants(c) = IF c.m = "update_pixit_param" THEN wanted ELSE [wanted EXCEPT ![c.key] = c.val]
        BY <1>4 DEF Wants
    <2> QED
        BY <1>1, <2>1, <2>3, <2>4
<1> QED
    BY <1>3, <1>4

(* What is recorded is made of calls that were made.                        *)
LEMMA RecordTypes ==
    ASSUME NEW S, recov \in Seq(S), cur.call \in S
    PROVE  Recorded \in Seq(S)
<1>1. Added(cur.call) \in Seq(S)
    <2>1. CASE cur.call.m = "set_pixit" /\ SetAt(cur.call.key) # {}
        <3>1. SetAt(cur.call.key) \subseteq DOMAIN recov /\ DOMAIN recov \subseteq Nat
            BY DEF SetAt
        <3>2. Min(SetAt(cur.call.key)) \in DOMAIN recov
            BY <2>1, <3>1, LeastNatural
        <3>3. RemoveAt(recov, Min(SetAt(cur.call.key))) \in Seq(S)
            BY <3>2, RemovedAt
        <3> QED
            BY <2>1, <3>3, AppendProperties DEF Added
    <2>2. CASE ~(cur.call.m = "set_pixit" /\ SetAt(cur.call.key) # {})
        BY <2>2, AppendProperties DEF Added
    <2> QED
        BY <2>1, <2>2
<1>2. Without(recov, "set_call_timeout")[Len(recov)] \in Seq(S)
    BY WithoutThins
<1> QED
    BY <1>1, <1>2 DEF Recorded

(* The steps in a method; they leave the queues and the client alone.       *)
Inside ==
    \/ CallPts \/ Record \/ StopPts \/ CleanupCaches
    \/ Recover \/ RestartPts \/ StartPts \/ StartFails \/ ReplayItem \/ Recovered
    \/ Reopen \/ RunTestCase \/ GetTestCaseStatus \/ RevertItem \/ Reverted \/ StopTestCase

LEMMA Steps ==
    [Next]_vars => \/ \E c \in Calls : Dispatch(c)
                   \/ GetReply \/ GetResult \/ Abandon
                   \/ Handle \/ Reply \/ ThreadEnds \/ Inside \/ Superguard
                   \/ UNCHANGED vars
BY DEF Next, Thread, Client, Inside

LEMMA InsideFrame ==
    ASSUME Inside
    PROVE  UNCHANGED <<client, requests, replies, cur, killer, timer>>
<1>1. CASE CallPts \/ Record \/ StopPts \/ CleanupCaches
    BY <1>1 DEF CallPts, Record, StopPts, CleanupCaches
<1>2. CASE Recover \/ RestartPts \/ StartPts \/ StartFails
    BY <1>2 DEF Recover, RestartPts, StartPts, StartFails
<1>3. CASE ReplayItem \/ Recovered \/ Reopen \/ RunTestCase
    BY <1>3 DEF ReplayItem, Recovered, Reopen, RunTestCase
<1>4. CASE GetTestCaseStatus \/ RevertItem \/ Reverted \/ StopTestCase
    BY <1>4 DEF GetTestCaseStatus, RevertItem, Reverted, StopTestCase
<1> QED
    BY <1>1, <1>2, <1>3, <1>4 DEF Inside

LEMMA SuperguardFrame ==
    ASSUME Superguard
    PROVE  UNCHANGED <<client, requests, replies, thread, memory, end>>
BY DEF Superguard, Fire, CloseSender, KillPts

(* What the thread is in after a step of a method.                          *)
LEMMA InsidePlaces ==
    ASSUME TypeOK, Calling, Inside
    PROVE  /\ pc \notin {"idle", "ended", "reply"} /\ pc' \notin {"idle", "ended"}
           /\ end => end'
           /\ ThreadTypes' /\ InMethod' /\ (pc' = "start" => tries' < StartRetries /\ ~end')
<1> USE BoundAssumption, FalseIsBoolean DEF TypeOK, ThreadTypes, Calling, InMethod
<1>0. UNCHANGED <<cur, killer, timer>>
    BY InsideFrame
<1>1. CASE CallPts
    BY <1>1 DEF CallPts
<1>2. CASE Record
    BY <1>2 DEF Record, At
<1>3. CASE StopPts
    BY <1>3 DEF StopPts, At
<1>4. CASE CleanupCaches
    BY <1>4 DEF CleanupCaches, At
<1>5. CASE Recover
    BY <1>5 DEF Recover, At
<1>6. CASE RestartPts
    BY <1>6 DEF RestartPts, Restarted
<1>7. CASE StartPts
    BY <1>7 DEF StartPts, At, Restarted
<1>8. CASE StartFails
    <2>1. tries' \in 0 .. StartRetries /\ end' \in BOOLEAN /\ (~end' => tries' < StartRetries) /\ ~end
        BY <1>8 DEF StartFails
    <2>2. pc' \in {"reply", "replay", "start"} /\ (pc' = "start" => ~end')
          /\ (pc' = "replay" => cur.call.m # "restart_pts") /\ UNCHANGED index
        BY <1>8 DEF StartFails, Restarted
    <2>3. pc = "start"
        BY <1>8 DEF StartFails
    <2> QED
        BY <1>0, <2>1, <2>2, <2>3
<1>9. CASE ReplayItem
    <2>1. index' \in Nat \ {0} /\ pc' \in {"replay", "reply"} /\ pc = "replay" /\ UNCHANGED <<tries, end>>
        BY <1>9 DEF ReplayItem
    <2> QED
        BY <1>0, <2>1
<1>10. CASE Recovered
    BY <1>10 DEF Recovered, At
<1>11. CASE Reopen
    BY <1>11 DEF Reopen
<1>12. CASE RunTestCase
    BY <1>12 DEF RunTestCase
<1>13. CASE GetTestCaseStatus
    BY <1>13 DEF GetTestCaseStatus
<1>14. CASE RevertItem
    <2>1. index' \in Nat \ {0} /\ pc' \in {"revert", "except"} /\ pc = "revert" /\ UNCHANGED <<tries, end>>
        BY <1>14 DEF RevertItem
    <2> QED
        BY <1>0, <2>1
<1>15. CASE Reverted
    BY <1>15 DEF Reverted, At
<1>16. CASE StopTestCase
    BY <1>16 DEF StopTestCase, At
<1> QED
    BY <1>1, <1>2, <1>3, <1>4, <1>5, <1>6, <1>7, <1>8, <1>9, <1>10, <1>11, <1>12, <1>13, <1>14,
       <1>15, <1>16 DEF Inside

LEMMA ClientTypesStep ==
    ASSUME TypeOK, Calling, [Next]_vars
    PROVE  ClientTypes'
<1> USE BoundAssumption, FalseIsBoolean
<1>0. TypeOK => ClientTypes
    BY DEF TypeOK
<1>1. ASSUME NEW c \in Calls, Dispatch(c)
      PROVE  ClientTypes'
    <2> DEFINE number == IF c.m \notin Nonblocking THEN called.blocking + 1 ELSE called.others + 1
               call == [call |-> c, number |-> number]
    <2>1. /\ called \in [blocking : 0 .. MaxCalls, others : 0 .. MaxCalls]
          /\ called.blocking + called.others < MaxCalls
        BY <1>0, <1>1 DEF ClientTypes, Dispatch
    <2>2. number \in 1 .. MaxCalls
        BY <2>1
    <2>3. called' \in [blocking : 0 .. MaxCalls, others : 0 .. MaxCalls]
        BY <1>1, <2>1 DEF Dispatch
    <2>4. call \in Request
        BY <2>2 DEF Request
    <2>5. requests' = Append(requests, call)
        BY <1>1 DEF Dispatch
    <2>6. caller' = [state |-> "waits", blocking |-> c.m \notin Nonblocking, number |-> number, m |-> c.m]
        BY <1>1 DEF Dispatch
    <2> HIDE DEF number, call
    <2>7. requests' \in Seq(Request)
        BY <1>0, <2>4, <2>5, AppendProperties DEF ClientTypes
    <2>8. caller' \in [state : {"idle", "waits"}, blocking : BOOLEAN, number : 0 .. MaxCalls,
                       m : {d.m : d \in Calls}]
        <3>1. (c.m \notin Nonblocking) \in BOOLEAN /\ c.m \in {d.m : d \in Calls}
            OBVIOUS
        <3> QED
            BY <2>2, <2>6, <3>1
    <2>9. results' \in [Nonblocking -> 0 .. TimedOut]
        <3>1. [m \in Nonblocking |-> 0] \in [Nonblocking -> 0 .. TimedOut]
            BY DEF TimedOut
        <3> QED
            BY <1>0, <1>1, <3>1 DEF ClientTypes, Dispatch
    <2>10. got' \in 0 .. TimedOut /\ UNCHANGED <<replies, left, gaveUp, lost>>
        BY <1>1 DEF Dispatch, TimedOut
    <2> QED
        BY <1>0, <2>3, <2>7, <2>8, <2>9, <2>10 DEF ClientTypes
<1>2. CASE GetReply
    <2>1. got' \in 0 .. TimedOut /\ replies' \in Seq(1 .. MaxCalls)
        <3>1. CASE replies # <<>> /\ got' = Head(replies) /\ replies' = Tail(replies)
            <4>1. Head(replies) \in 1 .. MaxCalls /\ Tail(replies) \in Seq(1 .. MaxCalls)
                BY <1>0, <3>1, HeadTailProperties DEF ClientTypes
            <4> QED
                BY <3>1, <4>1 DEF TimedOut
        <3>2. CASE UNCHANGED <<got, replies>>
            BY <1>0, <3>2 DEF ClientTypes
        <3> QED
            BY <1>2, <3>1, <3>2 DEF GetReply
    <2>2. caller' = [caller EXCEPT !.state = "idle"] /\ UNCHANGED <<called, requests, results, left, gaveUp, lost>>
        BY <1>2 DEF GetReply
    <2> QED
        BY <1>0, <2>1, <2>2 DEF ClientTypes
<1>3. CASE GetResult
    <2>1. caller.m \in Nonblocking
        BY <1>3 DEF GetResult, Calling
    <2>2. got' \in 0 .. TimedOut /\ results' \in [Nonblocking -> 0 .. TimedOut]
        BY <1>0, <1>3, <2>1 DEF ClientTypes, GetResult, TimedOut
    <2>3. caller' = [caller EXCEPT !.state = "idle"] /\ UNCHANGED <<called, requests, replies, left, gaveUp, lost>>
        BY <1>3 DEF GetResult
    <2> QED
        BY <1>0, <2>2, <2>3 DEF ClientTypes
<1>4. CASE Abandon
    <2>1. left' \in 0 .. MaxAbandons /\ gaveUp' \in 0 .. MaxAbandons
        BY <1>0, <1>4 DEF ClientTypes, Abandon
    <2>2. results' \in [Nonblocking -> 0 .. TimedOut]
        <3>1. CASE UNCHANGED results
            BY <1>0, <3>1 DEF ClientTypes
        <3>2. CASE results' = [results EXCEPT ![caller.m] = IF @ = 0 THEN TimedOut ELSE @]
            <4>1. TimedOut \in 0 .. TimedOut
                BY DEF TimedOut
            <4> QED
                BY <1>0, <3>2, <4>1 DEF ClientTypes
        <3> QED
            BY <1>4, <3>1, <3>2 DEF Abandon
    <2>3. caller' = [caller EXCEPT !.state = "idle"] /\ UNCHANGED <<called, requests, replies, got, lost>>
        BY <1>4 DEF Abandon
    <2> QED
        BY <1>0, <2>1, <2>2, <2>3 DEF ClientTypes
<1>5. CASE Handle
    <2>1. requests' \in Seq(Request)
        BY <1>0, <1>5, HeadTailProperties DEF ClientTypes, Handle
    <2> QED
        BY <1>0, <1>5, <2>1 DEF ClientTypes, Handle
<1>6. CASE Reply
    <2>1. cur \in Request
        BY <1>6 DEF TypeOK, ThreadTypes, Calling, Busy, Reply
    <2>2. cur.number \in 1 .. MaxCalls /\ cur.number \in 0 .. TimedOut
        BY <2>1 DEF Request, TimedOut
    <2>3. results' \in [Nonblocking -> 0 .. TimedOut]
        <3>1. CASE cur.call.m \in Nonblocking
            BY <1>0, <1>6, <2>2, <3>1 DEF ClientTypes, Reply
        <3>2. CASE cur.call.m \notin Nonblocking
            BY <1>0, <1>6, <3>2 DEF ClientTypes, Reply
        <3> QED
            BY <3>1, <3>2
    <2>4. replies' \in Seq(1 .. MaxCalls)
        <3>1. Append(replies, cur.number) \in Seq(1 .. MaxCalls)
            BY <1>0, <2>2, AppendProperties DEF ClientTypes
        <3> QED
            BY <1>0, <1>6, <3>1 DEF ClientTypes, Reply
    <2>5. UNCHANGED <<caller, called, got, left, gaveUp, requests>>
        BY <1>6 DEF Reply
    <2>6. lost' \in 0 .. MaxCalls
        BY <1>0, <1>6, <2>2 DEF ClientTypes, Reply
    <2> QED
        BY <1>0, <2>3, <2>4, <2>5, <2>6 DEF ClientTypes
<1>7. CASE ThreadEnds
    BY <1>0, <1>7 DEF ClientTypes, ThreadEnds
<1>8. CASE Inside \/ Superguard \/ UNCHANGED vars
    BY <1>0, <1>8, InsideFrame, SuperguardFrame DEF ClientTypes
<1> QED
    BY <1>1, <1>2, <1>3, <1>4, <1>5, <1>6, <1>7, <1>8, Steps

LEMMA ServerTypesInside ==
    ASSUME TypeOK, Calling, Inside
    PROVE  PtsTypes' /\ MemoryTypes'
<1> USE BoundAssumption, FalseIsBoolean
<1>0. /\ PtsTypes /\ MemoryTypes /\ InMethod
      /\ pts \in PtsType /\ (~pts.up => ~pts.open /\ pts.value = Defaults)
    BY DEF TypeOK, Calling, PtsTypes, PtsType
<1>1. CASE CallPts
    <2>1. CASE Accepts(cur.call)
        <3>1. cur.call \in SettingCalls \cup {OpenWorkspace}
            BY <1>0, <1>1 DEF CallPts, InMethod
        <3>2. pts' \in PtsType /\ pts'.up /\ wanted' \in [Names -> Values \cup Timeouts \cup {Default, Unset}]
            BY <1>1, <2>1, <3>1, EffectTypes DEF CallPts
        <3> QED
            BY <1>0, <1>1, <3>2 DEF PtsTypes, MemoryTypes, PtsType, CallPts
    <2>2. CASE ~Accepts(cur.call)
        BY <1>0, <1>1, <2>2 DEF PtsTypes, MemoryTypes, CallPts
    <2> QED
        BY <2>1, <2>2
<1>2. CASE Record
    <2>1. cur.call \in SettingCalls \cup {OpenWorkspace}
        BY <1>0, <1>2 DEF Record, At, InMethod
    <2>2. recov' \in Seq(Recordable)
        <3>1. CASE cur.call.m = "update_pixit_param"
            BY <1>0, <1>2, <3>1, CallTypes DEF MemoryTypes, Record, Recorded
        <3>2. CASE cur.call.m # "update_pixit_param"
            <4>1. cur.call \in Recordable
                BY <2>1, <3>2 DEF Recordable
            <4> QED
                BY <1>0, <1>2, <4>1, RecordTypes DEF MemoryTypes, Record
        <3> QED
            BY <3>1, <3>2
    <2>3. temp' \in Seq(Pixits)
        <3>1. CASE cur.call.m = "update_pixit_param"
            <4>1. cur.call.key \in Pixits
                BY <2>1, <3>1, CallTypes
            <4>2. Append(temp, cur.call.key) \in Seq(Pixits)
                BY <1>0, <4>1, AppendProperties DEF MemoryTypes
            <4> QED
                BY <1>0, <1>2, <4>2 DEF MemoryTypes, Record
        <3>2. CASE cur.call.m # "update_pixit_param"
            BY <1>0, <1>2, <3>2 DEF MemoryTypes, Record
        <3> QED
            BY <3>1, <3>2
    <2> QED
        BY <1>0, <1>2, <2>2, <2>3 DEF PtsTypes, MemoryTypes, Record
<1>3. CASE StopPts \/ StartFails
    BY <1>0, <1>3, NewPts DEF PtsTypes, PtsType, MemoryTypes, StopPts, StartFails
<1>4. CASE CleanupCaches
    BY <1>0, <1>4 DEF PtsTypes, MemoryTypes, CleanupCaches
<1>5. CASE Recover \/ Recovered \/ RunTestCase \/ GetTestCaseStatus
    BY <1>0, <1>5 DEF PtsTypes, MemoryTypes, Recover, Recovered, RunTestCase, GetTestCaseStatus
<1>6. CASE RestartPts
    BY <1>0, <1>6, NewPts DEF PtsTypes, PtsType, MemoryTypes, RestartPts
<1>7. CASE StartPts
    BY <1>0, <1>7, NewPts DEF PtsTypes, PtsType, MemoryTypes, StartPts
<1>8. CASE ReplayItem
    <2>1. index \in DOMAIN recov
        BY <1>0, <1>8 DEF TypeOK, ThreadTypes, MemoryTypes, ReplayItem
    <2>2. recov[index] \in SettingCalls \cup {OpenWorkspace}
        BY <1>0, <2>1 DEF MemoryTypes, Recordable
    <2>3. Accepts(recov[index]) => Effect(recov[index]) \in PtsType /\ Effect(recov[index]).up
        BY <2>2, EffectTypes
    <2>4. pts' \in PtsType /\ (~pts'.up => ~pts'.open /\ pts'.value = Defaults)
        BY <1>0, <1>8, <2>3 DEF ReplayItem
    <2> QED
        BY <1>0, <1>8, <2>4 DEF PtsTypes, PtsType, MemoryTypes, ReplayItem
<1>9. CASE Reopen
    <2>1. pts' = pts \/ pts' = [pts EXCEPT !.sender = "open"]
        BY <1>9 DEF Reopen
    <2>2. pts' \in PtsType /\ (~pts'.up => ~pts'.open /\ pts'.value = Defaults)
        BY <1>0, <2>1 DEF PtsType
    <2> QED
        BY <1>0, <1>9, <2>2 DEF PtsTypes, PtsType, MemoryTypes, Reopen
<1>10. CASE RevertItem
    <2> DEFINE items == SetAt(temp[index])
    <2>1. items # {} => recov[Min(items)] \in SettingCalls \cup {OpenWorkspace}
        <3>1. items \subseteq DOMAIN recov /\ DOMAIN recov \subseteq Nat
            BY <1>0 DEF SetAt, MemoryTypes
        <3>2. items # {} => Min(items) \in DOMAIN recov
            BY <3>1, LeastNatural
        <3> QED
            BY <1>0, <3>2 DEF MemoryTypes, Recordable
    <2>2. pts' = pts \/ (items # {} /\ Accepts(recov[Min(items)]) /\ pts' = Effect(recov[Min(items)]))
        BY <1>10 DEF RevertItem
    <2> HIDE DEF items
    <2>3. pts' \in PtsType /\ (~pts'.up => ~pts'.open /\ pts'.value = Defaults)
        BY <1>0, <2>1, <2>2, EffectTypes
    <2> QED
        BY <1>0, <1>10, <2>3 DEF PtsTypes, PtsType, MemoryTypes, RevertItem
<1>11. CASE Reverted
    BY <1>0, <1>11 DEF PtsTypes, MemoryTypes, Reverted
<1>12. CASE StopTestCase
    <2>1. pts' = pts \/ pts' = [pts EXCEPT !.sender = "closed"]
        BY <1>12 DEF StopTestCase
    <2>2. pts' \in PtsType /\ (~pts'.up => ~pts'.open /\ pts'.value = Defaults)
        BY <1>0, <2>1 DEF PtsType
    <2> QED
        BY <1>0, <1>12, <2>2 DEF PtsTypes, PtsType, MemoryTypes, StopTestCase
<1> QED
    BY <1>1, <1>2, <1>3, <1>4, <1>5, <1>6, <1>7, <1>8, <1>9, <1>10, <1>11, <1>12 DEF Inside

LEMMA TypeStep ==
    ASSUME TypeOK, Calling, [Next]_vars
    PROVE  TypeOK'
<1> USE FalseIsBoolean
<1>0. ClientTypes' /\ ThreadTypes /\ PtsTypes /\ MemoryTypes
    BY ClientTypesStep DEF TypeOK
<1>1. ASSUME NEW c \in Calls, Dispatch(c)
      PROVE  TypeOK'
    BY <1>0, <1>1 DEF TypeOK, ThreadTypes, PtsTypes, MemoryTypes, Dispatch
<1>2. CASE GetReply \/ GetResult \/ Abandon \/ UNCHANGED vars
    BY <1>0, <1>2 DEF TypeOK, ThreadTypes, PtsTypes, MemoryTypes, GetReply, GetResult, Abandon
<1>3. CASE Handle
    <2>1. cur' \in Request
        BY <1>3, HeadTailProperties DEF TypeOK, ClientTypes, Handle
    <2>2. pc' \in {"stop", "clean", "restart", "recover", "reopen", "call"}
        BY <1>3 DEF Handle, Entry
    <2>3. timer' \in {"none", "off", "armed"}
        BY <1>3 DEF TypeOK, ThreadTypes, Handle
    <2> QED
        BY <1>0, <1>3, <2>1, <2>2, <2>3 DEF TypeOK, ThreadTypes, PtsTypes, MemoryTypes, Handle
<1>4. CASE Reply
    <2>1. ThreadTypes'
        BY <1>0, <1>4, BoundAssumption DEF ThreadTypes, Reply, Rest, TimerCancelled
    <2> QED
        BY <1>0, <1>4, <2>1 DEF TypeOK, PtsTypes, MemoryTypes, Reply
<1>5. CASE ThreadEnds
    BY <1>0, <1>5, NewPts DEF TypeOK, ThreadTypes, PtsTypes, PtsType, MemoryTypes, ThreadEnds
<1>6. CASE Inside
    BY <1>0, <1>6, InsidePlaces, ServerTypesInside DEF TypeOK
<1>7. CASE Fire
    BY <1>0, <1>7 DEF TypeOK, ThreadTypes, PtsTypes, MemoryTypes, Fire
<1>8. CASE CloseSender
    <2>1. PtsTypes'
        BY <1>0, <1>8 DEF PtsTypes, CloseSender
    <2> QED
        BY <1>0, <1>8, <2>1 DEF TypeOK, ThreadTypes, MemoryTypes, CloseSender
<1>9. CASE KillPts
    <2>1. PtsTypes'
        BY <1>9, NewPts DEF PtsTypes, PtsType, KillPts
    <2> QED
        BY <1>0, <1>9, <2>1 DEF TypeOK, ThreadTypes, MemoryTypes, KillPts
<1> QED
    BY <1>1, <1>2, <1>3, <1>4, <1>5, <1>6, <1>7, <1>8, <1>9, Steps DEF Superguard

-----------------------------------------------------------------------------
(* Replies.                                                                 *)

(* A request that is handled was the first of the queue.                    *)
LEMMA Handled ==
    ASSUME TypeOK, Handle
    PROVE  /\ requests # <<>> /\ Len(requests) \in Nat \ {0} /\ 1 \in DOMAIN requests
           /\ cur' = requests[1] /\ cur' \in Request /\ cur' # NoRequest
           /\ requests' \in Seq(Request) /\ Len(requests') = Len(requests) - 1
           /\ \A i \in DOMAIN requests' :
                  /\ i + 1 \in DOMAIN requests /\ requests'[i] = requests[i + 1]
                  /\ i + 1 # 1
           /\ \A i \in DOMAIN requests : i # 1 => i - 1 \in DOMAIN requests' /\ (i - 1) + 1 = i
           /\ pc = "idle" /\ ~end /\ UNCHANGED <<client, replies, end>>
<1>1. requests \in Seq(Request) /\ requests # <<>> /\ cur' = Head(requests) /\ requests' = Tail(requests)
    BY DEF TypeOK, ClientTypes, Handle
<1>2. /\ Head(requests) = requests[1] /\ Tail(requests) \in Seq(Request)
      /\ Len(Tail(requests)) = Len(requests) - 1
      /\ \A i \in 1 .. Len(Tail(requests)) : Tail(requests)[i] = requests[i + 1]
      /\ Head(requests) \in Request
    BY <1>1, HeadTailProperties
<1>3. Len(requests) \in Nat \ {0} /\ DOMAIN requests = 1 .. Len(requests)
    BY <1>1, EmptySeq
<1>4. DOMAIN requests' = 1 .. Len(requests) - 1
    BY <1>1, <1>2
<1>5. cur' # NoRequest
    BY <1>1, <1>2 DEF Request, NoRequest
<1>6. /\ \A i \in DOMAIN requests' : i + 1 \in DOMAIN requests /\ i + 1 # 1
      /\ \A i \in DOMAIN requests : i # 1 => i - 1 \in DOMAIN requests' /\ (i - 1) + 1 = i
    BY <1>3, <1>4
<1>7. pc = "idle" /\ ~end /\ UNCHANGED <<client, replies, end>>
    BY DEF Handle
<1> QED
    BY <1>1, <1>2, <1>3, <1>4, <1>5, <1>6, <1>7

(* A request of the client is the last of the queue.                        *)
LEMMA Dispatched ==
    ASSUME TypeOK, NEW c \in Calls, Dispatch(c)
    PROVE  /\ Len(requests) \in Nat /\ DOMAIN requests = 1 .. Len(requests)
           /\ Len(requests') = Len(requests) + 1 /\ DOMAIN requests' = 1 .. Len(requests) + 1
           /\ \A i \in DOMAIN requests : i \in DOMAIN requests' /\ requests'[i] = requests[i]
           /\ Len(requests) + 1 \in DOMAIN requests'
           /\ requests'[Len(requests) + 1].call = c
           /\ requests'[Len(requests) + 1].number =
                  IF c.m \notin Nonblocking THEN called.blocking + 1 ELSE called.others + 1
           /\ \A i \in DOMAIN requests' : i \in DOMAIN requests \/ i = Len(requests) + 1
           /\ called' = IF c.m \notin Nonblocking THEN [called EXCEPT !.blocking = @ + 1]
                                                  ELSE [called EXCEPT !.others = @ + 1]
           /\ called \in [blocking : Nat, others : Nat]
           /\ caller.state = "idle" /\ ~end /\ got' = 0
           /\ caller'.state = "waits" /\ caller'.blocking = (c.m \notin Nonblocking) /\ caller'.m = c.m
           /\ caller'.number = IF c.m \notin Nonblocking THEN called.blocking + 1 ELSE called.others + 1
           /\ c.m = "restart_pts" <=> caller.m = "cleanup_caches"
           /\ UNCHANGED <<replies, left, gaveUp, thread, pts, memory, end>>
<1> DEFINE n == IF c.m \notin Nonblocking THEN called.blocking + 1 ELSE called.others + 1
           call == [call |-> c, number |-> n]
<1>1. requests' = Append(requests, call)
    BY DEF Dispatch
<1>2. caller' = [state |-> "waits", blocking |-> c.m \notin Nonblocking, number |-> n, m |-> c.m]
    BY DEF Dispatch
<1>3. call.call = c /\ call.number = n
    OBVIOUS
<1>4. /\ caller'.state = "waits" /\ caller'.blocking = (c.m \notin Nonblocking) /\ caller'.m = c.m
      /\ caller'.number = n
    BY <1>2
<1>5. called \in [blocking : Nat, others : Nat] /\ requests \in Seq(Request)
    BY BoundAssumption DEF TypeOK, ClientTypes
<1>6. n \in 1 .. MaxCalls
    <2>1. /\ called \in [blocking : 0 .. MaxCalls, others : 0 .. MaxCalls]
          /\ called.blocking + called.others < MaxCalls
        BY DEF TypeOK, ClientTypes, Dispatch
    <2> QED
        BY <2>1, BoundAssumption
<1> HIDE DEF call, n
<1>7. call \in Request
    BY <1>6 DEF call, Request
<1>8. /\ Len(requests') = Len(requests) + 1 /\ requests' \in Seq(Request)
      /\ \A i \in 1 .. Len(requests) : requests'[i] = requests[i]
      /\ requests'[Len(requests) + 1] = call
    BY <1>1, <1>5, <1>7, AppendProperties
<1>9. /\ Len(requests) \in Nat /\ DOMAIN requests = 1 .. Len(requests)
      /\ DOMAIN requests' = 1 .. Len(requests) + 1
    BY <1>5, <1>8
<1>10. /\ \A i \in DOMAIN requests : i \in DOMAIN requests'
       /\ Len(requests) + 1 \in DOMAIN requests'
       /\ \A i \in DOMAIN requests' : i \in DOMAIN requests \/ i = Len(requests) + 1
    BY <1>9
<1>11. /\ caller.state = "idle" /\ ~end /\ got' = 0
       /\ called' = IF c.m \notin Nonblocking THEN [called EXCEPT !.blocking = @ + 1]
                                              ELSE [called EXCEPT !.others = @ + 1]
       /\ c.m = "restart_pts" <=> caller.m = "cleanup_caches"
       /\ UNCHANGED <<replies, left, gaveUp, thread, pts, memory, end>>
    BY DEF Dispatch
<1> QED
    BY <1>3, <1>4, <1>5, <1>8, <1>9, <1>10, <1>11 DEF n

LEMMA CallingStep ==
    ASSUME TypeOK, Calling, [Next]_vars
    PROVE  Calling'
<1>1. ASSUME NEW c \in Calls, Dispatch(c)
      PROVE  Calling'
    <2>1. InMethod' /\ (Busy' <=> pc' \notin {"idle", "ended"}) /\ (pc' = "start" => tries' < StartRetries /\ ~end')
        BY <1>1, Dispatched DEF Calling, InMethod, Busy
    <2> QED
        BY <1>1, <2>1, Dispatched DEF Calling
<1>2. CASE GetReply \/ GetResult \/ Abandon \/ UNCHANGED vars
    <2>1. /\ UNCHANGED <<thread, called, end>>
          /\ UNCHANGED <<caller, got>> \/ caller' = [caller EXCEPT !.state = "idle"]
        BY <1>2 DEF GetReply, GetResult, Abandon
    <2>2. InMethod' /\ (Busy' <=> pc' \notin {"idle", "ended"}) /\ (pc' = "start" => tries' < StartRetries /\ ~end')
        BY <2>1 DEF Calling, InMethod, Busy
    <2> QED
        BY <2>1, <2>2 DEF TypeOK, ClientTypes, Calling
<1>3. CASE Handle
    <2>1. pc' = Entry(cur'.call.m) /\ cur' \in Request /\ Busy' /\ UNCHANGED client
        BY <1>3, Handled DEF Handle, Busy
    <2>2. InMethod' /\ pc' \notin {"idle", "ended", "start"}
        BY <2>1, CallTypes DEF InMethod, Entry, Request, Nonblocking
    <2> QED
        BY <2>1, <2>2 DEF Calling
<1>4. CASE Reply \/ ThreadEnds
    BY <1>4 DEF Calling, InMethod, Busy, Reply, Rest, ThreadEnds
<1>5. CASE Inside
    BY <1>5, InsideFrame, InsidePlaces DEF Calling, Busy
<1>6. CASE Superguard
    BY <1>6, SuperguardFrame DEF Calling, InMethod, Busy
<1> QED
    BY <1>1, <1>2, <1>3, <1>4, <1>5, <1>6, Steps

(* The first blocking request has the number of the reply to come.          *)
LEMMA NextInTurn ==
    ASSUME TypeOK, Calling, InTurn, Handle, Blocks(cur')
    PROVE  cur'.number = Made + 1 /\ Made + 1 <= called.blocking
<1>1. ~Busy /\ ~end
    BY Handled DEF Calling
<1>2. /\ \A i \in DOMAIN requests : Blocks(requests[i]) =>
             requests[i].number \in Made + 1 .. called.blocking
      /\ \A i, j \in DOMAIN requests :
             i < j /\ Blocks(requests[i]) /\ Blocks(requests[j]) =>
                 requests[i].number < requests[j].number
      /\ \A n \in Made + 1 .. called.blocking : \E i \in DOMAIN requests :
             Blocks(requests[i]) /\ requests[i].number = n
    BY <1>1 DEF InTurn
<1>3. /\ cur' = requests[1] /\ 1 \in DOMAIN requests /\ Blocks(requests[1])
      /\ \A i \in DOMAIN requests : i # 1 => 1 < i
    BY Handled DEF TypeOK, ClientTypes
<1>4. Made \in Int /\ called.blocking \in Int
    BY BoundAssumption DEF TypeOK, ClientTypes, Made, Taken
<1>5. requests[1].number \in Made + 1 .. called.blocking
    BY <1>2, <1>3
<1>6. Made + 1 \in Made + 1 .. called.blocking
    BY <1>4, <1>5
<1>7. PICK i \in DOMAIN requests : Blocks(requests[i]) /\ requests[i].number = Made + 1
    BY <1>2, <1>6
<1>8. i = 1
    <2>1. ASSUME i # 1 PROVE FALSE
        <3>1. requests[1].number < requests[i].number
            BY <1>2, <1>3, <1>7, <2>1
        <3> QED
            BY <1>4, <1>5, <1>7, <3>1
    <2> QED
        BY <2>1
<1> QED
    BY <1>3, <1>4, <1>6, <1>7, <1>8

LEMMA InTurnStep ==
    ASSUME TypeOK, Calling, InTurn, [Next]_vars
    PROVE  InTurn'
<1> USE BoundAssumption
<1>0. /\ called \in [blocking : Nat, others : Nat] /\ left \in Nat
      /\ replies \in Seq(1 .. MaxCalls) /\ Len(replies) \in Nat /\ DOMAIN replies = 1 .. Len(replies)
      /\ requests \in Seq(Request)
      /\ Taken \in Int /\ Made \in Int
    BY DEF TypeOK, ClientTypes, Taken, Made
<1>1. ASSUME NEW c \in Calls, Dispatch(c)
      PROVE  InTurn'
    <2>1. ~end /\ caller.state = "idle" /\ UNCHANGED <<replies, left, cur>>
        BY <1>1, Dispatched
    <2>2. Taken' = Taken /\ Made' = Made
        <3>1. CASE c.m \notin Nonblocking
            <4>1. called'.blocking = called.blocking + 1 /\ caller'.state = "waits" /\ caller'.blocking
                BY <1>1, <3>1, Dispatched
            <4>2. Taken' = Taken
                BY <1>0, <2>1, <4>1 DEF Taken
            <4> QED
                BY <2>1, <4>2 DEF Made, Busy, Blocks
        <3>2. CASE c.m \in Nonblocking
            <4>1. called'.blocking = called.blocking /\ ~caller'.blocking
                BY <1>1, <3>2, Dispatched
            <4> QED
                BY <1>0, <2>1, <4>1 DEF Taken, Made, Busy
        <3> QED
            BY <3>1, <3>2
    <2>3. /\ \A i \in DOMAIN replies : replies[i] = Taken + i
          /\ Busy /\ Blocks(cur) => cur.number = Made
          /\ Made <= called.blocking
          /\ \A i \in DOMAIN requests : Blocks(requests[i]) =>
                 requests[i].number \in Made + 1 .. called.blocking
          /\ \A i, j \in DOMAIN requests :
                 i < j /\ Blocks(requests[i]) /\ Blocks(requests[j]) =>
                     requests[i].number < requests[j].number
          /\ \A n \in Made + 1 .. called.blocking : \E i \in DOMAIN requests :
                 Blocks(requests[i]) /\ requests[i].number = n
        BY <2>1 DEF InTurn
    <2> DEFINE last == Len(requests) + 1
    <2>4. /\ Len(requests) \in Nat /\ DOMAIN requests = 1 .. Len(requests)
          /\ DOMAIN requests' = 1 .. Len(requests) + 1
          /\ \A i \in DOMAIN requests : i \in DOMAIN requests' /\ requests'[i] = requests[i]
          /\ last \in DOMAIN requests'
          /\ \A i \in DOMAIN requests' : i \in DOMAIN requests \/ i = last
          /\ requests'[last].call = c
        BY <1>1, Dispatched
    <2>5. Blocks(requests'[last]) =>
              requests'[last].number = called.blocking + 1 /\ called'.blocking = called.blocking + 1
        BY <1>1, <2>4, Dispatched DEF Blocks
    <2>6. ~Blocks(requests'[last]) => called'.blocking = called.blocking
        BY <1>1, <2>4, Dispatched DEF Blocks
    <2>7. called'.blocking \in Nat /\ called.blocking <= called'.blocking
        BY <1>0, <2>5, <2>6
    <2>8. \A i \in DOMAIN requests : i < last /\ last # i
        BY <2>4
    <2> HIDE DEF last
    <2>9. \A i \in DOMAIN requests' : Blocks(requests'[i]) =>
              requests'[i].number \in Made + 1 .. called'.blocking
        <3>1. ASSUME NEW i \in DOMAIN requests, Blocks(requests[i])
              PROVE  requests[i].number \in Made + 1 .. called'.blocking
            <4>1. requests[i].number \in Made + 1 .. called.blocking
                BY <2>3, <3>1
            <4> QED
                BY <1>0, <2>7, <4>1
        <3>2. Blocks(requests'[last]) => requests'[last].number \in Made + 1 .. called'.blocking
            BY <1>0, <2>3, <2>5
        <3> QED
            BY <2>4, <3>1, <3>2
    <2>10. \A i, j \in DOMAIN requests' :
               i < j /\ Blocks(requests'[i]) /\ Blocks(requests'[j]) =>
                   requests'[i].number < requests'[j].number
        <3> SUFFICES ASSUME NEW i \in DOMAIN requests', NEW j \in DOMAIN requests', i < j,
                            Blocks(requests'[i]), Blocks(requests'[j])
                     PROVE  requests'[i].number < requests'[j].number
            OBVIOUS
        <3>1. i \in DOMAIN requests
            BY <2>4 DEF last
        <3>2. CASE j \in DOMAIN requests
            BY <2>3, <2>4, <3>1, <3>2
        <3>3. CASE j = last
            <4>1. requests[i].number \in Made + 1 .. called.blocking /\ requests'[i] = requests[i]
                BY <2>3, <2>4, <3>1
            <4> QED
                BY <1>0, <2>5, <3>3, <4>1
        <3> QED
            BY <2>4, <3>2, <3>3
    <2>11. \A n \in Made + 1 .. called'.blocking : \E i \in DOMAIN requests' :
               Blocks(requests'[i]) /\ requests'[i].number = n
        <3> SUFFICES ASSUME NEW n \in Made + 1 .. called'.blocking
                     PROVE  \E i \in DOMAIN requests' : Blocks(requests'[i]) /\ requests'[i].number = n
            OBVIOUS
        <3>1. CASE n \in Made + 1 .. called.blocking
            <4>1. PICK i \in DOMAIN requests : Blocks(requests[i]) /\ requests[i].number = n
                BY <2>3, <3>1
            <4> QED
                BY <2>4, <4>1
        <3>2. CASE n \notin Made + 1 .. called.blocking
            <4>1. called'.blocking # called.blocking
                BY <3>2
            <4>2. Blocks(requests'[last]) /\ n = called.blocking + 1
                BY <1>0, <2>5, <2>6, <3>2, <4>1
            <4> QED
                BY <2>4, <2>5, <4>2
        <3> QED
            BY <3>1, <3>2
    <2>12. /\ \A i \in DOMAIN replies' : replies'[i] = Taken + i
           /\ Busy' /\ Blocks(cur') => cur'.number = Made
           /\ Made <= called'.blocking
        BY <1>0, <2>1, <2>3, <2>7 DEF Busy, Blocks
    <2> QED
        BY <2>2, <2>9, <2>10, <2>11, <2>12 DEF InTurn
<1>2. CASE GetReply
    <2>1. /\ caller.state = "waits" /\ caller.blocking /\ caller'.state = "idle"
          /\ UNCHANGED <<called, requests, left, cur, end>>
        BY <1>2 DEF TypeOK, ClientTypes, GetReply
    <2>2. CASE replies # <<>> /\ replies' = Tail(replies)
        <3>1. /\ Len(replies') = Len(replies) - 1 /\ DOMAIN replies' = 1 .. Len(replies) - 1
              /\ \A i \in 1 .. Len(replies) - 1 : replies'[i] = replies[i + 1]
              /\ Len(replies) # 0
            <4>1. /\ Tail(replies) \in Seq(1 .. MaxCalls) /\ Len(Tail(replies)) = Len(replies) - 1
                  /\ \A i \in 1 .. Len(Tail(replies)) : Tail(replies)[i] = replies[i + 1]
                BY <1>0, <2>2, HeadTailProperties
            <4>2. Len(replies) # 0
                BY <1>0, <2>2, EmptySeq
            <4>3. DOMAIN Tail(replies) = 1 .. Len(Tail(replies))
                BY <4>1
            <4> QED
                BY <2>2, <4>1, <4>2, <4>3
        <3>2. Taken' = Taken + 1
            BY <1>0, <2>1 DEF Taken
        <3>3. Made' = Made
            BY <1>0, <2>1, <3>1, <3>2 DEF Made, Busy, Blocks
        <3>4. \A i \in DOMAIN replies' : replies'[i] = Taken' + i
            <4>1. \A i \in 1 .. Len(replies) : replies[i] = Taken + i
                BY <1>0, <2>1 DEF InTurn
            <4>2. ASSUME NEW i \in DOMAIN replies'
                  PROVE  replies'[i] = Taken' + i
                <5>1. i + 1 \in 1 .. Len(replies) /\ i \in 1 .. Len(replies) - 1
                    BY <1>0, <3>1
                <5>2. replies'[i] = Taken + (i + 1)
                    BY <3>1, <4>1, <5>1
                <5> QED
                    BY <1>0, <3>2, <5>1, <5>2
            <4> QED
                BY <4>2
        <3> QED
            BY <2>1, <3>3, <3>4 DEF InTurn, Busy, Blocks
    <2>3. CASE replies = <<>> /\ end
        BY <2>1, <2>3 DEF InTurn
    <2> QED
        BY <1>2, <2>2, <2>3 DEF GetReply
<1>3. CASE GetResult \/ Abandon
    <2>1. /\ caller.state = "waits" /\ caller'.state = "idle" /\ caller'.blocking = caller.blocking
          /\ UNCHANGED <<called, requests, replies, cur, end>>
          /\ left' = IF caller.blocking THEN left + 1 ELSE left
        BY <1>3 DEF TypeOK, ClientTypes, GetResult, Abandon
    <2>2. Taken' = Taken
        BY <1>0, <2>1 DEF Taken
    <2>3. Made' = Made
        BY <2>1, <2>2 DEF Made, Busy, Blocks
    <2> QED
        BY <2>1, <2>2, <2>3 DEF InTurn, Busy, Blocks
<1>4. CASE Handle
    <2>1. /\ cur' = requests[1] /\ 1 \in DOMAIN requests /\ cur' # NoRequest
          /\ \A i \in DOMAIN requests' :
                 /\ i + 1 \in DOMAIN requests /\ requests'[i] = requests[i + 1]
                 /\ i + 1 # 1
          /\ \A i \in DOMAIN requests : i # 1 => i - 1 \in DOMAIN requests' /\ (i - 1) + 1 = i
          /\ ~Busy /\ ~end /\ UNCHANGED <<client, replies, end>>
          /\ DOMAIN requests \subseteq Nat /\ DOMAIN requests' \subseteq Nat
        BY <1>4, Handled, ClientTypesStep DEF Calling, ClientTypes
    <2>2. /\ \A i \in DOMAIN replies : replies[i] = Taken + i
          /\ Made <= called.blocking
          /\ \A i \in DOMAIN requests : Blocks(requests[i]) =>
                 requests[i].number \in Made + 1 .. called.blocking
          /\ \A i, j \in DOMAIN requests :
                 i < j /\ Blocks(requests[i]) /\ Blocks(requests[j]) =>
                     requests[i].number < requests[j].number
          /\ \A n \in Made + 1 .. called.blocking : \E i \in DOMAIN requests :
                 Blocks(requests[i]) /\ requests[i].number = n
        BY <2>1 DEF InTurn
    <2>3. Taken' = Taken /\ Made' = Made + (IF Blocks(cur') THEN 1 ELSE 0)
        BY <1>0, <2>1 DEF Taken, Made, Busy
    <2>4. Blocks(cur') => cur'.number = Made'
        BY <1>4, <2>3, NextInTurn
    <2>5. Made' <= called.blocking
        BY <1>0, <1>4, <2>2, <2>3, NextInTurn
    <2>6. \A i, j \in DOMAIN requests' :
              i < j /\ Blocks(requests'[i]) /\ Blocks(requests'[j]) =>
                  requests'[i].number < requests'[j].number
        <3> SUFFICES ASSUME NEW i \in DOMAIN requests', NEW j \in DOMAIN requests', i < j,
                            Blocks(requests'[i]), Blocks(requests'[j])
                     PROVE  requests'[i].number < requests'[j].number
            OBVIOUS
        <3>1. i + 1 < j + 1
            BY <2>1
        <3> QED
            BY <2>1, <2>2, <3>1
    <2>7. ASSUME NEW i \in DOMAIN requests', Blocks(requests'[i])
          PROVE  requests'[i].number \in Made' + 1 .. called.blocking
        <3>1. requests[i + 1].number \in Made + 1 .. called.blocking
            BY <2>1, <2>2, <2>7
        <3>2. CASE Blocks(cur')
            <4>1. cur'.number = Made + 1
                BY <1>4, <3>2, NextInTurn
            <4>2. 1 < i + 1
                BY <2>1
            <4>3. cur'.number < requests[i + 1].number
                BY <2>1, <2>2, <2>7, <3>2, <4>2
            <4>4. Made' = Made + 1 /\ requests'[i] = requests[i + 1]
                BY <2>1, <2>3, <3>2
            <4> QED
                BY <1>0, <3>1, <4>1, <4>3, <4>4
        <3>3. CASE ~Blocks(cur')
            <4>1. Made' = Made + 0 /\ requests'[i] = requests[i + 1]
                BY <2>1, <2>3, <3>3
            <4> QED
                BY <1>0, <3>1, <4>1
        <3> QED
            BY <3>2, <3>3
    <2>8. ASSUME NEW n \in Made' + 1 .. called.blocking
          PROVE  \E i \in DOMAIN requests' : Blocks(requests'[i]) /\ requests'[i].number = n
        <3>1. n \in Made + 1 .. called.blocking
            BY <1>0, <2>3
        <3>2. PICK i \in DOMAIN requests : Blocks(requests[i]) /\ requests[i].number = n
            BY <2>2, <3>1
        <3>3. i # 1
            <4>1. ASSUME i = 1 PROVE FALSE
                <5>1. Blocks(cur') /\ cur'.number = n
                    BY <2>1, <3>2, <4>1
                <5> QED
                    BY <1>0, <2>3, <2>4, <5>1
            <4> QED
                BY <4>1
        <3>4. requests'[i - 1] = requests[i] /\ i - 1 \in DOMAIN requests'
            BY <2>1, <3>3
        <3> QED
            BY <3>2, <3>4
    <2> QED
        BY <2>1, <2>2, <2>3, <2>4, <2>5, <2>6, <2>7, <2>8 DEF InTurn
<1>5. CASE Reply
    <2>1. /\ Busy /\ ~Busy' /\ UNCHANGED <<caller, called, left, requests, end>>
          /\ IF Blocks(cur) THEN replies' = Append(replies, cur.number) ELSE UNCHANGED replies
        BY <1>5 DEF Reply, Rest, Calling, Busy, Blocks
    <2>2. Taken' = Taken
        BY <2>1 DEF Taken
    <2>3. CASE Blocks(cur)
        <3>1. cur.number \in 1 .. MaxCalls
            BY <2>1 DEF TypeOK, ThreadTypes, Busy, Request
        <3>2. /\ Len(replies') = Len(replies) + 1 /\ DOMAIN replies' = 1 .. Len(replies) + 1
              /\ \A i \in 1 .. Len(replies) : replies'[i] = replies[i]
              /\ replies'[Len(replies) + 1] = cur.number
            BY <1>0, <2>1, <2>3, <3>1, AppendProperties
        <3>3. Made' = Made /\ Made = Taken + (Len(replies) + 1)
            <4>1. Made' = Taken' + Len(replies') + 0
                BY <2>1 DEF Made
            <4>2. Made = Taken + Len(replies) + 1
                BY <2>1, <2>3 DEF Made
            <4> QED
                BY <1>0, <2>2, <3>2, <4>1, <4>2
        <3>4. ~end \/ caller.state = "waits" =>
                  \A i \in DOMAIN replies' : replies'[i] = Taken + i
            <4> SUFFICES ASSUME ~end \/ caller.state = "waits", NEW i \in 1 .. Len(replies) + 1
                         PROVE  replies'[i] = Taken + i
                BY <3>2
            <4>1. cur.number = Made /\ \A k \in 1 .. Len(replies) : replies[k] = Taken + k
                BY <1>0, <2>1, <2>3 DEF InTurn
            <4>2. CASE i = Len(replies) + 1
                BY <3>2, <3>3, <4>1, <4>2
            <4>3. CASE i \in 1 .. Len(replies)
                BY <3>2, <4>1, <4>3
            <4> QED
                BY <1>0, <4>2, <4>3
        <3> QED
            BY <2>1, <2>2, <3>3, <3>4 DEF InTurn, Blocks
    <2>4. CASE ~Blocks(cur)
        <3>1. Made' = Made
            BY <1>0, <2>1, <2>2, <2>4 DEF Made
        <3> QED
            BY <2>1, <2>2, <2>4, <3>1 DEF InTurn, Blocks
    <2> QED
        BY <2>3, <2>4
<1>6. CASE ThreadEnds \/ Inside \/ Superguard \/ UNCHANGED vars
    <2>1. UNCHANGED <<caller, called, left, requests, replies, cur>> /\ (end => end')
        BY <1>6, InsideFrame, InsidePlaces, SuperguardFrame DEF ThreadEnds
    <2>2. Taken' = Taken /\ Made' = Made
        BY <2>1 DEF Taken, Made, Busy, Blocks
    <2> QED
        BY <2>1, <2>2 DEF InTurn, Busy, Blocks
<1> QED
    BY <1>1, <1>2, <1>3, <1>4, <1>5, <1>6, Steps

(* When the client is idle, or waits for a reply, there is no other call.   *)
LEMMA NoOther ==
    ASSUME Calling, OneOther, gaveUp = 0, caller.state # "waits" \/ caller.blocking
    PROVE  /\ \A m \in Nonblocking : results[m] = 0
           /\ Busy => Blocks(cur)
           /\ \A i \in DOMAIN requests : Blocks(requests[i])
BY DEF Calling, OneOther, Awaited, Blocks

LEMMA OneOtherStep ==
    ASSUME TypeOK, Calling, OneOther, [Next]_vars
    PROVE  OneOther'
<1>0. /\ gaveUp \in Nat /\ MaxCalls \in Nat /\ TimedOut \in Nat \ {0}
      /\ results \in [Nonblocking -> 0 .. TimedOut]
    BY BoundAssumption DEF TypeOK, ClientTypes, TimedOut
<1>1. ASSUME NEW c \in Calls, Dispatch(c)
      PROVE  OneOther'
    <2> SUFFICES ASSUME gaveUp = 0 PROVE OneOther'
        BY <1>1, Dispatched DEF OneOther
    <2>1. /\ \A m \in Nonblocking : results[m] = 0
          /\ Busy => Blocks(cur)
          /\ \A i \in DOMAIN requests : Blocks(requests[i])
        BY <1>1, Dispatched, NoOther
    <2>2. \A m \in Nonblocking : results'[m] = 0
        BY <1>1, <2>1 DEF Dispatch
    <2>3. Busy' => Blocks(cur')
        BY <1>1, <2>1, Dispatched DEF Busy, Blocks
    <2> DEFINE last == Len(requests) + 1
    <2>4. /\ \A i \in DOMAIN requests' : i \in DOMAIN requests \/ i = last
          /\ \A i \in DOMAIN requests : requests'[i] = requests[i]
          /\ requests'[last].call = c
          /\ caller'.state = "waits" /\ caller'.m = c.m /\ caller'.number = requests'[last].number
        BY <1>1, Dispatched
    <2> HIDE DEF last
    <2>5. \A i \in DOMAIN requests' : ~Blocks(requests'[i]) => i = last
        BY <2>1, <2>4 DEF Blocks
    <2>6. \A i \in DOMAIN requests' : ~Blocks(requests'[i]) =>
              /\ caller'.state = "waits" /\ caller'.m = requests'[i].call.m
              /\ caller'.number = requests'[i].number
        BY <2>4, <2>5
    <2>7. \A i, j \in DOMAIN requests' : ~Blocks(requests'[i]) /\ ~Blocks(requests'[j]) => i = j
        BY <2>5
    <2>8. Busy' /\ ~Blocks(cur') => FALSE
        BY <2>3
    <2> QED
        BY <2>2, <2>6, <2>7, <2>8 DEF OneOther, Blocks, Busy, Awaited
<1>2. CASE GetReply
    <2> SUFFICES ASSUME gaveUp = 0 PROVE OneOther'
        BY <1>2 DEF OneOther, GetReply
    <2>1. caller.blocking /\ UNCHANGED <<results, requests, cur>>
        BY <1>2 DEF GetReply
    <2> QED
        BY <2>1, NoOther DEF OneOther, Blocks, Busy
<1>3. CASE GetResult
    <2> SUFFICES ASSUME gaveUp = 0 PROVE OneOther'
        BY <1>3 DEF OneOther, GetResult
    <2>1. /\ caller.m \in Nonblocking /\ results[caller.m] # 0
          /\ results' = [results EXCEPT ![caller.m] = 0] /\ UNCHANGED <<requests, cur>>
        BY <1>3 DEF GetResult, Calling
    <2>2. \A m \in Nonblocking : results'[m] = 0
        BY <1>0, <2>1 DEF OneOther, Awaited
    <2>3. (Busy => Blocks(cur)) /\ \A i \in DOMAIN requests : Blocks(requests[i])
        BY <2>1 DEF OneOther
    <2> QED
        BY <2>1, <2>2, <2>3 DEF OneOther, Blocks, Busy
<1>4. CASE Abandon
    <2>1. CASE caller.blocking
        <3> SUFFICES ASSUME gaveUp = 0 PROVE OneOther'
            BY <1>4, <2>1 DEF OneOther, Abandon
        <3>1. UNCHANGED <<results, requests, cur>>
            BY <1>4, <2>1 DEF Abandon
        <3> QED
            BY <2>1, <3>1, NoOther DEF OneOther, Blocks, Busy
    <2>2. CASE ~caller.blocking
        <3>1. gaveUp' # 0
            BY <1>0, <1>4, <2>2 DEF Abandon
        <3> QED
            BY <3>1 DEF OneOther
    <2> QED
        BY <2>1, <2>2
<1>5. CASE Handle
    <2> SUFFICES ASSUME gaveUp = 0 PROVE OneOther'
        BY <1>5, Handled DEF OneOther
    <2>1. /\ cur' = requests[1] /\ 1 \in DOMAIN requests /\ cur' # NoRequest
          /\ \A i \in DOMAIN requests' :
                 /\ i + 1 \in DOMAIN requests /\ requests'[i] = requests[i + 1]
                 /\ i + 1 # 1
          /\ UNCHANGED client
          /\ DOMAIN requests' \subseteq Nat
        BY <1>5, Handled, ClientTypesStep DEF ClientTypes
    <2>2. /\ \A m \in Nonblocking : results[m] # 0 =>
                 Awaited(m, results[m]) /\ \A i \in DOMAIN requests : Blocks(requests[i])
          /\ \A i \in DOMAIN requests : ~Blocks(requests[i]) =>
                 /\ Awaited(requests[i].call.m, requests[i].number)
                 /\ \A j \in DOMAIN requests : ~Blocks(requests[j]) => i = j
        BY DEF OneOther
    <2>3. \A m \in Nonblocking : results[m] # 0 =>
              Blocks(cur') /\ \A i \in DOMAIN requests' : Blocks(requests'[i])
        BY <2>1, <2>2
    <2>4. ~Blocks(cur') => /\ Awaited(cur'.call.m, cur'.number)
                           /\ \A i \in DOMAIN requests' : Blocks(requests'[i])
        BY <2>1, <2>2
    <2>5. ASSUME NEW i \in DOMAIN requests', ~Blocks(requests'[i])
          PROVE  /\ Awaited(requests'[i].call.m, requests'[i].number)
                 /\ \A j \in DOMAIN requests' : ~Blocks(requests'[j]) => i = j
        <3>1. Awaited(requests'[i].call.m, requests'[i].number)
            BY <2>1, <2>2, <2>5
        <3>2. ASSUME NEW j \in DOMAIN requests', ~Blocks(requests'[j])
              PROVE  i = j
            <4>1. i + 1 = j + 1
                BY <2>1, <2>2, <2>5, <3>2
            <4> QED
                BY <2>1, <4>1
        <3> QED
            BY <3>1, <3>2
    <2> QED
        BY <2>1, <2>2, <2>3, <2>4, <2>5 DEF OneOther, Awaited, Blocks, Busy
<1>6. CASE Reply
    <2> SUFFICES ASSUME gaveUp = 0 PROVE OneOther'
        BY <1>6 DEF OneOther, Reply
    <2>1. /\ Busy /\ ~Busy' /\ UNCHANGED <<caller, requests>>
        BY <1>6 DEF Reply, Rest, Calling, Busy
    <2>2. CASE Blocks(cur)
        <3>1. UNCHANGED results
            BY <1>6, <2>2 DEF Reply, Blocks
        <3> QED
            BY <2>1, <3>1 DEF OneOther, Awaited, Blocks
    <2>3. CASE ~Blocks(cur)
        <3>1. /\ Awaited(cur.call.m, cur.number) /\ \A i \in DOMAIN requests : Blocks(requests[i])
              /\ \A m \in Nonblocking : results[m] = 0
            BY <2>1, <2>3 DEF OneOther
        <3>2. results' \in {results, [results EXCEPT ![cur.call.m] = cur.number]}
            BY <1>6, <2>3 DEF Reply, Blocks
        <3>3. \A m \in Nonblocking : results'[m] # 0 => m = cur.call.m /\ results'[m] = cur.number
            BY <1>0, <3>1, <3>2
        <3> QED
            BY <2>1, <3>1, <3>3 DEF OneOther, Awaited, Blocks
    <2> QED
        BY <2>2, <2>3
<1>7. CASE ThreadEnds \/ Inside \/ Superguard \/ UNCHANGED vars
    <2>1. UNCHANGED <<client, requests, cur>>
        BY <1>7, InsideFrame, SuperguardFrame DEF ThreadEnds
    <2> QED
        BY <2>1 DEF OneOther, Awaited, Blocks, Busy
<1> QED
    BY <1>1, <1>2, <1>3, <1>4, <1>5, <1>6, <1>7, Steps

LEMMA OwnReplyStep ==
    ASSUME TypeOK, Calling, InTurn, OneOther, OwnReply, [Next]_vars
    PROVE  OwnReply'
<1>0. /\ called \in [blocking : Nat, others : Nat] /\ left \in Nat
      /\ replies \in Seq(1 .. MaxCalls) /\ Taken \in Int
    BY BoundAssumption DEF TypeOK, ClientTypes, Taken
<1>1. ASSUME NEW c \in Calls, Dispatch(c)
      PROVE  OwnReply'
    BY <1>1, Dispatched DEF OwnReply
<1>2. CASE GetReply
    <2>1. /\ caller.state = "waits" /\ caller.blocking
          /\ caller'.blocking /\ caller'.number = caller.number /\ left' = left
          /\ caller.number = called.blocking /\ got = 0
        BY <1>2 DEF TypeOK, ClientTypes, GetReply, Calling
    <2>2. CASE replies # <<>> /\ got' = Head(replies)
        <3>1. Head(replies) = replies[1] /\ 1 \in DOMAIN replies
            BY <1>0, <2>2, HeadTailProperties, EmptySeq
        <3>2. replies[1] = Taken + 1
            BY <2>1, <3>1 DEF InTurn
        <3>3. Taken = called.blocking - left - 1
            BY <2>1 DEF Taken
        <3>4. got' + left' = caller'.number
            BY <1>0, <2>1, <2>2, <3>1, <3>2, <3>3
        <3> QED
            BY <2>1, <3>4 DEF OwnReply
    <2>3. CASE UNCHANGED got
        BY <2>1, <2>3 DEF OwnReply
    <2> QED
        BY <1>2, <2>2, <2>3 DEF GetReply
<1>3. CASE GetResult
    <2>1. /\ ~caller'.blocking /\ caller'.number = caller.number /\ gaveUp' = gaveUp
          /\ got' = results[caller.m] /\ results[caller.m] # 0 /\ caller.m \in Nonblocking
        BY <1>3 DEF TypeOK, ClientTypes, GetResult, Calling
    <2>2. gaveUp = 0 => got' = caller.number
        BY <2>1 DEF OneOther, Awaited
    <2>3. gaveUp # 0 => gaveUp > 0
        BY BoundAssumption DEF TypeOK, ClientTypes
    <2> QED
        BY <2>1, <2>2, <2>3 DEF OwnReply
<1>4. CASE Abandon
    <2>1. got' = 0
        BY <1>4 DEF Abandon, Calling
    <2> QED
        BY <2>1 DEF OwnReply
<1>5. CASE Handle \/ Reply \/ ThreadEnds \/ Inside \/ Superguard \/ UNCHANGED vars
    <2>1. UNCHANGED <<caller, got, left, gaveUp>>
        BY <1>5, InsideFrame, SuperguardFrame DEF Handle, Reply, ThreadEnds
    <2> QED
        BY <2>1 DEF OwnReply
<1> QED
    BY <1>1, <1>2, <1>3, <1>4, <1>5, Steps

LEMMA ReplyInit == Init => ReplyInv
<1> SUFFICES ASSUME Init PROVE ReplyInv
    OBVIOUS
<1>1. TypeOK
    BY TypeInit
<1>2. Calling
    BY DEF Init, Calling, InMethod, Busy, Nonblocking
<1>3. InTurn
    <2>1. Taken = 0 /\ Made = 0 /\ called.blocking = 0
        BY DEF Init, Taken, Made, Busy
    <2>2. DOMAIN replies = {} /\ DOMAIN requests = {} /\ ~Busy
        BY DEF Init, Busy
    <2> QED
        BY <2>1, <2>2 DEF InTurn
<1>4. OneOther /\ OwnReply
    BY DEF Init, OneOther, OwnReply, Busy
<1> QED
    BY <1>1, <1>2, <1>3, <1>4 DEF ReplyInv

LEMMA ReplyStep == ReplyInv /\ [Next]_vars => ReplyInv'
BY TypeStep, CallingStep, InTurnStep, OneOtherStep, OwnReplyStep DEF ReplyInv

(* The queues, the thread and the client agree on the calls that are still  *)
(* to be answered.                                                          *)
THEOREM ReplyInvariance == Spec => []ReplyInv
BY ReplyInit, ReplyStep, PTL DEF Spec

(* Every variable keeps its type.                                           *)
THEOREM PtsTypeCorrect == Spec => []TypeOK
BY ReplyInvariance, PTL DEF ReplyInv

(* A blocking call gets its own reply, or as many calls before as were left *)
(* by interrupted callers; another call gets its own result until a wait    *)
(* for one has timed out.                                                   *)
THEOREM RepliesOwn == Spec => []OwnReply
BY ReplyInvariance, PTL DEF ReplyInv

-----------------------------------------------------------------------------
(* Values.                                                                  *)

LEMMA InOrderStep ==
    ASSUME TypeOK, Calling, InOrder, [Next]_vars
    PROVE  InOrder'
<1>0. requests \in Seq(Request) /\ DOMAIN requests = 1 .. Len(requests) /\ Len(requests) \in Nat
    BY DEF TypeOK, ClientTypes
<1>1. ASSUME NEW c \in Calls, Dispatch(c)
      PROVE  InOrder'
    <2> DEFINE last == Len(requests) + 1
    <2>1. /\ DOMAIN requests' = 1 .. last /\ Len(requests') = last
          /\ \A i \in DOMAIN requests : i \in DOMAIN requests' /\ requests'[i] = requests[i]
          /\ requests'[last].call = c
          /\ c.m = "restart_pts" <=> caller.m = "cleanup_caches"
          /\ caller'.m = c.m /\ UNCHANGED cur
        BY <1>1, Dispatched
    <2>2. requests' # <<>>
        BY <1>0, <2>1
    <2>3. CASE requests = <<>>
        <3>1. last = 1
            BY <2>3
        <3>2. \A i \in DOMAIN requests' : i = 1 /\ i + 1 \notin DOMAIN requests'
            BY <2>1, <3>1
        <3> QED
            BY <2>1, <2>2, <2>3, <3>1, <3>2 DEF InOrder, Busy
    <2>4. CASE requests # <<>>
        <3>1. Len(requests) \in DOMAIN requests /\ 1 \in DOMAIN requests
            BY <1>0, <2>4, EmptySeq
        <3>2. ASSUME NEW i \in DOMAIN requests', i + 1 \in DOMAIN requests'
              PROVE  requests'[i + 1].call.m = "restart_pts" <=> requests'[i].call.m = "cleanup_caches"
            <4>1. CASE i = Len(requests)
                BY <2>1, <2>4, <3>1, <4>1 DEF InOrder
            <4>2. CASE i # Len(requests)
                <5>1. i \in DOMAIN requests /\ i + 1 \in DOMAIN requests
                    BY <1>0, <2>1, <3>2, <4>2
                <5> QED
                    BY <2>1, <5>1 DEF InOrder
            <4> QED
                BY <4>1, <4>2
        <3> HIDE DEF last
        <3> QED
            BY <2>1, <2>2, <2>4, <3>1, <3>2 DEF InOrder, Busy
    <2> QED
        BY <2>3, <2>4
<1>2. CASE Handle
    <2>1. /\ cur' = requests[1] /\ 1 \in DOMAIN requests /\ ~Busy
          /\ Len(requests') = Len(requests) - 1 /\ requests' \in Seq(Request)
          /\ \A i \in DOMAIN requests' : i + 1 \in DOMAIN requests /\ requests'[i] = requests[i + 1]
          /\ UNCHANGED caller
        BY <1>2, Handled DEF Calling
    <2>2. /\ caller.m = requests[Len(requests)].call.m
          /\ \A i \in DOMAIN requests : i + 1 \in DOMAIN requests =>
                 (requests[i + 1].call.m = "restart_pts" <=> requests[i].call.m = "cleanup_caches")
        BY <1>2, Handled DEF InOrder
    <2>3. DOMAIN requests' = 1 .. Len(requests')
        BY <2>1
    <2>4. CASE requests' = <<>>
        <3>1. Len(requests) = 1 /\ DOMAIN requests' = {}
            <4>1. Len(requests') = 0
                BY <2>4
            <4> QED
                BY <1>0, <2>1, <2>3, <4>1
        <3> QED
            BY <2>1, <2>2, <2>4, <3>1 DEF InOrder
    <2>5. CASE requests' # <<>>
        <3>1. Len(requests') \in DOMAIN requests' /\ 1 \in DOMAIN requests' /\ Len(requests') + 1 = Len(requests)
            BY <1>0, <2>1, <2>3, <2>5, EmptySeq
        <3>2. requests'[1] = requests[1 + 1] /\ 1 + 1 \in DOMAIN requests
            BY <2>1, <3>1
        <3>3. requests'[1].call.m = "restart_pts" <=> cur'.call.m = "cleanup_caches"
            BY <2>1, <2>2, <3>2
        <3>4. caller'.m = requests'[Len(requests')].call.m
            BY <2>1, <2>2, <3>1
        <3>5. ASSUME NEW i \in DOMAIN requests', i + 1 \in DOMAIN requests'
              PROVE  requests'[i + 1].call.m = "restart_pts" <=> requests'[i].call.m = "cleanup_caches"
            BY <2>1, <2>2, <3>5
        <3> QED
            BY <2>5, <3>3, <3>4, <3>5 DEF InOrder
    <2> QED
        BY <2>4, <2>5
<1>3. CASE Reply
    <2>1. ~Busy' /\ UNCHANGED <<caller, requests>>
        BY <1>3 DEF Reply, Rest, Busy
    <2> QED
        BY <2>1 DEF InOrder
<1>4. CASE GetReply \/ GetResult \/ Abandon
    <2>1. caller'.m = caller.m /\ UNCHANGED <<cur, requests>>
        BY <1>4 DEF GetReply, GetResult, Abandon, TypeOK, ClientTypes
    <2> QED
        BY <2>1 DEF InOrder, Busy
<1>5. CASE ThreadEnds \/ Inside \/ Superguard \/ UNCHANGED vars
    <2>1. UNCHANGED <<caller, cur, requests>>
        BY <1>5, InsideFrame, SuperguardFrame DEF ThreadEnds
    <2> QED
        BY <2>1 DEF InOrder, Busy
<1> QED
    BY <1>1, <1>2, <1>3, <1>4, <1>5, Steps

(* Between cleanup_caches and the end of restart_pts.                       *)
LEMMA Cleaning ==
    ASSUME TypeOK, Calling, InOrder, [Next]_vars
    PROVE  /\ CleanedUp' => CleanedUp \/ CleanupCaches
           /\ CleanupCaches => CleanedUp'
           /\ CleanedUp => CleanedUp' \/ (Reply /\ cur.call.m = "restart_pts")
           /\ CleanedUp' /\ ~CleanupCaches => wanted' = wanted
<1>1. ASSUME NEW c \in Calls, Dispatch(c)
      PROVE  (CleanedUp' <=> CleanedUp) /\ wanted' = wanted /\ ~CleanupCaches
    <2>1. /\ 1 \in DOMAIN requests => requests'[1] = requests[1]
          /\ requests'[Len(requests) + 1].call = c
          /\ c.m = "restart_pts" <=> caller.m = "cleanup_caches"
          /\ UNCHANGED <<cur, pc, wanted>> /\ Len(requests') # 0
          /\ Len(requests) \in Nat
        BY <1>1, Dispatched
    <2>2. requests' # <<>>
        BY <2>1
    <2>3. CASE requests = <<>>
        <3>1. Len(requests) + 1 = 1
            BY <2>3
        <3> QED
            BY <1>1, <2>1, <2>2, <2>3, <3>1 DEF CleanedUp, Busy, Dispatch, CleanupCaches, At
    <2>4. CASE requests # <<>>
        <3>1. 1 \in DOMAIN requests
            BY <2>1, <2>4, EmptySeq DEF TypeOK, ClientTypes
        <3> QED
            BY <1>1, <2>1, <2>2, <2>4, <3>1 DEF CleanedUp, Busy, Dispatch, CleanupCaches, At
    <2> QED
        BY <2>3, <2>4
<1>2. CASE Handle
    <2>1. /\ cur' = requests[1] /\ Busy' /\ ~Busy /\ requests # <<>> /\ pc' # "reply"
          /\ wanted' = wanted /\ pc = "idle"
        BY <1>2, Handled DEF Calling, Busy, Handle, Entry
    <2> QED
        BY <2>1 DEF CleanedUp, CleanupCaches, At
<1>3. CASE Reply
    <2>1. ~Busy' /\ Busy /\ UNCHANGED <<caller, requests, wanted>> /\ pc = "reply"
        BY <1>3 DEF Reply, Rest, Calling, Busy
    <2> QED
        BY <1>3, <2>1 DEF CleanedUp, InOrder, CleanupCaches, At
<1>4. CASE GetReply \/ GetResult \/ Abandon
    <2>1. caller'.m = caller.m /\ UNCHANGED <<cur, requests, pc, wanted, recov, flag, failed>>
        BY <1>4 DEF GetReply, GetResult, Abandon, TypeOK, ClientTypes
    <2>2. ~CleanupCaches
        BY <1>4 DEF CleanupCaches, GetReply, GetResult, Abandon, At
    <2> QED
        BY <2>1, <2>2 DEF CleanedUp, Busy
<1>5. CASE ThreadEnds \/ Superguard \/ UNCHANGED vars
    <2>1. UNCHANGED <<caller, cur, requests, wanted>> /\ (pc' = pc \/ (pc = "idle" /\ pc' = "ended"))
        BY <1>5, SuperguardFrame DEF ThreadEnds
    <2>2. ~CleanupCaches
        BY <1>5, <2>1, SuperguardFrame DEF CleanupCaches, At, ThreadEnds
    <2> QED
        BY <2>1, <2>2 DEF CleanedUp, Busy, Calling
<1>6. CASE Inside /\ ~CleanupCaches
    <2>1. /\ UNCHANGED <<caller, cur, requests>> /\ Busy
          /\ pc \notin {"idle", "ended", "reply"}
        BY <1>6, InsideFrame, InsidePlaces DEF Calling
    <2>2. cur.call.m = "cleanup_caches" => pc = "clean"
        <3>1. cur.call.m = "cleanup_caches" => cur.call \notin SettingCalls \cup {OpenWorkspace}
            BY CallTypes
        <3> QED
            BY <2>1, <3>1 DEF TypeOK, ThreadTypes, Calling, InMethod
    <2>3. pc # "clean" 
        BY <1>6 DEF Inside, CallPts, Record, StopPts, Recover, RestartPts, StartPts, StartFails,
                    ReplayItem, Recovered, Reopen, RunTestCase, GetTestCaseStatus, RevertItem,
                    Reverted, StopTestCase, At
    <2>4. cur.call.m = "restart_pts" => wanted' = wanted
        <3>1. cur.call.m = "restart_pts" => ~CallPts
            BY CallTypes DEF CallPts, Calling, InMethod
        <3> QED
            BY <1>6, <3>1 DEF Inside, Record, StopPts, Recover, RestartPts, StartPts, StartFails,
                    ReplayItem, Recovered, Reopen, RunTestCase, GetTestCaseStatus, RevertItem,
                    Reverted, StopTestCase
    <2> QED
        BY <1>6, <2>1, <2>2, <2>3, <2>4 DEF CleanedUp, Busy
<1>7. CASE CleanupCaches
    <2>1. pc' = "reply" /\ cur' = cur /\ cur.call.m = "cleanup_caches" /\ Busy
        BY <1>7 DEF CleanupCaches, At, Calling, InMethod
    <2> QED
        BY <1>7, <2>1 DEF CleanedUp, Busy
<1> QED
    BY <1>1, <1>2, <1>3, <1>4, <1>5, <1>6, <1>7, Steps

LEMMA ForgottenStep ==
    ASSUME TypeOK, Calling, InOrder, Forgotten, [Next]_vars
    PROVE  Forgotten'
<1>1. CASE CleanupCaches
    <2>1. \A n \in Names : wanted'[n] = Unset
        BY <1>1 DEF CleanupCaches
    <2> QED
        BY <2>1 DEF Forgotten
<1>2. CASE ~CleanupCaches
    BY <1>2, Cleaning DEF Forgotten
<1> QED
    BY <1>1, <1>2

LEMMA WithinStep ==
    ASSUME TypeOK, Calling, Within, [Next]_vars
    PROVE  Within'
<1>0. PtsTypes /\ pts \in PtsType
    BY DEF TypeOK, PtsTypes, PtsType
<1>1. ASSUME NEW c \in Calls, Dispatch(c)
      PROVE  Within'
    BY <1>1, Dispatched DEF Within
<1>2. CASE GetReply \/ GetResult \/ Abandon \/ UNCHANGED vars
    BY <1>2 DEF Within, GetReply, GetResult, Abandon
<1>3. CASE Handle
    BY <1>3 DEF Within, Handle, Entry
<1>4. CASE Reply
    BY <1>4 DEF Within, Reply, Rest
<1>5. CASE ThreadEnds
    BY <1>5, NewPts DEF Within, ThreadEnds
<1>6. CASE Superguard
    <2>1. /\ UNCHANGED <<thread, memory, end>>
          /\ pts' = pts \/ pts' = Stopped \/ pts' = [pts EXCEPT !.sender = "none"]
        BY <1>6, SuperguardFrame DEF Superguard, Fire, CloseSender, KillPts
    <2>2. pts'.up => pts.up
        BY <1>0, <2>1, NewPts DEF PtsType
    <2> QED
        BY <2>1, <2>2 DEF Within
<1>7. CASE Inside
    <2>1. UNCHANGED cur
        BY <1>7, InsideFrame
    <2>2. CASE CallPts
        <3>1. pts'.up => pts.up
            BY <2>2 DEF CallPts, Accepts
        <3> QED
            BY <2>1, <2>2, <3>1 DEF Within, CallPts
    <2>3. CASE Record \/ CleanupCaches \/ Recovered \/ RunTestCase \/ Reverted
        BY <2>1, <2>3 DEF Within, Record, CleanupCaches, Recovered, RunTestCase, Reverted, At
    <2>4. CASE StopPts
        BY <2>1, <2>4, NewPts DEF Within, StopPts, At
    <2>5. CASE Recover
        BY <2>1, <2>5 DEF Within, Recover, At, Calling, InMethod
    <2>6. CASE RestartPts
        BY <2>1, <2>6, NewPts DEF Within, RestartPts, Restarted
    <2>7. CASE StartPts
        BY <2>1, <2>7, NewPts DEF Within, StartPts, Restarted, At, Calling
    <2>8. CASE StartFails
        BY <2>1, <2>8, NewPts DEF Within, StartFails, Restarted
    <2>9. CASE ReplayItem
        <3>1. pts'.up => pts.up
            BY <2>9 DEF ReplayItem, Passes, Accepts
        <3> QED
            BY <2>1, <2>9, <3>1 DEF Within, ReplayItem, Calling, InMethod
    <2>10. CASE Reopen \/ StopTestCase
        <3>1. /\ pts' = pts \/ pts' = [pts EXCEPT !.sender = "open"] \/ pts' = [pts EXCEPT !.sender = "closed"]
              /\ UNCHANGED <<memory, end>> /\ cur.call.m = "run_test_case"
              /\ pc' # "start" /\ (pc = "except" => pc' = "recover")
              /\ pc \in {"reopen", "except"}
            BY <2>10 DEF Reopen, StopTestCase, At, Calling, InMethod
        <3>2. pts'.up => pts.up
            BY <1>0, <3>1 DEF PtsType
        <3> QED
            BY <2>1, <3>1, <3>2 DEF Within
    <2>11. CASE GetTestCaseStatus
        BY <2>1, <2>11 DEF Within, GetTestCaseStatus, Calling, InMethod
    <2>12. CASE RevertItem
        <3>1. pts'.up => pts.up
            BY <2>12 DEF RevertItem, Accepts
        <3> QED
            BY <2>1, <2>12, <3>1 DEF Within, RevertItem, Calling, InMethod
    <2> QED
        BY <1>7, <2>2, <2>3, <2>4, <2>5, <2>6, <2>7, <2>8, <2>9, <2>10, <2>11, <2>12 DEF Inside
<1> QED
    BY <1>1, <1>2, <1>3, <1>4, <1>5, <1>6, <1>7, Steps

(* The keys of the items that are recorded.                                 *)
LEMMA ItemKeys ==
    /\ \A c \in Recordable : c.key \in Names => c # OpenWorkspace
    /\ \A c \in Recordable : c.key \in Pixits => c.m = "set_pixit"
    /\ \A c \in Recordable : c.m = "set_pixit" => c.key \in Pixits /\ c # OpenWorkspace
    /\ \A c \in Recordable : c.key = "timeout" <=> c.m = "set_call_timeout"
    /\ \A c \in Recordable : c \in SettingCalls \cup {OpenWorkspace} /\ c \in Calls
    /\ "none" \notin Names /\ "timeout" \notin Pixits
BY CallTypes, NamesAssumption DEF Recordable, Names

(* What is recorded stays right when another item is added,                 *)
LEMMA RestoresAppend ==
    ASSUME NEW s \in Seq(Recordable), NEW c \in Recordable, NEW n \in Names, NEW v,
           Restores(s, n, v), c.key # n, n # "timeout" => c # OpenWorkspace
    PROVE  Restores(Append(s, c), n, v)
<1> DEFINE t == Append(s, c)
<1>1. /\ DOMAIN s = 1 .. Len(s) /\ DOMAIN t = 1 .. Len(s) + 1 /\ Len(s) \in Nat
      /\ \A i \in DOMAIN s : t[i] = s[i]
      /\ t[Len(s) + 1] = c
    BY AppendProperties
<1>2. \A i \in DOMAIN s : i \in DOMAIN t
    BY <1>1
<1>3. \A i \in DOMAIN t : i \in DOMAIN s \/ i = Len(s) + 1
    BY <1>1
<1> HIDE DEF t
<1>4. CASE \E i \in DOMAIN s : Newest(s, n, i) /\ s[i].val = v /\ (n # "timeout" => Opens(s, i))
    <2>1. PICK i \in DOMAIN s : Newest(s, n, i) /\ s[i].val = v /\ (n # "timeout" => Opens(s, i))
        BY <1>4
    <2>2. Newest(t, n, i)
        BY <1>1, <1>3, <2>1 DEF Newest
    <2>3. Opens(s, i) => Opens(t, i)
        BY <1>1, <1>2 DEF Opens
    <2> QED
        BY <1>1, <1>2, <2>1, <2>2, <2>3 DEF Restores, t
<1>5. CASE n = "timeout" /\ v = Default /\ \A i \in DOMAIN s : s[i].key # n
    BY <1>1, <1>3, <1>5 DEF Restores, t
<1> QED
    BY <1>4, <1>5 DEF Restores

(* and an item that is added is the newest of its key.                      *)
LEMMA RestoresNew ==
    ASSUME NEW s \in Seq(Recordable), NEW c \in Recordable,
           c.key # "timeout" => Opens(s, Len(s) + 1)
    PROVE  Restores(Append(s, c), c.key, c.val)
<1> DEFINE t == Append(s, c)
<1>1. /\ DOMAIN s = 1 .. Len(s) /\ DOMAIN t = 1 .. Len(s) + 1 /\ Len(s) \in Nat
      /\ \A i \in DOMAIN s : t[i] = s[i]
      /\ t[Len(s) + 1] = c
    BY AppendProperties
<1>2. Len(s) + 1 \in DOMAIN t /\ \A j \in DOMAIN t : ~(j > Len(s) + 1)
    BY <1>1
<1>3. \A i \in DOMAIN s : i \in DOMAIN t
    BY <1>1
<1> HIDE DEF t
<1>4. Newest(t, c.key, Len(s) + 1)
    BY <1>1, <1>2 DEF Newest
<1>5. c.key # "timeout" => Opens(t, Len(s) + 1)
    BY <1>1, <1>3 DEF Opens
<1> QED
    BY <1>1, <1>2, <1>4, <1>5 DEF Restores, t

(* A list that is thinned stays right when what is left out has other keys. *)
LEMMA RestoresThinned ==
    ASSUME NEW s \in Seq(Recordable), NEW t \in Seq(Recordable), NEW e, Thinned(t, s, e),
           NEW n \in Names, NEW v, Restores(s, n, v),
           \A i \in 1 .. Len(s) : s[i].key = n \/ s[i] = OpenWorkspace =>
               \E j \in 1 .. Len(t) : e[j] = i
    PROVE  Restores(t, n, v)
<1>1. /\ DOMAIN s = 1 .. Len(s) /\ DOMAIN t = 1 .. Len(t)
      /\ \A k \in 1 .. Len(t) : e[k] \in 1 .. Len(s) /\ t[k] = s[e[k]]
      /\ \A j, k \in 1 .. Len(t) : j < k => e[j] < e[k]
    BY DEF Thinned
<1>2. \A j, k \in 1 .. Len(t) : e[j] < e[k] => j < k
    <2> SUFFICES ASSUME NEW j \in 1 .. Len(t), NEW k \in 1 .. Len(t), e[j] < e[k], ~(j < k)
                 PROVE  FALSE
        OBVIOUS
    <2>1. j = k \/ k < j
        OBVIOUS
    <2>2. e[j] \in 1 .. Len(s) /\ e[k] \in 1 .. Len(s)
        BY <1>1
    <2> QED
        BY <1>1, <2>1, <2>2
<1>3. CASE \E i \in DOMAIN s : Newest(s, n, i) /\ s[i].val = v /\ (n # "timeout" => Opens(s, i))
    <2>1. PICK i \in DOMAIN s : Newest(s, n, i) /\ s[i].val = v /\ (n # "timeout" => Opens(s, i))
        BY <1>3
    <2>2. PICK k \in 1 .. Len(t) : e[k] = i
        BY <1>1, <2>1 DEF Newest
    <2>3. Newest(t, n, k)
        <3>1. t[k].key = n
            BY <1>1, <2>1, <2>2 DEF Newest
        <3>2. ASSUME NEW j \in DOMAIN t, j > k
              PROVE  t[j].key # n /\ (n # "timeout" => t[j] # OpenWorkspace)
            <4>1. e[j] > i /\ e[j] \in DOMAIN s /\ t[j] = s[e[j]]
                BY <1>1, <2>2, <3>2
            <4> QED
                BY <2>1, <4>1 DEF Newest
        <3> QED
            BY <3>1, <3>2 DEF Newest
    <2>4. Opens(s, i) => Opens(t, k)
        <3> SUFFICES ASSUME Opens(s, i) PROVE Opens(t, k)
            OBVIOUS
        <3>1. PICK j \in DOMAIN s : j < i /\ s[j] = OpenWorkspace
            BY DEF Opens
        <3>2. PICK l \in 1 .. Len(t) : e[l] = j
            BY <1>1, <3>1
        <3>3. l < k /\ t[l] = OpenWorkspace
            BY <1>1, <1>2, <2>2, <3>1, <3>2
        <3> QED
            BY <1>1, <3>3 DEF Opens
    <2> QED
        BY <1>1, <2>1, <2>2, <2>3, <2>4 DEF Restores
<1>4. CASE n = "timeout" /\ v = Default /\ \A i \in DOMAIN s : s[i].key # n
    BY <1>1, <1>4 DEF Restores
<1> QED
    BY <1>3, <1>4 DEF Restores

LEMMA OpensThinned ==
    ASSUME NEW s \in Seq(Recordable), NEW t \in Seq(Recordable), NEW e, Thinned(t, s, e),
           Opens(s, Len(s) + 1),
           \A i \in 1 .. Len(s) : s[i] = OpenWorkspace => \E j \in 1 .. Len(t) : e[j] = i
    PROVE  Opens(t, Len(t) + 1)
<1>1. DOMAIN s = 1 .. Len(s) /\ DOMAIN t = 1 .. Len(t)
    OBVIOUS
<1>2. PICK i \in 1 .. Len(s) : s[i] = OpenWorkspace
    BY <1>1 DEF Opens
<1>3. PICK j \in 1 .. Len(t) : e[j] = i
    BY <1>2
<1>4. t[j] = OpenWorkspace /\ j < Len(t) + 1
    BY <1>2, <1>3 DEF Thinned
<1> QED
    BY <1>1, <1>4 DEF Opens

LEMMA OpensAppend ==
    ASSUME NEW s \in Seq(Recordable), NEW c \in Recordable,
           Opens(s, Len(s) + 1) \/ c = OpenWorkspace
    PROVE  Opens(Append(s, c), Len(Append(s, c)) + 1)
<1> DEFINE t == Append(s, c)
<1>1. /\ DOMAIN s = 1 .. Len(s) /\ DOMAIN t = 1 .. Len(s) + 1 /\ Len(s) \in Nat
      /\ \A i \in DOMAIN s : t[i] = s[i]
      /\ t[Len(s) + 1] = c /\ Len(t) = Len(s) + 1
    BY AppendProperties
<1>2. /\ \A i \in DOMAIN s : i \in DOMAIN t /\ i < Len(t) + 1
      /\ Len(s) + 1 \in DOMAIN t /\ Len(s) + 1 < Len(t) + 1
    BY <1>1
<1> HIDE DEF t
<1>3. Opens(t, Len(t) + 1)
    BY <1>1, <1>2 DEF Opens
<1> QED
    BY <1>3 DEF t

(* A PIXIT is recorded once.                                                *)
LEMMA OnePixitThinned ==
    ASSUME NEW s \in Seq(Recordable), NEW t \in Seq(Recordable), NEW e, Thinned(t, s, e), OnePixit(s)
    PROVE  OnePixit(t)
<1> SUFFICES ASSUME NEW i \in DOMAIN t, NEW j \in DOMAIN t,
                    t[i].m = "set_pixit", t[j].m = "set_pixit", t[i].key = t[j].key, i # j
             PROVE  FALSE
    BY DEF OnePixit
<1>1. DOMAIN s = 1 .. Len(s) /\ DOMAIN t = 1 .. Len(t)
    OBVIOUS
<1>2. e[i] \in DOMAIN s /\ e[j] \in DOMAIN s /\ t[i] = s[e[i]] /\ t[j] = s[e[j]]
    BY <1>1 DEF Thinned
<1>3. e[i] = e[j]
    BY <1>2 DEF OnePixit
<1>4. i < j \/ j < i
    BY <1>1
<1>5. e[i] < e[j] \/ e[j] < e[i]
    BY <1>1, <1>4 DEF Thinned
<1> QED
    BY <1>1, <1>2, <1>3, <1>5

LEMMA OnePixitAppend ==
    ASSUME NEW s \in Seq(Recordable), NEW c \in Recordable, OnePixit(s),
           \A i \in DOMAIN s : ~(c.m = "set_pixit" /\ s[i].m = "set_pixit" /\ s[i].key = c.key)
    PROVE  OnePixit(Append(s, c))
<1> DEFINE t == Append(s, c)
<1>1. /\ \A i \in DOMAIN t : i \in DOMAIN s \/ i = Len(s) + 1
      /\ \A i \in DOMAIN s : t[i] = s[i]
      /\ t[Len(s) + 1] = c
    BY AppendProperties
<1> HIDE DEF t
<1>2. OnePixit(t)
    <2> SUFFICES ASSUME NEW i \in DOMAIN t, NEW j \in DOMAIN t,
                        t[i].m = "set_pixit", t[j].m = "set_pixit", t[i].key = t[j].key
                 PROVE  i = j
        BY DEF OnePixit
    <2>1. CASE i \in DOMAIN s /\ j \in DOMAIN s
        BY <1>1, <2>1 DEF OnePixit
    <2>2. CASE i \in DOMAIN s /\ j = Len(s) + 1
        BY <1>1, <2>2
    <2>3. CASE j \in DOMAIN s /\ i = Len(s) + 1
        BY <1>1, <2>3
    <2> QED
        BY <1>1, <2>1, <2>2, <2>3
<1> QED
    BY <1>2 DEF t

(* What add_recov and del_recov do to a list: items of one PIXIT, or those  *)
(* of the call timeout, are left out.                                       *)
LEMMA AddedIs ==
    ASSUME TypeOK, NEW c \in Recordable, c.m = "set_pixit", SetAt(c.key) # {}
    PROVE  \E t \in Seq(Recordable), k \in SetAt(c.key) :
               /\ Added(c) = Append(t, c) /\ t = RemoveAt(recov, k)
               /\ \E e : /\ Thinned(t, recov, e)
                         /\ \A i \in 1 .. Len(recov) : i # k => \E j \in 1 .. Len(t) : e[j] = i
<1> DEFINE k == Min(SetAt(c.key))
<1>1. recov \in Seq(Recordable) /\ SetAt(c.key) \in SUBSET Nat
    BY DEF TypeOK, MemoryTypes, SetAt
<1>2. k \in SetAt(c.key)
    BY <1>1, LeastNatural
<1>3. Added(c) = Append(RemoveAt(recov, k), c)
    BY DEF Added
<1> HIDE DEF k
<1>4. k \in DOMAIN recov
    BY <1>2 DEF SetAt
<1> DEFINE t == RemoveAt(recov, k)
<1>5. t \in Seq(Recordable)
    BY <1>1, <1>4, RemovedAt
<1>6. PICK e : /\ Thinned(t, recov, e)
               /\ \A i \in 1 .. Len(recov) : i # k => \E j \in 1 .. Len(t) : e[j] = i
    BY <1>1, <1>4, RemovedAt
<1>7. Added(c) = Append(t, c) /\ t = RemoveAt(recov, k)
    BY <1>3
<1> HIDE DEF t
<1> QED
    BY <1>2, <1>5, <1>6, <1>7

LEMMA RecordedOnePixit ==
    ASSUME TypeOK, OnePixit(recov), cur.call \in SettingCalls \cup {OpenWorkspace}
    PROVE  OnePixit(Recorded) /\ Recorded \in Seq(Recordable)
<1> DEFINE c == cur.call
<1>1. recov \in Seq(Recordable)
    BY DEF TypeOK, MemoryTypes
<1>2. CASE Recorded = recov
    BY <1>1, <1>2
<1>3. CASE Recorded = Without(recov, "set_call_timeout")[Len(recov)]
    <2>1. PICK e : Thinned(Recorded, recov, e)
        BY <1>1, <1>3, WithoutThins
    <2>2. Recorded \in Seq(Recordable)
        BY <1>1, <1>3, WithoutThins
    <2> QED
        BY <1>1, <2>1, <2>2, OnePixitThinned
<1>4. CASE Recorded = Added(c) /\ c.m # "update_pixit_param"
    <2>1. c \in Recordable
        BY <1>4 DEF Recordable
    <2>2. CASE c.m = "set_pixit" /\ SetAt(c.key) # {}
        <3> HIDE DEF c
        <3>1. PICK t \in Seq(Recordable), k \in SetAt(c.key) :
                  /\ Added(c) = Append(t, c) /\ t = RemoveAt(recov, k)
                  /\ \E e : /\ Thinned(t, recov, e)
                            /\ \A i \in 1 .. Len(recov) : i # k => \E j \in 1 .. Len(t) : e[j] = i
            BY <2>1, <2>2, AddedIs
        <3>1a. PICK e : /\ Thinned(t, recov, e)
                       /\ \A i \in 1 .. Len(recov) : i # k => \E j \in 1 .. Len(t) : e[j] = i
            BY <3>1
        <3>2. OnePixit(t)
            BY <1>1, <3>1, <3>1a, OnePixitThinned
        <3>3. ASSUME NEW i \in DOMAIN t, t[i].m = "set_pixit", t[i].key = c.key
              PROVE  FALSE
            <4>1. /\ DOMAIN t = 1 .. Len(t) /\ Len(t) = Len(recov) - 1 /\ k \in 1 .. Len(recov)
                  /\ t[i] = IF i < k THEN recov[i] ELSE recov[i + 1]
                  /\ DOMAIN recov = 1 .. Len(recov)
                <5>1. k \in DOMAIN recov
                    BY DEF SetAt
                <5>2. t \in Seq(Recordable) /\ Len(t) = Len(recov) - 1
                      /\ \A j \in 1 .. Len(recov) - 1 : t[j] = IF j < k THEN recov[j] ELSE recov[j + 1]
                    BY <1>1, <3>1, <5>1, RemovedElements
                <5> QED
                    BY <1>1, <5>1, <5>2
            <4>2. \E l \in DOMAIN recov : l # k /\ t[i] = recov[l]
                <5>1. CASE i < k
                    BY <1>1, <4>1, <5>1
                <5>2. CASE ~(i < k)
                    <6>1. i + 1 \in DOMAIN recov /\ i + 1 # k
                        BY <1>1, <4>1, <5>2
                    <6> QED
                        BY <4>1, <5>2, <6>1
                <5> QED
                    BY <5>1, <5>2
            <4> QED
                BY <3>3, <4>2 DEF OnePixit, SetAt
        <3>4. OnePixit(Append(t, c)) /\ Append(t, c) \in Seq(Recordable)
            BY <2>1, <3>1, <3>2, <3>3, OnePixitAppend, AppendProperties
        <3> QED
            BY <1>4, <3>1, <3>4
    <2>3. CASE ~(c.m = "set_pixit" /\ SetAt(c.key) # {})
        <3>1. Recorded = Append(recov, c)
            BY <1>4, <2>3 DEF Added
        <3>2. \A i \in DOMAIN recov : ~(c.m = "set_pixit" /\ recov[i].m = "set_pixit" /\ recov[i].key = c.key)
            BY <2>3 DEF SetAt
        <3> HIDE DEF c
        <3> QED
            BY <1>1, <2>1, <3>1, <3>2, OnePixitAppend, AppendProperties
    <2> QED
        BY <2>2, <2>3
<1> QED
    BY <1>2, <1>3, <1>4 DEF Recorded

(* What is wanted after a call that PTS accepted is what the list restores  *)
(* when the call is recorded.                                               *)
LEMMA RecordedRestores ==
    ASSUME TypeOK, ~flag, cur.call \in SettingCalls \cup {OpenWorkspace},
           \A n \in Names : wanted[n] # Unset => Restores(recov, n, wanted[n]),
           cur.call.m \in {"set_pixit", "set_pics"} => Opens(recov, Len(recov) + 1)
    PROVE  \A n \in Names : Wants(cur.call)[n] # Unset =>
               Restores(Recorded, n, Wants(cur.call)[n])
<1> DEFINE c == cur.call
<1> SUFFICES ASSUME NEW n \in Names, Wants(c)[n] # Unset
             PROVE  Restores(Recorded, n, Wants(c)[n])
    OBVIOUS
<1>1. recov \in Seq(Recordable) /\ wanted \in [Names -> Values \cup Timeouts \cup {Default, Unset}]
    BY DEF TypeOK, MemoryTypes
<1>2. DOMAIN recov = 1 .. Len(recov) /\ \A i \in 1 .. Len(recov) : recov[i] \in Recordable
    BY <1>1
<1>3. CASE c.m = "update_pixit_param"
    <2>1. c # OpenWorkspace /\ Recorded = recov
        BY <1>3, CallTypes DEF Recorded
    <2>2. Wants(c) = wanted
        BY <1>3, <2>1 DEF Wants
    <2> QED
        BY <2>1, <2>2
<1>4. CASE c.m = "set_call_timeout" /\ c.val = Default
    <2> DEFINE t == Without(recov, "set_call_timeout")[Len(recov)]
    <2>1. c # OpenWorkspace /\ c.key = "timeout" /\ Recorded = t
        BY <1>4, CallTypes DEF Recorded
    <2>2. Wants(c) = [wanted EXCEPT !["timeout"] = Default]
        BY <1>4, <2>1 DEF Wants
    <2>3. /\ t \in Seq(Recordable)
          /\ \A k \in 1 .. Len(t) : t[k].m # "set_call_timeout"
        BY <1>1, WithoutThins
    <2>4. PICK e : /\ Thinned(t, recov, e)
                   /\ \A i \in 1 .. Len(recov) : recov[i].m # "set_call_timeout" =>
                          \E j \in 1 .. Len(t) : e[j] = i
        BY <1>1, WithoutThins
    <2> HIDE DEF t, c
    <2>5. CASE n = "timeout"
        <3>1. DOMAIN t = 1 .. Len(t) /\ \A k \in 1 .. Len(t) : t[k] \in Recordable
            BY <2>3
        <3>2. \A k \in DOMAIN t : t[k].key # "timeout"
            BY <2>3, <3>1, ItemKeys
        <3>3. Wants(c)[n] = Default
            BY <1>1, <2>2, <2>5
        <3> QED
            BY <2>1, <2>5, <3>2, <3>3 DEF Restores
    <2>6. CASE n # "timeout"
        <3>1. Wants(c)[n] = wanted[n]
            BY <1>1, <2>2, <2>6
        <3>2. \A i \in 1 .. Len(recov) : recov[i].key = n \/ recov[i] = OpenWorkspace =>
                  recov[i].m # "set_call_timeout"
            BY <1>2, <2>6, ItemKeys, CallTypes
        <3>3. Restores(recov, n, wanted[n])
            BY <3>1 DEF c
        <3>4. \A i \in 1 .. Len(recov) : recov[i].key = n \/ recov[i] = OpenWorkspace =>
                  \E j \in 1 .. Len(t) : e[j] = i
            BY <2>4, <3>2
        <3> QED
            BY <1>1, <2>1, <2>3, <2>4, <3>1, <3>3, <3>4, RestoresThinned
    <2> QED
        BY <2>5, <2>6
<1>5. CASE c = OpenWorkspace
    <2>1. c.m # "set_pixit" /\ c.m # "update_pixit_param" /\ c.m # "set_call_timeout" /\ c \in Recordable
          /\ c.key = "none"
        BY <1>5, CallTypes DEF Recordable
    <2>2. Recorded = Append(recov, c)
        BY <2>1 DEF Recorded, Added
    <2>3. n = "timeout" /\ Wants(c)[n] = wanted[n]
        <3>1. Wants(c) = [o \in Names |-> IF o = "timeout" THEN wanted[o] ELSE Unset]
            BY <1>5, <2>1 DEF Wants
        <3> HIDE DEF c
        <3> QED
            BY <3>1
    <2>4. Restores(recov, n, wanted[n])
        BY <2>3
    <2> HIDE DEF c
    <2> QED
        BY <1>1, <2>1, <2>2, <2>3, <2>4, RestoresAppend
<1>6. CASE c # OpenWorkspace /\ c.m # "update_pixit_param" /\ ~(c.m = "set_call_timeout" /\ c.val = Default)
    <2>1. Recorded = Added(c) /\ c \in Recordable /\ c \in SettingCalls
        BY <1>6 DEF Recorded, Recordable
    <2>2. Wants(c) = [wanted EXCEPT ![c.key] = c.val]
        BY <1>6 DEF Wants
    <2>3. PICK t \in Seq(Recordable) :
              /\ Added(c) = Append(t, c)
              /\ c.key # "timeout" => Opens(t, Len(t) + 1)
              /\ n # c.key /\ Restores(recov, n, wanted[n]) => Restores(t, n, wanted[n])
        <3>1. c.key # "timeout" => Opens(recov, Len(recov) + 1)
            BY <2>1, CallTypes DEF Recordable
        <3>2. CASE ~(c.m = "set_pixit" /\ SetAt(c.key) # {})
            <4>1. Added(c) = Append(recov, c)
                BY <3>2 DEF Added
            <4> QED
                BY <1>1, <3>1, <4>1
        <3>3. CASE c.m = "set_pixit" /\ SetAt(c.key) # {}
            <4> HIDE DEF c
            <4>1. PICK t \in Seq(Recordable), k \in SetAt(c.key) :
                      /\ Added(c) = Append(t, c)
                      /\ \E e : /\ Thinned(t, recov, e)
                                /\ \A i \in 1 .. Len(recov) : i # k => \E j \in 1 .. Len(t) : e[j] = i
                BY <2>1, <3>3, AddedIs
            <4>1a. PICK e : /\ Thinned(t, recov, e)
                           /\ \A i \in 1 .. Len(recov) : i # k => \E j \in 1 .. Len(t) : e[j] = i
                BY <4>1
            <4>2. recov[k].key = c.key /\ recov[k] # OpenWorkspace
                <5>1. k \in DOMAIN recov /\ recov[k].m = "set_pixit" /\ recov[k].key = c.key
                    BY DEF SetAt
                <5> QED
                    BY <5>1, CallTypes
            <4>3. c.key # "timeout"
                BY <2>1, <3>3, ItemKeys
            <4>4. \A i \in 1 .. Len(recov) : recov[i] = OpenWorkspace => \E j \in 1 .. Len(t) : e[j] = i
                BY <4>1a, <4>2
            <4>5. Opens(t, Len(t) + 1)
                BY <1>1, <3>1, <4>1a, <4>3, <4>4, OpensThinned
            <4>6. ASSUME n # c.key, Restores(recov, n, wanted[n])
                  PROVE  Restores(t, n, wanted[n])
                <5>1. \A i \in 1 .. Len(recov) : recov[i].key = n \/ recov[i] = OpenWorkspace =>
                          \E j \in 1 .. Len(t) : e[j] = i
                    BY <4>1a, <4>2, <4>6
                <5> QED
                    BY <1>1, <4>1a, <4>6, <5>1, RestoresThinned
            <4> QED
                BY <4>1, <4>5, <4>6
        <3> QED
            BY <3>2, <3>3
    <2> HIDE DEF c
    <2>4. CASE n = c.key
        <3>1. Wants(c)[n] = c.val
            BY <1>1, <2>2, <2>4
        <3> QED
            BY <2>1, <2>3, <2>4, <3>1, RestoresNew
    <2>5. CASE n # c.key
        <3>1. Wants(c)[n] = wanted[n]
            BY <1>1, <2>2, <2>5
        <3>2. Restores(recov, n, wanted[n])
            BY <3>1 DEF c
        <3>3. Restores(t, n, wanted[n])
            BY <2>3, <2>5, <3>2
        <3> QED
            BY <1>6, <2>1, <2>3, <2>5, <3>1, <3>3, RestoresAppend DEF c
    <2> QED
        BY <2>4, <2>5
<1> QED
    BY <1>3, <1>4, <1>5, <1>6

(* A workspace that is opened stays in the list.                            *)
LEMMA RecordedOpens ==
    ASSUME TypeOK, ~flag, cur.call \in SettingCalls \cup {OpenWorkspace},
           Opens(recov, Len(recov) + 1) \/ cur.call = OpenWorkspace
    PROVE  Opens(Recorded, Len(Recorded) + 1)
<1> DEFINE c == cur.call
<1>1. recov \in Seq(Recordable)
    BY DEF TypeOK, MemoryTypes
<1>2. CASE c.m = "update_pixit_param"
    <2>1. Recorded = recov /\ c # OpenWorkspace
        BY <1>2, CallTypes DEF Recorded
    <2> QED
        BY <2>1
<1>3. CASE c.m = "set_call_timeout" /\ c.val = Default
    <2> DEFINE t == Without(recov, "set_call_timeout")[Len(recov)]
    <2>1. c # OpenWorkspace /\ Recorded = t
        BY <1>3, CallTypes DEF Recorded
    <2>2. t \in Seq(Recordable)
        BY <1>1, WithoutThins
    <2>3. PICK e : /\ Thinned(t, recov, e)
                   /\ \A i \in 1 .. Len(recov) : recov[i].m # "set_call_timeout" =>
                          \E j \in 1 .. Len(t) : e[j] = i
        BY <1>1, WithoutThins
    <2>4. \A i \in 1 .. Len(recov) : recov[i] = OpenWorkspace => \E j \in 1 .. Len(t) : e[j] = i
        BY <2>3, CallTypes
    <2> HIDE DEF t
    <2> QED
        BY <1>1, <2>1, <2>2, <2>3, <2>4, OpensThinned
<1>4. CASE c.m # "update_pixit_param" /\ ~(c.m = "set_call_timeout" /\ c.val = Default)
    <2>1. Recorded = Added(c) /\ c \in Recordable
        BY <1>4, CallTypes DEF Recorded, Recordable
    <2>2. PICK t \in Seq(Recordable) :
              Added(c) = Append(t, c) /\ (Opens(t, Len(t) + 1) \/ c = OpenWorkspace)
        <3>1. CASE ~(c.m = "set_pixit" /\ SetAt(c.key) # {})
            <4>1. Added(c) = Append(recov, c)
                BY <3>1 DEF Added
            <4> QED
                BY <1>1, <4>1
        <3>2. CASE c.m = "set_pixit" /\ SetAt(c.key) # {}
            <4>1. c # OpenWorkspace
                BY <3>2, CallTypes
            <4> HIDE DEF c
            <4>2. PICK t \in Seq(Recordable), k \in SetAt(c.key) :
                      /\ Added(c) = Append(t, c)
                      /\ \E e : /\ Thinned(t, recov, e)
                                /\ \A i \in 1 .. Len(recov) : i # k => \E j \in 1 .. Len(t) : e[j] = i
                BY <2>1, <3>2, AddedIs
            <4>2a. PICK e : /\ Thinned(t, recov, e)
                           /\ \A i \in 1 .. Len(recov) : i # k => \E j \in 1 .. Len(t) : e[j] = i
                BY <4>2
            <4>3. recov[k] # OpenWorkspace
                BY CallTypes DEF SetAt
            <4>4. \A i \in 1 .. Len(recov) : recov[i] = OpenWorkspace => \E j \in 1 .. Len(t) : e[j] = i
                BY <4>2a, <4>3
            <4>5. Opens(t, Len(t) + 1)
                BY <1>1, <4>1, <4>2a, <4>4, OpensThinned DEF c
            <4> QED
                BY <4>2, <4>5
        <3> QED
            BY <3>1, <3>2
    <2> HIDE DEF c
    <2> QED
        BY <2>1, <2>2, OpensAppend
<1> QED
    BY <1>2, <1>3, <1>4

(* Steps that leave the list and what is wanted alone.                      *)
LEMMA RecovRightFrame ==
    ASSUME RecovRight, recov' = recov, wanted' = wanted, failed' = failed, Items' = Items,
           pts'.open => pts.open, CleanedUp => CleanedUp',
           pc' = "reply" /\ cur'.call.m = "restart_pts" => ~pts'.open
    PROVE  RecovRight'
<1>1. OnePixit(recov)'
    BY DEF RecovRight, OnePixit
<1>2. ASSUME ~failed', NEW n \in Names, wanted'[n] # Unset
      PROVE  Restores(Items, n, wanted[n])'
    <2>1. Restores(Items, n, wanted[n])
        BY <1>2 DEF RecovRight
    <2> QED
        BY <2>1 DEF Restores, Newest, Opens
<1>3. ASSUME ~failed', pts'.open
      PROVE  CleanedUp' \/ Opens(Items, Len(Items) + 1)'
    <2>1. CleanedUp \/ Opens(Items, Len(Items) + 1)
        BY <1>3 DEF RecovRight
    <2> QED
        BY <2>1 DEF Opens
<1> QED
    BY <1>1, <1>2, <1>3 DEF RecovRight

(* What the steps of a method other than restart_pts do to the workspace.   *)
LEMMA OpenStays ==
    ASSUME TypeOK, Calling, Within, Inside, ~CallPts, ~ReplayItem
    PROVE  /\ pts'.open => pts.open
           /\ pc' = "reply" /\ cur'.call.m = "restart_pts" => ~pts'.open
<1>0. /\ pts \in PtsType /\ (~pts.up => ~pts.open) /\ UNCHANGED cur
    BY InsideFrame DEF TypeOK, PtsTypes, PtsType
<1>1. CASE Record \/ CleanupCaches \/ Recover \/ Recovered \/ RunTestCase \/ GetTestCaseStatus \/ Reverted
    <2>1. pts' = pts
        BY <1>1 DEF Record, CleanupCaches, Recover, Recovered, RunTestCase, GetTestCaseStatus, Reverted
    <2>2. pc \in {"record", "clean", "recover", "replay", "running", "status", "revert"}
        BY <1>1 DEF Record, CleanupCaches, Recover, Recovered, RunTestCase, GetTestCaseStatus, Reverted, At
    <2>3. cur.call.m # "restart_pts"
        BY <2>2, CallTypes DEF Calling, InMethod
    <2> QED
        BY <1>0, <2>1, <2>3
<1>2. CASE StopPts \/ StartPts \/ StartFails
    <2>1. pts' = Stopped \/ pts' = Started
        BY <1>2 DEF StopPts, StartPts, StartFails
    <2> QED
        BY <2>1, NewPts
<1>3. CASE RestartPts
    BY <1>0, <1>3, NewPts DEF RestartPts, Within
<1>4. CASE Reopen \/ StopTestCase
    <2>1. pts' = pts \/ pts' = [pts EXCEPT !.sender = "open"] \/ pts' = [pts EXCEPT !.sender = "closed"]
        BY <1>4 DEF Reopen, StopTestCase
    <2>2. cur.call.m # "restart_pts"
        BY <1>4 DEF Reopen, StopTestCase, At, Calling, InMethod
    <2> QED
        BY <1>0, <2>1, <2>2 DEF PtsType
<1>5. CASE RevertItem
    <2>1. cur.call.m # "restart_pts"
        BY <1>5 DEF RevertItem, Calling, InMethod
    <2>2. SetAt(temp[index]) # {} => recov[Min(SetAt(temp[index]))] # OpenWorkspace
        <3>1. SetAt(temp[index]) \in SUBSET Nat
            BY DEF TypeOK, MemoryTypes, SetAt
        <3>2. SetAt(temp[index]) # {} => Min(SetAt(temp[index])) \in SetAt(temp[index])
            BY <3>1, LeastNatural
        <3> QED
            BY <3>2, CallTypes DEF SetAt
    <2>3. pts'.open = pts.open
        BY <1>0, <1>5, <2>2 DEF RevertItem, Effect, PtsType
    <2> QED
        BY <1>0, <2>1, <2>3
<1> QED
    BY <1>1, <1>2, <1>3, <1>4, <1>5 DEF Inside

LEMMA RecovRightStep ==
    ASSUME TypeOK, Calling, SettledInv, [Next]_vars
    PROVE  RecovRight'
<1> USE DEF SettledInv
<1>0. pts \in PtsType /\ recov \in Seq(Recordable) /\ (pts.open => pts.up)
    BY DEF TypeOK, PtsTypes, PtsType, MemoryTypes
<1>1. CASE (\E c \in Calls : Dispatch(c)) \/ GetReply \/ GetResult \/ Abandon \/ UNCHANGED vars
    <2>1. /\ UNCHANGED <<recov, wanted, failed, flag, pts, pc, cur>>
          /\ ~Reply
        BY <1>1 DEF Dispatch, GetReply, GetResult, Abandon, Reply, Rest
    <2>2. Items' = Items
        BY <2>1 DEF Items, Recorded, Added, SetAt
    <2>3. pc' = "reply" /\ cur'.call.m = "restart_pts" => ~pts'.open
        BY <2>1 DEF RecovRight
    <2> QED
        BY <2>1, <2>2, <2>3, Cleaning, RecovRightFrame
<1>2. CASE Handle \/ ThreadEnds
    <2>1. /\ UNCHANGED <<recov, wanted, failed, flag>> /\ (pts' = pts \/ pts' = Stopped) /\ ~Reply
          /\ pc = "idle" /\ pc' # "record" /\ pc' # "reply"
        BY <1>2 DEF Handle, Entry, ThreadEnds, Reply
    <2>2. Items' = Items /\ (pts'.open => pts.open)
        BY <2>1, NewPts DEF Items
    <2> QED
        BY <2>1, <2>2, Cleaning, RecovRightFrame
<1>3. CASE Superguard
    <2>1. /\ UNCHANGED <<recov, wanted, failed, flag, pc, cur>>
          /\ pts' = pts \/ pts' = Stopped \/ pts' = [pts EXCEPT !.sender = "none"]
        BY <1>3, SuperguardFrame DEF Superguard, Fire, CloseSender, KillPts
    <2>2. Items' = Items /\ (pts'.open => pts.open)
        BY <1>0, <2>1, NewPts DEF Items, Recorded, Added, SetAt, PtsType
    <2>3. pc' = "reply" /\ cur'.call.m = "restart_pts" => ~pts'.open
        BY <2>1, <2>2 DEF RecovRight
    <2>4. ~Reply
        BY <2>1 DEF Reply, Rest
    <2> QED
        BY <2>1, <2>2, <2>3, <2>4, Cleaning, RecovRightFrame
<1>4. CASE Reply
    <2>1. /\ UNCHANGED <<recov, wanted, failed, flag, pts>> /\ pc = "reply" /\ pc' = "idle"
        BY <1>4 DEF Reply, Rest
    <2>2. Items' = Items
        BY <2>1 DEF Items
    <2>3. CASE cur.call.m = "restart_pts"
        <3>1. ~pts.open
            BY <2>1, <2>3 DEF RecovRight
        <3>2. \A n \in Names : wanted'[n] # Unset => wanted[n] # Unset
            BY <2>1
        <3>3. OnePixit(recov)'
            BY <2>1 DEF RecovRight, OnePixit
        <3>4. CleanedUp
            BY <2>1, <2>3 DEF CleanedUp, Calling
        <3>5. \A n \in Names : wanted'[n] = Unset
            BY <2>1, <3>4 DEF Forgotten
        <3> QED
            BY <2>1, <3>1, <3>3, <3>5 DEF RecovRight
    <2>4. CASE cur.call.m # "restart_pts"
        BY <2>1, <2>2, <2>4, Cleaning, RecovRightFrame
    <2> QED
        BY <2>3, <2>4
<1>5. CASE CallPts
    <2>1. /\ UNCHANGED <<recov, flag, failed, cur>> /\ pc = "call"
          /\ cur.call \in SettingCalls \cup {OpenWorkspace}
        BY <1>5 DEF CallPts, Calling, InMethod
    <2>2. cur.call.m # "restart_pts" /\ ~CleanedUp
        <3>1. cur.call.m \notin {"restart_pts", "cleanup_caches"} /\ Busy
            BY <2>1, CallTypes DEF Calling
        <3> QED
            BY <3>1 DEF CleanedUp
    <2>3. Items = recov
        BY <2>1 DEF Items
    <2>4. OnePixit(recov)'
        BY <2>1 DEF RecovRight, OnePixit
    <2>5. CASE ~Accepts(cur.call)
        <3>1. pc' = "reply" /\ UNCHANGED <<pts, wanted>>
            BY <1>5, <2>5 DEF CallPts
        <3>2. Items' = Items
            BY <2>1, <2>3, <3>1 DEF Items
        <3> QED
            BY <2>1, <2>2, <3>1, <3>2, RecovRightFrame
    <2>6. CASE Accepts(cur.call)
        <3>1. pc' = "record" /\ pts' = Effect(cur.call) /\ wanted' = Wants(cur.call)
            BY <1>5, <2>6 DEF CallPts
        <3>2. Items' = Recorded
            <4>1. Items' = Recorded'
                BY <3>1 DEF Items
            <4>2. Recorded' = Recorded
                BY <2>1 DEF Recorded, Added, SetAt
            <4> QED
                BY <4>1, <4>2
        <3>3. ASSUME ~failed
              PROVE  /\ \A n \in Names : wanted'[n] # Unset => Restores(Recorded, n, wanted'[n])
                     /\ pts'.open => Opens(Recorded, Len(Recorded) + 1)
            <4>1. ~flag
                BY <2>1, <3>3 DEF Within, TypeOK, MemoryTypes
            <4>2. \A n \in Names : wanted[n] # Unset => Restores(recov, n, wanted[n])
                BY <2>3, <3>3 DEF RecovRight
            <4>3. pts.open => Opens(recov, Len(recov) + 1)
                BY <2>2, <2>3, <3>3 DEF RecovRight
            <4>4. cur.call.m \in {"set_pixit", "set_pics"} => pts.open
                BY <2>6 DEF Accepts
            <4>5. \A n \in Names : wanted'[n] # Unset => Restores(Recorded, n, wanted'[n])
                BY <2>1, <3>1, <4>1, <4>2, <4>3, <4>4, RecordedRestores
            <4>6. pts'.open => pts.open \/ cur.call = OpenWorkspace
                BY <1>0, <3>1 DEF Effect, PtsType
            <4>7. pts'.open => Opens(Recorded, Len(Recorded) + 1)
                BY <2>1, <4>1, <4>3, <4>6, RecordedOpens
            <4> QED
                BY <4>5, <4>7
        <3>4. ASSUME ~failed', NEW n \in Names, wanted'[n] # Unset
              PROVE  Restores(Items, n, wanted[n])'
            <4>1. Restores(Recorded, n, wanted'[n])
                BY <2>1, <3>3, <3>4
            <4> QED
                BY <3>2, <4>1 DEF Restores, Newest, Opens
        <3>5. ASSUME ~failed', pts'.open
              PROVE  Opens(Items, Len(Items) + 1)'
            <4>1. Opens(Recorded, Len(Recorded) + 1)
                BY <2>1, <3>3, <3>5
            <4> QED
                BY <3>2, <4>1 DEF Opens
        <3> QED
            BY <2>4, <3>1, <3>4, <3>5 DEF RecovRight
    <2> QED
        BY <2>5, <2>6
<1>6. CASE Record
    <2>1. /\ UNCHANGED <<wanted, failed, pts, cur>> /\ pc = "record" /\ pc' = "reply" /\ recov' = Recorded
          /\ cur.call \in SettingCalls \cup {OpenWorkspace}
        BY <1>6 DEF Record, At, Calling, InMethod
    <2>2. Items' = recov' /\ Items = Recorded
        BY <2>1 DEF Items
    <2>3. OnePixit(Recorded)
        BY <2>1, RecordedOnePixit DEF RecovRight
    <2>4. cur.call.m # "restart_pts" /\ ~CleanedUp
        <3>1. cur.call.m \notin {"restart_pts", "cleanup_caches"} /\ Busy
            BY <2>1, CallTypes DEF Calling
        <3> QED
            BY <3>1 DEF CleanedUp
    <2>5. OnePixit(recov)'
        BY <2>1, <2>3 DEF OnePixit
    <2>6. ASSUME ~failed', NEW n \in Names, wanted'[n] # Unset
          PROVE  Restores(Items, n, wanted[n])'
        <3>1. Restores(Recorded, n, wanted[n])
            BY <2>1, <2>2, <2>6 DEF RecovRight
        <3> QED
            BY <2>1, <2>2, <3>1 DEF Restores, Newest, Opens
    <2>7. ASSUME ~failed', pts'.open
          PROVE  Opens(Items, Len(Items) + 1)'
        <3>1. Opens(Recorded, Len(Recorded) + 1)
            BY <2>1, <2>2, <2>4, <2>7 DEF RecovRight
        <3> QED
            BY <2>1, <2>2, <3>1 DEF Opens
    <2> QED
        BY <2>1, <2>4, <2>5, <2>6, <2>7 DEF RecovRight
<1>7. CASE CleanupCaches
    <2>1. /\ recov' = <<>> /\ \A n \in Names : wanted'[n] = Unset
          /\ cur' = cur /\ cur.call.m = "cleanup_caches"
        BY <1>7 DEF CleanupCaches, At, Calling, InMethod
    <2>2. CleanedUp'
        BY <1>7, Cleaning
    <2>3. OnePixit(recov)'
        BY <2>1 DEF OnePixit
    <2> QED
        BY <2>1, <2>2, <2>3 DEF RecovRight
<1>8. CASE ReplayItem
    <2>1. /\ UNCHANGED <<recov, wanted, flag, cur>> /\ pc = "replay" /\ index \in Nat \ {0}
          /\ index <= Len(recov) /\ pc' \in {"replay", "reply"} /\ cur.call.m # "restart_pts"
        BY <1>8 DEF ReplayItem, TypeOK, ThreadTypes, Calling, InMethod
    <2>2. Items' = recov /\ Items = recov
        BY <2>1 DEF Items
    <2>3. CASE failed'
        <3>1. OnePixit(recov)'
            BY <2>1 DEF RecovRight, OnePixit
        <3> QED
            BY <2>1, <2>3, <3>1 DEF RecovRight
    <2>4. CASE ~failed'
        <3>1. /\ failed' = failed
              /\ pts' = IF Accepts(recov[index]) THEN Effect(recov[index]) ELSE pts
            BY <1>8, <2>4 DEF ReplayItem
        <3>2. CASE pts'.open => pts.open
            <4>1. CleanedUp => CleanedUp'
                BY <2>1, Cleaning DEF Reply
            <4> QED
                BY <2>1, <2>2, <3>1, <3>2, <4>1, RecovRightFrame
        <3>3. CASE pts'.open /\ ~pts.open
            <4>1. recov[index] = OpenWorkspace
                BY <1>0, <3>1, <3>3 DEF Effect, PtsType
            <4>2. index \in DOMAIN recov /\ index < Len(recov) + 1
                BY <1>0, <2>1
            <4>3. Opens(recov, Len(recov) + 1)
                BY <4>1, <4>2 DEF Opens
            <4>4. Opens(Items, Len(Items) + 1)'
                BY <2>1, <2>2, <4>3 DEF Opens
            <4>5. OnePixit(recov)'
                BY <2>1 DEF RecovRight, OnePixit
            <4>6. ASSUME NEW n \in Names, wanted'[n] # Unset
                  PROVE  Restores(Items, n, wanted[n])'
                <5>1. Restores(recov, n, wanted[n])
                    BY <2>1, <2>2, <2>4, <3>1, <4>6 DEF RecovRight
                <5> QED
                    BY <2>1, <2>2, <5>1 DEF Restores, Newest, Opens
            <4> QED
                BY <2>1, <4>4, <4>5, <4>6 DEF RecovRight
        <3> QED
            BY <3>2, <3>3
    <2> QED
        BY <2>3, <2>4
<1>9. CASE Inside /\ ~(CallPts \/ Record \/ CleanupCaches \/ ReplayItem)
    <2>1. /\ UNCHANGED <<recov, wanted, failed>> /\ pc # "record" /\ pc' # "record"
        BY <1>9 DEF Inside, StopPts, Recover, RestartPts, StartPts, StartFails, Recovered, Reopen,
                    RunTestCase, GetTestCaseStatus, RevertItem, Reverted, StopTestCase, At, Restarted
    <2>2. Items' = Items
        BY <2>1 DEF Items
    <2>3. ~Reply
        BY <1>9, InsidePlaces DEF Reply
    <2>4. /\ pts'.open => pts.open
          /\ pc' = "reply" /\ cur'.call.m = "restart_pts" => ~pts'.open
        BY <1>9, OpenStays
    <2> QED
        BY <2>1, <2>2, <2>3, <2>4, Cleaning, RecovRightFrame
<1> QED
    BY <1>1, <1>2, <1>3, <1>4, <1>5, <1>6, <1>7, <1>8, <1>9, Steps

(* Outside of these places what is pending are the temporary changes.       *)
LEMMA PendingChanges ==
    /\ pc \notin {"replay", "revert", "record"} => Pending = ToSet(temp)
    /\ pc' \notin {"replay", "revert", "record"} => Pending' = ToSet(temp')
    /\ pc = "record" /\ cur.call.m # "update_pixit_param" => Pending = ToSet(temp)
    /\ pc' = "record" /\ cur'.call.m # "update_pixit_param" => Pending' = ToSet(temp')
    /\ pc = "record" /\ cur.call.m = "update_pixit_param" => Pending = ToSet(temp) \cup {cur.call.key}
    /\ pc' = "record" /\ cur'.call.m = "update_pixit_param" =>
           Pending' = ToSet(temp') \cup {cur'.call.key}
BY DEF Pending, ToSet

LEMMA ValuesRightFrame ==
    ASSUME ValuesRight, wanted' = wanted, failed' = failed,
           pts'.up => pts.up /\ pts'.value = pts.value,
           Pending \subseteq Pending', pc' # "replay"
    PROVE  ValuesRight'
BY DEF ValuesRight

(* A call of recover_pts: the values of the items that were passed.         *)
LEMMA ReplayValues ==
    ASSUME TypeOK, Calling, SettledInv, ReplayItem
    PROVE  ValuesRight'
<1> USE DEF SettledInv
<1> DEFINE c == recov[index]
<1>0. /\ pts \in PtsType /\ recov \in Seq(Recordable) /\ index \in Nat \ {0}
      /\ wanted \in [Names -> Values \cup Timeouts \cup {Default, Unset}]
    BY DEF TypeOK, PtsTypes, PtsType, MemoryTypes, ThreadTypes
<1>1. /\ UNCHANGED <<recov, wanted, cur, temp>> /\ pc = "replay" /\ index <= Len(recov)
    BY DEF ReplayItem
<1>2. CASE pc' = "reply" /\ failed' = TRUE
    BY <1>2 DEF ValuesRight
<1>3. CASE /\ Passes(c) /\ pts' = (IF Accepts(c) THEN Effect(c) ELSE pts)
           /\ index' = index + 1 /\ pc' = pc /\ failed' = failed
    <2>1. index \in DOMAIN recov /\ DOMAIN recov = 1 .. Len(recov) /\ c \in Recordable
        BY <1>0, <1>1
    <2>2. pts.up
        BY <1>3 DEF Passes, Accepts
    <2>3. ASSUME NEW n \in Names \ Pending', wanted'[n] # Unset, pts'.up, ~failed'
          PROVE  pts'.value[n] = wanted'[n]
        <3>1. Restores(recov, n, wanted[n]) /\ wanted'[n] = wanted[n] /\ wanted[n] # Unset
            BY <1>1, <1>3, <2>3 DEF RecovRight, Items
        <3>2. \A i \in DOMAIN recov : i >= index + 1 => ~Newest(recov, n, i)
            <4>1. Pending' = {o \in Names : \E i \in DOMAIN recov : i >= index + 1 /\ Newest(recov, o, i)}
                BY <1>1, <1>3 DEF Pending, Newest
            <4> QED
                BY <2>3, <4>1
        <3>3. CASE Newest(recov, n, index)
            <4>1. c.val = wanted[n] /\ c.key = n /\ (n # "timeout" => Opens(recov, index))
                <5>1. c.key = n
                    BY <3>3 DEF Newest
                <5>2. PICK i \in DOMAIN recov : Newest(recov, n, i) /\ recov[i].val = wanted[n]
                                                /\ (n # "timeout" => Opens(recov, i))
                    BY <2>1, <3>1, <5>1 DEF Restores
                <5>3. ~(index > i) /\ ~(i > index)
                    BY <2>1, <3>3, <5>2 DEF Newest
                <5>4. i = index
                    BY <1>0, <2>1, <5>3
                <5> QED
                    BY <5>1, <5>2, <5>4
            <4>2. c # OpenWorkspace
                BY <2>1, <4>1, ItemKeys
            <4>3. CASE Accepts(c)
                <5>1. pts' = [pts EXCEPT !.value[c.key] = c.val]
                    BY <1>3, <4>2, <4>3 DEF Effect
                <5> HIDE DEF c
                <5> QED
                    BY <1>0, <3>1, <4>1, <5>1 DEF PtsType
            <4>4. CASE ~Accepts(c)
                <5>1. c.m = "set_pics" /\ pts' = pts
                    BY <1>3, <4>4 DEF Passes
                <5>2. n # "timeout"
                    BY <2>1, <4>1, <5>1, ItemKeys
                <5>3. pts.open
                    BY <1>1, <2>2, <4>1, <5>2 DEF ValuesRight
                <5>4. pts.value[c.key] = c.val
                    BY <2>2, <4>4, <5>3 DEF Accepts
                <5> QED
                    BY <3>1, <4>1, <5>1, <5>4
            <4> QED
                BY <4>3, <4>4
        <3>4. CASE ~Newest(recov, n, index)
            <4>1. \A i \in DOMAIN recov : i >= index => ~Newest(recov, n, i)
                <5>1. \A i \in DOMAIN recov : i >= index => i = index \/ i >= index + 1
                    BY <1>0, <2>1
                <5> QED
                    BY <3>2, <3>4, <5>1
            <4>2. n \notin Pending
                BY <1>1, <4>1 DEF Pending
            <4>3. pts.value[n] = wanted[n]
                BY <1>3, <2>2, <2>3, <3>1, <4>2 DEF ValuesRight
            <4>4. c.key # n /\ (n # "timeout" => c # OpenWorkspace)
                <5>1. CASE \A i \in DOMAIN recov : recov[i].key # n
                    <6>1. c.key # n
                        BY <2>1, <5>1
                    <6>2. n = "timeout"
                        BY <3>1, <5>1 DEF Restores, Newest
                    <6> QED
                        BY <6>1, <6>2
                <5>2. CASE ~(\A i \in DOMAIN recov : recov[i].key # n)
                    <6>1. PICK i \in DOMAIN recov : Newest(recov, n, i)
                        BY <3>1, <5>2 DEF Restores
                    <6>2. index > i
                        BY <1>0, <2>1, <4>1, <6>1
                    <6> QED
                        BY <2>1, <6>1, <6>2 DEF Newest
                <5> QED
                    BY <5>1, <5>2
            <4>5. CASE Accepts(c) /\ c = OpenWorkspace
                <5>1. pts' = [pts EXCEPT !.open = TRUE,
                                 !.value = [Defaults EXCEPT !["timeout"] = pts.value["timeout"]]]
                    BY <1>3, <4>5 DEF Effect
                <5>2. n = "timeout"
                    BY <4>4, <4>5
                <5> HIDE DEF c
                <5>3. pts'.value = [Defaults EXCEPT !["timeout"] = pts.value["timeout"]]
                    BY <1>0, <5>1 DEF PtsType
                <5> QED
                    BY <3>1, <4>3, <5>2, <5>3 DEF Defaults
            <4>6. CASE Accepts(c) /\ c # OpenWorkspace
                <5>1. pts' = [pts EXCEPT !.value[c.key] = c.val]
                    BY <1>3, <4>6 DEF Effect
                <5> HIDE DEF c
                <5> QED
                    BY <1>0, <3>1, <4>3, <4>4, <5>1 DEF PtsType
            <4>7. CASE ~Accepts(c)
                BY <1>3, <3>1, <4>3, <4>7
            <4> QED
                BY <4>5, <4>6, <4>7
        <3> QED
            BY <3>3, <3>4
    <2>4. ASSUME Opens(recov, index)', pts'.up
          PROVE  pts'.open
        <3>1. PICK j \in DOMAIN recov : j < index + 1 /\ recov[j] = OpenWorkspace
            BY <1>1, <1>3, <2>4 DEF Opens
        <3>2. CASE j = index
            <4>1. Accepts(c) /\ c = OpenWorkspace
                BY <1>3, <3>1, <3>2, CallTypes DEF Passes
            <4>2. pts' = [pts EXCEPT !.open = TRUE,
                             !.value = [Defaults EXCEPT !["timeout"] = pts.value["timeout"]]]
                BY <1>3, <4>1 DEF Effect
            <4> QED
                BY <1>0, <4>2 DEF PtsType
        <3>3. CASE j # index
            <4>1. j < index
                BY <1>0, <2>1, <3>1, <3>3
            <4>2. pts.open
                BY <1>1, <2>2, <3>1, <4>1 DEF ValuesRight, Opens
            <4>3. pts'.open = pts.open \/ pts'.open
                BY <1>0, <1>3 DEF Effect, PtsType
            <4> QED
                BY <4>2, <4>3
        <3> QED
            BY <3>2, <3>3
    <2> QED
        BY <2>3, <2>4 DEF ValuesRight
<1> QED
    BY <1>2, <1>3 DEF ReplayItem

(* The revert of a temporary change.                                        *)
LEMMA RevertValues ==
    ASSUME TypeOK, Calling, SettledInv, RevertItem
    PROVE  ValuesRight'
<1> USE DEF SettledInv
<1> DEFINE name == temp[index]
           items == SetAt(name)
           item == recov[Min(items)]
<1>0. /\ pts \in PtsType /\ recov \in Seq(Recordable) /\ index \in Nat \ {0} /\ temp \in Seq(Pixits)
      /\ wanted \in [Names -> Values \cup Timeouts \cup {Default, Unset}]
    BY DEF TypeOK, PtsTypes, PtsType, MemoryTypes, ThreadTypes
<1>1. /\ UNCHANGED <<recov, wanted, cur, temp, failed>> /\ pc = "revert" /\ index <= Len(temp)
    BY DEF RevertItem
<1>2. /\ index \in 1 .. Len(temp) /\ name \in Pixits /\ name # "timeout"
      /\ Len(temp) \in Nat /\ DOMAIN temp = 1 .. Len(temp)
    BY <1>0, <1>1, ItemKeys
<1>3. Pending = {temp[i] : i \in index .. Len(temp)}
    BY <1>1 DEF Pending
<1>4. ASSUME wanted[name] # Unset, ~failed
      PROVE  items # {} /\ item.key = name /\ item.val = wanted[name] /\ item # OpenWorkspace
    <2>1. name \in Names
        BY <1>2 DEF Names
    <2>2. Restores(recov, name, wanted[name])
        BY <1>1, <1>4, <2>1 DEF RecovRight, Items
    <2> HIDE DEF name
    <2>3. PICK i \in DOMAIN recov : recov[i].key = name /\ recov[i].val = wanted[name]
        BY <1>2, <2>2 DEF Restores, Newest
    <2>4. recov[i] \in Recordable
        BY <1>0, <2>3
    <2>5. i \in items
        BY <1>2, <2>3, <2>4, ItemKeys DEF SetAt
    <2>6. items \in SUBSET Nat
        BY <1>0 DEF SetAt
    <2>7. Min(items) \in items
        BY <2>5, <2>6, LeastNatural
    <2>8. Min(items) = i
        BY <2>5, <2>7 DEF SetAt, RecovRight, OnePixit
    <2> QED
        BY <2>3, <2>4, <2>5, <2>8, ItemKeys DEF SetAt
<1>5. CASE items = {} /\ index' = index + 1 /\ UNCHANGED <<pc, pts>>
    <2>1. Pending' = {temp[i] : i \in index + 1 .. Len(temp)}
        BY <1>1, <1>5 DEF Pending
    <2>2. Pending \subseteq Pending' \cup {name}
        BY <1>2, <1>3, <2>1
    <2>3. ASSUME NEW n \in Names \ Pending', wanted'[n] # Unset, pts'.up, ~failed'
          PROVE  pts'.value[n] = wanted'[n]
        <3>1. n # name
            BY <1>1, <1>4, <1>5, <2>3
        <3> QED
            BY <1>1, <1>5, <2>2, <2>3, <3>1 DEF ValuesRight
    <2> QED
        BY <1>1, <1>5, <2>3 DEF ValuesRight
<1>6. CASE items # {} /\ Accepts(item) /\ pts' = Effect(item) /\ index' = index + 1 /\ pc' = pc
    <2>1. Pending' = {temp[i] : i \in index + 1 .. Len(temp)}
        BY <1>1, <1>6 DEF Pending
    <2>2. Pending \subseteq Pending' \cup {name}
        BY <1>2, <1>3, <2>1
    <2>3. item.key = name /\ item # OpenWorkspace
        <3>1. items \in SUBSET Nat
            BY <1>0 DEF SetAt
        <3>2. Min(items) \in items
            BY <1>6, <3>1, LeastNatural
        <3> QED
            BY <3>2, CallTypes DEF SetAt
    <2>4. pts' = [pts EXCEPT !.value[item.key] = item.val] /\ pts.up
        BY <1>6, <2>3 DEF Effect, Accepts
    <2> HIDE DEF item, items
    <2>5. /\ \A n \in Names : n # name => pts'.value[n] = pts.value[n]
          /\ name \in Names /\ pts'.value[name] = item.val
        <3>1. name \in Names
            BY <1>2 DEF Names
        <3> HIDE DEF name
        <3> QED
            BY <1>0, <2>3, <2>4, <3>1 DEF PtsType
    <2>6. ASSUME NEW n \in Names \ Pending', wanted'[n] # Unset, pts'.up, ~failed'
          PROVE  pts'.value[n] = wanted'[n]
        <3>1. CASE n = name
            BY <1>1, <1>4, <2>5, <2>6, <3>1
        <3>2. CASE n # name
            BY <1>1, <2>2, <2>4, <2>5, <2>6, <3>2 DEF ValuesRight
        <3> QED
            BY <3>1, <3>2
    <2> QED
        BY <1>1, <1>6, <2>6 DEF ValuesRight
<1>7. CASE pc' = "except" /\ UNCHANGED <<pts, index>>
    <2>1. Pending' = ToSet(temp')
        BY <1>7, PendingChanges
    <2>2. Pending \subseteq Pending'
        BY <1>1, <1>2, <1>3, <2>1 DEF ToSet
    <2> QED
        BY <1>1, <1>7, <2>2, ValuesRightFrame
<1> QED
    BY <1>5, <1>6, <1>7 DEF RevertItem

(* A call of the client that sets a value.                                  *)
LEMMA CallValues ==
    ASSUME TypeOK, Calling, SettledInv, CallPts
    PROVE  ValuesRight'
<1> USE DEF SettledInv
<1> DEFINE c == cur.call
<1>0. /\ pts \in PtsType /\ wanted \in [Names -> Values \cup Timeouts \cup {Default, Unset}]
    BY DEF TypeOK, PtsTypes, PtsType, MemoryTypes
<1>1. /\ UNCHANGED <<recov, temp, flag, failed, cur>> /\ pc = "call"
      /\ c \in SettingCalls \cup {OpenWorkspace}
    BY DEF CallPts, Calling, InMethod
<1>2. Pending = ToSet(temp)
    BY <1>1, PendingChanges
<1>3. CASE ~Accepts(c)
    <2>1. pc' = "reply" /\ UNCHANGED <<pts, wanted>>
        BY <1>3 DEF CallPts
    <2>2. Pending' = ToSet(temp')
        BY <2>1, PendingChanges
    <2> QED
        BY <1>1, <1>2, <2>1, <2>2, ValuesRightFrame
<1>4. CASE Accepts(c)
    <2>1. pc' = "record" /\ pts' = Effect(c) /\ wanted' = Wants(c) /\ pts.up
        BY <1>4 DEF CallPts, Accepts
    <2>2. ToSet(temp) \subseteq Pending'
        BY <1>1, <2>1, PendingChanges
    <2>3. ASSUME NEW n \in Names \ Pending', wanted'[n] # Unset, ~failed'
          PROVE  pts'.value[n] = wanted'[n]
        <3>1. wanted[n] # Unset => pts.value[n] = wanted[n]
            BY <1>1, <1>2, <2>1, <2>2, <2>3 DEF ValuesRight
        <3>2. CASE c = OpenWorkspace
            <4>1. wanted' = [o \in Names |-> IF o = "timeout" THEN wanted[o] ELSE Unset]
                BY <2>1, <3>2, CallTypes DEF Wants
            <4>2. pts' = [pts EXCEPT !.open = TRUE,
                             !.value = [Defaults EXCEPT !["timeout"] = pts.value["timeout"]]]
                BY <2>1, <3>2 DEF Effect
            <4> HIDE DEF c
            <4>3. n = "timeout" /\ wanted'[n] = wanted[n]
                BY <2>3, <4>1
            <4>4. pts'.value = [Defaults EXCEPT !["timeout"] = pts.value["timeout"]]
                BY <1>0, <4>2 DEF PtsType
            <4> QED
                BY <2>3, <3>1, <4>3, <4>4 DEF Defaults
        <3>3. CASE c # OpenWorkspace /\ c.m = "update_pixit_param"
            <4>1. wanted' = wanted
                BY <2>1, <3>3 DEF Wants
            <4>2. pts' = [pts EXCEPT !.value[c.key] = c.val]
                BY <2>1, <3>3 DEF Effect
            <4>3. n # c.key
                BY <1>1, <2>1, <2>3, <3>3, PendingChanges
            <4> HIDE DEF c
            <4>4. pts'.value[n] = pts.value[n]
                BY <1>0, <4>2, <4>3 DEF PtsType
            <4> QED
                BY <2>3, <3>1, <4>1, <4>4
        <3>4. CASE c # OpenWorkspace /\ c.m # "update_pixit_param"
            <4>1. wanted' = [wanted EXCEPT ![c.key] = c.val]
                BY <2>1, <3>4 DEF Wants
            <4>2. pts' = [pts EXCEPT !.value[c.key] = c.val]
                BY <2>1, <3>4 DEF Effect
            <4> HIDE DEF c
            <4>3. CASE n = c.key
                BY <1>0, <4>1, <4>2, <4>3 DEF PtsType
            <4>4. CASE n # c.key
                <5>1. wanted'[n] = wanted[n] /\ pts'.value[n] = pts.value[n]
                    BY <1>0, <4>1, <4>2, <4>4 DEF PtsType
                <5> QED
                    BY <2>3, <3>1, <5>1
            <4> QED
                BY <4>3, <4>4
        <3> QED
            BY <3>2, <3>3, <3>4
    <2> QED
        BY <2>1, <2>3 DEF ValuesRight
<1> QED
    BY <1>3, <1>4

LEMMA ValuesRightStep ==
    ASSUME TypeOK, Calling, SettledInv, [Next]_vars
    PROVE  ValuesRight'
<1> USE DEF SettledInv
<1>0. pts \in PtsType /\ recov \in Seq(Recordable) /\ temp \in Seq(Pixits) /\ flag \in BOOLEAN
    BY DEF TypeOK, PtsTypes, PtsType, MemoryTypes
<1>1. CASE (\E c \in Calls : Dispatch(c)) \/ GetReply \/ GetResult \/ Abandon \/ Fire \/ UNCHANGED vars
    <2>1. UNCHANGED <<recov, temp, wanted, failed, pts, pc, cur, index>>
        BY <1>1 DEF Dispatch, GetReply, GetResult, Abandon, Fire
    <2> QED
        BY <2>1 DEF ValuesRight, Pending, Newest, Opens, ToSet
<1>2. CASE CloseSender
    <2>1. UNCHANGED <<recov, temp, wanted, failed, pc, cur, index>> /\ pts' = [pts EXCEPT !.sender = "none"]
        BY <1>2 DEF CloseSender
    <2>2. pts'.up = pts.up /\ pts'.open = pts.open /\ pts'.value = pts.value
        BY <1>0, <2>1 DEF PtsType
    <2> QED
        BY <2>1, <2>2 DEF ValuesRight, Pending, Newest, Opens, ToSet
<1>3. CASE Handle \/ Reply
    <2>1. /\ UNCHANGED <<temp, wanted, failed, pts>> /\ pc \in {"idle", "reply"}
          /\ pc' \notin {"replay", "revert", "record"}
        BY <1>3 DEF Handle, Entry, Reply, Rest
    <2>2. Pending' = ToSet(temp') /\ Pending = ToSet(temp)
        BY <2>1, PendingChanges
    <2> QED
        BY <2>1, <2>2, ValuesRightFrame
<1>4. CASE ThreadEnds \/ KillPts \/ StopPts \/ StartFails
    <2>1. pts' = Stopped
        BY <1>4 DEF ThreadEnds, KillPts, StopPts, StartFails
    <2> QED
        BY <2>1, NewPts DEF ValuesRight
<1>5. CASE RestartPts
    <2>1. pts' = Stopped \/ (pts' = pts /\ ~pts.up)
        BY <1>5 DEF RestartPts, Within
    <2>2. ~pts'.up
        BY <2>1, NewPts
    <2> QED
        BY <2>2 DEF ValuesRight
<1>6. CASE Record
    <2>1. /\ UNCHANGED <<wanted, failed, pts, cur>> /\ pc = "record" /\ pc' = "reply"
          /\ temp' = IF cur.call.m = "update_pixit_param" /\ ~flag
                     THEN Append(temp, cur.call.key) ELSE temp
        BY <1>6 DEF Record, At
    <2>2. CASE failed
        BY <2>1, <2>2 DEF ValuesRight
    <2>3. CASE ~failed
        <3>1. ~flag
            BY <1>0, <2>1, <2>3 DEF Within
        <3>2. Pending' = ToSet(temp')
            BY <2>1, PendingChanges
        <3>3. CASE cur.call.m # "update_pixit_param"
            BY <2>1, <3>2, <3>3, PendingChanges, ValuesRightFrame
        <3>4. CASE cur.call.m = "update_pixit_param"
            <4>1. cur.call.key \in Pixits
                BY <2>1, <3>4, CallTypes DEF Calling, InMethod
            <4>2. /\ \A i \in DOMAIN temp : i \in DOMAIN Append(temp, cur.call.key)
                                            /\ Append(temp, cur.call.key)[i] = temp[i]
                  /\ Len(temp) + 1 \in DOMAIN Append(temp, cur.call.key)
                  /\ Append(temp, cur.call.key)[Len(temp) + 1] = cur.call.key
                <5>1. /\ Append(temp, cur.call.key) \in Seq(Pixits)
                      /\ Len(Append(temp, cur.call.key)) = Len(temp) + 1
                      /\ \A i \in 1 .. Len(temp) : Append(temp, cur.call.key)[i] = temp[i]
                      /\ Append(temp, cur.call.key)[Len(temp) + 1] = cur.call.key
                    BY <1>0, <4>1, AppendProperties
                <5>2. DOMAIN temp = 1 .. Len(temp) /\ Len(temp) \in Nat
                      /\ DOMAIN Append(temp, cur.call.key) = 1 .. Len(temp) + 1
                    BY <1>0, <5>1
                <5> QED
                    BY <5>1, <5>2
            <4>3. temp' = Append(temp, cur.call.key)
                BY <2>1, <3>1, <3>4
            <4>4. ToSet(temp) \cup {cur.call.key} \subseteq ToSet(Append(temp, cur.call.key))
                BY <4>2 DEF ToSet
            <4>5. Pending \subseteq Pending'
                BY <2>1, <3>2, <3>4, <4>3, <4>4, PendingChanges
            <4> QED
                BY <2>1, <4>5, ValuesRightFrame
        <3> QED
            BY <3>3, <3>4
    <2> QED
        BY <2>2, <2>3
<1>7. CASE CleanupCaches
    <2>1. pc' = "reply" /\ \A n \in Names : wanted'[n] = Unset
        BY <1>7 DEF CleanupCaches, At
    <2> QED
        BY <2>1 DEF ValuesRight
<1>8. CASE StartPts
    <2>1. /\ UNCHANGED <<recov, wanted, failed, index, cur>> /\ pc = "start" /\ pts' = Started
          /\ pc' = Restarted /\ index = 1
        BY <1>8 DEF StartPts, At, Within
    <2>2. CASE cur.call.m = "restart_pts"
        <3>1. CleanedUp /\ pc' = "reply"
            BY <2>1, <2>2 DEF CleanedUp, Calling, Restarted
        <3>2. \A n \in Names : wanted'[n] = Unset
            BY <2>1, <3>1 DEF Forgotten
        <3> QED
            BY <3>1, <3>2 DEF ValuesRight
    <2>3. CASE cur.call.m # "restart_pts"
        <3>1. pc' = "replay" /\ index' = 1 /\ pts'.value = Defaults
            BY <2>1, <2>3, NewPts DEF Restarted
        <3>2. DOMAIN recov = 1 .. Len(recov) /\ \A i \in DOMAIN recov : i >= 1 /\ ~(i < 1)
            BY <1>0
        <3>3. ASSUME NEW n \in Names \ Pending', wanted'[n] # Unset, ~failed'
              PROVE  pts'.value[n] = wanted'[n]
            <4>1. Pending' = {o \in Names : \E i \in DOMAIN recov : i >= 1 /\ Newest(recov, o, i)}
                BY <2>1, <3>1 DEF Pending, Newest
            <4>2. \A i \in DOMAIN recov : ~Newest(recov, n, i)
                BY <3>2, <3>3, <4>1
            <4>3. Restores(recov, n, wanted[n])
                BY <2>1, <3>3 DEF RecovRight, Items
            <4>4. wanted[n] = Default
                BY <4>2, <4>3 DEF Restores
            <4> QED
                BY <2>1, <3>1, <4>4 DEF Defaults
        <3>4. ~Opens(recov, index)'
            BY <2>1, <3>1, <3>2 DEF Opens
        <3> QED
            BY <3>3, <3>4 DEF ValuesRight
    <2> QED
        BY <2>2, <2>3
<1>9. CASE Recovered
    <2>1. /\ UNCHANGED <<recov, wanted, failed, pts, temp>> /\ pc = "replay" /\ pc' = "reply"
          /\ index > Len(recov) /\ index \in Nat
        BY <1>9 DEF Recovered, At, TypeOK, ThreadTypes
    <2>2. \A i \in DOMAIN recov : ~(i >= index)
        BY <1>0, <2>1
    <2>3. Pending = {}
        BY <2>1, <2>2 DEF Pending
    <2> QED
        BY <2>1, <2>3, ValuesRightFrame
<1>10. CASE Recover \/ Reopen \/ RunTestCase \/ StopTestCase
    <2>1. /\ UNCHANGED <<wanted, failed, temp>>
          /\ \/ pts' = pts \/ pts' = [pts EXCEPT !.sender = "open"]
             \/ pts' = [pts EXCEPT !.sender = "closed"]
          /\ pc \notin {"replay", "revert", "record"} /\ pc' \notin {"replay", "revert", "record"}
        BY <1>10 DEF Recover, Reopen, RunTestCase, StopTestCase, At
    <2>2. pts'.up = pts.up /\ pts'.value = pts.value
        BY <1>0, <2>1 DEF PtsType
    <2>3. Pending' = ToSet(temp') /\ Pending = ToSet(temp)
        BY <2>1, PendingChanges
    <2> QED
        BY <2>1, <2>2, <2>3, ValuesRightFrame
<1>11. CASE GetTestCaseStatus
    <2>1. /\ UNCHANGED <<wanted, failed, temp, pts>> /\ pc = "status" /\ index' = 1
          /\ pc' \in {"reply", "revert", "except"}
        BY <1>11 DEF GetTestCaseStatus
    <2>2. Pending = ToSet(temp)
        BY <2>1, PendingChanges
    <2>3. Pending' = ToSet(temp)
        <3>1. CASE pc' = "revert"
            <4>1. Pending' = {temp[i] : i \in 1 .. Len(temp)}
                BY <2>1, <3>1 DEF Pending
            <4> QED
                BY <1>0, <4>1 DEF ToSet
        <3>2. CASE pc' # "revert"
            BY <2>1, <3>2, PendingChanges
        <3> QED
            BY <3>1, <3>2
    <2> QED
        BY <2>1, <2>2, <2>3, ValuesRightFrame
<1>12. CASE Reverted
    <2>1. /\ UNCHANGED <<wanted, failed, pts>> /\ pc = "revert" /\ pc' = "reply"
          /\ index > Len(temp) /\ index \in Nat
        BY <1>12 DEF Reverted, At, TypeOK, ThreadTypes
    <2>2. index .. Len(temp) = {}
        BY <1>0, <2>1
    <2>3. Pending = {}
        BY <2>1, <2>2 DEF Pending
    <2> QED
        BY <2>1, <2>3, ValuesRightFrame
<1>13. CASE CallPts
    BY <1>13, CallValues
<1>14. CASE ReplayItem
    BY <1>14, ReplayValues
<1>15. CASE RevertItem
    BY <1>15, RevertValues
<1> QED
    BY <1>1, <1>2, <1>3, <1>4, <1>5, <1>6, <1>7, <1>8, <1>9, <1>10, <1>11, <1>12, <1>13, <1>14,
       <1>15, Steps DEF Inside, Superguard

(* A session begins with a workspace that is open and one PIXIT set.        *)
LEMMA SettledInit == Init => SettledInv
<1> SUFFICES ASSUME Init PROVE SettledInv
    OBVIOUS
<1>1. /\ recov = <<OpenWorkspace, FirstPixit>> /\ temp = <<>> /\ pc = "idle" /\ requests = <<>>
      /\ ~failed /\ ~flag /\ ~end /\ ~Busy /\ caller.m = "stop_pts"
      /\ pts = [Started EXCEPT !.open = TRUE, !.value[FirstPixit.key] = FirstPixit.val]
      /\ wanted = [n \in Names |-> IF n = FirstPixit.key THEN FirstPixit.val ELSE Unset]
    BY DEF Init, Busy
<1>2. /\ FirstPixit.key \in Names /\ FirstPixit.key # "timeout" /\ FirstPixit # OpenWorkspace
      /\ FirstPixit.m = "set_pixit" /\ OpenWorkspace.m # "set_pixit" /\ OpenWorkspace.key # FirstPixit.key
    BY FirstIs, CallTypes, NamesAssumption
<1>3. /\ DOMAIN recov = {1, 2} /\ recov[1] = OpenWorkspace /\ recov[2] = FirstPixit /\ Len(recov) + 1 = 3
    BY <1>1
<1>4. Within /\ InOrder
    BY <1>1 DEF Within, InOrder
<1>5. ~CleanedUp
    BY <1>1 DEF CleanedUp
<1>6. OnePixit(recov)
    BY <1>2, <1>3 DEF OnePixit
<1>7. Opens(recov, 2) /\ Opens(recov, 3)
    BY <1>3 DEF Opens
<1>8. Restores(recov, FirstPixit.key, FirstPixit.val)
    <2>1. Newest(recov, FirstPixit.key, 2)
        BY <1>3 DEF Newest
    <2> QED
        BY <1>3, <1>7, <2>1 DEF Restores
<1>9. RecovRight
    <2>1. Items = recov
        BY <1>1 DEF Items
    <2>2. \A n \in Names : wanted[n] # Unset => n = FirstPixit.key /\ wanted[n] = FirstPixit.val
        BY <1>1
    <2>3. \A n \in Names : wanted[n] # Unset => Restores(Items, n, wanted[n])
        BY <1>8, <2>1, <2>2
    <2>4. Opens(Items, Len(Items) + 1)
        <3>1. Len(Items) + 1 = 3
            BY <1>3, <2>1
        <3>2. Opens(recov, Len(Items) + 1)
            BY <1>7, <3>1
        <3> QED
            BY <2>1, <3>2
    <2> QED
        BY <1>1, <1>6, <2>3, <2>4 DEF RecovRight
<1>10. ValuesRight
    <2>1. \A n \in Names : wanted[n] # Unset => n = FirstPixit.key /\ wanted[n] = FirstPixit.val
        BY <1>1
    <2>2. pts.value[FirstPixit.key] = FirstPixit.val
        BY <1>1, <1>2 DEF Started, Defaults
    <2> QED
        BY <1>1, <2>1, <2>2 DEF ValuesRight
<1> QED
    BY <1>4, <1>5, <1>9, <1>10 DEF SettledInv, Forgotten

LEMMA SettledStep == ReplyInv /\ SettledInv /\ [Next]_vars => SettledInv'
BY WithinStep, InOrderStep, ForgottenStep, RecovRightStep, ValuesRightStep DEF SettledInv, ReplyInv

(* The recovery list, the temporary changes and PTS agree with what was     *)
(* set for good, in every place of every method.                            *)
THEOREM SettledInvariance == Spec => []SettledInv
BY ReplyInvariance, SettledInit, SettledStep, PTL DEF Spec

(* Between two methods a PTS that runs has every value that was set for     *)
(* good, but for temporary changes that were not reverted, and unless a     *)
(* recovery raised.                                                         *)
THEOREM PtsSettled == Spec => []Settled
<1>1. SettledInv => Settled
    BY PendingChanges DEF SettledInv, ValuesRight, Settled
<1> QED
    BY <1>1, SettledInvariance, PTL
=============================================================================
