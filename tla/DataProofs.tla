----------------------------- MODULE DataProofs -----------------------------
(***************************************************************************)
(* Facts about numbers and sequences that the proofs about several modules *)
(* need.                                                                   *)
(***************************************************************************)
EXTENDS SequencesExt, FiniteSetTheorems, SequenceTheorems, WellFoundedInduction, TLAPS

(* The solvers know the other Boolean constant to be one.                   *)
LEMMA FalseIsBoolean == \A b : b = FALSE => b \in BOOLEAN
OBVIOUS

(* A set of naturals that is not empty has a least element.                 *)
LEMMA LeastNatural ==
    ASSUME NEW S \in SUBSET Nat, S # {}
    PROVE  Min(S) \in S /\ \A y \in S : Min(S) <= y
<1> DEFINE Initial == {0 .. n : n \in S}
<1>1. Initial \subseteq FiniteSubsetsOf(Nat) /\ Initial # {}
    <2>1. \A n \in S : 0 .. n \in SUBSET Nat /\ IsFiniteSet(0 .. n)
        BY FS_Interval
    <2> QED
        BY <2>1 DEF FiniteSubsetsOf
<1>2. PICK I \in Initial : \A J \in Initial : <<J, I>> \notin StrictSubsetOrdering(Nat)
    BY <1>1, WFMin, FS_StrictSubsetOrderingWellFounded
<1>3. PICK m \in S : I = 0 .. m
    BY <1>2
<1>4. ASSUME NEW y \in S, y < m
      PROVE  FALSE
    <2>1. 0 .. y \in Initial /\ 0 .. y \subseteq I /\ 0 .. y # I
        BY <1>3, <1>4
    <2> QED
        BY <1>1, <1>2, <2>1 DEF StrictSubsetOrdering, FiniteSubsetsOf
<1>5. m \in S /\ \A y \in S : m <= y
    BY <1>4
<1> QED
    BY <1>5 DEF Min

(* What holds at 0 and goes up by one holds up to m.                        *)
LEMMA Climb ==
    ASSUME NEW m \in Nat, NEW S, 0 \in S,
           \A n \in 0 .. m : n \in S /\ n < m => n + 1 \in S
    PROVE  \A n \in 0 .. m : n \in S
<1> DEFINE bad == {n \in 0 .. m : n \notin S}
<1>1. ASSUME bad # {} PROVE FALSE
    <2>1. Min(bad) \in bad /\ \A y \in bad : Min(bad) <= y
        BY <1>1, LeastNatural
    <2>2. PICK b \in 0 .. m : b \notin S /\ \A y \in bad : b <= y
        BY <2>1
    <2>3. b # 0 /\ b - 1 \in 0 .. m /\ b - 1 < m /\ ~(b <= b - 1)
        BY <2>2
    <2>4. b - 1 \in S
        BY <2>2, <2>3
    <2>5. (b - 1) + 1 \in S /\ (b - 1) + 1 = b
        BY <2>3, <2>4
    <2> QED
        BY <2>2, <2>5
<1> QED
    BY <1>1

(* t is s with some items left out: e says where its items stand in s.      *)
Thinned(t, s, e) ==
    /\ e \in [1 .. Len(t) -> 1 .. Len(s)]
    /\ \A k \in 1 .. Len(t) : t[k] = s[e[k]]
    /\ \A j, k \in 1 .. Len(t) : j < k => e[j] < e[k]

(* One element of a sequence is removed.                                    *)
LEMMA RemovedElements ==
    ASSUME NEW S, NEW s \in Seq(S), NEW k \in DOMAIN s
    PROVE  /\ RemoveAt(s, k) \in Seq(S)
           /\ Len(RemoveAt(s, k)) = Len(s) - 1
           /\ \A j \in 1 .. Len(s) - 1 : RemoveAt(s, k)[j] = IF j < k THEN s[j] ELSE s[j + 1]
<1>1. Len(s) \in Nat /\ DOMAIN s = 1 .. Len(s) /\ k \in 1 .. Len(s) /\ \A j \in 1 .. Len(s) : s[j] \in S
    OBVIOUS
<1>2. /\ SubSeq(s, 1, k - 1) \in Seq(S) /\ Len(SubSeq(s, 1, k - 1)) = k - 1
      /\ \A j \in 1 .. k - 1 : SubSeq(s, 1, k - 1)[j] = s[j]
    BY <1>1, SubSeqProperties
<1>3. /\ SubSeq(s, k + 1, Len(s)) \in Seq(S) /\ Len(SubSeq(s, k + 1, Len(s))) = Len(s) - k
      /\ \A j \in 1 .. Len(s) - k : SubSeq(s, k + 1, Len(s))[j] = s[k + j]
    BY <1>1, SubSeqProperties
<1> DEFINE before == SubSeq(s, 1, k - 1)
           after == SubSeq(s, k + 1, Len(s))
<1>4. /\ before \o after \in Seq(S) /\ Len(before \o after) = Len(before) + Len(after)
      /\ \A j \in 1 .. Len(before) + Len(after) : (before \o after)[j] =
             IF j <= Len(before) THEN before[j] ELSE after[j - Len(before)]
    BY <1>2, <1>3, ConcatProperties
<1>5. RemoveAt(s, k) = before \o after
    BY DEF RemoveAt
<1> HIDE DEF before, after
<1>6. Len(before) = k - 1 /\ Len(after) = Len(s) - k
      /\ (\A j \in 1 .. k - 1 : before[j] = s[j]) /\ (\A j \in 1 .. Len(s) - k : after[j] = s[k + j])
    BY <1>2, <1>3 DEF before, after
<1>7. ASSUME NEW j \in 1 .. Len(s) - 1
      PROVE  (before \o after)[j] = IF j < k THEN s[j] ELSE s[j + 1]
    <2>1. CASE j < k
        BY <1>1, <1>4, <1>6, <2>1
    <2>2. CASE ~(j < k)
        <3>1. j - (k - 1) \in 1 .. Len(s) - k /\ k + (j - (k - 1)) = j + 1
            BY <1>1, <2>2
        <3>2. after[j - (k - 1)] = s[j + 1]
            BY <1>6, <3>1
        <3>3. j \in 1 .. Len(before) + Len(after) /\ ~(j <= Len(before)) /\ j - Len(before) = j - (k - 1)
            BY <1>1, <1>6, <2>2
        <3> QED
            BY <1>4, <2>2, <3>2, <3>3
    <2> QED
        BY <2>1, <2>2
<1>8. Len(before \o after) = Len(s) - 1
    BY <1>1, <1>4, <1>6
<1> QED
    BY <1>4, <1>5, <1>7, <1>8

(* So what is left is the sequence thinned by one item.                     *)
LEMMA RemovedAt ==
    ASSUME NEW S, NEW s \in Seq(S), NEW k \in DOMAIN s
    PROVE  /\ RemoveAt(s, k) \in Seq(S)
           /\ \E e : /\ Thinned(RemoveAt(s, k), s, e)
                     /\ \A i \in 1 .. Len(s) : i # k => \E j \in 1 .. Len(RemoveAt(s, k)) : e[j] = i
<1> DEFINE t == RemoveAt(s, k)
           e == [j \in 1 .. Len(t) |-> IF j < k THEN j ELSE j + 1]
<1>1. /\ Len(s) \in Nat /\ k \in 1 .. Len(s)
      /\ t \in Seq(S) /\ Len(t) = Len(s) - 1
      /\ \A j \in 1 .. Len(s) - 1 : t[j] = IF j < k THEN s[j] ELSE s[j + 1]
    BY RemovedElements
<1> HIDE DEF t
<1>2. e \in [1 .. Len(t) -> 1 .. Len(s)]
    BY <1>1
<1>3. \A j \in 1 .. Len(t) : t[j] = s[e[j]]
    BY <1>1
<1>4. \A i, j \in 1 .. Len(t) : i < j => e[i] < e[j]
    BY <1>1
<1>5. ASSUME NEW i \in 1 .. Len(s), i # k
      PROVE  \E j \in 1 .. Len(t) : e[j] = i
    <2>1. CASE i < k
        BY <1>1, <2>1
    <2>2. CASE i > k
        <3>1. i - 1 \in 1 .. Len(t) /\ e[i - 1] = i
            BY <1>1, <2>2
        <3> QED
            BY <3>1
    <2> QED
        BY <1>1, <1>5, <2>1, <2>2
<1>6. Thinned(t, s, e)
    BY <1>2, <1>3, <1>4 DEF Thinned
<1> HIDE DEF e
<1> QED
    BY <1>1, <1>5, <1>6 DEF t
=============================================================================
