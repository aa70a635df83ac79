---------------------------- MODULE SequenceFacts ----------------------------
(***************************************************************************)
(* Facts about sequences without repetitions and about prefixes, for the   *)
(* proofs about queues, channels, buffers and text files.                  *)
(***************************************************************************)
EXTENDS Functions, Integers, Sequences, SequenceTheorems, TLAPS

\* Appending an element that is not there keeps a sequence without repetitions.
LEMMA AppendFresh ==
    ASSUME NEW S, NEW s \in Seq(S), NEW e \in S
    PROVE  /\ Range(Append(s, e)) = Range(s) \cup {e}
           /\ IsInjective(s) /\ e \notin Range(s) => IsInjective(Append(s, e))
<1> DEFINE t == Append(s, e)
           n == Len(s)
<1>1. n \in Nat /\ DOMAIN s = 1..n
  BY LenProperties
<1>2. DOMAIN t = 1..(n + 1) /\ t[n + 1] = e /\ \A k \in 1..n : t[k] = s[k]
  BY AppendProperties
<1> HIDE DEF t, n
<1>3. \A k \in 1..(n + 1) : k = n + 1 \/ k \in 1..n
  BY <1>1
<1>4. n + 1 \in 1..(n + 1) /\ \A k \in 1..n : k \in 1..(n + 1)
  BY <1>1
<1>5. Range(t) = Range(s) \cup {e}
  BY <1>1, <1>2, <1>3, <1>4, Zenon DEF Range
<1>6. ASSUME IsInjective(s), e \notin Range(s) PROVE IsInjective(t)
  <2> SUFFICES ASSUME NEW a \in 1..(n + 1), NEW b \in 1..(n + 1), t[a] = t[b] PROVE a = b
    BY <1>2 DEF IsInjective
  <2>1. \A k \in 1..n : s[k] # e
    BY <1>1, <1>6 DEF Range
  <2>2. CASE a \in 1..n /\ b \in 1..n
    BY <1>1, <1>2, <1>6, <2>2 DEF IsInjective
  <2> QED
    BY <1>2, <1>3, <2>1, <2>2
<1> QED
  BY <1>5, <1>6 DEF t

\* Taking the head of such a sequence removes exactly that element.
LEMMA TailFresh ==
    ASSUME NEW S, NEW s \in Seq(S), s # <<>>
    PROVE  /\ Head(s) \in Range(s) /\ Range(Tail(s)) \subseteq Range(s)
           /\ IsInjective(s) => IsInjective(Tail(s)) /\ Head(s) \notin Range(Tail(s))
<1> DEFINE t == Tail(s)
           n == Len(s)
<1>1. n \in Nat /\ n # 0 /\ DOMAIN s = 1..n
  BY LenProperties, EmptySeq
<1>2. t \in Seq(S) /\ Len(t) = n - 1 /\ \A k \in 1..(n - 1) : t[k] = s[k + 1]
  BY HeadTailProperties
<1>3. DOMAIN t = 1..(n - 1)
  BY <1>2, LenProperties
<1>4. Head(s) = s[1]
  BY HeadTailProperties
<1> HIDE DEF t, n
<1>5. 1 \in 1..n /\ \A k \in 1..(n - 1) : k + 1 \in 1..n /\ k + 1 # 1
  BY <1>1
<1>6. Head(s) \in Range(s) /\ Range(t) \subseteq Range(s)
  BY <1>1, <1>2, <1>3, <1>4, <1>5 DEF Range
<1>7. ASSUME IsInjective(s) PROVE IsInjective(t) /\ Head(s) \notin Range(t)
  <2>1. ASSUME NEW a \in 1..(n - 1), NEW b \in 1..(n - 1), t[a] = t[b] PROVE a = b
    <3>1. s[a + 1] = s[b + 1]
      BY <1>2, <2>1
    <3>2. a + 1 = b + 1
      BY <1>1, <1>5, <1>7, <3>1 DEF IsInjective
    <3> QED
      BY <1>1, <3>2
  <2>2. ASSUME NEW a \in 1..(n - 1) PROVE t[a] # Head(s)
    BY <1>1, <1>2, <1>4, <1>5, <1>7 DEF IsInjective
  <2> QED
    BY <1>3, <2>1, <2>2 DEF IsInjective, Range
<1> QED
  BY <1>6, <1>7 DEF t

\* The head is all that a tail lacks.
LEMMA RangeTail ==
    ASSUME NEW S, NEW s \in Seq(S), s # <<>>
    PROVE  Range(s) = Range(Tail(s)) \cup {Head(s)}
<1> DEFINE t == Tail(s)
           n == Len(s)
<1>1. n \in Nat /\ n # 0 /\ DOMAIN s = 1..n
  BY LenProperties, EmptySeq
<1>2. t \in Seq(S) /\ Len(t) = n - 1 /\ \A k \in 1..(n - 1) : t[k] = s[k + 1]
  BY HeadTailProperties
<1>3. DOMAIN t = 1..(n - 1)
  BY <1>2, LenProperties
<1>4. Head(s) = s[1]
  BY HeadTailProperties
<1> HIDE DEF t, n
<1>5. \A k \in 1..n : k = 1 \/ (k - 1 \in 1..(n - 1) /\ k = (k - 1) + 1)
  BY <1>1
<1>6. ASSUME NEW k \in 1..n PROVE s[k] \in Range(t) \cup {Head(s)}
  <2>1. CASE k = 1
    BY <1>4, <2>1
  <2>2. CASE k - 1 \in 1..(n - 1) /\ k = (k - 1) + 1
    <3>1. t[k - 1] = s[k]
      BY <1>2, <2>2
    <3> QED
      BY <1>3, <2>2, <3>1 DEF Range
  <2> QED
    BY <1>5, <2>1, <2>2
<1>7. Head(s) \in Range(s) /\ Range(t) \subseteq Range(s)
  BY TailFresh DEF t
<1> QED
  BY <1>1, <1>6, <1>7 DEF Range, t

\* Two such sequences without a common element make one such sequence.
LEMMA ConcatFresh ==
    ASSUME NEW S, NEW s \in Seq(S), NEW t \in Seq(S),
           IsInjective(s), IsInjective(t), Range(s) \cap Range(t) = {}
    PROVE  IsInjective(s \o t)
<1> DEFINE u == s \o t
           n == Len(s)
           k == Len(t)
<1>1. n \in Nat /\ k \in Nat /\ DOMAIN s = 1..n /\ DOMAIN t = 1..k
  BY LenProperties
<1>2. u \in Seq(S) /\ Len(u) = n + k /\ DOMAIN u = 1..(n + k)
  BY ConcatProperties, LenProperties
<1>3. \A i \in 1..(n + k) : u[i] = IF i <= n THEN s[i] ELSE t[i - n]
  BY ConcatProperties
<1> HIDE DEF u, n, k
<1>4. ASSUME NEW i \in 1..(n + k), NEW j \in 1..(n + k), u[i] = u[j] PROVE i = j
  <2>1. CASE i <= n /\ j <= n
    BY <1>1, <1>3, <1>4, <2>1 DEF IsInjective
  <2>2. CASE i > n /\ j > n
    <3>1. i - n \in 1..k /\ j - n \in 1..k /\ u[i] = t[i - n] /\ u[j] = t[j - n]
      BY <1>1, <1>3, <2>2
    <3>2. i - n = j - n
      BY <1>1, <1>4, <3>1 DEF IsInjective
    <3> QED
      BY <1>1, <3>2
  <2>3. ASSUME NEW a \in 1..(n + k), NEW b \in 1..(n + k), a <= n, b > n, u[a] = u[b]
        PROVE  FALSE
    <3>1. a \in 1..n /\ b - n \in 1..k /\ u[a] = s[a] /\ u[b] = t[b - n]
      BY <1>1, <1>3, <2>3
    <3>2. s[a] \in Range(s) /\ t[b - n] \in Range(t)
      BY <1>1, <3>1 DEF Range
    <3> QED
      BY <2>3, <3>1, <3>2
  <2> QED
    BY <1>1, <1>4, <2>1, <2>2, <2>3
<1> QED
  BY <1>2, <1>4 DEF IsInjective, u

\* A prefix is a sequence of its length that agrees with the whole.
LEMMA PrefixCut ==
    ASSUME NEW S, NEW s \in Seq(S), NEW n \in 0..Len(s)
    PROVE  /\ SubSeq(s, 1, n) \in Seq(S) /\ Len(SubSeq(s, 1, n)) = n
           /\ \A k \in 1..n : SubSeq(s, 1, n)[k] = s[k]
<1>1. Len(s) \in Nat
  BY LenProperties
<1>2. \A k \in 1..n : k \in 1..Len(s) /\ 1 + k - 1 = k
  BY <1>1
<1> QED
  BY <1>1, <1>2, SubSeqProperties

\* A prefix survives appending.
LEMMA PrefixAppend ==
    ASSUME NEW S, NEW s \in Seq(S), NEW e \in S, NEW n \in 0..Len(s)
    PROVE  SubSeq(Append(s, e), 1, n) = SubSeq(s, 1, n)
<1> DEFINE t == Append(s, e)
<1>1. Len(s) \in Nat /\ t \in Seq(S) /\ Len(t) = Len(s) + 1
        /\ \A k \in 1..Len(s) : t[k] = s[k]
  BY AppendProperties, LenProperties
<1> HIDE DEF t
<1>2. n \in 0..Len(t) /\ \A k \in 1..n : k \in 1..Len(s)
  BY <1>1
<1>3. /\ SubSeq(s, 1, n) \in Seq(S) /\ Len(SubSeq(s, 1, n)) = n
      /\ \A k \in 1..n : SubSeq(s, 1, n)[k] = s[k]
  BY PrefixCut
<1>4. /\ SubSeq(t, 1, n) \in Seq(S) /\ Len(SubSeq(t, 1, n)) = n
      /\ \A k \in 1..n : SubSeq(t, 1, n)[k] = t[k]
  BY <1>1, <1>2, PrefixCut
<1>5. \A k \in 1..n : SubSeq(t, 1, n)[k] = SubSeq(s, 1, n)[k]
  BY <1>1, <1>2, <1>3, <1>4
<1>6. SubSeq(t, 1, n) = SubSeq(s, 1, n)
  BY <1>3, <1>4, <1>5, SeqEqual
<1> QED
  BY <1>6 DEF t

LEMMA PrefixWhole ==
    ASSUME NEW S, NEW s \in Seq(S) PROVE SubSeq(s, 1, Len(s)) = s
<1>1. Len(s) \in Nat /\ Len(s) \in 0..Len(s)
  BY LenProperties
<1>2. /\ SubSeq(s, 1, Len(s)) \in Seq(S) /\ Len(SubSeq(s, 1, Len(s))) = Len(s)
      /\ \A k \in 1..Len(s) : SubSeq(s, 1, Len(s))[k] = s[k]
  BY <1>1, PrefixCut
<1> QED
  BY <1>2, SeqEqual
=============================================================================
