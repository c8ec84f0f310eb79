--------------------------- MODULE SequenceLemmas ---------------------------
(***************************************************************************)
(* Facts about queues that the proofs of several components need: a queue   *)
(* and what has been taken from it, read as one sequence; a queue from whose *)
(* middle an item is taken; how many items of a kind a queue holds; a queue   *)
(* that holds the rest of a log.                                            *)
(***************************************************************************)
EXTENDS Integers, Sequences, FiniteSets, SequenceTheorems, FunctionTheorems,
        FiniteSetTheorems, TLAPS

LEMMA LastPlace ==
    ASSUME NEW n \in Nat
    PROVE  1..(n + 1) = 1..n \cup {n + 1}
OBVIOUS

LEMMA AppendItems ==
    ASSUME NEW S, NEW q \in Seq(S), NEW e \in S
    PROVE  /\ Len(q) \in Nat /\ Append(q, e) \in Seq(S) /\ Append(q, e) # <<>>
           /\ Len(Append(q, e)) = Len(q) + 1 /\ Append(q, e)[Len(q) + 1] = e
           /\ \A i \in 1..Len(q) : Append(q, e)[i] = q[i]
           /\ \A i \in 1..Len(Append(q, e)) : i \in 1..Len(q) \/ i = Len(q) + 1
<1>1. /\ Len(q) \in Nat /\ Append(q, e) \in Seq(S)
      /\ Len(Append(q, e)) = Len(q) + 1 /\ Append(q, e)[Len(q) + 1] = e
      /\ \A i \in 1..Len(q) : Append(q, e)[i] = q[i]
  BY LenProperties, AppendProperties
<1>2. Append(q, e) # <<>>
  BY <1>1, EmptySeq
<1>3. \A i \in 1..Len(Append(q, e)) : i \in 1..Len(q) \/ i = Len(q) + 1
  BY <1>1, LastPlace
<1> QED
  BY <1>1, <1>2, <1>3

\* Taking the head of a queue moves it to the end of what has been taken.
LEMMA Moved ==
    ASSUME NEW S, NEW taken \in Seq(S), NEW queue \in Seq(S), queue # <<>>
    PROVE  Append(taken, Head(queue)) \o Tail(queue) = taken \o queue
<1> DEFINE a == Append(taken, Head(queue)) \o Tail(queue)
           b == taken \o queue
<1>1. /\ Head(queue) \in S /\ Head(queue) = queue[1] /\ Tail(queue) \in Seq(S)
      /\ Len(Tail(queue)) = Len(queue) - 1 /\ Len(queue) \in Nat /\ Len(taken) \in Nat
      /\ \A i \in 1..Len(Tail(queue)) : Tail(queue)[i] = queue[i + 1]
  BY HeadTailProperties, LenProperties
<1>2. /\ Append(taken, Head(queue)) \in Seq(S)
      /\ Len(Append(taken, Head(queue))) = Len(taken) + 1
      /\ \A i \in 1..Len(taken) : Append(taken, Head(queue))[i] = taken[i]
      /\ Append(taken, Head(queue))[Len(taken) + 1] = queue[1]
  BY <1>1, AppendProperties
<1>3. /\ a \in Seq(S) /\ Len(a) = Len(taken) + Len(queue)
      /\ \A i \in 1..(Len(taken) + Len(queue)) :
            a[i] = IF i <= Len(taken) + 1 THEN Append(taken, Head(queue))[i]
                   ELSE Tail(queue)[i - (Len(taken) + 1)]
  BY <1>1, <1>2, ConcatProperties
<1>4. /\ b \in Seq(S) /\ Len(b) = Len(taken) + Len(queue)
      /\ \A i \in 1..(Len(taken) + Len(queue)) :
            b[i] = IF i <= Len(taken) THEN taken[i] ELSE queue[i - Len(taken)]
  BY ConcatProperties
<1>5. \A i \in 1..(Len(taken) + Len(queue)) : a[i] = b[i]
  <2> SUFFICES ASSUME NEW i \in 1..(Len(taken) + Len(queue)) PROVE a[i] = b[i]
    OBVIOUS
  <2>1. CASE i <= Len(taken)
    BY <2>1, <1>1, <1>2, <1>3, <1>4
  <2>2. CASE i = Len(taken) + 1
    <3>1. a[i] = queue[1]
      BY <2>2, <1>1, <1>2, <1>3
    <3>2. b[i] = queue[1]
      BY <2>2, <1>1, <1>4
    <3> QED
      BY <3>1, <3>2
  <2>3. CASE i > Len(taken) + 1
    <3> DEFINE j == i - (Len(taken) + 1)
    <3>1. j \in 1..Len(Tail(queue)) /\ j + 1 = i - Len(taken)
      BY <2>3, <1>1
    <3>2. a[i] = Tail(queue)[j]
      BY <2>3, <1>1, <1>3
    <3>3. b[i] = queue[j + 1]
      BY <2>3, <1>1, <1>4, <3>1
    <3> QED
      BY <3>1, <3>2, <3>3, <1>1
  <2> QED
    BY <2>1, <2>2, <2>3, <1>1
<1> HIDE DEF a, b
<1>6. a = b
  BY <1>3, <1>4, <1>5, SeqEqual
<1> QED
  BY <1>6 DEF a, b

\* Putting an item into a queue puts it at the end of the whole.
LEMMA Joined ==
    ASSUME NEW S, NEW taken \in Seq(S), NEW queue \in Seq(S), NEW e \in S
    PROVE  taken \o Append(queue, e) = Append(taken \o queue, e)
<1>1. <<e>> \in Seq(S) /\ taken \o queue \in Seq(S)
  BY ConcatProperties
<1>2. taken \o (queue \o <<e>>) = (taken \o queue) \o <<e>>
  BY <1>1, ConcatAssociative
<1>3. Append(queue, e) = queue \o <<e>>
  BY AppendIsConcat
<1>4. Append(taken \o queue, e) = (taken \o queue) \o <<e>>
  BY <1>1, AppendIsConcat
<1> QED
  BY <1>2, <1>3, <1>4

LEMMA SecondItem ==
    ASSUME NEW S, NEW a \in S, NEW b \in S
    PROVE  Append(<<a>>, b) = <<a, b>>
<1>1. <<a>> \in Seq(S) /\ <<a, b>> \in Seq(S) /\ Len(<<a>>) = 1 /\ Len(<<a, b>>) = 2
  OBVIOUS
<1>2. /\ Append(<<a>>, b) \in Seq(S) /\ Len(Append(<<a>>, b)) = 2
      /\ Append(<<a>>, b)[1] = a /\ Append(<<a>>, b)[2] = b
  BY <1>1, AppendProperties
<1>3. \A i \in 1..2 : Append(<<a>>, b)[i] = <<a, b>>[i]
  BY <1>2
<1> QED
  BY <1>1, <1>2, <1>3, SeqEqual

-----------------------------------------------------------------------------
(* Taking the item at a place out of a queue.                               *)

Removed(s, i) == SubSeq(s, 1, i - 1) \o SubSeq(s, i + 1, Len(s))

\* The items before that place stay, the ones behind it move up.
LEMMA RemovedItems ==
    ASSUME NEW S, NEW s \in Seq(S), NEW i \in 1..Len(s)
    PROVE  /\ Removed(s, i) \in Seq(S)
           /\ Len(s) \in Nat /\ Len(Removed(s, i)) = Len(s) - 1
           /\ \A j \in 1..(Len(s) - 1) :
                 Removed(s, i)[j] = IF j < i THEN s[j] ELSE s[j + 1]
<1> DEFINE a == SubSeq(s, 1, i - 1)
           b == SubSeq(s, i + 1, Len(s))
<1>1. Len(s) \in Nat /\ i \in Nat /\ i >= 1 /\ i <= Len(s)
  BY LenProperties
<1>2. \A j \in 1..Len(s) : s[j] \in S
  BY ElementOfSeq
<1>3. /\ a \in Seq(S) /\ Len(a) = i - 1
      /\ \A j \in 1..(i - 1) : a[j] = s[j]
  <2>1. \A j \in 1..(i - 1) : s[j] \in S
    BY <1>1, <1>2
  <2>2. /\ a \in Seq(S) /\ Len(a) = IF 1 <= i - 1 THEN (i - 1) - 1 + 1 ELSE 0
        /\ \A j \in 1..((i - 1) - 1 + 1) : a[j] = s[1 + j - 1]
    BY <1>1, <2>1, SubSeqProperties
  <2> QED
    BY <1>1, <2>2
<1>4. /\ b \in Seq(S) /\ Len(b) = Len(s) - i
      /\ \A j \in 1..(Len(s) - i) : b[j] = s[i + j]
  <2>1. \A j \in (i + 1)..Len(s) : s[j] \in S
    BY <1>1, <1>2
  <2>2. /\ b \in Seq(S)
        /\ Len(b) = IF i + 1 <= Len(s) THEN Len(s) - (i + 1) + 1 ELSE 0
        /\ \A j \in 1..(Len(s) - (i + 1) + 1) : b[j] = s[(i + 1) + j - 1]
    BY <1>1, <2>1, SubSeqProperties
  <2> QED
    BY <1>1, <2>2
<1> HIDE DEF a, b
<1>5. /\ a \o b \in Seq(S) /\ Len(a \o b) = Len(a) + Len(b)
      /\ \A j \in 1..(Len(a) + Len(b)) :
            (a \o b)[j] = IF j <= Len(a) THEN a[j] ELSE b[j - Len(a)]
  BY <1>3, <1>4, ConcatProperties
<1>6. ASSUME NEW j \in 1..(Len(s) - 1)
      PROVE  (a \o b)[j] = IF j < i THEN s[j] ELSE s[j + 1]
  <2>1. (a \o b)[j] = IF j <= i - 1 THEN a[j] ELSE b[j - (i - 1)]
    BY <1>1, <1>3, <1>4, <1>5
  <2>2. CASE j < i
    BY <2>1, <2>2, <1>1, <1>3
  <2>3. CASE ~(j < i)
    <3>1. j - (i - 1) \in 1..(Len(s) - i) /\ i + (j - (i - 1)) = j + 1
      BY <2>3, <1>1
    <3> QED
      BY <2>1, <2>3, <3>1, <1>1, <1>4
  <2> QED
    BY <2>2, <2>3, <1>1
<1>7. Removed(s, i) = a \o b
  BY DEF Removed, a, b
<1>8. Len(a \o b) = Len(s) - 1
  BY <1>1, <1>3, <1>4, <1>5
<1> HIDE DEF Removed
<1> QED
  BY <1>1, <1>5, <1>6, <1>7, <1>8

-----------------------------------------------------------------------------
(* How many items of a kind a queue holds.                                  *)

Places(s, V) == {i \in 1..Len(s) : s[i] \in V}
Count(s, V)  == Cardinality(Places(s, V))

LEMMA CountNatural ==
    ASSUME NEW S, NEW s \in Seq(S), NEW V
    PROVE  IsFiniteSet(Places(s, V)) /\ Count(s, V) \in Nat
<1>1. Len(s) \in Nat
  BY LenProperties
<1>2. IsFiniteSet(1..Len(s))
  BY <1>1, FS_Interval
<1>3. IsFiniteSet(Places(s, V))
  BY <1>2, FS_Subset DEF Places
<1> QED
  BY <1>3, FS_CardinalityType DEF Count

\* Adding an item adds one to its kind.
LEMMA CountAdded ==
    ASSUME NEW S, NEW s \in Seq(S), NEW e \in S, NEW V
    PROVE  Count(Append(s, e), V) = Count(s, V) + IF e \in V THEN 1 ELSE 0
<1> DEFINE t == Append(s, e)
           n == Len(s) + 1
<1>1. /\ Len(s) \in Nat /\ Len(t) = n /\ t[n] = e
      /\ \A i \in 1..Len(s) : t[i] = s[i]
  BY LenProperties, AppendProperties
<1>2. IsFiniteSet(Places(s, V)) /\ Count(s, V) \in Nat
  BY CountNatural
<1> HIDE DEF t
<1>3. CASE e \in V
  <2>1. Places(t, V) = Places(s, V) \cup {n} /\ n \notin Places(s, V)
    BY <1>1, <1>3 DEF Places
  <2> QED
    BY <1>2, <1>3, <2>1, FS_AddElement DEF Count, t
<1>4. CASE e \notin V
  <2>1. Places(t, V) = Places(s, V)
    BY <1>1, <1>4 DEF Places
  <2> QED
    BY <1>2, <1>4, <2>1 DEF Count, t
<1> QED
  BY <1>3, <1>4

\* Taking an item from anywhere takes one from its kind ...
LEMMA CountTaken ==
    ASSUME NEW S, NEW s \in Seq(S), NEW i \in 1..Len(s), NEW V
    PROVE  Count(s, V) = Count(Removed(s, i), V) + IF s[i] \in V THEN 1 ELSE 0
<1> DEFINE r == Removed(s, i)
<1>0. /\ r \in Seq(S) /\ Len(r) = Len(s) - 1
      /\ \A j \in 1..Len(r) : r[j] = IF j < i THEN s[j] ELSE s[j + 1]
  BY RemovedItems
<1> HIDE DEF r
<1> DEFINE A == Places(r, V)
           B == Places(s, V) \ {i}
           up == [j \in A |-> IF j < i THEN j ELSE j + 1]
<1>1. /\ Len(s) \in Nat /\ Len(r) \in Nat /\ i \in Nat /\ i >= 1 /\ i <= Len(s)
      /\ Len(r) = Len(s) - 1
      /\ \A j \in 1..Len(r) : r[j] = IF j < i THEN s[j] ELSE s[j + 1]
  BY <1>0, LenProperties
<1>2. /\ IsFiniteSet(Places(s, V)) /\ Count(s, V) \in Nat
      /\ IsFiniteSet(A) /\ Count(r, V) \in Nat
  BY <1>0, CountNatural
<1>3. \A j \in A : up[j] \in B
  <2> SUFFICES ASSUME NEW j \in A PROVE up[j] \in B
    OBVIOUS
  <2>1. j \in 1..Len(r) /\ r[j] \in V
    BY DEF Places
  <2>2. CASE j < i
    <3>1. up[j] = j /\ j \in 1..Len(s) /\ j # i /\ s[j] = r[j]
      BY <2>1, <2>2, <1>1
    <3> QED
      BY <2>1, <3>1 DEF Places
  <2>3. CASE ~(j < i)
    <3>1. up[j] = j + 1 /\ j + 1 \in 1..Len(s) /\ j + 1 # i /\ s[j + 1] = r[j]
      BY <2>1, <2>3, <1>1
    <3> QED
      BY <2>1, <3>1 DEF Places
  <2> QED
    BY <2>2, <2>3
<1>4. \A j, k \in A : up[j] = up[k] => j = k
  BY <1>1 DEF Places
<1>5. \A k \in B : \E j \in A : up[j] = k
  <2> SUFFICES ASSUME NEW k \in B PROVE \E j \in A : up[j] = k
    OBVIOUS
  <2>1. k \in 1..Len(s) /\ s[k] \in V /\ k # i
    BY DEF Places
  <2>2. CASE k < i
    <3>1. k \in 1..Len(r) /\ r[k] = s[k]
      BY <2>1, <2>2, <1>1
    <3>2. k \in A
      BY <2>1, <3>1 DEF Places
    <3> QED
      BY <2>2, <3>2
  <2>3. CASE ~(k < i)
    <3>1. k - 1 \in 1..Len(r) /\ ~(k - 1 < i) /\ (k - 1) + 1 = k
      BY <2>1, <2>3, <1>1
    <3>2. r[k - 1] = s[k]
      BY <1>1, <3>1
    <3>3. k - 1 \in A
      BY <2>1, <3>1, <3>2 DEF Places
    <3> QED
      BY <3>1, <3>3
  <2> QED
    BY <2>2, <2>3
<1>6. up \in Bijection(A, B)
  <2>1. up \in [A -> B]
    BY <1>3
  <2> HIDE DEF up, A, B
  <2> QED
    BY <2>1, <1>4, <1>5, Fun_IsBij
<1>7. IsFiniteSet(B) /\ Cardinality(B) = Count(r, V)
  <2>1. ExistsBijection(A, B)
    BY <1>6 DEF ExistsBijection
  <2> HIDE DEF A, B
  <2>2. IsFiniteSet(B) /\ Cardinality(B) = Cardinality(A)
    BY <1>2, <2>1, FS_Bijection
  <2> QED
    BY <2>2 DEF Count, A
<1>8. Cardinality(B) = IF i \in Places(s, V) THEN Count(s, V) - 1 ELSE Count(s, V)
  BY <1>2, FS_RemoveElement DEF Count
<1>9. i \in Places(s, V) <=> s[i] \in V
  BY DEF Places
<1> QED
  BY <1>2, <1>7, <1>8, <1>9 DEF r

\* ... also at the head of the queue.
LEMMA CountHead ==
    ASSUME NEW S, NEW s \in Seq(S), s # <<>>, NEW V
    PROVE  Count(s, V) = Count(Tail(s), V) + IF Head(s) \in V THEN 1 ELSE 0
<1>1. Head(s) = s[1] /\ Len(s) \in Nat /\ 1 \in 1..Len(s)
  BY EmptySeq, LenProperties, HeadTailProperties
<1>2. Removed(s, 1) = Tail(s)
  <2>1. SubSeq(s, 1, 1 - 1) = <<>>
    BY SubSeqEmpty
  <2>2. SubSeq(s, 1 + 1, Len(s)) = Tail(s) /\ Tail(s) \in Seq(S)
    BY TailIsSubSeq, HeadTailProperties
  <2>3. Removed(s, 1) = <<>> \o Tail(s)
    BY <2>1, <2>2 DEF Removed
  <2> QED
    BY <2>2, <2>3, ConcatEmptySeq
<1>3. Count(s, V) = Count(Removed(s, 1), V) + IF s[1] \in V THEN 1 ELSE 0
  BY <1>1, CountTaken
<1> QED
  BY <1>1, <1>2, <1>3

-----------------------------------------------------------------------------
(* A queue of numbered items and the log of those of the kinds D: the queue *)
(* holds what follows the first p entries of the log.                       *)

LogRises(log)    == \A j, k \in 1..Len(log) : j < k => log[j] < log[k]
LineRises(q, D)  == \A i, j \in 1..Len(q) :
                       i < j /\ q[i].kind \in D /\ q[j].kind \in D => q[i].n < q[j].n
InLine(q, D, n)  == \E i \in 1..Len(q) : q[i].kind \in D /\ q[i].n = n
InLog(log, p, n) == \E k \in (p + 1)..Len(log) : log[k] = n
HoldsRest(q, D, log, p) ==
    /\ \A k \in (p + 1)..Len(log) : InLine(q, D, log[k])
    /\ \A i \in 1..Len(q) : q[i].kind \in D => InLog(log, p, q[i].n)

LEMMA TailItems ==
    ASSUME NEW S, NEW q \in Seq(S), q # <<>>
    PROVE  /\ Len(q) \in Nat /\ 1 \in 1..Len(q) /\ Head(q) = q[1] /\ q[1] \in S
           /\ Tail(q) \in Seq(S) /\ Len(Tail(q)) = Len(q) - 1
           /\ \A i \in 1..Len(Tail(q)) : i + 1 \in 1..Len(q) /\ Tail(q)[i] = q[i + 1]
           /\ \A i \in 1..Len(q) : i # 1 => /\ i - 1 \in 1..Len(Tail(q))
                                            /\ Tail(q)[i - 1] = q[i]
<1>1. /\ Len(q) \in Nat /\ 1 \in 1..Len(q) /\ Head(q) = q[1] /\ q[1] \in S
      /\ Tail(q) \in Seq(S) /\ Len(Tail(q)) = Len(q) - 1
      /\ \A i \in 1..Len(Tail(q)) : Tail(q)[i] = q[i + 1]
  BY EmptySeq, LenProperties, HeadTailProperties
<1>2. ASSUME NEW i \in 1..Len(q), i # 1
      PROVE  i - 1 \in 1..Len(Tail(q)) /\ Tail(q)[i - 1] = q[i]
  <2>1. i - 1 \in 1..Len(Tail(q)) /\ (i - 1) + 1 = i
    BY <1>1, <1>2
  <2> QED
    BY <1>1, <2>1
<1> QED
  BY <1>1, <1>2

LEMMA RisesOn ==
    ASSUME NEW S, NEW q \in Seq(S), NEW D
    PROVE  /\ q # <<>> /\ LineRises(q, D) => LineRises(Tail(q), D)
           /\ \A e \in S :
                 /\ LineRises(q, D)
                 /\ e.kind \in D => \A i \in 1..Len(q) : q[i].kind \in D => q[i].n < e.n
                 => LineRises(Append(q, e), D)
<1>1. ASSUME q # <<>>, LineRises(q, D) PROVE LineRises(Tail(q), D)
  <2>1. /\ Len(q) \in Nat /\ Len(Tail(q)) = Len(q) - 1
        /\ \A i \in 1..Len(Tail(q)) : i + 1 \in 1..Len(q) /\ Tail(q)[i] = q[i + 1]
    BY <1>1, TailItems
  <2> SUFFICES ASSUME NEW i \in 1..Len(Tail(q)), NEW j \in 1..Len(Tail(q)), i < j,
                      Tail(q)[i].kind \in D, Tail(q)[j].kind \in D
               PROVE  Tail(q)[i].n < Tail(q)[j].n
    BY DEF LineRises
  <2>2. i + 1 < j + 1 /\ i + 1 \in 1..Len(q) /\ j + 1 \in 1..Len(q)
    BY <2>1
  <2> QED
    BY <1>1, <2>1, <2>2 DEF LineRises
<1>2. ASSUME NEW e \in S, LineRises(q, D),
             e.kind \in D => \A i \in 1..Len(q) : q[i].kind \in D => q[i].n < e.n
      PROVE  LineRises(Append(q, e), D)
  <2> DEFINE r == Append(q, e)
  <2>1. /\ Len(q) \in Nat /\ Len(r) = Len(q) + 1 /\ r[Len(q) + 1] = e
        /\ \A i \in 1..Len(q) : r[i] = q[i]
    BY LenProperties, AppendProperties
  <2> HIDE DEF r
  <2>2. ASSUME NEW i \in 1..Len(r), NEW j \in 1..Len(r), i < j,
               r[i].kind \in D, r[j].kind \in D
        PROVE  r[i].n < r[j].n
    <3>1. i \in 1..Len(q)
      BY <2>1, <2>2
    <3>2. CASE j \in 1..Len(q)
      BY <1>2, <2>1, <2>2, <3>1, <3>2 DEF LineRises
    <3>3. CASE j = Len(q) + 1
      BY <1>2, <2>1, <2>2, <3>1, <3>3
    <3> QED
      BY <2>1, <3>2, <3>3, LastPlace
  <2>3. LineRises(r, D)
    BY <2>2 DEF LineRises
  <2> QED
    BY <2>3 DEF r
<1> QED
  BY <1>1, <1>2

LEMMA LogRisesOn ==
    ASSUME NEW N, NEW log \in Seq(N), NEW n \in N, LogRises(log),
           \A k \in 1..Len(log) : log[k] < n
    PROVE  LogRises(Append(log, n))
<1> DEFINE l == Append(log, n)
<1>1. /\ Len(log) \in Nat /\ Len(l) = Len(log) + 1 /\ l[Len(log) + 1] = n
      /\ \A k \in 1..Len(log) : l[k] = log[k]
  BY LenProperties, AppendProperties
<1> HIDE DEF l
<1>2. ASSUME NEW j \in 1..Len(l), NEW k \in 1..Len(l), j < k PROVE l[j] < l[k]
  <2>1. j \in 1..Len(log)
    BY <1>1, <1>2
  <2>2. CASE k \in 1..Len(log)
    BY <1>1, <1>2, <2>1, <2>2 DEF LogRises
  <2>3. CASE k = Len(log) + 1
    BY <1>1, <2>1, <2>3
  <2> QED
    BY <1>1, <2>2, <2>3, LastPlace
<1>3. LogRises(l)
  BY <1>2 DEF LogRises
<1> QED
  BY <1>3 DEF l

\* An item of D at the head of the queue is the next of the log ...
LEMMA NextOfLog ==
    ASSUME NEW S, \A e \in S : e.n \in Int, NEW N, N \subseteq Int, NEW D,
           NEW q \in Seq(S), NEW log \in Seq(N), NEW p \in Nat,
           q # <<>>, q[1].kind \in D,
           LineRises(q, D), LogRises(log), HoldsRest(q, D, log, p)
    PROVE  /\ p + 1 \in 1..Len(log) /\ q[1].n = log[p + 1]
           /\ HoldsRest(Tail(q), D, log, p + 1)
<1>1. /\ Len(q) \in Nat /\ 1 \in 1..Len(q) /\ Len(log) \in Nat
      /\ Len(Tail(q)) = Len(q) - 1
      /\ \A i \in 1..Len(Tail(q)) : i + 1 \in 1..Len(q) /\ Tail(q)[i] = q[i + 1]
      /\ \A i \in 1..Len(q) : i # 1 => /\ i - 1 \in 1..Len(Tail(q))
                                       /\ Tail(q)[i - 1] = q[i]
  BY TailItems, LenProperties
<1>2. /\ \A i \in 1..Len(q) : q[i].n \in Int
      /\ \A k \in 1..Len(log) : log[k] \in Int
  BY ElementOfSeq
<1>3. ASSUME NEW i \in 1..Len(q), i # 1, q[i].kind \in D PROVE q[1].n < q[i].n
  <2>1. 1 < i
    BY <1>3
  <2> QED
    BY <1>1, <1>3, <2>1 DEF LineRises
<1>4. PICK k \in (p + 1)..Len(log) : log[k] = q[1].n
  BY <1>1 DEF HoldsRest, InLog
<1>5. p + 1 \in 1..Len(log) /\ k \in 1..Len(log)
  BY <1>1
<1>6. k = p + 1
  <2> SUFFICES ASSUME k # p + 1 PROVE FALSE
    OBVIOUS
  <2>1. log[p + 1] < log[k]
    BY <1>1, <1>5 DEF LogRises
  <2>2. PICK i \in 1..Len(q) : q[i].kind \in D /\ q[i].n = log[p + 1]
    BY <1>1, <1>5 DEF HoldsRest, InLine
  <2>3. i # 1
    BY <1>2, <1>4, <1>5, <2>1, <2>2
  <2> QED
    BY <1>2, <1>3, <1>4, <1>5, <2>1, <2>2, <2>3
<1>7. ASSUME NEW j \in (p + 2)..Len(log) PROVE InLine(Tail(q), D, log[j])
  <2>1. j \in (p + 1)..Len(log) /\ j \in 1..Len(log) /\ p + 1 < j
    BY <1>1
  <2>2. PICK i \in 1..Len(q) : q[i].kind \in D /\ q[i].n = log[j]
    BY <2>1 DEF HoldsRest, InLine
  <2>3. log[p + 1] < log[j]
    BY <1>5, <2>1 DEF LogRises
  <2>4. i # 1
    BY <1>2, <1>4, <1>5, <1>6, <2>1, <2>2, <2>3
  <2>5. i - 1 \in 1..Len(Tail(q)) /\ Tail(q)[i - 1] = q[i]
    BY <1>1, <2>4
  <2> QED
    BY <2>2, <2>5 DEF InLine
<1>8. ASSUME NEW i \in 1..Len(Tail(q)), Tail(q)[i].kind \in D
      PROVE  InLog(log, p + 1, Tail(q)[i].n)
  <2>1. i + 1 \in 1..Len(q) /\ Tail(q)[i] = q[i + 1] /\ i + 1 # 1
    BY <1>1
  <2>2. PICK j \in (p + 1)..Len(log) : log[j] = q[i + 1].n
    BY <1>8, <2>1 DEF HoldsRest, InLog
  <2>3. q[1].n < q[i + 1].n
    BY <1>3, <1>8, <2>1
  <2>4. j # p + 1
    BY <1>1, <1>2, <1>4, <1>5, <1>6, <2>1, <2>2, <2>3
  <2>5. j \in (p + 1 + 1)..Len(log)
    BY <1>1, <2>4
  <2> QED
    BY <2>1, <2>2, <2>5 DEF InLog
<1>9. HoldsRest(Tail(q), D, log, p + 1)
  <2>1. \A j \in (p + 1 + 1)..Len(log) : InLine(Tail(q), D, log[j])
    BY <1>7
  <2> QED
    BY <1>8, <2>1 DEF HoldsRest
<1> QED
  BY <1>4, <1>5, <1>6, <1>9

\* ... an item of another kind is not of it ...
LEMMA NotOfLog ==
    ASSUME NEW S, NEW D, NEW q \in Seq(S), NEW log, NEW p,
           q # <<>>, q[1].kind \notin D, HoldsRest(q, D, log, p)
    PROVE  HoldsRest(Tail(q), D, log, p)
<1>1. /\ \A i \in 1..Len(Tail(q)) : i + 1 \in 1..Len(q) /\ Tail(q)[i] = q[i + 1]
      /\ \A i \in 1..Len(q) : i # 1 => /\ i - 1 \in 1..Len(Tail(q))
                                       /\ Tail(q)[i - 1] = q[i]
  BY TailItems
<1>2. ASSUME NEW k \in (p + 1)..Len(log) PROVE InLine(Tail(q), D, log[k])
  <2>1. PICK i \in 1..Len(q) : q[i].kind \in D /\ q[i].n = log[k]
    BY DEF HoldsRest, InLine
  <2>2. i # 1
    BY <2>1
  <2> QED
    BY <1>1, <2>1, <2>2 DEF InLine
<1>3. ASSUME NEW i \in 1..Len(Tail(q)), Tail(q)[i].kind \in D
      PROVE  InLog(log, p, Tail(q)[i].n)
  BY <1>1, <1>3 DEF HoldsRest
<1> QED
  BY <1>2, <1>3 DEF HoldsRest

\* ... and what is put into both keeps them in step.
LEMMA PutInBoth ==
    ASSUME NEW S, NEW N, NEW D, NEW q \in Seq(S), NEW log \in Seq(N), NEW p \in Nat,
           NEW e \in S, e.kind \in D => e.n \in N /\ p <= Len(log),
           HoldsRest(q, D, log, p)
    PROVE  HoldsRest(Append(q, e), D, IF e.kind \in D THEN Append(log, e.n) ELSE log, p)
<1> DEFINE r == Append(q, e)
           l == IF e.kind \in D THEN Append(log, e.n) ELSE log
<1>1. /\ Len(q) \in Nat /\ Len(r) = Len(q) + 1 /\ r[Len(q) + 1] = e
      /\ \A i \in 1..Len(q) : r[i] = q[i]
  BY LenProperties, AppendProperties
<1>2. /\ Len(log) \in Nat /\ Len(l) = Len(log) + (IF e.kind \in D THEN 1 ELSE 0)
      /\ \A k \in 1..Len(log) : l[k] = log[k]
      /\ e.kind \in D => l[Len(log) + 1] = e.n
  BY LenProperties, AppendProperties
<1> HIDE DEF r, l
<1>3. ASSUME NEW k \in (p + 1)..Len(l) PROVE InLine(r, D, l[k])
  <2>1. CASE k \in 1..Len(log)
    <3>1. k \in (p + 1)..Len(log)
      BY <1>2, <2>1
    <3>2. PICK i \in 1..Len(q) : q[i].kind \in D /\ q[i].n = log[k]
      BY <3>1 DEF HoldsRest, InLine
    <3>3. i \in 1..Len(r) /\ r[i] = q[i]
      BY <1>1
    <3> QED
      BY <1>2, <2>1, <3>2, <3>3 DEF InLine
  <2>2. CASE k \notin 1..Len(log)
    <3>1. e.kind \in D /\ k = Len(log) + 1
      BY <1>2, <1>3, <2>2
    <3>2. Len(q) + 1 \in 1..Len(r)
      BY <1>1
    <3> QED
      BY <1>1, <1>2, <3>1, <3>2 DEF InLine
  <2> QED
    BY <2>1, <2>2
<1>4. ASSUME NEW i \in 1..Len(r), r[i].kind \in D PROVE InLog(l, p, r[i].n)
  <2>1. CASE i \in 1..Len(q)
    <3>1. PICK k \in (p + 1)..Len(log) : log[k] = q[i].n
      BY <1>1, <1>4, <2>1 DEF HoldsRest, InLog
    <3>2. k \in (p + 1)..Len(l) /\ l[k] = log[k]
      BY <1>2
    <3> QED
      BY <1>1, <2>1, <3>1, <3>2 DEF InLog
  <2>2. CASE i = Len(q) + 1
    <3>1. e.kind \in D /\ r[i] = e
      BY <1>1, <1>4, <2>2
    <3>2. Len(log) + 1 \in (p + 1)..Len(l)
      BY <1>2, <3>1
    <3> QED
      BY <1>2, <3>1, <3>2 DEF InLog
  <2> QED
    BY <1>1, <2>1, <2>2, LastPlace
<1>5. HoldsRest(r, D, l, p)
  BY <1>3, <1>4 DEF HoldsRest
<1> QED
  BY <1>5 DEF r, l
-----------------------------------------------------------------------------
(* A reader's sequence that is a beginning of the writer's.                 *)

Begins(r, w) == Len(r) <= Len(w) /\ \A i \in 1..Len(r) : r[i] = w[i]

LEMMA ListedItems ==
    ASSUME NEW S, NEW n \in Int, NEW f \in [1..n -> S]
    PROVE  f \in Seq(S) /\ Len(f) = IF n < 0 THEN 0 ELSE n
<1>1. CASE n \in Nat
  <2>1. f \in Seq(S)
    BY <1>1, SeqDef
  <2>2. Len(f) \in Nat /\ DOMAIN f = 1..Len(f) /\ DOMAIN f = 1..n
    BY <2>1, LenProperties
  <2>3. Len(f) = n
    BY <1>1, <2>2
  <2> QED
    BY <1>1, <2>1, <2>3
<1>2. CASE n \notin Nat
  <2>1. 1..n = 1..0 /\ n < 0
    BY <1>2
  <2>2. f \in Seq(S)
    BY <2>1, SeqDef
  <2>3. Len(f) \in Nat /\ DOMAIN f = 1..Len(f) /\ DOMAIN f = 1..0
    BY <2>1, <2>2, LenProperties
  <2>4. Len(f) = 0
    BY <2>3
  <2> QED
    BY <2>1, <2>2, <2>4
<1> QED
  BY <1>1, <1>2

\* While only the writer's goes on the reader's stays; when the reader's grows by
\* one, that is the writer's next.
LEMMA BeginningKept ==
    ASSUME NEW S, NEW r \in Seq(S), NEW r2 \in Seq(S), NEW w \in Seq(S), NEW w2,
           Len(r2) = Len(r), Begins(r, w), Begins(r2, w2),
           \A i \in 1..Len(w) : w2[i] = w[i]
    PROVE  r2 = r
<1>1. Len(r) \in Nat /\ Len(w) \in Nat /\ Len(r) <= Len(w)
  BY LenProperties DEF Begins
<1>2. \A i \in 1..Len(r2) : r2[i] = r[i]
  BY <1>1 DEF Begins
<1> QED
  BY <1>2, SeqEqual

LEMMA BeginningGrows ==
    ASSUME NEW S, NEW r \in Seq(S), NEW w \in Seq(S), NEW r2 \in Seq(S),
           Len(r2) = Len(r) + 1, Begins(r, w), Begins(r2, w)
    PROVE  Len(r) < Len(w) /\ r2 = Append(r, w[Len(r) + 1])
<1>1. Len(r) \in Nat /\ Len(w) \in Nat /\ Len(r) < Len(w)
  BY LenProperties DEF Begins
<1> DEFINE x == w[Len(r) + 1]
<1>2. Len(r) + 1 \in 1..Len(w) /\ x \in S
  BY <1>1, ElementOfSeq
<1> HIDE DEF x
<1>3. /\ Append(r, x) \in Seq(S) /\ Len(Append(r, x)) = Len(r) + 1
      /\ Append(r, x)[Len(r) + 1] = x
      /\ \A i \in 1..Len(r) : Append(r, x)[i] = r[i]
      /\ \A i \in 1..(Len(r) + 1) : i \in 1..Len(r) \/ i = Len(r) + 1
  BY <1>1, <1>2, AppendItems
<1>4. ASSUME NEW i \in 1..Len(r2) PROVE r2[i] = Append(r, x)[i]
  <2>1. r2[i] = w[i]
    BY DEF Begins
  <2>2. CASE i \in 1..Len(r)
    BY <1>3, <2>1, <2>2 DEF Begins
  <2>3. CASE i = Len(r) + 1
    BY <1>3, <2>1, <2>3 DEF x
  <2> QED
    BY <1>3, <2>2, <2>3
<1>5. r2 = Append(r, x)
  BY <1>3, <1>4, SeqEqual
<1> QED
  BY <1>1, <1>5 DEF x
=============================================================================
