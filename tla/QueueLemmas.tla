----------------------------- MODULE QueueLemmas ----------------------------
(***************************************************************************)
(* What a round does to a queue, for any queue.                            *)
(***************************************************************************)
EXTENDS Queues, TLAPS, SequenceTheorems, WellFoundedInduction

-----------------------------------------------------------------------------
(* Least numbers.                                                          *)

\* A nonempty set of numbers has a least one, so the clock's hand stops.
LEMMA MinInSet ==
  ASSUME NEW S \in SUBSET Nat, S # {}
  PROVE  Min(S) \in S
<1>1. PICK m \in S : \A k \in S : <<k, m>> \notin OpToRel(<, Nat)
  BY WFMin, NatLessThanWellFounded, Zenon
<1>2. \A k \in S : ~(k < m)
  BY <1>1, Zenon DEF OpToRel
<1>3. \A k \in S : m <= k
  BY <1>2, SMT
<1> QED
  BY <1>3, Zenon DEF Min

LEMMA MinLeast ==
  ASSUME NEW T \in SUBSET Nat, T # {}
  PROVE  \A x \in T : Min(T) <= x
<1>1. \E n \in T : \A x \in T : n <= x
  <2>1. PICK m \in T : \A k \in T : <<k, m>> \notin OpToRel(<, Nat)
    BY WFMin, NatLessThanWellFounded, Zenon
  <2>2. \A k \in T : ~(k < m)
    BY <2>1, Zenon DEF OpToRel
  <2> QED
    BY <2>2
<1> QED
  BY <1>1, Zenon DEF Min

LEMMA MinIs ==
  ASSUME NEW T \in SUBSET Nat, NEW m \in T, \A x \in T : m <= x
  PROVE  Min(T) = m
<1>1. \E n \in T : \A x \in T : n <= x
  OBVIOUS
<1> DEFINE n == Min(T)
<1>2. n \in T /\ \A x \in T : n <= x
  BY <1>1, Zenon DEF Min
<1> HIDE DEF n
<1>3. n <= m /\ m <= n /\ n \in Nat /\ m \in Nat
  BY <1>2
<1>4. n = m
  BY <1>3
<1> QED
  BY <1>4 DEF n

-----------------------------------------------------------------------------
(* A full round permutes a queue.                                          *)

\* An injective function takes a value at one place only.
LEMMA InjectiveAt ==
  ASSUME NEW f, IsInjective(f), NEW a \in DOMAIN f, NEW b \in DOMAIN f, f[a] = f[b]
  PROVE  a = b
BY DEF IsInjective

LEMMA InRange ==
  ASSUME NEW f, NEW a \in DOMAIN f
  PROVE  f[a] \in Range(f)
BY DEF Range

Onto(at, D) == \A k \in D : \E j \in D : at[j] = k

\* A function r of distinct values that shows q's at other places: its value at
\* j is that of q at at[j], and at misses no place.
LEMMA Permuted ==
  ASSUME NEW q, NEW r, NEW at,
         DOMAIN r = DOMAIN q,
         \A j \in DOMAIN q : at[j] \in DOMAIN q,
         \A i, j \in DOMAIN q : at[i] = at[j] => i = j,
         Onto(at, DOMAIN q),
         IsInjective(q),
         \A j \in DOMAIN q : r[j] = q[at[j]]
  PROVE  IsInjective(r) /\ Range(r) = Range(q)
<1>1. ASSUME NEW i \in DOMAIN r, NEW j \in DOMAIN r, r[i] = r[j]
      PROVE  i = j
  <2>1. i \in DOMAIN q /\ j \in DOMAIN q
    OBVIOUS
  <2>2. at[i] \in DOMAIN q /\ at[j] \in DOMAIN q
    BY <2>1
  <2>3. r[i] = q[at[i]] /\ r[j] = q[at[j]]
    BY <2>1
  <2>4. at[i] = at[j]
    BY <1>1, <2>2, <2>3, InjectiveAt
  <2> QED
    BY <2>1, <2>4
<1>2. Range(r) \subseteq Range(q)
  <2> SUFFICES ASSUME NEW j \in DOMAIN r
               PROVE  r[j] \in Range(q)
    BY DEF Range
  <2>1. at[j] \in DOMAIN q /\ r[j] = q[at[j]]
    OBVIOUS
  <2> QED
    BY <2>1, InRange
<1>3. Range(q) \subseteq Range(r)
  <2> SUFFICES ASSUME NEW k \in DOMAIN q
               PROVE  q[k] \in Range(r)
    BY DEF Range
  <2>1. PICK j \in DOMAIN q : at[j] = k
    BY DEF Onto
  <2>2. j \in DOMAIN r /\ r[j] = q[k]
    BY <2>1
  <2> QED
    BY <2>2, InRange
<1> QED
  BY <1>1, <1>2, <1>3 DEF IsInjective

\* The rotation in alloc keeps a queue's elements and repeats none.
LEMMA MoveToTailPermutes ==
  ASSUME NEW S, NEW q \in Seq(S), NEW i \in 1..Len(q), IsInjective(q)
  PROVE  /\ MoveToTail(q, i) \in Seq(S)
         /\ IsInjective(MoveToTail(q, i))
         /\ Range(MoveToTail(q, i)) = Range(q)
<1> DEFINE r  == MoveToTail(q, i)
           at == [j \in 1..Len(q) |->
                    IF j < i THEN j ELSE IF j < Len(q) THEN j + 1 ELSE i]
<1>1. /\ r \in Seq(S)
      /\ Len(r) = Len(q)
      /\ \A j \in 1..Len(q) :
           r[j] = IF j < i THEN q[j] ELSE IF j < Len(q) THEN q[j + 1] ELSE q[i]
  <2> DEFINE before == SubSeq(q, 1, i - 1)
             after  == SubSeq(q, i + 1, Len(q))
  <2>1. Len(q) \in Nat /\ \A j \in 1..Len(q) : q[j] \in S
    BY LenProperties, ElementOfSeq
  <2>2. /\ before \in Seq(S)
        /\ Len(before) = i - 1
        /\ \A j \in 1..(i - 1) : before[j] = q[j]
    BY <2>1, SubSeqProperties
  <2>3. /\ after \in Seq(S)
        /\ Len(after) = Len(q) - i
        /\ \A j \in 1..(Len(q) - i) : after[j] = q[i + j]
    BY <2>1, SubSeqProperties
  <2> DEFINE both == before \o after
  <2> HIDE DEF before, after
  <2>4. /\ both \in Seq(S)
        /\ Len(both) = Len(q) - 1
        /\ \A j \in 1..(Len(q) - 1) :
             both[j] = IF j < i THEN q[j] ELSE q[j + 1]
    <3>1. /\ both \in Seq(S)
          /\ Len(both) = Len(before) + Len(after)
          /\ \A j \in 1..(Len(before) + Len(after)) :
               both[j] = IF j <= Len(before) THEN before[j]
                         ELSE after[j - Len(before)]
      BY <2>2, <2>3, ConcatProperties
    <3> HIDE DEF both
    <3>0. Len(before) = i - 1 /\ Len(after) = Len(q) - i
      BY <2>2, <2>3
    <3>2. ASSUME NEW j \in 1..(Len(q) - 1), j < i
          PROVE  both[j] = q[j]
      <4>1. j \in 1..(i - 1) /\ j \in 1..(Len(before) + Len(after)) /\ j <= Len(before)
        BY <2>1, <3>0, <3>2
      <4>2. both[j] = before[j]
        BY <3>1, <4>1
      <4> QED
        BY <2>2, <4>1, <4>2
    <3>3. ASSUME NEW j \in 1..(Len(q) - 1), j >= i
          PROVE  both[j] = q[j + 1]
      <4> DEFINE m == j - (i - 1)
      <4>1. m \in 1..(Len(q) - i) /\ i + m = j + 1
        BY <2>1, <3>3
      <4>2. both[j] = after[m]
        <5>1. /\ j \in 1..(Len(before) + Len(after)) /\ ~(j <= Len(before))
              /\ j - Len(before) = m
          BY <2>1, <3>0, <3>3
        <5> HIDE DEF m
        <5> QED
          BY <3>1, <5>1
      <4> HIDE DEF m
      <4>3. after[m] = q[i + m]
        BY <2>3, <4>1
      <4> QED
        BY <4>1, <4>2, <4>3
    <3>4. Len(before) + Len(after) = Len(q) - 1
      BY <2>1, <3>0
    <3>5. ASSUME NEW j \in 1..(Len(q) - 1)
          PROVE  both[j] = IF j < i THEN q[j] ELSE q[j + 1]
      <4>1. CASE j < i
        BY <3>2, <4>1
      <4>2. CASE ~(j < i)
        BY <3>3, <4>2
      <4> QED
        BY <4>1, <4>2
    <3> QED
      BY <3>1, <3>4, <3>5
  <2>5. r = Append(both, q[i])
    BY DEF MoveToTail, RemoveAt, before, after
  <2> HIDE DEF both, r
  <2>6. /\ Append(both, q[i]) \in Seq(S)
        /\ Len(Append(both, q[i])) = Len(both) + 1
        /\ \A j \in 1..Len(both) : Append(both, q[i])[j] = both[j]
        /\ Append(both, q[i])[Len(both) + 1] = q[i]
    BY <2>1, <2>4, AppendProperties
  <2> QED
    BY <2>1, <2>4, <2>5, <2>6
<1>2. Len(q) \in Nat
  BY LenProperties
<1>3. /\ \A j \in 1..Len(q) : at[j] \in 1..Len(q)
      /\ \A j, k \in 1..Len(q) : at[j] = at[k] => j = k
  BY <1>2
<1>4. \A k \in 1..Len(q) : \E j \in 1..Len(q) : at[j] = k
  <2> TAKE k \in 1..Len(q)
  <2> DEFINE j == IF k < i THEN k ELSE IF k = i THEN Len(q) ELSE k - 1
  <2>1. j \in 1..Len(q) /\ at[j] = k
    BY <1>2
  <2> QED
    BY <2>1
<1>5. \A j \in 1..Len(q) : r[j] = q[at[j]]
  BY <1>1, <1>2
<1> HIDE DEF r, at
<1>6. IsInjective(r) /\ Range(r) = Range(q)
  <2>1. DOMAIN q = 1..Len(q) /\ DOMAIN r = 1..Len(q)
    BY <1>1
  <2>2. /\ DOMAIN r = DOMAIN q
        /\ \A j \in DOMAIN q : at[j] \in DOMAIN q
        /\ \A j, m \in DOMAIN q : at[j] = at[m] => j = m
        /\ Onto(at, DOMAIN q)
        /\ \A j \in DOMAIN q : r[j] = q[at[j]]
    BY <2>1, <1>3, <1>4, <1>5, Zenon DEF Onto
  <2> QED
    BY <2>2, Permuted, Zenon
<1> QED
  BY <1>1, <1>6 DEF r

\* So does the round of the clock's hand.
LEMMA RotatePermutes ==
  ASSUME NEW S, NEW q \in Seq(S), NEW k \in 0..Len(q), IsInjective(q)
  PROVE  /\ Rotate(q, k) \in Seq(S)
         /\ IsInjective(Rotate(q, k))
         /\ Range(Rotate(q, k)) = Range(q)
<1> DEFINE r  == Rotate(q, k)
           at == [j \in 1..Len(q) |->
                    IF j <= Len(q) - k THEN j + k ELSE j - (Len(q) - k)]
<1>1. Len(q) \in Nat
  BY LenProperties
<1>2. /\ r \in Seq(S)
      /\ Len(r) = Len(q)
      /\ \A j \in 1..Len(q) :
           r[j] = IF j <= Len(q) - k THEN q[j + k] ELSE q[j - (Len(q) - k)]
  <2> DEFINE front == SubSeq(q, 1, k)
             back  == SubSeq(q, k + 1, Len(q))
  <2>1. \A j \in 1..Len(q) : q[j] \in S
    BY ElementOfSeq
  <2>2. /\ front \in Seq(S)
        /\ Len(front) = k
        /\ \A j \in 1..k : front[j] = q[j]
    BY <1>1, <2>1, SubSeqProperties
  <2>3. /\ back \in Seq(S)
        /\ Len(back) = Len(q) - k
        /\ \A j \in 1..(Len(q) - k) : back[j] = q[k + j]
    BY <1>1, <2>1, SubSeqProperties
  <2>4. r = back \o front
    BY DEF Rotate
  <2> HIDE DEF front, back, r
  <2>5. /\ back \o front \in Seq(S)
        /\ Len(back \o front) = Len(back) + Len(front)
        /\ \A j \in 1..(Len(back) + Len(front)) :
             (back \o front)[j] = IF j <= Len(back) THEN back[j]
                                  ELSE front[j - Len(back)]
    BY <2>2, <2>3, ConcatProperties
  <2> QED
    BY <1>1, <2>2, <2>3, <2>4, <2>5
<1>3. /\ \A j \in 1..Len(q) : at[j] \in 1..Len(q)
      /\ \A j, m \in 1..Len(q) : at[j] = at[m] => j = m
  BY <1>1
<1>4. \A m \in 1..Len(q) : \E j \in 1..Len(q) : at[j] = m
  <2> TAKE m \in 1..Len(q)
  <2> DEFINE j == IF m > k THEN m - k ELSE m + (Len(q) - k)
  <2>1. j \in 1..Len(q) /\ at[j] = m
    BY <1>1
  <2> QED
    BY <2>1
<1>5. \A j \in 1..Len(q) : r[j] = q[at[j]]
  BY <1>1, <1>2
<1> HIDE DEF r, at
<1>6. IsInjective(r) /\ Range(r) = Range(q)
  <2>1. DOMAIN q = 1..Len(q) /\ DOMAIN r = 1..Len(q)
    BY <1>2
  <2>2. /\ DOMAIN r = DOMAIN q
        /\ \A j \in DOMAIN q : at[j] \in DOMAIN q
        /\ \A j, m \in DOMAIN q : at[j] = at[m] => j = m
        /\ Onto(at, DOMAIN q)
        /\ \A j \in DOMAIN q : r[j] = q[at[j]]
    BY <2>1, <1>3, <1>4, <1>5, Zenon DEF Onto
  <2> QED
    BY <2>2, Permuted, Zenon
<1> QED
  BY <1>2, <1>6 DEF r

-----------------------------------------------------------------------------
(* In the midst of a round: what is left of a queue, followed by what went *)
(* to its tail.                                                            *)

\* The queue when the first k of q left the front, and those in r went to the tail.
Ring(q, k, r) == SubSeq(q, k + 1, Len(q)) \o r
FirstOf(q, k)  == {q[j] : j \in 1..k}

LEMMA FirstOfCons ==
  ASSUME NEW S, NEW x \in S, NEW t \in Seq(S)
  PROVE  Head(<<x>> \o t) = x /\ Tail(<<x>> \o t) = t
<1> DEFINE one == <<x>>
           c   == one \o t
<1>1. one \in Seq(S) /\ Len(one) = 1 /\ one[1] = x
  OBVIOUS
<1> HIDE DEF one
<1>2. Len(t) \in Nat
  BY LenProperties
<1>0. /\ c \in Seq(S)
      /\ Len(c) = Len(one) + Len(t)
      /\ \A j \in 1..(Len(one) + Len(t)) :
           c[j] = IF j <= Len(one) THEN one[j] ELSE t[j - Len(one)]
  BY <1>1, ConcatProperties, Zenon
<1> HIDE DEF c
<1>3. /\ c \in Seq(S)
      /\ Len(c) = 1 + Len(t)
      /\ \A j \in 1..(1 + Len(t)) : c[j] = IF j <= 1 THEN one[j] ELSE t[j - 1]
  BY <1>0, <1>1
<1>4. c # <<>> /\ c[1] = x
  BY <1>1, <1>2, <1>3
<1>5. /\ Tail(c) \in Seq(S)
      /\ Len(Tail(c)) = Len(t)
      /\ \A j \in 1..Len(t) : Tail(c)[j] = c[j + 1]
  BY <1>2, <1>3, <1>4, HeadTailProperties
<1>6. ASSUME NEW j \in 1..Len(t) PROVE Tail(c)[j] = t[j]
  <2>1. j + 1 \in 1..(1 + Len(t)) /\ ~(j + 1 <= 1) /\ (j + 1) - 1 = j
    BY <1>2
  <2>2. c[j + 1] = t[j]
    BY <2>1, <1>3
  <2> QED
    BY <2>2, <1>5
<1>7. Tail(c) = t
  BY <1>5, <1>6, SeqEqual, Zenon
<1>8. Head(c) = x
  BY <1>4
<1> QED
  BY <1>7, <1>8 DEF c, one

LEMMA PartsOf ==
  ASSUME NEW S, NEW q \in Seq(S), NEW a \in Nat, NEW b \in Int, a >= 1, b <= Len(q)
  PROVE  SubSeq(q, a, b) \in Seq(S)
<1>1. Len(q) \in Nat /\ \A j \in 1..Len(q) : q[j] \in S
  BY LenProperties, ElementOfSeq
<1>2. \A j \in a..b : q[j] \in S
  BY <1>1
<1> QED
  BY <1>2, SubSeqProperties

\* One turn of either loop: the front page leaves what is left of q, and may go
\* behind what went to the tail before it.
LEMMA RestUnrolls ==
  ASSUME NEW S, NEW q \in Seq(S), NEW r \in Seq(S), NEW k \in 0..(Len(q) - 1)
  PROVE  /\ Head(Ring(q, k, r)) = q[k + 1]
         /\ Tail(Ring(q, k, r)) = Ring(q, k + 1, r)
         /\ Append(Tail(Ring(q, k, r)), q[k + 1]) = Ring(q, k + 1, Append(r, q[k + 1]))
<1> DEFINE c    == Ring(q, k, r)
           x    == q[k + 1]
           rest == SubSeq(q, k + 2, Len(q))
           one  == <<x>>
<1>1. Len(q) \in Nat /\ k + 1 \in 1..Len(q) /\ k + 2 \in Nat /\ (k + 1) + 1 = k + 2
      /\ Len(q) \in (k + 1)..Len(q)
  BY LenProperties
<1>2. x \in S
  BY <1>1, ElementOfSeq
<1>3. rest \in Seq(S)
  BY <1>1, PartsOf
<1>4. SubSeq(q, k + 1, Len(q)) = one \o rest
  BY <1>1, SubSeqRecursiveFirst
<1>5. one \in Seq(S)
  BY <1>2
<1>0. c = (one \o rest) \o r
  BY <1>4, Zenon DEF Ring
<1> HIDE DEF c, x, rest, one
<1>6. c = one \o (rest \o r)
  <2>1. (one \o rest) \o r = one \o (rest \o r)
    <3>1. one \o rest \in Seq(S) /\ rest \o r \in Seq(S)
      BY <1>3, <1>5, ConcatProperties
    <3> QED
      BY <1>3, <1>5, <3>1
  <2> QED
    BY <1>0, <2>1, Zenon
<1>7. rest \o r \in Seq(S)
  BY <1>3, ConcatProperties
<1>8. Head(c) = x /\ Tail(c) = rest \o r
  BY <1>2, <1>6, <1>7, FirstOfCons, Zenon DEF one
<1>9. Append(rest \o r, x) = rest \o Append(r, x)
  <2>1. Append(rest \o r, x) = (rest \o r) \o one
    BY <1>2, <1>7, AppendIsConcat, Zenon DEF one
  <2>2. Append(r, x) = r \o one
    BY <1>2, AppendIsConcat, Zenon DEF one
  <2>3. (rest \o r) \o one = rest \o (r \o one)
    <3>1. rest \o r \in Seq(S) /\ r \o one \in Seq(S)
      BY <1>3, <1>5, ConcatProperties
    <3> QED
      BY <1>3, <1>5, <3>1
  <2> QED
    BY <2>1, <2>2, <2>3, Zenon
<1>10. \A s : Ring(q, k + 1, s) = rest \o s
  BY <1>1, Zenon DEF Ring, rest
<1> QED
  BY <1>8, <1>9, <1>10, Zenon DEF c, x

LEMMA RingParts ==
  ASSUME NEW S, NEW q \in Seq(S), NEW r \in Seq(S), NEW k \in 0..Len(q)
  PROVE  Ring(q, k, r) \in Seq(S)
<1>1. Len(q) \in Nat
  BY LenProperties
<1>2. SubSeq(q, k + 1, Len(q)) \in Seq(S)
  BY <1>1, PartsOf
<1> QED
  BY <1>2, ConcatProperties DEF Ring

LEMMA OneMore ==
  ASSUME NEW S, NEW q \in Seq(S), NEW m \in 1..Len(q), NEW k \in (m - 1)..(Len(q) - 1)
  PROVE  SubSeq(q, m, k + 1) = Append(SubSeq(q, m, k), q[k + 1])
<1>1. /\ Len(q) \in Nat /\ k + 1 \in m..Len(q) /\ (k + 1) - 1 = k
      /\ k + 1 \in 1..Len(q) /\ m \in Nat /\ k \in Int /\ m >= 1 /\ k <= Len(q)
  BY LenProperties
<1>2. SubSeq(q, m, k + 1) = SubSeq(q, m, (k + 1) - 1) \o <<q[k + 1]>>
  BY <1>1, SubSeqRecursiveSecond
<1>3. SubSeq(q, m, k) \in Seq(S) /\ q[k + 1] \in S
  BY <1>1, PartsOf, ElementOfSeq
<1> QED
  BY <1>1, <1>2, <1>3, AppendIsConcat

LEMMA AllLeft ==
  ASSUME NEW S, NEW q \in Seq(S)
  PROVE  /\ SubSeq(q, 1, Len(q)) = q
         /\ SubSeq(q, 1, 0) = <<>>
         /\ Ring(q, 0, <<>>) = q
         /\ \A r \in Seq(S) : Ring(q, Len(q), r) = r
<1>1. Len(q) \in Nat /\ 0 + 1 = 1
  BY LenProperties
<1>2. SubSeq(q, 1, 0) = <<>> /\ SubSeq(q, Len(q) + 1, Len(q)) = <<>>
  BY <1>1, SubSeqEmpty
<1>3. SubSeq(q, 1, Len(q)) = q
  BY SubSeqFull
<1>4. \A r \in Seq(S) : q \o <<>> = q /\ <<>> \o r = r
  BY ConcatEmptySeq
<1> QED
  BY <1>1, <1>2, <1>3, <1>4, Zenon DEF Ring

LEMMA FirstOfMore ==
  ASSUME NEW q, NEW k \in Nat
  PROVE  /\ FirstOf(q, k + 1) = FirstOf(q, k) \cup {q[k + 1]}
         /\ FirstOf(q, 0) = {}
<1>1. 1..(k + 1) = (1..k) \cup {k + 1} /\ 1..0 = {}
  OBVIOUS
<1> QED
  BY <1>1, Zenon DEF FirstOf

-----------------------------------------------------------------------------
(* A round in which only the elements of a set are pushed again.  Sifted   *)
(* is the last value of a recursive function; facts about it come from the *)
(* least place where they could fail.                                      *)

\* Induction, for a set of numbers.
LEMMA Reached ==
  ASSUME NEW n \in Nat, NEW G, 0 \in G, \A k \in 0..(n - 1) : k \in G => k + 1 \in G
  PROVE  \A k \in 0..n : k \in G
<1> DEFINE T == {k \in 0..n : k \notin G}
<1> SUFFICES ASSUME T # {} PROVE FALSE
  OBVIOUS
<1> DEFINE m == Min(T)
<1>1. T \in SUBSET Nat
  OBVIOUS
<1>2. m \in T /\ \A k \in T : m <= k
  <2> HIDE DEF T
  <2> QED
    BY <1>1, MinInSet, MinLeast
<1> HIDE DEF m
<1>3. m \in 0..n /\ m \notin G /\ m # 0
  BY <1>2
<1>4. m - 1 \in 0..(n - 1) /\ m - 1 \in 0..n /\ (m - 1) + 1 = m
  BY <1>3
<1>5. m - 1 \in G
  <2> SUFFICES ASSUME m - 1 \notin G PROVE FALSE
    OBVIOUS
  <2>1. m - 1 \in T
    BY <1>4
  <2> QED
    BY <1>2, <1>3, <1>4, <2>1
<1>6. m \in G
  BY <1>4, <1>5
<1> QED
  BY <1>3, <1>6

\* f[k] is what is left of the first k elements of q.
Sieves(f, q, S, n) ==
  f = [k \in 0..n |-> IF k = 0 THEN <<>>
                      ELSE IF q[k] \in S THEN Append(f[k - 1], q[k]) ELSE f[k - 1]]

LEMMA SieveExists ==
  ASSUME NEW q, NEW S, NEW n \in Nat
  PROVE  \E f : Sieves(f, q, S, n)
<1> DEFINE G == {k \in 0..n : \E f : Sieves(f, q, S, k)}
<1>1. 0 \in G
  <2> DEFINE f == [k \in 0..0 |-> <<>>]
  <2>1. Sieves(f, q, S, 0)
    BY DEF Sieves
  <2> QED
    BY <2>1
<1>2. ASSUME NEW k \in 0..(n - 1), k \in G PROVE k + 1 \in G
  <2>1. PICK f : Sieves(f, q, S, k)
    BY <1>2
  <2> DEFINE x == IF q[k + 1] \in S THEN Append(f[k], q[k + 1]) ELSE f[k]
             g == [j \in 0..(k + 1) |-> IF j = k + 1 THEN x ELSE f[j]]
  <2>2. \A j \in 0..k : f[j] = IF j = 0 THEN <<>>
                               ELSE IF q[j] \in S THEN Append(f[j - 1], q[j])
                               ELSE f[j - 1]
    BY <2>1 DEF Sieves
  <2>3. \A j \in 0..(k + 1) : g[j] = IF j = 0 THEN <<>>
                                     ELSE IF q[j] \in S THEN Append(g[j - 1], q[j])
                                     ELSE g[j - 1]
    <3> TAKE j \in 0..(k + 1)
    <3>1. CASE j = k + 1
      <4>1. g[j] = x /\ j # 0 /\ j - 1 = k /\ j - 1 \in 0..(k + 1) /\ j - 1 # k + 1
        BY <3>1
      <4> HIDE DEF x
      <4>2. g[j - 1] = f[k]
        BY <4>1
      <4> HIDE DEF g
      <4> QED
        BY <3>1, <4>1, <4>2, Zenon DEF x
    <3>2. CASE j = 0
      BY <2>2, <3>2
    <3>3. CASE j # 0 /\ j # k + 1
      <4>1. j \in 0..k /\ j - 1 \in 0..(k + 1) /\ j - 1 # k + 1
        BY <3>3
      <4> HIDE DEF x
      <4>2. g[j] = f[j] /\ g[j - 1] = f[j - 1]
        BY <3>3, <4>1
      <4> HIDE DEF g
      <4> QED
        BY <2>2, <3>3, <4>1, <4>2, Zenon
    <3> QED
      BY <3>1, <3>2, <3>3
  <2>4. g = [j \in 0..(k + 1) |-> g[j]]
    OBVIOUS
  <2> HIDE DEF g
  <2>5. Sieves(g, q, S, k + 1)
    BY <2>3, <2>4 DEF Sieves
  <2>6. k + 1 \in 0..n
    BY <1>2
  <2> QED
    BY <2>5, <2>6
<1> HIDE DEF G
<1>3. \A k \in 0..n : k \in G
  BY <1>1, <1>2, Reached
<1> QED
  BY <1>3 DEF G

LEMMA SieveUnique ==
  ASSUME NEW q, NEW S, NEW n \in Nat, NEW f, NEW g, NEW m \in 0..n,
         Sieves(f, q, S, m), Sieves(g, q, S, n)
  PROVE  \A k \in 0..m : f[k] = g[k]
<1> DEFINE G == {k \in 0..m : f[k] = g[k]}
<1>1. /\ \A k \in 0..m : f[k] = IF k = 0 THEN <<>>
                                ELSE IF q[k] \in S THEN Append(f[k - 1], q[k])
                                ELSE f[k - 1]
      /\ \A k \in 0..n : g[k] = IF k = 0 THEN <<>>
                                ELSE IF q[k] \in S THEN Append(g[k - 1], q[k])
                                ELSE g[k - 1]
  BY Zenon DEF Sieves
<1>2. 0 \in G
  <2>1. 0 \in 0..m /\ 0 \in 0..n
    OBVIOUS
  <2>2. f[0] = <<>> /\ g[0] = <<>>
    BY <1>1, <2>1, Zenon
  <2> QED
    BY <2>1, <2>2
<1>3. ASSUME NEW k \in 0..(m - 1), k \in G PROVE k + 1 \in G
  <2>1. k + 1 \in 0..m /\ k + 1 \in 0..n /\ k + 1 # 0 /\ (k + 1) - 1 = k /\ f[k] = g[k]
    BY <1>3
  <2>2. f[k + 1] = g[k + 1]
    BY <1>1, <2>1
  <2> QED
    BY <2>1, <2>2
<1> HIDE DEF G
<1>4. m \in Nat
  OBVIOUS
<1>5. \A k \in 0..m : k \in G
  BY <1>2, <1>3, <1>4, Reached
<1> QED
  BY <1>5 DEF G

\* Sifted, a place at a time.
LEMMA SiftedIs ==
  ASSUME NEW T, NEW q \in Seq(T), NEW S, NEW f, Sieves(f, q, S, Len(q))
  PROVE  Sifted(q, S) = f[Len(q)]
<1> DEFINE F == CHOOSE g : Sieves(g, q, S, Len(q))
<1>1. Len(q) \in Nat /\ Len(q) \in 0..Len(q)
  BY LenProperties
<1>2. Sieves(F, q, S, Len(q))
  BY Zenon
<1>3. Sifted(q, S) = F[Len(q)]
  BY Zenon DEF Sifted, Sieves
<1> HIDE DEF F
<1>4. F[Len(q)] = f[Len(q)]
  BY <1>1, <1>2, SieveUnique
<1> QED
  BY <1>3, <1>4

LEMMA SiftedPlaces ==
  ASSUME NEW T, NEW q \in Seq(T), NEW S
  PROVE  \E f : /\ Sieves(f, q, S, Len(q))
                /\ \A k \in 0..Len(q) : Sifted(SubSeq(q, 1, k), S) = f[k]
<1>1. Len(q) \in Nat
  BY LenProperties
<1>2. PICK f : Sieves(f, q, S, Len(q))
  BY <1>1, SieveExists
<1>3. \A k \in 0..Len(q) : f[k] = IF k = 0 THEN <<>>
                                  ELSE IF q[k] \in S THEN Append(f[k - 1], q[k])
                                  ELSE f[k - 1]
  BY <1>2, Zenon DEF Sieves
<1>4. ASSUME NEW k \in 0..Len(q) PROVE Sifted(SubSeq(q, 1, k), S) = f[k]
  <2> DEFINE s == SubSeq(q, 1, k)
             g == [j \in 0..k |-> f[j]]
  <2>1. /\ s \in Seq(T) /\ Len(s) = k
        /\ \A j \in 1..k : s[j] = q[j]
    <3>1. \A j \in 1..k : q[j] \in T
      BY <1>1, ElementOfSeq
    <3> QED
      BY <1>1, <3>1, SubSeqProperties
  <2> HIDE DEF s
  <2>2. ASSUME NEW j \in 0..k
        PROVE  f[j] = IF j = 0 THEN <<>>
                      ELSE IF s[j] \in S THEN Append(g[j - 1], s[j]) ELSE g[j - 1]
    <3>1. j \in 0..Len(q)
      BY <1>1
    <3>2. CASE j = 0
      BY <1>3, <3>1, <3>2, Zenon
    <3>3. CASE j # 0
      <4>1. j \in 1..k /\ j - 1 \in 0..k
        BY <3>3
      <4>2. s[j] = q[j] /\ g[j - 1] = f[j - 1]
        BY <2>1, <4>1
      <4> HIDE DEF g
      <4> QED
        BY <1>3, <3>1, <3>3, <4>2, Zenon
    <3> QED
      BY <3>2, <3>3
  <2>3. Sieves(g, s, S, k)
    BY <2>2, Zenon DEF Sieves
  <2>4. g[k] = f[k]
    BY <1>1
  <2> HIDE DEF g
  <2>5. Sifted(s, S) = g[Len(s)]
    BY <2>1, <2>3, SiftedIs
  <2> QED
    BY <2>1, <2>4, <2>5, Zenon DEF s
<1> QED
  BY <1>2, <1>4, Zenon

\* What sifting does with the next element.
LEMMA SiftedOn ==
  ASSUME NEW T, NEW q \in Seq(T), NEW S
  PROVE  /\ Sifted(SubSeq(q, 1, 0), S) = <<>>
         /\ \A k \in 0..(Len(q) - 1) :
              Sifted(SubSeq(q, 1, k + 1), S) =
                IF q[k + 1] \in S THEN Append(Sifted(SubSeq(q, 1, k), S), q[k + 1])
                ELSE Sifted(SubSeq(q, 1, k), S)
         /\ Sifted(SubSeq(q, 1, Len(q)), S) = Sifted(q, S)
<1>1. Len(q) \in Nat /\ 0 \in 0..Len(q)
  BY LenProperties
<1>2. PICK f : /\ Sieves(f, q, S, Len(q))
               /\ \A k \in 0..Len(q) : Sifted(SubSeq(q, 1, k), S) = f[k]
  BY SiftedPlaces
<1>3. \A k \in 0..Len(q) : f[k] = IF k = 0 THEN <<>>
                                  ELSE IF q[k] \in S THEN Append(f[k - 1], q[k])
                                  ELSE f[k - 1]
  BY <1>2, Zenon DEF Sieves
<1>4. Sifted(SubSeq(q, 1, 0), S) = <<>>
  BY <1>1, <1>2, <1>3, Zenon
<1>5. ASSUME NEW k \in 0..(Len(q) - 1)
      PROVE  Sifted(SubSeq(q, 1, k + 1), S) =
               IF q[k + 1] \in S THEN Append(Sifted(SubSeq(q, 1, k), S), q[k + 1])
               ELSE Sifted(SubSeq(q, 1, k), S)
  <2>1. k \in 0..Len(q) /\ k + 1 \in 0..Len(q) /\ k + 1 # 0 /\ (k + 1) - 1 = k
    BY <1>1
  <2>2. Sifted(SubSeq(q, 1, k + 1), S) = f[k + 1] /\ Sifted(SubSeq(q, 1, k), S) = f[k]
    BY <1>2, <2>1, Zenon
  <2>3. f[k + 1] = IF q[k + 1] \in S THEN Append(f[k], q[k + 1]) ELSE f[k]
    BY <1>3, <2>1, Zenon
  <2> QED
    BY <2>2, <2>3, Zenon
<1> QED
  BY <1>4, <1>5, SubSeqFull, Zenon

LEMMA Appended ==
  ASSUME NEW T, NEW s \in Seq(T), NEW e \in T
  PROVE  /\ Append(s, e) \in Seq(T)
         /\ Range(Append(s, e)) = Range(s) \cup {e}
         /\ IsInjective(s) /\ e \notin Range(s) => IsInjective(Append(s, e))
<1> DEFINE a == Append(s, e)
<1>1. Len(s) \in Nat /\ DOMAIN s = 1..Len(s)
  BY LenProperties
<1>2. /\ a \in Seq(T) /\ Len(a) = Len(s) + 1 /\ DOMAIN a = 1..Len(a)
      /\ \A j \in 1..Len(s) : a[j] = s[j]
      /\ a[Len(s) + 1] = e
  BY AppendProperties, LenProperties
<1> HIDE DEF a
<1>3. Range(a) = Range(s) \cup {e}
  <2>1. \A x \in Range(a) : x \in Range(s) \cup {e}
    BY <1>1, <1>2 DEF Range
  <2>2. \A x \in Range(s) \cup {e} : x \in Range(a)
    BY <1>1, <1>2 DEF Range
  <2> QED
    BY <2>1, <2>2
<1>4. IsInjective(s) /\ e \notin Range(s) => IsInjective(a)
  BY <1>1, <1>2 DEF IsInjective, Range
<1> QED
  BY <1>2, <1>3, <1>4 DEF a

\* Sifting keeps the elements of the set, and repeats none.
LEMMA SiftedKeeps ==
  ASSUME NEW T, NEW q \in Seq(T), NEW S, IsInjective(q)
  PROVE  /\ Sifted(q, S) \in Seq(T)
         /\ IsInjective(Sifted(q, S))
         /\ Range(Sifted(q, S)) = Range(q) \cap S
         /\ \A k \in 0..Len(q) : Sifted(SubSeq(q, 1, k), S) \in Seq(T)
<1>1. Len(q) \in Nat /\ DOMAIN q = 1..Len(q)
  BY LenProperties
<1>0. \A k \in 0..(Len(q) - 1) :
        Sifted(SubSeq(q, 1, k + 1), S) =
          IF q[k + 1] \in S THEN Append(Sifted(SubSeq(q, 1, k), S), q[k + 1])
          ELSE Sifted(SubSeq(q, 1, k), S)
  BY SiftedOn
<1> DEFINE left(k) == Sifted(SubSeq(q, 1, k), S)
           First(k) == {q[j] : j \in 1..k}
           G == {k \in 0..Len(q) : /\ left(k) \in Seq(T) /\ IsInjective(left(k))
                                   /\ Range(left(k)) = First(k) \cap S}
<1>2. 0 \in G
  <2>1. left(0) = <<>>
    BY SiftedOn
  <2>2. <<>> \in Seq(T) /\ IsInjective(<<>>) /\ Range(<<>>) = {}
    BY DEF IsInjective, Range
  <2>3. First(0) = {} /\ 0 \in 0..Len(q)
    BY <1>1
  <2> HIDE DEF left, First
  <2> QED
    BY <2>1, <2>2, <2>3
<1>3. ASSUME NEW k \in 0..(Len(q) - 1), k \in G PROVE k + 1 \in G
  <2> DEFINE x == q[k + 1]
  <2>1. /\ k + 1 \in 0..Len(q) /\ k + 1 \in DOMAIN q /\ x \in T
        /\ 1..(k + 1) = (1..k) \cup {k + 1}
    BY <1>1, ElementOfSeq
  <2>2. left(k + 1) = IF x \in S THEN Append(left(k), x) ELSE left(k)
    BY <1>0, Zenon
  <2>3. First(k + 1) = First(k) \cup {x}
    BY <2>1, Zenon
  <2>4. x \notin First(k)
    <3>1. \A j \in 1..k : j \in DOMAIN q /\ j # k + 1
      BY <1>1
    <3> QED
      BY <2>1, <3>1, Zenon DEF IsInjective
  <2>5. left(k) \in Seq(T) /\ IsInjective(left(k)) /\ Range(left(k)) = First(k) \cap S
    BY <1>3
  <2> HIDE DEF left, First, x
  <2>6. CASE x \in S
    <3>1. left(k + 1) = Append(left(k), x)
      BY <2>2, <2>6
    <3>2. x \notin Range(left(k))
      BY <2>4, <2>5
    <3>3. /\ Append(left(k), x) \in Seq(T) /\ IsInjective(Append(left(k), x))
          /\ Range(Append(left(k), x)) = Range(left(k)) \cup {x}
      BY <2>1, <2>5, <3>2, Appended
    <3> QED
      BY <2>1, <2>3, <2>5, <2>6, <3>1, <3>3
  <2>7. CASE x \notin S
    BY <2>1, <2>2, <2>3, <2>5, <2>7
  <2> QED
    BY <2>6, <2>7
<1>4. \A k \in 0..Len(q) : k \in G
  <2> HIDE DEF G
  <2> QED
    BY <1>1, <1>2, <1>3, Reached
<1>5. Len(q) \in 0..Len(q) /\ left(Len(q)) = Sifted(q, S) /\ First(Len(q)) = Range(q)
  <2>1. First(Len(q)) = Range(q)
    BY <1>1, Zenon DEF Range
  <2>2. left(Len(q)) = Sifted(q, S)
    BY SiftedOn, Zenon
  <2> QED
    BY <1>1, <2>1, <2>2
<1>6. \A k \in 0..Len(q) : left(k) \in Seq(T) /\ IsInjective(left(k))
                           /\ Range(left(k)) = First(k) \cap S
  BY <1>4
<1> HIDE DEF First, G
<1> QED
  BY <1>5, <1>6, Zenon

-----------------------------------------------------------------------------
(* A round in which every element is pushed again, and taking an element   *)
(* from the front.                                                         *)

LEMMA RoundTurns ==
  ASSUME NEW S, NEW q \in Seq(S), IsInjective(q), NEW k \in 0..(Len(q) - 1)
  PROVE  /\ Head(Ring(q, k, SubSeq(q, 1, k))) = q[k + 1]
         /\ Tail(Ring(q, k, SubSeq(q, 1, k))) = Ring(q, k + 1, SubSeq(q, 1, k))
         /\ Append(Tail(Ring(q, k, SubSeq(q, 1, k))), q[k + 1])
              = Ring(q, k + 1, SubSeq(q, 1, k + 1))
         /\ q[k + 1] \notin FirstOf(q, k)
<1> DEFINE s == SubSeq(q, 1, k)
<1>1. /\ Len(q) \in Nat /\ DOMAIN q = 1..Len(q) /\ 1 \in 1..Len(q)
      /\ k \in (1 - 1)..(Len(q) - 1) /\ k \in 0..Len(q) /\ k + 1 \in DOMAIN q
      /\ \A j \in 1..k : j \in DOMAIN q /\ j # k + 1
  BY LenProperties
<1>2. SubSeq(q, 1, k + 1) = Append(s, q[k + 1])
  BY <1>1, OneMore
<1>3. s \in Seq(S)
  BY <1>1, PartsOf
<1> HIDE DEF s
<1>4. /\ Head(Ring(q, k, s)) = q[k + 1]
      /\ Tail(Ring(q, k, s)) = Ring(q, k + 1, s)
      /\ Append(Tail(Ring(q, k, s)), q[k + 1]) = Ring(q, k + 1, Append(s, q[k + 1]))
  BY <1>3, RestUnrolls
<1>5. q[k + 1] \notin FirstOf(q, k)
  BY <1>1, Zenon DEF FirstOf, IsInjective
<1> QED
  BY <1>2, <1>4, <1>5, Zenon DEF s

LEMMA RoundPermutes ==
  ASSUME NEW S, NEW q \in Seq(S), IsInjective(q), NEW k \in 0..Len(q)
  PROVE  LET r == Ring(q, k, SubSeq(q, 1, k)) IN
         r \in Seq(S) /\ IsInjective(r) /\ Range(r) = Range(q)
<1>1. Ring(q, k, SubSeq(q, 1, k)) = Rotate(q, k)
  BY Zenon DEF Ring, Rotate
<1> QED
  BY <1>1, RotatePermutes

LEMMA TailWithoutHead ==
  ASSUME NEW S, NEW q \in Seq(S), IsInjective(q), q # <<>>
  PROVE  /\ Head(q) \in Range(q) /\ Head(q) \in S /\ Tail(q) \in Seq(S)
         /\ IsInjective(Tail(q))
         /\ Range(Tail(q)) = Range(q) \ {Head(q)}
<1> DEFINE t == Tail(q)
<1>1. Len(q) \in Nat /\ Len(q) # 0 /\ DOMAIN q = 1..Len(q) /\ Head(q) = q[1]
  BY LenProperties, EmptySeq
<1>2. /\ t \in Seq(S) /\ Len(t) = Len(q) - 1 /\ DOMAIN t = 1..Len(t)
      /\ \A j \in 1..Len(t) : t[j] = q[j + 1]
      /\ Head(q) \in S
  BY HeadTailProperties, LenProperties
<1> HIDE DEF t
<1>3. \A j \in 1..Len(t) : j + 1 \in DOMAIN q /\ j + 1 # 1
  BY <1>1, <1>2
<1>4. IsInjective(t)
  <2> SUFFICES ASSUME NEW a \in DOMAIN t, NEW b \in DOMAIN t, t[a] = t[b] PROVE a = b
    BY DEF IsInjective
  <2>1. q[a + 1] = q[b + 1] /\ a + 1 \in DOMAIN q /\ b + 1 \in DOMAIN q
    BY <1>2, <1>3
  <2>2. a + 1 = b + 1
    BY <2>1, InjectiveAt
  <2> QED
    BY <1>2, <2>2
<1>5. Range(t) \subseteq Range(q) \ {Head(q)}
  <2> SUFFICES ASSUME NEW a \in DOMAIN t PROVE t[a] \in Range(q) /\ t[a] # q[1]
    BY <1>1 DEF Range
  <2>1. t[a] = q[a + 1] /\ a + 1 \in DOMAIN q /\ a + 1 # 1 /\ 1 \in DOMAIN q
    BY <1>1, <1>2, <1>3
  <2> QED
    BY <2>1, InRange, InjectiveAt
<1>6. Range(q) \ {Head(q)} \subseteq Range(t)
  <2> SUFFICES ASSUME NEW a \in DOMAIN q, q[a] # q[1] PROVE q[a] \in Range(t)
    BY <1>1 DEF Range
  <2>1. a # 1 /\ a - 1 \in DOMAIN t /\ t[a - 1] = q[(a - 1) + 1] /\ (a - 1) + 1 = a
    BY <1>1, <1>2
  <2> QED
    BY <2>1, InRange
<1>7. Head(q) \in Range(q)
  BY <1>1, InRange
<1> QED
  BY <1>2, <1>4, <1>5, <1>6, <1>7 DEF t

LEMMA Joined ==
  ASSUME NEW S, NEW q \in Seq(S), NEW r \in Seq(S), IsInjective(q), IsInjective(r),
         Range(q) \cap Range(r) = {}
  PROVE  /\ q \o r \in Seq(S)
         /\ IsInjective(q \o r)
         /\ Range(q \o r) = Range(q) \cup Range(r)
<1> DEFINE b == q \o r
<1>1. /\ Len(q) \in Nat /\ Len(r) \in Nat
      /\ DOMAIN q = 1..Len(q) /\ DOMAIN r = 1..Len(r)
  BY LenProperties
<1>2. /\ b \in Seq(S) /\ Len(b) = Len(q) + Len(r)
      /\ \A j \in 1..(Len(q) + Len(r)) : b[j] = IF j <= Len(q) THEN q[j]
                                                ELSE r[j - Len(q)]
  BY ConcatProperties
<1>3. Range(b) = Range(q) \cup Range(r)
  BY RangeConcatenation
<1> HIDE DEF b
<1>4. DOMAIN b = 1..(Len(q) + Len(r))
  BY <1>1, <1>2, LenProperties
<1>5. IsInjective(b)
  <2> SUFFICES ASSUME NEW x \in DOMAIN b, NEW y \in DOMAIN b, b[x] = b[y] PROVE x = y
    BY DEF IsInjective
  <2>1. \A j \in DOMAIN b :
          \/ j \in DOMAIN q /\ j <= Len(q) /\ b[j] = q[j] /\ b[j] \in Range(q)
          \/ j > Len(q) /\ (j - Len(q)) \in DOMAIN r /\ b[j] = r[j - Len(q)]
             /\ b[j] \in Range(r)
    BY <1>1, <1>2, <1>4, InRange
  <2>2. CASE x <= Len(q) /\ y <= Len(q)
    BY <1>1, <1>4, <2>1, <2>2, InjectiveAt
  <2>3. CASE x > Len(q) /\ y > Len(q)
    <3>1. x - Len(q) = y - Len(q)
      BY <1>1, <1>4, <2>1, <2>3, InjectiveAt
    <3> QED
      BY <1>1, <1>4, <3>1
  <2>4. CASE (x <= Len(q) /\ y > Len(q)) \/ (x > Len(q) /\ y <= Len(q))
    BY <1>1, <1>4, <2>1, <2>4
  <2>5. x \in Nat /\ y \in Nat /\ Len(q) \in Nat
    BY <1>1, <1>4
  <2>6. (x <= Len(q) \/ x > Len(q)) /\ (y <= Len(q) \/ y > Len(q))
    BY <2>5
  <2> QED
    BY <2>2, <2>3, <2>4, <2>5, <2>6
<1> QED
  BY <1>2, <1>3, <1>5 DEF b

-----------------------------------------------------------------------------
(* Functions on 1..n.                                                      *)

\* A function on 1..n is a sequence of that length.
LEMMA SequenceOf ==
  ASSUME NEW n \in Nat, NEW s, s = [i \in 1..n |-> s[i]]
  PROVE  s \in Seq({s[i] : i \in 1..n}) /\ Len(s) = n
<1>1. s \in [1..n -> {s[i] : i \in 1..n}]
  OBVIOUS
<1>2. s \in Seq({s[i] : i \in 1..n})
  BY <1>1
<1>3. Len(s) \in Nat /\ 1..Len(s) = 1..n
  BY <1>1, <1>2, LenProperties
<1> QED
  BY <1>2, <1>3

LEMMA AppendIs ==
  ASSUME NEW n \in Nat, NEW s, s = [i \in 1..n |-> s[i]], NEW e
  PROVE  Append(s, e) = [i \in 1..(n + 1) |-> IF i <= n THEN s[i] ELSE e]
<1> DEFINE S == {s[i] : i \in 1..n} \cup {e}
           t == [i \in 1..(n + 1) |-> IF i <= n THEN s[i] ELSE e]
<1>1. s \in Seq({s[i] : i \in 1..n}) /\ Len(s) = n
  BY SequenceOf
<1>2. s \in [1..n -> S]
  OBVIOUS
<1>3. s \in Seq(S) /\ e \in S
  BY <1>2
<1> HIDE DEF S
<1>4. /\ Append(s, e) \in Seq(S)
      /\ Len(Append(s, e)) = n + 1
      /\ \A i \in 1..n : Append(s, e)[i] = s[i]
      /\ Append(s, e)[n + 1] = e
  BY <1>1, <1>3, AppendProperties
<1>5. Append(s, e) = [i \in 1..(n + 1) |-> Append(s, e)[i]]
  BY <1>4, LenProperties
<1>6. \A i \in 1..(n + 1) : Append(s, e)[i] = t[i]
  BY <1>4
<1> QED
  BY <1>5, <1>6
=============================================================================
