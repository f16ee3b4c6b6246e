---------------------------- MODULE ClockProofs ----------------------------
(***************************************************************************)
(* Proofs about ClockLoop for every number of frames: the loops of alloc   *)
(* and runclock leave what the closed form of Clock says.                  *)
(***************************************************************************)
EXTENDS ClockLoop, QueueLemmas, FiniteSetTheorems

-----------------------------------------------------------------------------
(* The inductive invariant: where each loop is in the queue it began with. *)

Queue(q) == q \in Seq(Frame) /\ IsInjective(q) /\ Range(q) = Frame

States == {"idle", "rotate", "hand", "evict", "done"}

TypeOK ==
  /\ clock_q \in Seq(Frame) /\ free_ppage \in Seq(Frame)
  /\ psuff \in [Frame -> Ppb]
  /\ readable \subseteq Frame
  /\ pc \in States
  /\ i \in 0..(PCnt - 1)

Started ==
  /\ Queue(start.queue)
  /\ start.free \in Seq(Frame)
  /\ start.bits \in [Frame -> Ppb]

PlaceOf(q, p) == CHOOSE k \in 1..Len(q) : q[k] = p

\* The first k of q without the one at place m.
Skipping(q, m, k) ==
  IF k < m THEN SubSeq(q, 1, k) ELSE SubSeq(q, 1, m - 1) \o SubSeq(q, m + 1, k)

Rotating ==
  LET q == start.queue
      m == PlaceOf(q, ppage) IN
  /\ start.free # <<>>
  /\ ppage = Head(start.free) /\ free_ppage = Tail(start.free)
  /\ psuff = start.bits
  /\ clock_q = Ring(q, i, Skipping(q, m, i))

\* The hand has passed the first k pages, all of them referenced.
PassedBy(k) ==
  LET q == start.queue IN
  /\ clock_q = Ring(q, k, SubSeq(q, 1, k))
  /\ \A j \in 1..k : start.bits[q[j]].ref
  /\ \A p \in Frame :
       psuff[p] = [ref   |-> start.bits[p].ref /\ p \notin FirstOf(q, k),
                   dirty |-> start.bits[p].dirty]
  /\ readable \cap FirstOf(q, k) = {}

Turning ==
  /\ start.free = <<>> /\ free_ppage = <<>>
  /\ \E k \in 0..Len(start.queue) : PassedBy(k)

Stopped ==
  LET victim == Before!Victim(start.bits)
      passed == Before!Passed(start.bits) IN
  /\ start.free = <<>> /\ free_ppage = <<>>
  /\ ppage = victim
  /\ clock_q = Before!AllocClock(start.bits)
  /\ \A p \in Frame :
       psuff[p] = [ref   |-> p = victim \/ (start.bits[p].ref /\ p \notin passed),
                   dirty |-> start.bits[p].dirty]
  /\ readable \cap passed = {}

LoopInv ==
  /\ TypeOK
  /\ pc = "idle" => Queue(clock_q)
  /\ pc # "idle" => Started
  /\ pc = "rotate" => Rotating
  /\ pc = "hand" => Turning
  /\ pc = "evict" => Stopped
  /\ LoopsAgree
-----------------------------------------------------------------------------
(* A queue without one of its elements.                                    *)

LEMMA SkippingParts ==
  ASSUME NEW S, NEW q \in Seq(S), NEW m \in 1..Len(q), NEW k \in 0..Len(q)
  PROVE  Skipping(q, m, k) \in Seq(S)
<1>1. Len(q) \in Nat
  BY LenProperties
<1>2. SubSeq(q, 1, k) \in Seq(S) /\ SubSeq(q, 1, m - 1) \in Seq(S)
      /\ SubSeq(q, m + 1, k) \in Seq(S)
  BY <1>1, PartsOf
<1>3. SubSeq(q, 1, m - 1) \o SubSeq(q, m + 1, k) \in Seq(S)
  BY <1>2, ConcatProperties
<1> QED
  BY <1>2, <1>3 DEF Skipping

LEMMA SkippingOn ==
  ASSUME NEW S, NEW q \in Seq(S), NEW m \in 1..Len(q), NEW k \in 0..(Len(q) - 1)
  PROVE  Skipping(q, m, k + 1) = IF k + 1 = m THEN Skipping(q, m, k)
                                 ELSE Append(Skipping(q, m, k), q[k + 1])
<1>1. Len(q) \in Nat
  BY LenProperties
<1>2. CASE k + 1 < m
  <2>1. 1 \in 1..Len(q) /\ k \in (1 - 1)..(Len(q) - 1)
    BY <1>1
  <2>2. SubSeq(q, 1, k + 1) = Append(SubSeq(q, 1, k), q[k + 1])
    BY <2>1, OneMore
  <2>3. k < m /\ k + 1 # m
    BY <1>1, <1>2
  <2> QED
    BY <1>2, <2>2, <2>3, Zenon DEF Skipping
<1>3. CASE k + 1 = m
  <2>1. k < m /\ ~(k + 1 < m) /\ m - 1 = k
    BY <1>1, <1>3
  <2>2. SubSeq(q, m + 1, k + 1) = <<>>
    BY <1>1, <1>3, SubSeqEmpty
  <2>3. SubSeq(q, 1, k) \in Seq(S)
    BY <1>1, PartsOf
  <2>4. SubSeq(q, 1, k) \o <<>> = SubSeq(q, 1, k)
    BY <2>3, ConcatEmptySeq
  <2> QED
    BY <1>3, <2>1, <2>2, <2>4, Zenon DEF Skipping
<1>4. CASE k + 1 > m
  <2> DEFINE front == SubSeq(q, 1, m - 1)
             back  == SubSeq(q, m + 1, k)
             x     == q[k + 1]
  <2>1. /\ ~(k < m) /\ ~(k + 1 < m) /\ k + 1 # m /\ k + 1 \in 1..Len(q)
        /\ m + 1 \in 1..Len(q) /\ k \in ((m + 1) - 1)..(Len(q) - 1)
    BY <1>1, <1>4
  <2>2. SubSeq(q, m + 1, k + 1) = Append(back, x)
    BY <2>1, OneMore
  <2>3. front \in Seq(S) /\ back \in Seq(S) /\ x \in S
    BY <1>1, <2>1, PartsOf, ElementOfSeq
  <2> HIDE DEF front, back, x
  <2>4. front \o Append(back, x) = Append(front \o back, x)
    <3> DEFINE one == <<x>>
    <3>1. one \in Seq(S)
      BY <2>3
    <3>2. Append(back, x) = back \o one
      BY <2>3, AppendIsConcat, Zenon DEF one
    <3>3. front \o back \in Seq(S) /\ back \o one \in Seq(S)
      BY <2>3, <3>1, ConcatProperties
    <3>4. Append(front \o back, x) = (front \o back) \o one
      BY <2>3, <3>3, AppendIsConcat, Zenon DEF one
    <3> HIDE DEF one
    <3>5. (front \o back) \o one = front \o (back \o one)
      BY <2>3, <3>1, <3>3
    <3> QED
      BY <3>2, <3>4, <3>5, Zenon
  <2>5. Skipping(q, m, k) = front \o back
    BY <2>1, Zenon DEF Skipping, front, back
  <2>6. Skipping(q, m, k + 1) = front \o Append(back, x)
    BY <2>1, <2>2, Zenon DEF Skipping, front
  <2> QED
    BY <2>1, <2>4, <2>5, <2>6, Zenon DEF x
<1> QED
  BY <1>1, <1>2, <1>3, <1>4

LEMMA SkippingEnds ==
  ASSUME NEW S, NEW q \in Seq(S), NEW m \in 1..Len(q)
  PROVE  /\ Skipping(q, m, 0) = <<>>
         /\ Skipping(q, m, Len(q)) = RemoveAt(q, m)
<1>1. Len(q) \in Nat /\ 0 < m /\ ~(Len(q) < m)
  BY LenProperties
<1>2. SubSeq(q, 1, 0) = <<>>
  BY AllLeft
<1> QED
  BY <1>1, <1>2, Zenon DEF Skipping, RemoveAt

-----------------------------------------------------------------------------
(* A queue of all the frames.                                              *)

LEMMA QueueLength ==
  ASSUME NEW q, Queue(q)
  PROVE  /\ q \in Seq(Frame) /\ Len(q) = PCnt - 1 /\ PCnt - 1 >= 1
         /\ \A k \in 1..Len(q) : q[k] \in Frame
         /\ \A p \in Frame : \E k \in 1..Len(q) : q[k] = p
         /\ \A j, k \in 1..Len(q) : q[j] = q[k] => j = k
<1>1. q \in Seq(Frame) /\ Len(q) \in Nat /\ DOMAIN q = 1..Len(q)
  BY LenProperties DEF Queue
<1>2. \A k \in 1..Len(q) : q[k] \in Frame
  BY <1>1, ElementOfSeq
<1>3. \A p \in Frame : \E k \in 1..Len(q) : q[k] = p
  BY <1>1, Zenon DEF Queue, Range
<1>4. \A j, k \in 1..Len(q) : q[j] = q[k] => j = k
  BY <1>1, Zenon DEF Queue, IsInjective
<1>5. PCnt \in Nat /\ PCnt - 1 >= 1 /\ Frame = 1..(PCnt - 1)
  BY PCntAssumption DEF Frame, Ppage, pinned
<1>6. Len(q) = PCnt - 1
  <2>1. ExistsBijection(1..Len(q), Frame)
    <3>1. q \in [1..Len(q) -> Frame]
      BY <1>1, <1>2
    <3>2. q \in Bijection(1..Len(q), Frame)
      BY <3>1, <1>1, <1>3, <1>4 DEF Bijection, Injection, Surjection, IsInjective
    <3> QED
      BY <3>2, Zenon DEF ExistsBijection
  <2>2. IsFiniteSet(1..Len(q)) /\ Cardinality(1..Len(q)) = Len(q)
    BY <1>1, FS_Interval
  <2>3. Cardinality(1..(PCnt - 1)) = PCnt - 1
    BY <1>5, FS_Interval
  <2>4. Cardinality(1..Len(q)) = Cardinality(Frame)
    BY <2>1, <2>2, FS_Bijection
  <2> QED
    BY <1>5, <2>2, <2>3, <2>4
<1> QED
  BY <1>1, <1>2, <1>3, <1>4, <1>5, <1>6

LEMMA PlaceFound ==
  ASSUME NEW q, Queue(q), NEW p \in Frame
  PROVE  PlaceOf(q, p) \in 1..Len(q) /\ q[PlaceOf(q, p)] = p
<1>1. \E k \in 1..Len(q) : q[k] = p
  BY QueueLength
<1> QED
  BY <1>1, Zenon DEF PlaceOf

-----------------------------------------------------------------------------
(* Each step keeps the invariant.                                          *)

LEMMA SameOperators ==
  /\ \A q, k : Before!MoveToTail(q, k) = MoveToTail(q, k)
  /\ \A q, k : Before!Rotate(q, k) = Rotate(q, k)
  /\ \A T : Before!Min(T) = Min(T)
  /\ Before!Frame = Frame
BY DEF Before!MoveToTail, MoveToTail, Before!RemoveAt, RemoveAt, Before!Rotate, Rotate,
       Before!Min, Min, Before!Frame, Frame, Before!Ppage, Ppage, Before!pinned, pinned

LEMMA BitsMarked ==
  ASSUME NEW ps \in [Frame -> Ppb], NEW p \in Frame, NEW b \in BOOLEAN
  PROVE  /\ [ps EXCEPT ![p].ref = b] \in [Frame -> Ppb]
         /\ [ps EXCEPT ![p].dirty = b] \in [Frame -> Ppb]
         /\ [ps EXCEPT ![p].ref = b][p] = [ref |-> b, dirty |-> ps[p].dirty]
         /\ [ps EXCEPT ![p].dirty = b][p] = [ref |-> ps[p].ref, dirty |-> b]
         /\ \A o \in Frame \ {p} : [ps EXCEPT ![p].ref = b][o] = ps[o]
                                   /\ [ps EXCEPT ![p].dirty = b][o] = ps[o]
BY DEF Ppb

LEMMA StartHolds == ASSUME Init PROVE LoopInv
<1>1. PCnt \in Nat /\ PCnt - 1 >= 1 /\ Frame = 1..(PCnt - 1)
  BY PCntAssumption DEF Frame, Ppage, pinned
<1> DEFINE q == [k \in 1..(PCnt - 1) |-> k]
<1>2. q \in Seq(Frame) /\ IsInjective(q) /\ Range(q) = Frame
  <2>1. q \in Seq(Frame)
    BY <1>1
  <2>2. IsInjective(q)
    BY <1>1 DEF IsInjective
  <2>3. Range(q) = Frame
    BY <1>1 DEF Range
  <2> QED
    BY <2>1, <2>2, <2>3
<1>3. clock_q = q /\ free_ppage = q /\ readable = {} /\ pc = "idle" /\ i = 0
  BY DEF Init
<1> HIDE DEF q
<1>4. psuff \in [Frame -> Ppb]
  BY DEF Init, Ppb
<1>5. TypeOK
  BY <1>1, <1>2, <1>3, <1>4 DEF TypeOK, States
<1>6. Queue(clock_q)
  BY <1>2, <1>3 DEF Queue
<1> QED
  BY <1>3, <1>5, <1>6 DEF LoopInv, LoopsAgree

LEMMA BetweenCalls ==
  ASSUME LoopInv,
         \/ \E p \in Frame, w \in BOOLEAN : Access(p, w)
         \/ \E p \in Frame : Free(p) \/ Ghost(p)
  PROVE  LoopInv'
<1>1. TypeOK /\ Queue(clock_q)
  BY DEF LoopInv, Access, Free, Ghost
<1>2. pc' = "idle" /\ clock_q' = clock_q /\ i' = i
  BY DEF Access, Free, Ghost
<1>3. free_ppage' \in Seq(Frame) /\ psuff' \in [Frame -> Ppb] /\ readable' \subseteq Frame
  <2>1. CASE \E p \in Frame, w \in BOOLEAN : Access(p, w)
    <3> PICK p \in Frame, w \in BOOLEAN : Access(p, w)
      BY <2>1
    <3>1. psuff[p] \in Ppb
      BY <1>1 DEF TypeOK
    <3>2. [ref |-> TRUE, dirty |-> psuff[p].dirty \/ w] \in Ppb
      BY <3>1 DEF Ppb
    <3> QED
      BY <1>1, <3>2 DEF TypeOK, Access
  <2>2. CASE \E p \in Frame : Free(p)
    <3> PICK p \in Frame : Free(p)
      BY <2>2
    <3>1. [ref |-> FALSE, dirty |-> FALSE] \in Ppb
      BY DEF Ppb
    <3> QED
      BY <1>1, <3>1, AppendProperties DEF TypeOK, Free
  <2>3. CASE \E p \in Frame : Ghost(p)
    BY <1>1, <2>3 DEF TypeOK, Ghost
  <2> QED
    BY <2>1, <2>2, <2>3
<1>4. TypeOK'
  BY <1>1, <1>2, <1>3 DEF TypeOK, States
<1>5. Queue(clock_q)'
  BY <1>1, <1>2 DEF Queue
<1> QED
  BY <1>2, <1>4, <1>5 DEF LoopInv, LoopsAgree

LEMMA CallStep ==
  ASSUME LoopInv, TakeFree \/ RunClock
  PROVE  LoopInv'
<1>1. TypeOK /\ Queue(clock_q) /\ pc = "idle"
  BY DEF LoopInv, TakeFree, RunClock
<1>2. /\ start'.queue = clock_q /\ start'.free = free_ppage /\ start'.bits = psuff
      /\ clock_q' = clock_q /\ psuff' = psuff /\ readable' = readable
  BY DEF TakeFree, RunClock, Now
<1>3. Started'
  BY <1>1, <1>2 DEF Started, TypeOK, Queue
<1>4. clock_q \in Seq(Frame) /\ Len(clock_q) \in Nat /\ Len(clock_q) = PCnt - 1
      /\ PCnt - 1 >= 1
  BY <1>1, QueueLength, LenProperties
<1>5. SubSeq(clock_q, 1, 0) = <<>> /\ Ring(clock_q, 0, <<>>) = clock_q
  BY <1>4, AllLeft
<1>6. CASE TakeFree
  <2>1. /\ free_ppage # <<>> /\ ppage' = Head(free_ppage)
        /\ free_ppage' = Tail(free_ppage) /\ i' = 0 /\ pc' = "rotate"
    BY <1>6 DEF TakeFree
  <2>2. Head(free_ppage) \in Frame /\ Tail(free_ppage) \in Seq(Frame)
    BY <1>1, <2>1, HeadTailProperties DEF TypeOK
  <2>3. TypeOK'
    BY <1>1, <1>2, <1>4, <2>1, <2>2 DEF TypeOK, States
  <2>4. Skipping(clock_q, PlaceOf(clock_q, Head(free_ppage)), 0) = <<>>
    BY <1>1, <1>4, <2>2, PlaceFound, SkippingEnds
  <2>5. Rotating'
    <3> DEFINE m == PlaceOf(clock_q, Head(free_ppage))
    <3>1. clock_q = Ring(clock_q, 0, Skipping(clock_q, m, 0))
      BY <1>5, <2>4, Zenon
    <3> HIDE DEF m
    <3>2. (PlaceOf(start.queue, ppage))' = m
      BY <1>2, <2>1 DEF m
    <3> QED
      BY <1>2, <2>1, <3>1, <3>2 DEF Rotating
  <2> QED
    BY <1>3, <2>1, <2>3, <2>5 DEF LoopInv, LoopsAgree
<1>7. CASE RunClock
  <2>1. free_ppage = <<>> /\ free_ppage' = free_ppage /\ i' = i /\ pc' = "hand"
    BY <1>7 DEF RunClock
  <2>2. TypeOK'
    BY <1>1, <1>2, <2>1 DEF TypeOK, States
  <2>3. PassedBy(0)'
    <3>1. FirstOf(clock_q, 0) = {}
      BY FirstOfMore
    <3>2. clock_q = Ring(clock_q, 0, SubSeq(clock_q, 1, 0))
      BY <1>5
    <3>3. \A p \in Frame : psuff[p] = [ref |-> psuff[p].ref /\ p \notin {},
                                       dirty |-> psuff[p].dirty]
      BY <1>1 DEF TypeOK, Ppb
    <3> QED
      BY <1>2, <3>1, <3>2, <3>3 DEF PassedBy
  <2>4. Turning'
    <3>1. 0 \in 0..Len(start'.queue)
      BY <1>2, <1>4
    <3> QED
      BY <1>2, <2>1, <2>3, <3>1 DEF Turning
  <2> QED
    BY <1>3, <2>1, <2>2, <2>4 DEF LoopInv, LoopsAgree
<1> QED
  BY <1>6, <1>7

LEMMA RotateStepKeeps ==
  ASSUME LoopInv, RotateStep
  PROVE  LoopInv'
<1> DEFINE q == start.queue
           m == PlaceOf(q, ppage)
           r == Skipping(q, m, i)
<1>1. TypeOK /\ Started /\ Rotating
  BY DEF LoopInv, RotateStep
<1>2. /\ pc' = "rotate" /\ clock_q' = Skimmed /\ i' = i + 1
      /\ free_ppage' = free_ppage /\ psuff' = psuff /\ readable' = readable
      /\ ppage' = ppage /\ start' = start
  BY DEF RotateStep
<1>3. /\ q \in Seq(Frame) /\ Len(q) = PCnt - 1 /\ Queue(q)
      /\ \A j, k \in 1..Len(q) : q[j] = q[k] => j = k
  BY <1>1, QueueLength DEF Started
<1>4. PCnt \in Nat /\ i \in 0..(Len(q) - 1) /\ i + 1 \in 1..Len(q) /\ i \in 0..Len(q)
      /\ i + 1 \in 0..Len(q) /\ (i + 1) + 1 = i + 2
  BY <1>1, <1>3, PCntAssumption DEF RotateStep, TypeOK
<1>5. m \in 1..Len(q) /\ q[m] = ppage
  <2>1. ppage \in Frame
    BY <1>1, HeadTailProperties DEF Rotating, Started
  <2> QED
    BY <1>3, <2>1, PlaceFound
<1>6. clock_q = Ring(q, i, r)
  BY <1>1, Zenon DEF Rotating
<1>7. r \in Seq(Frame) /\ Skipping(q, m, i + 1) \in Seq(Frame)
  BY <1>3, <1>4, <1>5, SkippingParts
<1>8. Skipping(q, m, i + 1) = IF i + 1 = m THEN r ELSE Append(r, q[i + 1])
  BY <1>3, <1>4, <1>5, SkippingOn
<1> DEFINE next == Skipping(q, m, i + 1)
<1>9. /\ Head(clock_q) = q[i + 1]
      /\ Tail(clock_q) = Ring(q, i + 1, r)
      /\ Append(Tail(clock_q), q[i + 1]) = Ring(q, i + 1, Append(r, q[i + 1]))
  <2>1. q \in Seq(Frame) /\ r \in Seq(Frame) /\ i \in 0..(Len(q) - 1)
    BY <1>3, <1>4, <1>7
  <2> HIDE DEF q, r
  <2>2. /\ Head(Ring(q, i, r)) = q[i + 1]
        /\ Tail(Ring(q, i, r)) = Ring(q, i + 1, r)
        /\ Append(Tail(Ring(q, i, r)), q[i + 1]) = Ring(q, i + 1, Append(r, q[i + 1]))
    BY <2>1, RestUnrolls
  <2> QED
    BY <1>6, <2>2, Zenon
<1>10. Ring(q, i + 1, next) \in Seq(Frame)
  BY <1>3, <1>4, <1>7, RingParts
<1>11. q[i + 1] = ppage <=> i + 1 = m
  BY <1>3, <1>4, <1>5
<1> HIDE DEF q, m, r, next
<1>12. clock_q' = Ring(q, i + 1, next)
  <2>1. CASE i + 1 = m
    BY <1>2, <1>8, <1>9, <1>11, <2>1, Zenon DEF Skimmed, next
  <2>2. CASE i + 1 # m
    BY <1>2, <1>8, <1>9, <1>11, <2>2, Zenon DEF Skimmed, Turned, next
  <2> QED
    BY <2>1, <2>2
<1>13. clock_q' \in Seq(Frame)
  BY <1>10, <1>12, Zenon
<1>14. TypeOK'
  BY <1>1, <1>2, <1>3, <1>4, <1>13 DEF TypeOK, States
<1>15. Started'
  BY <1>1, <1>2, Zenon DEF Started
<1>16. Rotating'
  <2>1. clock_q' = Ring(q, i', Skipping(q, m, i'))
    BY <1>2, <1>12, Zenon DEF next
  <2>2. m = PlaceOf(start'.queue, ppage') /\ q = start'.queue
    BY <1>2, Zenon DEF m, q
  <2> QED
    BY <1>1, <1>2, <2>1, <2>2, Zenon DEF Rotating
<1> QED
  BY <1>2, <1>14, <1>15, <1>16 DEF LoopInv, LoopsAgree

LEMMA RotateEndKeeps ==
  ASSUME LoopInv, RotateEnd
  PROVE  LoopInv'
<1> DEFINE q == start.queue
           m == PlaceOf(q, ppage)
<1>1. TypeOK /\ Started /\ Rotating
  BY DEF LoopInv, RotateEnd
<1>2. /\ pc' = "done" /\ clock_q' = Append(clock_q, ppage) /\ i' = i
      /\ free_ppage' = free_ppage /\ psuff' = [psuff EXCEPT ![ppage].ref = TRUE]
      /\ readable' = readable /\ ppage' = ppage /\ start' = start
  BY DEF RotateEnd
<1>3. q \in Seq(Frame) /\ Len(q) = PCnt - 1 /\ Queue(q) /\ i = Len(q)
  BY <1>1, QueueLength DEF Started, RotateEnd
<1>4. ppage \in Frame
  BY <1>1, HeadTailProperties DEF Rotating, Started
<1>5. m \in 1..Len(q) /\ q[m] = ppage
  BY <1>3, <1>4, PlaceFound
<1>6. clock_q = RemoveAt(q, m)
  <2>1. clock_q = Ring(q, Len(q), Skipping(q, m, Len(q)))
    BY <1>1, <1>3, Zenon DEF Rotating
  <2>3. Skipping(q, m, Len(q)) = RemoveAt(q, m)
    BY <1>3, <1>5, SkippingEnds
  <2>4. RemoveAt(q, m) \in Seq(Frame)
    <3>1. Len(q) \in Nat /\ Len(q) \in 0..Len(q)
      BY <1>3, LenProperties
    <3> QED
      BY <1>3, <1>5, <2>3, <3>1, SkippingParts
  <2>5. Ring(q, Len(q), RemoveAt(q, m)) = RemoveAt(q, m)
    BY <1>3, <2>4, AllLeft, Zenon
  <2> QED
    BY <2>1, <2>3, <2>5, Zenon
<1>7. clock_q' = MoveToTail(q, m)
  BY <1>2, <1>5, <1>6, Zenon DEF MoveToTail
<1>8. clock_q' \in Seq(Frame)
  BY <1>1, <1>2, <1>4, AppendProperties DEF TypeOK
<1>9. psuff' \in [Frame -> Ppb]
  BY <1>1, <1>2, <1>4, BitsMarked DEF TypeOK
<1>10. TypeOK' /\ Started'
  BY <1>1, <1>2, <1>8, <1>9 DEF TypeOK, States, Started
<1>11. LoopsAgree'
  <2>1. ~Before!Evicts /\ Before!Alloc(start.bits) = ppage
    BY <1>1, Zenon DEF Rotating, Before!Evicts, Before!Alloc
  <2>2. clock_q' = Before!AllocClock(start.bits)
    <3>1. Before!AllocClock(start.bits) = Before!MoveToTail(q, m)
      BY <2>1, Zenon DEF Before!AllocClock, PlaceOf
    <3> QED
      BY <1>7, <3>1, SameOperators, Zenon
  <2>3. free_ppage' = Before!AllocFree(start.bits)
    BY <1>1, <1>2, <2>1, Zenon DEF Rotating, Before!AllocFree
  <2>4. psuff' = Before!AllocPsuff(start.bits)
    BY <1>1, <1>2, <2>1, Zenon DEF Rotating, Before!AllocPsuff
  <2> QED
    BY <1>2, <2>1, <2>2, <2>3, <2>4
    DEF LoopsAgree, Before!Evicts, Before!Alloc, Before!AllocClock, Before!AllocFree,
        Before!AllocPsuff
<1> QED
  BY <1>2, <1>10, <1>11 DEF LoopInv

-----------------------------------------------------------------------------
(* The hand of runclock.                                                   *)

LEMMA HandFinds ==
  ASSUME Started, NEW k \in 0..Len(start.queue),
         \A j \in 1..k : start.bits[start.queue[j]].ref,
         k = Len(start.queue) \/ ~start.bits[start.queue[k + 1]].ref
  PROVE  /\ Before!Hand(start.bits) = IF k = Len(start.queue) THEN 1 ELSE k + 1
         /\ Before!Passed(start.bits) = FirstOf(start.queue, k)
<1> DEFINE q == start.queue
           U == {j \in 1..Len(q) : ~start.bits[q[j]].ref}
<1>1. Len(q) \in Nat
  BY QueueLength, LenProperties DEF Started
<1>2. Before!Unreferenced(start.bits) = U
  BY Zenon DEF Before!Unreferenced
<1>3. CASE k = Len(q)
  <2>1. U = {}
    BY <1>3
  <2>2. Before!Hand(start.bits) = 1
    BY <1>2, <2>1, Zenon DEF Before!Hand
  <2>3. Before!Passed(start.bits) = {q[j] : j \in 1..Len(q)}
    BY <1>2, <2>1, Zenon DEF Before!Passed
  <2> QED
    BY <1>3, <2>2, <2>3, Zenon DEF FirstOf
<1>4. CASE k # Len(q)
  <2>1. k \in Nat /\ k + 1 \in U /\ U \in SUBSET Nat /\ \A x \in U : k + 1 <= x
    BY <1>1, <1>4
  <2>2. U # {}
    BY <2>1
  <2> HIDE DEF U
  <2>3. Min(U) = k + 1
    BY <2>1, MinIs
  <2>4. Before!Hand(start.bits) = k + 1
    BY <1>2, <2>2, <2>3, SameOperators, Zenon DEF Before!Hand
  <2>5. (k + 1) - 1 = k
    BY <2>1
  <2>6. Before!Passed(start.bits) = {q[j] : j \in 1..((k + 1) - 1)}
    BY <1>2, <2>2, <2>4, Zenon DEF Before!Passed
  <2> QED
    BY <1>4, <2>4, <2>5, <2>6, Zenon DEF FirstOf
<1> QED
  BY <1>3, <1>4

\* What the hand looks at, and what its turn leaves.
LEMMA HandTurns ==
  ASSUME TypeOK, Started, NEW k \in 0..Len(start.queue), PassedBy(k)
  PROVE  LET q == start.queue
             p == Head(clock_q) IN
         /\ p \in Frame
         /\ k = Len(q) => p = q[1] /\ ~psuff[p].ref /\ Turned = Rotate(q, 1)
         /\ k # Len(q) => /\ p = q[k + 1] /\ psuff[p] = start.bits[p]
                          /\ Turned = Ring(q, k + 1, SubSeq(q, 1, k + 1))
                          /\ Turned = Rotate(q, k + 1)
         /\ Turned \in Seq(Frame)
<1> DEFINE q == start.queue
           p == Head(clock_q)
           r == SubSeq(q, 1, k)
<1>1. /\ Queue(q) /\ q \in Seq(Frame) /\ Len(q) \in Nat /\ Len(q) >= 1
      /\ \A j \in 1..Len(q) : q[j] \in Frame
      /\ \A i1, j \in 1..Len(q) : q[i1] = q[j] => i1 = j
  BY QueueLength, LenProperties DEF Started
<1>2. clock_q = Ring(q, k, r)
  BY Zenon DEF PassedBy
<1>3. \A j \in 0..Len(q) : SubSeq(q, 1, j) \in Seq(Frame)
  BY <1>1, PartsOf
<1>4. \A j \in 0..Len(q) : Ring(q, j, SubSeq(q, 1, j)) = Rotate(q, j)
  BY Zenon DEF Ring, Rotate
<1>5. \A j \in 0..(Len(q) - 1) :
        /\ Head(Ring(q, j, SubSeq(q, 1, j))) = q[j + 1]
        /\ Append(Tail(Ring(q, j, SubSeq(q, 1, j))), q[j + 1])
             = Ring(q, j + 1, SubSeq(q, 1, j + 1))
  <2> TAKE j \in 0..(Len(q) - 1)
  <2> DEFINE s == SubSeq(q, 1, j)
  <2>1. 1 \in 1..Len(q) /\ j \in (1 - 1)..(Len(q) - 1) /\ j \in 0..Len(q)
    BY <1>1
  <2>2. SubSeq(q, 1, j + 1) = Append(s, q[j + 1])
    BY <1>1, <2>1, OneMore
  <2>3. s \in Seq(Frame)
    BY <1>3, <2>1
  <2> HIDE DEF s, q
  <2>4. /\ Head(Ring(q, j, s)) = q[j + 1]
        /\ Append(Tail(Ring(q, j, s)), q[j + 1]) = Ring(q, j + 1, Append(s, q[j + 1]))
    BY <1>1, <2>3, RestUnrolls
  <2> QED
    BY <2>2, <2>4, Zenon DEF s
<1>6. CASE k = Len(q)
  <2>1. r = q /\ Ring(q, Len(q), q) = q /\ Ring(q, 0, SubSeq(q, 1, 0)) = q
    BY <1>1, <1>6, AllLeft, Zenon
  <2>2. clock_q = Ring(q, 0, SubSeq(q, 1, 0))
    BY <1>2, <1>6, <2>1, Zenon
  <2>3. 0 \in 0..(Len(q) - 1) /\ 0 + 1 = 1 /\ 1 \in 0..Len(q) /\ 1 \in 1..k
    BY <1>1, <1>6
  <2>4. p = q[1] /\ Turned = Rotate(q, 1)
    BY <1>4, <1>5, <2>2, <2>3, Zenon DEF Turned
  <2>5. p \in FirstOf(q, k) /\ p \in Frame
    BY <1>1, <2>3, <2>4 DEF FirstOf
  <2>6. ~psuff[p].ref
    <3>1. psuff[p] = [ref |-> start.bits[p].ref /\ p \notin FirstOf(q, k),
                      dirty |-> start.bits[p].dirty]
      BY <2>5, Zenon DEF PassedBy
    <3>2. (start.bits[p].ref /\ p \notin FirstOf(q, k)) = FALSE
      BY <2>5
    <3>3. psuff[p] = [ref |-> FALSE, dirty |-> start.bits[p].dirty]
      BY <3>1, <3>2, Zenon
    <3> HIDE DEF p, q
    <3> QED
      BY <3>3
  <2>7. Turned \in Seq(Frame)
    BY <1>1, <2>3, <2>4, RotatePermutes DEF Queue
  <2> QED
    BY <1>6, <2>4, <2>5, <2>6, <2>7, Zenon
<1>7. CASE k # Len(q)
  <2>1. k \in 0..(Len(q) - 1) /\ k + 1 \in 0..Len(q) /\ k + 1 \in 1..Len(q)
    BY <1>1, <1>7
  <2>2. p = q[k + 1] /\ Turned = Ring(q, k + 1, SubSeq(q, 1, k + 1))
    BY <1>2, <1>5, <2>1, Zenon DEF Turned
  <2>3. Turned = Rotate(q, k + 1)
    BY <1>4, <2>1, <2>2, Zenon
  <2>4. p \in Frame
    BY <1>1, <2>1, <2>2
  <2>5. p \notin FirstOf(q, k)
    <3>1. \A j \in 1..k : j \in 1..Len(q) /\ j # k + 1
      BY <1>1
    <3>2. \A j \in 1..k : q[j] # q[k + 1]
      BY <1>1, <2>1, <3>1
    <3> QED
      BY <2>2, <3>2 DEF FirstOf
  <2>6. psuff[p] = start.bits[p]
    <3>1. psuff[p] = [ref |-> start.bits[p].ref /\ p \notin FirstOf(q, k),
                      dirty |-> start.bits[p].dirty]
      BY <2>4, Zenon DEF PassedBy
    <3>2. start.bits[p] \in Ppb
      BY <2>4 DEF Started
    <3> QED
      BY <2>5, <3>1, <3>2 DEF Ppb
  <2>7. Turned \in Seq(Frame)
    BY <1>1, <2>1, <2>3, RotatePermutes DEF Queue
  <2> QED
    BY <1>7, <2>2, <2>3, <2>4, <2>6, <2>7, Zenon
<1> QED
  BY <1>6, <1>7, Zenon

LEMMA SameBefore ==
  ASSUME start' = start
  PROVE  /\ (Before!Evicts)' = Before!Evicts
         /\ (Before!Victim(start.bits))' = Before!Victim(start.bits)
         /\ (Before!Passed(start.bits))' = Before!Passed(start.bits)
         /\ (Before!Alloc(start.bits))' = Before!Alloc(start.bits)
         /\ (Before!AllocClock(start.bits))' = Before!AllocClock(start.bits)
         /\ (Before!AllocFree(start.bits))' = Before!AllocFree(start.bits)
         /\ (Before!AllocPsuff(start.bits))' = Before!AllocPsuff(start.bits)
         /\ Started' = Started
BY SMT DEF Before!Evicts, Before!Victim, Before!Passed, Before!Alloc, Before!AllocClock,
       Before!AllocFree, Before!AllocPsuff, Before!Hand, Before!Unreferenced, Started

LEMMA HandPassKeeps ==
  ASSUME LoopInv, HandPass
  PROVE  LoopInv'
<1> DEFINE q    == start.queue
           p    == Head(clock_q)
           bits == start.bits
<1>1. TypeOK /\ Started /\ Turning
  BY DEF LoopInv, HandPass
<1>2. PICK k \in 0..Len(q) : PassedBy(k)
  BY <1>1 DEF Turning
<1>3. /\ pc' = "hand" /\ psuff[p].ref /\ clock_q' = Turned
      /\ psuff' = [psuff EXCEPT ![p].ref = FALSE]
      /\ readable' = readable \ {p} /\ free_ppage' = free_ppage
      /\ i' = i /\ ppage' = ppage /\ start' = start
  BY DEF HandPass, BitCleared
<1>4. /\ p \in Frame /\ k # Len(q) /\ p = q[k + 1] /\ psuff[p] = bits[p]
      /\ Turned = Ring(q, k + 1, SubSeq(q, 1, k + 1)) /\ Turned \in Seq(Frame)
  BY <1>1, <1>2, <1>3, HandTurns, Zenon
<1>5. Len(q) \in Nat /\ k + 1 \in 0..Len(q) /\ k \in Nat
  BY <1>1, <1>4, QueueLength, LenProperties DEF Started
<1>6. FirstOf(q, k + 1) = FirstOf(q, k) \cup {p}
  BY <1>4, <1>5, FirstOfMore
<1>7. /\ psuff' \in [Frame -> Ppb]
      /\ psuff'[p] = [ref |-> FALSE, dirty |-> psuff[p].dirty]
      /\ \A o \in Frame \ {p} : psuff'[o] = psuff[o]
  BY <1>1, <1>3, <1>4, BitsMarked DEF TypeOK
<1> HIDE DEF q, p, bits
<1>8. \A o \in Frame :
        psuff'[o] = [ref   |-> bits[o].ref /\ o \notin FirstOf(q, k + 1),
                     dirty |-> bits[o].dirty]
  <2> TAKE o \in Frame
  <2>1. psuff[o] = [ref   |-> bits[o].ref /\ o \notin FirstOf(q, k),
                    dirty |-> bits[o].dirty]
    BY <1>2, Zenon DEF PassedBy, q, bits
  <2>2. CASE o = p
    <3>1. (bits[o].ref /\ o \notin FirstOf(q, k + 1)) = FALSE
      BY <1>6, <2>2
    <3>2. psuff'[o] = [ref |-> FALSE, dirty |-> bits[o].dirty]
      BY <1>4, <1>7, <2>2
    <3> QED
      BY <3>1, <3>2, Zenon
  <2>3. CASE o # p
    <3>1. o \in FirstOf(q, k + 1) <=> o \in FirstOf(q, k)
      BY <1>6, <2>3
    <3> QED
      BY <1>7, <2>1, <2>3, <3>1
  <2> QED
    BY <2>2, <2>3
<1>9. \A j \in 1..(k + 1) : bits[q[j]].ref
  <2>1. \A j \in 1..k : bits[q[j]].ref
    BY <1>2, Zenon DEF PassedBy, q, bits
  <2>2. bits[q[k + 1]].ref
    BY <1>3, <1>4
  <2> QED
    BY <1>5, <2>1, <2>2
<1>10. readable' \cap FirstOf(q, k + 1) = {}
  <2>1. readable \cap FirstOf(q, k) = {}
    BY <1>2, Zenon DEF PassedBy, q
  <2> QED
    BY <1>3, <1>6, <2>1
<1>11. PassedBy(k + 1)'
  BY <1>3, <1>4, <1>8, <1>9, <1>10, Zenon DEF PassedBy, q, bits
<1>12. Turning'
  BY <1>1, <1>3, <1>5, <1>11, Zenon DEF Turning, q
<1>13. TypeOK'
  BY <1>1, <1>3, <1>4, <1>7 DEF TypeOK, States
<1>14. Started'
  BY <1>1, <1>3, SameBefore
<1> QED
  BY <1>3, <1>12, <1>13, <1>14 DEF LoopInv, LoopsAgree

LEMMA HandStopKeeps ==
  ASSUME LoopInv, HandStop
  PROVE  LoopInv'
<1> DEFINE q    == start.queue
           p    == Head(clock_q)
           bits == start.bits
<1>1. TypeOK /\ Started /\ Turning
  BY DEF LoopInv, HandStop
<1>2. PICK k \in 0..Len(q) : PassedBy(k)
  BY <1>1 DEF Turning
<1>3. /\ pc' = "evict" /\ ~psuff[p].ref /\ clock_q' = Turned
      /\ psuff' = [psuff EXCEPT ![p].ref = TRUE]
      /\ readable' = readable /\ free_ppage' = free_ppage
      /\ i' = i /\ ppage' = p /\ start' = start
  BY DEF HandStop, StopsAt
<1> DEFINE hand == IF k = Len(q) THEN 1 ELSE k + 1
<1>4. /\ p \in Frame /\ p = q[hand] /\ Turned = Rotate(q, hand) /\ Turned \in Seq(Frame)
      /\ k # Len(q) => ~bits[q[k + 1]].ref
  <2>1. /\ p \in Frame /\ Turned \in Seq(Frame)
        /\ k = Len(q) => p = q[1] /\ Turned = Rotate(q, 1)
        /\ k # Len(q) => /\ p = q[k + 1] /\ psuff[p] = bits[p]
                         /\ Turned = Rotate(q, k + 1)
    BY <1>1, <1>2, HandTurns, Zenon
  <2> QED
    BY <1>3, <2>1, Zenon
<1>5. \A j \in 1..k : bits[q[j]].ref
  BY <1>2, Zenon DEF PassedBy
<1>6. Before!Hand(bits) = hand /\ Before!Passed(bits) = FirstOf(q, k)
  BY <1>1, <1>4, <1>5, HandFinds, Zenon
<1> HIDE DEF hand
<1>7. Before!Victim(bits) = p
  BY <1>4, <1>6, Zenon DEF Before!Victim
<1>8. Before!AllocClock(bits) = clock_q'
  <2>1. Before!Evicts
    BY <1>1, Zenon DEF Turning, Before!Evicts
  <2> QED
    BY <1>3, <1>4, <1>6, <2>1, SameOperators, Zenon DEF Before!AllocClock
<1>9. /\ psuff' \in [Frame -> Ppb]
      /\ psuff'[p] = [ref |-> TRUE, dirty |-> psuff[p].dirty]
      /\ \A o \in Frame \ {p} : psuff'[o] = psuff[o]
  BY <1>1, <1>3, <1>4, BitsMarked DEF TypeOK
<1>10. readable' \cap FirstOf(q, k) = {}
  BY <1>2, <1>3, Zenon DEF PassedBy
<1> HIDE DEF q, p, bits
<1>11. \A o \in Frame :
         psuff'[o] = [ref   |-> o = p \/ (bits[o].ref /\ o \notin FirstOf(q, k)),
                      dirty |-> bits[o].dirty]
  <2> TAKE o \in Frame
  <2>1. psuff[o] = [ref   |-> bits[o].ref /\ o \notin FirstOf(q, k),
                    dirty |-> bits[o].dirty]
    BY <1>2, Zenon DEF PassedBy, q, bits
  <2>2. CASE o = p
    <3>1. (o = p \/ (bits[o].ref /\ o \notin FirstOf(q, k))) = TRUE
      BY <2>2
    <3>2. psuff'[o] = [ref |-> TRUE, dirty |-> bits[o].dirty]
      BY <1>9, <2>1, <2>2
    <3> QED
      BY <3>1, <3>2, Zenon
  <2>3. CASE o # p
    <3>1. (o = p \/ (bits[o].ref /\ o \notin FirstOf(q, k)))
            <=> (bits[o].ref /\ o \notin FirstOf(q, k))
      BY <2>3
    <3> QED
      BY <1>9, <2>1, <2>3, <3>1
  <2> QED
    BY <2>2, <2>3
<1>12. Stopped'
  <2>1. /\ (Before!Victim(bits))' = p
        /\ (Before!Passed(bits))' = FirstOf(q, k)
        /\ (Before!AllocClock(bits))' = clock_q'
    BY <1>3, <1>6, <1>7, <1>8, SameBefore, Zenon DEF bits
  <2>2. start'.free = <<>> /\ free_ppage' = <<>>
    BY <1>1, <1>3, Zenon DEF Turning
  <2> QED
    BY <1>3, <1>10, <1>11, <2>1, <2>2, Zenon DEF Stopped, bits
<1>13. TypeOK'
  BY <1>1, <1>3, <1>4, <1>9 DEF TypeOK, States, p
<1>14. Started'
  BY <1>1, <1>3, SameBefore
<1> QED
  BY <1>3, <1>12, <1>13, <1>14 DEF LoopInv, LoopsAgree

\* Whatever the bits, alloc chooses a frame and keeps the queue whole.
LEMMA AllocInQueue ==
  ASSUME Started
  PROVE  /\ Before!Hand(start.bits) \in 1..Len(start.queue)
         /\ Before!Victim(start.bits) \in Frame
         /\ Before!Alloc(start.bits) \in Frame
         /\ Queue(Before!AllocClock(start.bits))
<1> DEFINE q    == start.queue
           bits == start.bits
<1>1. /\ Queue(q) /\ q \in Seq(Frame) /\ Len(q) \in Nat /\ Len(q) >= 1
      /\ \A j \in 1..Len(q) : q[j] \in Frame
  BY QueueLength, LenProperties DEF Started
<1>2. Before!Hand(bits) \in 1..Len(q)
  <2> DEFINE U == Before!Unreferenced(bits)
  <2>1. U \subseteq 1..Len(q) /\ U \in SUBSET Nat
    BY <1>1 DEF Before!Unreferenced
  <2> HIDE DEF U, q
  <2>2. CASE U = {}
    <3>1. Before!Hand(bits) = 1
      BY <2>2, Zenon DEF Before!Hand, U
    <3> QED
      BY <1>1, <3>1
  <2>3. CASE U # {}
    <3>1. Before!Hand(bits) = Min(U)
      BY <2>3, SameOperators, Zenon DEF Before!Hand, U
    <3>2. Min(U) \in U
      BY <2>1, <2>3, MinInSet
    <3> QED
      BY <2>1, <3>1, <3>2, Zenon
  <2> QED
    BY <2>2, <2>3
<1>3. Before!Victim(bits) \in Frame
  <2>1. Before!Victim(bits) = q[Before!Hand(bits)]
    BY Zenon DEF Before!Victim
  <2> HIDE DEF q, bits
  <2> QED
    BY <1>1, <1>2, <2>1, Zenon
<1>4. CASE Before!Evicts
  <2>1. Before!Alloc(bits) = Before!Victim(bits)
    BY <1>4, Zenon DEF Before!Alloc
  <2>2. Before!AllocClock(bits) = Rotate(q, Before!Hand(bits))
    BY <1>4, SameOperators, Zenon DEF Before!AllocClock
  <2> DEFINE h == Before!Hand(bits)
  <2>3. h \in 0..Len(q)
    BY <1>1, <1>2
  <2> HIDE DEF q, bits, h
  <2>4. Queue(Rotate(q, h))
    BY <1>1, <2>3, RotatePermutes DEF Queue
  <2> QED
    BY <1>2, <1>3, <2>1, <2>2, <2>4, Zenon DEF q, bits, h
<1>5. CASE ~Before!Evicts
  <2>1. start.free # <<>> /\ start.free \in Seq(Frame)
    BY <1>5, Zenon DEF Before!Evicts, Started
  <2>2. Before!Alloc(bits) = Head(start.free)
    BY <1>5, Zenon DEF Before!Alloc
  <2>3. Head(start.free) \in Frame
    BY <2>1, HeadTailProperties
  <2> DEFINE m == PlaceOf(q, Before!Alloc(bits))
  <2>4. m \in 1..Len(q)
    BY <1>1, <2>2, <2>3, PlaceFound, Zenon
  <2>5. Before!AllocClock(bits) = MoveToTail(q, m)
    BY <1>5, SameOperators, Zenon DEF Before!AllocClock, PlaceOf
  <2> HIDE DEF q, bits, m
  <2>6. Queue(MoveToTail(q, m))
    BY <1>1, <2>4, MoveToTailPermutes DEF Queue
  <2> QED
    BY <1>2, <1>3, <2>2, <2>3, <2>5, <2>6, Zenon DEF q, bits
<1> QED
  BY <1>4, <1>5

LEMMA EvictKeeps ==
  ASSUME LoopInv, Evict
  PROVE  LoopInv'
<1> DEFINE bits   == start.bits
           passed == Before!Passed(bits)
<1>1. TypeOK /\ Started /\ Stopped
  BY DEF LoopInv, Evict
<1>2. /\ pc' = "done" /\ psuff' = [psuff EXCEPT ![ppage].dirty = FALSE]
      /\ readable' = readable \ {ppage} /\ clock_q' = clock_q
      /\ free_ppage' = free_ppage /\ i' = i /\ ppage' = ppage /\ start' = start
  BY DEF Evict
<1>3. /\ ppage = Before!Victim(bits) /\ ppage \in Frame
      /\ clock_q = Before!AllocClock(bits)
      /\ start.free = <<>> /\ free_ppage = <<>>
      /\ readable \cap passed = {}
  BY <1>1, AllocInQueue, Zenon DEF Stopped
<1>4. Before!Evicts
  BY <1>3, Zenon DEF Before!Evicts
<1>5. /\ psuff' \in [Frame -> Ppb]
      /\ psuff'[ppage] = [ref |-> psuff[ppage].ref, dirty |-> FALSE]
      /\ \A o \in Frame \ {ppage} : psuff'[o] = psuff[o]
  <2>1. psuff \in [Frame -> Ppb] /\ FALSE \in BOOLEAN
    BY <1>1 DEF TypeOK
  <2>2. /\ [psuff EXCEPT ![ppage].dirty = FALSE] \in [Frame -> Ppb]
        /\ [psuff EXCEPT ![ppage].dirty = FALSE][ppage]
             = [ref |-> psuff[ppage].ref, dirty |-> FALSE]
        /\ \A o \in Frame \ {ppage} : [psuff EXCEPT ![ppage].dirty = FALSE][o] = psuff[o]
    BY <1>3, <2>1 DEF Ppb
  <2> QED
    BY <1>2, <2>2, Zenon
<1> HIDE DEF bits, passed
<1> DEFINE left(o) == [ref   |-> o = ppage \/ (bits[o].ref /\ o \notin passed),
                       dirty |-> bits[o].dirty /\ o # ppage]
<1>6. \A o \in Frame : psuff'[o] = left(o)
  <2> TAKE o \in Frame
  <2>1. psuff[o] = [ref   |-> o = ppage \/ (bits[o].ref /\ o \notin passed),
                    dirty |-> bits[o].dirty]
    BY <1>1, <1>3, Zenon DEF Stopped, bits, passed
  <2>2. bits[o] \in Ppb
    BY <1>1 DEF Started, bits
  <2>3. CASE o = ppage
    <3>1. (bits[o].dirty /\ o # ppage) = FALSE
      BY <2>3
    <3>2. psuff'[o] = [ref   |-> o = ppage \/ (bits[o].ref /\ o \notin passed),
                       dirty |-> FALSE]
      BY <1>5, <2>1, <2>3
    <3> QED
      BY <3>1, <3>2, Zenon
  <2>4. CASE o # ppage
    <3>1. (bits[o].dirty /\ o # ppage) = bits[o].dirty
      BY <2>2, <2>4 DEF Ppb
    <3>2. psuff'[o] = psuff[o]
      BY <1>5, <2>4
    <3> QED
      BY <2>1, <3>1, <3>2, Zenon
  <2> QED
    BY <2>3, <2>4
<1>7. Before!AllocPsuff(bits) = [o \in Frame |-> left(o)]
  BY <1>3, <1>4, SameOperators, Zenon DEF Before!AllocPsuff, passed
<1>8. psuff' = Before!AllocPsuff(bits)
  <2>1. psuff' = [o \in Frame |-> psuff'[o]]
    BY <1>5
  <2> HIDE DEF left
  <2> QED
    BY <1>6, <1>7, <2>1
<1>9. LoopsAgree'
  <2>1. Before!Alloc(bits) = ppage /\ Before!AllocFree(bits) = free_ppage
    BY <1>3, <1>4, Zenon DEF Before!Alloc, Before!AllocFree
  <2>2. readable' \cap passed = {}
    BY <1>2, <1>3
  <2> QED
    BY <1>2, <1>3, <1>8, <2>1, <2>2, SameBefore, Zenon DEF LoopsAgree, bits, passed
<1>10. TypeOK' /\ Started'
  BY <1>1, <1>2, <1>5, SameBefore DEF TypeOK, States
<1> QED
  BY <1>2, <1>9, <1>10 DEF LoopInv

LEMMA ReturnKeeps ==
  ASSUME LoopInv, NEW w \in BOOLEAN, Return(w)
  PROVE  LoopInv'
<1>1. TypeOK /\ Started /\ LoopsAgree /\ pc = "done"
  BY DEF LoopInv, Return
<1>2. /\ pc' = "idle" /\ i' = 0 /\ clock_q' = clock_q /\ free_ppage' = free_ppage
      /\ psuff' = [psuff EXCEPT ![ppage].dirty = @ \/ w]
      /\ readable' = readable \cup {ppage}
  BY DEF Return
<1>3. ppage \in Frame /\ Queue(clock_q)
  BY <1>1, AllocInQueue, Zenon DEF LoopsAgree
<1>4. psuff' \in [Frame -> Ppb]
  <2>1. psuff[ppage].dirty \/ w \in BOOLEAN
    OBVIOUS
  <2>2. psuff' = [psuff EXCEPT ![ppage].dirty = psuff[ppage].dirty \/ w]
    BY <1>2
  <2> QED
    BY <1>1, <1>3, <2>1, <2>2 DEF TypeOK, Ppb
<1>5. TypeOK'
  BY <1>1, <1>2, <1>3, <1>4, PCntAssumption DEF TypeOK, States
<1>6. Queue(clock_q)'
  BY <1>2, <1>3 DEF Queue
<1> QED
  BY <1>2, <1>5, <1>6 DEF LoopInv, LoopsAgree

LEMMA StutterKeeps ==
  ASSUME LoopInv, UNCHANGED vars
  PROVE  LoopInv'
<1>1. /\ clock_q' = clock_q /\ free_ppage' = free_ppage /\ psuff' = psuff
      /\ readable' = readable /\ pc' = pc /\ i' = i /\ ppage' = ppage /\ start' = start
  BY DEF vars
<1>2. TypeOK' /\ (pc = "idle" => Queue(clock_q)') /\ (pc # "idle" => Started')
  BY <1>1, SameBefore DEF LoopInv, TypeOK, Queue
<1>3. pc = "rotate" => Rotating'
  BY <1>1, SMT DEF LoopInv, Rotating
<1>4. pc = "hand" => Turning'
  BY <1>1, SMT DEF LoopInv, Turning, PassedBy
<1>5. pc = "evict" => Stopped'
  BY <1>1, SameBefore, Zenon DEF LoopInv, Stopped
<1>6. LoopsAgree'
  BY <1>1, SameBefore, Zenon DEF LoopInv, LoopsAgree
<1> QED
  BY <1>1, <1>2, <1>3, <1>4, <1>5, <1>6, Zenon DEF LoopInv

LEMMA LoopNext == LoopInv /\ [Next]_vars => LoopInv'
<1> SUFFICES ASSUME LoopInv, [Next]_vars PROVE LoopInv'
  OBVIOUS
<1>1. CASE \E p \in Frame, w \in BOOLEAN : Access(p, w)
  BY <1>1, BetweenCalls
<1>2. CASE \E p \in Frame : Free(p) \/ Ghost(p)
  BY <1>2, BetweenCalls
<1>3. CASE TakeFree \/ RunClock
  BY <1>3, CallStep
<1>4. CASE Loop
  BY <1>4, RotateStepKeeps, RotateEndKeeps, HandPassKeeps, HandStopKeeps, EvictKeeps
  DEF Loop
<1>5. CASE \E w \in BOOLEAN : Return(w)
  BY <1>5, ReturnKeeps
<1>6. CASE UNCHANGED vars
  BY <1>6, StutterKeeps
<1> QED
  BY <1>1, <1>2, <1>3, <1>4, <1>5, <1>6, Zenon DEF Next

-----------------------------------------------------------------------------

\* Every loop is where its counter or the bits it cleared say it is, in the queue
\* that alloc was called with.
THEOREM LoopInvariance == Spec => []LoopInv
<1>1. Init => LoopInv
  BY StartHolds
<1> QED
  BY <1>1, LoopNext, PTL DEF Spec

\* What the loops of alloc and runclock leave is what Clock says in one step, for
\* any number of frames, any order of the queue and any bits.
THEOREM LoopsAgreeCorrect == Spec => []LoopsAgree
<1>1. LoopInv => LoopsAgree
  BY DEF LoopInv
<1> QED
  BY <1>1, LoopInvariance, PTL

\* A referenced page loses its frame only when every page is referenced.
THEOREM SecondChanceCorrect == Spec => []SecondChance
<1>1. LoopInv => SecondChance
  <2> SUFFICES ASSUME LoopInv, pc = "done", start.free = <<>>, start.bits[ppage].ref,
                      NEW p \in Frame
               PROVE  start.bits[p].ref
    BY Zenon DEF SecondChance
  <2> DEFINE q == start.queue
  <2>1. Started /\ ppage = Before!Alloc(start.bits)
    BY Zenon DEF LoopInv, LoopsAgree
  <2>2. ppage = q[Before!Hand(start.bits)] /\ Before!Hand(start.bits) \in 1..Len(q)
    BY <2>1, AllocInQueue, Zenon DEF Before!Alloc, Before!Evicts, Before!Victim
  <2> DEFINE U == {j \in 1..Len(q) : ~start.bits[q[j]].ref}
  <2>3. Before!Unreferenced(start.bits) = U
    BY Zenon DEF Before!Unreferenced
  <2>4. U = {}
    <3> SUFFICES ASSUME U # {} PROVE FALSE
      BY Zenon
    <3>1. Before!Hand(start.bits) = Min(U)
      BY <2>3, SameOperators, Zenon DEF Before!Hand
    <3>2. Len(q) \in Nat
      BY <2>1, QueueLength, LenProperties DEF Started
    <3>3. U \in SUBSET Nat
      BY <3>2
    <3>4. Min(U) \in U
      <4> HIDE DEF U
      <4> QED
        BY <3>3, MinInSet
    <3> QED
      BY <2>2, <3>1, <3>4, Zenon
  <2>5. PICK j \in 1..Len(q) : q[j] = p
    BY <2>1, QueueLength DEF Started
  <2> QED
    BY <2>4, <2>5, Zenon
<1> QED
  BY <1>1, LoopInvariance, PTL

=============================================================================
