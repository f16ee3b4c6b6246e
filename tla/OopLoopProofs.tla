--------------------------- MODULE OopLoopProofs ---------------------------
(***************************************************************************)
(* Proofs about OopLoops for every number of frames: the loops of          *)
(* get_ppage and vm_destroy leave what the closed forms of OopClock say.   *)
(***************************************************************************)
EXTENDS OopLoops, QueueLemmas

-----------------------------------------------------------------------------
(* The inductive invariant: which frames each queue holds, and where each  *)
(* loop is in the queue it began with.                                     *)

Entries == [state : MemStates, dirty : BOOLEAN, loc : {NoLoc, Loc}]
Used    == {"REFERENCED", "PEND"} \cup GhostStates
IsPending(entry) == entry.state \in {"PEND", "GHOST_PEND"}

\* The queues hold each frame that is not in X once.
Dealt(q, f, X) ==
  /\ q \in Seq(Frame) /\ IsInjective(q)
  /\ f \in Seq(Frame) /\ IsInjective(f)
  /\ Range(q) \cap Range(f) = {}
  /\ Range(q) \cup Range(f) = Frame \ X

Within(mem, q, States) == \A p \in Range(q) : mem[p].state \in States

\* The hand has passed the first k frames, none of them pending.
PassedBy(k) ==
  LET q == start.queue IN
  /\ MemQueue = Ring(q, k, SubSeq(q, 1, k))
  /\ \A j \in 1..k : ~IsPending(start.mem[q[j]])
  /\ PhysMem = [p \in Ppage |-> IF p \in FirstOf(q, k) THEN Aged(start.mem[p])
                                ELSE start.mem[p]]
  /\ revoked = FirstOf(q, k)

Turning ==
  /\ start.mem \in [Ppage -> Entries]
  /\ Dealt(start.queue, <<>>, {}) /\ Within(start.mem, start.queue, Used)
  /\ start.free = <<>> /\ FreePhys = <<>>
  /\ \E k \in 0..Len(start.queue) : PassedBy(k)

Kept(mem) == {p \in Frame : mem[p].state # "FREE"}
Gone(mem) == {p \in Frame : mem[p].state = "FREE"}

\* curr_top is the first frame kept, once there is one.
Fronted(kept) ==
  IF kept = <<>>
  THEN IsFree(curr_top) \/ (i = 0 /\ curr_top = Head(start.queue))
  ELSE InUse(curr_top) /\ curr_top = Head(kept)

SortedBy(k) ==
  LET q    == start.queue
      kept == Sifted(SubSeq(q, 1, k), Kept(PhysMem)) IN
  /\ MemQueue = Ring(q, k, kept)
  /\ FreePhys = start.free \o Sifted(SubSeq(q, 1, k), Gone(PhysMem))
  /\ Fronted(kept)

Sorting ==
  /\ PhysMem = start.mem
  /\ Dealt(start.queue, start.free, {})
  /\ Within(PhysMem, start.queue, Used \cup {"FREE"})
  /\ i \in 0..Len(start.queue)
  /\ SortedBy(i)

LoopInv ==
  /\ PhysMem \in [Ppage -> Entries]
  /\ pc \in {"idle", "got", "hand", "sort", "sorted"}
  /\ pc \in {"idle", "sort", "sorted"} => revoked = {}
  /\ pc \in {"idle", "got", "hand"} => i = 0
  /\ pc \in {"idle", "sorted"} => Dealt(MemQueue, FreePhys, {})
  /\ pc = "got" => Dealt(MemQueue, FreePhys, {pmem}) /\ pmem \in Frame
  /\ pc \in {"idle", "got", "sorted"} => Within(PhysMem, MemQueue, Used)
  /\ pc = "hand" => Turning
  /\ pc = "sort" => Sorting
  /\ LoopsAgree /\ LoopAsserts

-----------------------------------------------------------------------------
(* Frames and their entries.                                               *)

LEMMA SameOperators ==
  /\ \A q, S : Before!Sifted(q, S) = Sifted(q, S)
  /\ \A T : Before!Min(T) = Min(T)
  /\ Before!Frame = Frame /\ Before!Ppage = Ppage
  /\ Before!FreeEntry = FreeEntry
  /\ \A e : Before!Aged(e) = Aged(e)
<1>1. \A q, S : Before!Sifted(q, S) = Sifted(q, S)
  BY Zenon DEF Before!Sifted, Sifted
<1>2. \A T : Before!Min(T) = Min(T)
  BY Zenon DEF Before!Min, Min
<1>3. Before!Frame = Frame /\ Before!Ppage = Ppage /\ Before!FreeEntry = FreeEntry
  BY Zenon DEF Before!Frame, Frame, Before!Ppage, Ppage, Before!FreeEntry, FreeEntry,
               Before!NoLoc, NoLoc
<1>4. \A e : Before!Aged(e) = Aged(e)
  BY Zenon DEF Before!Aged, Aged
<1> QED
  BY <1>1, <1>2, <1>3, <1>4

LEMMA FrameIs ==
  /\ PCnt \in Nat /\ PCnt - 1 >= 1 /\ Frame = 1..(PCnt - 1)
  /\ Frame \subseteq Ppage /\ 1 \in Frame
BY PCntAssumption DEF Frame, Ppage

LEMMA StateSet ==
  ASSUME NEW e \in Entries, NEW s \in MemStates
  PROVE  /\ [e EXCEPT !.state = s] \in Entries
         /\ [e EXCEPT !.state = s].state = s
BY DEF Entries

LEMMA AgedEntry ==
  ASSUME NEW e \in Entries, e.state \in Used
  PROVE  /\ Aged(e) \in Entries
         /\ Aged(e).state \in Used
         /\ ~IsPending(e) => IsPending(Aged(e))
<1>1. "PEND" \in MemStates /\ "GHOST_PEND" \in MemStates
  BY DEF MemStates, GhostStates
<1>2. CASE e.state = "REFERENCED"
  <2>1. Aged(e) = [e EXCEPT !.state = "PEND"]
    BY <1>2 DEF Aged
  <2>2. Aged(e) \in Entries /\ Aged(e).state = "PEND"
    BY <1>1, <2>1, StateSet
  <2> QED
    BY <2>2 DEF Used, IsPending
<1>3. CASE e.state = "GHOST_REF"
  <2>1. Aged(e) = [e EXCEPT !.state = "GHOST_PEND"]
    BY <1>3 DEF Aged
  <2>2. Aged(e) \in Entries /\ Aged(e).state = "GHOST_PEND"
    BY <1>1, <2>1, StateSet
  <2> QED
    BY <2>2 DEF Used, IsPending, GhostStates
<1>4. CASE e.state \notin {"REFERENCED", "GHOST_REF"}
  <2>1. Aged(e) = e
    BY <1>4 DEF Aged
  <2> QED
    BY <1>4, <2>1 DEF Used, IsPending, GhostStates
<1> QED
  BY <1>2, <1>3, <1>4

LEMMA FreeIs ==
  /\ FreeEntry \in Entries /\ FreeEntry.state = "FREE"
  /\ "FREE" \notin Used /\ Used \subseteq MemStates
BY DEF FreeEntry, Entries, MemStates, Used, GhostStates
\* States change elsewhere, or to states of frames in use.
LEMMA WithinStill ==
  ASSUME NEW q \in Seq(Frame), NEW m1, NEW m2, NEW States,
         Within(m1, q, States),
         \A p \in Range(q) : m2[p] = m1[p] \/ m2[p].state \in States
  PROVE  Within(m2, q, States)
BY DEF Within

LEMMA EmptyQueue ==
  /\ <<>> \in Seq(Frame) /\ IsInjective(<<>>) /\ Range(<<>>) = {}
<1>1. <<>> \in Seq(Frame) /\ DOMAIN <<>> = {}
  BY EmptySeq
<1> QED
  BY <1>1 DEF IsInjective, Range

-----------------------------------------------------------------------------
(* Between two calls.                                                      *)

LEMMA StartHolds == ASSUME Init PROVE LoopInv
<1> DEFINE f == [j \in 1..(PCnt - 1) |-> j]
<1>1. f \in Seq(Frame) /\ IsInjective(f) /\ Range(f) = Frame
  <2>1. f \in Seq(Frame)
    BY FrameIs
  <2>2. IsInjective(f)
    BY FrameIs DEF IsInjective
  <2>3. Range(f) = Frame
    BY FrameIs DEF Range
  <2> QED
    BY <2>1, <2>2, <2>3
<1>2. /\ MemQueue = <<>> /\ FreePhys = f /\ pc = "idle" /\ revoked = {} /\ i = 0
      /\ PhysMem = [p \in Ppage |-> IF p = 0 THEN PinnedEntry ELSE FreeEntry]
  BY DEF Init, FramesInit
<1> HIDE DEF f
<1>3. PinnedEntry \in Entries
  BY DEF PinnedEntry, FreeEntry, Entries, MemStates
<1>4. PhysMem \in [Ppage -> Entries]
  BY <1>2, <1>3, FreeIs
<1>5. Dealt(MemQueue, FreePhys, {})
  BY <1>1, <1>2, EmptyQueue DEF Dealt
<1>6. Within(PhysMem, MemQueue, Used)
  BY <1>2, EmptyQueue DEF Within
<1> QED
  BY <1>2, <1>4, <1>5, <1>6 DEF LoopInv, LoopsAgree, LoopAsserts

LEMMA BetweenCalls ==
  ASSUME LoopInv,
         \/ \E p \in Frame, w \in BOOLEAN : Access(p, w)
         \/ \E p \in Frame : Revive(p)
  PROVE  LoopInv'
<1>1. /\ PhysMem \in [Ppage -> Entries] /\ pc = "idle" /\ revoked = {} /\ i = 0
      /\ Dealt(MemQueue, FreePhys, {}) /\ Within(PhysMem, MemQueue, Used)
  BY DEF LoopInv, Access, Revive
<1>2. /\ pc' = "idle" /\ MemQueue' = MemQueue /\ FreePhys' = FreePhys
      /\ revoked' = revoked /\ i' = i
  BY DEF Access, Revive
<1>3. \E p \in Frame : \E e \in Entries :
        e.state \in Used /\ PhysMem' = [PhysMem EXCEPT ![p] = e]
  <2>1. CASE \E p \in Frame, w \in BOOLEAN : Access(p, w)
    <3> PICK p \in Frame, w \in BOOLEAN : Access(p, w)
      BY <2>1
    <3> DEFINE e == [PhysMem[p] EXCEPT !.state = "REFERENCED", !.dirty = @ \/ w]
    <3>1. PhysMem[p] \in Entries
      BY <1>1, FrameIs
    <3>2. e \in Entries /\ e.state = "REFERENCED"
      BY <3>1 DEF Entries, MemStates
    <3>3. PhysMem' = [PhysMem EXCEPT ![p] = e]
      <4>1. PhysMem' = [PhysMem EXCEPT ![p].state = "REFERENCED", ![p].dirty = @ \/ w]
        BY DEF Access
      <4> QED
        BY <1>1, <4>1, FrameIs
    <3> QED
      BY <3>2, <3>3 DEF Used
  <2>2. CASE \E p \in Frame : Revive(p)
    <3> PICK p \in Frame : Revive(p)
      BY <2>2
    <3>1. PhysMem[p] \in Entries
      BY <1>1, FrameIs
    <3>2. Revived(PhysMem[p]) \in Entries /\ Revived(PhysMem[p]).state \in Used
      BY <3>1 DEF Revived, Entries, MemStates, Used
    <3> QED
      BY <3>2 DEF Revive
  <2> QED
    BY <2>1, <2>2
<1>4. PICK p \in Frame, e \in Entries :
        e.state \in Used /\ PhysMem' = [PhysMem EXCEPT ![p] = e]
  BY <1>3
<1>5. PhysMem' \in [Ppage -> Entries]
  BY <1>1, <1>4
<1>6. Within(PhysMem, MemQueue, Used)'
  <2>1. \A o \in Range(MemQueue) : PhysMem'[o] = PhysMem[o] \/ PhysMem'[o].state \in Used
    BY <1>1, <1>4, FrameIs
  <2>2. MemQueue \in Seq(Frame)
    BY <1>1 DEF Dealt
  <2>3. Within(PhysMem', MemQueue, Used)
    BY <1>1, <2>1, <2>2, WithinStill
  <2> QED
    BY <1>2, <2>3 DEF Within
<1>7. Dealt(MemQueue, FreePhys, {})'
  BY <1>1, <1>2 DEF Dealt
<1> QED
  BY <1>1, <1>2, <1>5, <1>6, <1>7 DEF LoopInv, LoopsAgree, LoopAsserts

LEMMA TakeFreeKeeps ==
  ASSUME LoopInv, TakeFree
  PROVE  LoopInv'
<1>1. /\ PhysMem \in [Ppage -> Entries] /\ revoked = {} /\ i = 0
      /\ Dealt(MemQueue, FreePhys, {}) /\ Within(PhysMem, MemQueue, Used)
  BY DEF LoopInv, TakeFree
<1>2. /\ FreePhys # <<>> /\ pc' = "got" /\ start' = Now /\ pmem' = Head(FreePhys)
      /\ FreePhys' = Tail(FreePhys) /\ PhysMem' = PhysMem /\ MemQueue' = MemQueue
      /\ revoked' = revoked /\ i' = i
  BY DEF TakeFree
<1>3. /\ Head(FreePhys) \in Range(FreePhys) /\ Head(FreePhys) \in Frame
      /\ Tail(FreePhys) \in Seq(Frame) /\ IsInjective(Tail(FreePhys))
      /\ Range(Tail(FreePhys)) = Range(FreePhys) \ {Head(FreePhys)}
  BY <1>1, <1>2, TailWithoutHead DEF Dealt
<1>4. Dealt(MemQueue, FreePhys, {pmem})' /\ pmem' \in Frame
  BY <1>1, <1>2, <1>3 DEF Dealt
<1>5. Within(PhysMem, MemQueue, Used)'
  BY <1>1, <1>2 DEF Within
<1>6. /\ start'.mem = PhysMem /\ start'.queue = MemQueue /\ start'.free = FreePhys
  BY <1>2 DEF Now
<1>7. ~(Before!Evicts)'
  BY <1>2, <1>6 DEF Before!Evicts
<1>8. LoopsAgree'
  BY <1>1, <1>2, <1>6, <1>7
  DEF LoopsAgree, Before!get_ppage, Before!GotMem, Before!GotQueue, Before!GotFree
<1> QED
  BY <1>1, <1>2, <1>4, <1>5, <1>8 DEF LoopInv, LoopAsserts

LEMMA EnterKeeps ==
  ASSUME LoopInv, Enter
  PROVE  LoopInv'
<1>1. /\ PhysMem \in [Ppage -> Entries] /\ revoked = {} /\ i = 0
      /\ Dealt(MemQueue, FreePhys, {}) /\ Within(PhysMem, MemQueue, Used)
  BY DEF LoopInv, Enter
<1>2. /\ FreePhys = <<>> /\ pc' = "hand" /\ start' = Now /\ FreePhys' = FreePhys
      /\ PhysMem' = PhysMem /\ MemQueue' = MemQueue /\ revoked' = revoked /\ i' = i
  BY DEF Enter, frames
<1>3. start'.mem = PhysMem /\ start'.queue = MemQueue /\ start'.free = <<>>
  BY <1>2 DEF Now
<1>4. /\ MemQueue \in Seq(Frame) /\ Len(MemQueue) \in Nat
      /\ Range(MemQueue) = Frame
  BY <1>1, <1>2, EmptyQueue, LenProperties DEF Dealt
<1>5. /\ SubSeq(MemQueue, 1, 0) = <<>> /\ Ring(MemQueue, 0, <<>>) = MemQueue
      /\ FirstOf(MemQueue, 0) = {}
  BY <1>4, AllLeft, FirstOfMore
<1>6. PassedBy(0)'
  <2>1. MemQueue' = Ring(MemQueue, 0, SubSeq(MemQueue, 1, 0))
    BY <1>2, <1>5, Zenon
  <2>2. PhysMem = [p \in Ppage |-> IF p \in {} THEN Aged(PhysMem[p]) ELSE PhysMem[p]]
    BY <1>1
  <2> QED
    BY <1>1, <1>2, <1>3, <1>5, <2>1, <2>2 DEF PassedBy
<1>7. Turning'
  <2>1. 0 \in 0..Len(MemQueue)
    BY <1>4
  <2>2. Dealt(start.queue, <<>>, {})' /\ Within(start.mem, start.queue, Used)'
    BY <1>1, <1>2, <1>3 DEF Dealt, Within
  <2> QED
    BY <1>1, <1>2, <1>3, <1>6, <2>1, <2>2 DEF Turning
<1>8. MemQueue # <<>> /\ InUse(Head(MemQueue))
  <2>1. MemQueue # <<>>
    BY <1>4, EmptyQueue, FrameIs
  <2>2. Head(MemQueue) \in Range(MemQueue)
    BY <1>1, <2>1, TailWithoutHead DEF Dealt
  <2> QED
    BY <1>1, <2>1, <2>2, FreeIs DEF Within, InUse, IsFree
<1>9. LoopAsserts'
  BY <1>2, <1>8 DEF LoopAsserts, InUse, IsFree
<1> QED
  BY <1>1, <1>2, <1>7, <1>9 DEF LoopInv, LoopsAgree

LEMMA ReturnKeeps ==
  ASSUME LoopInv, NEW w \in BOOLEAN, Return(w)
  PROVE  LoopInv'
<1>1. /\ PhysMem \in [Ppage -> Entries] /\ i = 0 /\ pmem \in Frame
      /\ Dealt(MemQueue, FreePhys, {pmem}) /\ Within(PhysMem, MemQueue, Used)
  BY DEF LoopInv, Return
<1>2. /\ MemQueue' = Append(MemQueue, pmem) /\ FreePhys' = FreePhys /\ pc' = "idle"
      /\ revoked' = {} /\ i' = 0
  BY DEF Return, Leave
<1> DEFINE e == [state |-> "REFERENCED", dirty |-> w, loc |-> Loc]
<1>3. PhysMem' = [PhysMem EXCEPT ![pmem] = e]
  BY DEF Return
<1>4. e \in Entries /\ e.state \in Used
  BY DEF Entries, MemStates, Used
<1> HIDE DEF e
<1>5. PhysMem' \in [Ppage -> Entries]
  BY <1>1, <1>3, <1>4
<1>6. /\ MemQueue \in Seq(Frame) /\ IsInjective(MemQueue) /\ pmem \notin Range(MemQueue)
      /\ pmem \notin Range(FreePhys)
  BY <1>1 DEF Dealt
<1>7. /\ MemQueue' \in Seq(Frame) /\ IsInjective(MemQueue')
      /\ Range(MemQueue') = Range(MemQueue) \cup {pmem}
  BY <1>1, <1>2, <1>6, Appended
<1>8. Dealt(MemQueue, FreePhys, {})'
  BY <1>1, <1>2, <1>6, <1>7 DEF Dealt
<1>9. Within(PhysMem, MemQueue, Used)'
  BY <1>1, <1>3, <1>4, <1>7, FrameIs DEF Within
<1> QED
  BY <1>2, <1>5, <1>8, <1>9 DEF LoopInv, LoopsAgree, LoopAsserts

LEMMA ReadFailsKeeps ==
  ASSUME LoopInv, ReadFails
  PROVE  LoopInv'
<1>1. /\ PhysMem \in [Ppage -> Entries] /\ pmem \in Frame
      /\ Dealt(MemQueue, FreePhys, {pmem}) /\ Within(PhysMem, MemQueue, Used)
  BY DEF LoopInv, ReadFails
<1>2. /\ FreePhys' = Append(FreePhys, pmem) /\ MemQueue' = MemQueue
      /\ PhysMem' = PhysMem /\ pc' = "idle" /\ revoked' = {} /\ i' = 0
  BY DEF ReadFails, Leave
<1>3. /\ FreePhys \in Seq(Frame) /\ IsInjective(FreePhys)
      /\ pmem \notin Range(MemQueue) /\ pmem \notin Range(FreePhys)
  BY <1>1 DEF Dealt
<1>4. /\ FreePhys' \in Seq(Frame) /\ IsInjective(FreePhys')
      /\ Range(FreePhys') = Range(FreePhys) \cup {pmem}
  BY <1>1, <1>2, <1>3, Appended
<1>5. Dealt(MemQueue, FreePhys, {})'
  BY <1>1, <1>2, <1>3, <1>4 DEF Dealt
<1> QED
  BY <1>1, <1>2, <1>5 DEF LoopInv, LoopsAgree, LoopAsserts, Within

-----------------------------------------------------------------------------
(* vm_destroy.                                                             *)

LEMMA ExitKeeps ==
  ASSUME LoopInv, NEW Swap \in SUBSET Mapped, NEW Block \in SUBSET Mapped,
         Exit(Swap, Block)
  PROVE  LoopInv'
<1>1. /\ PhysMem \in [Ppage -> Entries] /\ revoked = {} /\ i = 0
      /\ Dealt(MemQueue, FreePhys, {}) /\ Within(PhysMem, MemQueue, Used)
  BY DEF LoopInv, Exit
<1>2. /\ PhysMem' = [p \in Ppage |-> IF p \in Swap THEN FreeEntry
                                     ELSE IF p \in Block THEN Ghosted(PhysMem[p])
                                     ELSE PhysMem[p]]
      /\ MemQueue # <<>> /\ curr_top' = Head(MemQueue) /\ pc' = "sort"
      /\ MemQueue' = MemQueue /\ FreePhys' = FreePhys /\ revoked' = revoked /\ i' = i
      /\ start' = [Now EXCEPT !.mem = PhysMem']
  BY DEF Exit
<1>3. start'.mem = PhysMem' /\ start'.queue = MemQueue /\ start'.free = FreePhys
  BY <1>2 DEF Now
<1>4. \A e \in Entries : Ghosted(e) \in Entries /\ Ghosted(e).state \in Used
  BY DEF Ghosted, Entries, MemStates, Used, GhostStates
<1>5. PhysMem' \in [Ppage -> Entries]
  BY <1>1, <1>2, <1>4, FreeIs
<1>6. MemQueue \in Seq(Frame) /\ FreePhys \in Seq(Frame)
  BY <1>1 DEF Dealt
<1>7. Within(PhysMem', MemQueue, Used \cup {"FREE"})
  <2> SUFFICES ASSUME NEW p \in Range(MemQueue)
               PROVE  PhysMem'[p].state \in Used \cup {"FREE"}
    BY DEF Within
  <2>1. p \in Ppage /\ PhysMem[p] \in Entries /\ PhysMem[p].state \in Used
    BY <1>1, FrameIs DEF Dealt, Within
  <2>2. PhysMem'[p] = IF p \in Swap THEN FreeEntry
                      ELSE IF p \in Block THEN Ghosted(PhysMem[p]) ELSE PhysMem[p]
    BY <1>2, <2>1
  <2> QED
    BY <1>4, <2>1, <2>2, FreeIs
<1>8. Sifted(SubSeq(MemQueue, 1, 0), Kept(PhysMem')) = <<>>
      /\ Sifted(SubSeq(MemQueue, 1, 0), Gone(PhysMem')) = <<>>
  BY <1>6, SiftedOn
<1>9. /\ Ring(MemQueue, 0, <<>>) = MemQueue /\ FreePhys \o <<>> = FreePhys
      /\ 0 \in 0..Len(MemQueue)
  BY <1>6, AllLeft, ConcatEmptySeq, LenProperties
<1>10. SortedBy(i)'
  <2>1. Fronted(<<>>)'
    BY <1>1, <1>2, <1>3 DEF Fronted
  <2>2. /\ MemQueue' = Ring(start'.queue, 0, Sifted(SubSeq(start'.queue, 1, 0), Kept(PhysMem')))
        /\ FreePhys' = start'.free \o Sifted(SubSeq(start'.queue, 1, 0), Gone(PhysMem'))
        /\ Sifted(SubSeq(start'.queue, 1, 0), Kept(PhysMem')) = <<>>
    BY <1>2, <1>3, <1>8, <1>9, Zenon
  <2>3. i' = 0
    BY <1>1, <1>2
  <2> QED
    BY <2>1, <2>2, <2>3, Zenon DEF SortedBy, Fronted, IsFree, InUse
<1>11. Sorting'
  <2>1. Dealt(start.queue, start.free, {})'
    BY <1>1, <1>3 DEF Dealt
  <2> QED
    BY <1>1, <1>2, <1>3, <1>7, <1>9, <1>10, <2>1 DEF Sorting, Within
<1> QED
  BY <1>1, <1>2, <1>5, <1>11 DEF LoopInv, LoopsAgree, LoopAsserts

\* What is in front of the queue, and where an iteration leaves it.
LEMMA SortTurns ==
  ASSUME Sorting, i # Len(start.queue)
  PROVE  LET q == start.queue
             r == Sifted(SubSeq(q, 1, i), Kept(PhysMem)) IN
         /\ i + 1 \in 1..Len(q) /\ i \in Nat /\ i \in 0..(Len(q) - 1)
         /\ q[i + 1] \in Frame
         /\ Head(MemQueue) = q[i + 1]
         /\ Tail(MemQueue) = Ring(q, i + 1, r)
         /\ Append(Tail(MemQueue), q[i + 1]) = Ring(q, i + 1, Append(r, q[i + 1]))
         /\ r \in Seq(Frame)
<1> DEFINE q == start.queue
           r == Sifted(SubSeq(q, 1, i), Kept(PhysMem))
<1>1. /\ q \in Seq(Frame) /\ IsInjective(q) /\ i \in 0..Len(q)
      /\ MemQueue = Ring(q, i, r)
  BY DEF Sorting, Dealt, SortedBy
<1>2. Len(q) \in Nat
  BY <1>1, LenProperties
<1>3. i + 1 \in 1..Len(q) /\ i \in Nat /\ i \in 0..(Len(q) - 1)
  BY <1>1, <1>2
<1>4. q[i + 1] \in Frame
  BY <1>1, <1>3, ElementOfSeq
<1>5. r \in Seq(Frame)
  BY <1>1, SiftedKeeps
<1> HIDE DEF q, r
<1>6. /\ Head(Ring(q, i, r)) = q[i + 1]
      /\ Tail(Ring(q, i, r)) = Ring(q, i + 1, r)
      /\ Append(Tail(Ring(q, i, r)), q[i + 1]) = Ring(q, i + 1, Append(r, q[i + 1]))
  BY <1>1, <1>3, <1>5, RestUnrolls
<1> QED
  BY <1>1, <1>3, <1>4, <1>5, <1>6, Zenon DEF q, r

Behind(f, g, x) == f \o Append(g, x)

LEMMA AppendedBehind ==
  ASSUME NEW S, NEW f \in Seq(S), NEW g \in Seq(S), NEW x \in S, NEW r, r = f \o g
  PROVE  Append(r, x) = Behind(f, g, x)
<1> DEFINE one == <<x>>
<1>1. one \in Seq(S)
  OBVIOUS
<1>2. Append(g, x) = g \o one
  BY AppendIsConcat, Zenon DEF one
<1>3. f \o g \in Seq(S)
  BY ConcatProperties
<1>4. Append(f \o g, x) = (f \o g) \o one
  BY <1>3, AppendIsConcat, Zenon DEF one
<1> HIDE DEF one
<1>5. (f \o g) \o one = f \o (g \o one)
  BY <1>1
<1> QED
  BY <1>2, <1>4, <1>5, Zenon DEF Behind

\* curr_top while the loop has kept r, looks at p, and then has kept r2.
LEMMA FrontFound ==
  ASSUME NEW r \in Seq(Frame), NEW p \in Frame, Fronted(r),
         p = Head(start.queue) \/ i # 0
  PROVE  LET top == Top(p)
             r2  == IF IsFree(p) THEN r ELSE Append(r, p) IN
         IF r2 = <<>> THEN IsFree(top) ELSE InUse(top) /\ top = Head(r2)
<1>1. Append(r, p) # <<>> /\ (r # <<>> => Head(Append(r, p)) = Head(r))
      /\ (r = <<>> => Head(Append(r, p)) = p)
  <2>1. Len(r) \in Nat /\ Len(Append(r, p)) = Len(r) + 1 /\ (r = <<>> <=> Len(r) = 0)
    BY AppendProperties, LenProperties, EmptySeq
  <2>2. Append(r, p) \in Seq(Frame)
    BY AppendProperties
  <2>3. Append(r, p) # <<>>
    BY <2>1, EmptySeq
  <2>4. Head(Append(r, p)) = Append(r, p)[1]
    BY <2>2, <2>3, HeadTailProperties
  <2>5. CASE r = <<>>
    <3>1. Append(r, p)[1] = p
      BY <2>1, <2>5, AppendProperties
    <3> QED
      BY <2>3, <2>4, <2>5, <3>1
  <2>6. CASE r # <<>>
    <3>1. 1 \in 1..Len(r)
      BY <2>1, <2>6
    <3>2. Append(r, p)[1] = r[1]
      BY <3>1, AppendProperties
    <3>3. Head(r) = r[1]
      BY <2>6, HeadTailProperties
    <3> QED
      BY <2>3, <2>4, <2>6, <3>2, <3>3
  <2> QED
    BY <2>5, <2>6
<1>2. CASE r # <<>>
  <2>1. InUse(curr_top) /\ curr_top = Head(r) /\ Top(p) = curr_top
    BY <1>2 DEF Fronted, Top, InUse
  <2> QED
    BY <1>1, <1>2, <2>1
<1>3. CASE r = <<>>
  <2>1. Top(p) = p
    BY <1>3 DEF Fronted, Top
  <2> QED
    BY <1>1, <1>3, <2>1 DEF InUse
<1> QED
  BY <1>2, <1>3

LEMMA SortStepKeeps ==
  ASSUME LoopInv, SortStep
  PROVE  LoopInv'
<1> DEFINE q    == start.queue
           tmp  == Head(MemQueue)
           kept == Sifted(SubSeq(q, 1, i), Kept(PhysMem))
           gone == Sifted(SubSeq(q, 1, i), Gone(PhysMem))
<1>1. Sorting /\ PhysMem \in [Ppage -> Entries] /\ revoked = {}
  BY DEF LoopInv, SortStep
<1>2. /\ i < Len(q) /\ curr_top' = Top(tmp) /\ i' = i + 1 /\ pc' = "sort"
      /\ PhysMem' = PhysMem /\ revoked' = revoked /\ start' = start
      /\ MemQueue' = IF IsFree(tmp) THEN Tail(MemQueue) ELSE Append(Tail(MemQueue), tmp)
      /\ FreePhys' = IF IsFree(tmp) THEN Append(FreePhys, tmp) ELSE FreePhys
  BY DEF SortStep, Turned
<1>3. i # Len(q)
  <2>1. q \in Seq(Frame)
    BY <1>1 DEF Sorting, Dealt
  <2> QED
    BY <1>2, <2>1, LenProperties
<1>4. /\ i + 1 \in 1..Len(q) /\ i \in Nat /\ i \in 0..(Len(q) - 1)
      /\ tmp \in Frame /\ tmp = q[i + 1]
      /\ Tail(MemQueue) = Ring(q, i + 1, kept)
      /\ Append(Tail(MemQueue), tmp) = Ring(q, i + 1, Append(kept, tmp))
      /\ kept \in Seq(Frame)
  BY <1>1, <1>3, SortTurns, Zenon
<1>5. /\ q \in Seq(Frame) /\ IsInjective(q) /\ start.free \in Seq(Frame)
      /\ FreePhys = start.free \o gone /\ Fronted(kept)
  BY <1>1, Zenon DEF Sorting, Dealt, SortedBy
<1>6. gone \in Seq(Frame)
  BY <1>4, <1>5, SiftedKeeps
<1>7. /\ Sifted(SubSeq(q, 1, i + 1), Kept(PhysMem))
           = IF tmp \in Kept(PhysMem) THEN Append(kept, tmp) ELSE kept
      /\ Sifted(SubSeq(q, 1, i + 1), Gone(PhysMem))
           = IF tmp \in Gone(PhysMem) THEN Append(gone, tmp) ELSE gone
  <2>1. \A S : Sifted(SubSeq(q, 1, i + 1), S)
                 = IF q[i + 1] \in S THEN Append(Sifted(SubSeq(q, 1, i), S), q[i + 1])
                   ELSE Sifted(SubSeq(q, 1, i), S)
    <3> TAKE S
    <3>1. q \in Seq(Frame) /\ i \in 0..(Len(q) - 1)
      BY <1>4, <1>5
    <3> HIDE DEF q, tmp, kept, gone
    <3> QED
      <4>1. \A k \in 0..(Len(q) - 1) :
              Sifted(SubSeq(q, 1, k + 1), S)
                = IF q[k + 1] \in S THEN Append(Sifted(SubSeq(q, 1, k), S), q[k + 1])
                  ELSE Sifted(SubSeq(q, 1, k), S)
        BY <3>1, SiftedOn
      <4> QED
        BY <3>1, <4>1
  <2> QED
    BY <1>4, <2>1, Zenon
<1>8. /\ tmp \in Kept(PhysMem) <=> ~IsFree(tmp)
      /\ tmp \in Gone(PhysMem) <=> IsFree(tmp)
  BY <1>4 DEF Kept, Gone, IsFree
<1>9. tmp = Head(q) \/ i # 0
  <2> SUFFICES ASSUME i = 0 PROVE tmp = Head(q)
    OBVIOUS
  <2>1. q # <<>> /\ tmp = q[1]
    BY <1>4, <1>5, LenProperties, EmptySeq
  <2> QED
    BY <1>5, <2>1, HeadTailProperties
<1> DEFINE r2 == IF IsFree(tmp) THEN kept ELSE Append(kept, tmp)
<1> HIDE DEF tmp, kept, gone
<1>10. IF r2 = <<>> THEN IsFree(Top(tmp)) ELSE InUse(Top(tmp)) /\ Top(tmp) = Head(r2)
  BY <1>4, <1>5, <1>9, FrontFound
<1>11. Sifted(SubSeq(q, 1, i + 1), Kept(PhysMem)) = r2
  BY <1>7, <1>8
<1>12. MemQueue' = Ring(q, i + 1, r2)
  BY <1>2, <1>4
<1>13. FreePhys' = start.free \o Sifted(SubSeq(q, 1, i + 1), Gone(PhysMem))
  <2>1. start.free \in Seq(Frame) /\ tmp \in Frame /\ gone \in Seq(Frame)
    BY <1>4, <1>5, <1>6
  <2>2. Append(FreePhys, tmp) = Behind(start.free, gone, tmp)
    BY <1>5, <2>1, AppendedBehind, Zenon
  <2>3. Append(FreePhys, tmp) = start.free \o Append(gone, tmp)
    BY <2>2, Zenon DEF Behind
  <2> QED
    BY <1>2, <1>5, <1>7, <1>8, <2>3
<1> HIDE DEF r2
<1>14. /\ r2 = <<>> => PhysMem'[curr_top'].state = "FREE"
       /\ r2 # <<>> => PhysMem'[curr_top'].state # "FREE" /\ curr_top' = Head(r2)
  <2>1. r2 = <<>> => PhysMem'[curr_top'].state = "FREE"
    BY <1>2, <1>10 DEF IsFree
  <2>2. r2 # <<>> => PhysMem'[curr_top'].state # "FREE" /\ curr_top' = Head(r2)
    BY <1>2, <1>10 DEF IsFree, InUse
  <2> QED
    BY <2>1, <2>2
<1>15. SortedBy(i)'
  <2>1. Sifted(SubSeq(start'.queue, 1, i'), Kept(PhysMem')) = r2
    BY <1>2, <1>11
  <2>2. MemQueue' = Ring(start'.queue, i', r2)
        /\ FreePhys' = start'.free \o Sifted(SubSeq(start'.queue, 1, i'), Gone(PhysMem'))
    BY <1>2, <1>12, <1>13
  <2> QED
    BY <1>14, <2>1, <2>2, Zenon DEF SortedBy, Fronted, IsFree, InUse
<1>16. Sorting'
  BY <1>1, <1>2, <1>4, <1>15 DEF Sorting, Dealt, Within
<1> QED
  BY <1>1, <1>2, <1>16 DEF LoopInv, LoopsAgree, LoopAsserts

LEMMA SameBefore ==
  ASSUME start' = start
  PROVE  /\ (Before!Evicts)' = Before!Evicts
         /\ (Before!get_ppage)' = Before!get_ppage
         /\ (Before!Passed)' = Before!Passed
         /\ (Before!GotMem)' = Before!GotMem
         /\ (Before!GotQueue)' = Before!GotQueue
         /\ (Before!GotFree)' = Before!GotFree
         /\ (Before!SortedQueue)' = Before!SortedQueue
         /\ (Before!SortedFree)' = Before!SortedFree
<1>1. (Before!Pending)' = Before!Pending
  BY Zenon DEF Before!Pending
<1>2. (Before!Hand)' = Before!Hand
  BY <1>1, Zenon DEF Before!Hand
<1>3. (Before!Victim)' = Before!Victim /\ (Before!Passed)' = Before!Passed
      /\ (Before!Evicts)' = Before!Evicts
  BY <1>1, <1>2, Zenon DEF Before!Victim, Before!Passed, Before!Evicts
<1>4. /\ (Before!get_ppage)' = Before!get_ppage /\ (Before!GotMem)' = Before!GotMem
      /\ (Before!GotQueue)' = Before!GotQueue /\ (Before!GotFree)' = Before!GotFree
  BY <1>2, <1>3, Zenon DEF Before!get_ppage, Before!GotMem, Before!GotQueue, Before!GotFree
<1>5. /\ (Before!SortedQueue)' = Before!SortedQueue
      /\ (Before!SortedFree)' = Before!SortedFree
  BY Zenon DEF Before!SortedQueue, Before!SortedFree, Before!InUse, Before!IsFree
<1> QED
  BY <1>3, <1>4, <1>5

LEMMA SortEndKeeps ==
  ASSUME LoopInv, SortEnd
  PROVE  LoopInv'
<1> DEFINE q    == start.queue
           kept == Sifted(q, Kept(PhysMem))
           gone == Sifted(q, Gone(PhysMem))
<1>1. Sorting /\ PhysMem \in [Ppage -> Entries] /\ revoked = {}
  BY DEF LoopInv, SortEnd
<1>2. /\ i = Len(q) /\ pc' = "sorted" /\ PhysMem' = PhysMem /\ MemQueue' = MemQueue
      /\ FreePhys' = FreePhys /\ revoked' = revoked /\ curr_top' = curr_top
      /\ start' = start
  BY DEF SortEnd, frames
<1>3. /\ q \in Seq(Frame) /\ IsInjective(q)
      /\ start.free \in Seq(Frame) /\ IsInjective(start.free)
      /\ Range(q) \cap Range(start.free) = {} /\ Range(q) \cup Range(start.free) = Frame
      /\ PhysMem = start.mem
  BY <1>1 DEF Sorting, Dealt
<1>4. \A S : Sifted(SubSeq(q, 1, Len(q)), S) = Sifted(q, S)
  <2> TAKE S
  <2> HIDE DEF q
  <2> QED
    BY <1>3, SiftedOn
<1>5. /\ kept \in Seq(Frame) /\ IsInjective(kept)
      /\ Range(kept) = Range(q) \cap Kept(PhysMem)
      /\ gone \in Seq(Frame) /\ IsInjective(gone)
      /\ Range(gone) = Range(q) \cap Gone(PhysMem)
  BY <1>3, SiftedKeeps
<1>6. /\ MemQueue = Ring(q, Len(q), kept) /\ FreePhys = start.free \o gone
      /\ Fronted(kept)
  BY <1>1, <1>2, <1>4, Zenon DEF Sorting, SortedBy
<1>7. MemQueue = kept
  <2> HIDE DEF q, kept
  <2>1. Ring(q, Len(q), kept) = kept
    BY <1>3, <1>5, AllLeft
  <2> QED
    BY <1>6, <2>1
<1>8. Dealt(MemQueue, FreePhys, {})
  <2> HIDE DEF kept, gone
  <2>1. Range(q) \cap Kept(PhysMem) \cap Gone(PhysMem) = {}
        /\ Range(q) \subseteq Kept(PhysMem) \cup Gone(PhysMem)
    BY <1>3 DEF Kept, Gone
  <2>2. Range(start.free) \cap Range(gone) = {}
    BY <1>3, <1>5
  <2>3. /\ FreePhys \in Seq(Frame) /\ IsInjective(FreePhys)
        /\ Range(FreePhys) = Range(start.free) \cup Range(gone)
    BY <1>3, <1>5, <1>6, <2>2, Joined
  <2>4. /\ Range(kept) \cap (Range(start.free) \cup Range(gone)) = {}
        /\ Range(kept) \cup (Range(start.free) \cup Range(gone)) = Frame \ {}
    BY <1>3, <1>5, <2>1
  <2> QED
    BY <1>5, <1>7, <2>3, <2>4 DEF Dealt
<1>9. Within(PhysMem, MemQueue, Used)
  <2> HIDE DEF kept, gone
  <2> QED
    BY <1>1, <1>5, <1>7 DEF Within, Sorting, Kept
<1>10. MemQueue = <<>> \/ curr_top = Head(MemQueue)
  <2> HIDE DEF kept
  <2> QED
    BY <1>6, <1>7 DEF Fronted
<1>11. MemQueue = Before!SortedQueue /\ FreePhys = Before!SortedFree
  <2>1. Kept(PhysMem) = {p \in Before!Frame : Before!InUse(p)}
        /\ Gone(PhysMem) = {p \in Before!Frame : Before!IsFree(p)}
    BY <1>3, SameOperators DEF Kept, Gone, Before!InUse, Before!IsFree
  <2>2. Before!SortedQueue = kept
    BY <2>1, SameOperators, Zenon DEF Before!SortedQueue
  <2>3. Before!SortedFree = start.free \o gone
    BY <2>1, SameOperators, Zenon DEF Before!SortedFree
  <2> QED
    BY <1>6, <1>7, <2>2, <2>3, Zenon
<1>12. LoopsAgree'
  BY <1>2, <1>11, SameBefore DEF LoopsAgree
<1>13. LoopAsserts'
  BY <1>2, <1>10 DEF LoopAsserts
<1> QED
  BY <1>1, <1>2, <1>8, <1>9, <1>12, <1>13 DEF LoopInv, Dealt, Within

LEMMA DestroyedKeeps ==
  ASSUME LoopInv, Destroyed
  PROVE  LoopInv'
<1>1. /\ PhysMem \in [Ppage -> Entries] /\ Dealt(MemQueue, FreePhys, {})
      /\ Within(PhysMem, MemQueue, Used)
  BY DEF LoopInv, Destroyed
<1>2. /\ PhysMem' = PhysMem /\ MemQueue' = MemQueue /\ FreePhys' = FreePhys
      /\ pc' = "idle" /\ revoked' = {} /\ i' = 0
  BY DEF Destroyed, Leave, frames
<1> QED
  BY <1>1, <1>2 DEF LoopInv, LoopsAgree, LoopAsserts, Dealt, Within

-----------------------------------------------------------------------------
(* get_ppage without a free frame.                                         *)

LEMMA HandFinds ==
  ASSUME start.queue \in Seq(Frame), NEW k \in 0..Len(start.queue),
         \A j \in 1..k : ~IsPending(start.mem[start.queue[j]]),
         k = Len(start.queue) \/ IsPending(start.mem[start.queue[k + 1]])
  PROVE  /\ Before!Hand = IF k = Len(start.queue) THEN 1 ELSE k + 1
         /\ Before!Passed = FirstOf(start.queue, k)
<1> DEFINE q == start.queue
           U == {j \in 1..Len(q) : IsPending(start.mem[q[j]])}
<1>1. Len(q) \in Nat
  BY LenProperties
<1>2. Before!Pending = U
  BY Zenon DEF Before!Pending, IsPending
<1>3. CASE k = Len(q)
  <2>1. U = {}
    BY <1>3
  <2>2. Before!Hand = 1
    BY <1>2, <2>1, Zenon DEF Before!Hand
  <2>3. Before!Passed = {q[j] : j \in 1..Len(q)}
    BY <1>2, <2>1, Zenon DEF Before!Passed
  <2> QED
    BY <1>3, <2>2, <2>3, Zenon DEF FirstOf
<1>4. CASE k # Len(q)
  <2>1. k \in Nat /\ k + 1 \in U /\ U \in SUBSET Nat /\ \A x \in U : k + 1 <= x
    BY <1>1, <1>4
  <2>2. U # {}
    BY <2>1
  <2> HIDE DEF U
  <2>3. Min(U) = k + 1
    BY <2>1, MinIs
  <2>4. Before!Hand = k + 1
    BY <1>2, <2>2, <2>3, SameOperators, Zenon DEF Before!Hand
  <2>5. (k + 1) - 1 = k
    BY <2>1
  <2>6. Before!Passed = {q[j] : j \in 1..((k + 1) - 1)}
    BY <1>2, <2>2, <2>4, Zenon DEF Before!Passed
  <2> QED
    BY <1>4, <2>4, <2>5, <2>6, Zenon DEF FirstOf
<1> QED
  BY <1>3, <1>4

\* What the hand looks at, and what its turn leaves.
LEMMA HandTurns ==
  ASSUME Turning, NEW k \in 0..Len(start.queue), PassedBy(k)
  PROVE  LET q == start.queue
             p == Head(MemQueue) IN
         /\ Dealt(MemQueue, <<>>, {}) /\ MemQueue # <<>> /\ p \in Frame
         /\ \A o \in Frame : PhysMem[o] \in Entries /\ PhysMem[o].state \in Used
         /\ k = Len(q) => /\ p = q[1] /\ IsPending(PhysMem[p])
                          /\ Tail(MemQueue) = Ring(q, 1, SubSeq(q, 1, 0))
         /\ k # Len(q) => /\ p = q[k + 1] /\ p \notin FirstOf(q, k)
                          /\ PhysMem[p] = start.mem[p]
                          /\ Turned(p) = Ring(q, k + 1, SubSeq(q, 1, k + 1))
                          /\ Tail(MemQueue) = Ring(q, k + 1, SubSeq(q, 1, k))
<1> DEFINE q == start.queue
           p == Head(MemQueue)
<1>1. /\ q \in Seq(Frame) /\ IsInjective(q) /\ Range(q) = Frame
      /\ start.mem \in [Ppage -> Entries] /\ \A o \in Frame : start.mem[o].state \in Used
  BY EmptyQueue DEF Turning, Dealt, Within
<1>2. /\ Len(q) \in Nat /\ DOMAIN q = 1..Len(q) /\ Len(q) >= 1
      /\ \A j \in 1..Len(q) : q[j] \in Frame
  <2>1. Len(q) \in Nat /\ DOMAIN q = 1..Len(q)
    BY <1>1, LenProperties
  <2>2. Len(q) # 0
    BY <1>1, EmptySeq, EmptyQueue, FrameIs
  <2> QED
    BY <1>1, <2>1, <2>2, ElementOfSeq
<1>3. /\ MemQueue = Ring(q, k, SubSeq(q, 1, k))
      /\ PhysMem = [o \in Ppage |-> IF o \in FirstOf(q, k) THEN Aged(start.mem[o])
                                    ELSE start.mem[o]]
      /\ \A j \in 1..k : ~IsPending(start.mem[q[j]])
  BY Zenon DEF PassedBy
<1> HIDE DEF q
<1>4. MemQueue \in Seq(Frame) /\ IsInjective(MemQueue) /\ Range(MemQueue) = Frame
  <2>1. LET r == Ring(q, k, SubSeq(q, 1, k)) IN
        r \in Seq(Frame) /\ IsInjective(r) /\ Range(r) = Range(q)
    BY <1>1, RoundPermutes DEF q
  <2> QED
    BY <1>1, <1>3, <2>1, Zenon
<1>5. Dealt(MemQueue, <<>>, {})
  BY <1>4, EmptyQueue DEF Dealt
<1>6. MemQueue # <<>> /\ p \in Frame
  <2>1. MemQueue # <<>>
    BY <1>4, EmptyQueue, FrameIs
  <2> QED
    BY <1>4, <2>1, TailWithoutHead
<1>7. \A o \in Frame : PhysMem[o] \in Entries /\ PhysMem[o].state \in Used
  <2> TAKE o \in Frame
  <2>1. start.mem[o] \in Entries /\ start.mem[o].state \in Used /\ o \in Ppage
    BY <1>1, FrameIs
  <2>2. PhysMem[o] = Aged(start.mem[o]) \/ PhysMem[o] = start.mem[o]
    BY <1>3, <2>1
  <2>3. Aged(start.mem[o]) \in Entries /\ Aged(start.mem[o]).state \in Used
    BY <2>1, AgedEntry
  <2> QED
    BY <2>1, <2>2, <2>3
<1>8. \A j \in 0..(Len(q) - 1) :
        /\ Head(Ring(q, j, SubSeq(q, 1, j))) = q[j + 1]
        /\ Tail(Ring(q, j, SubSeq(q, 1, j))) = Ring(q, j + 1, SubSeq(q, 1, j))
        /\ Append(Tail(Ring(q, j, SubSeq(q, 1, j))), q[j + 1])
             = Ring(q, j + 1, SubSeq(q, 1, j + 1))
        /\ q[j + 1] \notin FirstOf(q, j)
  BY <1>1, RoundTurns
<1>9. CASE k = Len(q)
  <2>1. SubSeq(q, 1, Len(q)) = q /\ Ring(q, Len(q), q) = q /\ Ring(q, 0, SubSeq(q, 1, 0)) = q
    <3>1. /\ SubSeq(q, 1, Len(q)) = q /\ SubSeq(q, 1, 0) = <<>> /\ Ring(q, 0, <<>>) = q
          /\ \A r \in Seq(Frame) : Ring(q, Len(q), r) = r
      BY <1>1, AllLeft
    <3> QED
      BY <1>1, <3>1, Zenon
  <2>2. MemQueue = Ring(q, 0, SubSeq(q, 1, 0))
    BY <1>3, <1>9, <2>1, Zenon
  <2>3. 0 \in 0..(Len(q) - 1) /\ 0 + 1 = 1 /\ 1 \in 1..k
    BY <1>2, <1>9
  <2>4. p = q[1] /\ Tail(MemQueue) = Ring(q, 1, SubSeq(q, 1, 0))
    BY <1>8, <2>2, <2>3, Zenon
  <2>5. p \in FirstOf(q, k) /\ ~IsPending(start.mem[p])
    BY <1>3, <2>3, <2>4 DEF FirstOf
  <2>6. PhysMem[p] = Aged(start.mem[p]) /\ start.mem[p] \in Entries
        /\ start.mem[p].state \in Used
    BY <1>1, <1>3, <1>6, <2>5, FrameIs
  <2>7. IsPending(PhysMem[p])
    BY <2>5, <2>6, AgedEntry
  <2> QED
    BY <1>5, <1>6, <1>7, <1>9, <2>4, <2>7, Zenon DEF q
<1>10. CASE k # Len(q)
  <2>1. k \in 0..(Len(q) - 1)
    BY <1>2, <1>10 DEF q
  <2>2. /\ p = q[k + 1] /\ p \notin FirstOf(q, k)
        /\ Tail(MemQueue) = Ring(q, k + 1, SubSeq(q, 1, k))
        /\ Turned(p) = Ring(q, k + 1, SubSeq(q, 1, k + 1))
    BY <1>3, <1>8, <2>1, Zenon DEF Turned
  <2>3. PhysMem[p] = start.mem[p]
    BY <1>3, <1>6, <2>2, FrameIs
  <2> QED
    BY <1>5, <1>6, <1>7, <1>10, <2>2, <2>3, Zenon DEF q
<1> QED
  BY <1>9, <1>10, Zenon

LEMMA HandPassKeeps ==
  ASSUME LoopInv, HandPass
  PROVE  LoopInv'
<1> DEFINE q == start.queue
           p == Head(MemQueue)
<1>1. Turning /\ PhysMem \in [Ppage -> Entries] /\ i = 0
  BY DEF LoopInv, HandPass
<1>2. PICK k \in 0..Len(q) : PassedBy(k)
  BY <1>1 DEF Turning
<1>3. /\ pc' = "hand" /\ ~IsPending(PhysMem[p]) /\ MemQueue' = Turned(p)
      /\ PhysMem' = [PhysMem EXCEPT ![p] = Aged(PhysMem[p])]
      /\ revoked' = revoked \cup {p} /\ FreePhys' = FreePhys /\ i' = i /\ start' = start
  BY DEF HandPass, IsPending
<1>4. /\ k # Len(q) /\ p = q[k + 1] /\ p \notin FirstOf(q, k) /\ p \in Frame
      /\ PhysMem[p] = start.mem[p]
      /\ Turned(p) = Ring(q, k + 1, SubSeq(q, 1, k + 1))
      /\ \A o \in Frame : PhysMem[o] \in Entries /\ PhysMem[o].state \in Used
  BY <1>1, <1>2, <1>3, HandTurns, Zenon
<1>5. /\ \A j \in 1..k : ~IsPending(start.mem[q[j]])
      /\ PhysMem = [o \in Ppage |-> IF o \in FirstOf(q, k) THEN Aged(start.mem[o])
                                    ELSE start.mem[o]]
      /\ revoked = FirstOf(q, k)
  BY <1>2, Zenon DEF PassedBy
<1>6. Len(q) \in Nat /\ k + 1 \in 0..Len(q) /\ k \in Nat
  <2>1. q \in Seq(Frame)
    BY <1>1 DEF Turning, Dealt
  <2> QED
    BY <1>4, <2>1, LenProperties
<1>7. FirstOf(q, k + 1) = FirstOf(q, k) \cup {p}
  BY <1>4, <1>6, FirstOfMore
<1> HIDE DEF p, q
<1>8. PhysMem' = [o \in Ppage |-> IF o \in FirstOf(q, k + 1) THEN Aged(start.mem[o])
                                  ELSE start.mem[o]]
  BY <1>1, <1>3, <1>4, <1>5, <1>7, FrameIs
<1>9. \A j \in 1..(k + 1) : ~IsPending(start.mem[q[j]])
  BY <1>3, <1>4, <1>5, <1>6
<1>10. PassedBy(k + 1)'
  <2>1. revoked' = FirstOf(q, k + 1)
    BY <1>3, <1>5, <1>7
  <2>2. MemQueue' = Ring(q, k + 1, SubSeq(q, 1, k + 1))
    BY <1>3, <1>4
  <2> QED
    BY <1>3, <1>8, <1>9, <2>1, <2>2, Zenon DEF PassedBy, q
<1>11. Turning'
  BY <1>1, <1>3, <1>6, <1>10, Zenon DEF Turning, q, Dealt, Within
<1>12. PhysMem' \in [Ppage -> Entries]
  <2>1. Aged(PhysMem[p]) \in Entries
    BY <1>4, AgedEntry
  <2> QED
    BY <1>1, <1>3, <2>1
<1>13. LoopAsserts'
  <2>1. /\ (MemQueue # <<>>)' /\ (Head(MemQueue) \in Frame)'
        /\ \A o \in Frame : PhysMem'[o].state \in Used
    <3>1. k + 1 \in 0..Len(start'.queue)
      BY <1>3, <1>6 DEF q
    <3>2. MemQueue' = Ring(q, k + 1, SubSeq(q, 1, k + 1))
      BY <1>3, <1>4
    <3>3. q \in Seq(Frame) /\ IsInjective(q) /\ Range(q) = Frame
      BY <1>1, EmptyQueue DEF Turning, Dealt, q
    <3>4. MemQueue' \in Seq(Frame) /\ IsInjective(MemQueue') /\ Range(MemQueue') = Frame
      <4>1. LET r == Ring(q, k + 1, SubSeq(q, 1, k + 1)) IN
            r \in Seq(Frame) /\ IsInjective(r) /\ Range(r) = Range(q)
        BY <1>6, <3>3, RoundPermutes
      <4> QED
        BY <3>2, <3>3, <4>1, Zenon
    <3>5. MemQueue' # <<>>
      BY <3>4, EmptyQueue, FrameIs
    <3>6. Head(MemQueue') \in Frame
      BY <3>4, <3>5, TailWithoutHead
    <3>7. Aged(PhysMem[p]).state \in Used
      BY <1>4, AgedEntry
    <3>8. \A o \in Frame : PhysMem'[o].state \in Used
      BY <1>1, <1>3, <1>4, <3>7, FrameIs
    <3> QED
      BY <3>5, <3>6, <3>8
  <2>2. InUse(Head(MemQueue))'
    BY <2>1, FreeIs DEF InUse, IsFree
  <2> QED
    BY <1>3, <2>1, <2>2 DEF LoopAsserts
<1> QED
  BY <1>1, <1>3, <1>11, <1>12, <1>13 DEF LoopInv, LoopsAgree

LEMMA HandTakeKeeps ==
  ASSUME LoopInv, HandTake
  PROVE  LoopInv'
<1> DEFINE q == start.queue
           p == Head(MemQueue)
<1>1. Turning /\ PhysMem \in [Ppage -> Entries] /\ i = 0
  BY DEF LoopInv, HandTake
<1>2. PICK k \in 0..Len(q) : PassedBy(k)
  BY <1>1 DEF Turning
<1>3. /\ pc' = "got" /\ IsPending(PhysMem[p]) /\ pmem' = p /\ MemQueue' = Tail(MemQueue)
      /\ PhysMem' = [PhysMem EXCEPT ![p] = FreeEntry] /\ FreePhys' = FreePhys
      /\ revoked' = revoked /\ i' = i /\ start' = start
  BY DEF HandTake, IsPending
<1> DEFINE hand == IF k = Len(q) THEN 1 ELSE k + 1
<1>4. /\ Dealt(MemQueue, <<>>, {}) /\ MemQueue # <<>> /\ p \in Frame
      /\ \A o \in Frame : PhysMem[o] \in Entries /\ PhysMem[o].state \in Used
      /\ k = Len(q) => p = q[1] /\ Tail(MemQueue) = Ring(q, 1, SubSeq(q, 1, 0))
      /\ k # Len(q) => /\ p = q[k + 1] /\ PhysMem[p] = start.mem[p]
                       /\ Tail(MemQueue) = Ring(q, k + 1, SubSeq(q, 1, k))
  BY <1>1, <1>2, HandTurns, Zenon
<1>5. /\ \A j \in 1..k : ~IsPending(start.mem[q[j]])
      /\ PhysMem = [o \in Ppage |-> IF o \in FirstOf(q, k) THEN Aged(start.mem[o])
                                    ELSE start.mem[o]]
      /\ revoked = FirstOf(q, k)
  BY <1>2, Zenon DEF PassedBy
<1>6. /\ q \in Seq(Frame) /\ Len(q) \in Nat /\ k \in Nat /\ FreePhys = <<>>
      /\ start.free = <<>>
  <2>1. q \in Seq(Frame) /\ FreePhys = <<>> /\ start.free = <<>>
    BY <1>1 DEF Turning, Dealt
  <2> QED
    BY <2>1, LenProperties
<1>7. Before!Hand = hand /\ Before!Passed = FirstOf(q, k)
  <2>1. k = Len(q) \/ IsPending(start.mem[q[k + 1]])
    BY <1>3, <1>4, Zenon
  <2> QED
    BY <1>5, <1>6, <2>1, HandFinds, Zenon
<1>8. p = q[hand] /\ Tail(MemQueue) = Ring(q, hand, SubSeq(q, 1, hand - 1))
  <2>1. 1 - 1 = 0 /\ (k + 1) - 1 = k
    BY <1>6
  <2>2. CASE k = Len(q)
    BY <1>4, <2>1, <2>2, Zenon
  <2>3. CASE k # Len(q)
    BY <1>4, <2>1, <2>3, Zenon
  <2> QED
    BY <2>2, <2>3
<1> HIDE DEF hand
<1>9. Before!Evicts /\ Before!Victim = p /\ Before!get_ppage = p
  <2>1. Before!Evicts
    BY <1>6, Zenon DEF Before!Evicts
  <2>2. Before!Victim = p
    BY <1>7, <1>8, Zenon DEF Before!Victim
  <2> QED
    BY <2>1, <2>2, Zenon DEF Before!get_ppage
<1>10. Before!GotQueue = MemQueue'
  BY <1>3, <1>7, <1>8, <1>9, Zenon DEF Before!GotQueue, Ring
<1>11. Before!GotFree = FreePhys'
  BY <1>3, <1>6, <1>9, Zenon DEF Before!GotFree
<1>12. Before!GotMem = PhysMem'
  <2>1. Before!GotMem = [o \in Ppage |-> IF o = p THEN FreeEntry
                                         ELSE IF o \in FirstOf(q, k) THEN Aged(start.mem[o])
                                         ELSE start.mem[o]]
    BY <1>7, <1>9, SameOperators, Zenon DEF Before!GotMem
  <2> HIDE DEF p, q
  <2>2. PhysMem' = [o \in Ppage |-> IF o = p THEN FreeEntry
                                    ELSE IF o \in FirstOf(q, k) THEN Aged(start.mem[o])
                                    ELSE start.mem[o]]
    BY <1>1, <1>3, <1>5
  <2> QED
    BY <2>1, <2>2
<1>13. LoopsAgree'
  BY <1>3, <1>5, <1>7, <1>9, <1>10, <1>11, <1>12, SameBefore, Zenon DEF LoopsAgree
<1> HIDE DEF p, q
<1>14. Dealt(MemQueue, FreePhys, {pmem})' /\ Range(MemQueue') \subseteq Frame \ {p}
  <2>1. /\ MemQueue' \in Seq(Frame) /\ IsInjective(MemQueue')
        /\ Range(MemQueue') = Range(MemQueue) \ {p}
    BY <1>3, <1>4, TailWithoutHead DEF Dealt, p
  <2>2. Range(MemQueue) = Frame
    BY <1>4, EmptyQueue DEF Dealt
  <2> QED
    BY <1>3, <1>4, <1>6, <2>1, <2>2, EmptyQueue DEF Dealt
<1>15. PhysMem' \in [Ppage -> Entries] /\ Within(PhysMem, MemQueue, Used)'
  BY <1>1, <1>3, <1>4, <1>14, FreeIs, FrameIs DEF Within
<1> QED
  BY <1>1, <1>3, <1>4, <1>13, <1>14, <1>15 DEF LoopInv, LoopAsserts

-----------------------------------------------------------------------------

LEMMA StutterKeeps ==
  ASSUME LoopInv, UNCHANGED vars
  PROVE  LoopInv'
<1>1. /\ PhysMem' = PhysMem /\ MemQueue' = MemQueue /\ FreePhys' = FreePhys /\ pc' = pc
      /\ pmem' = pmem /\ revoked' = revoked /\ curr_top' = curr_top /\ i' = i
      /\ start' = start
  BY DEF vars, frames
<1>2. LoopsAgree'
  <2>1. LoopsAgree
    BY DEF LoopInv
  <2>2. start' = start
    BY <1>1
  <2> QED
    BY <1>1, <2>1, <2>2, SameBefore DEF LoopsAgree
<1>3. LoopAsserts'
  BY <1>1, Zenon DEF LoopInv, LoopAsserts, InUse, IsFree
<1>4. Turning' <=> Turning
  BY <1>1, Zenon DEF Turning, PassedBy, Dealt, Within
<1>5. Sorting' <=> Sorting
  BY <1>1, Zenon DEF Sorting, SortedBy, Fronted, IsFree, InUse, Dealt, Within
<1> QED
  BY <1>1, <1>2, <1>3, <1>4, <1>5, Zenon DEF LoopInv, Dealt, Within

LEMMA LoopNext == LoopInv /\ [Next]_vars => LoopInv'
<1> SUFFICES ASSUME LoopInv, [Next]_vars PROVE LoopInv'
  OBVIOUS
<1>1. CASE \/ \E p \in Frame, w \in BOOLEAN : Access(p, w)
           \/ \E p \in Frame : Revive(p)
  BY <1>1, BetweenCalls
<1>2. CASE TakeFree
  BY <1>2, TakeFreeKeeps
<1>3. CASE Enter
  BY <1>3, EnterKeeps
<1>4. CASE HandTake
  BY <1>4, HandTakeKeeps
<1>5. CASE HandPass
  BY <1>5, HandPassKeeps
<1>6. CASE SortStep
  BY <1>6, SortStepKeeps
<1>7. CASE SortEnd
  BY <1>7, SortEndKeeps
<1>8. CASE \E w \in BOOLEAN : Return(w)
  BY <1>8, ReturnKeeps
<1>9. CASE ReadFails
  BY <1>9, ReadFailsKeeps
<1>10. CASE \E Swap, Block \in SUBSET Mapped : Exit(Swap, Block)
  BY <1>10, ExitKeeps
<1>11. CASE Destroyed
  BY <1>11, DestroyedKeeps
<1>12. CASE UNCHANGED vars
  BY <1>12, StutterKeeps
<1> QED
  BY <1>1, <1>2, <1>3, <1>4, <1>5, <1>6, <1>7, <1>8, <1>9, <1>10, <1>11, <1>12
  DEF Next, Loop

\* The invariant holds in every state the pager's loops reach.
THEOREM LoopInvariance == Spec => []LoopInv
<1>1. Init => LoopInv
  BY StartHolds
<1> QED
  BY <1>1, LoopNext, PTL DEF Spec

\* For any number of frames, any order of the queue and any states in it, the
\* loops of get_ppage and vm_destroy end with what the closed forms say.
THEOREM LoopsAgreeCorrect == Spec => []LoopsAgree
<1>1. LoopInv => LoopsAgree
  BY DEF LoopInv
<1> QED
  BY <1>1, LoopInvariance, PTL

\* get_ppage's hand always has a frame in front that is in use, and vm_destroy
\* ends with the first frame in use in front, as both assert.
THEOREM LoopAssertsCorrect == Spec => []LoopAsserts
<1>1. LoopInv => LoopAsserts
  BY DEF LoopInv
<1> QED
  BY <1>1, LoopInvariance, PTL

=============================================================================
