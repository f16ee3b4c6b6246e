----------------------------- MODULE OopProofs -----------------------------
(***************************************************************************)
(* Proofs about the second pager, PagerOop, for every number of processes, *)
(* pages, frames, blocks and files.                                        *)
(***************************************************************************)
EXTENDS PagerOop, QueueLemmas, FiniteSetTheorems

-----------------------------------------------------------------------------
(* The inductive invariant.  Its parts on the tables are stated of given   *)
(* maps, because get_ppage leaves a frame that nobody has yet and its      *)
(* caller fills it in the same step.                                       *)

Used == {"REFERENCED", "PEND"} \cup GhostStates

ZeroEntry == [ppage |-> 0, read_enable |-> TRUE, write_enable |-> FALSE]

Referenced(record) == record.state \in {"REFERENCED", "GHOST_REF"}

\* The entry of a page, or a ghost, in frame p.
EntryOf(p, record) ==
  [ppage |-> p, read_enable |-> Referenced(record),
   write_enable |-> Referenced(record) /\ record.dirty]

\* What a page reads.
Reads(pt, ph, dk, bt, e) ==
  IF pt[e].ppage = Absent THEN dk[bt[e]] ELSE ph[pt[e].ppage]

\* A frame that holds nothing has an empty record.
Recorded(mem) ==
  /\ mem[0] = PinnedEntry
  /\ \A p \in Frame : mem[p] = FreeEntry \/ (mem[p].state \in Used /\ mem[p].loc \in Backing)

Holds(mem, p) == mem[p].state # "FREE"

\* The entries of a frame say what its record says,
Bits(mem, pt, mb) ==
  \A p \in Frame : Holds(mem, p) =>
    /\ mb[mem[p].loc] # {}
    /\ \A e \in mb[mem[p].loc] : pt[e] = EntryOf(p, mem[p])

\* and the others are on disk or, in the swap file, the zero page.
Placed(mem, pt, mb) ==
  \A b \in Backing : \A e \in mb[b] :
    \/ \E p \in Frame : Holds(mem, p) /\ mem[p].loc = b
    \/ pt[e] = NullEntry
    \/ b \in SwapBlock /\ pt[e] = ZeroEntry

\* The entries of a backing are its pages, of which a swap block has one, or the
\* ghost they left.
Users(b, L, bt) == {e \in L : bt[e] = b}

GhostOf(mem, mb, b) ==
  \E p \in Frame : mb[b] = {Ghost(p)} /\ mem[p].state \in GhostStates /\ mem[p].loc = b

Listed(mem, mb, bt, L) ==
  \A b \in Backing :
    \/ mb[b] = Users(b, L, bt) /\ (b \in SwapBlock => \A e, o \in mb[b] : e = o)
    \/ Users(b, L, bt) = {} /\ b \in FileBlock /\ GhostOf(mem, mb, b)

GhostsListed(mem, mb) ==
  \A p \in Frame : mem[p].state \in GhostStates =>
    mem[p].loc \in FileBlock /\ mb[mem[p].loc] = {Ghost(p)}

Backed(bt, L) == \A e \in L : bt[e] \in Backing

Agree(mem, pt, mb, bt, L) ==
  /\ Recorded(mem) /\ Bits(mem, pt, mb) /\ Placed(mem, pt, mb)
  /\ Listed(mem, mb, bt, L) /\ GhostsListed(mem, mb) /\ Backed(bt, L)

\* What the disk holds of a frame, and what was read before it was filled.
Saved(mem, ph, dk, acc) ==
  \A p \in Frame : Holds(mem, p) =>
    /\ mem[p].loc \in SwapBlock \cup acc
    /\ ~mem[p].dirty => ph[p] = dk[mem[p].loc]

\* The queues hold each frame that is not in X once, and those in use are in q.
Dealt(q, f, X) ==
  /\ q \in Seq(Frame) /\ IsInjective(q)
  /\ f \in Seq(Frame) /\ IsInjective(f)
  /\ Range(q) \cap Range(f) = {}
  /\ Range(q) \cup Range(f) = Frame \ X

Queued(mem, q, f) ==
  /\ \A p \in Range(f) : mem[p] = FreeEntry
  /\ call.op # "exit" => \A p \in Range(q) : Holds(mem, p)

\* A name is read and an exit runs within the arena.
CallOK ==
  /\ call.op = "string" => next[running_pid] # NPages
  /\ call.op = "exit" => call.vp <= next[running_pid]

\* The MMU lets no access through past the end of an arena.
InArena(e) == e[1] \in DOMAIN next /\ e[2] < next[e[1]]
Unmapped   == \A e \in Pte : ~InArena(e) => pte[e] = NullEntry

OInv ==
  /\ TypeOK /\ CallOK /\ Unmapped
  /\ Agree(PhysMem, pte, MappedBlocks, bte, Live)
  /\ Saved(PhysMem, phys, disk, accessed)
  /\ Dealt(MemQueue, FreePhys, {}) /\ Queued(PhysMem, MemQueue, FreePhys)
  /\ FirstFreeLeast
-----------------------------------------------------------------------------
(* Frames, backings and entries.                                           *)

LEMMA FrameIs ==
  /\ PCnt \in Nat /\ PCnt - 1 >= 1 /\ Frame = 1..(PCnt - 1)
  /\ Frame \subseteq Ppage /\ 1 \in Frame /\ 0 \notin Frame /\ 0 \in Ppage
  /\ Absent \notin Frame /\ Absent # 0 /\ Ppage \cup {Absent} = 0..PCnt
BY PCntAssumption DEF Frame, Ppage, Absent

LEMMA BackingIs ==
  /\ SwapBlock \cap FileBlock = {}
  /\ \A b \in Backing : b \in SwapBlock <=> b[1] = SWAP
  /\ NoLoc \notin Backing
  /\ \A k : <<SWAP, k>> \in Backing => k \in Block
BY OopAssumption DEF Backing, SwapBlock, FileBlock, NoLoc

LEMMA PteIs ==
  /\ Pte \subseteq Ptes
  /\ \A p \in Frame : Ghost(p) \in Ptes /\ Ghost(p) \notin Pte
  /\ \A p, o \in Frame : Ghost(p) = Ghost(o) => p = o
BY OopAssumption DEF Pte, Ptes, Ghost

LEMMA StatesAre ==
  /\ FreeEntry \in PhysEntry /\ PinnedEntry \in PhysEntry
  /\ FreeEntry.state = "FREE" /\ PinnedEntry.state = "PINNED"
  /\ FreeEntry.dirty = FALSE /\ FreeEntry.loc = NoLoc
  /\ "FREE" \notin Used /\ "PINNED" \notin Used /\ Used \subseteq MemStates
  /\ GhostStates \subseteq Used /\ "FREE" \notin GhostStates
  /\ "REFERENCED" \notin GhostStates /\ "PEND" \notin GhostStates
BY DEF FreeEntry, PinnedEntry, PhysEntry, MemStates, Used, GhostStates

LEMMA EntriesAre ==
  /\ NullEntry \in Entry /\ NullEntry.ppage = Absent /\ NullEntry.read_enable = FALSE
  /\ NullEntry.write_enable = FALSE
  /\ ZeroEntry \in Entry /\ ZeroEntry.ppage = 0 /\ ZeroEntry.read_enable = TRUE
  /\ ZeroEntry.write_enable = FALSE
  /\ \A e \in Entry : Unreadable(e) \in Entry
  /\ \A p \in Frame, r \in PhysEntry :
       /\ EntryOf(p, r) \in Entry /\ EntryOf(p, r).ppage = p
       /\ EntryOf(p, r).read_enable = Referenced(r)
       /\ EntryOf(p, r).write_enable = (Referenced(r) /\ r.dirty)
<1>1. 0 \in 0..PCnt /\ Absent \in 0..PCnt /\ \A p \in Frame : p \in 0..PCnt
  BY FrameIs
<1>2. NullEntry \in Entry /\ ZeroEntry \in Entry
  BY <1>1 DEF NullEntry, ZeroEntry, Entry
<1>3. \A e \in Entry : Unreadable(e) \in Entry
  BY DEF Unreadable, Entry
<1>4. ASSUME NEW p \in Frame, NEW r \in PhysEntry
      PROVE  EntryOf(p, r) \in Entry
  <2>1. Referenced(r) \in BOOLEAN /\ (Referenced(r) /\ r.dirty) \in BOOLEAN
    BY DEF Referenced
  <2> QED
    BY <1>1, <2>1 DEF EntryOf, Entry
<1>5. \A p \in Frame, r \in PhysEntry :
        /\ EntryOf(p, r).ppage = p
        /\ EntryOf(p, r).read_enable = Referenced(r)
        /\ EntryOf(p, r).write_enable = (Referenced(r) /\ r.dirty)
  BY Zenon DEF EntryOf
<1> QED
  BY <1>2, <1>3, <1>4, <1>5 DEF NullEntry, ZeroEntry

LEMMA SameEntry ==
  ASSUME NEW d \in Entry, NEW e \in Entry, d.ppage = e.ppage,
         d.read_enable = e.read_enable, d.write_enable = e.write_enable
  PROVE  d = e
BY DEF Entry

LEMMA UnreadableIs ==
  ASSUME NEW e \in Entry
  PROVE  /\ Unreadable(e) \in Entry /\ Unreadable(e).ppage = e.ppage
         /\ Unreadable(e).read_enable = FALSE /\ Unreadable(e).write_enable = FALSE
BY DEF Unreadable, Entry

\* Aging makes the entries of a frame unreadable.
LEMMA AgedRecord ==
  ASSUME NEW r \in PhysEntry, r.state \in Used
  PROVE  /\ Aged(r) \in PhysEntry
         /\ Aged(r).state \in Used /\ Aged(r).loc = r.loc /\ Aged(r).dirty = r.dirty
         /\ Aged(r).state \in GhostStates <=> r.state \in GhostStates
         /\ \A p \in Frame : EntryOf(p, Aged(r)) = Unreadable(EntryOf(p, r))
<1>1. /\ Aged(r) \in PhysEntry /\ Aged(r).state \in {"PEND", "GHOST_PEND"}
      /\ Aged(r).loc = r.loc /\ Aged(r).dirty = r.dirty
      /\ Aged(r).state \in GhostStates <=> r.state \in GhostStates
  BY DEF Aged, PhysEntry, MemStates, Used, GhostStates
<1>2. ASSUME NEW p \in Frame PROVE EntryOf(p, Aged(r)) = Unreadable(EntryOf(p, r))
  <2> DEFINE x == EntryOf(p, Aged(r))
             y == Unreadable(EntryOf(p, r))
  <2>1. /\ x \in Entry /\ x.ppage = p /\ x.read_enable = Referenced(Aged(r))
        /\ x.write_enable = (Referenced(Aged(r)) /\ Aged(r).dirty)
        /\ EntryOf(p, r) \in Entry /\ EntryOf(p, r).ppage = p
    BY <1>1, EntriesAre
  <2>2. Referenced(Aged(r)) = FALSE
    BY <1>1 DEF Referenced
  <2>3. (FALSE /\ Aged(r).dirty) = FALSE
    OBVIOUS
  <2>4. x.read_enable = FALSE /\ x.write_enable = FALSE
    BY <2>1, <2>2, <2>3, Zenon
  <2>5. /\ y \in Entry /\ y.ppage = p /\ y.read_enable = FALSE
        /\ y.write_enable = FALSE
    BY <2>1, UnreadableIs
  <2> HIDE DEF x, y
  <2>6. x = y
    BY <2>1, <2>4, <2>5, SameEntry
  <2> QED
    BY <2>6 DEF x, y
<1>3. Aged(r).state \in Used
  BY <1>1 DEF Used, GhostStates
<1> QED
  BY <1>1, <1>2, <1>3

LEMMA CallsAre ==
  ASSUME NEW v \in 0..NPages, NEW w \in BOOLEAN, NEW b \in FBlock
  PROVE  /\ Run \in Call /\ Run.op = "run"
         /\ None \in Call /\ None.op = "none"
         /\ Retry(v, w) \in Call /\ Retry(v, w).op = "retry"
         /\ Str(v, b) \in Call /\ Str(v, b).op = "string"
         /\ Exit(v) \in Call /\ Exit(v).op = "exit" /\ Exit(v).vp = v
<1>1. (CHOOSE c \in FBlock : TRUE) \in FBlock
  BY OopAssumption
<1>2. Run \in Call /\ Run.op = "run"
  BY <1>1, OopAssumption DEF Run, Call
<1>3. \A o \in {"none", "run", "retry", "string", "exit"}, c \in FBlock :
        LET new == [Run EXCEPT !.op = o, !.vp = v, !.write = w, !.block = c] IN
        new \in Call /\ new.op = o /\ new.vp = v
  BY <1>1, OopAssumption DEF Run, Call
<1> QED
  BY <1>1, <1>2, OopAssumption DEF Run, None, Retry, Str, Exit, Call

-----------------------------------------------------------------------------
(* What the invariant says of a frame, a backing and a page.               *)

Typed(mem, pt, mb, bt, L) ==
  /\ mem \in [Ppage -> PhysEntry] /\ pt \in [Ptes -> Entry]
  /\ mb \in [Backing -> SUBSET Ptes] /\ bt \in [Pte -> Backing \cup {NoLoc}]
  /\ L \subseteq Pte

Sound(mem, pt, mb, bt, L) == Typed(mem, pt, mb, bt, L) /\ Agree(mem, pt, mb, bt, L)

LEMMA HeldRecord ==
  ASSUME NEW mem, mem \in [Ppage -> PhysEntry], Recorded(mem), NEW p \in Frame
  PROVE  /\ mem[p] \in PhysEntry
         /\ Holds(mem, p) => mem[p].state \in Used /\ mem[p].loc \in Backing
         /\ ~Holds(mem, p) => mem[p] = FreeEntry
BY FrameIs, StatesAre DEF Recorded, Holds

LEMMA EntryAt ==
  ASSUME NEW mem, NEW pt, NEW mb, NEW bt, NEW L, Sound(mem, pt, mb, bt, L),
         NEW p \in Frame, Holds(mem, p), NEW e \in mb[mem[p].loc]
  PROVE  /\ e \in Ptes /\ pt[e] = EntryOf(p, mem[p]) /\ pt[e].ppage = p
         /\ pt[e].read_enable = Referenced(mem[p])
         /\ pt[e].write_enable = (Referenced(mem[p]) /\ mem[p].dirty)
<1>1. mem \in [Ppage -> PhysEntry] /\ mb \in [Backing -> SUBSET Ptes] /\ Recorded(mem)
  BY DEF Sound, Typed, Agree
<1>2. mem[p] \in PhysEntry /\ mem[p].loc \in Backing
  BY <1>1, HeldRecord
<1>3. pt[e] = EntryOf(p, mem[p])
  BY DEF Sound, Agree, Bits
<1> QED
  BY <1>1, <1>2, <1>3, EntriesAre

LEMMA OneFrame ==
  ASSUME NEW mem, NEW pt, NEW mb, NEW bt, NEW L, Sound(mem, pt, mb, bt, L),
         NEW p \in Frame, Holds(mem, p), NEW o \in Frame, Holds(mem, o),
         mem[p].loc = mem[o].loc
  PROVE  p = o
<1>1. PICK e : e \in mb[mem[p].loc]
  BY DEF Sound, Agree, Bits
<1>2. pt[e].ppage = p
  BY <1>1, EntryAt
<1>3. e \in mb[mem[o].loc]
  BY <1>1
<1>4. pt[e].ppage = o
  BY <1>3, EntryAt
<1> QED
  BY <1>2, <1>4

\* An entry belongs to one backing.
LEMMA OneBackingOf ==
  ASSUME NEW mem, NEW pt, NEW mb, NEW bt, NEW L, Sound(mem, pt, mb, bt, L),
         NEW b \in Backing, NEW c \in Backing, NEW e, e \in mb[b], e \in mb[c]
  PROVE  b = c
<1>1. /\ L \subseteq Pte
      /\ \A x \in Backing : mb[x] = Users(x, L, bt) \/ GhostOf(mem, mb, x)
  BY DEF Sound, Typed, Agree, Listed
<1>2. \A x \in Backing : e \in mb[x] =>
        \/ e \in Pte /\ bt[e] = x
        \/ \E p \in Frame : e = Ghost(p) /\ mem[p].loc = x
  BY <1>1 DEF Users, GhostOf
<1>3. \A p \in Frame : Ghost(p) \notin Pte
  BY PteIs
<1>4. \A p, o \in Frame : Ghost(p) = Ghost(o) => p = o
  BY PteIs
<1>5. \/ e \in Pte /\ bt[e] = b
      \/ \E p \in Frame : e = Ghost(p) /\ mem[p].loc = b
  BY <1>2
<1>6. \/ e \in Pte /\ bt[e] = c
      \/ \E p \in Frame : e = Ghost(p) /\ mem[p].loc = c
  BY <1>2
<1>7. CASE e \in Pte
  BY <1>3, <1>5, <1>6, <1>7
<1>8. CASE e \notin Pte
  <2>1. PICK p \in Frame : e = Ghost(p) /\ mem[p].loc = b
    BY <1>5, <1>8
  <2>2. PICK o \in Frame : e = Ghost(o) /\ mem[o].loc = c
    BY <1>6, <1>8
  <2>3. p = o
    BY <1>4, <2>1, <2>2
  <2> QED
    BY <2>1, <2>2, <2>3, Zenon
<1> QED
  BY <1>7, <1>8

\* The frame an entry names holds its backing; an entry that names none is that of
\* a page on disk, or of the zero page, and no frame holds its backing.
LEMMA PlaceOf ==
  ASSUME NEW mem, NEW pt, NEW mb, NEW bt, NEW L, Sound(mem, pt, mb, bt, L),
         NEW b \in Backing, NEW e \in mb[b]
  PROVE  \/ /\ pt[e].ppage \in Frame /\ Holds(mem, pt[e].ppage)
            /\ mem[pt[e].ppage].loc = b
            /\ pt[e] = EntryOf(pt[e].ppage, mem[pt[e].ppage])
         \/ /\ pt[e] = NullEntry \/ (b \in SwapBlock /\ pt[e] = ZeroEntry)
            /\ \A p \in Frame : Holds(mem, p) => mem[p].loc # b
<1>1. ASSUME NEW p \in Frame, Holds(mem, p), mem[p].loc = b
      PROVE  /\ pt[e].ppage = p /\ pt[e] = EntryOf(p, mem[p])
  BY <1>1, EntryAt
<1>2. CASE \E p \in Frame : Holds(mem, p) /\ mem[p].loc = b
  <2>1. PICK p \in Frame : Holds(mem, p) /\ mem[p].loc = b
    BY <1>2
  <2>2. pt[e].ppage = p /\ pt[e] = EntryOf(p, mem[p])
    BY <1>1, <2>1
  <2> QED
    BY <2>1, <2>2, Zenon
<1>3. CASE ~\E p \in Frame : Holds(mem, p) /\ mem[p].loc = b
  <2>1. pt[e] = NullEntry \/ (b \in SwapBlock /\ pt[e] = ZeroEntry)
    BY <1>3 DEF Sound, Agree, Placed
  <2> QED
    BY <1>3, <2>1, Zenon
<1> QED
  BY <1>2, <1>3

\* The entries of a page's backing are pages, it among them.
LEMMA LivePage ==
  ASSUME NEW mem, NEW pt, NEW mb, NEW bt, NEW L, Sound(mem, pt, mb, bt, L), NEW e \in L
  PROVE  /\ e \in Pte /\ bt[e] \in Backing /\ e \in mb[bt[e]]
         /\ mb[bt[e]] = Users(bt[e], L, bt)
         /\ bt[e] \in SwapBlock => mb[bt[e]] = {e}
<1>1. e \in Pte /\ bt[e] \in Backing
  BY DEF Sound, Typed, Agree, Backed
<1>2. e \in Users(bt[e], L, bt)
  BY DEF Users
<1>3. mb[bt[e]] = Users(bt[e], L, bt)
      /\ (bt[e] \in SwapBlock => \A x, o \in mb[bt[e]] : x = o)
  BY <1>1, <1>2 DEF Sound, Agree, Listed
<1> QED
  BY <1>1, <1>2, <1>3

\* The frame of a page is not a ghost.
LEMMA LiveFrame ==
  ASSUME NEW mem, NEW pt, NEW mb, NEW bt, NEW L, Sound(mem, pt, mb, bt, L),
         NEW e \in L, pt[e].ppage \in Frame
  PROVE  /\ Holds(mem, pt[e].ppage) /\ mem[pt[e].ppage].loc = bt[e]
         /\ mem[pt[e].ppage].state \in {"REFERENCED", "PEND"}
         /\ mem[pt[e].ppage] \in PhysEntry
         /\ pt[e] = EntryOf(pt[e].ppage, mem[pt[e].ppage])
<1> DEFINE p == pt[e].ppage
<1>1. e \in Pte /\ bt[e] \in Backing /\ e \in mb[bt[e]]
  BY LivePage
<1>2. NullEntry.ppage \notin Frame /\ ZeroEntry.ppage \notin Frame
  BY EntriesAre, FrameIs
<1>3. Holds(mem, p) /\ mem[p].loc = bt[e] /\ pt[e] = EntryOf(p, mem[p])
  BY <1>1, <1>2, PlaceOf
<1>4. mem \in [Ppage -> PhysEntry] /\ Recorded(mem)
  BY DEF Sound, Typed, Agree
<1>5. mem[p].state \in Used /\ mem[p] \in PhysEntry
  BY <1>3, <1>4, HeldRecord
<1>6. mem[p].state \notin GhostStates
  <2> SUFFICES ASSUME mem[p].state \in GhostStates PROVE FALSE
    OBVIOUS
  <2>1. mb[bt[e]] = {Ghost(p)}
    BY <1>3 DEF Sound, Agree, GhostsListed
  <2> QED
    BY <1>1, <2>1, PteIs
<1> QED
  BY <1>3, <1>5, <1>6 DEF Used

-----------------------------------------------------------------------------
(* What the operations do to the tables.                                   *)

\* A frame is filled for a page, or marked: its record and the entries of the
\* backing change together.
Fits(mem, bt, e, p, r) ==
  /\ Holds(mem, p) => mem[p].loc = bt[e]
  /\ \A o \in Frame : Holds(mem, o) /\ mem[o].loc = bt[e] => o = p
  /\ r \in PhysEntry /\ r.state \in {"REFERENCED", "PEND"} /\ r.loc = bt[e]

Sets(mem, pt, E, p, r, mem2, new) ==
  /\ mem2 = [mem EXCEPT ![p] = r]
  /\ new = [l \in Ptes |-> IF l \in E THEN EntryOf(p, r) ELSE pt[l]]

LEMMA EntriesSet ==
  ASSUME NEW mem, NEW pt, NEW mb, NEW bt, NEW L, Sound(mem, pt, mb, bt, L),
         NEW e \in L, NEW p \in Frame, NEW r, Fits(mem, bt, e, p, r),
         NEW mem2, NEW new, Sets(mem, pt, mb[bt[e]], p, r, mem2, new)
  PROVE  Sound(mem2, new, mb, bt, L)
<1>0. /\ Holds(mem, p) => mem[p].loc = bt[e]
      /\ \A o \in Frame : Holds(mem, o) /\ mem[o].loc = bt[e] => o = p
      /\ r \in PhysEntry /\ r.state \in {"REFERENCED", "PEND"} /\ r.loc = bt[e]
      /\ mem2 = [mem EXCEPT ![p] = r]
      /\ new = [l \in Ptes |-> IF l \in mb[bt[e]] THEN EntryOf(p, r) ELSE pt[l]]
  BY DEF Fits, Sets
<1> DEFINE b == bt[e]
<1>1. /\ mem \in [Ppage -> PhysEntry] /\ pt \in [Ptes -> Entry]
      /\ mb \in [Backing -> SUBSET Ptes] /\ bt \in [Pte -> Backing \cup {NoLoc}]
      /\ L \subseteq Pte /\ Recorded(mem) /\ Listed(mem, mb, bt, L)
      /\ GhostsListed(mem, mb) /\ Backed(bt, L) /\ Placed(mem, pt, mb)
      /\ Bits(mem, pt, mb)
  BY DEF Sound, Typed, Agree
<1>2. e \in Pte /\ b \in Backing /\ e \in mb[b]
  BY LivePage
<1>3. Frame \subseteq Ppage /\ 0 \notin Frame /\ EntryOf(p, r) \in Entry
      /\ r.state \in Used /\ r.state \notin GhostStates /\ r.state # "FREE"
  BY <1>0, FrameIs, EntriesAre, StatesAre DEF Used
<1>4. /\ mem2 \in [Ppage -> PhysEntry] /\ mem2[p] = r
      /\ \A o \in Ppage : o # p => mem2[o] = mem[o]
  BY <1>0, <1>1, <1>3
<1>5. /\ new \in [Ptes -> Entry]
      /\ \A l \in mb[b] : new[l] = EntryOf(p, r)
      /\ \A c \in Backing : c # b => \A l \in mb[c] : new[l] = pt[l]
  <2>1. new \in [Ptes -> Entry]
    BY <1>0, <1>1, <1>3
  <2>2. \A l \in mb[b] : new[l] = EntryOf(p, r)
    BY <1>0, <1>1, <1>2
  <2>3. ASSUME NEW c \in Backing, c # b, NEW l \in mb[c] PROVE new[l] = pt[l]
    <3>1. l \notin mb[b]
      BY <1>2, <2>3, OneBackingOf
    <3> QED
      BY <1>0, <1>1, <3>1
  <2> QED
    BY <2>1, <2>2, <2>3
<1> HIDE DEF b
<1>6. /\ Holds(mem, p) => mem[p].loc = b
      /\ \A o \in Frame : Holds(mem, o) /\ mem[o].loc = b => o = p
      /\ r.loc = b
  BY <1>0 DEF b
<1>7. Recorded(mem2)
  <2>1. mem2[0] = PinnedEntry
    BY <1>1, <1>3, <1>4, FrameIs DEF Recorded
  <2>2. mem2[p].state \in Used /\ mem2[p].loc \in Backing
    BY <1>2, <1>3, <1>4, <1>6
  <2>3. \A o \in Frame : o # p => mem2[o] = mem[o]
    BY <1>3, <1>4
  <2> QED
    BY <1>1, <2>1, <2>2, <2>3 DEF Recorded
<1>8. \A o \in Frame : o # p => mem2[o] = mem[o] /\ (Holds(mem2, o) <=> Holds(mem, o))
  BY <1>3, <1>4 DEF Holds
<1>9. Holds(mem2, p) /\ mem2[p].loc = b
  BY <1>3, <1>4, <1>6 DEF Holds
<1>10. Bits(mem2, new, mb)
  <2> SUFFICES ASSUME NEW o \in Frame, Holds(mem2, o)
               PROVE  /\ mb[mem2[o].loc] # {}
                      /\ \A l \in mb[mem2[o].loc] : new[l] = EntryOf(o, mem2[o])
    BY DEF Bits
  <2>1. CASE o = p
    BY <1>2, <1>4, <1>5, <1>9, <2>1
  <2>2. CASE o # p
    <3>1. mem2[o] = mem[o] /\ Holds(mem, o) /\ mem[o].loc # b
      BY <1>6, <1>8, <2>2
    <3>2. mem[o].loc \in Backing
      BY <1>1, <3>1, HeldRecord
    <3>3. /\ mb[mem[o].loc] # {}
          /\ \A l \in mb[mem[o].loc] : pt[l] = EntryOf(o, mem[o])
      BY <1>1, <3>1 DEF Bits
    <3> QED
      BY <1>5, <3>1, <3>2, <3>3
  <2> QED
    BY <2>1, <2>2
<1>11. Placed(mem2, new, mb)
  <2> SUFFICES ASSUME NEW c \in Backing, NEW l \in mb[c]
               PROVE  \/ \E o \in Frame : Holds(mem2, o) /\ mem2[o].loc = c
                      \/ new[l] = NullEntry
                      \/ c \in SwapBlock /\ new[l] = ZeroEntry
    BY DEF Placed
  <2>1. CASE c = b
    BY <1>9, <2>1
  <2>2. CASE c # b
    <3>1. new[l] = pt[l]
      BY <1>5, <2>2
    <3>2. ASSUME NEW o \in Frame, Holds(mem, o), mem[o].loc = c
          PROVE  Holds(mem2, o) /\ mem2[o].loc = c
      BY <1>6, <1>8, <2>2, <3>2
    <3> QED
      BY <1>1, <3>1, <3>2 DEF Placed
  <2> QED
    BY <2>1, <2>2
<1>12. \A o \in Frame : mem[o].state \in GhostStates => o # p
  <2> SUFFICES ASSUME mem[p].state \in GhostStates PROVE FALSE
    OBVIOUS
  <2>1. Holds(mem, p)
    BY StatesAre DEF Holds
  <2>2. mb[b] = {Ghost(p)}
    BY <1>1, <1>6, <2>1 DEF GhostsListed
  <2> QED
    BY <1>2, <2>2, PteIs
<1>13. Listed(mem2, mb, bt, L)
  <2>1. \A c \in Backing : GhostOf(mem, mb, c) => GhostOf(mem2, mb, c)
    BY <1>8, <1>12 DEF GhostOf
  <2> QED
    BY <1>1, <2>1 DEF Listed
<1>14. GhostsListed(mem2, mb)
  BY <1>1, <1>3, <1>4, <1>8 DEF GhostsListed
<1> QED
  BY <1>1, <1>4, <1>5, <1>7, <1>10, <1>11, <1>13, <1>14 DEF Sound, Typed, Agree

\* A page that is mapped: the backings of the others stay.
Joins(L, bt, mb, e, b, bt2) ==
  /\ bt2 \in [Pte -> Backing \cup {NoLoc}]
  /\ L \cup {e} \subseteq Pte /\ Backed(bt2, L \cup {e})
  /\ Users(b, L \cup {e}, bt2) = Users(b, L, bt) \cup {e}
  /\ \A c \in Backing : c # b => Users(c, L \cup {e}, bt2) = Users(c, L, bt)
  /\ \A c \in Backing : e \notin mb[c]

LEMMA PageJoins ==
  ASSUME NEW mem, NEW pt, NEW mb, NEW bt, NEW L, Sound(mem, pt, mb, bt, L),
         NEW e \in Pte, e \notin L, NEW b \in Backing,
         NEW bt2, bt2 = [bt EXCEPT ![e] = b]
  PROVE  Joins(L, bt, mb, e, b, bt2)
<1>1. /\ bt \in [Pte -> Backing \cup {NoLoc}] /\ L \subseteq Pte /\ Backed(bt, L)
      /\ Listed(mem, mb, bt, L)
  BY DEF Sound, Typed, Agree
<1>2. /\ bt2 \in [Pte -> Backing \cup {NoLoc}] /\ bt2[e] = b
      /\ \A l \in L : bt2[l] = bt[l]
  BY <1>1
<1>3. Backed(bt2, L \cup {e})
  BY <1>1, <1>2 DEF Backed
<1>4. Users(b, L \cup {e}, bt2) = Users(b, L, bt) \cup {e}
  BY <1>2 DEF Users
<1>5. \A c \in Backing : c # b => Users(c, L \cup {e}, bt2) = Users(c, L, bt)
  BY <1>2 DEF Users
<1>6. ASSUME NEW c \in Backing PROVE e \notin mb[c]
  <2>1. mb[c] = Users(c, L, bt) \/ GhostOf(mem, mb, c)
    BY <1>1 DEF Listed
  <2>2. \A p \in Frame : Ghost(p) # e
    BY PteIs
  <2> QED
    BY <2>1, <2>2 DEF Users, GhostOf
<1> QED
  BY <1>1, <1>2, <1>3, <1>4, <1>5, <1>6 DEF Joins

\* A backing nobody uses gets a page, which is on disk or the zero page.
Maps(pt, mb, bt, e, b, x, new, mb2, bt2) ==
  /\ mb[b] = {} /\ (x = NullEntry \/ (b \in SwapBlock /\ x = ZeroEntry))
  /\ bt2 = [bt EXCEPT ![e] = b] /\ mb2 = [mb EXCEPT ![b] = {e}]
  /\ new = [pt EXCEPT ![e] = x]

LEMMA PageMapped ==
  ASSUME NEW mem, NEW pt, NEW mb, NEW bt, NEW L, Sound(mem, pt, mb, bt, L),
         NEW e \in Pte, e \notin L, NEW b \in Backing, NEW x, NEW new, NEW mb2,
         NEW bt2, Maps(pt, mb, bt, e, b, x, new, mb2, bt2)
  PROVE  Sound(mem, new, mb2, bt2, L \cup {e})
<1> USE DEF Maps
<1>1. /\ mem \in [Ppage -> PhysEntry] /\ pt \in [Ptes -> Entry]
      /\ mb \in [Backing -> SUBSET Ptes]
      /\ L \subseteq Pte /\ Recorded(mem) /\ Listed(mem, mb, bt, L)
      /\ GhostsListed(mem, mb) /\ Placed(mem, pt, mb) /\ Bits(mem, pt, mb)
  BY DEF Sound, Typed, Agree
<1>j. Joins(L, bt, mb, e, b, bt2)
  BY PageJoins
<1>2. /\ bt2 \in [Pte -> Backing \cup {NoLoc}]
      /\ L \cup {e} \subseteq Pte /\ Backed(bt2, L \cup {e})
      /\ Users(b, L \cup {e}, bt2) = Users(b, L, bt) \cup {e}
      /\ \A c \in Backing : c # b => Users(c, L \cup {e}, bt2) = Users(c, L, bt)
      /\ \A c \in Backing : e \notin mb[c]
  BY <1>j DEF Joins
<1>3. e \in Ptes /\ x \in Entry
  BY PteIs, EntriesAre
<1>4. /\ mb2 \in [Backing -> SUBSET Ptes] /\ mb2[b] = {e}
      /\ \A c \in Backing : c # b => mb2[c] = mb[c]
  BY <1>1, <1>3
<1>5. /\ new \in [Ptes -> Entry] /\ new[e] = x
      /\ \A c \in Backing : \A l \in mb[c] : new[l] = pt[l]
  <2>1. new \in [Ptes -> Entry] /\ new[e] = x /\ \A l \in Ptes : l # e => new[l] = pt[l]
    BY <1>1, <1>3
  <2> QED
    BY <1>1, <1>2, <2>1
<1>6. \A p \in Frame : Holds(mem, p) => mem[p].loc \in Backing /\ mem[p].loc # b
  BY <1>1, HeldRecord DEF Bits
<1>7. Bits(mem, new, mb2)
  BY <1>1, <1>4, <1>5, <1>6 DEF Bits
<1>8. Placed(mem, new, mb2)
  <2> SUFFICES ASSUME NEW c \in Backing, NEW l \in mb2[c]
               PROVE  \/ \E o \in Frame : Holds(mem, o) /\ mem[o].loc = c
                      \/ new[l] = NullEntry
                      \/ c \in SwapBlock /\ new[l] = ZeroEntry
    BY DEF Placed
  <2>1. CASE c = b
    BY <1>4, <1>5, <2>1
  <2>2. CASE c # b
    BY <1>1, <1>4, <1>5, <2>2 DEF Placed
  <2> QED
    BY <2>1, <2>2
<1>9. Listed(mem, mb2, bt2, L \cup {e})
  <2> SUFFICES ASSUME NEW c \in Backing
               PROVE  \/ /\ mb2[c] = Users(c, L \cup {e}, bt2)
                         /\ c \in SwapBlock => \A l, o \in mb2[c] : l = o
                      \/ /\ Users(c, L \cup {e}, bt2) = {} /\ c \in FileBlock
                         /\ GhostOf(mem, mb2, c)
    BY DEF Listed
  <2>1. CASE c = b
    <3>1. Users(b, L, bt) = {}
      BY <1>1 DEF Listed, GhostOf
    <3>2. mb2[b] = {e} /\ Users(b, L \cup {e}, bt2) = {e}
      BY <1>2, <1>4, <3>1
    <3>3. mb2[c] = {e} /\ Users(c, L \cup {e}, bt2) = {e}
      BY <2>1, <3>2, Zenon
    <3>4. \A l, o \in mb2[c] : l = o
      BY <3>3
    <3> QED
      BY <3>3, <3>4, Zenon
  <2>2. CASE c # b
    <3>1. GhostOf(mem, mb, c) => GhostOf(mem, mb2, c)
      BY <1>4, <2>2 DEF GhostOf
    <3>2. mb2[c] = mb[c] /\ Users(c, L \cup {e}, bt2) = Users(c, L, bt)
      BY <1>2, <1>4, <2>2
    <3> QED
      BY <1>1, <3>1, <3>2 DEF Listed
  <2> QED
    BY <2>1, <2>2
<1>10. GhostsListed(mem, mb2)
  BY <1>1, <1>4, <1>6, StatesAre DEF GhostsListed, Holds
<1> QED
  BY <1>1, <1>2, <1>4, <1>5, <1>7, <1>8, <1>9, <1>10 DEF Sound, Typed, Agree

\* A file block that pages use gets one more, with a copy of one of their entries.
Shares(mem, pt, mb, bt, e, b, d, new, mb2, bt2) ==
  /\ d \in mb[b] /\ ~(pt[d].ppage # Absent /\ mem[pt[d].ppage].state \in GhostStates)
  /\ bt2 = [bt EXCEPT ![e] = b] /\ mb2 = [mb EXCEPT ![b] = @ \cup {e}]
  /\ new = [pt EXCEPT ![e] = pt[d]]

LEMMA PageShared ==
  ASSUME NEW mem, NEW pt, NEW mb, NEW bt, NEW L, Sound(mem, pt, mb, bt, L),
         NEW e \in Pte, e \notin L, NEW b \in FileBlock, NEW d, NEW new, NEW mb2,
         NEW bt2, Shares(mem, pt, mb, bt, e, b, d, new, mb2, bt2)
  PROVE  Sound(mem, new, mb2, bt2, L \cup {e})
<1> USE DEF Shares
<1>1. /\ mem \in [Ppage -> PhysEntry] /\ pt \in [Ptes -> Entry]
      /\ mb \in [Backing -> SUBSET Ptes]
      /\ L \subseteq Pte /\ Recorded(mem) /\ Listed(mem, mb, bt, L)
      /\ GhostsListed(mem, mb) /\ Placed(mem, pt, mb) /\ Bits(mem, pt, mb)
  BY DEF Sound, Typed, Agree
<1>0. b \in Backing /\ b \notin SwapBlock
  BY BackingIs DEF Backing
<1>j. Joins(L, bt, mb, e, b, bt2)
  BY <1>0, PageJoins
<1>2. /\ bt2 \in [Pte -> Backing \cup {NoLoc}]
      /\ L \cup {e} \subseteq Pte /\ Backed(bt2, L \cup {e})
      /\ Users(b, L \cup {e}, bt2) = Users(b, L, bt) \cup {e}
      /\ \A c \in Backing : c # b => Users(c, L \cup {e}, bt2) = Users(c, L, bt)
      /\ \A c \in Backing : e \notin mb[c]
  BY <1>j DEF Joins
<1>3. e \in Ptes /\ d \in Ptes /\ pt[d] \in Entry
  BY <1>0, <1>1, PteIs
<1>4. /\ mb2 \in [Backing -> SUBSET Ptes] /\ mb2[b] = mb[b] \cup {e}
      /\ \A c \in Backing : c # b => mb2[c] = mb[c]
  BY <1>0, <1>1, <1>3
<1>5. /\ new \in [Ptes -> Entry] /\ new[e] = pt[d]
      /\ \A c \in Backing : \A l \in mb[c] : new[l] = pt[l]
  <2>1. new \in [Ptes -> Entry] /\ new[e] = pt[d] /\ \A l \in Ptes : l # e => new[l] = pt[l]
    BY <1>1, <1>3
  <2> QED
    BY <1>1, <1>2, <2>1
<1>6. \A p \in Frame : Holds(mem, p) => mem[p].loc \in Backing
  BY <1>1, HeldRecord
<1>7. mb[b] = Users(b, L, bt)
  <2> SUFFICES ASSUME GhostOf(mem, mb, b) PROVE FALSE
    BY <1>0, <1>1 DEF Listed
  <2>1. PICK p \in Frame : mb[b] = {Ghost(p)} /\ mem[p].state \in GhostStates /\ mem[p].loc = b
    BY DEF GhostOf
  <2>2. Holds(mem, p)
    BY <2>1, StatesAre DEF Holds
  <2>3. pt[d].ppage = p
    BY <2>1, <2>2, EntryAt
  <2> QED
    BY <2>1, <2>3, FrameIs
<1>8. Bits(mem, new, mb2)
  <2> SUFFICES ASSUME NEW o \in Frame, Holds(mem, o)
               PROVE  /\ mb2[mem[o].loc] # {}
                      /\ \A l \in mb2[mem[o].loc] : new[l] = EntryOf(o, mem[o])
    BY DEF Bits
  <2>1. CASE mem[o].loc = b
    <3>1. mb[b] # {} /\ \A l \in mb[b] : pt[l] = EntryOf(o, mem[o])
      BY <1>1, <2>1 DEF Bits
    <3>2. mb2[b] # {} /\ \A l \in mb2[b] : new[l] = EntryOf(o, mem[o])
      BY <1>0, <1>4, <1>5, <3>1
    <3> QED
      BY <2>1, <3>2
  <2>2. CASE mem[o].loc # b
    BY <1>1, <1>4, <1>5, <1>6, <2>2 DEF Bits
  <2> QED
    BY <2>1, <2>2
<1>9. Placed(mem, new, mb2)
  <2> SUFFICES ASSUME NEW c \in Backing, NEW l \in mb2[c]
               PROVE  \/ \E o \in Frame : Holds(mem, o) /\ mem[o].loc = c
                      \/ new[l] = NullEntry
                      \/ c \in SwapBlock /\ new[l] = ZeroEntry
    BY DEF Placed
  <2>1. l \in mb[c] \/ (c = b /\ l = e)
    BY <1>4
  <2>2. CASE l \in mb[c]
    BY <1>1, <1>5, <2>2 DEF Placed
  <2>3. CASE c = b /\ l = e
    BY <1>1, <1>5, <2>3 DEF Placed
  <2> QED
    BY <2>1, <2>2, <2>3
<1>10. Listed(mem, mb2, bt2, L \cup {e})
  <2> SUFFICES ASSUME NEW c \in Backing
               PROVE  \/ /\ mb2[c] = Users(c, L \cup {e}, bt2)
                         /\ c \in SwapBlock => \A l, o \in mb2[c] : l = o
                      \/ /\ Users(c, L \cup {e}, bt2) = {} /\ c \in FileBlock
                         /\ GhostOf(mem, mb2, c)
    BY DEF Listed
  <2>1. CASE c = b
    BY <1>0, <1>2, <1>4, <1>7, <2>1
  <2>2. CASE c # b
    <3>1. GhostOf(mem, mb, c) => GhostOf(mem, mb2, c)
      BY <1>4, <2>2 DEF GhostOf
    <3>2. mb2[c] = mb[c] /\ Users(c, L \cup {e}, bt2) = Users(c, L, bt)
      BY <1>2, <1>4, <2>2
    <3> QED
      BY <1>1, <3>1, <3>2 DEF Listed
  <2> QED
    BY <2>1, <2>2
<1>11. GhostsListed(mem, mb2)
  <2> SUFFICES ASSUME NEW p \in Frame, mem[p].state \in GhostStates
               PROVE  mem[p].loc \in FileBlock /\ mb2[mem[p].loc] = {Ghost(p)}
    BY DEF GhostsListed
  <2>1. mem[p].loc \in FileBlock /\ mb[mem[p].loc] = {Ghost(p)}
    BY <1>1 DEF GhostsListed
  <2>2. mem[p].loc # b
    BY <1>1, <1>7, <2>1, PteIs DEF Users
  <2> QED
    BY <1>4, <2>1, <2>2 DEF Backing
<1> QED
  BY <1>1, <1>2, <1>4, <1>5, <1>8, <1>9, <1>10, <1>11 DEF Sound, Typed, Agree

\* A ghost is replaced by the page that maps its block.
LEMMA RevivedRecord ==
  ASSUME NEW r \in PhysEntry, r.state \in GhostStates
  PROVE  /\ Revived(r) \in PhysEntry /\ Revived(r).state \in {"REFERENCED", "PEND"}
         /\ Revived(r).loc = r.loc /\ Revived(r).dirty = r.dirty
         /\ Referenced(Revived(r)) = Referenced(r)
         /\ \A p : EntryOf(p, Revived(r)) = EntryOf(p, r)
<1>1. /\ Revived(r) \in PhysEntry /\ Revived(r).state \in {"REFERENCED", "PEND"}
      /\ Revived(r).loc = r.loc /\ Revived(r).dirty = r.dirty
      /\ Referenced(Revived(r)) = Referenced(r)
  BY DEF Revived, PhysEntry, MemStates, GhostStates, Referenced
<1>2. \A p : EntryOf(p, Revived(r)) = EntryOf(p, r)
  BY <1>1, Zenon DEF EntryOf
<1> QED
  BY <1>1, <1>2

LEMMA PendingEntry ==
  ASSUME NEW r \in PhysEntry, r.state \in {"PEND", "GHOST_PEND"}, NEW p \in Frame
  PROVE  Unreadable(EntryOf(p, r)) = EntryOf(p, r)
<1> DEFINE x == EntryOf(p, r)
<1>1. /\ x \in Entry /\ x.read_enable = Referenced(r)
      /\ x.write_enable = (Referenced(r) /\ r.dirty)
  BY EntriesAre
<1>2. Referenced(r) = FALSE
  BY DEF Referenced
<1>3. (FALSE /\ r.dirty) = FALSE
  OBVIOUS
<1>4. x.read_enable = FALSE /\ x.write_enable = FALSE
  BY <1>1, <1>2, <1>3, Zenon
<1> HIDE DEF x
<1>5. /\ Unreadable(x) \in Entry /\ Unreadable(x).ppage = x.ppage
      /\ Unreadable(x).read_enable = FALSE /\ Unreadable(x).write_enable = FALSE
  BY <1>1, UnreadableIs
<1>6. Unreadable(x) = x
  BY <1>1, <1>4, <1>5, SameEntry
<1> QED
  BY <1>6 DEF x

\* A ghost is replaced by a page, which gets its entry.
Replaces(mem, pt, mb, bt, e, b, d, p, x, mem2, new, mb2, bt2) ==
  /\ d \in mb[b] /\ p = pt[d].ppage /\ p # Absent /\ mem[p].state \in GhostStates
  /\ x = IF mem[p].state = "GHOST_PEND" THEN Unreadable(pt[d]) ELSE pt[d]
  /\ bt2 = [bt EXCEPT ![e] = b] /\ mb2 = [mb EXCEPT ![b] = {e}]
  /\ new = [pt EXCEPT ![e] = x, ![d] = NullEntry]
  /\ mem2 = [mem EXCEPT ![p] = Revived(@)]

LEMMA GhostReplaced ==
  ASSUME NEW mem, NEW pt, NEW mb, NEW bt, NEW L, Sound(mem, pt, mb, bt, L),
         NEW e \in Pte, e \notin L, NEW b \in FileBlock, NEW d, NEW p, NEW x,
         NEW mem2, NEW new, NEW mb2, NEW bt2,
         Replaces(mem, pt, mb, bt, e, b, d, p, x, mem2, new, mb2, bt2)
  PROVE  /\ Sound(mem2, new, mb2, bt2, L \cup {e})
         /\ p \in Frame /\ mem[p].loc = b
<1> USE DEF Replaces
<1>1. /\ mem \in [Ppage -> PhysEntry] /\ pt \in [Ptes -> Entry]
      /\ mb \in [Backing -> SUBSET Ptes]
      /\ L \subseteq Pte /\ Recorded(mem) /\ Listed(mem, mb, bt, L)
      /\ GhostsListed(mem, mb) /\ Placed(mem, pt, mb) /\ Bits(mem, pt, mb)
  BY DEF Sound, Typed, Agree
<1>0. b \in Backing /\ b \notin SwapBlock
  BY BackingIs DEF Backing
<1>j. Joins(L, bt, mb, e, b, bt2)
  BY <1>0, PageJoins
<1>2. /\ bt2 \in [Pte -> Backing \cup {NoLoc}]
      /\ L \cup {e} \subseteq Pte /\ Backed(bt2, L \cup {e})
      /\ Users(b, L \cup {e}, bt2) = Users(b, L, bt) \cup {e}
      /\ \A c \in Backing : c # b => Users(c, L \cup {e}, bt2) = Users(c, L, bt)
      /\ \A c \in Backing : e \notin mb[c]
  BY <1>j DEF Joins
<1>3. p \in Frame /\ Holds(mem, p) /\ mem[p].loc = b /\ pt[d] = EntryOf(p, mem[p])
  <2>1. p # 0 \/ ~(pt[d] = ZeroEntry)
    BY <1>1, StatesAre DEF Recorded, GhostStates, PinnedEntry
  <2>2. pt[d].ppage # Absent /\ b \notin SwapBlock
    BY <1>0
  <2>3. pt[d] # NullEntry
    BY <2>2, EntriesAre
  <2> QED
    BY <1>0, <2>2, <2>3, PlaceOf
<1>4. mb[b] = {Ghost(p)} /\ d = Ghost(p)
  <2>1. mb[b] = {Ghost(p)}
    BY <1>1, <1>3 DEF GhostsListed
  <2> QED
    BY <2>1
<1>5. e \in Ptes /\ d \in Ptes /\ d \notin Pte /\ d # e
  <2>1. Ghost(p) \in Ptes /\ Ghost(p) \notin Pte /\ e \in Ptes
    BY <1>3, PteIs
  <2> QED
    BY <1>4, <2>1
<1>6. /\ mem[p] \in PhysEntry /\ p \in Ppage /\ 0 # p /\ 0 \in Ppage
  BY <1>1, <1>3, FrameIs
<1> DEFINE r == mem[p]
           s == Revived(r)
<1>7. /\ s \in PhysEntry /\ s.state \in {"REFERENCED", "PEND"}
      /\ s.loc = b /\ EntryOf(p, s) = EntryOf(p, r)
  BY <1>3, <1>6, RevivedRecord
<1>8. x = EntryOf(p, s)
  <2>1. CASE r.state = "GHOST_PEND"
    <3>1. Unreadable(EntryOf(p, r)) = EntryOf(p, r)
      BY <1>3, <1>6, <2>1, PendingEntry
    <3>2. x = Unreadable(pt[d])
      BY <2>1
    <3> QED
      BY <1>3, <1>7, <3>1, <3>2, Zenon
  <2>2. CASE r.state # "GHOST_PEND"
    BY <1>3, <1>7, <2>2, Zenon
  <2> QED
    BY <2>1, <2>2
<1>9. EntryOf(p, s) \in Entry /\ NullEntry \in Entry
  BY <1>3, <1>7, EntriesAre
<1>10. /\ mem2 \in [Ppage -> PhysEntry] /\ mem2[p] = s
       /\ \A o \in Ppage : o # p => mem2[o] = mem[o]
  <2>1. mem2 = [mem EXCEPT ![p] = s]
    OBVIOUS
  <2> HIDE DEF s
  <2> QED
    BY <1>1, <1>6, <1>7, <2>1
<1>11. /\ mb2 \in [Backing -> SUBSET Ptes] /\ mb2[b] = {e}
       /\ \A c \in Backing : c # b => mb2[c] = mb[c]
  BY <1>0, <1>1, <1>5
<1>12. /\ new \in [Ptes -> Entry] /\ new[e] = EntryOf(p, s)
       /\ \A c \in Backing : c # b => \A l \in mb[c] : new[l] = pt[l]
  <2>1. /\ new \in [Ptes -> Entry] /\ new[e] = x
        /\ \A l \in Ptes : l # e /\ l # d => new[l] = pt[l]
    BY <1>1, <1>5, <1>8, <1>9
  <2>2. ASSUME NEW c \in Backing, c # b, NEW l \in mb[c] PROVE l # e /\ l # d /\ l \in Ptes
    <3>1. d \notin mb[c]
      BY <1>0, <2>2, OneBackingOf
    <3> QED
      BY <1>1, <1>2, <3>1
  <2> QED
    BY <1>8, <2>1, <2>2
<1>13. \A o \in Frame : Holds(mem, o) /\ mem[o].loc = b => o = p
  BY <1>3, OneFrame
<1> HIDE DEF s, r
<1>14. /\ \A o \in Frame : o # p => mem2[o] = mem[o] /\ (Holds(mem2, o) <=> Holds(mem, o))
       /\ Holds(mem2, p) /\ mem2[p].loc = b /\ mem2[p].state \notin GhostStates
  BY <1>7, <1>10, FrameIs, StatesAre DEF Holds
<1>15. \A o \in Frame : o # p /\ Holds(mem, o) => mem[o].loc \in Backing /\ mem[o].loc # b
  BY <1>1, <1>13, HeldRecord
<1>16. Recorded(mem2)
  BY <1>0, <1>1, <1>6, <1>7, <1>10, FrameIs DEF Recorded, Used
<1>17. Bits(mem2, new, mb2)
  <2> SUFFICES ASSUME NEW o \in Frame, Holds(mem2, o)
               PROVE  /\ mb2[mem2[o].loc] # {}
                      /\ \A l \in mb2[mem2[o].loc] : new[l] = EntryOf(o, mem2[o])
    BY DEF Bits
  <2>1. CASE o = p
    <3>1. mb2[mem2[o].loc] = {e} /\ new[e] = EntryOf(o, mem2[o])
      BY <1>10, <1>11, <1>12, <1>14, <2>1, Zenon
    <3> QED
      BY <3>1
  <2>2. CASE o # p
    <3>1. mem2[o] = mem[o] /\ Holds(mem, o)
      BY <1>14, <2>2
    <3>2. mem[o].loc \in Backing /\ mem[o].loc # b
      BY <1>15, <2>2, <3>1
    <3>3. mb[mem[o].loc] # {} /\ \A l \in mb[mem[o].loc] : pt[l] = EntryOf(o, mem[o])
      BY <1>1, <3>1 DEF Bits
    <3>4. mb2[mem[o].loc] = mb[mem[o].loc] /\ \A l \in mb[mem[o].loc] : new[l] = pt[l]
      BY <1>11, <1>12, <3>2
    <3>5. mb2[mem[o].loc] # {} /\ \A l \in mb2[mem[o].loc] : new[l] = EntryOf(o, mem[o])
      BY <3>3, <3>4
    <3> QED
      BY <3>1, <3>5
  <2> QED
    BY <2>1, <2>2
<1>18. Placed(mem2, new, mb2)
  <2> SUFFICES ASSUME NEW c \in Backing, NEW l \in mb2[c]
               PROVE  \/ \E o \in Frame : Holds(mem2, o) /\ mem2[o].loc = c
                      \/ new[l] = NullEntry
                      \/ c \in SwapBlock /\ new[l] = ZeroEntry
    BY DEF Placed
  <2>1. CASE c = b
    BY <1>3, <1>14, <2>1
  <2>2. CASE c # b
    <3>1. new[l] = pt[l] /\ l \in mb[c]
      BY <1>11, <1>12, <2>2
    <3>2. ASSUME NEW o \in Frame, Holds(mem, o), mem[o].loc = c
          PROVE  Holds(mem2, o) /\ mem2[o].loc = c
      BY <1>3, <1>14, <2>2, <3>2
    <3> QED
      BY <1>1, <3>1, <3>2 DEF Placed
  <2> QED
    BY <2>1, <2>2
<1>19. Listed(mem2, mb2, bt2, L \cup {e})
  <2> SUFFICES ASSUME NEW c \in Backing
               PROVE  \/ /\ mb2[c] = Users(c, L \cup {e}, bt2)
                         /\ c \in SwapBlock => \A l, o \in mb2[c] : l = o
                      \/ /\ Users(c, L \cup {e}, bt2) = {} /\ c \in FileBlock
                         /\ GhostOf(mem2, mb2, c)
    BY DEF Listed
  <2>1. CASE c = b
    <3>1. Users(b, L, bt) = {}
      <4>1. mb[b] = Users(b, L, bt) \/ Users(b, L, bt) = {}
        BY <1>0, <1>1 DEF Listed
      <4> QED
        BY <1>1, <1>4, <1>5, <4>1 DEF Users
    <3>2. mb2[c] = Users(c, L \cup {e}, bt2) /\ c \notin SwapBlock
      BY <1>0, <1>2, <1>11, <2>1, <3>1
    <3> QED
      BY <3>2
  <2>2. CASE c # b
    <3>1. GhostOf(mem, mb, c) => GhostOf(mem2, mb2, c)
      BY <1>3, <1>11, <1>14, <2>2 DEF GhostOf
    <3>2. mb2[c] = mb[c] /\ Users(c, L \cup {e}, bt2) = Users(c, L, bt)
      BY <1>2, <1>11, <2>2
    <3> QED
      BY <1>1, <3>1, <3>2 DEF Listed
  <2> QED
    BY <2>1, <2>2
<1>20. GhostsListed(mem2, mb2)
  <2> SUFFICES ASSUME NEW o \in Frame, mem2[o].state \in GhostStates
               PROVE  mem2[o].loc \in FileBlock /\ mb2[mem2[o].loc] = {Ghost(o)}
    BY DEF GhostsListed
  <2>1. o # p
    BY <1>14
  <2>2. mem2[o] = mem[o] /\ Holds(mem, o)
    BY <1>14, <2>1, StatesAre DEF Holds
  <2> QED
    BY <1>1, <1>11, <1>15, <2>1, <2>2 DEF GhostsListed
<1> QED
  BY <1>1, <1>2, <1>3, <1>10, <1>11, <1>12, <1>16, <1>17, <1>18, <1>19, <1>20
     DEF Sound, Typed, Agree

\* The frame named by the entry of a page that is neither on disk nor the zero page.
LEMMA NamedFrame ==
  ASSUME NEW mem, NEW pt, NEW mb, NEW bt, NEW L, Sound(mem, pt, mb, bt, L), NEW e \in L
  PROVE  /\ pt[e].ppage \in Frame \cup {Absent, 0}
         /\ pt[e].ppage = 0 => bt[e] \in SwapBlock /\ pt[e] = ZeroEntry
         /\ pt[e].ppage = Absent => pt[e] = NullEntry
         /\ pt[e].ppage \notin Frame =>
              \A p \in Frame : Holds(mem, p) => mem[p].loc # bt[e]
<1>1. e \in Pte /\ bt[e] \in Backing /\ e \in mb[bt[e]]
  BY LivePage
<1>2. NullEntry.ppage = Absent /\ ZeroEntry.ppage = 0 /\ Absent # 0 /\ 0 \notin Frame
      /\ Absent \notin Frame
  BY EntriesAre, FrameIs
<1>3. \/ pt[e].ppage \in Frame
      \/ /\ pt[e] = NullEntry \/ (bt[e] \in SwapBlock /\ pt[e] = ZeroEntry)
         /\ \A p \in Frame : Holds(mem, p) => mem[p].loc # bt[e]
  BY <1>1, PlaceOf
<1> QED
  BY <1>2, <1>3

\* A page of the swap file is discarded with its frame.
DropsSwap(mem, pt, mb, bt, e, p, mem2, mb2) ==
  /\ bt[e] \in SwapBlock /\ p = pt[e].ppage /\ mb2 = [mb EXCEPT ![bt[e]] = {}]
  /\ mem2 = IF p \in {Absent, 0} THEN mem ELSE [mem EXCEPT ![p] = FreeEntry]

LEMMA SwapPageDropped ==
  ASSUME NEW mem, NEW pt, NEW mb, NEW bt, NEW L, Sound(mem, pt, mb, bt, L),
         NEW e \in L, NEW p, NEW mem2, NEW mb2,
         DropsSwap(mem, pt, mb, bt, e, p, mem2, mb2)
  PROVE  /\ Sound(mem2, pt, mb2, bt, L \ {e})
         /\ \A o \in Frame : mem2[o] = mem[o] \/ mem2[o] = FreeEntry
<1> USE DEF DropsSwap
<1> DEFINE b == bt[e]
<1>1. /\ mem \in [Ppage -> PhysEntry] /\ pt \in [Ptes -> Entry]
      /\ mb \in [Backing -> SUBSET Ptes] /\ bt \in [Pte -> Backing \cup {NoLoc}]
      /\ L \subseteq Pte /\ Recorded(mem) /\ Listed(mem, mb, bt, L)
      /\ GhostsListed(mem, mb) /\ Placed(mem, pt, mb) /\ Bits(mem, pt, mb)
      /\ Backed(bt, L)
  BY DEF Sound, Typed, Agree
<1>2. b \in Backing /\ b \in SwapBlock /\ b \notin FileBlock /\ mb[b] = {e}
      /\ mb[b] = Users(b, L, bt)
  BY LivePage, BackingIs
<1>3. /\ mb2 \in [Backing -> SUBSET Ptes] /\ mb2[b] = {}
      /\ \A c \in Backing : c # b => mb2[c] = mb[c]
  BY <1>1, <1>2
<1>4. /\ Users(b, L \ {e}, bt) = {}
      /\ \A c \in Backing : c # b => Users(c, L \ {e}, bt) = Users(c, L, bt)
  <2>1. Users(b, L \ {e}, bt) = Users(b, L, bt) \ {e}
    BY DEF Users
  <2>2. \A c \in Backing : c # b => Users(c, L \ {e}, bt) = Users(c, L, bt)
    BY DEF Users
  <2> QED
    BY <1>2, <2>1, <2>2
<1>5. /\ mem2 \in [Ppage -> PhysEntry] /\ mem2[0] = mem[0]
      /\ \A o \in Frame : \/ mem2[o] = mem[o] /\ (Holds(mem, o) => mem[o].loc # b)
                          \/ mem2[o] = FreeEntry
  <2>1. CASE p \in Frame
    <3>1. p \notin {Absent, 0} /\ p \in Ppage /\ Frame \subseteq Ppage /\ 0 # p /\ 0 \in Ppage
      BY <2>1, FrameIs
    <3>2. mem2 = [mem EXCEPT ![p] = FreeEntry]
      BY <3>1
    <3>3. mem2 \in [Ppage -> PhysEntry] /\ mem2[0] = mem[0] /\ mem2[p] = FreeEntry
          /\ \A o \in Ppage : o # p => mem2[o] = mem[o]
      BY <1>1, <3>1, <3>2, StatesAre
    <3>4. Holds(mem, p) /\ mem[p].loc = b
      BY <2>1, LiveFrame
    <3>5. \A o \in Frame : Holds(mem, o) /\ mem[o].loc = b => o = p
      BY <2>1, <3>4, OneFrame
    <3> QED
      BY <3>1, <3>3, <3>5
  <2>2. CASE p \notin Frame
    <3>1. p \in {Absent, 0} /\ \A o \in Frame : Holds(mem, o) => mem[o].loc # b
      BY <2>2, NamedFrame
    <3>2. mem2 = mem
      BY <3>1
    <3> QED
      BY <1>1, <3>1, <3>2
  <2> QED
    BY <2>1, <2>2
<1> HIDE DEF b
<1>6. \A o \in Frame : Holds(mem2, o) =>
        mem2[o] = mem[o] /\ Holds(mem, o) /\ mem[o].loc # b /\ mem[o].loc \in Backing
  BY <1>1, <1>5, HeldRecord, StatesAre DEF Holds
<1>7. Recorded(mem2)
  BY <1>1, <1>5 DEF Recorded
<1>8. Bits(mem2, pt, mb2)
  <2> SUFFICES ASSUME NEW o \in Frame, Holds(mem2, o)
               PROVE  /\ mb2[mem2[o].loc] # {}
                      /\ \A l \in mb2[mem2[o].loc] : pt[l] = EntryOf(o, mem2[o])
    BY DEF Bits
  <2>1. mb[mem[o].loc] # {} /\ \A l \in mb[mem[o].loc] : pt[l] = EntryOf(o, mem[o])
    BY <1>1, <1>6 DEF Bits
  <2>2. mb2[mem[o].loc] = mb[mem[o].loc] /\ mem2[o] = mem[o]
    BY <1>3, <1>6
  <2> QED
    BY <2>1, <2>2
<1>9. Placed(mem2, pt, mb2)
  <2> SUFFICES ASSUME NEW c \in Backing, NEW l \in mb2[c]
               PROVE  \/ \E o \in Frame : Holds(mem2, o) /\ mem2[o].loc = c
                      \/ pt[l] = NullEntry
                      \/ c \in SwapBlock /\ pt[l] = ZeroEntry
    BY DEF Placed
  <2>1. c # b /\ l \in mb[c]
    BY <1>3
  <2>2. ASSUME NEW o \in Frame, Holds(mem, o), mem[o].loc = c
        PROVE  Holds(mem2, o) /\ mem2[o].loc = c
    <3>1. mem2[o] = mem[o]
      <4>1. CASE mem2[o] = FreeEntry
        <5>1. p \notin {Absent, 0}
          BY <2>2, <4>1, StatesAre DEF Holds
        <5>2. p \in Frame
          BY <5>1, NamedFrame
        <5>3. mem2 = [mem EXCEPT ![p] = FreeEntry] /\ Holds(mem, p) /\ mem[p].loc = bt[e]
          BY <5>1, <5>2, LiveFrame
        <5>4. o # p
          BY <2>1, <2>2, <5>3 DEF b
        <5> QED
          BY <1>1, <5>2, <5>3, <5>4, FrameIs
      <4> QED
        BY <1>5, <4>1
    <3> QED
      BY <2>2, <3>1 DEF Holds
  <2> QED
    BY <1>1, <2>1, <2>2 DEF Placed
<1>10. Listed(mem2, mb2, bt, L \ {e}) /\ GhostsListed(mem2, mb2)
  <2>1. ASSUME NEW o \in Frame, mem[o].state \in GhostStates
        PROVE  mem2[o] = mem[o] /\ mem[o].loc # b /\ mem[o].loc \in Backing
    <3>1. mem[o].loc \in FileBlock
      BY <1>1, <2>1 DEF GhostsListed
    <3>2. mem[o].loc # b
      BY <1>2, <3>1
    <3>3. CASE p \in Frame
      <4>1. p \notin {Absent, 0} /\ Holds(mem, p) /\ mem[p].loc = b
        BY <3>3, LiveFrame, FrameIs DEF b
      <4>2. o # p /\ mem2 = [mem EXCEPT ![p] = FreeEntry]
        BY <3>2, <4>1
      <4> QED
        BY <1>1, <3>1, <3>2, <3>3, <4>2, FrameIs DEF Backing
    <3>4. CASE p \notin Frame
      <4>1. p \in {Absent, 0}
        BY <3>4, NamedFrame
      <4> QED
        BY <3>1, <3>2, <4>1 DEF Backing
    <3> QED
      BY <3>3, <3>4
  <2>2. Listed(mem2, mb2, bt, L \ {e})
    <3> SUFFICES ASSUME NEW c \in Backing
                 PROVE  \/ /\ mb2[c] = Users(c, L \ {e}, bt)
                           /\ c \in SwapBlock => \A l, o \in mb2[c] : l = o
                        \/ /\ Users(c, L \ {e}, bt) = {} /\ c \in FileBlock
                           /\ GhostOf(mem2, mb2, c)
      BY DEF Listed
    <3>1. CASE c = b
      BY <1>3, <1>4, <3>1
    <3>2. CASE c # b
      <4>1. GhostOf(mem, mb, c) => GhostOf(mem2, mb2, c)
        BY <1>3, <2>1, <3>2 DEF GhostOf
      <4>2. mb2[c] = mb[c] /\ Users(c, L \ {e}, bt) = Users(c, L, bt)
        BY <1>3, <1>4, <3>2
      <4> QED
        BY <1>1, <4>1, <4>2 DEF Listed
    <3> QED
      BY <3>1, <3>2
  <2>3. GhostsListed(mem2, mb2)
    <3> SUFFICES ASSUME NEW o \in Frame, mem2[o].state \in GhostStates
                 PROVE  mem2[o].loc \in FileBlock /\ mb2[mem2[o].loc] = {Ghost(o)}
      BY DEF GhostsListed
    <3>1. Holds(mem2, o)
      BY StatesAre DEF Holds
    <3>2. mem2[o] = mem[o] /\ mem[o].loc # b /\ mem[o].loc \in Backing
      BY <1>6, <3>1
    <3> QED
      BY <1>1, <1>3, <3>2 DEF GhostsListed
  <2> QED
    BY <2>2, <2>3
<1>11. Backed(bt, L \ {e}) /\ L \ {e} \subseteq Pte
  BY <1>1 DEF Backed
<1>12. \A o \in Frame : mem2[o] = mem[o] \/ mem2[o] = FreeEntry
  BY <1>5
<1> QED
  BY <1>1, <1>3, <1>5, <1>7, <1>8, <1>9, <1>10, <1>11, <1>12 DEF Sound, Typed, Agree

LEMMA GhostedRecord ==
  ASSUME NEW r \in PhysEntry, r.state \in {"REFERENCED", "PEND"}
  PROVE  /\ Ghosted(r) \in PhysEntry /\ Ghosted(r).state \in GhostStates
         /\ Ghosted(r).loc = r.loc /\ Ghosted(r).dirty = r.dirty
         /\ \A p : EntryOf(p, Ghosted(r)) = EntryOf(p, r)
<1>1. /\ Ghosted(r) \in PhysEntry /\ Ghosted(r).state \in GhostStates
      /\ Ghosted(r).loc = r.loc /\ Ghosted(r).dirty = r.dirty
      /\ Referenced(Ghosted(r)) = Referenced(r)
  BY DEF Ghosted, PhysEntry, MemStates, GhostStates, Referenced
<1>2. \A p : EntryOf(p, Ghosted(r)) = EntryOf(p, r)
  BY <1>1, Zenon DEF EntryOf
<1> QED
  BY <1>1, <1>2

\* The last page of a file block in memory leaves a ghost.
Haunts(mem, pt, mb, bt, e, p, mem2, new, mb2) ==
  /\ bt[e] \in FileBlock /\ mb[bt[e]] = {e} /\ p = pt[e].ppage /\ p # Absent
  /\ mb2 = [mb EXCEPT ![bt[e]] = {Ghost(p)}]
  /\ new = [pt EXCEPT ![Ghost(p)] = pt[e]]
  /\ mem2 = [mem EXCEPT ![p] = Ghosted(@)]

LEMMA GhostLeft ==
  ASSUME NEW mem, NEW pt, NEW mb, NEW bt, NEW L, Sound(mem, pt, mb, bt, L),
         NEW e \in L, NEW p, NEW mem2, NEW new, NEW mb2,
         Haunts(mem, pt, mb, bt, e, p, mem2, new, mb2)
  PROVE  /\ Sound(mem2, new, mb2, bt, L \ {e})
         /\ p \in Frame /\ mem[p] \in PhysEntry /\ mem[p].state \in {"REFERENCED", "PEND"}
<1> USE DEF Haunts
<1> DEFINE b == bt[e]
           g == Ghost(p)
           r == mem[p]
           s == Ghosted(r)
<1>1. /\ mem \in [Ppage -> PhysEntry] /\ pt \in [Ptes -> Entry]
      /\ mb \in [Backing -> SUBSET Ptes] /\ bt \in [Pte -> Backing \cup {NoLoc}]
      /\ L \subseteq Pte /\ Recorded(mem) /\ Listed(mem, mb, bt, L)
      /\ GhostsListed(mem, mb) /\ Placed(mem, pt, mb) /\ Bits(mem, pt, mb)
      /\ Backed(bt, L)
  BY DEF Sound, Typed, Agree
<1>2. b \in Backing /\ b \in FileBlock /\ b \notin SwapBlock /\ mb[b] = {e}
      /\ mb[b] = Users(b, L, bt)
  BY LivePage, BackingIs
<1>3. p \in Frame
  <2>1. p \in Frame \cup {Absent, 0} /\ (p = 0 => b \in SwapBlock)
    BY NamedFrame
  <2> QED
    BY <1>2, <2>1
<1>4. /\ Holds(mem, p) /\ r.loc = b /\ r.state \in {"REFERENCED", "PEND"}
      /\ r \in PhysEntry /\ pt[e] = EntryOf(p, r)
  BY <1>3, LiveFrame
<1>5. /\ s \in PhysEntry /\ s.state \in GhostStates /\ s.loc = b
      /\ EntryOf(p, s) = EntryOf(p, r)
  BY <1>4, GhostedRecord
<1>6. g \in Ptes /\ g \notin Pte /\ e \in Ptes
  BY <1>1, <1>3, PteIs
<1>7. p \in Ppage /\ 0 # p /\ 0 \in Ppage /\ Frame \subseteq Ppage
  BY <1>3, FrameIs
<1>8. /\ mem2 \in [Ppage -> PhysEntry] /\ mem2[p] = s
      /\ \A o \in Ppage : o # p => mem2[o] = mem[o]
  <2>1. mem2 = [mem EXCEPT ![p] = s]
    OBVIOUS
  <2> HIDE DEF s
  <2> QED
    BY <1>1, <1>5, <1>7, <2>1
<1>9. /\ mb2 \in [Backing -> SUBSET Ptes] /\ mb2[b] = {g}
      /\ \A c \in Backing : c # b => mb2[c] = mb[c]
  BY <1>1, <1>2, <1>6
<1>10. ASSUME NEW c \in Backing, c # b PROVE g \notin mb[c]
  <2> SUFFICES ASSUME GhostOf(mem, mb, c), g \in mb[c] PROVE FALSE
    BY <1>1, <1>6 DEF Listed, Users
  <2>1. PICK o \in Frame : mb[c] = {Ghost(o)} /\ mem[o].loc = c
    BY DEF GhostOf
  <2>2. o = p
    BY <1>3, <2>1, PteIs
  <2> QED
    BY <1>4, <1>10, <2>1, <2>2
<1>11. /\ new \in [Ptes -> Entry] /\ new[g] = EntryOf(p, s)
       /\ \A c \in Backing : c # b => \A l \in mb[c] : new[l] = pt[l]
  <2>1. /\ new \in [Ptes -> Entry] /\ new[g] = pt[e]
        /\ \A l \in Ptes : l # g => new[l] = pt[l]
    BY <1>1, <1>6
  <2>2. new[g] = EntryOf(p, s)
    BY <1>4, <1>5, <2>1, Zenon
  <2>3. \A c \in Backing : c # b => \A l \in mb[c] : l \in Ptes /\ l # g
    BY <1>1, <1>10
  <2> HIDE DEF g, s
  <2> QED
    BY <2>1, <2>2, <2>3
<1>12. \A o \in Frame : Holds(mem, o) /\ mem[o].loc = b => o = p
  BY <1>3, <1>4, OneFrame
<1>13. /\ Users(b, L \ {e}, bt) = {}
       /\ \A c \in Backing : c # b => Users(c, L \ {e}, bt) = Users(c, L, bt)
  <2>1. Users(b, L \ {e}, bt) = Users(b, L, bt) \ {e}
    BY DEF Users
  <2>2. \A c \in Backing : c # b => Users(c, L \ {e}, bt) = Users(c, L, bt)
    BY DEF Users
  <2> QED
    BY <1>2, <2>1, <2>2
<1>0. g = Ghost(p)
  OBVIOUS
<1> HIDE DEF b, g, r, s
<1>14. /\ \A o \in Frame : o # p => mem2[o] = mem[o] /\ (Holds(mem2, o) <=> Holds(mem, o))
       /\ Holds(mem2, p) /\ mem2[p].loc = b /\ mem2[p].state \in GhostStates
  BY <1>5, <1>7, <1>8, StatesAre DEF Holds
<1>15. \A o \in Frame : o # p /\ Holds(mem, o) => mem[o].loc \in Backing /\ mem[o].loc # b
  BY <1>1, <1>12, HeldRecord
<1>16. Recorded(mem2)
  BY <1>1, <1>2, <1>5, <1>7, <1>8, StatesAre DEF Recorded
<1>17. Bits(mem2, new, mb2)
  <2> SUFFICES ASSUME NEW o \in Frame, Holds(mem2, o)
               PROVE  /\ mb2[mem2[o].loc] # {}
                      /\ \A l \in mb2[mem2[o].loc] : new[l] = EntryOf(o, mem2[o])
    BY DEF Bits
  <2>1. CASE o = p
    <3>1. mb2[mem2[o].loc] = {g} /\ new[g] = EntryOf(o, mem2[o])
      BY <1>8, <1>9, <1>11, <1>14, <2>1, Zenon
    <3> QED
      BY <3>1
  <2>2. CASE o # p
    <3>1. mem2[o] = mem[o] /\ Holds(mem, o)
      BY <1>14, <2>2
    <3>2. mem[o].loc \in Backing /\ mem[o].loc # b
      BY <1>15, <2>2, <3>1
    <3>3. mb[mem[o].loc] # {} /\ \A l \in mb[mem[o].loc] : pt[l] = EntryOf(o, mem[o])
      BY <1>1, <3>1 DEF Bits
    <3>4. mb2[mem[o].loc] = mb[mem[o].loc] /\ \A l \in mb[mem[o].loc] : new[l] = pt[l]
      BY <1>9, <1>11, <3>2
    <3>5. mb2[mem[o].loc] # {} /\ \A l \in mb2[mem[o].loc] : new[l] = EntryOf(o, mem[o])
      BY <3>3, <3>4
    <3> QED
      BY <3>1, <3>5
  <2> QED
    BY <2>1, <2>2
<1>18. Placed(mem2, new, mb2)
  <2> SUFFICES ASSUME NEW c \in Backing, NEW l \in mb2[c]
               PROVE  \/ \E o \in Frame : Holds(mem2, o) /\ mem2[o].loc = c
                      \/ new[l] = NullEntry
                      \/ c \in SwapBlock /\ new[l] = ZeroEntry
    BY DEF Placed
  <2>1. CASE c = b
    BY <1>3, <1>14, <2>1
  <2>2. CASE c # b
    <3>1. new[l] = pt[l] /\ l \in mb[c]
      BY <1>9, <1>11, <2>2
    <3>2. ASSUME NEW o \in Frame, Holds(mem, o), mem[o].loc = c
          PROVE  Holds(mem2, o) /\ mem2[o].loc = c
      <4>1. mem[p].loc = b
        BY <1>4 DEF r
      <4> QED
        BY <1>14, <2>2, <3>2, <4>1
    <3> QED
      BY <1>1, <3>1, <3>2 DEF Placed
  <2> QED
    BY <2>1, <2>2
<1>19. Listed(mem2, mb2, bt, L \ {e})
  <2> SUFFICES ASSUME NEW c \in Backing
               PROVE  \/ /\ mb2[c] = Users(c, L \ {e}, bt)
                         /\ c \in SwapBlock => \A l, o \in mb2[c] : l = o
                      \/ /\ Users(c, L \ {e}, bt) = {} /\ c \in FileBlock
                         /\ GhostOf(mem2, mb2, c)
    BY DEF Listed
  <2>1. CASE c = b
    <3>1. GhostOf(mem2, mb2, c)
      BY <1>0, <1>3, <1>9, <1>14, <2>1 DEF GhostOf
    <3>2. Users(c, L \ {e}, bt) = {} /\ c \in FileBlock
      <4>1. Users(b, L \ {e}, bt) = {} /\ b \in FileBlock
        BY <1>2, <1>13
      <4> QED
        BY <2>1, <4>1, Zenon
    <3> QED
      BY <3>1, <3>2, Zenon
  <2>2. CASE c # b
    <3>1. GhostOf(mem, mb, c) => GhostOf(mem2, mb2, c)
      <4>1. mem[p].loc = b
        BY <1>4 DEF r
      <4>2. ASSUME NEW o \in Frame, mem[o].loc = c PROVE mem2[o] = mem[o]
        BY <1>14, <2>2, <4>1, <4>2
      <4>3. mb2[c] = mb[c]
        BY <1>9, <2>2
      <4> QED
        BY <4>2, <4>3 DEF GhostOf
    <3>2. mb2[c] = mb[c] /\ Users(c, L \ {e}, bt) = Users(c, L, bt)
      BY <1>9, <1>13, <2>2
    <3> QED
      BY <1>1, <3>1, <3>2 DEF Listed
  <2> QED
    BY <2>1, <2>2
<1>20. GhostsListed(mem2, mb2)
  <2> SUFFICES ASSUME NEW o \in Frame, mem2[o].state \in GhostStates
               PROVE  mem2[o].loc \in FileBlock /\ mb2[mem2[o].loc] = {Ghost(o)}
    BY DEF GhostsListed
  <2>1. CASE o = p
    BY <1>0, <1>2, <1>9, <1>14, <2>1
  <2>2. CASE o # p
    <3>1. mem2[o] = mem[o] /\ Holds(mem, o)
      BY <1>14, <2>2, StatesAre DEF Holds
    <3> QED
      BY <1>1, <1>9, <1>15, <2>2, <3>1 DEF GhostsListed
  <2> QED
    BY <2>1, <2>2
<1>21. Backed(bt, L \ {e}) /\ L \ {e} \subseteq Pte
  BY <1>1 DEF Backed
<1> QED
  BY <1>1, <1>3, <1>4, <1>8, <1>9, <1>11, <1>16, <1>17, <1>18, <1>19, <1>20, <1>21
     DEF Sound, Typed, Agree, r

\* A page of a file leaves its block to others, or on disk.
DropsFile(pt, mb, bt, e, mb2) ==
  /\ bt[e] \in FileBlock /\ ~(mb[bt[e]] = {e} /\ pt[e].ppage # Absent)
  /\ mb2 = [mb EXCEPT ![bt[e]] = @ \ {e}]

LEMMA FilePageDropped ==
  ASSUME NEW mem, NEW pt, NEW mb, NEW bt, NEW L, Sound(mem, pt, mb, bt, L),
         NEW e \in L, NEW mb2, DropsFile(pt, mb, bt, e, mb2)
  PROVE  Sound(mem, pt, mb2, bt, L \ {e})
<1> USE DEF DropsFile
<1> DEFINE b == bt[e]
<1>1. /\ mem \in [Ppage -> PhysEntry] /\ pt \in [Ptes -> Entry]
      /\ mb \in [Backing -> SUBSET Ptes] /\ bt \in [Pte -> Backing \cup {NoLoc}]
      /\ L \subseteq Pte /\ Recorded(mem) /\ Listed(mem, mb, bt, L)
      /\ GhostsListed(mem, mb) /\ Placed(mem, pt, mb) /\ Bits(mem, pt, mb)
      /\ Backed(bt, L)
  BY DEF Sound, Typed, Agree
<1>2. b \in Backing /\ b \notin SwapBlock /\ e \in mb[b] /\ mb[b] = Users(b, L, bt)
      /\ e \in Pte
  BY LivePage, BackingIs
<1>3. /\ mb2 \in [Backing -> SUBSET Ptes] /\ mb2[b] = mb[b] \ {e}
      /\ \A c \in Backing : c # b => mb2[c] = mb[c]
  BY <1>1, <1>2
<1>4. /\ Users(b, L \ {e}, bt) = mb2[b]
      /\ \A c \in Backing : c # b => Users(c, L \ {e}, bt) = Users(c, L, bt)
  <2>1. Users(b, L \ {e}, bt) = Users(b, L, bt) \ {e}
    BY DEF Users
  <2>2. \A c \in Backing : c # b => Users(c, L \ {e}, bt) = Users(c, L, bt)
    BY DEF Users
  <2> QED
    BY <1>2, <1>3, <2>1, <2>2
<1>5. ASSUME NEW o \in Frame, Holds(mem, o), mem[o].loc = b PROVE mb2[b] # {}
  <2>1. pt[e].ppage \in Frame
    BY <1>5, NamedFrame
  <2>2. pt[e].ppage # Absent
    BY <2>1, FrameIs
  <2> QED
    BY <1>2, <1>3, <2>2
<1>6. \A o \in Frame : mem[o].state \in GhostStates => mem[o].loc # b
  BY <1>1, <1>2, PteIs DEF GhostsListed
<1> HIDE DEF b
<1>7. \A o \in Frame : Holds(mem, o) => mem[o].loc \in Backing
  BY <1>1, HeldRecord
<1>8. Bits(mem, pt, mb2)
  <2> SUFFICES ASSUME NEW o \in Frame, Holds(mem, o)
               PROVE  /\ mb2[mem[o].loc] # {}
                      /\ \A l \in mb2[mem[o].loc] : pt[l] = EntryOf(o, mem[o])
    BY DEF Bits
  <2>1. mb[mem[o].loc] # {} /\ \A l \in mb[mem[o].loc] : pt[l] = EntryOf(o, mem[o])
    BY <1>1 DEF Bits
  <2>2. CASE mem[o].loc = b
    <3>1. mb2[mem[o].loc] # {} /\ mb2[mem[o].loc] = mb[mem[o].loc] \ {e}
      BY <1>3, <1>5, <2>2
    <3> QED
      BY <2>1, <3>1
  <2>3. CASE mem[o].loc # b
    <3>1. mb2[mem[o].loc] = mb[mem[o].loc]
      BY <1>3, <1>7, <2>3
    <3> QED
      BY <2>1, <3>1
  <2> QED
    BY <2>2, <2>3
<1>9. Placed(mem, pt, mb2)
  <2> SUFFICES ASSUME NEW c \in Backing, NEW l \in mb2[c]
               PROVE  \/ \E o \in Frame : Holds(mem, o) /\ mem[o].loc = c
                      \/ pt[l] = NullEntry
                      \/ c \in SwapBlock /\ pt[l] = ZeroEntry
    BY DEF Placed
  <2>1. l \in mb[c]
    BY <1>3
  <2> QED
    BY <1>1, <2>1 DEF Placed
<1>10. Listed(mem, mb2, bt, L \ {e})
  <2> SUFFICES ASSUME NEW c \in Backing
               PROVE  \/ /\ mb2[c] = Users(c, L \ {e}, bt)
                         /\ c \in SwapBlock => \A l, o \in mb2[c] : l = o
                      \/ /\ Users(c, L \ {e}, bt) = {} /\ c \in FileBlock
                         /\ GhostOf(mem, mb2, c)
    BY DEF Listed
  <2>1. CASE c = b
    <3>1. mb2[c] = Users(c, L \ {e}, bt) /\ c \notin SwapBlock
      BY <1>2, <1>4, <2>1
    <3> QED
      BY <3>1
  <2>2. CASE c # b
    <3>1. GhostOf(mem, mb, c) => GhostOf(mem, mb2, c)
      BY <1>3, <2>2 DEF GhostOf
    <3>2. mb2[c] = mb[c] /\ Users(c, L \ {e}, bt) = Users(c, L, bt)
      BY <1>3, <1>4, <2>2
    <3> QED
      BY <1>1, <3>1, <3>2 DEF Listed
  <2> QED
    BY <2>1, <2>2
<1>11. GhostsListed(mem, mb2)
  <2> SUFFICES ASSUME NEW o \in Frame, mem[o].state \in GhostStates
               PROVE  mem[o].loc \in FileBlock /\ mb2[mem[o].loc] = {Ghost(o)}
    BY DEF GhostsListed
  <2>1. mem[o].loc \in FileBlock /\ mb[mem[o].loc] = {Ghost(o)} /\ mem[o].loc # b
    BY <1>1, <1>6 DEF GhostsListed
  <2>2. mem[o].loc \in Backing
    BY <2>1 DEF Backing
  <2>3. mb2[mem[o].loc] = mb[mem[o].loc]
    BY <1>3, <2>1, <2>2
  <2> QED
    BY <2>1, <2>3
<1>12. Backed(bt, L \ {e}) /\ L \ {e} \subseteq Pte
  BY <1>1 DEF Backed
<1> QED
  BY <1>1, <1>3, <1>8, <1>9, <1>10, <1>11, <1>12 DEF Sound, Typed, Agree

\* Entries that belong to no backing, and the backings of pages that are gone, may
\* be erased.
Erases(pt, mb, bt, L, new, bt2) ==
  /\ new \in [Ptes -> Entry] /\ bt2 \in [Pte -> Backing \cup {NoLoc}]
  /\ \A c \in Backing : \A l \in mb[c] : new[l] = pt[l]
  /\ \A l \in L : bt2[l] = bt[l]

LEMMA TablesErased ==
  ASSUME NEW mem, NEW pt, NEW mb, NEW bt, NEW L, Sound(mem, pt, mb, bt, L),
         NEW new, NEW bt2, Erases(pt, mb, bt, L, new, bt2)
  PROVE  Sound(mem, new, mb, bt2, L)
<1> USE DEF Erases
<1>1. /\ mem \in [Ppage -> PhysEntry] /\ pt \in [Ptes -> Entry]
      /\ mb \in [Backing -> SUBSET Ptes]
      /\ L \subseteq Pte /\ Recorded(mem) /\ Listed(mem, mb, bt, L)
      /\ GhostsListed(mem, mb) /\ Placed(mem, pt, mb) /\ Bits(mem, pt, mb)
      /\ Backed(bt, L)
  BY DEF Sound, Typed, Agree
<1>2. \A o \in Frame : Holds(mem, o) => mem[o].loc \in Backing
  BY <1>1, HeldRecord
<1>3. Bits(mem, new, mb)
  BY <1>1, <1>2 DEF Bits
<1>4. Placed(mem, new, mb)
  BY <1>1 DEF Placed
<1>5. \A c \in Backing : Users(c, L, bt2) = Users(c, L, bt)
  BY DEF Users
<1>6. Listed(mem, mb, bt2, L)
  BY <1>1, <1>5 DEF Listed
<1>7. Backed(bt2, L)
  BY <1>1 DEF Backed
<1> QED
  BY <1>1, <1>3, <1>4, <1>6, <1>7 DEF Sound, Typed, Agree

\* At first nothing is mapped.
LEMMA SoundAtFirst ==
  ASSUME Init PROVE Sound(PhysMem, pte, MappedBlocks, bte, {})
<1>1. /\ PhysMem = [p \in Ppage |-> IF p = 0 THEN PinnedEntry ELSE FreeEntry]
      /\ pte = [e \in Ptes |-> NullEntry] /\ bte = [e \in Pte |-> NoLoc]
      /\ MappedBlocks = [b \in Backing |-> {}]
  BY DEF Init, FramesInit
<1>2. Typed(PhysMem, pte, MappedBlocks, bte, {})
  BY <1>1, EntriesAre, StatesAre DEF Typed
<1>3. PhysMem[0] = PinnedEntry /\ \A p \in Frame : PhysMem[p] = FreeEntry
  BY <1>1, FrameIs
<1>4. \A p \in Frame : ~Holds(PhysMem, p) /\ PhysMem[p].state \notin GhostStates
  BY <1>3, StatesAre DEF Holds
<1>5. \A b \in Backing : MappedBlocks[b] = {} /\ Users(b, {}, bte) = {}
  BY <1>1 DEF Users
<1>6. Agree(PhysMem, pte, MappedBlocks, bte, {})
  BY <1>3, <1>4, <1>5
     DEF Agree, Recorded, Bits, Placed, Listed, GhostsListed, Backed
<1> QED
  BY <1>2, <1>6 DEF Sound

-----------------------------------------------------------------------------
(* get_ppage.                                                              *)

LEMMA InvSound ==
  ASSUME OInv
  PROVE  Sound(PhysMem, pte, MappedBlocks, bte, Live)
<1>1. Live \subseteq Pte
  BY DEF Live
<1> QED
  BY <1>1 DEF OInv, TypeOK, Sound, Typed

\* The frame to evict is in use, and so are those the clock passes.
LEMMA VictimHeld ==
  ASSUME OInv, call.op # "exit", Evicts
  PROVE  /\ Hand \in 1..Len(MemQueue) /\ Victim \in Frame /\ Holds(PhysMem, Victim)
         /\ \A p \in Passed : p \in Frame /\ Holds(PhysMem, p)
<1>1. /\ MemQueue \in Seq(Frame) /\ Range(MemQueue) \cup Range(FreePhys) = Frame
      /\ \A p \in Range(MemQueue) : Holds(PhysMem, p)
  BY DEF OInv, Dealt, Queued
<1>2. Len(MemQueue) \in Nat /\ DOMAIN MemQueue = 1..Len(MemQueue)
  BY <1>1, LenProperties
<1>3. Range(FreePhys) = {}
  BY DEF Evicts, Range
<1>4. Len(MemQueue) # 0
  <2> SUFFICES ASSUME Len(MemQueue) = 0 PROVE FALSE
    OBVIOUS
  <2>1. Range(MemQueue) = {}
    BY <1>2 DEF Range
  <2> QED
    BY <1>1, <1>3, <2>1, FrameIs
<1>5. Hand \in 1..Len(MemQueue)
  <2>1. CASE Pending = {}
    BY <1>2, <1>4, <2>1 DEF Hand
  <2>2. CASE Pending # {}
    <3>1. Pending \subseteq 1..Len(MemQueue) /\ Pending \in SUBSET Nat
      BY <1>2 DEF Pending
    <3>2. Min(Pending) \in Pending
      BY <2>2, <3>1, MinInSet
    <3> QED
      BY <2>2, <3>1, <3>2 DEF Hand
  <2> QED
    BY <2>1, <2>2
<1>6. \A i \in 1..Len(MemQueue) : MemQueue[i] \in Frame /\ Holds(PhysMem, MemQueue[i])
  BY <1>1, <1>2, ElementOfSeq, InRange
<1>7. \A p \in Passed : \E i \in 1..Len(MemQueue) : p = MemQueue[i]
  BY <1>2, <1>5 DEF Passed
<1> QED
  BY <1>5, <1>6, <1>7 DEF Victim

LEMMA GotQueues ==
  ASSUME OInv, call.op # "exit"
  PROVE  /\ get_ppage \in Frame /\ Dealt(GotQueue, GotFree, {get_ppage})
         /\ ~Evicts => PhysMem[get_ppage] = FreeEntry
         /\ \A p \in Range(GotFree) : PhysMem[p] = FreeEntry
         /\ \A p \in Range(GotQueue) : Holds(PhysMem, p)
<1>1. /\ MemQueue \in Seq(Frame) /\ IsInjective(MemQueue)
      /\ FreePhys \in Seq(Frame) /\ IsInjective(FreePhys)
      /\ Range(MemQueue) \cap Range(FreePhys) = {}
      /\ Range(MemQueue) \cup Range(FreePhys) = Frame
      /\ \A p \in Range(FreePhys) : PhysMem[p] = FreeEntry
      /\ \A p \in Range(MemQueue) : Holds(PhysMem, p)
  BY DEF OInv, Dealt, Queued
<1>2. CASE Evicts
  <2> DEFINE k == Hand - 1
             s == SubSeq(MemQueue, 1, k)
             r == Ring(MemQueue, k, s)
  <2>1. Hand \in 1..Len(MemQueue) /\ Len(MemQueue) \in Nat
    BY <1>1, <1>2, VictimHeld, LenProperties
  <2>2. k \in 0..(Len(MemQueue) - 1) /\ k \in 0..Len(MemQueue) /\ k + 1 = Hand
    BY <2>1
  <2> HIDE DEF k
  <2>3. Head(r) = MemQueue[k + 1] /\ Tail(r) = Ring(MemQueue, k + 1, s)
    BY <1>1, <2>2, RoundTurns
  <2>4. r \in Seq(Frame) /\ IsInjective(r) /\ Range(r) = Range(MemQueue)
    BY <1>1, <2>2, RoundPermutes
  <2>5. Tail(r) = GotQueue
    BY <1>2, <2>2, <2>3, Zenon DEF GotQueue, Ring, k
  <2>6. Head(r) = get_ppage
    BY <1>2, <2>2, <2>3, Zenon DEF get_ppage, Victim
  <2> HIDE DEF r
  <2>7. Range(FreePhys) = {} /\ GotFree = FreePhys
    BY <1>2 DEF Evicts, Range, GotFree
  <2>8. r # <<>>
    <3>1. 1 \in Range(r)
      BY <1>1, <2>4, <2>7, FrameIs
    <3>2. Range(<<>>) = {}
      BY DEF Range
    <3> QED
      BY <3>1, <3>2
  <2>9. /\ Head(r) \in Frame /\ Tail(r) \in Seq(Frame) /\ IsInjective(Tail(r))
        /\ Range(Tail(r)) = Range(r) \ {Head(r)}
    BY <2>4, <2>8, TailWithoutHead
  <2>10. /\ get_ppage \in Frame /\ GotQueue \in Seq(Frame) /\ IsInjective(GotQueue)
         /\ Range(GotQueue) = Range(MemQueue) \ {get_ppage}
    BY <2>4, <2>5, <2>6, <2>9
  <2> QED
    BY <1>1, <1>2, <2>7, <2>10 DEF Dealt
<1>3. CASE ~Evicts
  <2>1. get_ppage = Head(FreePhys) /\ GotFree = Tail(FreePhys) /\ GotQueue = MemQueue
        /\ FreePhys # <<>>
    BY <1>3 DEF get_ppage, GotFree, GotQueue, Evicts
  <2>2. /\ Head(FreePhys) \in Range(FreePhys) /\ Head(FreePhys) \in Frame
        /\ Tail(FreePhys) \in Seq(Frame) /\ IsInjective(Tail(FreePhys))
        /\ Range(Tail(FreePhys)) = Range(FreePhys) \ {Head(FreePhys)}
    BY <1>1, <2>1, TailWithoutHead
  <2>3. /\ get_ppage \in Range(FreePhys) /\ get_ppage \in Frame
        /\ GotFree \in Seq(Frame) /\ IsInjective(GotFree)
        /\ Range(GotFree) = Range(FreePhys) \ {get_ppage}
    BY <2>1, <2>2
  <2> QED
    BY <1>1, <2>1, <2>3 DEF Dealt
<1> QED
  BY <1>2, <1>3

\* The records it leaves, and the entries.
LEMMA GotRecords ==
  ASSUME OInv, call.op # "exit"
  PROVE  /\ GotMem \in [Ppage -> PhysEntry] /\ GotMem[0] = PhysMem[0]
         /\ GotMem[get_ppage] = FreeEntry
         /\ \A p \in Frame : p # get_ppage =>
              /\ Holds(GotMem, p) <=> Holds(PhysMem, p)
              /\ ~Holds(PhysMem, p) => GotMem[p] = FreeEntry
              /\ GotMem[p].loc = PhysMem[p].loc /\ GotMem[p].dirty = PhysMem[p].dirty
              /\ GotMem[p].state \in GhostStates <=> PhysMem[p].state \in GhostStates
<1>1. PhysMem \in [Ppage -> PhysEntry] /\ Recorded(PhysMem)
  BY DEF OInv, TypeOK, Agree
<1>2. get_ppage \in Frame /\ (~Evicts => PhysMem[get_ppage] = FreeEntry)
  BY GotQueues
<1>3. CASE Evicts
  <2> DEFINE V == Victim
  <2>1. /\ V \in Frame /\ get_ppage = V
        /\ \A p \in Passed : p \in Frame /\ Holds(PhysMem, p)
    BY <1>3, VictimHeld DEF get_ppage
  <2>2. GotMem = [p \in Ppage |-> IF p = V THEN FreeEntry
                                  ELSE IF p \in Passed THEN Aged(PhysMem[p])
                                  ELSE PhysMem[p]]
    BY <1>3, Zenon DEF GotMem
  <2> HIDE DEF V
  <2>3. ASSUME NEW p \in Passed
        PROVE  /\ p \in Frame /\ Aged(PhysMem[p]) \in PhysEntry
               /\ Aged(PhysMem[p]).state \in Used /\ Aged(PhysMem[p]).loc = PhysMem[p].loc
               /\ Aged(PhysMem[p]).dirty = PhysMem[p].dirty
               /\ Aged(PhysMem[p]).state \in GhostStates <=> PhysMem[p].state \in GhostStates
    <3>1. p \in Frame /\ PhysMem[p] \in PhysEntry /\ PhysMem[p].state \in Used
      BY <1>1, <2>1, HeldRecord
    <3> QED
      BY <3>1, AgedRecord
  <2>4. 0 \in Ppage /\ 0 \notin Frame /\ Frame \subseteq Ppage
    BY FrameIs
  <2>5. \A p \in Ppage : GotMem[p] = IF p = V THEN FreeEntry
                                     ELSE IF p \in Passed THEN Aged(PhysMem[p])
                                     ELSE PhysMem[p]
    BY <2>2
  <2>6. GotMem \in [Ppage -> PhysEntry]
    BY <1>1, <2>2, <2>3, StatesAre
  <2>7. GotMem[0] = PhysMem[0] /\ GotMem[V] = FreeEntry
    BY <2>1, <2>3, <2>4, <2>5
  <2>8. ASSUME NEW p \in Frame, p # V
        PROVE  /\ Holds(GotMem, p) <=> Holds(PhysMem, p)
               /\ ~Holds(PhysMem, p) => GotMem[p] = FreeEntry
               /\ GotMem[p].loc = PhysMem[p].loc /\ GotMem[p].dirty = PhysMem[p].dirty
               /\ GotMem[p].state \in GhostStates <=> PhysMem[p].state \in GhostStates
    <3>1. CASE p \in Passed
      <4>1. GotMem[p] = Aged(PhysMem[p]) /\ Holds(PhysMem, p)
        BY <2>1, <2>4, <2>5, <2>8, <3>1
      <4> QED
        BY <2>3, <3>1, <4>1, StatesAre DEF Holds
    <3>2. CASE p \notin Passed
      <4>1. GotMem[p] = PhysMem[p]
        BY <2>4, <2>5, <2>8, <3>2
      <4> QED
        BY <1>1, <4>1, HeldRecord DEF Holds
    <3> QED
      BY <3>1, <3>2
  <2> QED
    BY <2>1, <2>6, <2>7, <2>8
<1>4. CASE ~Evicts
  <2>1. GotMem = PhysMem
    BY <1>4 DEF GotMem
  <2> QED
    BY <1>1, <1>2, <1>4, <2>1, HeldRecord
<1> QED
  BY <1>3, <1>4

LEMMA GotEntries ==
  ASSUME OInv, call.op # "exit"
  PROVE  /\ GotPte \in [Ptes -> Entry]
         /\ \A p \in Frame : p # get_ppage /\ Holds(PhysMem, p) =>
              \A e \in Mapped(p) : GotPte[e] = EntryOf(p, GotMem[p])
         /\ Evicts => \A e \in Mapped(Victim) : GotPte[e] = NullEntry
         /\ \A b \in Backing : \A e \in MappedBlocks[b] :
              pte[e].ppage \notin Frame => GotPte[e] = pte[e]
<1>1. Sound(PhysMem, pte, MappedBlocks, bte, Live)
  BY InvSound
<1>2. /\ PhysMem \in [Ppage -> PhysEntry] /\ Recorded(PhysMem) /\ pte \in [Ptes -> Entry]
      /\ MappedBlocks \in [Backing -> SUBSET Ptes]
  BY DEF OInv, TypeOK, Agree
<1>3. ASSUME NEW p \in Frame, Holds(PhysMem, p), NEW e \in Mapped(p)
      PROVE  /\ e \in Ptes /\ pte[e] = EntryOf(p, PhysMem[p]) /\ pte[e].ppage = p
  BY <1>1, <1>3, EntryAt DEF Mapped
<1>4. \A b \in Backing : MappedBlocks[b] \subseteq Ptes
  BY <1>2
<1>5. CASE Evicts
  <2>1. /\ Victim \in Frame /\ Holds(PhysMem, Victim) /\ get_ppage = Victim
        /\ \A p \in Passed : p \in Frame /\ Holds(PhysMem, p)
    BY <1>5, VictimHeld DEF get_ppage
  <2>2. GotPte = [e \in Ptes |->
                    IF e \in Mapped(Victim) THEN NullEntry
                    ELSE IF \E p \in Passed : e \in Mapped(p) THEN Unreadable(pte[e])
                    ELSE pte[e]]
    BY <1>5 DEF GotPte
  <2>3. \A e \in Ptes : GotPte[e] =
                    IF e \in Mapped(Victim) THEN NullEntry
                    ELSE IF \E p \in Passed : e \in Mapped(p) THEN Unreadable(pte[e])
                    ELSE pte[e]
    BY <2>2
  <2>4. GotPte \in [Ptes -> Entry]
    BY <1>2, <2>2, EntriesAre
  <2>5. GotMem = [p \in Ppage |-> IF p = Victim THEN FreeEntry
                                  ELSE IF p \in Passed THEN Aged(PhysMem[p])
                                  ELSE PhysMem[p]]
    BY <1>5, Zenon DEF GotMem
  <2>6. ASSUME NEW p \in Frame, p # Victim, Holds(PhysMem, p), NEW e \in Mapped(p)
        PROVE  GotPte[e] = EntryOf(p, GotMem[p])
    <3>1. e \in Ptes /\ pte[e] = EntryOf(p, PhysMem[p]) /\ pte[e].ppage = p
      BY <1>3, <2>6
    <3>2. e \notin Mapped(Victim)
      BY <1>3, <2>1, <2>6, <3>1
    <3>3. CASE p \in Passed
      <4>1. GotPte[e] = Unreadable(pte[e])
        BY <2>3, <2>6, <3>1, <3>2, <3>3
      <4>2. GotMem[p] = Aged(PhysMem[p])
        BY <2>5, <2>6, <3>3, FrameIs
      <4>3. PhysMem[p] \in PhysEntry /\ PhysMem[p].state \in Used
        BY <1>2, <2>6, HeldRecord
      <4>4. EntryOf(p, Aged(PhysMem[p])) = Unreadable(EntryOf(p, PhysMem[p]))
        BY <4>3, AgedRecord
      <4> QED
        BY <3>1, <4>1, <4>2, <4>4
    <3>4. CASE p \notin Passed
      <4>1. ~\E o \in Passed : e \in Mapped(o)
        BY <1>3, <2>1, <3>1, <3>4
      <4>2. GotPte[e] = pte[e]
        BY <2>3, <3>1, <3>2, <4>1
      <4>3. GotMem[p] = PhysMem[p]
        BY <2>5, <2>6, <3>4, FrameIs
      <4> QED
        BY <3>1, <4>2, <4>3
    <3> QED
      BY <3>3, <3>4
  <2>7. \A e \in Mapped(Victim) : GotPte[e] = NullEntry
    BY <1>3, <2>1, <2>3
  <2>8. ASSUME NEW b \in Backing, NEW e \in MappedBlocks[b], pte[e].ppage \notin Frame
        PROVE  GotPte[e] = pte[e]
    <3>1. \A p \in Frame : Holds(PhysMem, p) => e \notin Mapped(p)
      BY <1>3, <2>8
    <3>2. e \in Ptes
      BY <1>4
    <3> QED
      BY <2>1, <2>3, <3>1, <3>2
  <2> QED
    BY <2>1, <2>4, <2>6, <2>7, <2>8
<1>6. CASE ~Evicts
  <2>1. GotPte = [e \in Ptes |-> pte[e]]
    BY <1>6 DEF GotPte
  <2>2. GotPte = pte /\ GotMem = PhysMem
    BY <1>2, <1>6, <2>1 DEF GotMem
  <2> QED
    BY <1>2, <1>3, <1>6, <2>2
<1> QED
  BY <1>5, <1>6

LEMMA GotSound ==
  ASSUME OInv, call.op # "exit"
  PROVE  /\ Sound(GotMem, GotPte, GotMapped, bte, Live)
         /\ \A b \in SwapBlock : GotMapped[b] = MappedBlocks[b]
<1> DEFINE n == get_ppage
           mb == MappedBlocks
<1>1. /\ PhysMem \in [Ppage -> PhysEntry] /\ pte \in [Ptes -> Entry]
      /\ mb \in [Backing -> SUBSET Ptes] /\ bte \in [Pte -> Backing \cup {NoLoc}]
      /\ Recorded(PhysMem) /\ Listed(PhysMem, mb, bte, Live) /\ GhostsListed(PhysMem, mb)
      /\ Placed(PhysMem, pte, mb) /\ Bits(PhysMem, pte, mb) /\ Backed(bte, Live)
      /\ Sound(PhysMem, pte, mb, bte, Live) /\ Live \subseteq Pte
  BY InvSound DEF Sound, Typed, Agree
<1>2. n \in Frame /\ (~Evicts => PhysMem[n] = FreeEntry)
  BY GotQueues
<1>3. Evicts => n = Victim /\ Holds(PhysMem, n) /\ PhysMem[n].loc \in Backing
  BY <1>1, VictimHeld, HeldRecord DEF get_ppage
<1>4. /\ GotMem \in [Ppage -> PhysEntry] /\ GotMem[0] = PhysMem[0]
      /\ GotMem[n] = FreeEntry
      /\ \A p \in Frame : p # n =>
           /\ Holds(GotMem, p) <=> Holds(PhysMem, p)
           /\ ~Holds(PhysMem, p) => GotMem[p] = FreeEntry
           /\ GotMem[p].loc = PhysMem[p].loc /\ GotMem[p].dirty = PhysMem[p].dirty
           /\ GotMem[p].state \in GhostStates <=> PhysMem[p].state \in GhostStates
  BY GotRecords
<1>5. /\ GotPte \in [Ptes -> Entry]
      /\ \A p \in Frame : p # n /\ Holds(PhysMem, p) =>
           \A e \in mb[PhysMem[p].loc] : GotPte[e] = EntryOf(p, GotMem[p])
      /\ Evicts => \A e \in mb[PhysMem[Victim].loc] : GotPte[e] = NullEntry
      /\ \A b \in Backing : \A e \in mb[b] :
           pte[e].ppage \notin Frame => GotPte[e] = pte[e]
  BY GotEntries DEF Mapped
<1> HIDE DEF n, mb
<1>6. \A p \in Frame : Holds(GotMem, p) =>
        /\ p # n /\ Holds(PhysMem, p) /\ GotMem[p] \in PhysEntry
        /\ GotMem[p].loc = PhysMem[p].loc /\ PhysMem[p].loc \in Backing
  BY <1>1, <1>4, HeldRecord, FrameIs, StatesAre DEF Holds
\* The ghost evicted.
<1> DEFINE Gone == Evicts /\ PhysMem[n].state \in GhostStates
           v    == PhysMem[n].loc
<1>7. /\ GotMapped \in [Backing -> SUBSET Ptes]
      /\ Gone => v \in FileBlock /\ v \in Backing /\ mb[v] = {Ghost(n)}
      /\ \A b \in Backing : GotMapped[b] = IF Gone /\ b = v THEN {} ELSE mb[b]
  <2>1. Evicts => (IsGhost(Victim) <=> PhysMem[n].state \in GhostStates)
    BY <1>2, <1>3, FrameIs DEF IsGhost
  <2>2. CASE Gone
    <3>1. GotMapped = [mb EXCEPT ![v] = {}]
      BY <1>3, <2>1, <2>2 DEF GotMapped, mb
    <3>2. v \in FileBlock /\ mb[v] = {Ghost(n)}
      BY <1>1, <1>2, <2>2 DEF GhostsListed
    <3>3. v \in Backing
      BY <1>3, <2>2
    <3> HIDE DEF v
    <3> QED
      BY <1>1, <2>2, <3>1, <3>2, <3>3
  <2>3. CASE ~Gone
    <3>1. GotMapped = mb
      BY <2>1, <2>3 DEF GotMapped, mb
    <3> QED
      BY <1>1, <2>3, <3>1
  <2> QED
    BY <2>2, <2>3
<1>8. \A p \in Frame : p # n /\ Holds(PhysMem, p) /\ Evicts => PhysMem[p].loc # v
  BY <1>1, <1>2, <1>3, OneFrame
<1>9. Gone => n = Victim
  BY <1>3
<1> HIDE DEF Gone, v
<1>10. Recorded(GotMem)
  <2> SUFFICES ASSUME NEW p \in Frame, GotMem[p] # FreeEntry
               PROVE  GotMem[p].state \in Used /\ GotMem[p].loc \in Backing
    BY <1>1, <1>4 DEF Recorded
  <2>1. p # n /\ Holds(PhysMem, p)
    BY <1>4
  <2>2. PhysMem[p].state \in Used /\ PhysMem[p].loc \in Backing
    BY <1>1, <2>1, HeldRecord
  <2>3. GotMem[p].loc \in Backing /\ Holds(GotMem, p) /\ GotMem[p] \in PhysEntry
    BY <1>4, <2>1, <2>2, FrameIs
  <2>4. GotMem[p].state \in Used
    <3>1. CASE Evicts
      <4>1. GotMem[p] = PhysMem[p] \/ GotMem[p] = Aged(PhysMem[p])
        BY <1>3, <2>1, <3>1, FrameIs DEF GotMem
      <4>2. PhysMem[p] \in PhysEntry
        BY <1>1, FrameIs
      <4> QED
        BY <2>2, <4>1, <4>2, AgedRecord
    <3>2. CASE ~Evicts
      BY <2>2, <3>2 DEF GotMem
    <3> QED
      BY <3>1, <3>2
  <2> QED
    BY <2>3, <2>4
<1>11. Bits(GotMem, GotPte, GotMapped)
  <2> SUFFICES ASSUME NEW p \in Frame, Holds(GotMem, p)
               PROVE  /\ GotMapped[GotMem[p].loc] # {}
                      /\ \A e \in GotMapped[GotMem[p].loc] : GotPte[e] = EntryOf(p, GotMem[p])
    BY DEF Bits
  <2>1. p # n /\ Holds(PhysMem, p) /\ GotMem[p].loc = PhysMem[p].loc
        /\ PhysMem[p].loc \in Backing
    BY <1>6
  <2>2. Gone => PhysMem[p].loc # v
    BY <1>8, <2>1 DEF Gone
  <2>3. GotMapped[GotMem[p].loc] = mb[PhysMem[p].loc]
    BY <1>7, <2>1, <2>2
  <2>4. mb[PhysMem[p].loc] # {}
    BY <1>1, <2>1 DEF Bits
  <2> QED
    BY <1>5, <2>1, <2>3, <2>4
<1>12. Placed(GotMem, GotPte, GotMapped)
  <2> SUFFICES ASSUME NEW b \in Backing, NEW e \in GotMapped[b]
               PROVE  \/ \E p \in Frame : Holds(GotMem, p) /\ GotMem[p].loc = b
                      \/ GotPte[e] = NullEntry
                      \/ b \in SwapBlock /\ GotPte[e] = ZeroEntry
    BY DEF Placed
  <2>1. e \in mb[b]
    BY <1>7
  <2>2. CASE \E p \in Frame : Holds(PhysMem, p) /\ PhysMem[p].loc = b
    <3>1. PICK p \in Frame : Holds(PhysMem, p) /\ PhysMem[p].loc = b
      BY <2>2
    <3>2. CASE p = n
      <4>1. Evicts /\ p = Victim
        BY <1>2, <1>3, <3>1, <3>2, StatesAre DEF Holds
      <4> QED
        BY <1>5, <2>1, <3>1, <4>1
    <3>3. CASE p # n
      BY <1>4, <3>1, <3>3
    <3> QED
      BY <3>2, <3>3
  <2>3. CASE ~\E p \in Frame : Holds(PhysMem, p) /\ PhysMem[p].loc = b
    <3>1. pte[e] = NullEntry \/ (b \in SwapBlock /\ pte[e] = ZeroEntry)
      BY <1>1, <2>1, <2>3 DEF Placed
    <3>2. pte[e].ppage \notin Frame
      BY <3>1, EntriesAre, FrameIs
    <3>3. GotPte[e] = pte[e]
      BY <1>5, <2>1, <3>2
    <3> QED
      BY <3>1, <3>3
  <2> QED
    BY <2>2, <2>3
<1>13. Listed(GotMem, GotMapped, bte, Live)
  <2> SUFFICES ASSUME NEW b \in Backing
               PROVE  \/ /\ GotMapped[b] = Users(b, Live, bte)
                         /\ b \in SwapBlock => \A e, o \in GotMapped[b] : e = o
                      \/ /\ Users(b, Live, bte) = {} /\ b \in FileBlock
                         /\ GhostOf(GotMem, GotMapped, b)
    BY DEF Listed
  <2>1. \/ mb[b] = Users(b, Live, bte) /\ (b \in SwapBlock => \A e, o \in mb[b] : e = o)
        \/ Users(b, Live, bte) = {} /\ b \in FileBlock /\ GhostOf(PhysMem, mb, b)
    BY <1>1 DEF Listed
  <2>2. CASE Gone /\ b = v
    <3>1. GotMapped[b] = {} /\ mb[b] = {Ghost(n)} /\ b \in FileBlock /\ b \notin SwapBlock
      BY <1>7, <2>2, BackingIs
    <3>2. Users(b, Live, bte) = {}
      BY <1>1, <1>2, <2>1, <3>1, PteIs DEF Users
    <3> QED
      BY <3>1, <3>2
  <2>3. CASE ~(Gone /\ b = v)
    <3>1. GotMapped[b] = mb[b]
      BY <1>7, <2>3
    <3>2. ASSUME NEW p \in Frame, mb[b] = {Ghost(p)}, PhysMem[p].state \in GhostStates,
                 PhysMem[p].loc = b
          PROVE  GotMem[p].state \in GhostStates /\ GotMem[p].loc = b
      <4>1. p # n
        <5> SUFFICES ASSUME p = n PROVE FALSE
          OBVIOUS
        <5>1. Gone /\ b = v
          BY <1>2, <3>2, StatesAre DEF Gone, v
        <5> QED
          BY <2>3, <5>1
      <4> QED
        BY <1>4, <3>2, <4>1
    <3>3. GhostOf(PhysMem, mb, b) => GhostOf(GotMem, GotMapped, b)
      BY <3>1, <3>2, Zenon DEF GhostOf
    <3> QED
      BY <2>1, <3>1, <3>3, Zenon
  <2> QED
    BY <2>2, <2>3
<1>14. GhostsListed(GotMem, GotMapped)
  <2> SUFFICES ASSUME NEW p \in Frame, GotMem[p].state \in GhostStates
               PROVE  GotMem[p].loc \in FileBlock /\ GotMapped[GotMem[p].loc] = {Ghost(p)}
    BY DEF GhostsListed
  <2>1. Holds(GotMem, p)
    BY StatesAre DEF Holds
  <2>2. p # n /\ Holds(PhysMem, p) /\ GotMem[p].loc = PhysMem[p].loc
        /\ PhysMem[p].loc \in Backing
    BY <1>6, <2>1
  <2>3. PhysMem[p].state \in GhostStates
    BY <1>4, <2>2
  <2>4. PhysMem[p].loc \in FileBlock /\ mb[PhysMem[p].loc] = {Ghost(p)}
    BY <1>1, <2>3 DEF GhostsListed
  <2>5. Gone => PhysMem[p].loc # v
    BY <1>8, <2>2 DEF Gone
  <2> QED
    BY <1>7, <2>2, <2>4, <2>5
<1>15. \A b \in SwapBlock : GotMapped[b] = mb[b]
  BY <1>7, BackingIs DEF Backing
<1> QED
  BY <1>1, <1>4, <1>5, <1>7, <1>10, <1>11, <1>12, <1>13, <1>14, <1>15
     DEF Sound, Typed, Agree, mb

\* What it writes back is what the frame held.
LEMMA GotSaved ==
  ASSUME OInv, call.op # "exit"
  PROVE  GotDisk \in [Backing -> Data] /\ Saved(GotMem, phys, GotDisk, accessed)
<1>1. /\ PhysMem \in [Ppage -> PhysEntry] /\ Recorded(PhysMem)
      /\ disk \in [Backing -> Data] /\ phys \in [Ppage -> Data]
      /\ Saved(PhysMem, phys, disk, accessed)
      /\ Sound(PhysMem, pte, MappedBlocks, bte, Live)
  BY InvSound DEF OInv, TypeOK, Agree
<1>2. get_ppage \in Frame
  BY GotQueues
<1>3. Evicts => get_ppage = Victim /\ Holds(PhysMem, Victim) /\ PhysMem[Victim].loc \in Backing
  BY <1>1, <1>2, VictimHeld, HeldRecord DEF get_ppage
<1>4. \A p \in Frame : Holds(GotMem, p) =>
           /\ p # get_ppage /\ Holds(PhysMem, p)
           /\ GotMem[p].loc = PhysMem[p].loc /\ GotMem[p].dirty = PhysMem[p].dirty
  BY GotRecords, StatesAre DEF Holds
<1>5. GotDisk \in [Backing -> Data]
      /\ \A b \in Backing : (Evicts => b # PhysMem[Victim].loc) => GotDisk[b] = disk[b]
  BY <1>1, <1>2, <1>3, FrameIs DEF GotDisk
<1>6. ASSUME NEW p \in Frame, Holds(GotMem, p)
      PROVE  /\ GotMem[p].loc \in SwapBlock \cup accessed
             /\ ~GotMem[p].dirty => phys[p] = GotDisk[GotMem[p].loc]
  <2>1. /\ p # get_ppage /\ Holds(PhysMem, p)
        /\ GotMem[p].loc = PhysMem[p].loc /\ GotMem[p].dirty = PhysMem[p].dirty
    BY <1>4, <1>6
  <2>2. PhysMem[p].loc \in Backing
    BY <1>1, <2>1, HeldRecord
  <2>3. Evicts => PhysMem[p].loc # PhysMem[Victim].loc
    BY <1>1, <1>2, <1>3, <2>1, OneFrame
  <2>4. GotDisk[PhysMem[p].loc] = disk[PhysMem[p].loc]
    BY <1>5, <2>2, <2>3
  <2> QED
    BY <1>1, <2>1, <2>4 DEF Saved
<1> QED
  BY <1>5, <1>6 DEF Saved

-----------------------------------------------------------------------------
(* Parts of the invariant that the operations share.                       *)

\* What a fault may be followed by.
Resumes(c) ==
  /\ c \in Call /\ c.op # "none"
  /\ c.op = "exit" => c.vp = 0
  /\ c.op = "string" => next[running_pid] # NPages

ControlOK == call \in Call /\ CallOK /\ (call.op # "none" => running_pid \in DOMAIN next)

\* Neither a call nor its return takes a page away.
LEMMA ControlKept ==
  ASSUME OInv, call.op \notin {"exit", "none"}, Resumes(call'), UNCHANGED proc
  PROVE  Live' = Live /\ ControlOK' /\ (Unmapped <=> \A e \in Pte : ~InArena(e)' => pte[e] = NullEntry)
<1>1. running_pid' = running_pid /\ next' = next
  BY DEF proc
<1>2. running_pid \in DOMAIN next /\ next[running_pid] \in 0..NPages
  BY DEF OInv, TypeOK
<1>3. ControlOK'
  BY <1>1, <1>2 DEF ControlOK, Resumes, CallOK
<1>4. \A e \in Pte : e[2] \in Nat
  BY DEF Pte, Vpage
<1>5. Live' = Live
  BY <1>1, <1>4 DEF Live, Resumes
<1>6. \A e \in Pte : InArena(e)' <=> InArena(e)
  BY <1>1 DEF InArena
<1> QED
  BY <1>3, <1>5, <1>6 DEF Unmapped

\* A page in the arena of the running process, outside vm_destroy.
LEMMA MineLive ==
  ASSUME OInv, call.op \notin {"exit", "none"}, NEW v \in Vpage, v < next[running_pid]
  PROVE  Mine(v) \in Live /\ Mine(v) \in Pte
<1>1. running_pid \in DOMAIN next /\ running_pid \in Pid
  BY DEF OInv, TypeOK
<1>2. Mine(v)[1] = running_pid /\ Mine(v)[2] = v /\ Mine(v) \in Pte
  BY <1>1 DEF Mine, Pte
<1> QED
  BY <1>1, <1>2 DEF Live

\* An entry of no page is listed nowhere.
LEMMA NotListed ==
  ASSUME NEW mem, NEW pt, NEW mb, NEW bt, NEW L, Sound(mem, pt, mb, bt, L),
         NEW b \in Backing, NEW e \in Pte, e \notin L
  PROVE  e \notin mb[b]
<1>1. mb[b] = Users(b, L, bt) \/ GhostOf(mem, mb, b)
  BY DEF Sound, Agree, Listed
<1>2. \A p \in Frame : Ghost(p) # e
  BY PteIs
<1> QED
  BY <1>1, <1>2 DEF Users, GhostOf

LEMMA OutsideListed ==
  ASSUME OInv, NEW e \in Pte, ~InArena(e)
  PROVE  /\ e \notin Live /\ pte[e] = NullEntry
         /\ \A b \in Backing : e \notin MappedBlocks[b]
         /\ call.op # "exit" => GotPte[e] = NullEntry /\ \A b \in Backing : e \notin GotMapped[b]
<1>1. e \notin Live /\ pte[e] = NullEntry
  BY DEF Live, InArena, OInv, Unmapped
<1>2. \A b \in Backing : e \notin MappedBlocks[b]
  BY <1>1, InvSound, NotListed
<1>3. ASSUME call.op # "exit"
      PROVE  GotPte[e] = NullEntry /\ \A b \in Backing : e \notin GotMapped[b]
  <2>1. \A b \in Backing : e \notin GotMapped[b]
    <3>1. Sound(GotMem, GotPte, GotMapped, bte, Live)
      BY <1>3, GotSound
    <3> QED
      BY <1>1, <3>1, NotListed
  <2>2. e \in Ptes
    BY PteIs
  <2>3. CASE Evicts
    <3>1. \A p \in Passed : e \notin Mapped(p)
      <4>1. PhysMem \in [Ppage -> PhysEntry] /\ Recorded(PhysMem)
        BY DEF OInv, TypeOK, Agree
      <4>2. \A p \in Passed : p \in Frame /\ Holds(PhysMem, p)
        BY <1>3, <2>3, VictimHeld
      <4>3. \A p \in Passed : PhysMem[p].loc \in Backing
        BY <4>1, <4>2, HeldRecord
      <4> QED
        BY <1>2, <4>3, Zenon DEF Mapped
    <3>2. GotPte[e] = IF e \in Mapped(Victim) THEN NullEntry
                      ELSE IF \E p \in Passed : e \in Mapped(p) THEN Unreadable(pte[e])
                      ELSE pte[e]
      BY <2>2, <2>3 DEF GotPte
    <3> QED
      BY <1>1, <2>1, <3>1, <3>2, Zenon
  <2>4. CASE ~Evicts
    BY <1>1, <2>1, <2>2, <2>4 DEF GotPte
  <2> QED
    BY <2>1, <2>3, <2>4
<1> QED
  BY <1>1, <1>2, <1>3

\* A frame is put behind the clock, or back among the free ones.
LEMMA DealtBack ==
  ASSUME NEW q, NEW f, NEW n \in Frame, Dealt(q, f, {n})
  PROVE  /\ Dealt(Append(q, n), f, {}) /\ Range(Append(q, n)) = Range(q) \cup {n}
         /\ Dealt(q, Append(f, n), {}) /\ Range(Append(f, n)) = Range(f) \cup {n}
<1>1. /\ q \in Seq(Frame) /\ IsInjective(q) /\ f \in Seq(Frame) /\ IsInjective(f)
      /\ Range(q) \cap Range(f) = {} /\ Range(q) \cup Range(f) = Frame \ {n}
  BY DEF Dealt
<1>2. n \notin Range(q) /\ n \notin Range(f)
  BY <1>1
<1>3. /\ Append(q, n) \in Seq(Frame) /\ Range(Append(q, n)) = Range(q) \cup {n}
      /\ IsInjective(Append(q, n))
  BY <1>1, <1>2, Appended
<1>4. /\ Append(f, n) \in Seq(Frame) /\ Range(Append(f, n)) = Range(f) \cup {n}
      /\ IsInjective(Append(f, n))
  BY <1>1, <1>2, Appended
<1> HIDE DEF Dealt
<1>5. Dealt(Append(q, n), f, {})
  BY <1>1, <1>2, <1>3 DEF Dealt
<1>6. Dealt(q, Append(f, n), {})
  BY <1>1, <1>2, <1>4 DEF Dealt
<1> QED
  BY <1>3, <1>4, <1>5, <1>6

\* Swap space depends on the swap blocks that are listed only.
LEMMA LeastKept ==
  ASSUME FirstFreeLeast, UNCHANGED space,
         \A b \in SwapBlock : MappedBlocks'[b] = MappedBlocks[b]
  PROVE  FirstFreeLeast'
<1>1. SwapBlocks' = SwapBlocks /\ FirstFreeSwap' = FirstFreeSwap
  BY DEF space
<1>2. \A b \in Block : MappedBlocks'[<<SWAP, b>>] = MappedBlocks[<<SWAP, b>>]
  BY DEF SwapBlock
<1>3. {b \in Block : MappedBlocks'[<<SWAP, b>>] # {}}
      = {b \in Block : MappedBlocks[<<SWAP, b>>] # {}}
  BY <1>2
<1>4. {b \in 0..BlCnt : b \notin SwapBlocks'} = {b \in 0..BlCnt : b \notin SwapBlocks}
  BY <1>1
<1> QED
  BY <1>1, <1>3, <1>4, Zenon DEF FirstFreeLeast

\* The invariant from its parts.
LEMMA InvNext ==
  ASSUME ControlOK', DOMAIN next' \subseteq Pid, next' \in [DOMAIN next' -> 0..NPages],
         running_pid' \in Pid \cup {NoPid},
         Sound(PhysMem', pte', MappedBlocks', bte', Live'), Unmapped',
         phys' \in [Ppage -> Data], disk' \in [Backing -> Data],
         accessed' \subseteq FileBlock, SwapBlocks' \subseteq Block,
         FirstFreeSwap' \in 0..BlCnt,
         Saved(PhysMem', phys', disk', accessed'), Dealt(MemQueue', FreePhys', {}),
         \A p \in Range(FreePhys') : PhysMem'[p] = FreeEntry,
         call'.op # "exit" => \A p \in Range(MemQueue') : Holds(PhysMem', p),
         FirstFreeLeast'
  PROVE  OInv'
<1>1. TypeOK'
  BY DEF TypeOK, Sound, Typed, Dealt, ControlOK
<1>3. CallOK' /\ Agree(PhysMem', pte', MappedBlocks', bte', Live')
  BY DEF ControlOK, Sound
<1> QED
  BY <1>1, <1>3, Zenon DEF OInv, Queued

-----------------------------------------------------------------------------
(* vm_fault.                                                               *)

\* A page in memory is marked.
MarkSteps(e, p, r) ==
  /\ r \in PhysEntry /\ r.state = "REFERENCED" /\ r.loc = bte[e]
  /\ ~r.dirty => ~PhysMem[p].dirty
  /\ PhysMem' = [PhysMem EXCEPT ![p] = r]
  /\ pte' = [l \in Ptes |-> IF l \in Mapped(p) THEN EntryOf(p, r) ELSE pte[l]]
  /\ UNCHANGED <<proc, bte, MappedBlocks, MemQueue, FreePhys, space, data>>

LEMMA MarkKeeps ==
  ASSUME OInv, call.op \notin {"exit", "none"}, Resumes(call'),
         NEW e \in Live, NEW p \in Frame, p = pte[e].ppage, NEW r, MarkSteps(e, p, r)
  PROVE  OInv'
<1> DEFINE mb == MappedBlocks
<1>1. /\ r \in PhysEntry /\ r.state = "REFERENCED" /\ r.loc = bte[e]
      /\ ~r.dirty => ~PhysMem[p].dirty
      /\ PhysMem' = [PhysMem EXCEPT ![p] = r]
      /\ pte' = [l \in Ptes |-> IF l \in Mapped(p) THEN EntryOf(p, r) ELSE pte[l]]
      /\ UNCHANGED <<proc, bte, MappedBlocks, MemQueue, FreePhys, space, data>>
  BY Zenon DEF MarkSteps
<1>2. Sound(PhysMem, pte, mb, bte, Live)
  BY InvSound
<1>3. /\ Holds(PhysMem, p) /\ PhysMem[p].loc = bte[e] /\ PhysMem[p] \in PhysEntry
  BY <1>2, LiveFrame
<1>4. \A o \in Frame : Holds(PhysMem, o) /\ PhysMem[o].loc = bte[e] => o = p
  BY <1>2, <1>3, OneFrame
<1>5. pte' = [l \in Ptes |-> IF l \in mb[bte[e]] THEN EntryOf(p, r) ELSE pte[l]]
  BY <1>1, <1>3, Zenon DEF Mapped
<1>6. Fits(PhysMem, bte, e, p, r)
  BY <1>1, <1>3, <1>4 DEF Fits
<1>7. Sound(PhysMem', pte', mb, bte, Live)
  <2>1. Sets(PhysMem, pte, mb[bte[e]], p, r, PhysMem', pte')
    BY <1>1, <1>5, Zenon DEF Sets
  <2> QED
    BY <1>2, <1>6, <2>1, EntriesSet
<1>8. Live' = Live /\ ControlOK' /\ (Unmapped <=> \A l \in Pte : ~InArena(l)' => pte[l] = NullEntry)
  BY <1>1, ControlKept
<1>9. /\ MappedBlocks' = mb /\ bte' = bte /\ running_pid' = running_pid /\ next' = next
      /\ MemQueue' = MemQueue /\ FreePhys' = FreePhys /\ SwapBlocks' = SwapBlocks
      /\ FirstFreeSwap' = FirstFreeSwap /\ phys' = phys /\ disk' = disk
      /\ accessed' = accessed /\ UNCHANGED space
  BY <1>1 DEF proc, space, data
<1>10. Sound(PhysMem', pte', MappedBlocks', bte', Live')
  BY <1>7, <1>8, <1>9
<1>11. Unmapped'
  <2> SUFFICES ASSUME NEW l \in Pte, ~InArena(l)' PROVE pte'[l] = NullEntry
    BY DEF Unmapped
  <2>1. ~InArena(l)
    BY <1>9 DEF InArena
  <2>2. bte[e] \in Backing
    BY <1>2, LivePage
  <2>3. pte[l] = NullEntry /\ l \notin mb[bte[e]] /\ l \in Ptes
    BY <2>1, <2>2, OutsideListed, PteIs
  <2> QED
    BY <1>5, <2>3
<1>12. /\ PhysMem \in [Ppage -> PhysEntry] /\ Saved(PhysMem, phys, disk, accessed)
       /\ Dealt(MemQueue, FreePhys, {}) /\ Queued(PhysMem, MemQueue, FreePhys)
       /\ FirstFreeLeast
  BY DEF OInv, TypeOK
<1>13. PhysMem'[p] = r /\ \A o \in Frame : o # p => PhysMem'[o] = PhysMem[o]
  BY <1>1, <1>12, FrameIs
<1>14. Saved(PhysMem', phys', disk', accessed')
  <2> SUFFICES ASSUME NEW o \in Frame, Holds(PhysMem', o)
               PROVE  /\ PhysMem'[o].loc \in SwapBlock \cup accessed'
                      /\ ~PhysMem'[o].dirty => phys'[o] = disk'[PhysMem'[o].loc]
    BY DEF Saved
  <2>1. CASE o = p
    BY <1>1, <1>3, <1>9, <1>12, <1>13, <2>1 DEF Saved
  <2>2. CASE o # p
    BY <1>9, <1>12, <1>13, <2>2 DEF Saved, Holds
  <2> QED
    BY <2>1, <2>2
<1>15. /\ \A o \in Range(FreePhys') : PhysMem'[o] = FreeEntry
       /\ \A o \in Range(MemQueue') : Holds(PhysMem', o)
  <2>1. Range(FreePhys) \subseteq Frame /\ Range(MemQueue) \subseteq Frame
    BY <1>12 DEF Dealt
  <2>2. \A o \in Range(FreePhys) : PhysMem[o] = FreeEntry /\ o # p
    BY <1>3, <1>12, StatesAre DEF Queued, Holds
  <2>3. \A o \in Range(MemQueue) : Holds(PhysMem, o)
    BY <1>12 DEF Queued
  <2>4. Holds(PhysMem', p)
    BY <1>1, <1>13 DEF Holds
  <2> QED
    BY <1>9, <1>13, <2>1, <2>2, <2>3, <2>4 DEF Holds
<1>16. FirstFreeLeast'
  BY <1>9, <1>12, LeastKept
<1>17. /\ DOMAIN next' \subseteq Pid /\ next' \in [DOMAIN next' -> 0..NPages]
       /\ running_pid' \in Pid \cup {NoPid} /\ phys' \in [Ppage -> Data]
       /\ disk' \in [Backing -> Data] /\ accessed' \subseteq FileBlock
       /\ SwapBlocks' \subseteq Block /\ FirstFreeSwap' \in 0..BlCnt
       /\ Dealt(MemQueue', FreePhys', {})
  BY <1>9, <1>12 DEF OInv, TypeOK
<1> QED
  BY <1>8, <1>10, <1>11, <1>14, <1>15, <1>16, <1>17, InvNext

\* A page that is not in memory gets a frame.
FillSteps(e, r, x) ==
  /\ r \in PhysEntry /\ r.state = "REFERENCED" /\ r.loc = bte[e]
  /\ x \in Data /\ (~r.dirty => x = GotDisk[bte[e]])
  /\ PhysMem' = [GotMem EXCEPT ![get_ppage] = r]
  /\ MemQueue' = Append(GotQueue, get_ppage) /\ FreePhys' = GotFree
  /\ phys' = [phys EXCEPT ![get_ppage] = x] /\ disk' = GotDisk
  /\ accessed \subseteq accessed' /\ accessed' \subseteq FileBlock
  /\ bte[e] \in SwapBlock \cup accessed'
  /\ MappedBlocks' = GotMapped
  /\ pte' = [l \in Ptes |-> IF l \in GotMapped[bte[e]] THEN EntryOf(get_ppage, r)
                            ELSE GotPte[l]]
  /\ UNCHANGED <<proc, bte, space>>

\* It is as absent from memory once get_ppage has aged the others.
LEMMA StillAbsent ==
  ASSUME OInv, call.op # "exit", NEW e \in Live, pte[e].ppage \notin Frame
  PROVE  /\ GotPte[e] = pte[e] /\ bte[e] \in Backing
         /\ \A p \in Frame : Holds(GotMem, p) => GotMem[p].loc # bte[e]
<1>1. Sound(PhysMem, pte, MappedBlocks, bte, Live)
  BY InvSound
<1>2. bte[e] \in Backing /\ e \in MappedBlocks[bte[e]]
  BY <1>1, LivePage
<1>3. GotPte[e] = pte[e]
  BY <1>2, GotEntries
<1>4. Sound(GotMem, GotPte, GotMapped, bte, Live)
  BY GotSound
<1>5. GotPte[e].ppage \notin Frame
  BY <1>3
<1>6. \A p \in Frame : Holds(GotMem, p) => GotMem[p].loc # bte[e]
  BY <1>4, <1>5, NamedFrame
<1> QED
  BY <1>2, <1>3, <1>6

LEMMA FillKeeps ==
  ASSUME OInv, call.op \notin {"exit", "none"}, Resumes(call'),
         NEW e \in Live, pte[e].ppage \notin Frame, NEW r, NEW x, FillSteps(e, r, x)
  PROVE  OInv'
<1> DEFINE n == get_ppage
<1>1. /\ r \in PhysEntry /\ r.state = "REFERENCED" /\ r.loc = bte[e]
      /\ x \in Data /\ (~r.dirty => x = GotDisk[bte[e]])
      /\ PhysMem' = [GotMem EXCEPT ![n] = r]
      /\ MemQueue' = Append(GotQueue, n) /\ FreePhys' = GotFree
      /\ phys' = [phys EXCEPT ![n] = x] /\ disk' = GotDisk
      /\ accessed \subseteq accessed' /\ accessed' \subseteq FileBlock
      /\ bte[e] \in SwapBlock \cup accessed'
      /\ MappedBlocks' = GotMapped
      /\ pte' = [l \in Ptes |-> IF l \in GotMapped[bte[e]] THEN EntryOf(n, r)
                                ELSE GotPte[l]]
      /\ UNCHANGED <<proc, bte, space>>
  BY Zenon DEF FillSteps
<1>2. call.op # "exit"
  OBVIOUS
<1>3. Sound(GotMem, GotPte, GotMapped, bte, Live)
      /\ \A b \in SwapBlock : GotMapped[b] = MappedBlocks[b]
  BY <1>2, GotSound
<1>4. n \in Frame /\ Dealt(GotQueue, GotFree, {n})
      /\ (\A p \in Range(GotFree) : PhysMem[p] = FreeEntry)
      /\ (\A p \in Range(GotQueue) : Holds(PhysMem, p))
  BY <1>2, GotQueues
<1>5. /\ GotMem \in [Ppage -> PhysEntry] /\ GotMem[n] = FreeEntry
      /\ \A p \in Frame : p # n => /\ Holds(GotMem, p) <=> Holds(PhysMem, p)
                                   /\ ~Holds(PhysMem, p) => GotMem[p] = FreeEntry
  BY <1>2, GotRecords
<1>6. GotDisk \in [Backing -> Data] /\ Saved(GotMem, phys, GotDisk, accessed)
  BY <1>2, GotSaved
<1>7. bte[e] \in Backing /\ \A p \in Frame : Holds(GotMem, p) => GotMem[p].loc # bte[e]
  BY <1>2, StillAbsent
<1> HIDE DEF n
<1>8. ~Holds(GotMem, n)
  BY <1>5, StatesAre DEF Holds
<1>9. Fits(GotMem, bte, e, n, r)
  BY <1>1, <1>7, <1>8 DEF Fits
<1>10. Sound(PhysMem', pte', GotMapped, bte, Live)
  <2>1. Sets(GotMem, GotPte, GotMapped[bte[e]], n, r, PhysMem', pte')
    BY <1>1, Zenon DEF Sets
  <2> QED
    BY <1>3, <1>4, <1>9, <2>1, EntriesSet
<1>11. /\ bte' = bte /\ running_pid' = running_pid /\ next' = next
       /\ SwapBlocks' = SwapBlocks /\ FirstFreeSwap' = FirstFreeSwap /\ UNCHANGED space
       /\ UNCHANGED proc
  BY <1>1 DEF proc, space
<1>12. Live' = Live /\ ControlOK' /\ (Unmapped <=> \A l \in Pte : ~InArena(l)' => pte[l] = NullEntry)
  BY <1>11, ControlKept
<1>13. Sound(PhysMem', pte', MappedBlocks', bte', Live')
  BY <1>1, <1>10, <1>11, <1>12
<1>14. Unmapped'
  <2> SUFFICES ASSUME NEW l \in Pte, ~InArena(l)' PROVE pte'[l] = NullEntry
    BY DEF Unmapped
  <2>1. ~InArena(l)
    BY <1>11 DEF InArena
  <2>2. GotPte[l] = NullEntry /\ l \notin GotMapped[bte[e]] /\ l \in Ptes
    BY <1>2, <1>7, <2>1, OutsideListed, PteIs
  <2> QED
    BY <1>1, <2>2
<1>15. /\ PhysMem'[n] = r /\ \A o \in Frame : o # n => PhysMem'[o] = GotMem[o]
  BY <1>1, <1>4, <1>5, FrameIs
<1>16. phys \in [Ppage -> Data]
  BY DEF OInv, TypeOK
<1>17. /\ phys' \in [Ppage -> Data] /\ phys'[n] = x
       /\ \A o \in Frame : o # n => phys'[o] = phys[o]
  BY <1>1, <1>4, <1>16, FrameIs
<1>18. Saved(PhysMem', phys', disk', accessed')
  <2> SUFFICES ASSUME NEW o \in Frame, Holds(PhysMem', o)
               PROVE  /\ PhysMem'[o].loc \in SwapBlock \cup accessed'
                      /\ ~PhysMem'[o].dirty => phys'[o] = disk'[PhysMem'[o].loc]
    BY DEF Saved
  <2>1. CASE o = n
    BY <1>1, <1>15, <1>17, <2>1
  <2>2. CASE o # n
    <3>1. PhysMem'[o] = GotMem[o] /\ Holds(GotMem, o) /\ phys'[o] = phys[o]
      BY <1>15, <1>17, <2>2 DEF Holds
    <3>2. /\ GotMem[o].loc \in SwapBlock \cup accessed
          /\ ~GotMem[o].dirty => phys[o] = GotDisk[GotMem[o].loc]
      BY <1>6, <3>1 DEF Saved
    <3> QED
      BY <1>1, <3>1, <3>2
  <2> QED
    BY <2>1, <2>2
<1>19. /\ Dealt(MemQueue', FreePhys', {})
       /\ Range(MemQueue') = Range(GotQueue) \cup {n}
  BY <1>1, <1>4, DealtBack
<1>20. /\ \A o \in Range(FreePhys') : PhysMem'[o] = FreeEntry
       /\ \A o \in Range(MemQueue') : Holds(PhysMem', o)
  <2>1. Range(GotFree) \subseteq Frame \ {n} /\ Range(GotQueue) \subseteq Frame \ {n}
    BY <1>4 DEF Dealt
  <2>2. \A o \in Range(GotFree) : GotMem[o] = FreeEntry
    BY <1>4, <1>5, <2>1, StatesAre DEF Holds
  <2>3. \A o \in Range(GotQueue) : Holds(GotMem, o)
    BY <1>4, <1>5, <2>1
  <2>4. Holds(PhysMem', n)
    BY <1>1, <1>15 DEF Holds
  <2> QED
    BY <1>1, <1>15, <1>19, <2>1, <2>2, <2>3, <2>4 DEF Holds
<1>21. FirstFreeLeast'
  <2>1. FirstFreeLeast
    BY DEF OInv
  <2> QED
    BY <1>1, <1>3, <1>11, <2>1, LeastKept
<1>22. /\ DOMAIN next' \subseteq Pid /\ next' \in [DOMAIN next' -> 0..NPages]
       /\ running_pid' \in Pid \cup {NoPid}
       /\ SwapBlocks' \subseteq Block /\ FirstFreeSwap' \in 0..BlCnt
  BY <1>11 DEF OInv, TypeOK
<1>23. disk' \in [Backing -> Data] /\ accessed' \subseteq FileBlock
  BY <1>1, <1>6
<1> QED
  BY <1>12, <1>13, <1>14, <1>17, <1>18, <1>19, <1>20, <1>21, <1>22, <1>23, InvNext

\* A fault marks the page, or fills a frame with what it holds elsewhere.
Marks(e) == pte[e].ppage \in Frame /\ \E r : MarkSteps(e, pte[e].ppage, r)

Elsewhere(e) == Reads(pte, phys, GotDisk, bte, e)

Fills(e) == pte[e].ppage \notin Frame /\ \E r : FillSteps(e, r, Elsewhere(e))

\* The entry of a referenced frame is readable, and writable if it is dirty.
LEMMA ReferencedEntry ==
  ASSUME NEW p \in Frame, NEW r \in PhysEntry, r.state = "REFERENCED",
         NEW x \in Entry, x.ppage = p, x.read_enable = TRUE, x.write_enable = r.dirty
  PROVE  x = EntryOf(p, r)
<1> DEFINE y == EntryOf(p, r)
<1>1. /\ y \in Entry /\ y.ppage = p /\ y.read_enable = Referenced(r)
      /\ y.write_enable = (Referenced(r) /\ r.dirty)
  BY EntriesAre
<1>2. Referenced(r) = TRUE
  BY DEF Referenced
<1>3. r.dirty \in BOOLEAN
  BY DEF PhysEntry
<1>4. (TRUE /\ r.dirty) = r.dirty
  BY <1>3
<1>5. y.read_enable = TRUE /\ y.write_enable = r.dirty
  BY <1>1, <1>2, <1>4, Zenon
<1> HIDE DEF y
<1>6. x = y
  BY <1>1, <1>5, SameEntry
<1> QED
  BY <1>6 DEF y

\* The first store to a readable page.
LEMMA DirtyMarks ==
  ASSUME OInv, NEW e \in Live, NEW ok, FaultDirty(e, ok)
  PROVE  Marks(e)
<1> DEFINE p == pte[e].ppage
           r == [PhysMem[p] EXCEPT !.dirty = TRUE]
<1>1. /\ pte[e].read_enable /\ (bte[e][1] # SWAP \/ p # 0)
      /\ pte' = [l \in Ptes |-> IF l \in Mapped(p) THEN Writable(pte[l]) ELSE pte[l]]
      /\ PhysMem' = [PhysMem EXCEPT ![p].dirty = TRUE]
      /\ UNCHANGED <<proc, bte, MappedBlocks, MemQueue, FreePhys, space, data>>
  BY Zenon DEF FaultDirty
<1>2. Sound(PhysMem, pte, MappedBlocks, bte, Live)
  BY InvSound
<1>3. p \in Frame
  <2>1. /\ p \in Frame \cup {Absent, 0}
        /\ p = 0 => bte[e] \in SwapBlock
        /\ p = Absent => pte[e] = NullEntry
        /\ bte[e] \in Backing
    BY <1>2, NamedFrame, LivePage
  <2>2. p # Absent
    BY <1>1, <2>1, EntriesAre
  <2>3. p # 0
    BY <1>1, <2>1, BackingIs
  <2> QED
    BY <2>1, <2>2, <2>3
<1>4. /\ Holds(PhysMem, p) /\ PhysMem[p].loc = bte[e] /\ PhysMem[p] \in PhysEntry
      /\ PhysMem[p].state \in {"REFERENCED", "PEND"}
      /\ pte[e] = EntryOf(p, PhysMem[p])
  BY <1>2, <1>3, LiveFrame
<1>5. PhysMem[p].state = "REFERENCED"
  <2>1. pte[e].read_enable = Referenced(PhysMem[p])
    BY <1>3, <1>4, EntriesAre
  <2> QED
    BY <1>1, <1>4, <2>1 DEF Referenced
<1>6. r \in PhysEntry /\ r.state = "REFERENCED" /\ r.loc = bte[e] /\ r.dirty = TRUE
  BY <1>4, <1>5 DEF PhysEntry
<1>7. PhysMem' = [PhysMem EXCEPT ![p] = r]
  BY <1>1
<1> HIDE DEF r, p
<1>8. ASSUME NEW l \in Mapped(p) PROVE Writable(pte[l]) = EntryOf(p, r) /\ l \in Ptes
  <2>1. /\ l \in Ptes /\ pte[l] = EntryOf(p, PhysMem[p]) /\ pte[l].ppage = p
        /\ pte[l].read_enable = Referenced(PhysMem[p])
    BY <1>2, <1>3, <1>4, EntryAt DEF Mapped
  <2>2. pte[l] \in Entry
    BY <1>3, <1>4, <2>1, EntriesAre
  <2>3. Referenced(PhysMem[p]) = TRUE
    BY <1>5 DEF Referenced
  <2>4. /\ Writable(pte[l]) \in Entry /\ Writable(pte[l]).ppage = p
        /\ Writable(pte[l]).read_enable = TRUE /\ Writable(pte[l]).write_enable = TRUE
    BY <2>1, <2>2, <2>3 DEF Writable, Entry
  <2> QED
    BY <1>3, <1>6, <2>1, <2>4, ReferencedEntry
<1>9. pte' = [l \in Ptes |-> IF l \in Mapped(p) THEN EntryOf(p, r) ELSE pte[l]]
  BY <1>1, <1>8 DEF p
<1>10. MarkSteps(e, p, r)
  BY <1>1, <1>6, <1>7, <1>9, Zenon DEF MarkSteps
<1> QED
  BY <1>3, <1>10 DEF Marks, p

\* A page in memory that the clock aged.
LEMMA PendingMarks ==
  ASSUME OInv, NEW e \in Live, NEW w \in BOOLEAN, NEW ok, FaultPending(e, w, ok)
  PROVE  Marks(e)
<1> DEFINE p == pte[e].ppage
           d == PhysMem[p].dirty \/ w
           r == [PhysMem[p] EXCEPT !.state = "REFERENCED", !.dirty = d]
<1>1. /\ ~pte[e].read_enable /\ p # Absent
      /\ pte' = [l \in Ptes |-> IF l \in Mapped(p)
                                THEN [pte[l] EXCEPT !.read_enable = TRUE, !.write_enable = d]
                                ELSE pte[l]]
      /\ PhysMem' = [PhysMem EXCEPT ![p].state = "REFERENCED", ![p].dirty = d]
      /\ UNCHANGED <<proc, bte, MappedBlocks, MemQueue, FreePhys, space, data>>
  BY Zenon DEF FaultPending
<1>2. Sound(PhysMem, pte, MappedBlocks, bte, Live)
  BY InvSound
<1>3. p \in Frame
  <2>1. p \in Frame \cup {Absent, 0} /\ (p = 0 => pte[e] = ZeroEntry)
    BY <1>2, NamedFrame
  <2>2. p # 0
    BY <1>1, <2>1, EntriesAre
  <2> QED
    BY <1>1, <2>1, <2>2
<1>4. /\ Holds(PhysMem, p) /\ PhysMem[p].loc = bte[e] /\ PhysMem[p] \in PhysEntry
  BY <1>2, <1>3, LiveFrame
<1>5. PhysMem[p].dirty \in BOOLEAN
  BY <1>4 DEF PhysEntry
<1>6. d \in BOOLEAN /\ (~d => ~PhysMem[p].dirty)
  BY <1>5
<1> HIDE DEF d
<1>7. r \in PhysEntry /\ r.state = "REFERENCED" /\ r.loc = bte[e] /\ r.dirty = d
  BY <1>4, <1>6 DEF PhysEntry, MemStates
<1>8. PhysMem' = [PhysMem EXCEPT ![p] = r]
  <2>1. PhysMem \in [Ppage -> PhysEntry]
    BY DEF OInv, TypeOK
  <2> QED
    BY <1>1, <1>3, <2>1, FrameIs
<1> HIDE DEF r, p
<1>9. ASSUME NEW l \in Mapped(p)
      PROVE  [pte[l] EXCEPT !.read_enable = TRUE, !.write_enable = d] = EntryOf(p, r)
             /\ l \in Ptes
  <2> DEFINE x == [pte[l] EXCEPT !.read_enable = TRUE, !.write_enable = d]
  <2>1. l \in Ptes /\ pte[l] = EntryOf(p, PhysMem[p]) /\ pte[l].ppage = p
    BY <1>2, <1>3, <1>4, EntryAt DEF Mapped
  <2>2. pte[l] \in Entry
    BY <1>3, <1>4, <2>1, EntriesAre
  <2>3. x \in Entry /\ x.ppage = p /\ x.read_enable = TRUE /\ x.write_enable = d
    BY <1>6, <2>1, <2>2 DEF Entry
  <2> HIDE DEF x
  <2>4. x = EntryOf(p, r)
    BY <1>3, <1>7, <2>3, ReferencedEntry
  <2> QED
    BY <2>1, <2>4 DEF x
<1>10. pte' = [l \in Ptes |-> IF l \in Mapped(p) THEN EntryOf(p, r) ELSE pte[l]]
  BY <1>1, <1>9 DEF p
<1>11. MarkSteps(e, p, r)
  BY <1>1, <1>6, <1>7, <1>8, <1>10, Zenon DEF MarkSteps
<1> QED
  BY <1>3, <1>11 DEF Marks, p

\* The first store to a page of the swap file.
LEMMA CopyFills ==
  ASSUME OInv, call.op # "exit", NEW e \in Live, NEW ok, FaultCopy(e, ok)
  PROVE  Fills(e)
<1> DEFINE n == get_ppage
           r == [state |-> "REFERENCED", dirty |-> TRUE, loc |-> bte[e]]
<1>1. /\ pte[e].read_enable /\ bte[e][1] = SWAP /\ pte[e].ppage = 0
      /\ PhysMem' = [GotMem EXCEPT ![n] = r]
      /\ MemQueue' = Append(GotQueue, n) /\ FreePhys' = GotFree
      /\ phys' = [phys EXCEPT ![n] = phys[0]] /\ disk' = GotDisk
      /\ MappedBlocks' = GotMapped
      /\ pte' = [l \in Ptes |->
                   IF l \in GotMapped[bte[e]]
                   THEN [GotPte[l] EXCEPT !.ppage = n, !.write_enable = TRUE]
                   ELSE GotPte[l]]
      /\ UNCHANGED <<proc, bte, space, accessed>>
  BY Zenon DEF FaultCopy
<1>2. Sound(PhysMem, pte, MappedBlocks, bte, Live)
  BY InvSound
<1>3. pte[e].ppage \notin Frame /\ pte[e] = ZeroEntry /\ bte[e] \in SwapBlock
  <2>1. pte[e].ppage = 0 => bte[e] \in SwapBlock /\ pte[e] = ZeroEntry
    BY <1>2, NamedFrame
  <2>2. pte[e].ppage = 0
    BY <1>1
  <2> QED
    BY <2>1, <2>2, FrameIs
<1>4. call.op # "exit"
  OBVIOUS
<1>5. GotPte[e] = ZeroEntry /\ bte[e] \in Backing
  BY <1>3, <1>4, StillAbsent
<1>6. n \in Frame /\ n \in 0..PCnt
  BY <1>4, GotQueues, FrameIs
<1>7. GotMapped[bte[e]] = {e}
  <2>1. Sound(GotMem, GotPte, GotMapped, bte, Live)
    BY <1>4, GotSound
  <2> QED
    BY <1>3, <2>1, LivePage
<1>8. r \in PhysEntry /\ r.state = "REFERENCED" /\ r.loc = bte[e] /\ r.dirty = TRUE
  BY <1>5 DEF PhysEntry, MemStates
<1>9. phys[0] \in Data /\ accessed \subseteq FileBlock /\ accessed' = accessed
  BY <1>1, FrameIs DEF OInv, TypeOK
<1> HIDE DEF n, r
<1>10. [GotPte[e] EXCEPT !.ppage = n, !.write_enable = TRUE] = EntryOf(n, r)
  <2> DEFINE x == [ZeroEntry EXCEPT !.ppage = n, !.write_enable = TRUE]
  <2>1. x \in Entry /\ x.ppage = n /\ x.read_enable = TRUE /\ x.write_enable = TRUE
    BY <1>6, EntriesAre DEF Entry
  <2> HIDE DEF x
  <2>2. x = EntryOf(n, r)
    BY <1>6, <1>8, <2>1, ReferencedEntry
  <2> QED
    BY <1>5, <2>2 DEF x
<1>11. pte' = [l \in Ptes |-> IF l \in GotMapped[bte[e]] THEN EntryOf(n, r)
                              ELSE GotPte[l]]
  BY <1>1, <1>7, <1>10
<1>12. FillSteps(e, r, phys[0])
  <2>1. /\ ~r.dirty => phys[0] = GotDisk[bte[e]]
        /\ accessed \subseteq accessed' /\ accessed' \subseteq FileBlock
        /\ bte[e] \in SwapBlock \cup accessed'
        /\ UNCHANGED <<proc, bte, space>>
    BY <1>1, <1>3, <1>8, <1>9
  <2> QED
    BY <1>1, <1>8, <1>9, <1>11, <2>1, Zenon DEF FillSteps, n
<1>13. Elsewhere(e) = phys[0]
  BY <1>1, FrameIs DEF Elsewhere, Reads
<1> QED
  BY <1>3, <1>12, <1>13 DEF Fills

\* A page on disk is read into a frame.
LEMMA LoadFills ==
  ASSUME OInv, call.op # "exit", NEW e \in Live, NEW w \in BOOLEAN,
         NEW ok, FaultLoad(e, w, ok)
  PROVE  Fills(e)
<1> DEFINE n == get_ppage
           d == GotMem[n].dirty \/ w
           r == [state |-> "REFERENCED", dirty |-> d, loc |-> bte[e]]
           x == GotDisk[bte[e]]
<1>1. /\ ~pte[e].read_enable /\ pte[e].ppage = Absent
      /\ PhysMem' = [GotMem EXCEPT ![n] = [state |-> "REFERENCED",
                                           dirty |-> @.dirty \/ w, loc |-> bte[e]]]
      /\ MemQueue' = Append(GotQueue, n) /\ FreePhys' = GotFree
      /\ phys' = [phys EXCEPT ![n] = x] /\ disk' = GotDisk
      /\ MappedBlocks' = GotMapped
      /\ pte' = [l \in Ptes |->
                   IF l \in GotMapped[bte[e]]
                   THEN [ppage |-> n, read_enable |-> TRUE,
                         write_enable |-> w \/ GotPte[l].write_enable]
                   ELSE GotPte[l]]
      /\ UNCHANGED <<proc, bte, space>>
      /\ accessed' = accessed \cup ({bte[e]} \cap FileBlock)
  BY Zenon DEF FaultLoad, Load
<1>2. Sound(PhysMem, pte, MappedBlocks, bte, Live)
  BY InvSound
<1>3. pte[e].ppage \notin Frame /\ pte[e] = NullEntry
  BY <1>1, <1>2, NamedFrame, FrameIs
<1>4. call.op # "exit"
  OBVIOUS
<1>5. /\ bte[e] \in Backing /\ GotPte[e] = NullEntry
      /\ \A p \in Frame : Holds(GotMem, p) => GotMem[p].loc # bte[e]
  BY <1>3, <1>4, StillAbsent
<1>6. n \in Frame /\ n \in 0..PCnt /\ n \in Ppage
  BY <1>4, GotQueues, FrameIs
<1>7. GotMem \in [Ppage -> PhysEntry] /\ GotMem[n].dirty = FALSE
  BY <1>4, GotRecords, StatesAre
<1>8. d = w
  BY <1>7
<1>9. PhysMem' = [GotMem EXCEPT ![n] = r]
  BY <1>1
<1>10. r \in PhysEntry /\ r.state = "REFERENCED" /\ r.loc = bte[e] /\ r.dirty = w
  <2> HIDE DEF d
  <2> QED
    BY <1>5, <1>8 DEF PhysEntry, MemStates
<1>11. /\ x \in Data /\ accessed' \subseteq FileBlock /\ accessed \subseteq accessed'
       /\ bte[e] \in SwapBlock \cup accessed'
  <2>1. GotDisk \in [Backing -> Data]
    BY <1>4, GotSaved
  <2>2. accessed \subseteq FileBlock
    BY DEF OInv, TypeOK
  <2> QED
    BY <1>1, <1>5, <2>1, <2>2 DEF Backing
<1>12. Sound(GotMem, GotPte, GotMapped, bte, Live)
  BY <1>4, GotSound
<1> HIDE DEF n, d, r, x
\* No entry of the block is the zero page's, so none is writable.
<1>13. ASSUME NEW l \in GotMapped[bte[e]]
       PROVE  [ppage |-> n, read_enable |-> TRUE,
               write_enable |-> w \/ GotPte[l].write_enable] = EntryOf(n, r)
  <2>1. GotPte[l] = NullEntry \/ GotPte[l] = ZeroEntry
    BY <1>5, <1>12, <1>13 DEF Sound, Agree, Placed
  <2>2. GotPte[l].write_enable = FALSE
    BY <2>1, EntriesAre
  <2> DEFINE y == [ppage |-> n, read_enable |-> TRUE,
                   write_enable |-> w \/ GotPte[l].write_enable]
  <2>3. (w \/ FALSE) = w
    OBVIOUS
  <2>4. y = [ppage |-> n, read_enable |-> TRUE, write_enable |-> w]
    BY <2>2, <2>3, Zenon
  <2>5. y \in Entry /\ y.ppage = n /\ y.read_enable = TRUE /\ y.write_enable = w
    <3> HIDE DEF y
    <3> QED
      BY <1>6, <2>4 DEF Entry
  <2> HIDE DEF y
  <2>6. y = EntryOf(n, r)
    BY <1>6, <1>10, <2>5, ReferencedEntry
  <2> QED
    BY <2>6 DEF y
<1>14. pte' = [l \in Ptes |-> IF l \in GotMapped[bte[e]] THEN EntryOf(n, r)
                              ELSE GotPte[l]]
  BY <1>1, <1>13
<1>15. FillSteps(e, r, x)
  BY <1>1, <1>9, <1>10, <1>11, <1>14, Zenon DEF FillSteps, n, x
<1>16. Elsewhere(e) = x
  BY <1>1 DEF Elsewhere, Reads, x
<1> QED
  BY <1>3, <1>15, <1>16 DEF Fills

\* file_read fails: the frame goes back.
LEMMA ReadFailsKeeps ==
  ASSUME OInv, call.op \notin {"exit", "none"}, Resumes(call'), NEW e \in Live,
         NEW fail, FaultReadFails(e, fail)
  PROVE  OInv'
<1> DEFINE n == get_ppage
<1>1. /\ FreePhys' = Append(GotFree, n) /\ PhysMem' = GotMem /\ MemQueue' = GotQueue
      /\ disk' = GotDisk /\ MappedBlocks' = GotMapped /\ pte' = GotPte
      /\ UNCHANGED <<proc, bte, space, phys, accessed>>
  BY Zenon DEF FaultReadFails
<1>2. call.op # "exit"
  OBVIOUS
<1>3. Sound(GotMem, GotPte, GotMapped, bte, Live)
      /\ \A b \in SwapBlock : GotMapped[b] = MappedBlocks[b]
  BY <1>2, GotSound
<1>4. n \in Frame /\ Dealt(GotQueue, GotFree, {n})
      /\ (\A p \in Range(GotFree) : PhysMem[p] = FreeEntry)
      /\ (\A p \in Range(GotQueue) : Holds(PhysMem, p))
  BY <1>2, GotQueues
<1>5. /\ GotMem[n] = FreeEntry
      /\ \A p \in Frame : p # n => /\ Holds(GotMem, p) <=> Holds(PhysMem, p)
                                   /\ ~Holds(PhysMem, p) => GotMem[p] = FreeEntry
  BY <1>2, GotRecords
<1>6. GotDisk \in [Backing -> Data] /\ Saved(GotMem, phys, GotDisk, accessed)
  BY <1>2, GotSaved
<1> HIDE DEF n
<1>7. /\ bte' = bte /\ running_pid' = running_pid /\ next' = next
      /\ SwapBlocks' = SwapBlocks /\ FirstFreeSwap' = FirstFreeSwap /\ UNCHANGED space
      /\ UNCHANGED proc /\ phys' = phys /\ accessed' = accessed
  BY <1>1 DEF proc, space
<1>8. Live' = Live /\ ControlOK' /\ (Unmapped <=> \A l \in Pte : ~InArena(l)' => pte[l] = NullEntry)
  BY <1>7, ControlKept
<1>9. Sound(PhysMem', pte', MappedBlocks', bte', Live')
  BY <1>1, <1>3, <1>7, <1>8
<1>10. Unmapped'
  <2> SUFFICES ASSUME NEW l \in Pte, ~InArena(l)' PROVE pte'[l] = NullEntry
    BY DEF Unmapped
  <2>1. ~InArena(l)
    BY <1>7 DEF InArena
  <2> QED
    BY <1>1, <1>2, <2>1, OutsideListed
<1>11. /\ Dealt(MemQueue', FreePhys', {}) /\ Range(FreePhys') = Range(GotFree) \cup {n}
  <2>1. n \in Frame /\ Dealt(GotQueue, GotFree, {n})
    BY <1>4
  <2>2. /\ Dealt(GotQueue, Append(GotFree, n), {})
        /\ Range(Append(GotFree, n)) = Range(GotFree) \cup {n}
    BY <2>1, DealtBack, Z3
  <2> QED
    BY <1>1, <2>2, Zenon
<1>12. /\ \A o \in Range(FreePhys') : PhysMem'[o] = FreeEntry
       /\ \A o \in Range(MemQueue') : Holds(PhysMem', o)
  <2>1. Range(GotFree) \subseteq Frame \ {n} /\ Range(GotQueue) \subseteq Frame \ {n}
    BY <1>4 DEF Dealt
  <2>2. \A o \in Range(GotFree) : GotMem[o] = FreeEntry
    BY <1>4, <1>5, <2>1, StatesAre DEF Holds
  <2>3. \A o \in Range(GotQueue) : Holds(GotMem, o)
    BY <1>4, <1>5, <2>1
  <2> QED
    BY <1>1, <1>5, <1>11, <2>2, <2>3
<1>13. FirstFreeLeast'
  <2>1. FirstFreeLeast
    BY DEF OInv
  <2> QED
    BY <1>1, <1>3, <1>7, <2>1, LeastKept
<1>14. /\ DOMAIN next' \subseteq Pid /\ next' \in [DOMAIN next' -> 0..NPages]
       /\ running_pid' \in Pid \cup {NoPid} /\ phys' \in [Ppage -> Data]
       /\ disk' \in [Backing -> Data] /\ accessed' \subseteq FileBlock
       /\ SwapBlocks' \subseteq Block /\ FirstFreeSwap' \in 0..BlCnt
       /\ Saved(PhysMem', phys', disk', accessed')
  BY <1>1, <1>6, <1>7 DEF OInv, TypeOK
<1> QED
  BY <1>8, <1>9, <1>10, <1>11, <1>12, <1>13, <1>14, InvNext

\* Only the control changes.
LEMMA SameKeeps ==
  ASSUME OInv, call.op \notin {"exit", "none"}, Resumes(call'),
         UNCHANGED <<proc, tables, frames, space, data>>
  PROVE  OInv'
<1>1. /\ running_pid' = running_pid /\ next' = next /\ pte' = pte /\ bte' = bte
      /\ MappedBlocks' = MappedBlocks /\ PhysMem' = PhysMem /\ MemQueue' = MemQueue
      /\ FreePhys' = FreePhys /\ SwapBlocks' = SwapBlocks
      /\ FirstFreeSwap' = FirstFreeSwap /\ phys' = phys /\ disk' = disk
      /\ accessed' = accessed /\ UNCHANGED proc /\ UNCHANGED space
  BY DEF proc, tables, frames, space, data
<1>2. Live' = Live /\ ControlOK'
      /\ (Unmapped <=> \A l \in Pte : ~InArena(l)' => pte[l] = NullEntry)
  BY <1>1, ControlKept
<1>3. Sound(PhysMem', pte', MappedBlocks', bte', Live')
  <2>1. Sound(PhysMem, pte, MappedBlocks, bte, Live)
    BY InvSound
  <2> QED
    BY <1>1, <1>2, <2>1
<1>4. Unmapped'
  <2>1. Unmapped
    BY DEF OInv
  <2> QED
    BY <1>1, <1>2, <2>1 DEF Unmapped
<1>5. /\ DOMAIN next' \subseteq Pid /\ next' \in [DOMAIN next' -> 0..NPages]
      /\ running_pid' \in Pid \cup {NoPid} /\ phys' \in [Ppage -> Data]
      /\ disk' \in [Backing -> Data] /\ accessed' \subseteq FileBlock
      /\ SwapBlocks' \subseteq Block /\ FirstFreeSwap' \in 0..BlCnt
  BY <1>1 DEF OInv, TypeOK
<1>6. /\ Saved(PhysMem', phys', disk', accessed') /\ Dealt(MemQueue', FreePhys', {})
      /\ \A o \in Range(FreePhys') : PhysMem'[o] = FreeEntry
      /\ \A o \in Range(MemQueue') : Holds(PhysMem', o)
  BY <1>1 DEF OInv, Queued
<1>7. FirstFreeLeast'
  <2>1. FirstFreeLeast
    BY DEF OInv
  <2> QED
    BY <1>1, <2>1, LeastKept
<1> QED
  BY <1>2, <1>3, <1>4, <1>5, <1>6, <1>7, InvNext

\* Every way through vm_fault, of a page of the running process but for the first.
LEMMA FaultSteps ==
  ASSUME OInv, call.op \notin {"exit", "none"}, NEW v, NEW w \in BOOLEAN,
         NEW ok, NEW fail, vm_fault(v, w, ok, fail)
  PROVE  /\ call' \in {ok, fail} /\ UNCHANGED proc
         /\ \/ UNCHANGED <<proc, tables, frames, space, data>>
            \/ \E e \in Live : Marks(e) \/ Fills(e) \/ FaultReadFails(e, fail)
<1>1. CASE FaultInvalid(v, fail)
  BY <1>1 DEF FaultInvalid
<1>2. CASE /\ v \in Vpage /\ v < next[running_pid]
           /\ \/ w /\ (FaultDirty(Mine(v), ok) \/ FaultCopy(Mine(v), ok))
              \/ FaultPending(Mine(v), w, ok)
              \/ FaultLoad(Mine(v), w, ok)
              \/ FaultReadFails(Mine(v), fail)
  <2>1. Mine(v) \in Live
    BY <1>2, MineLive
  <2>2. CASE FaultDirty(Mine(v), ok)
    BY <2>1, <2>2, DirtyMarks DEF FaultDirty
  <2>3. CASE FaultCopy(Mine(v), ok)
    BY <2>1, <2>3, CopyFills DEF FaultCopy
  <2>4. CASE FaultPending(Mine(v), w, ok)
    BY <2>1, <2>4, PendingMarks DEF FaultPending
  <2>5. CASE FaultLoad(Mine(v), w, ok)
    BY <2>1, <2>5, LoadFills DEF FaultLoad, Load
  <2>6. CASE FaultReadFails(Mine(v), fail)
    BY <2>1, <2>6 DEF FaultReadFails
  <2> QED
    BY <1>2, <2>2, <2>3, <2>4, <2>5, <2>6
<1> QED
  BY <1>1, <1>2, Zenon DEF vm_fault

LEMMA FaultKeeps ==
  ASSUME OInv, call.op \notin {"exit", "none"}, NEW v, NEW w \in BOOLEAN,
         NEW ok, NEW fail, Resumes(ok), Resumes(fail), vm_fault(v, w, ok, fail)
  PROVE  OInv'
<1>1. /\ Resumes(call')
      /\ \/ UNCHANGED <<proc, tables, frames, space, data>>
         \/ \E e \in Live : Marks(e) \/ Fills(e) \/ FaultReadFails(e, fail)
  BY FaultSteps
<1>2. CASE UNCHANGED <<proc, tables, frames, space, data>>
  BY <1>1, <1>2, SameKeeps
<1>3. ASSUME NEW e \in Live, Marks(e) PROVE OInv'
  BY <1>1, <1>3, MarkKeeps DEF Marks
<1>4. ASSUME NEW e \in Live, Fills(e) PROVE OInv'
  BY <1>1, <1>4, FillKeeps DEF Fills
<1>5. ASSUME NEW e \in Live, FaultReadFails(e, fail) PROVE OInv'
  BY <1>1, <1>5, ReadFailsKeeps
<1> QED
  BY <1>1, <1>2, <1>3, <1>4, <1>5

-----------------------------------------------------------------------------
(* The application's accesses, and read_filename.                          *)

\* A page the MMU lets through to is in the arena.
LEMMA PermittedLive ==
  ASSUME OInv, call.op \notin {"exit", "none"}, NEW v, NEW w \in BOOLEAN, Permits(v, w)
  PROVE  Mine(v) \in Live /\ Mine(v) \in Pte /\ v < next[running_pid]
<1>1. v \in Vpage /\ (pte[Mine(v)].write_enable \/ pte[Mine(v)].read_enable)
  BY DEF Permits
<1>2. running_pid \in DOMAIN next /\ running_pid \in Pid
  BY DEF OInv, TypeOK
<1>3. Mine(v) \in Pte /\ Mine(v)[1] = running_pid /\ Mine(v)[2] = v
  BY <1>1, <1>2 DEF Mine, Pte
<1>4. InArena(Mine(v))
  <2> SUFFICES ASSUME ~InArena(Mine(v)) PROVE FALSE
    OBVIOUS
  <2>1. pte[Mine(v)] = NullEntry
    BY <1>3, OutsideListed
  <2> QED
    BY <1>1, <2>1, EntriesAre
<1>5. v < next[running_pid]
  BY <1>3, <1>4 DEF InArena
<1> QED
  BY <1>1, <1>5, MineLive

LEMMA AppFaultKeeps ==
  ASSUME OInv, NEW v \in Vpage, NEW w \in BOOLEAN, AppFault(v, w)
  PROVE  OInv'
<1>0. v \in 0..NPages /\ 0 \in 0..NPages
  BY OopAssumption DEF Vpage
<1>1. PICK b : b \in FBlock
  BY OopAssumption
<1>2. Retry(v, w).op = "retry" /\ Retry(v, w) \in Call
      /\ Exit(0).op = "exit" /\ Exit(0).vp = 0 /\ Exit(0) \in Call
  BY <1>0, <1>1, CallsAre
<1>3. call.op \in {"run", "retry"}
  BY <1>2 DEF AppFault, Idle
<1>4. Resumes(Retry(v, w)) /\ Resumes(Exit(0))
  BY <1>2 DEF Resumes
<1>5. vm_fault(v, w, Retry(v, w), Exit(0))
  BY DEF AppFault
<1> QED
  BY <1>3, <1>4, <1>5, FaultKeeps

\* The pages a name is read from, while there is room for one more.
LEMMA ReadingRoom ==
  ASSUME OInv, NEW v \in Vpage, NEW b \in FBlock, Reading(v, b)
  PROVE  /\ call.op \in {"run", "string"} /\ next[running_pid] # NPages
         /\ running_pid \in DOMAIN next /\ running_pid \in Pid
         /\ next[running_pid] \in 0..(NPages - 1)
<1>1. v \in 0..NPages
  BY OopAssumption DEF Vpage
<1>2. Str(v, b).op = "string"
  BY <1>1, CallsAre
<1>3. call.op \in {"run", "string"} /\ next[running_pid] # NPages
  BY <1>2 DEF Reading, Idle, OInv, CallOK
<1>4. running_pid \in DOMAIN next /\ running_pid \in Pid /\ next[running_pid] \in 0..NPages
  BY <1>3 DEF OInv, TypeOK
<1> QED
  BY <1>3, <1>4, OopAssumption

LEMMA NameFaultKeeps ==
  ASSUME OInv, NEW v \in Vpage, NEW b \in FBlock, NameFault(v, b)
  PROVE  OInv'
<1>0. v \in 0..NPages
  BY OopAssumption DEF Vpage
<1>1. call.op \in {"run", "string"} /\ next[running_pid] # NPages
  BY ReadingRoom DEF NameFault
<1>2. Str(v, b).op = "string" /\ Str(v, b) \in Call /\ Run.op = "run" /\ Run \in Call
  BY <1>0, CallsAre
<1>3. Resumes(Str(v, b)) /\ Resumes(Run)
  BY <1>1, <1>2 DEF Resumes
<1>4. vm_fault(v, FALSE, Str(v, b), Run)
  BY DEF NameFault
<1> QED
  BY <1>1, <1>3, <1>4, FaultKeeps

LEMMA NameSpillsKeeps ==
  ASSUME OInv, NEW v \in Vpage, NEW b \in FBlock, NameSpills(v, b)
  PROVE  OInv'
<1>0. v + 1 \in 0..NPages
  BY OopAssumption DEF Vpage
<1>1. call.op \in {"run", "string"} /\ next[running_pid] # NPages
  BY ReadingRoom DEF NameSpills
<1>2. Str(v + 1, b).op = "string" /\ Str(v + 1, b) \in Call
  BY <1>0, CallsAre
<1>3. Resumes(Str(v + 1, b))
  BY <1>1, <1>2 DEF Resumes
<1>4. call' = Str(v + 1, b) /\ UNCHANGED <<proc, tables, frames, space, data>>
  BY DEF NameSpills
<1> QED
  BY <1>1, <1>3, <1>4, SameKeeps

LEMMA ReloadKeeps ==
  ASSUME OInv, NEW v \in Vpage, Reload(v)
  PROVE  OInv'
<1>0. v \in 0..NPages
  BY OopAssumption DEF Vpage
<1>1. PICK b : b \in FBlock
  BY OopAssumption
<1>2. Retry(v, FALSE).op = "retry" /\ Run.op = "run" /\ Run \in Call
  BY <1>0, <1>1, CallsAre
<1>3. call.op = "retry" /\ call' = Run /\ UNCHANGED <<proc, tables, frames, space, data>>
  BY <1>2 DEF Reload
<1>4. Resumes(call')
  BY <1>2, <1>3 DEF Resumes
<1> QED
  BY <1>3, <1>4, SameKeeps

\* A store goes to a frame that is dirty, so that the disk need not follow it.
LEMMA StoreKeeps ==
  ASSUME OInv, NEW v \in Vpage, NEW d \in Data, Store(v, d)
  PROVE  OInv'
<1> DEFINE e == Mine(v)
           p == pte[e].ppage
<1>0. v \in 0..NPages
  BY OopAssumption DEF Vpage
<1>1. PICK b : b \in FBlock
  BY OopAssumption
<1>2. Retry(v, TRUE).op = "retry" /\ Run.op = "run" /\ Run \in Call
  BY <1>0, <1>1, CallsAre
<1>3. /\ call.op \in {"run", "retry"} /\ Permits(v, TRUE) /\ call' = Run
      /\ phys' = [phys EXCEPT ![p] = d]
      /\ UNCHANGED <<proc, tables, frames, space, disk, accessed>>
  BY <1>2 DEF Store, Idle
<1>4. Resumes(call')
  BY <1>2, <1>3 DEF Resumes
<1>5. /\ running_pid' = running_pid /\ next' = next /\ pte' = pte /\ bte' = bte
      /\ MappedBlocks' = MappedBlocks /\ PhysMem' = PhysMem /\ MemQueue' = MemQueue
      /\ FreePhys' = FreePhys /\ SwapBlocks' = SwapBlocks
      /\ FirstFreeSwap' = FirstFreeSwap /\ disk' = disk
      /\ accessed' = accessed /\ UNCHANGED proc /\ UNCHANGED space
  BY <1>3 DEF proc, tables, frames, space
<1>6. Live' = Live /\ ControlOK'
      /\ (Unmapped <=> \A l \in Pte : ~InArena(l)' => pte[l] = NullEntry)
  BY <1>3, <1>4, <1>5, ControlKept
<1>7. Sound(PhysMem, pte, MappedBlocks, bte, Live)
  BY InvSound
<1>8. e \in Live
  BY <1>3, PermittedLive
<1>9. pte[e].write_enable
  BY <1>3 DEF Permits
<1>10. p \in Frame
  <2>1. /\ p \in Frame \cup {Absent, 0}
        /\ p = 0 => pte[e] = ZeroEntry
        /\ p = Absent => pte[e] = NullEntry
    BY <1>7, <1>8, NamedFrame
  <2> QED
    BY <1>9, <2>1, EntriesAre
<1>11. PhysMem[p].dirty
  <2>1. PhysMem[p] \in PhysEntry /\ pte[e] = EntryOf(p, PhysMem[p])
    BY <1>7, <1>8, <1>10, LiveFrame
  <2>2. pte[e].write_enable = (Referenced(PhysMem[p]) /\ PhysMem[p].dirty)
    BY <1>10, <2>1, EntriesAre
  <2> QED
    BY <1>9, <2>2
<1> HIDE DEF p, e
<1>12. Sound(PhysMem', pte', MappedBlocks', bte', Live')
  BY <1>5, <1>6, <1>7
<1>13. Unmapped'
  <2>1. Unmapped
    BY DEF OInv
  <2> QED
    BY <1>5, <1>6, <2>1 DEF Unmapped
<1>14. phys \in [Ppage -> Data]
  BY DEF OInv, TypeOK
<1>15. phys' \in [Ppage -> Data] /\ \A o \in Frame : o # p => phys'[o] = phys[o]
  BY <1>3, <1>10, <1>14, FrameIs
<1>16. Saved(PhysMem', phys', disk', accessed')
  <2>1. Saved(PhysMem, phys, disk, accessed)
    BY DEF OInv
  <2> QED
    BY <1>5, <1>11, <1>15, <2>1 DEF Saved
<1>17. /\ DOMAIN next' \subseteq Pid /\ next' \in [DOMAIN next' -> 0..NPages]
       /\ running_pid' \in Pid \cup {NoPid}
       /\ disk' \in [Backing -> Data] /\ accessed' \subseteq FileBlock
       /\ SwapBlocks' \subseteq Block /\ FirstFreeSwap' \in 0..BlCnt
  BY <1>5 DEF OInv, TypeOK
<1>18. /\ Dealt(MemQueue', FreePhys', {})
       /\ \A o \in Range(FreePhys') : PhysMem'[o] = FreeEntry
       /\ \A o \in Range(MemQueue') : Holds(PhysMem', o)
  BY <1>3, <1>5 DEF OInv, Queued
<1>19. FirstFreeLeast'
  <2>1. FirstFreeLeast
    BY DEF OInv
  <2> QED
    BY <1>5, <2>1, LeastKept
<1> QED
  BY <1>6, <1>12, <1>13, <1>15, <1>16, <1>17, <1>18, <1>19, InvNext

-----------------------------------------------------------------------------
(* vm_map.                                                                 *)

\* What the disk and the queues are concerned with in the record of a frame.
SameFrame(old, new) ==
  /\ new.loc = old.loc /\ new.dirty = old.dirty
  /\ (new.state = "FREE") <=> (old.state = "FREE")
  /\ old = FreeEntry => new = FreeEntry

\* The rest of the invariant when neither the queues nor the contents change.
LEMMA RestKeeps ==
  ASSUME OInv, call.op # "exit", ControlOK',
         DOMAIN next' \subseteq Pid, next' \in [DOMAIN next' -> 0..NPages],
         running_pid' \in Pid \cup {NoPid},
         Sound(PhysMem', pte', MappedBlocks', bte', Live'), Unmapped',
         UNCHANGED <<MemQueue, FreePhys, data>>,
         SwapBlocks' \subseteq Block, FirstFreeSwap' \in 0..BlCnt, FirstFreeLeast',
         \A o \in Frame : SameFrame(PhysMem[o], PhysMem'[o])
  PROVE  OInv'
<1>1. /\ MemQueue' = MemQueue /\ FreePhys' = FreePhys /\ phys' = phys /\ disk' = disk
      /\ accessed' = accessed
  BY DEF data
<1>2. /\ phys' \in [Ppage -> Data] /\ disk' \in [Backing -> Data]
      /\ accessed' \subseteq FileBlock
  BY <1>1 DEF OInv, TypeOK
<1>3. Saved(PhysMem', phys', disk', accessed')
  <2>1. Saved(PhysMem, phys, disk, accessed)
    BY DEF OInv
  <2> QED
    BY <1>1, <2>1 DEF Saved, SameFrame, Holds
<1>4. Dealt(MemQueue, FreePhys, {}) /\ Queued(PhysMem, MemQueue, FreePhys)
  BY DEF OInv
<1>5. Range(FreePhys) \subseteq Frame /\ Range(MemQueue) \subseteq Frame
  BY <1>4 DEF Dealt
<1>6. /\ Dealt(MemQueue', FreePhys', {})
      /\ \A o \in Range(FreePhys') : PhysMem'[o] = FreeEntry
      /\ \A o \in Range(MemQueue') : Holds(PhysMem', o)
  BY <1>1, <1>4, <1>5 DEF Queued, SameFrame, Holds
<1> QED
  BY <1>2, <1>3, <1>6, InvNext

\* The arena of the running process grows by a page.
LEMMA Grown ==
  ASSUME OInv, call.op \in {"run", "string"}, next[running_pid] # NPages, Grow,
         call' \in Call, call'.op = "run"
  PROVE  /\ NewEntry \in Pte /\ NewEntry \notin Live /\ ~InArena(NewEntry)
         /\ Live' = Live \cup {NewEntry} /\ ControlOK'
         /\ \A e \in Pte : InArena(e)' <=> InArena(e) \/ e = NewEntry
         /\ DOMAIN next' \subseteq Pid /\ next' \in [DOMAIN next' -> 0..NPages]
         /\ running_pid' \in Pid \cup {NoPid}
<1>1. /\ running_pid \in Pid /\ running_pid \in DOMAIN next /\ DOMAIN next \subseteq Pid
      /\ next \in [DOMAIN next -> 0..NPages]
  BY DEF OInv, TypeOK
<1> DEFINE r == running_pid
           n == next[r]
<1>2. n \in 0..(NPages - 1) /\ n + 1 \in 0..NPages
  BY <1>1, OopAssumption
<1>3. /\ running_pid' = r /\ DOMAIN next' = DOMAIN next /\ next'[r] = n + 1
      /\ \A p \in DOMAIN next : p # r => next'[p] = next[p]
      /\ next' \in [DOMAIN next' -> 0..NPages]
  BY <1>1, <1>2 DEF Grow
<1>4. NewEntry \in Pte /\ NewEntry[1] = r /\ NewEntry[2] = n
  BY <1>1, <1>2 DEF NewEntry, Mine, Pte, Vpage
<1>5. \A e \in Pte : e = NewEntry <=> e[1] = r /\ e[2] = n
  BY DEF Pte, NewEntry, Mine
<1>6. \A e \in Pte : e[2] \in Int
  BY DEF Pte, Vpage
<1>7. ~InArena(NewEntry) /\ NewEntry \notin Live
  BY <1>2, <1>4 DEF InArena, Live
<1>8. ASSUME NEW e \in Pte
      PROVE  InArena(e)' <=> InArena(e) \/ e = NewEntry
  <2>1. CASE e[1] = r
    <3>1. e[2] < n + 1 <=> e[2] < n \/ e[2] = n
      BY <1>2, <1>6
    <3> HIDE DEF n, r
    <3> QED
      BY <1>1, <1>3, <1>5, <2>1, <3>1 DEF InArena, n, r
  <2>2. CASE e[1] # r
    BY <1>3, <1>5, <2>2 DEF InArena
  <2> QED
    BY <2>1, <2>2
<1>9. Live = {e \in Pte : InArena(e)} /\ Live' = {e \in Pte : InArena(e)'}
  BY DEF Live, InArena
<1>10. Live' = Live \cup {NewEntry}
  BY <1>4, <1>8, <1>9
<1>11. ControlOK'
  BY <1>1, <1>3 DEF ControlOK, CallOK
<1> QED
  BY <1>1, <1>3, <1>4, <1>7, <1>8, <1>10, <1>11

\* The new page's entry is the only one of a page that changes.
LEMMA GrownUnmapped ==
  ASSUME OInv, \A e \in Pte : InArena(e)' <=> InArena(e) \/ e = NewEntry,
         \A e \in Pte : e # NewEntry => pte'[e] = pte[e]
  PROVE  Unmapped'
<1>1. Unmapped
  BY DEF OInv
<1> QED
  BY <1>1 DEF Unmapped

LEMMA MapSwapKeeps ==
  ASSUME OInv, MapSwap
  PROVE  OInv'
<1> DEFINE F == FirstFreeSwap
           b == <<SWAP, F>>
<1>1. /\ call.op = "run" /\ next[running_pid] # NPages /\ F # BlCnt
      /\ pte' = [pte EXCEPT ![NewEntry] = ZeroEntry]
      /\ bte' = [bte EXCEPT ![NewEntry] = b]
      /\ SwapBlocks' = SwapBlocks \cup {F}
      /\ MappedBlocks' = [MappedBlocks EXCEPT ![b] = @ \cup {NewEntry}]
      /\ FirstFreeSwap' = NextFree /\ Grow /\ UNCHANGED <<frames, data, call>>
  BY DEF MapSwap, Idle, ZeroEntry
<1>2. call' \in Call /\ call'.op = "run"
  BY <1>1 DEF OInv, TypeOK
<1>3. /\ NewEntry \in Pte /\ NewEntry \notin Live
      /\ Live' = Live \cup {NewEntry} /\ ControlOK'
      /\ \A e \in Pte : InArena(e)' <=> InArena(e) \/ e = NewEntry
      /\ DOMAIN next' \subseteq Pid /\ next' \in [DOMAIN next' -> 0..NPages]
      /\ running_pid' \in Pid \cup {NoPid}
  BY <1>1, <1>2, Grown
<1>4. /\ PhysMem' = PhysMem /\ MemQueue' = MemQueue /\ FreePhys' = FreePhys
      /\ UNCHANGED data
  BY <1>1 DEF frames
<1>5. /\ BlCnt \in Nat /\ SwapBlocks \subseteq Block
      /\ SwapBlocks = {k \in Block : MappedBlocks[<<SWAP, k>>] # {}}
      /\ F = Min({k \in 0..BlCnt : k \notin SwapBlocks})
  BY OopAssumption DEF OInv, TypeOK, FirstFreeLeast
<1>6. \A k : k \in Block <=> k \in 0..BlCnt /\ k # BlCnt
  BY <1>5 DEF Block
<1> DEFINE T == {k \in 0..BlCnt : k \notin SwapBlocks}
           U == {k \in (F + 1)..BlCnt : k \notin SwapBlocks}
<1>7. T \in SUBSET Nat /\ T # {}
  BY <1>5, <1>6
<1>8. F \in T /\ \A k \in T : F <= k
  BY <1>5, <1>7, MinInSet, MinLeast
<1>9. F \in Block /\ F \notin SwapBlocks
  BY <1>1, <1>6, <1>8
<1>10. U = {k \in 0..BlCnt : k \notin SwapBlocks'}
  <2>1. SwapBlocks' = SwapBlocks \cup {F}
    BY <1>1
  <2>2. ASSUME NEW k \in U PROVE k \in 0..BlCnt /\ k \notin SwapBlocks'
    BY <1>5, <1>8, <2>1
  <2>3. ASSUME NEW k \in 0..BlCnt, k \notin SwapBlocks' PROVE k \in U
    <3>1. F <= k /\ k # F /\ k \notin SwapBlocks
      BY <1>8, <2>1, <2>3
    <3> QED
      BY <1>5, <1>8, <3>1
  <2> QED
    BY <1>5, <1>8, <2>2, <2>3
<1>11. FirstFreeSwap' = Min(U) /\ FirstFreeSwap' \in 0..BlCnt
  <2>1. FirstFreeSwap' = Min(U)
    BY <1>1 DEF NextFree
  <2>2. F \in Nat /\ F + 1 <= BlCnt
    BY <1>1, <1>5, <1>8
  <2>3. BlCnt \notin SwapBlocks
    BY <1>5, <1>6
  <2>4. BlCnt \in U
    BY <1>5, <2>2, <2>3
  <2>5. U \in SUBSET Nat
    BY <2>2
  <2> HIDE DEF U
  <2>6. Min(U) \in U
    BY <2>4, <2>5, MinInSet
  <2> QED
    BY <2>1, <2>6, <1>5, <1>8 DEF U
<1> HIDE DEF F, T, U
<1>12. b \in SwapBlock /\ b \in Backing /\ MappedBlocks[b] = {}
  BY <1>5, <1>9 DEF SwapBlock, Backing
<1>13. MappedBlocks \in [Backing -> SUBSET Ptes]
  BY DEF OInv, TypeOK
<1>14. MappedBlocks' = [MappedBlocks EXCEPT ![b] = {NewEntry}]
  BY <1>1, <1>12, <1>13
<1> HIDE DEF b
<1>15. Sound(PhysMem', pte', MappedBlocks', bte', Live')
  <2>1. Sound(PhysMem, pte, MappedBlocks, bte, Live)
    BY InvSound
  <2>2. Maps(pte, MappedBlocks, bte, NewEntry, b, ZeroEntry, pte', MappedBlocks', bte')
    BY <1>1, <1>12, <1>14 DEF Maps
  <2>3. Sound(PhysMem, pte', MappedBlocks', bte', Live \cup {NewEntry})
    BY <1>3, <1>12, <2>1, <2>2, PageMapped
  <2> QED
    BY <1>3, <1>4, <2>3
<1>16. Unmapped'
  <2>1. pte \in [Ptes -> Entry] /\ Pte \subseteq Ptes
    BY PteIs DEF OInv, TypeOK
  <2>2. \A e \in Pte : e # NewEntry => pte'[e] = pte[e]
    BY <1>1, <2>1
  <2> QED
    BY <1>3, <2>2, GrownUnmapped
<1>17. FirstFreeLeast'
  <2>1. SwapBlocks' = {k \in Block : MappedBlocks'[<<SWAP, k>>] # {}}
    <3>1. ASSUME NEW k \in Block
          PROVE  MappedBlocks'[<<SWAP, k>>] # {} <=> k \in SwapBlocks \/ k = F
      <4>1. <<SWAP, k>> \in Backing /\ (<<SWAP, k>> = b <=> k = F)
        BY DEF Backing, SwapBlock, b
      <4> QED
        BY <1>5, <1>12, <1>13, <1>14, <4>1
    <3> QED
      BY <1>1, <1>5, <1>9, <3>1
  <2>2. FirstFreeSwap' = Min({k \in 0..BlCnt : k \notin SwapBlocks'})
    BY <1>10, <1>11, Zenon
  <2> QED
    BY <2>1, <2>2 DEF FirstFreeLeast
<1>18. SwapBlocks' \subseteq Block
  BY <1>1, <1>5, <1>9
<1>19. \A o \in Frame : SameFrame(PhysMem[o], PhysMem'[o])
  BY <1>4 DEF SameFrame
<1> QED
  BY <1>1, <1>3, <1>4, <1>11, <1>15, <1>16, <1>17, <1>18, <1>19, RestKeeps

\* The page of a file that vm_map adds, in each of its three cases.
MapsFile(fb) ==
  /\ MapNew(fb) \/ MapShared(fb) \/ MapGhost(fb)
  /\ bte' = [bte EXCEPT ![NewEntry] = fb]

LEMMA FileMapped ==
  ASSUME OInv, NEW fb \in FileBlock, NewEntry \in Pte, NewEntry \notin Live, MapsFile(fb)
  PROVE  /\ Sound(PhysMem', pte', MappedBlocks', bte', Live \cup {NewEntry})
         /\ \A o \in Frame : SameFrame(PhysMem[o], PhysMem'[o])
         /\ \A e \in Pte : e # NewEntry => pte'[e] = pte[e]
         /\ \A b \in SwapBlock : MappedBlocks'[b] = MappedBlocks[b]
<1> DEFINE n == NewEntry
           d == CHOOSE l \in MappedBlocks[fb] : TRUE
           p == pte[d].ppage
<1>1. Sound(PhysMem, pte, MappedBlocks, bte, Live)
  BY InvSound
<1>2. bte' = [bte EXCEPT ![n] = fb] /\ (MapNew(fb) \/ MapShared(fb) \/ MapGhost(fb))
  BY DEF MapsFile
<1>3. fb \in Backing /\ fb \notin SwapBlock
  BY BackingIs DEF Backing
<1>4. /\ PhysMem \in [Ppage -> PhysEntry] /\ pte \in [Ptes -> Entry]
      /\ MappedBlocks \in [Backing -> SUBSET Ptes] /\ n \in Ptes /\ Pte \subseteq Ptes
      /\ Frame \subseteq Ppage
  BY PteIs, FrameIs DEF OInv, TypeOK
<1>5. MappedBlocks[fb] # {} => d \in MappedBlocks[fb]
  OBVIOUS
<1>6. SwapBlock \subseteq Backing
  BY DEF Backing
<1>7. \A o \in Frame : SameFrame(PhysMem[o], PhysMem[o])
  BY DEF SameFrame
<1> HIDE DEF n, d
<1>8. CASE MapNew(fb)
  <2>1. /\ MappedBlocks[fb] = {} /\ pte' = [pte EXCEPT ![n] = NullEntry]
        /\ MappedBlocks' = [MappedBlocks EXCEPT ![fb] = {n}] /\ PhysMem' = PhysMem
    BY <1>8 DEF MapNew, n
  <2>2. Maps(pte, MappedBlocks, bte, n, fb, NullEntry, pte', MappedBlocks', bte')
    BY <1>2, <2>1 DEF Maps
  <2>3. Sound(PhysMem, pte', MappedBlocks', bte', Live \cup {n})
    BY <1>1, <1>3, <2>2, PageMapped DEF n
  <2>4. /\ \A e \in Pte : e # n => pte'[e] = pte[e]
        /\ \A b \in SwapBlock : MappedBlocks'[b] = MappedBlocks[b]
    BY <1>3, <1>4, <1>6, <2>1
  <2> QED
    BY <1>7, <2>1, <2>3, <2>4 DEF n
<1>9. CASE MapShared(fb)
  <2>1. /\ MappedBlocks[fb] # {} /\ ~IsGhost(pte[d].ppage)
        /\ pte' = [pte EXCEPT ![n] = pte[d]]
        /\ MappedBlocks' = [MappedBlocks EXCEPT ![fb] = @ \cup {n}] /\ PhysMem' = PhysMem
    BY <1>9 DEF MapShared, n, d
  <2>2. ~(pte[d].ppage # Absent /\ PhysMem[pte[d].ppage].state \in GhostStates)
    BY <2>1 DEF IsGhost
  <2>3. Shares(PhysMem, pte, MappedBlocks, bte, n, fb, d, pte', MappedBlocks', bte')
    BY <1>2, <1>5, <2>1, <2>2, Zenon DEF Shares
  <2>4. Sound(PhysMem, pte', MappedBlocks', bte', Live \cup {n})
    BY <1>1, <2>3, PageShared DEF n
  <2>5. /\ \A e \in Pte : e # n => pte'[e] = pte[e]
        /\ \A b \in SwapBlock : MappedBlocks'[b] = MappedBlocks[b]
    BY <1>3, <1>4, <1>6, <2>1
  <2> QED
    BY <1>7, <2>1, <2>4, <2>5 DEF n
<1>10. CASE MapGhost(fb)
  <2> DEFINE x == IF PhysMem[p].state = "GHOST_PEND" THEN Unreadable(pte[d]) ELSE pte[d]
  <2>1. /\ MappedBlocks[fb] # {} /\ IsGhost(p)
        /\ pte' = [pte EXCEPT ![n] = x, ![d] = NullEntry]
        /\ MappedBlocks' = [MappedBlocks EXCEPT ![fb] = {n}]
        /\ PhysMem' = [PhysMem EXCEPT ![p] = Revived(@)]
    BY <1>10 DEF MapGhost, n, d
  <2>2. p # Absent /\ PhysMem[p].state \in GhostStates
    BY <2>1 DEF IsGhost
  <2>3. Replaces(PhysMem, pte, MappedBlocks, bte, n, fb, d, p, x,
                 PhysMem', pte', MappedBlocks', bte')
    BY <1>2, <1>5, <2>1, <2>2, Zenon DEF Replaces
  <2> HIDE DEF x, p
  <2>4. /\ Sound(PhysMem', pte', MappedBlocks', bte', Live \cup {n})
        /\ p \in Frame /\ PhysMem[p].loc = fb
    BY <1>1, <2>3, GhostReplaced DEF n
  <2>5. d \notin Pte
    <3>1. MappedBlocks[PhysMem[p].loc] = {Ghost(p)}
      BY <1>1, <2>2, <2>4 DEF Sound, Agree, GhostsListed
    <3>2. d = Ghost(p)
      BY <1>5, <2>1, <2>4, <3>1
    <3> QED
      BY <2>4, <3>2, PteIs
  <2>6. /\ \A e \in Pte : e # n => pte'[e] = pte[e]
        /\ \A b \in SwapBlock : MappedBlocks'[b] = MappedBlocks[b]
    BY <1>3, <1>4, <1>6, <2>1, <2>5
  <2>7. \A o \in Frame : SameFrame(PhysMem[o], PhysMem'[o])
    <3> DEFINE r == Revived(PhysMem[p])
    <3>1. PhysMem' = [PhysMem EXCEPT ![p] = r]
      BY <2>1
    <3>2. /\ r.loc = PhysMem[p].loc /\ r.dirty = PhysMem[p].dirty
          /\ r.state # "FREE" /\ PhysMem[p].state # "FREE"
      BY <1>4, <2>2, <2>4, RevivedRecord, StatesAre
    <3> HIDE DEF r
    <3>3. SameFrame(PhysMem[p], r)
      BY <3>2, StatesAre DEF SameFrame
    <3>4. PhysMem'[p] = r /\ \A o \in Frame : o # p => PhysMem'[o] = PhysMem[o]
      BY <1>4, <2>4, <3>1
    <3> QED
      BY <1>7, <3>3, <3>4
  <2> QED
    BY <2>4, <2>6, <2>7 DEF n
<1> QED
  BY <1>2, <1>8, <1>9, <1>10

LEMMA MapFileKeeps ==
  ASSUME OInv, NEW v \in Vpage, NEW c \in FBlock, MapFile(v, c)
  PROVE  OInv'
<1> DEFINE e == Mine(v)
           fb == <<NameOf[phys[pte[e].ppage]], c>>
<1>1. /\ Reading(v, c) /\ Permits(v, FALSE) /\ MapsFile(fb) /\ Grow /\ call' = Run
      /\ UNCHANGED <<MemQueue, FreePhys, space, data>>
  BY Zenon DEF MapFile, MapsFile
<1>2. call.op \in {"run", "string"} /\ next[running_pid] # NPages
  BY <1>1, ReadingRoom
<1>3. Run \in Call /\ Run.op = "run"
  <2>1. v \in 0..NPages
    BY OopAssumption DEF Vpage
  <2> QED
    BY <2>1, CallsAre
<1>4. /\ NewEntry \in Pte /\ NewEntry \notin Live
      /\ Live' = Live \cup {NewEntry} /\ ControlOK'
      /\ \A l \in Pte : InArena(l)' <=> InArena(l) \/ l = NewEntry
      /\ DOMAIN next' \subseteq Pid /\ next' \in [DOMAIN next' -> 0..NPages]
      /\ running_pid' \in Pid \cup {NoPid}
  BY <1>1, <1>2, <1>3, Grown
<1>5. fb \in FileBlock
  <2>1. e \in Live /\ pte[e].read_enable
    <3>1. e \in Live
      BY <1>1, <1>2, PermittedLive
    <3> QED
      BY <1>1, <3>1 DEF Permits
  <2>2. Sound(PhysMem, pte, MappedBlocks, bte, Live)
    BY InvSound
  <2>3. /\ pte[e].ppage \in Frame \cup {Absent, 0}
        /\ pte[e].ppage = Absent => pte[e] = NullEntry
    BY <2>1, <2>2, NamedFrame
  <2>4. pte[e].ppage \in Ppage
    BY <2>1, <2>3, EntriesAre, FrameIs
  <2>5. phys[pte[e].ppage] \in Data
    BY <2>4 DEF OInv, TypeOK
  <2> QED
    BY <2>5, OopAssumption DEF FileBlock
<1> HIDE DEF fb
<1>6. /\ Sound(PhysMem', pte', MappedBlocks', bte', Live \cup {NewEntry})
      /\ \A o \in Frame : SameFrame(PhysMem[o], PhysMem'[o])
      /\ \A l \in Pte : l # NewEntry => pte'[l] = pte[l]
      /\ \A b \in SwapBlock : MappedBlocks'[b] = MappedBlocks[b]
  BY <1>1, <1>4, <1>5, FileMapped
<1>7. Sound(PhysMem', pte', MappedBlocks', bte', Live')
  BY <1>4, <1>6
<1>8. Unmapped'
  BY <1>4, <1>6, GrownUnmapped
<1>9. SwapBlocks' = SwapBlocks /\ FirstFreeSwap' = FirstFreeSwap /\ UNCHANGED space
      /\ SwapBlocks' \subseteq Block /\ FirstFreeSwap' \in 0..BlCnt
  BY <1>1 DEF space, OInv, TypeOK
<1>10. FirstFreeLeast'
  <2>1. FirstFreeLeast
    BY DEF OInv
  <2> QED
    BY <1>6, <1>9, <2>1, LeastKept
<1>11. call.op # "exit" /\ UNCHANGED <<MemQueue, FreePhys, data>>
  BY <1>1, <1>2
<1> QED
  BY <1>4, <1>6, <1>7, <1>8, <1>9, <1>10, <1>11, RestKeeps

-----------------------------------------------------------------------------
(* vm_destroy.                                                             *)

\* Its pages go one at a time.
LEMMA OnePageLess ==
  ASSUME OInv, NEW v \in 0..NPages, Exiting(v), v < next[running_pid],
         UNCHANGED proc, call' = Exit(v + 1)
  PROVE  /\ Mine(v) \in Live /\ Live' = Live \ {Mine(v)} /\ ControlOK' /\ call'.op = "exit"
         /\ \A l \in Pte : InArena(l)' <=> InArena(l)
<1>1. PICK b : b \in FBlock
  BY OopAssumption
<1>2. Exit(v).op = "exit" /\ Exit(v).vp = v
  BY <1>1, CallsAre
<1>3. \/ call.op = "run" /\ v = 0
      \/ call.op = "exit" /\ call.vp = v
  BY <1>2 DEF Exiting, Idle
<1>4. /\ running_pid \in Pid /\ running_pid \in DOMAIN next
      /\ next[running_pid] \in 0..NPages /\ running_pid' = running_pid /\ next' = next
  BY <1>3 DEF OInv, TypeOK, proc
<1>5. v + 1 \in 0..NPages /\ v + 1 <= next[running_pid] /\ v \in Vpage
  BY <1>4, OopAssumption DEF Vpage
<1>6. Exit(v + 1) \in Call /\ Exit(v + 1).op = "exit" /\ Exit(v + 1).vp = v + 1
  BY <1>1, <1>5, CallsAre
<1>7. ControlOK'
  BY <1>4, <1>5, <1>6 DEF ControlOK, CallOK
<1>8. Mine(v) \in Pte /\ Mine(v)[1] = running_pid /\ Mine(v)[2] = v
  BY <1>4, <1>5 DEF Mine, Pte
<1>9. \A l \in Pte : l = Mine(v) <=> l[1] = running_pid /\ l[2] = v
  BY DEF Mine, Pte
<1>10. \A l \in Pte : l[2] \in Nat
  BY DEF Pte, Vpage
<1>11. \A l \in Pte : InArena(l)' <=> InArena(l)
  BY <1>4 DEF InArena
<1>12. \A l \in Pte : l \in Live <=> InArena(l) /\ ~(l[1] = running_pid /\ l[2] < v)
  BY <1>3, <1>10 DEF Live, InArena
<1>13. \A l \in Pte : l \in Live' <=> InArena(l) /\ ~(l[1] = running_pid /\ l[2] < v + 1)
  BY <1>4, <1>6 DEF Live, InArena
<1>14. \A l \in Pte : l[2] < v + 1 <=> l[2] < v \/ l[2] = v
  BY <1>10
<1>15. \A l \in Pte : l \in Live' <=> l \in Live /\ l # Mine(v)
  BY <1>9, <1>12, <1>13, <1>14
<1>16. Live \subseteq Pte /\ Live' \subseteq Pte
  BY DEF Live
<1>17. Mine(v) \in Live
  BY <1>4, <1>8, <1>12 DEF InArena
<1> QED
  BY <1>6, <1>7, <1>11, <1>15, <1>16, <1>17

\* What discarding a page leaves to show of the rest.
Discards(e) ==
  /\ Sound(PhysMem', pte', MappedBlocks', bte', Live \ {e})
  /\ \A o \in Frame : SameFrame(PhysMem[o], PhysMem'[o]) \/ PhysMem'[o] = FreeEntry
  /\ \A l \in Pte : pte'[l] = pte[l]
  /\ SwapBlocks' \subseteq Block /\ FirstFreeSwap' \in 0..BlCnt /\ FirstFreeLeast'

LEMMA SwapDiscarded ==
  ASSUME OInv, NEW e \in Live, DiscardSwap(e), UNCHANGED bte
  PROVE  Discards(e)
<1> DEFINE b == bte[e][2]
           p == pte[e].ppage
           F == FirstFreeSwap
           T == {k \in 0..BlCnt : k \notin SwapBlocks}
<1>1. /\ bte[e][1] = SWAP /\ SwapBlocks' = SwapBlocks \ {b} /\ FirstFreeSwap' = Lower(b)
      /\ MappedBlocks' = [MappedBlocks EXCEPT ![bte[e]] = {}]
      /\ PhysMem' = IF p \in {Absent, 0} THEN PhysMem ELSE [PhysMem EXCEPT ![p] = FreeEntry]
      /\ pte' = pte /\ bte' = bte
  BY DEF DiscardSwap
<1>2. Sound(PhysMem, pte, MappedBlocks, bte, Live)
  BY InvSound
<1>3. bte[e] \in SwapBlock /\ MappedBlocks[bte[e]] = {e}
  <2>1. bte[e] \in Backing
    BY <1>2, LivePage
  <2>2. bte[e] \in SwapBlock
    BY <1>1, <2>1, BackingIs
  <2> QED
    BY <1>2, <2>2, LivePage
<1>4. b \in Block /\ bte[e] = <<SWAP, b>>
  BY <1>3 DEF SwapBlock
<1> HIDE DEF p, b
<1>5. DropsSwap(PhysMem, pte, MappedBlocks, bte, e, p, PhysMem', MappedBlocks')
  BY <1>1, <1>3, Zenon DEF DropsSwap, p
<1>6. /\ Sound(PhysMem', pte, MappedBlocks', bte, Live \ {e})
      /\ \A o \in Frame : PhysMem'[o] = PhysMem[o] \/ PhysMem'[o] = FreeEntry
  BY <1>2, <1>5, SwapPageDropped
<1>7. \A o \in Frame : SameFrame(PhysMem[o], PhysMem'[o]) \/ PhysMem'[o] = FreeEntry
  BY <1>6 DEF SameFrame
<1>8. /\ BlCnt \in Nat /\ SwapBlocks \subseteq Block
      /\ SwapBlocks = {k \in Block : MappedBlocks[<<SWAP, k>>] # {}}
      /\ F = Min(T) /\ MappedBlocks \in [Backing -> SUBSET Ptes]
  BY OopAssumption DEF OInv, TypeOK, FirstFreeLeast
<1>9. \A k : k \in Block <=> k \in 0..BlCnt /\ k # BlCnt
  BY <1>8 DEF Block
<1>10. T \in SUBSET Nat /\ T # {}
  BY <1>8, <1>9
<1>11. F \in T /\ \A k \in T : F <= k
  BY <1>8, <1>10, MinInSet, MinLeast
<1> DEFINE U == {k \in 0..BlCnt : k \notin SwapBlocks'}
<1>12. U = T \cup {b} /\ b \in 0..BlCnt /\ F \in 0..BlCnt
  BY <1>1, <1>4, <1>9, <1>11
<1> HIDE DEF F
<1>13. Lower(b) = Min(U) /\ Lower(b) \in 0..BlCnt
  <2> DEFINE m == IF b < F THEN b ELSE F
  <2>1. m \in U /\ \A k \in T \cup {b} : m <= k
    <3>1. F \in T /\ b \in Nat /\ F \in Nat /\ \A k \in T : k \in Nat /\ F <= k
      BY <1>8, <1>10, <1>11, <1>12
    <3>2. m \in T \cup {b}
      BY <3>1
    <3> HIDE DEF T, U
    <3>3. \A k \in T \cup {b} : m <= k
      BY <3>1
    <3> QED
      BY <1>12, <3>2, <3>3
  <2>2. U \in SUBSET Nat
    BY <1>8
  <2>3. \A k \in U : m <= k
    BY <1>12, <2>1
  <2>4. m = Lower(b)
    BY DEF Lower, F
  <2> HIDE DEF U, m
  <2>5. Min(U) = m
    BY <2>1, <2>2, <2>3, MinIs
  <2> QED
    BY <2>1, <2>4, <2>5 DEF U
<1>14. SwapBlocks' = {k \in Block : MappedBlocks'[<<SWAP, k>>] # {}}
  <2>1. ASSUME NEW k \in Block
        PROVE  MappedBlocks'[<<SWAP, k>>] # {} <=> k \in SwapBlocks /\ k # b
    <3>1. <<SWAP, k>> \in Backing /\ (<<SWAP, k>> = bte[e] <=> k = b)
      BY <1>4 DEF Backing, SwapBlock
    <3> QED
      BY <1>1, <1>8, <3>1
  <2> QED
    BY <1>1, <1>8, <2>1
<1>15. FirstFreeLeast'
  <2>1. FirstFreeSwap' = Min(U)
    BY <1>1, <1>13
  <2> QED
    BY <1>14, <2>1, Zenon DEF FirstFreeLeast
<1>16. SwapBlocks' \subseteq Block /\ FirstFreeSwap' \in 0..BlCnt
  BY <1>1, <1>8, <1>13
<1> QED
  BY <1>1, <1>6, <1>7, <1>15, <1>16 DEF Discards

LEMMA FileDiscarded ==
  ASSUME OInv, NEW e \in Live, DiscardFile(e), UNCHANGED bte
  PROVE  Discards(e)
<1> DEFINE p == pte[e].ppage
<1>1. /\ bte[e][1] # SWAP /\ bte' = bte /\ UNCHANGED space
      /\ LeavesGhost(e) =>
           /\ pte' = [pte EXCEPT ![Ghost(p)] = pte[e]]
           /\ MappedBlocks' = [MappedBlocks EXCEPT ![bte[e]] = {Ghost(p)}]
           /\ PhysMem' = [PhysMem EXCEPT ![p] = Ghosted(@)]
      /\ ~LeavesGhost(e) =>
           /\ MappedBlocks' = [MappedBlocks EXCEPT ![bte[e]] = @ \ {e}]
           /\ pte' = pte /\ PhysMem' = PhysMem
  BY DEF DiscardFile
<1>2. Sound(PhysMem, pte, MappedBlocks, bte, Live)
  BY InvSound
<1>3. bte[e] \in FileBlock /\ bte[e] \notin SwapBlock
  <2>1. bte[e] \in Backing
    BY <1>2, LivePage
  <2> QED
    BY <1>1, <2>1, BackingIs DEF Backing
<1>4. /\ PhysMem \in [Ppage -> PhysEntry] /\ pte \in [Ptes -> Entry]
      /\ MappedBlocks \in [Backing -> SUBSET Ptes] /\ Pte \subseteq Ptes
      /\ Frame \subseteq Ppage
  BY PteIs, FrameIs DEF OInv, TypeOK
<1>5. SwapBlock \subseteq Backing
  BY DEF Backing
<1>6. \A o \in Frame : SameFrame(PhysMem[o], PhysMem[o])
  BY DEF SameFrame
<1>7. /\ SwapBlocks' \subseteq Block /\ FirstFreeSwap' \in 0..BlCnt
  BY <1>1 DEF space, OInv, TypeOK
<1>8. \A b \in SwapBlock : MappedBlocks'[b] = MappedBlocks[b]
  BY <1>1, <1>3, <1>4, <1>5
<1>9. FirstFreeLeast'
  <2>1. FirstFreeLeast
    BY DEF OInv
  <2> QED
    BY <1>1, <1>8, <2>1, LeastKept
<1> HIDE DEF p
<1>10. CASE LeavesGhost(e)
  <2>1. Haunts(PhysMem, pte, MappedBlocks, bte, e, p, PhysMem', pte', MappedBlocks')
    BY <1>1, <1>3, <1>10, Zenon DEF Haunts, LeavesGhost, p
  <2>2. /\ Sound(PhysMem', pte', MappedBlocks', bte, Live \ {e})
        /\ p \in Frame /\ PhysMem[p] \in PhysEntry
        /\ PhysMem[p].state \in {"REFERENCED", "PEND"}
    BY <1>2, <2>1, GhostLeft
  <2>3. \A l \in Pte : pte'[l] = pte[l]
    BY <1>1, <1>4, <1>10, <2>2, PteIs
  <2>4. \A o \in Frame : SameFrame(PhysMem[o], PhysMem'[o])
    <3> DEFINE r == Ghosted(PhysMem[p])
    <3>1. PhysMem' = [PhysMem EXCEPT ![p] = r]
      BY <1>1, <1>10
    <3>2. /\ r.loc = PhysMem[p].loc /\ r.dirty = PhysMem[p].dirty
          /\ r.state # "FREE" /\ PhysMem[p].state # "FREE"
      BY <2>2, GhostedRecord, StatesAre
    <3> HIDE DEF r
    <3>3. SameFrame(PhysMem[p], r)
      BY <3>2, StatesAre DEF SameFrame
    <3>4. PhysMem'[p] = r /\ \A o \in Frame : o # p => PhysMem'[o] = PhysMem[o]
      BY <1>4, <2>2, <3>1
    <3> QED
      BY <1>6, <3>3, <3>4
  <2> QED
    BY <1>1, <1>7, <1>9, <2>2, <2>3, <2>4 DEF Discards
<1>11. CASE ~LeavesGhost(e)
  <2>1. /\ MappedBlocks' = [MappedBlocks EXCEPT ![bte[e]] = @ \ {e}]
        /\ pte' = pte /\ PhysMem' = PhysMem
    BY <1>1, <1>11
  <2>2. DropsFile(pte, MappedBlocks, bte, e, MappedBlocks')
    BY <1>3, <1>11, <2>1, Zenon DEF DropsFile, LeavesGhost
  <2>3. Sound(PhysMem, pte, MappedBlocks', bte, Live \ {e})
    BY <1>2, <2>2, FilePageDropped
  <2> QED
    BY <1>1, <1>6, <1>7, <1>9, <2>1, <2>3 DEF Discards
<1> QED
  BY <1>10, <1>11

LEMMA DestroyPageKeeps ==
  ASSUME OInv, NEW v \in 0..NPages, DestroyPage(v)
  PROVE  OInv'
<1> DEFINE e == Mine(v)
<1>1. /\ Exiting(v) /\ v < next[running_pid] /\ (DiscardSwap(e) \/ DiscardFile(e))
      /\ call' = Exit(v + 1) /\ UNCHANGED <<proc, bte, MemQueue, FreePhys, data>>
  BY Zenon DEF DestroyPage
<1>2. UNCHANGED proc /\ UNCHANGED bte
  BY <1>1
<1>3. /\ e \in Live /\ Live' = Live \ {e} /\ ControlOK' /\ call'.op = "exit"
      /\ \A l \in Pte : InArena(l)' <=> InArena(l)
  BY <1>1, <1>2, OnePageLess
<1> HIDE DEF e
<1>4. Discards(e)
  BY <1>1, <1>2, <1>3, SwapDiscarded, FileDiscarded
<1>5. /\ Sound(PhysMem', pte', MappedBlocks', bte', Live')
      /\ \A o \in Frame : SameFrame(PhysMem[o], PhysMem'[o]) \/ PhysMem'[o] = FreeEntry
      /\ \A l \in Pte : pte'[l] = pte[l]
      /\ SwapBlocks' \subseteq Block /\ FirstFreeSwap' \in 0..BlCnt /\ FirstFreeLeast'
  BY <1>3, <1>4 DEF Discards
<1>6. /\ MemQueue' = MemQueue /\ FreePhys' = FreePhys /\ phys' = phys /\ disk' = disk
      /\ accessed' = accessed /\ running_pid' = running_pid /\ next' = next
  BY <1>1 DEF data, proc
<1>7. Unmapped'
  <2>1. Unmapped
    BY DEF OInv
  <2> QED
    BY <1>3, <1>5, <2>1 DEF Unmapped
<1>8. /\ DOMAIN next' \subseteq Pid /\ next' \in [DOMAIN next' -> 0..NPages]
      /\ running_pid' \in Pid \cup {NoPid} /\ phys' \in [Ppage -> Data]
      /\ disk' \in [Backing -> Data] /\ accessed' \subseteq FileBlock
      /\ Dealt(MemQueue', FreePhys', {})
  BY <1>6 DEF OInv, TypeOK
<1>9. Saved(PhysMem', phys', disk', accessed')
  <2>1. Saved(PhysMem, phys, disk, accessed)
    BY DEF OInv
  <2>2. \A o \in Frame : Holds(PhysMem', o) => SameFrame(PhysMem[o], PhysMem'[o])
    BY <1>5, StatesAre DEF Holds
  <2> QED
    BY <1>6, <2>1, <2>2 DEF Saved, SameFrame, Holds
<1>10. \A o \in Range(FreePhys') : PhysMem'[o] = FreeEntry
  <2>1. Dealt(MemQueue, FreePhys, {}) /\ Queued(PhysMem, MemQueue, FreePhys)
    BY DEF OInv
  <2>2. Range(FreePhys) \subseteq Frame
    BY <2>1 DEF Dealt
  <2> QED
    BY <1>5, <1>6, <2>1, <2>2 DEF Queued, SameFrame
<1> QED
  BY <1>3, <1>5, <1>7, <1>8, <1>9, <1>10, InvNext

\* Then its tables, once none of its pages is left.
LEMMA NoPageLeft ==
  ASSUME OInv, NEW v \in 0..NPages, Exiting(v), v = next[running_pid],
         UNCHANGED running_pid, call' = None,
         next' = [p \in DOMAIN next \ {running_pid} |-> next[p]]
  PROVE  /\ running_pid \in Pid /\ \A l \in Live : l[1] # running_pid
         /\ Live' = Live /\ ControlOK' /\ call'.op = "none"
         /\ \A l \in Pte : InArena(l)' <=> InArena(l) /\ l[1] # running_pid
         /\ DOMAIN next' \subseteq Pid /\ next' \in [DOMAIN next' -> 0..NPages]
<1>1. PICK b : b \in FBlock
  BY OopAssumption
<1>2. Exit(v).op = "exit" /\ Exit(v).vp = v
  BY <1>1, CallsAre
<1>3. \/ call.op = "run" /\ v = 0
      \/ call.op = "exit" /\ call.vp = v
  BY <1>2 DEF Exiting, Idle
<1>4. /\ running_pid \in Pid /\ running_pid \in DOMAIN next
      /\ DOMAIN next \subseteq Pid /\ next \in [DOMAIN next -> 0..NPages]
  BY <1>3 DEF OInv, TypeOK
<1>5. None \in Call /\ None.op = "none"
  <2>1. FALSE \in BOOLEAN
    OBVIOUS
  <2> QED
    BY <1>1, <2>1, CallsAre
<1>6. ControlOK'
  BY <1>5 DEF ControlOK, CallOK
<1>7. /\ DOMAIN next' = DOMAIN next \ {running_pid}
      /\ \A p \in DOMAIN next' : next'[p] = next[p]
      /\ next' \in [DOMAIN next' -> 0..NPages]
  BY <1>4
<1>8. \A l \in Pte : InArena(l)' <=> InArena(l) /\ l[1] # running_pid
  BY <1>7 DEF InArena
<1>9. \A l \in Pte : l[2] \in Nat
  BY DEF Pte, Vpage
<1>10. \A l \in Pte : l \in Live <=> InArena(l) /\ l[1] # running_pid
  BY <1>3, <1>9 DEF Live, InArena
<1>11. \A l \in Pte : l \in Live' <=> InArena(l)'
  BY <1>5 DEF Live, InArena
<1>12. Live \subseteq Pte /\ Live' \subseteq Pte
  BY DEF Live
<1>13. Live' = Live
  BY <1>8, <1>10, <1>11, <1>12
<1> QED
  BY <1>4, <1>5, <1>6, <1>7, <1>8, <1>10, <1>12, <1>13

\* The frames that vm_destroy made free go behind the free ones.
LEMMA QueuesSorted ==
  ASSUME OInv
  PROVE  /\ Dealt(SortedQueue, SortedFree, {})
         /\ \A p \in Range(SortedFree) : PhysMem[p] = FreeEntry
         /\ \A p \in Range(SortedQueue) : Holds(PhysMem, p)
<1> DEFINE A == {p \in Frame : IsFree(p)}
           B == {p \in Frame : InUse(p)}
<1>1. /\ MemQueue \in Seq(Frame) /\ IsInjective(MemQueue)
      /\ FreePhys \in Seq(Frame) /\ IsInjective(FreePhys)
      /\ Range(MemQueue) \cap Range(FreePhys) = {}
      /\ Range(MemQueue) \cup Range(FreePhys) = Frame
      /\ \A p \in Range(FreePhys) : PhysMem[p] = FreeEntry
  BY DEF OInv, Dealt, Queued
<1>2. /\ \A p \in Frame : p \in A \/ p \in B
      /\ \A p \in A : p \in Frame /\ ~Holds(PhysMem, p)
      /\ \A p \in B : p \in Frame /\ Holds(PhysMem, p)
  BY DEF InUse, IsFree, Holds
<1>3. \A p \in A : PhysMem[p] = FreeEntry
  <2>1. PhysMem \in [Ppage -> PhysEntry] /\ Recorded(PhysMem)
    BY DEF OInv, TypeOK, Agree
  <2> QED
    BY <1>2, <2>1, HeldRecord
<1>4. SortedFree = FreePhys \o Sifted(MemQueue, A) /\ SortedQueue = Sifted(MemQueue, B)
  BY DEF SortedFree, SortedQueue
<1> HIDE DEF A, B
<1>5. /\ Sifted(MemQueue, A) \in Seq(Frame) /\ IsInjective(Sifted(MemQueue, A))
      /\ Range(Sifted(MemQueue, A)) = Range(MemQueue) \cap A
  BY <1>1, SiftedKeeps
<1>6. /\ Sifted(MemQueue, B) \in Seq(Frame) /\ IsInjective(Sifted(MemQueue, B))
      /\ Range(Sifted(MemQueue, B)) = Range(MemQueue) \cap B
  BY <1>1, SiftedKeeps
<1>7. /\ SortedFree \in Seq(Frame) /\ IsInjective(SortedFree)
      /\ Range(SortedFree) = Range(FreePhys) \cup (Range(MemQueue) \cap A)
  <2>1. Range(FreePhys) \cap Range(Sifted(MemQueue, A)) = {}
    BY <1>1, <1>5
  <2> QED
    BY <1>1, <1>4, <1>5, <2>1, Joined
<1>8. SortedQueue \in Seq(Frame) /\ IsInjective(SortedQueue)
      /\ Range(SortedQueue) = Range(MemQueue) \cap B
  BY <1>4, <1>6
<1>9. \A p \in A : p \notin B
  BY <1>2
<1>10. /\ Range(SortedQueue) \cap Range(SortedFree) = {}
       /\ Range(SortedQueue) \cup Range(SortedFree) = Frame \ {}
  BY <1>1, <1>2, <1>7, <1>8, <1>9
<1> QED
  BY <1>1, <1>2, <1>3, <1>7, <1>8, <1>10 DEF Dealt

LEMMA DestroyTableKeeps ==
  ASSUME OInv, NEW v \in 0..NPages, DestroyTable(v)
  PROVE  OInv'
<1>1. /\ Exiting(v) /\ v = next[running_pid]
      /\ FreePhys' = SortedFree /\ MemQueue' = SortedQueue
      /\ pte' = [l \in Ptes |-> IF l[1] = running_pid THEN NullEntry ELSE pte[l]]
      /\ bte' = [l \in Pte |-> IF l[1] = running_pid THEN NoLoc ELSE bte[l]]
      /\ next' = [p \in DOMAIN next \ {running_pid} |-> next[p]]
      /\ call' = None /\ running_pid' = running_pid /\ MappedBlocks' = MappedBlocks
      /\ PhysMem' = PhysMem /\ UNCHANGED space
      /\ phys' = phys /\ disk' = disk /\ accessed' = accessed
  BY DEF DestroyTable, data
<1>2. /\ running_pid \in Pid /\ \A l \in Live : l[1] # running_pid
      /\ Live' = Live /\ ControlOK' /\ call'.op = "none"
      /\ \A l \in Pte : InArena(l)' <=> InArena(l) /\ l[1] # running_pid
      /\ DOMAIN next' \subseteq Pid /\ next' \in [DOMAIN next' -> 0..NPages]
  BY <1>1, NoPageLeft
<1>3. Sound(PhysMem, pte, MappedBlocks, bte, Live)
  BY InvSound
<1>4. /\ pte \in [Ptes -> Entry] /\ bte \in [Pte -> Backing \cup {NoLoc}]
      /\ MappedBlocks \in [Backing -> SUBSET Ptes] /\ Live \subseteq Pte
      /\ Pte \subseteq Ptes
  BY PteIs DEF OInv, TypeOK, Live
<1>5. \A c \in Backing : \A l \in MappedBlocks[c] : l[1] # running_pid /\ l \in Ptes
  <2> SUFFICES ASSUME NEW c \in Backing, NEW l \in MappedBlocks[c]
               PROVE  l[1] # running_pid
    BY <1>4
  <2>1. MappedBlocks[c] = Users(c, Live, bte) \/ GhostOf(PhysMem, MappedBlocks, c)
    BY <1>3 DEF Sound, Agree, Listed
  <2>2. \A p : Ghost(p)[1] = NoPid
    BY DEF Ghost
  <2> QED
    BY <1>2, <2>1, <2>2, OopAssumption DEF Users, GhostOf
<1>6. Erases(pte, MappedBlocks, bte, Live, pte', bte')
  <2>1. pte' \in [Ptes -> Entry] /\ bte' \in [Pte -> Backing \cup {NoLoc}]
    BY <1>1, <1>4, EntriesAre
  <2>2. \A l \in Live : bte'[l] = bte[l]
    BY <1>1, <1>2, <1>4
  <2>3. \A c \in Backing : \A l \in MappedBlocks[c] : pte'[l] = pte[l]
    BY <1>1, <1>5
  <2> QED
    BY <2>1, <2>2, <2>3 DEF Erases
<1>7. Sound(PhysMem', pte', MappedBlocks', bte', Live')
  <2>1. Sound(PhysMem, pte', MappedBlocks, bte', Live)
    BY <1>3, <1>6, TablesErased
  <2> QED
    BY <1>1, <1>2, <2>1
<1>8. Unmapped'
  <2>1. Unmapped
    BY DEF OInv
  <2> QED
    BY <1>1, <1>2, <1>4, <2>1 DEF Unmapped
<1>9. /\ Dealt(MemQueue', FreePhys', {})
      /\ \A p \in Range(FreePhys') : PhysMem'[p] = FreeEntry
      /\ \A p \in Range(MemQueue') : Holds(PhysMem', p)
  BY <1>1, QueuesSorted
<1>10. /\ running_pid' \in Pid \cup {NoPid} /\ phys' \in [Ppage -> Data]
       /\ disk' \in [Backing -> Data] /\ accessed' \subseteq FileBlock
       /\ SwapBlocks' \subseteq Block /\ FirstFreeSwap' \in 0..BlCnt
       /\ Saved(PhysMem', phys', disk', accessed')
  BY <1>1 DEF space, OInv, TypeOK
<1>11. FirstFreeLeast'
  <2>1. FirstFreeLeast
    BY DEF OInv
  <2> QED
    BY <1>1, <2>1, LeastKept
<1> QED
  BY <1>2, <1>7, <1>8, <1>9, <1>10, <1>11, InvNext

-----------------------------------------------------------------------------
(* vm_create and vm_switch.                                                *)

\* Neither changes a page.
LEMMA KernelKeeps ==
  ASSUME OInv, Kernel, ControlOK', call'.op \in {"run", "none"},
         DOMAIN next' \subseteq Pid, next' \in [DOMAIN next' -> 0..NPages],
         running_pid' \in Pid \cup {NoPid},
         \A e \in Pte : InArena(e)' <=> InArena(e),
         UNCHANGED <<tables, frames, space, data>>
  PROVE  OInv'
<1>1. /\ pte' = pte /\ bte' = bte /\ MappedBlocks' = MappedBlocks /\ PhysMem' = PhysMem
      /\ SwapBlocks' = SwapBlocks /\ FirstFreeSwap' = FirstFreeSwap
      /\ UNCHANGED <<MemQueue, FreePhys, data>> /\ UNCHANGED space
  BY DEF tables, frames, space
<1>2. call.op # "exit" /\ call'.op # "exit"
  BY DEF Kernel
<1>3. Live = {e \in Pte : InArena(e)} /\ Live' = {e \in Pte : InArena(e)'}
  BY <1>2 DEF Live, InArena
<1>4. Live' = Live
  BY <1>3
<1>5. Sound(PhysMem', pte', MappedBlocks', bte', Live')
  <2>1. Sound(PhysMem, pte, MappedBlocks, bte, Live)
    BY InvSound
  <2> QED
    BY <1>1, <1>4, <2>1
<1>6. Unmapped'
  <2>1. Unmapped
    BY DEF OInv
  <2> QED
    BY <1>1, <2>1 DEF Unmapped
<1>7. FirstFreeLeast'
  <2>1. FirstFreeLeast
    BY DEF OInv
  <2> QED
    BY <1>1, <2>1, LeastKept
<1>8. SwapBlocks' \subseteq Block /\ FirstFreeSwap' \in 0..BlCnt
  BY <1>1 DEF OInv, TypeOK
<1>9. \A o \in Frame : SameFrame(PhysMem[o], PhysMem'[o])
  BY <1>1 DEF SameFrame
<1> QED
  BY <1>1, <1>2, <1>5, <1>6, <1>7, <1>8, <1>9, RestKeeps

LEMMA CreateKeeps ==
  ASSUME OInv, NEW child \in Pid, vm_create(child)
  PROVE  OInv'
<1>1. /\ Kernel /\ child \notin DOMAIN next
      /\ next' = [p \in DOMAIN next \cup {child} |-> IF p = child THEN 0 ELSE next[p]]
      /\ running_pid' = running_pid /\ call' = call
      /\ UNCHANGED <<tables, frames, space, data>>
  BY DEF vm_create
<1>2. /\ DOMAIN next \subseteq Pid /\ next \in [DOMAIN next -> 0..NPages] /\ call \in Call
      /\ running_pid \in Pid \cup {NoPid}
      /\ call.op # "none" => running_pid \in DOMAIN next
  BY DEF OInv, TypeOK
<1>3. /\ DOMAIN next' = DOMAIN next \cup {child} /\ next'[child] = 0
      /\ \A p \in DOMAIN next : next'[p] = next[p]
      /\ next' \in [DOMAIN next' -> 0..NPages]
  <2>1. 0 \in 0..NPages
    BY OopAssumption
  <2> QED
    BY <1>1, <1>2, <2>1
<1>4. call'.op \in {"run", "none"}
  BY <1>1 DEF Kernel
<1>5. ControlOK'
  BY <1>1, <1>2, <1>3, <1>4 DEF ControlOK, CallOK
<1>6. \A e \in Pte : e[2] \in Nat
  BY DEF Pte, Vpage
<1>7. \A e \in Pte : InArena(e)' <=> InArena(e)
  BY <1>1, <1>3, <1>6 DEF InArena
<1>8. DOMAIN next' \subseteq Pid /\ running_pid' \in Pid \cup {NoPid}
  BY <1>1, <1>2, <1>3
<1> QED
  BY <1>1, <1>3, <1>4, <1>5, <1>7, <1>8, KernelKeeps

LEMMA SwitchKeeps ==
  ASSUME OInv, NEW p \in Pid, vm_switch(p)
  PROVE  OInv'
<1>1. /\ Kernel /\ p \in DOMAIN next /\ running_pid' = p /\ call' = Run /\ next' = next
      /\ UNCHANGED <<tables, frames, space, data>>
  BY DEF vm_switch
<1>2. PICK b : b \in FBlock
  BY OopAssumption
<1>3. Run \in Call /\ Run.op = "run"
  <2>1. 0 \in 0..NPages /\ FALSE \in BOOLEAN
    BY OopAssumption
  <2> QED
    BY <1>2, <2>1, CallsAre
<1>4. ControlOK' /\ call'.op \in {"run", "none"}
  BY <1>1, <1>3 DEF ControlOK, CallOK
<1>5. /\ DOMAIN next' \subseteq Pid /\ next' \in [DOMAIN next' -> 0..NPages]
      /\ running_pid' \in Pid \cup {NoPid}
      /\ \A e \in Pte : InArena(e)' <=> InArena(e)
  BY <1>1 DEF OInv, TypeOK, InArena
<1> QED
  BY <1>1, <1>4, <1>5, KernelKeeps

-----------------------------------------------------------------------------
(* Every reachable state.                                                  *)

LEMMA InvAtFirst ==
  ASSUME Init PROVE OInv
<1>1. /\ running_pid = NoPid /\ next = <<>> /\ SwapBlocks = {} /\ FirstFreeSwap = 0
      /\ phys = [p \in Ppage |-> IF p = 0 THEN Zero ELSE Junk]
      /\ disk = [b \in Backing |-> Junk] /\ accessed = {} /\ call = None
      /\ PhysMem = [p \in Ppage |-> IF p = 0 THEN PinnedEntry ELSE FreeEntry]
      /\ MemQueue = <<>> /\ FreePhys = [i \in 1..(PCnt - 1) |-> i]
      /\ MappedBlocks = [b \in Backing |-> {}] /\ pte = [e \in Ptes |-> NullEntry]
  BY DEF Init, FramesInit
<1>2. DOMAIN next = {}
  BY <1>1
<1>3. Live = {} /\ \A e \in Pte : pte[e] = NullEntry
  BY <1>1, <1>2, PteIs DEF Live
<1>4. Sound(PhysMem, pte, MappedBlocks, bte, Live)
  BY <1>3, SoundAtFirst
<1>5. None \in Call /\ None.op = "none"
  <2>1. PICK b : b \in FBlock
    BY OopAssumption
  <2>2. 0 \in 0..NPages /\ FALSE \in BOOLEAN
    BY OopAssumption
  <2> QED
    BY <2>1, <2>2, CallsAre
<1>6. CallOK /\ Unmapped
  BY <1>1, <1>3, <1>5 DEF CallOK, Unmapped
<1>7. \A p \in Frame : PhysMem[p] = FreeEntry /\ ~Holds(PhysMem, p)
  BY <1>1, FrameIs, StatesAre DEF Holds
<1>8. Saved(PhysMem, phys, disk, accessed)
  BY <1>7 DEF Saved
<1>9. Dealt(MemQueue, FreePhys, {})
  <2>1. DOMAIN FreePhys = Frame /\ \A i \in Frame : FreePhys[i] = i
    BY <1>1, FrameIs
  <2>2. FreePhys \in Seq(Frame)
    BY <1>1, FrameIs
  <2>3. IsInjective(FreePhys) /\ Range(FreePhys) = Frame
    BY <2>1 DEF IsInjective, Range
  <2>4. MemQueue \in Seq(Frame) /\ IsInjective(MemQueue) /\ Range(MemQueue) = {}
    BY <1>1 DEF IsInjective, Range
  <2> QED
    BY <2>2, <2>3, <2>4 DEF Dealt
<1>10. Queued(PhysMem, MemQueue, FreePhys)
  <2>1. Range(FreePhys) \subseteq Frame /\ Range(MemQueue) \subseteq Frame \ Range(FreePhys)
    BY <1>9 DEF Dealt
  <2>2. Range(MemQueue) = {}
    BY <1>1 DEF Range
  <2> QED
    BY <1>7, <2>1, <2>2 DEF Queued
<1>11. FirstFreeLeast
  <2> DEFINE T == {b \in 0..BlCnt : b \notin SwapBlocks}
  <2>1. 0 \in T /\ T \in SUBSET Nat /\ \A k \in T : 0 <= k
    BY <1>1, OopAssumption
  <2> HIDE DEF T
  <2>2. Min(T) = 0
    BY <2>1, MinIs
  <2>3. \A b \in Block : MappedBlocks[<<SWAP, b>>] = {}
    BY <1>1 DEF Backing, SwapBlock
  <2>4. SwapBlocks = {b \in Block : MappedBlocks[<<SWAP, b>>] # {}}
    BY <1>1, <2>3
  <2> QED
    BY <1>1, <2>2, <2>4 DEF FirstFreeLeast, T
<1>12. TypeOK
  <2>1. /\ phys \in [Ppage -> Data] /\ disk \in [Backing -> Data] /\ accessed \subseteq FileBlock
    BY <1>1, OopAssumption
  <2>2. /\ DOMAIN next \subseteq Pid /\ next \in [DOMAIN next -> 0..NPages]
        /\ SwapBlocks \subseteq Block /\ FirstFreeSwap \in 0..BlCnt
    BY <1>1, <1>2, OopAssumption
  <2> QED
    BY <1>1, <1>4, <1>5, <1>9, <2>1, <2>2 DEF TypeOK, Sound, Typed, Dealt
<1> QED
  BY <1>4, <1>6, <1>8, <1>9, <1>10, <1>11, <1>12 DEF OInv, Sound

\* OInv holds of every reachable state.
THEOREM OopInvariance == Spec => []OInv
<1>1. Init => OInv
  BY InvAtFirst
<1>2. OInv /\ [Next]_vars => OInv'
  <2> SUFFICES ASSUME OInv, [Next]_vars PROVE OInv'
    OBVIOUS
  <2>1. ASSUME NEW v \in Vpage, NEW w \in BOOLEAN, AppFault(v, w) PROVE OInv'
    BY <2>1, AppFaultKeeps
  <2>2. ASSUME NEW v \in Vpage, NEW d \in Data, Store(v, d) PROVE OInv'
    BY <2>2, StoreKeeps
  <2>3. ASSUME NEW v \in Vpage, Reload(v) PROVE OInv'
    BY <2>3, ReloadKeeps
  <2>4. ASSUME NEW v \in Vpage, NEW b \in FBlock, NameFault(v, b) PROVE OInv'
    BY <2>4, NameFaultKeeps
  <2>5. ASSUME NEW v \in Vpage, NEW b \in FBlock, NameSpills(v, b) PROVE OInv'
    BY <2>5, NameSpillsKeeps
  <2>6. ASSUME NEW v \in Vpage, NEW b \in FBlock, MapFile(v, b) PROVE OInv'
    BY <2>6, MapFileKeeps
  <2>7. CASE MapSwap
    BY <2>7, MapSwapKeeps
  <2>8. ASSUME NEW v \in 0..NPages, DestroyPage(v) PROVE OInv'
    BY <2>8, DestroyPageKeeps
  <2>9. ASSUME NEW v \in 0..NPages, DestroyTable(v) PROVE OInv'
    BY <2>9, DestroyTableKeeps
  <2>10. ASSUME NEW p \in Pid, vm_create(p) PROVE OInv'
    BY <2>10, CreateKeeps
  <2>11. ASSUME NEW p \in Pid, vm_switch(p) PROVE OInv'
    BY <2>11, SwitchKeeps
  <2>12. CASE UNCHANGED vars
    <3>1. UNCHANGED <<proc, tables, frames, space, data, call>>
      BY <2>12 DEF vars
    <3> QED
      BY <3>1 DEF OInv, TypeOK, CallOK, Unmapped, InArena, Live, Queued, FirstFreeLeast,
                  proc, tables, frames, space, data
  <2> QED
    BY <2>1, <2>2, <2>3, <2>4, <2>5, <2>6, <2>7, <2>8, <2>9, <2>10, <2>11, <2>12
       DEF Next, Access, Name, vm_destroy
<1> QED
  BY <1>1, <1>2, PTL DEF Spec

-----------------------------------------------------------------------------
(* What the runs check, of every reachable state.                          *)

\* Every variable holds values of its type.
THEOREM OopTypeCorrect == Spec => []TypeOK
<1>1. OInv => TypeOK
  BY DEF OInv
<1> QED
  BY <1>1, OopInvariance, PTL

\* get_ppage, a read that fails and vm_destroy's sort neither lose a frame nor
\* queue it twice.
THEOREM OopFramesCorrect == Spec => []FramesQueued
<1>1. ASSUME OInv PROVE FramesQueued
  <2>1. Dealt(MemQueue, FreePhys, {}) /\ Queued(PhysMem, MemQueue, FreePhys)
    BY <1>1 DEF OInv
  <2>2. /\ MemQueue \in Seq(Frame) /\ IsInjective(MemQueue)
        /\ FreePhys \in Seq(Frame) /\ IsInjective(FreePhys)
        /\ Range(FreePhys) \cap Range(MemQueue) = {}
        /\ Range(MemQueue) \cup Range(FreePhys) = Frame
    BY <2>1 DEF Dealt
  <2>3. IsInjective(FreePhys \o MemQueue)
        /\ Range(FreePhys \o MemQueue) = Range(FreePhys) \cup Range(MemQueue)
    BY <2>2, Joined
  <2> QED
    BY <2>1, <2>2, <2>3 DEF FramesQueued, Queued, Holds, IsFree
<1> QED
  BY <1>1, OopInvariance, PTL

LEMMA AtMostOne ==
  ASSUME NEW S, \A e, o \in S : e = o
  PROVE  Cardinality(S) <= 1 /\ (S # {} => Cardinality(S) = 1)
<1>1. CASE S = {}
  BY <1>1, FS_EmptySet
<1>2. CASE S # {}
  <2>1. PICK e : e \in S
    BY <1>2
  <2>2. S = {e}
    BY <2>1
  <2>3. Cardinality(S) = 1
    BY <2>2, FS_Singleton
  <2> QED
    BY <2>3
<1> QED
  BY <1>1, <1>2

\* MappedBlocks lists the pages vm_map gave a backing, at most one if it is a swap
\* block, or the ghost they left.
THEOREM OopMappedCorrect == Spec => []MappedExact
<1>1. ASSUME OInv PROVE MappedExact
  <2> SUFFICES ASSUME NEW b \in Backing
      PROVE  \/ /\ MappedBlocks[b] = Users(b, Live, bte)
                /\ b[1] = SWAP => Cardinality(Users(b, Live, bte)) <= 1
             \/ /\ Users(b, Live, bte) = {} /\ b[1] # SWAP
                /\ \E p \in Frame : /\ MappedBlocks[b] = {Ghost(p)}
                                    /\ IsGhost(p) /\ PhysMem[p].loc = b
    BY Zenon DEF MappedExact, Users
  <2>1. Sound(PhysMem, pte, MappedBlocks, bte, Live)
    BY <1>1, InvSound
  <2>2. b[1] = SWAP <=> b \in SwapBlock
    BY BackingIs
  <2>3. CASE /\ MappedBlocks[b] = Users(b, Live, bte)
             /\ b \in SwapBlock => \A e, o \in MappedBlocks[b] : e = o
    BY <2>2, <2>3, AtMostOne
  <2>4. CASE /\ Users(b, Live, bte) = {} /\ b \in FileBlock
             /\ GhostOf(PhysMem, MappedBlocks, b)
    <3>1. b[1] # SWAP
      BY <2>2, <2>4, BackingIs
    <3>2. \A p \in Frame : PhysMem[p].state \in GhostStates => IsGhost(p)
      BY FrameIs DEF IsGhost
    <3> QED
      BY <2>4, <3>1, <3>2 DEF GhostOf
  <2> QED
    BY <2>1, <2>3, <2>4 DEF Sound, Agree, Listed
<1> QED
  BY <1>1, OopInvariance, PTL

\* The bits of every entry of a frame follow its record.
THEOREM OopBitsCorrect == Spec => []BitsAgree
<1>1. ASSUME OInv PROVE BitsAgree
  <2>1. Bits(PhysMem, pte, MappedBlocks)
    BY <1>1 DEF OInv, Agree
  <2> QED
    BY <2>1, Zenon DEF BitsAgree, Bits, Holds, IsFree, Mapped, EntryOf, Referenced
<1> QED
  BY <1>1, OopInvariance, PTL

\* FirstFreeSwap is the least block that is free.
THEOREM OopSwapCorrect == Spec => []FirstFreeLeast
<1>1. OInv => FirstFreeLeast
  BY DEF OInv
<1> QED
  BY <1>1, OopInvariance, PTL

\* What a clean frame holds is on the disk.
THEOREM OopCleanIsSaved == Spec => []CleanMeansSaved
<1>1. ASSUME OInv PROVE CleanMeansSaved
  <2>1. Saved(PhysMem, phys, disk, accessed)
    BY <1>1 DEF OInv
  <2> QED
    BY <2>1 DEF CleanMeansSaved, Saved, Holds, IsFree
<1> QED
  BY <1>1, OopInvariance, PTL

\* A file block that get_ppage writes back was read before.
THEOREM OopWritesSucceed == Spec => []WritesAllowed
<1>1. ASSUME OInv PROVE WritesAllowed
  <2>1. /\ Saved(PhysMem, phys, disk, accessed) /\ PhysMem \in [Ppage -> PhysEntry]
        /\ Recorded(PhysMem)
    BY <1>1 DEF OInv, TypeOK, Agree
  <2>2. \A p \in Frame : PhysMem[p].dirty => Holds(PhysMem, p)
    BY <2>1, HeldRecord, StatesAre
  <2> QED
    BY <2>1, <2>2 DEF WritesAllowed, Saved
<1> QED
  BY <1>1, OopInvariance, PTL

\* No assertion on the tables fails.
THEOREM OopAssertionsCorrect == Spec => []AssertionsHold
<1>1. ASSUME OInv PROVE AssertionsHold
  <2>1. Sound(PhysMem, pte, MappedBlocks, bte, Live)
    BY <1>1, InvSound
  <2>2. /\ PhysMem \in [Ppage -> PhysEntry] /\ Recorded(PhysMem)
        /\ Bits(PhysMem, pte, MappedBlocks) /\ Listed(PhysMem, MappedBlocks, bte, Live)
        /\ GhostsListed(PhysMem, MappedBlocks)
    BY <2>1 DEF Sound, Typed, Agree
  <2>3. ASSUME NEW p \in Frame, IsGhost(p) \/ PhysMem[p].loc \in SwapBlock
        PROVE  Cardinality(Mapped(p)) = 1
    <3>1. CASE PhysMem[p].state \in GhostStates
      <4>1. Mapped(p) = {Ghost(p)}
        BY <2>2, <3>1 DEF GhostsListed, Mapped
      <4> QED
        BY <4>1, FS_Singleton
    <3>2. CASE PhysMem[p].loc \in SwapBlock
      <4>1. PhysMem[p].loc \in Backing /\ PhysMem[p].loc \notin FileBlock
        BY <3>2, BackingIs DEF Backing
      <4>2. Holds(PhysMem, p)
        BY <2>2, <4>1, HeldRecord, StatesAre, BackingIs
      <4>3. Mapped(p) # {}
        BY <2>2, <4>2 DEF Bits, Mapped
      <4>4. \A e, o \in Mapped(p) : e = o
        BY <2>2, <3>2, <4>1 DEF Listed, Mapped
      <4> QED
        BY <4>3, <4>4, AtMostOne
    <3> QED
      BY <2>3, <3>1, <3>2 DEF IsGhost
  <2>4. FirstFreeSwap # BlCnt =>
          /\ <<SWAP, FirstFreeSwap>> \in Backing /\ MappedBlocks[<<SWAP, FirstFreeSwap>>] = {}
    <3> DEFINE T == {b \in 0..BlCnt : b \notin SwapBlocks}
    <3>1. /\ SwapBlocks = {b \in Block : MappedBlocks[<<SWAP, b>>] # {}}
          /\ FirstFreeSwap = Min(T) /\ BlCnt \in Nat
      BY <1>1, OopAssumption DEF OInv, FirstFreeLeast
    <3>5. \A k : k \in Block <=> k \in 0..BlCnt /\ k # BlCnt
      BY OopAssumption DEF Block
    <3>2. T \in SUBSET Nat /\ T # {}
      <4>1. BlCnt \notin SwapBlocks
        BY <3>5, <3>1
      <4>2. BlCnt \in T
        BY <3>1, <4>1
      <4> QED
        BY <4>2
    <3>3. FirstFreeSwap \in T
      <4> HIDE DEF T
      <4> QED
        BY <3>1, <3>2, MinInSet
    <3>4. FirstFreeSwap # BlCnt => FirstFreeSwap \in Block /\ FirstFreeSwap \notin SwapBlocks
      BY <3>5, <3>3
    <3> QED
      BY <3>1, <3>4 DEF Backing, SwapBlock
  <2>5. ASSUME NEW e \in Live
        PROVE  /\ e \in MappedBlocks[bte[e]]
               /\ bte[e] # <<SWAP, FirstFreeSwap>>
               /\ pte[e].read_enable =>
                    /\ pte[e].ppage # Absent
                    /\ PhysMem[pte[e].ppage].state \in {"REFERENCED", "PINNED"}
               /\ bte[e][1] # SWAP /\ pte[e].ppage # Absent =>
                    PhysMem[pte[e].ppage].state \in {"REFERENCED", "PEND"}
    <3>1. bte[e] \in Backing /\ e \in MappedBlocks[bte[e]]
      BY <2>1, LivePage
    <3>2. bte[e] # <<SWAP, FirstFreeSwap>>
      <4> SUFFICES ASSUME bte[e] = <<SWAP, FirstFreeSwap>> PROVE FALSE
        OBVIOUS
      <4>1. FirstFreeSwap \in Block
        BY <3>1, BackingIs
      <4>2. FirstFreeSwap # BlCnt
        BY <4>1, OopAssumption DEF Block
      <4> QED
        BY <2>4, <3>1, <4>2
    <3>3. /\ pte[e].ppage \in Frame \cup {Absent, 0}
          /\ pte[e].ppage = 0 => bte[e] \in SwapBlock
          /\ pte[e].ppage = Absent => pte[e] = NullEntry
      BY <2>1, NamedFrame
    <3>4. ASSUME pte[e].ppage \in Frame
          PROVE  /\ PhysMem[pte[e].ppage].state \in {"REFERENCED", "PEND"}
                 /\ pte[e].read_enable => PhysMem[pte[e].ppage].state = "REFERENCED"
      <4>1. /\ PhysMem[pte[e].ppage].state \in {"REFERENCED", "PEND"}
            /\ PhysMem[pte[e].ppage] \in PhysEntry
            /\ pte[e] = EntryOf(pte[e].ppage, PhysMem[pte[e].ppage])
        BY <2>1, <3>4, LiveFrame
      <4>2. pte[e].read_enable = Referenced(PhysMem[pte[e].ppage])
        BY <3>4, <4>1, EntriesAre
      <4> QED
        BY <4>1, <4>2 DEF Referenced
    <3>5. PhysMem[0].state = "PINNED"
      BY <2>2, StatesAre DEF Recorded
    <3>6. bte[e][1] # SWAP => bte[e] \notin SwapBlock
      BY <3>1, BackingIs
    <3>7. pte[e].read_enable => pte[e].ppage # Absent
      BY <3>3, EntriesAre
    <3> QED
      BY <3>1, <3>2, <3>3, <3>4, <3>5, <3>6, <3>7
  <2> QED
    BY <2>3, <2>4, <2>5 DEF AssertionsHold
<1> QED
  BY <1>1, OopInvariance, PTL

-----------------------------------------------------------------------------
(* What pages and backings hold, in memory or on disk.                     *)

\* What a backing holds: the frame that holds it, or else the disk.
Stored(mem, ph, dk, b) ==
  LET held == {p \in Frame : mem[p].loc = b} IN
  IF held = {} THEN dk[b] ELSE ph[CHOOSE p \in held : TRUE]

\* A page that stays mapped keeps its backing and what it reads.
PagesSame ==
  \A e \in Live \cap Live' :
    /\ bte'[e] = bte[e]
    /\ Reads(pte', phys', disk', bte', e) = Reads(pte, phys, disk, bte, e)

FilesSame ==
  \A f \in FileBlock : Stored(PhysMem', phys', disk', f) = Stored(PhysMem, phys, disk, f)

\* At most one frame holds a backing.
LEMMA StoredIs ==
  ASSUME NEW mem, NEW pt, NEW mb, NEW bt, NEW L, Sound(mem, pt, mb, bt, L),
         NEW ph, NEW dk, NEW b \in Backing
  PROVE  /\ \A p \in Frame : mem[p].loc = b => Holds(mem, p)
         /\ \A p \in Frame : mem[p].loc = b => Stored(mem, ph, dk, b) = ph[p]
         /\ (\A p \in Frame : mem[p].loc # b) => Stored(mem, ph, dk, b) = dk[b]
<1>1. mem \in [Ppage -> PhysEntry] /\ Recorded(mem)
  BY DEF Sound, Typed, Agree
<1>2. \A p \in Frame : mem[p].loc = b => Holds(mem, p)
  BY <1>1, HeldRecord, StatesAre, BackingIs
<1>3. ASSUME NEW p \in Frame, mem[p].loc = b
      PROVE  Stored(mem, ph, dk, b) = ph[p]
  <2> DEFINE held == {o \in Frame : mem[o].loc = b}
  <2>1. \A o \in held : o = p
    BY <1>2, <1>3, OneFrame
  <2>2. p \in held
    BY <1>3
  <2>3. (CHOOSE o \in held : TRUE) = p
    <3> HIDE DEF held
    <3> QED
      BY <2>1, <2>2
  <2> QED
    BY <2>2, <2>3 DEF Stored
<1> QED
  BY <1>2, <1>3 DEF Stored

\* A page reads what its backing holds, or the zero page.
LEMMA PageReads ==
  ASSUME NEW mem, NEW pt, NEW mb, NEW bt, NEW L, Sound(mem, pt, mb, bt, L),
         NEW ph, NEW dk, NEW e \in L
  PROVE  /\ bt[e] \in Backing
         /\ pt[e].ppage = 0 => bt[e] \in SwapBlock
         /\ Reads(pt, ph, dk, bt, e) =
              IF pt[e].ppage = 0 THEN ph[0] ELSE Stored(mem, ph, dk, bt[e])
<1>1. bt[e] \in Backing
  BY LivePage
<1>2. /\ pt[e].ppage \in Frame \cup {Absent, 0}
      /\ pt[e].ppage = 0 => bt[e] \in SwapBlock
      /\ pt[e].ppage \notin Frame => \A p \in Frame : Holds(mem, p) => mem[p].loc # bt[e]
  BY NamedFrame
<1>3. CASE pt[e].ppage \in Frame
  <2>1. mem[pt[e].ppage].loc = bt[e]
    BY <1>3, LiveFrame
  <2>2. Stored(mem, ph, dk, bt[e]) = ph[pt[e].ppage]
    BY <1>1, <1>3, <2>1, StoredIs
  <2> QED
    BY <1>1, <1>2, <1>3, <2>2, FrameIs DEF Reads
<1>4. CASE pt[e].ppage = Absent
  <2>1. pt[e].ppage \notin Frame
    BY <1>4, FrameIs
  <2>2. \A p \in Frame : mem[p].loc # bt[e]
    BY <1>1, <1>2, <2>1, StoredIs
  <2>3. Stored(mem, ph, dk, bt[e]) = dk[bt[e]]
    BY <1>1, <2>2, StoredIs
  <2> QED
    BY <1>1, <1>2, <1>4, <2>3, FrameIs DEF Reads
<1>5. CASE pt[e].ppage = 0
  BY <1>1, <1>2, <1>5, FrameIs DEF Reads
<1> QED
  BY <1>2, <1>3, <1>4, <1>5

LEMMA NextSound ==
  ASSUME OInv'
  PROVE  Sound(PhysMem', pte', MappedBlocks', bte', Live')
<1>1. TypeOK' /\ Agree(PhysMem', pte', MappedBlocks', bte', Live')
  BY DEF OInv
<1> QED
  BY <1>1 DEF TypeOK, Sound, Typed, Live

\* Frames and entries may be marked, aged and renamed as long as they hold the same.
LEMMA UnmovedSame ==
  ASSUME UNCHANGED <<phys, disk>>,
         \A p \in Frame, f \in FileBlock : PhysMem'[p].loc = f <=> PhysMem[p].loc = f,
         \A e \in Live \cap Live' : pte'[e].ppage = pte[e].ppage /\ bte'[e] = bte[e]
  PROVE  PagesSame /\ FilesSame
<1>1. PagesSame
  BY DEF PagesSame, Reads
<1>2. ASSUME NEW f \in FileBlock
      PROVE  Stored(PhysMem', phys', disk', f) = Stored(PhysMem, phys, disk, f)
  <2> DEFINE old == {p \in Frame : PhysMem[p].loc = f}
             new == {p \in Frame : PhysMem'[p].loc = f}
  <2>1. new = old
    OBVIOUS
  <2>2. /\ Stored(PhysMem, phys, disk, f) =
             IF old = {} THEN disk[f] ELSE phys[CHOOSE p \in old : TRUE]
        /\ Stored(PhysMem', phys', disk', f) =
             IF new = {} THEN disk'[f] ELSE phys'[CHOOSE p \in new : TRUE]
    BY DEF Stored
  <2> HIDE DEF old, new
  <2> QED
    BY <2>1, <2>2
<1> QED
  BY <1>1, <1>2 DEF FilesSame

-----------------------------------------------------------------------------
(* vm_fault.                                                               *)

\* get_ppage moves what its frame held to disk.
LEMMA GotStored ==
  ASSUME OInv, call.op # "exit", NEW b \in Backing
  PROVE  Stored(GotMem, phys, GotDisk, b) = Stored(PhysMem, phys, disk, b)
<1>1. /\ Sound(PhysMem, pte, MappedBlocks, bte, Live)
      /\ PhysMem \in [Ppage -> PhysEntry] /\ Recorded(PhysMem)
      /\ disk \in [Backing -> Data] /\ Saved(PhysMem, phys, disk, accessed)
  BY InvSound DEF OInv, TypeOK, Agree
<1>2. Sound(GotMem, GotPte, GotMapped, bte, Live)
  BY GotSound
<1>3. get_ppage \in Frame /\ (~Evicts => PhysMem[get_ppage] = FreeEntry)
  BY GotQueues
<1>4. Evicts => get_ppage = Victim /\ Holds(PhysMem, Victim) /\ PhysMem[Victim].loc \in Backing
  BY <1>1, <1>3, VictimHeld, HeldRecord DEF get_ppage
<1>5. GotMem[get_ppage].loc = NoLoc
  BY GotRecords, StatesAre
<1>6. \A p \in Frame : p # get_ppage => GotMem[p].loc = PhysMem[p].loc
  BY GotRecords
<1>7. GotDisk[b] = IF Evicts /\ PhysMem[Victim].dirty /\ b = PhysMem[Victim].loc
                   THEN phys[Victim] ELSE disk[b]
  BY <1>1, <1>4 DEF GotDisk
<1>8. b # NoLoc
  BY BackingIs
<1>9. CASE \E p \in Frame : p # get_ppage /\ PhysMem[p].loc = b
  <2>1. PICK p \in Frame : p # get_ppage /\ PhysMem[p].loc = b
    BY <1>9
  <2>2. GotMem[p].loc = b
    BY <1>6, <2>1
  <2>3. Stored(GotMem, phys, GotDisk, b) = phys[p]
    BY <1>2, <2>2, StoredIs
  <2>4. Stored(PhysMem, phys, disk, b) = phys[p]
    BY <1>1, <2>1, StoredIs
  <2> QED
    BY <2>3, <2>4
<1>10. CASE ~\E p \in Frame : p # get_ppage /\ PhysMem[p].loc = b
  <2>1. \A p \in Frame : GotMem[p].loc # b
    BY <1>5, <1>6, <1>8, <1>10
  <2>2. Stored(GotMem, phys, GotDisk, b) = GotDisk[b]
    BY <1>2, <2>1, StoredIs
  <2>3. CASE Evicts /\ PhysMem[Victim].loc = b
    <3>1. Stored(PhysMem, phys, disk, b) = phys[Victim]
      BY <1>1, <1>3, <1>4, <2>3, StoredIs
    <3>2. ~PhysMem[Victim].dirty => phys[Victim] = disk[b]
      BY <1>1, <1>3, <1>4, <2>3 DEF Saved
    <3> QED
      BY <1>7, <2>2, <2>3, <3>1, <3>2
  <2>4. CASE ~(Evicts /\ PhysMem[Victim].loc = b)
    <3>1. PhysMem[get_ppage].loc # b
      BY <1>3, <1>4, <1>8, <2>4, StatesAre
    <3>2. \A p \in Frame : PhysMem[p].loc # b
      BY <1>10, <3>1
    <3>3. Stored(PhysMem, phys, disk, b) = disk[b]
      BY <1>1, <3>2, StoredIs
    <3> QED
      BY <1>7, <2>2, <2>4, <3>3
  <2> QED
    BY <2>3, <2>4
<1> QED
  BY <1>9, <1>10

\* It neither gives a page the zero page nor takes it away.
LEMMA GotZero ==
  ASSUME OInv, call.op # "exit", NEW e \in Live
  PROVE  GotPte[e].ppage = 0 <=> pte[e].ppage = 0
<1>1. Sound(PhysMem, pte, MappedBlocks, bte, Live)
  BY InvSound
<1>2. bte[e] \in Backing /\ e \in MappedBlocks[bte[e]]
  BY <1>1, LivePage
<1>3. CASE pte[e].ppage \notin Frame
  BY <1>2, <1>3, GotEntries
<1>4. CASE pte[e].ppage \in Frame
  <2> DEFINE p == pte[e].ppage
  <2>1. Holds(PhysMem, p) /\ PhysMem[p].loc = bte[e]
    BY <1>1, <1>4, LiveFrame
  <2>2. e \in Mapped(p)
    BY <1>2, <2>1 DEF Mapped
  <2>3. CASE p = get_ppage
    <3>1. Evicts /\ p = Victim
      <4>1. ~Evicts => PhysMem[get_ppage] = FreeEntry
        BY GotQueues
      <4> QED
        BY <2>1, <2>3, <4>1, StatesAre DEF get_ppage, Holds
    <3>2. GotPte[e] = NullEntry
      BY <2>2, <3>1, GotEntries
    <3> QED
      BY <1>4, <3>2, EntriesAre, FrameIs
  <2>4. CASE p # get_ppage
    <3>1. GotPte[e] = EntryOf(p, GotMem[p])
      BY <1>4, <2>1, <2>2, <2>4, GotEntries
    <3>2. GotPte[e].ppage = p
      BY <3>1 DEF EntryOf
    <3> QED
      BY <1>4, <3>2, FrameIs
  <2> QED
    BY <2>3, <2>4
<1> QED
  BY <1>3, <1>4

\* A page that is marked stays where it is.
LEMMA MarkSame ==
  ASSUME OInv, NEW e \in Live, NEW p \in Frame, p = pte[e].ppage, NEW r,
         MarkSteps(e, p, r)
  PROVE  PagesSame /\ FilesSame
<1>1. Sound(PhysMem, pte, MappedBlocks, bte, Live)
  BY InvSound
<1>2. /\ r \in PhysEntry /\ r.loc = bte[e]
      /\ PhysMem' = [PhysMem EXCEPT ![p] = r]
      /\ pte' = [l \in Ptes |-> IF l \in Mapped(p) THEN EntryOf(p, r) ELSE pte[l]]
      /\ UNCHANGED <<bte, phys, disk>>
  BY DEF MarkSteps, data
<1>3. Holds(PhysMem, p) /\ PhysMem[p].loc = bte[e]
  BY <1>1, LiveFrame
<1>4. \A o \in Frame : PhysMem'[o].loc = PhysMem[o].loc
  <2>1. PhysMem \in [Ppage -> PhysEntry]
    BY DEF OInv, TypeOK
  <2> QED
    BY <1>2, <1>3, <2>1, FrameIs
<1>5. \A l \in Live : pte'[l].ppage = pte[l].ppage
  <2> TAKE l \in Live
  <2>1. l \in Ptes
    BY PteIs DEF Live
  <2>2. CASE l \in Mapped(p)
    <3>1. pte[l].ppage = p
      BY <1>1, <1>3, <2>2, EntryAt DEF Mapped
    <3>2. pte'[l] = EntryOf(p, r)
      BY <1>2, <2>1, <2>2
    <3> QED
      BY <3>1, <3>2 DEF EntryOf
  <2>3. CASE l \notin Mapped(p)
    BY <1>2, <2>1, <2>3
  <2> QED
    BY <2>2, <2>3
<1> QED
  BY <1>2, <1>4, <1>5, UnmovedSame

\* file_read fails: the others are where get_ppage left them.
LEMMA ReadFailsSame ==
  ASSUME OInv, OInv', call.op # "exit", NEW e, NEW fail, FaultReadFails(e, fail)
  PROVE  PagesSame /\ FilesSame
<1>1. /\ PhysMem' = GotMem /\ disk' = GotDisk /\ pte' = GotPte
      /\ phys' = phys /\ bte' = bte
  BY DEF FaultReadFails
<1>2. \A b \in Backing : Stored(PhysMem', phys', disk', b) = Stored(PhysMem, phys, disk, b)
  BY <1>1, GotStored
<1>3. ASSUME NEW l \in Live, l \in Live'
      PROVE  Reads(pte', phys', disk', bte', l) = Reads(pte, phys, disk, bte, l)
  <2>1. /\ Sound(PhysMem, pte, MappedBlocks, bte, Live)
        /\ Sound(PhysMem', pte', MappedBlocks', bte', Live')
    BY InvSound, NextSound
  <2>2. /\ bte[l] \in Backing
        /\ Reads(pte, phys, disk, bte, l) =
             IF pte[l].ppage = 0 THEN phys[0] ELSE Stored(PhysMem, phys, disk, bte[l])
    BY <1>3, <2>1, PageReads
  <2>3. Reads(pte', phys', disk', bte', l) =
          IF pte'[l].ppage = 0 THEN phys'[0] ELSE Stored(PhysMem', phys', disk', bte'[l])
    BY <1>3, <2>1, PageReads
  <2>4. pte'[l].ppage = 0 <=> pte[l].ppage = 0
    BY <1>1, <1>3, GotZero
  <2> QED
    BY <1>1, <1>2, <2>2, <2>3, <2>4
<1>4. FilesSame
  BY <1>2 DEF FilesSame, Backing
<1> QED
  BY <1>1, <1>3, <1>4 DEF PagesSame

\* A frame is filled with what its page holds on disk or on the zero page.
LEMMA FillSame ==
  ASSUME OInv, OInv', call.op # "exit", NEW e \in Live, pte[e].ppage \notin Frame,
         NEW r, NEW x, FillSteps(e, r, x), x = Elsewhere(e)
  PROVE  PagesSame /\ FilesSame
<1> DEFINE n == get_ppage
           B == bte[e]
<1>1. /\ r \in PhysEntry /\ r.loc = B
      /\ PhysMem' = [GotMem EXCEPT ![n] = r]
      /\ phys' = [phys EXCEPT ![n] = x] /\ disk' = GotDisk
      /\ MappedBlocks' = GotMapped
      /\ pte' = [l \in Ptes |-> IF l \in GotMapped[B] THEN EntryOf(n, r) ELSE GotPte[l]]
      /\ bte' = bte
  BY Zenon DEF FillSteps
<1>2. /\ Sound(PhysMem, pte, MappedBlocks, bte, Live)
      /\ Sound(PhysMem', pte', MappedBlocks', bte', Live')
      /\ Sound(GotMem, GotPte, GotMapped, bte, Live)
  BY InvSound, NextSound, GotSound
<1>3. n \in Frame /\ n \in Ppage /\ n # 0 /\ Frame \subseteq Ppage /\ 0 \in Ppage
  BY GotQueues, FrameIs
<1>4. B \in Backing /\ \A p \in Frame : Holds(GotMem, p) => GotMem[p].loc # B
  BY StillAbsent
<1>5. phys \in [Ppage -> Data] /\ GotMem \in [Ppage -> PhysEntry]
  BY GotRecords DEF OInv, TypeOK
<1>6. GotMem[n].loc = NoLoc
  BY GotRecords, StatesAre
<1> HIDE DEF n, B
<1>7. /\ PhysMem'[n].loc = B /\ phys'[n] = x /\ phys'[0] = phys[0]
      /\ \A p \in Frame : p # n => PhysMem'[p] = GotMem[p] /\ phys'[p] = phys[p]
  BY <1>1, <1>3, <1>5
<1>8. Stored(PhysMem', phys', disk', B) = x
  BY <1>2, <1>3, <1>4, <1>7, StoredIs
<1>9. ASSUME NEW b \in Backing, b # B
      PROVE  Stored(PhysMem', phys', disk', b) = Stored(PhysMem, phys, disk, b)
  <2>1. Stored(PhysMem', phys', disk', b) = Stored(GotMem, phys, GotDisk, b)
    <3>1. CASE \E p \in Frame : p # n /\ GotMem[p].loc = b
      <4>1. PICK p \in Frame : p # n /\ GotMem[p].loc = b
        BY <3>1
      <4>2. Stored(GotMem, phys, GotDisk, b) = phys[p]
        BY <1>2, <4>1, StoredIs
      <4>3. Stored(PhysMem', phys', disk', b) = phys'[p]
        BY <1>2, <1>7, <4>1, StoredIs
      <4> QED
        BY <1>7, <4>1, <4>2, <4>3
    <3>2. CASE ~\E p \in Frame : p # n /\ GotMem[p].loc = b
      <4>1. \A p \in Frame : GotMem[p].loc # b
        BY <1>6, <3>2, BackingIs
      <4>2. \A p \in Frame : PhysMem'[p].loc # b
        BY <1>7, <1>9, <4>1
      <4>3. Stored(GotMem, phys, GotDisk, b) = GotDisk[b]
        BY <1>2, <4>1, StoredIs
      <4>4. Stored(PhysMem', phys', disk', b) = disk'[b]
        BY <1>2, <4>2, StoredIs
      <4> QED
        BY <1>1, <4>3, <4>4
    <3> QED
      BY <3>1, <3>2
  <2> QED
    BY <2>1, GotStored
<1>10. pte[e].ppage # 0 => x = Stored(PhysMem, phys, disk, B)
  <2> SUFFICES ASSUME pte[e].ppage # 0
               PROVE  x = Stored(PhysMem, phys, disk, B)
    OBVIOUS
  <2>1. pte[e].ppage = Absent
    <3>1. pte[e].ppage \in Frame \cup {Absent, 0}
      BY <1>2, NamedFrame
    <3> QED
      BY <3>1
  <2>2. x = GotDisk[B]
    BY <2>1 DEF Elsewhere, Reads, B
  <2>3. \A p \in Frame : GotMem[p].loc # B
    BY <1>2, <1>4, StoredIs
  <2>4. Stored(GotMem, phys, GotDisk, B) = GotDisk[B]
    BY <1>2, <1>4, <2>3, StoredIs
  <2> QED
    BY <1>4, <2>2, <2>4, GotStored
<1>11. pte[e].ppage = 0 => x = phys[0] /\ B \in SwapBlock
  BY <1>2, NamedFrame, FrameIs DEF Elsewhere, Reads, B
<1>12. ASSUME NEW l \in Live, l \in Live'
       PROVE  Reads(pte', phys', disk', bte', l) = Reads(pte, phys, disk, bte, l)
  <2>1. /\ bte[l] \in Backing
        /\ pte[l].ppage = 0 => bte[l] \in SwapBlock
        /\ Reads(pte, phys, disk, bte, l) =
             IF pte[l].ppage = 0 THEN phys[0] ELSE Stored(PhysMem, phys, disk, bte[l])
    BY <1>2, <1>12, PageReads
  <2>2. Reads(pte', phys', disk', bte', l) =
          IF pte'[l].ppage = 0 THEN phys'[0] ELSE Stored(PhysMem', phys', disk', bte'[l])
    BY <1>2, <1>12, PageReads
  <2>3. l \in Ptes
    BY PteIs DEF Live
  <2>4. CASE bte[l] = B
    <3>1. l \in GotMapped[B]
      BY <1>2, <1>12, <2>4, LivePage
    <3>2. pte'[l] = EntryOf(n, r)
      BY <1>1, <2>3, <3>1
    <3>3. pte'[l].ppage # 0
      BY <1>3, <3>2 DEF EntryOf
    <3>4. Reads(pte', phys', disk', bte', l) = x
      BY <1>1, <1>8, <2>2, <2>4, <3>3
    <3>5. CASE pte[e].ppage = 0
      <4>1. /\ MappedBlocks[bte[e]] = {e}
            /\ l \in MappedBlocks[bte[l]]
        BY <1>2, <1>11, <1>12, <3>5, LivePage DEF B
      <4>2. l = e
        BY <2>4, <4>1 DEF B
      <4> QED
        BY <1>11, <2>1, <3>4, <3>5, <4>2
    <3>6. CASE pte[e].ppage # 0
      <4>1. pte[l].ppage # 0
        <5> SUFFICES ASSUME pte[l].ppage = 0
                     PROVE  FALSE
          OBVIOUS
        <5>1. bte[l] \in SwapBlock
          BY <2>1
        <5>2. MappedBlocks[bte[l]] = {l} /\ e \in MappedBlocks[bte[e]]
          BY <1>2, <1>12, <5>1, LivePage
        <5>3. e = l
          BY <2>4, <5>2 DEF B
        <5> QED
          BY <3>6, <5>3
      <4> QED
        BY <1>10, <2>1, <2>4, <3>4, <3>6, <4>1
    <3> QED
      BY <3>5, <3>6
  <2>5. CASE bte[l] # B
    <3>1. l \notin GotMapped[B]
      <4>1. l \in GotMapped[bte[l]]
        BY <1>2, <1>12, LivePage
      <4> QED
        BY <1>2, <1>4, <2>1, <2>5, <4>1, OneBackingOf
    <3>2. pte'[l] = GotPte[l]
      BY <1>1, <2>3, <3>1
    <3>3. pte'[l].ppage = 0 <=> pte[l].ppage = 0
      BY <1>12, <3>2, GotZero
    <3> QED
      BY <1>1, <1>7, <1>9, <2>1, <2>2, <2>5, <3>3
  <2> QED
    BY <2>4, <2>5
<1>13. FilesSame
  <2>1. \A f \in FileBlock : f \in Backing /\ f \notin SwapBlock
    BY BackingIs DEF Backing
  <2>2. B \in FileBlock => Stored(PhysMem', phys', disk', B) = Stored(PhysMem, phys, disk, B)
    BY <1>8, <1>10, <1>11, <2>1
  <2> QED
    BY <1>9, <2>1, <2>2 DEF FilesSame
<1> QED
  BY <1>1, <1>12, <1>13 DEF PagesSame

LEMMA FaultSame ==
  ASSUME OInv, OInv', call.op \notin {"exit", "none"}, NEW v, NEW w \in BOOLEAN,
         NEW ok, NEW fail, vm_fault(v, w, ok, fail)
  PROVE  PagesSame /\ FilesSame
<1>1. \/ UNCHANGED <<proc, tables, frames, space, data>>
      \/ \E e \in Live : Marks(e) \/ Fills(e) \/ FaultReadFails(e, fail)
  BY FaultSteps
<1>2. CASE UNCHANGED <<proc, tables, frames, space, data>>
  BY <1>2, UnmovedSame DEF tables, frames, data
<1>3. ASSUME NEW e \in Live, Marks(e) PROVE PagesSame /\ FilesSame
  BY <1>3, MarkSame DEF Marks
<1>4. ASSUME NEW e \in Live, Fills(e) PROVE PagesSame /\ FilesSame
  BY <1>4, FillSame DEF Fills
<1>5. ASSUME NEW e \in Live, FaultReadFails(e, fail) PROVE PagesSame /\ FilesSame
  BY <1>5, ReadFailsSame
<1> QED
  BY <1>1, <1>2, <1>3, <1>4, <1>5

-----------------------------------------------------------------------------
(* The other operations.                                                   *)

\* A page that is mapped is new, and the others stay as they are.
LEMMA MapFileSame ==
  ASSUME OInv, NEW v \in Vpage, NEW c \in FBlock, MapFile(v, c)
  PROVE  /\ PagesSame /\ FilesSame
         /\ bte'[NewEntry] = <<NameOf[phys[pte[Mine(v)].ppage]], c>>
         /\ bte'[NewEntry] \in FileBlock
<1> DEFINE fb == <<NameOf[phys[pte[Mine(v)].ppage]], c>>
           d  == CHOOSE l \in MappedBlocks[fb] : TRUE
           p  == pte[d].ppage
<1>1. /\ Reading(v, c) /\ Permits(v, FALSE) /\ Grow /\ call' = Run
      /\ MapsFile(fb) /\ UNCHANGED <<phys, disk>>
  BY DEF MapFile, MapsFile, data
<1>2. /\ call.op \in {"run", "string"} /\ next[running_pid] # NPages
  BY <1>1, ReadingRoom
<1>3. v \in 0..NPages /\ Run \in Call /\ Run.op = "run"
  <2>1. v \in 0..NPages
    BY OopAssumption DEF Vpage
  <2> QED
    BY <2>1, CallsAre
<1>4. /\ NewEntry \in Pte /\ NewEntry \notin Live /\ Live' = Live \cup {NewEntry}
  BY <1>1, <1>2, <1>3, Grown
<1>5. fb \in FileBlock
  <2>1. Mine(v) \in Live
    BY <1>1, <1>2, PermittedLive
  <2>2. pte[Mine(v)].ppage \in Ppage
    <3>1. pte[Mine(v)].ppage \in Frame \cup {Absent, 0}
          /\ (pte[Mine(v)].ppage = Absent => pte[Mine(v)] = NullEntry)
      BY <2>1, InvSound, NamedFrame
    <3>2. pte[Mine(v)].read_enable
      BY <1>1 DEF Permits
    <3> QED
      BY <3>1, <3>2, EntriesAre, FrameIs
  <2>3. phys[pte[Mine(v)].ppage] \in Data
    BY <2>2 DEF OInv, TypeOK
  <2> QED
    BY <2>3, OopAssumption DEF FileBlock
<1>6. /\ \A o \in Frame : SameFrame(PhysMem[o], PhysMem'[o])
      /\ \A e \in Pte : e # NewEntry => pte'[e] = pte[e]
  BY <1>1, <1>4, <1>5, FileMapped
<1>7. bte' = [bte EXCEPT ![NewEntry] = fb] /\ bte \in [Pte -> Backing \cup {NoLoc}]
  BY <1>1 DEF MapsFile, OInv, TypeOK
<1>8. \A o \in Frame, f \in FileBlock : PhysMem'[o].loc = f <=> PhysMem[o].loc = f
  BY <1>6 DEF SameFrame
<1>9. \A e \in Live \cap Live' : pte'[e].ppage = pte[e].ppage /\ bte'[e] = bte[e]
  BY <1>4, <1>6, <1>7 DEF Live
<1> HIDE DEF fb
<1>10. PagesSame /\ FilesSame
  BY <1>1, <1>8, <1>9, UnmovedSame
<1> QED
  BY <1>4, <1>5, <1>7, <1>10 DEF fb

\* A page of the swap file is mapped to the zero page.
LEMMA MapSwapSame ==
  ASSUME OInv, MapSwap
  PROVE  /\ PagesSame /\ FilesSame
         /\ bte'[NewEntry] = <<SWAP, FirstFreeSwap>> /\ pte'[NewEntry].ppage = 0
         /\ phys'[0] = phys[0]
<1>1. /\ call.op = "run" /\ next[running_pid] # NPages /\ Grow
      /\ call' = call /\ call \in Call
      /\ pte' = [pte EXCEPT ![NewEntry] = ZeroEntry]
      /\ bte' = [bte EXCEPT ![NewEntry] = <<SWAP, FirstFreeSwap>>]
      /\ UNCHANGED <<phys, disk, PhysMem>>
  BY DEF MapSwap, Idle, frames, data, ZeroEntry, OInv, TypeOK
<1>2. /\ NewEntry \in Pte /\ NewEntry \notin Live /\ Live' = Live \cup {NewEntry}
  BY <1>1, Grown
<1>3. /\ bte \in [Pte -> Backing \cup {NoLoc}] /\ pte \in [Ptes -> Entry]
      /\ Live \subseteq Pte /\ Pte \subseteq Ptes
  BY PteIs DEF OInv, TypeOK, Live
<1>4. \A e \in Live \cap Live' : pte'[e].ppage = pte[e].ppage /\ bte'[e] = bte[e]
  BY <1>1, <1>2, <1>3
<1>5. PagesSame /\ FilesSame
  BY <1>1, <1>4, UnmovedSame
<1> QED
  BY <1>1, <1>2, <1>3, <1>5, EntriesAre

\* A page that leaves takes its frame with it if it is one of the swap file, and
\* leaves a file block where it is.
LEMMA DestroyPageSame ==
  ASSUME OInv, NEW v \in 0..NPages, DestroyPage(v)
  PROVE  PagesSame /\ FilesSame
<1> DEFINE e == Mine(v)
           p == pte[e].ppage
<1>1. /\ Exiting(v) /\ v < next[running_pid] /\ call' = Exit(v + 1)
      /\ DiscardSwap(e) \/ DiscardFile(e)
      /\ UNCHANGED proc /\ UNCHANGED <<bte, phys, disk>>
  BY DEF DestroyPage, data
<1>2. e \in Live /\ Live' = Live \ {e}
  BY <1>1, OnePageLess
<1>3. /\ Sound(PhysMem, pte, MappedBlocks, bte, Live)
      /\ PhysMem \in [Ppage -> PhysEntry] /\ pte \in [Ptes -> Entry] /\ Live \subseteq Pte
  BY InvSound DEF Sound, Typed
<1>4. Discards(e)
  BY <1>1, <1>2, SwapDiscarded, FileDiscarded
<1>5. \A l \in Live \cap Live' : pte'[l].ppage = pte[l].ppage /\ bte'[l] = bte[l]
  BY <1>1, <1>3, <1>4 DEF Discards
<1>6. \A o \in Frame, f \in FileBlock : PhysMem'[o].loc = f <=> PhysMem[o].loc = f
  <2>1. CASE DiscardSwap(e)
    <3>1. /\ bte[e][1] = SWAP
          /\ PhysMem' = IF p \in {Absent, 0} THEN PhysMem
                        ELSE [PhysMem EXCEPT ![p] = FreeEntry]
      BY <2>1 DEF DiscardSwap
    <3>2. bte[e] \in SwapBlock
      BY <1>2, <1>3, <3>1, LivePage, BackingIs
    <3>3. p \in Frame \cup {Absent, 0}
      BY <1>2, <1>3, NamedFrame
    <3>4. p \in Frame => PhysMem[p].loc = bte[e]
      BY <1>2, <1>3, LiveFrame
    <3>5. FreeEntry.loc = NoLoc /\ \A f \in FileBlock : f # NoLoc /\ f \notin SwapBlock
      BY StatesAre, BackingIs DEF Backing
    <3> HIDE DEF e, p
    <3> QED
      BY <1>3, <3>1, <3>2, <3>3, <3>4, <3>5, FrameIs
  <2>2. CASE DiscardFile(e)
    <3>1. PhysMem' = IF LeavesGhost(e) THEN [PhysMem EXCEPT ![p] = Ghosted(@)] ELSE PhysMem
      BY <2>2 DEF DiscardFile
    <3>2. CASE LeavesGhost(e)
      <4>1. p \in Frame \cup {0} /\ (p = 0 => bte[e] \in SwapBlock) /\ bte[e] \in Backing
        BY <1>2, <1>3, <3>2, NamedFrame, LivePage DEF LeavesGhost
      <4>2. p \in Frame
        BY <2>2, <4>1, BackingIs DEF DiscardFile
      <4>3. Ghosted(PhysMem[p]).loc = PhysMem[p].loc
        BY <1>2, <1>3, <4>2, LiveFrame, GhostedRecord
      <4> HIDE DEF e, p
      <4> QED
        BY <1>3, <3>1, <3>2, <4>2, <4>3, FrameIs
    <3> QED
      BY <3>1, <3>2
  <2> QED
    BY <1>1, <2>1, <2>2
<1> QED
  BY <1>1, <1>5, <1>6, UnmovedSame

\* The rest moves nothing.
LEMMA DestroyTableSame ==
  ASSUME OInv, NEW v \in 0..NPages, DestroyTable(v)
  PROVE  PagesSame /\ FilesSame
<1>1. /\ Exiting(v) /\ v = next[running_pid] /\ call' = None /\ UNCHANGED running_pid
      /\ next' = [p \in DOMAIN next \ {running_pid} |-> next[p]]
      /\ pte' = [e \in Ptes |-> IF e[1] = running_pid THEN NullEntry ELSE pte[e]]
      /\ bte' = [e \in Pte |-> IF e[1] = running_pid THEN NoLoc ELSE bte[e]]
      /\ UNCHANGED <<PhysMem, phys, disk>>
  BY DEF DestroyTable, data
<1>2. \A l \in Live : l[1] # running_pid
  BY <1>1, NoPageLeft
<1>3. Live \subseteq Pte /\ Pte \subseteq Ptes
  BY PteIs DEF Live
<1>4. \A l \in Live \cap Live' : pte'[l].ppage = pte[l].ppage /\ bte'[l] = bte[l]
  BY <1>1, <1>2, <1>3
<1> QED
  BY <1>1, <1>4, UnmovedSame

LEMMA QuietSame ==
  ASSUME UNCHANGED <<tables, frames, data>>
  PROVE  PagesSame /\ FilesSame
BY UnmovedSame DEF tables, frames, data

\* A running process is in a call or runs its code.
LEMMA InCall ==
  ASSUME OInv, Access \/ Name
  PROVE  call.op \in {"run", "retry", "string"}
<1>1. \A v \in Vpage : v \in 0..NPages
  BY OopAssumption DEF Vpage
<1>2. PICK c : c \in FBlock
  BY OopAssumption
<1>3. \A v \in Vpage, w \in BOOLEAN : Retry(v, w).op = "retry"
  BY <1>1, <1>2, CallsAre
<1>4. ASSUME Access PROVE call.op \in {"run", "retry", "string"}
  BY <1>3, <1>4 DEF Access, AppFault, Store, Reload, Idle
<1>5. ASSUME Name PROVE call.op \in {"run", "retry", "string"}
  BY <1>5, ReadingRoom DEF Name, NameFault, NameSpills, MapFile
<1> QED
  BY <1>4, <1>5

\* Nothing but a store changes what a page or a file block holds.
LEMMA NextSame ==
  ASSUME OInv, OInv', [Next]_vars, ~\E v \in Vpage, d \in Data : Store(v, d)
  PROVE  PagesSame /\ FilesSame
<1>1. CASE Access
  <2>1. PICK v \in Vpage : (\E w \in BOOLEAN : AppFault(v, w)) \/ Reload(v)
    BY <1>1 DEF Access
  <2>2. call.op \notin {"exit", "none"}
    BY <1>1, InCall
  <2>3. ASSUME NEW w \in BOOLEAN, AppFault(v, w) PROVE PagesSame /\ FilesSame
    BY <2>2, <2>3, FaultSame DEF AppFault
  <2> QED
    BY <2>1, <2>3, QuietSame DEF Reload
<1>2. CASE Name
  <2>1. PICK v \in Vpage, b \in FBlock : NameFault(v, b) \/ NameSpills(v, b) \/ MapFile(v, b)
    BY <1>2 DEF Name
  <2>2. call.op \notin {"exit", "none"}
    BY <1>2, InCall
  <2>3. CASE NameFault(v, b)
    <3>1. vm_fault(v, FALSE, Str(v, b), Run)
      BY <2>3 DEF NameFault
    <3> QED
      BY <2>2, <3>1, FaultSame
  <2> QED
    BY <2>1, <2>3, QuietSame, MapFileSame DEF NameSpills
<1>3. CASE MapSwap
  BY <1>3, MapSwapSame
<1>4. CASE vm_destroy
  BY <1>4, DestroyPageSame, DestroyTableSame DEF vm_destroy
<1>5. CASE \E p \in Pid : vm_create(p) \/ vm_switch(p)
  BY <1>5, QuietSame DEF vm_create, vm_switch
<1>6. CASE UNCHANGED vars
  <2>1. UNCHANGED <<tables, frames, data>>
    BY <1>6 DEF vars
  <2> QED
    BY <2>1, QuietSame
<1> QED
  BY <1>1, <1>2, <1>3, <1>4, <1>5, <1>6 DEF Next

\* What a process reads in a page changes with the stores the MMU lets through
\* and with nothing else: no fault, eviction, copy, vm_map or vm_destroy alters it.
THEOREM OopStoresOnly == Spec => OnlyStoresWrite
<1>1. OInv /\ OInv' /\ [Next]_vars =>
        [(\E e \in Live \cap Live' : Content(e)' # Content(e)) =>
           \E v \in Vpage, d \in Data : Store(v, d)]_vars
  <2> SUFFICES ASSUME OInv, OInv', [Next]_vars, NEW e \in Live \cap Live',
                      Content(e)' # Content(e)
               PROVE  \E v \in Vpage, d \in Data : Store(v, d)
    OBVIOUS
  <2>1. /\ Content(e) = Reads(pte, phys, disk, bte, e)
        /\ Content(e)' = Reads(pte', phys', disk', bte', e)
    BY DEF Content, Reads
  <2> QED
    BY <2>1, NextSame DEF PagesSame
<1> QED
  BY <1>1, OopInvariance, PTL DEF Spec, OnlyStoresWrite

-----------------------------------------------------------------------------
(* The zero page.                                                          *)

\* The frame that unwritten swap pages share.
ZeroKept == phys[0] = Zero

\* A store goes to a frame of its own.
LEMMA StoreFrame ==
  ASSUME OInv, NEW v \in Vpage, NEW d \in Data, Store(v, d)
  PROVE  /\ call.op \in {"run", "retry"} /\ call' = Run /\ Run.op = "run"
         /\ Mine(v) \in Live /\ pte[Mine(v)].ppage \in Frame
         /\ phys' = [phys EXCEPT ![pte[Mine(v)].ppage] = d]
         /\ UNCHANGED <<running_pid, next, pte, bte, PhysMem, disk>>
<1>1. v \in 0..NPages
  BY OopAssumption DEF Vpage
<1>2. PICK b : b \in FBlock
  BY OopAssumption
<1>3. Retry(v, TRUE).op = "retry" /\ Run.op = "run"
  BY <1>1, <1>2, CallsAre
<1>4. /\ call.op \in {"run", "retry"} /\ Permits(v, TRUE) /\ call' = Run
      /\ phys' = [phys EXCEPT ![pte[Mine(v)].ppage] = d]
      /\ UNCHANGED <<running_pid, next, pte, bte, PhysMem, disk>>
  BY <1>3 DEF Store, Idle, proc, tables, frames
<1>5. Mine(v) \in Live /\ pte[Mine(v)].write_enable
  BY <1>4, PermittedLive DEF Permits
<1>6. /\ pte[Mine(v)].ppage \in Frame \cup {Absent, 0}
      /\ pte[Mine(v)].ppage = 0 => pte[Mine(v)] = ZeroEntry
      /\ pte[Mine(v)].ppage = Absent => pte[Mine(v)] = NullEntry
  BY <1>5, InvSound, NamedFrame
<1>7. pte[Mine(v)].ppage \in Frame
  BY <1>5, <1>6, EntriesAre
<1> QED
  BY <1>3, <1>4, <1>5, <1>7

LEMMA FaultZero ==
  ASSUME OInv, ZeroKept, call.op \notin {"exit", "none"}, NEW v, NEW w \in BOOLEAN,
         NEW ok, NEW fail, vm_fault(v, w, ok, fail)
  PROVE  ZeroKept'
<1>1. phys \in [Ppage -> Data] /\ 0 \in Ppage /\ 0 \notin Frame
  BY FrameIs DEF OInv, TypeOK
<1>2. \/ UNCHANGED <<proc, tables, frames, space, data>>
      \/ \E e \in Live : Marks(e) \/ Fills(e) \/ FaultReadFails(e, fail)
  BY FaultSteps
<1>3. CASE UNCHANGED data
  BY <1>3 DEF data, ZeroKept
<1>4. ASSUME NEW e \in Live, Fills(e) PROVE ZeroKept'
  <2>1. PICK x : phys' = [phys EXCEPT ![get_ppage] = x]
    BY <1>4 DEF Fills, FillSteps
  <2>2. get_ppage \in Frame
    BY GotQueues
  <2> QED
    BY <1>1, <2>1, <2>2 DEF ZeroKept
<1>5. ASSUME NEW e \in Live, Marks(e) PROVE ZeroKept'
  BY <1>3, <1>5 DEF Marks, MarkSteps
<1>6. ASSUME NEW e \in Live, FaultReadFails(e, fail) PROVE ZeroKept'
  BY <1>6 DEF FaultReadFails, ZeroKept
<1> QED
  BY <1>2, <1>3, <1>4, <1>5, <1>6

LEMMA NextZero ==
  ASSUME OInv, ZeroKept, [Next]_vars
  PROVE  ZeroKept'
<1>1. phys \in [Ppage -> Data] /\ 0 \in Ppage /\ 0 \notin Frame
  BY FrameIs DEF OInv, TypeOK
<1>2. CASE UNCHANGED data
  BY <1>2 DEF data, ZeroKept
<1>3. CASE Access
  <2>1. PICK v \in Vpage :
          \/ \E w \in BOOLEAN : AppFault(v, w)
          \/ \E d \in Data : Store(v, d)
          \/ Reload(v)
    BY <1>3 DEF Access
  <2>2. call.op \notin {"exit", "none"}
    BY <1>3, InCall
  <2>3. ASSUME NEW w \in BOOLEAN, AppFault(v, w) PROVE ZeroKept'
    BY <2>2, <2>3, FaultZero DEF AppFault
  <2>4. ASSUME NEW d \in Data, Store(v, d) PROVE ZeroKept'
    BY <1>1, <2>4, StoreFrame DEF ZeroKept
  <2> QED
    BY <1>2, <2>1, <2>3, <2>4 DEF Reload
<1>4. CASE Name
  <2>1. PICK v \in Vpage, b \in FBlock : NameFault(v, b) \/ NameSpills(v, b) \/ MapFile(v, b)
    BY <1>4 DEF Name
  <2>2. call.op \notin {"exit", "none"}
    BY <1>4, InCall
  <2>3. CASE NameFault(v, b)
    <3>1. vm_fault(v, FALSE, Str(v, b), Run)
      BY <2>3 DEF NameFault
    <3> QED
      BY <2>2, <3>1, FaultZero
  <2>4. CASE NameSpills(v, b) \/ MapFile(v, b)
    BY <1>2, <2>4 DEF NameSpills, MapFile
  <2> QED
    BY <2>1, <2>3, <2>4
<1>5. CASE MapSwap
  BY <1>2, <1>5 DEF MapSwap
<1>6. CASE vm_destroy
  BY <1>2, <1>6 DEF vm_destroy, DestroyPage, DestroyTable
<1>7. CASE \E p \in Pid : vm_create(p) \/ vm_switch(p)
  BY <1>2, <1>7 DEF vm_create, vm_switch
<1>8. CASE UNCHANGED vars
  BY <1>2, <1>8 DEF vars
<1> QED
  BY <1>3, <1>4, <1>5, <1>6, <1>7, <1>8 DEF Next

LEMMA ZeroInvariance == Spec => []ZeroKept
<1>1. Init => ZeroKept
  BY FrameIs DEF Init, ZeroKept
<1>2. OInv /\ ZeroKept /\ [Next]_vars => ZeroKept'
  BY NextZero
<1> QED
  BY <1>1, <1>2, OopInvariance, PTL DEF Spec

-----------------------------------------------------------------------------
(* A store.                                                                *)

\* A store sets what one backing holds.
LEMMA StoreWrites ==
  ASSUME OInv, OInv', NEW v \in Vpage, NEW d \in Data, Store(v, d)
  PROVE  /\ Live' = Live /\ bte[Mine(v)] \in Backing
         /\ \A b \in Backing :
              Stored(PhysMem', phys', disk', b) =
                IF b = bte[Mine(v)] THEN d ELSE Stored(PhysMem, phys, disk, b)
         /\ \A l \in Live : bte[l] \in SwapBlock =>
              Reads(pte', phys', disk', bte', l) =
                IF l = Mine(v) THEN d ELSE Reads(pte, phys, disk, bte, l)
<1> DEFINE e == Mine(v)
           p == pte[e].ppage
<1>1. /\ call.op \in {"run", "retry"} /\ call'.op = "run"
      /\ e \in Live /\ p \in Frame
      /\ phys' = [phys EXCEPT ![p] = d]
      /\ UNCHANGED <<running_pid, next, pte, bte, PhysMem, disk>>
  BY StoreFrame
<1>2. Live' = Live
  BY <1>1 DEF Live
<1>3. /\ Sound(PhysMem, pte, MappedBlocks, bte, Live)
      /\ Sound(PhysMem', pte', MappedBlocks', bte', Live')
      /\ phys \in [Ppage -> Data]
  BY InvSound, NextSound DEF OInv, TypeOK
<1>4. bte[e] \in Backing /\ PhysMem[p].loc = bte[e] /\ Holds(PhysMem, p)
  BY <1>1, <1>3, LivePage, LiveFrame
<1> HIDE DEF e, p
<1>5. phys'[p] = d /\ phys'[0] = phys[0] /\ \A o \in Frame : o # p => phys'[o] = phys[o]
  BY <1>1, <1>3, FrameIs
<1>6. ASSUME NEW b \in Backing
      PROVE  Stored(PhysMem', phys', disk', b) =
               IF b = bte[e] THEN d ELSE Stored(PhysMem, phys, disk, b)
  <2>1. CASE b = bte[e]
    <3>1. p \in Frame /\ PhysMem'[p].loc = b
      BY <1>1, <1>4, <2>1
    <3>2. Stored(PhysMem', phys', disk', b) = phys'[p]
      BY <1>3, <3>1, StoredIs
    <3> QED
      BY <1>5, <2>1, <3>2
  <2>2. CASE b # bte[e] /\ \E o \in Frame : PhysMem[o].loc = b
    <3>1. PICK o \in Frame : PhysMem[o].loc = b
      BY <2>2
    <3>2. Stored(PhysMem, phys, disk, b) = phys[o]
      BY <1>3, <3>1, StoredIs
    <3>3. Stored(PhysMem', phys', disk', b) = phys'[o]
      <4>1. PhysMem'[o].loc = b
        BY <1>1, <3>1
      <4> QED
        BY <1>3, <4>1, StoredIs
    <3> QED
      BY <1>4, <1>5, <2>2, <3>1, <3>2, <3>3
  <2>3. CASE b # bte[e] /\ ~\E o \in Frame : PhysMem[o].loc = b
    <3>1. Stored(PhysMem, phys, disk, b) = disk[b]
      BY <1>3, <2>3, StoredIs
    <3>2. Stored(PhysMem', phys', disk', b) = disk'[b]
      BY <1>1, <1>3, <2>3, StoredIs
    <3> QED
      BY <1>1, <2>3, <3>1, <3>2
  <2> QED
    BY <2>1, <2>2, <2>3
<1>7. ASSUME NEW l \in Live, bte[l] \in SwapBlock
      PROVE  Reads(pte', phys', disk', bte', l) =
               IF l = e THEN d ELSE Reads(pte, phys, disk, bte, l)
  <2>1. /\ bte[l] \in Backing
        /\ Reads(pte, phys, disk, bte, l) =
             IF pte[l].ppage = 0 THEN phys[0] ELSE Stored(PhysMem, phys, disk, bte[l])
    BY <1>3, <1>7, PageReads
  <2>2. Reads(pte', phys', disk', bte', l) =
          IF pte'[l].ppage = 0 THEN phys'[0] ELSE Stored(PhysMem', phys', disk', bte'[l])
    BY <1>2, <1>3, <1>7, PageReads
  <2>3. CASE l = e
    <3>1. pte'[l].ppage # 0 /\ bte'[l] = bte[e]
      BY <1>1, <2>3, FrameIs DEF p
    <3> QED
      BY <1>4, <1>6, <2>2, <2>3, <3>1
  <2>4. CASE l # e
    <3>1. bte[l] # bte[e]
      <4>1. MappedBlocks[bte[l]] = {l} /\ e \in MappedBlocks[bte[e]]
        BY <1>1, <1>3, <1>7, LivePage
      <4> QED
        BY <2>4, <4>1
    <3> QED
      BY <1>1, <1>5, <1>6, <2>1, <2>2, <2>4, <3>1
  <2> QED
    BY <2>3, <2>4
<1> QED
  BY <1>2, <1>4, <1>6, <1>7 DEF e

-----------------------------------------------------------------------------
(* The arenas that a state of the pager stands for.                        *)

Staying == DOMAIN next \ (IF call.op = "exit" THEN {running_pid} ELSE {})

Current == IF call.op \in {"none", "exit"} THEN NoPid ELSE running_pid

PageOf(pt, ph, dk, bt, e) ==
  IF bt[e][1] = SWAP THEN [kind |-> "swap", data |-> Reads(pt, ph, dk, bt, e)]
  ELSE [kind |-> "file", block |-> bt[e]]

ArenasOf(S, nx, pt, ph, dk, bt) ==
  [p \in S |-> [i \in 1..nx[p] |-> PageOf(pt, ph, dk, bt, <<p, i - 1>>)]]

Arenas == [p \in Staying |-> [i \in 1..next[p] |-> Page(<<p, i - 1>>)]]

Files ==
  [f \in FileBlock |->
     LET held == {p \in Frame : PhysMem[p].loc = f} IN
     IF held = {} THEN disk[f] ELSE phys[CHOOSE p \in held : TRUE]]

LEMMA ArenasAre ==
  /\ Arenas = ArenasOf(Staying, next, pte, phys, disk, bte)
  /\ Arenas' = ArenasOf(Staying', next', pte', phys', disk', bte')
BY DEF Arenas, ArenasOf, Page, PageOf, Content, Reads

LEMMA FilesAre ==
  /\ Files = [f \in FileBlock |-> Stored(PhysMem, phys, disk, f)]
  /\ Files' = [f \in FileBlock |-> Stored(PhysMem', phys', disk', f)]
BY DEF Files, Stored

LEMMA FilesKept ==
  ASSUME FilesSame
  PROVE  Files' = Files
BY FilesAre DEF FilesSame

LEMMA PageKept ==
  ASSUME PagesSame, NEW e \in Live, e \in Live'
  PROVE  PageOf(pte', phys', disk', bte', e) = PageOf(pte, phys, disk, bte, e)
BY DEF PagesSame, PageOf

\* The pages of an arena are mapped.
LEMMA StayingPages ==
  ASSUME OInv, NEW p \in Staying
  PROVE  /\ p \in Pid /\ next[p] \in 0..NPages /\ next[p] \in Nat
         /\ \A i \in 1..next[p] : <<p, i - 1>> \in Live /\ i - 1 \in Vpage
<1>1. p \in Pid /\ p \in DOMAIN next /\ next[p] \in 0..NPages
      /\ ~(call.op = "exit" /\ p = running_pid)
  BY DEF OInv, TypeOK, Staying
<1>2. ASSUME NEW i \in 1..next[p]
      PROVE  <<p, i - 1>> \in Live /\ i - 1 \in Vpage
  <2>1. i - 1 \in Vpage /\ i - 1 < next[p]
    BY <1>1, OopAssumption DEF Vpage
  <2> QED
    BY <1>1, <2>1 DEF Live, Pte
<1> QED
  BY <1>1, <1>2, OopAssumption

LEMMA ArenaIs ==
  ASSUME OInv, NEW p \in Staying
  PROVE  /\ p \in DOMAIN Arenas
         /\ Arenas[p] = [i \in 1..next[p] |-> PageOf(pte, phys, disk, bte, <<p, i - 1>>)]
         /\ Len(Arenas[p]) = next[p]
<1>1. /\ p \in DOMAIN Arenas
      /\ Arenas[p] = [i \in 1..next[p] |-> PageOf(pte, phys, disk, bte, <<p, i - 1>>)]
  BY ArenasAre DEF ArenasOf
<1>2. Arenas[p] = [i \in 1..next[p] |-> Arenas[p][i]]
  BY <1>1
<1>3. next[p] \in Nat
  BY StayingPages
<1> QED
  BY <1>1, <1>2, <1>3, SequenceOf

LEMMA ArenaAfter ==
  ASSUME OInv', NEW p \in Staying'
  PROVE  /\ p \in Pid /\ next'[p] \in 0..NPages
         /\ Arenas'[p] = [i \in 1..next'[p] |->
                            PageOf(pte', phys', disk', bte', <<p, i - 1>>)]
         /\ \A i \in 1..next'[p] : <<p, i - 1>> \in Live'
<1>1. p \in Pid /\ p \in DOMAIN next' /\ next'[p] \in 0..NPages
      /\ ~(call'.op = "exit" /\ p = running_pid')
  BY DEF OInv, TypeOK, Staying
<1>2. ASSUME NEW i \in 1..next'[p]
      PROVE  <<p, i - 1>> \in Live'
  <2>1. i - 1 \in Vpage /\ i - 1 < next'[p]
    BY <1>1, OopAssumption DEF Vpage
  <2> QED
    BY <1>1, <2>1 DEF Live, Pte
<1>3. Arenas'[p] = [i \in 1..next'[p] |-> PageOf(pte', phys', disk', bte', <<p, i - 1>>)]
  BY ArenasAre DEF ArenasOf
<1> QED
  BY <1>1, <1>2, <1>3

\* The arena of a process that maps nothing stays what it is.
LEMMA ArenaKept ==
  ASSUME OInv, OInv', PagesSame,
         NEW p \in Staying, p \in Staying', next'[p] = next[p]
  PROVE  Arenas'[p] = Arenas[p]
<1>1. /\ Arenas[p] = [i \in 1..next[p] |-> PageOf(pte, phys, disk, bte, <<p, i - 1>>)]
      /\ \A i \in 1..next[p] : <<p, i - 1>> \in Live
  BY ArenaIs, StayingPages
<1>2. /\ Arenas'[p] = [i \in 1..next'[p] |->
                         PageOf(pte', phys', disk', bte', <<p, i - 1>>)]
      /\ \A i \in 1..next'[p] : <<p, i - 1>> \in Live'
  BY ArenaAfter
<1>3. \A i \in 1..next[p] : PageOf(pte', phys', disk', bte', <<p, i - 1>>) =
                              PageOf(pte, phys, disk, bte, <<p, i - 1>>)
  BY <1>1, <1>2, PageKept
<1> QED
  BY <1>1, <1>2, <1>3

LEMMA ArenasKeep ==
  ASSUME OInv, OInv', PagesSame, FilesSame, Staying' \subseteq Staying,
         \A p \in Staying' : next'[p] = next[p]
  PROVE  Arenas' = [p \in Staying' |-> Arenas[p]] /\ Files' = Files
<1>1. \A p \in Staying' : Arenas'[p] = Arenas[p]
  BY ArenaKept
<1>2. Arenas' = [p \in Staying' |-> Arenas'[p]]
  BY ArenasAre DEF ArenasOf
<1> QED
  BY <1>1, <1>2, FilesKept

-----------------------------------------------------------------------------
(* The steps of VirtualMemory under this mapping.                          *)

LEMMA Stutters ==
  ASSUME Arenas' = Arenas, Current' = Current, Files' = Files
  PROVE  [Memory!Next]_(Memory!vars)
BY DEF Memory!vars, Arenas, Staying, Current, Files

LEMMA Exits ==
  ASSUME Current \in DOMAIN Arenas,
         Arenas' = [p \in DOMAIN Arenas \ {Current} |-> Arenas[p]],
         Current' = NoPid, Files' = Files
  PROVE  Memory!Next
BY DEF Memory!Next, Memory!Exit, Memory!Running, Arenas, Staying, Current, Files

LEMMA Switches ==
  ASSUME NEW p \in Pid, p \in DOMAIN Arenas, Current' = p,
         Arenas' = Arenas, Files' = Files
  PROVE  Memory!Next
BY DEF Memory!Next, Memory!Switch, Arenas, Staying, Current, Files

LEMMA Creates ==
  ASSUME NEW child \in Pid, child \notin DOMAIN Arenas, NoPid \notin DOMAIN Arenas,
         Arenas' = [p \in DOMAIN Arenas \cup {child} |->
                      IF p # child THEN Arenas[p] ELSE <<>>],
         Current' = Current, Files' = Files
  PROVE  Memory!Next
<1>1. Memory!Create(NoPid, child)
  BY DEF Memory!Create, Arenas, Staying, Current, Files
<1> QED
  BY <1>1 DEF Memory!Next

LEMMA SameCounting ==
  ASSUME NEW S
  PROVE  Memory!Cardinality(S) = Cardinality(S)
BY DEF Memory!Cardinality, Cardinality

LEMMA ExtendsSwap ==
  ASSUME Current \in DOMAIN Arenas, Len(Arenas[Current]) < NPages,
         Cardinality(Memory!SwapPages) < BlCnt,
         Arenas' = [Arenas EXCEPT ![Current] = Append(@, [kind |-> "swap", data |-> Zero])],
         Current' = Current, Files' = Files
  PROVE  Memory!Next
<1>1. Memory!Cardinality(Memory!SwapPages) < BlCnt
  BY SameCounting
<1>2. Memory!Extend([kind |-> "swap", data |-> Zero])
  BY DEF Memory!Extend, Memory!Running, Arenas, Staying, Current, Files
<1>3. Memory!MapSwap
  BY <1>1, <1>2 DEF Memory!MapSwap, Memory!SwapPage
<1> QED
  BY <1>3 DEF Memory!Next

LEMMA ExtendsFile ==
  ASSUME Current \in DOMAIN Arenas, Len(Arenas[Current]) < NPages,
         NEW k \in 1..NPages, NEW b \in FBlock, k <= Len(Arenas[Current]),
         NEW d, Memory!Content(Current, k) = d, d \notin Spill,
         Arenas' = [Arenas EXCEPT ![Current] =
                      Append(@, [kind |-> "file", block |-> <<NameOf[d], b>>])],
         Current' = Current, Files' = Files
  PROVE  Memory!Next
<1> DEFINE page == Memory!FilePage(<<NameOf[Memory!Content(Current, k)], b>>)
<1>1. page = [kind |-> "file", block |-> <<NameOf[d], b>>]
  BY DEF Memory!FilePage
<1>2. Arenas' = [Arenas EXCEPT ![Current] = Append(@, page)]
  BY <1>1
<1>3. Memory!Extend(page)
  BY <1>2 DEF Memory!Extend, Memory!Running, Arenas, Staying, Current, Files
<1>4. Memory!Running
  BY DEF Memory!Running, Arenas, Staying, Current
<1>5. Memory!MapFile(k, b) <=>
        /\ Memory!Running
        /\ k <= Len(Arenas[Current])
        /\ Memory!Content(Current, k) \notin Spill
        /\ Memory!Extend(page)
  BY DEF Memory!MapFile, Arenas, Staying, Current
<1>6. Memory!MapFile(k, b)
  BY <1>3, <1>4, <1>5
<1> QED
  BY <1>6 DEF Memory!Next

LEMMA Stores ==
  ASSUME Current \in DOMAIN Arenas, NEW i \in 1..NPages, NEW d \in Data,
         i <= Len(Arenas[Current]), Current' = Current,
         IF Arenas[Current][i].kind = "swap"
         THEN /\ Arenas' = [Arenas EXCEPT ![Current][i].data = d]
              /\ Files' = Files
         ELSE /\ Files' = [Files EXCEPT ![Arenas[Current][i].block] = d]
              /\ Arenas' = Arenas
  PROVE  Memory!Next
<1>1. Memory!Store(i, d)
  BY DEF Memory!Store, Memory!Running, Arenas, Staying, Current, Files
<1> QED
  BY <1>1 DEF Memory!Next

-----------------------------------------------------------------------------
(* The arena that vm_map extends.                                          *)

\* vm_map makes the arena of the running process one page longer.
LEMMA ArenaGrows ==
  ASSUME OInv, OInv', PagesSame,
         running_pid \in Staying, Staying' = Staying,
         next'[running_pid] = next[running_pid] + 1,
         \A p \in Staying \ {running_pid} : next'[p] = next[p]
  PROVE  Arenas' = [Arenas EXCEPT ![running_pid] =
                      Append(@, PageOf(pte', phys', disk', bte', NewEntry))]
<1> DEFINE n == next[running_pid]
           s == Arenas[running_pid]
           e == PageOf(pte', phys', disk', bte', NewEntry)
<1>1. /\ n \in Nat
      /\ s = [i \in 1..n |-> PageOf(pte, phys, disk, bte, <<running_pid, i - 1>>)]
      /\ \A i \in 1..n : <<running_pid, i - 1>> \in Live
  BY ArenaIs, StayingPages
<1>2. /\ Arenas'[running_pid] =
           [i \in 1..(n + 1) |-> PageOf(pte', phys', disk', bte', <<running_pid, i - 1>>)]
      /\ \A i \in 1..(n + 1) : <<running_pid, i - 1>> \in Live'
  BY ArenaAfter
<1>3. \A i \in 1..n : PageOf(pte', phys', disk', bte', <<running_pid, i - 1>>) = s[i]
  <2> TAKE i \in 1..n
  <2>1. i \in 1..(n + 1)
    BY <1>1
  <2> QED
    BY <1>1, <1>2, <2>1, PageKept
<1>4. <<running_pid, (n + 1) - 1>> = NewEntry
  BY <1>1 DEF NewEntry, Mine
<1> HIDE DEF e, s
<1>5. Append(s, e) = [i \in 1..(n + 1) |-> IF i <= n THEN s[i] ELSE e]
  <2>1. s = [i \in 1..n |-> s[i]]
    BY <1>1
  <2>2. n \in Nat
    BY <1>1
  <2> HIDE DEF n
  <2> QED
    BY <2>1, <2>2, AppendIs
<1>6. Arenas'[running_pid] = Append(s, e)
  <2>1. ASSUME NEW i \in 1..(n + 1)
        PROVE  PageOf(pte', phys', disk', bte', <<running_pid, i - 1>>) =
                 IF i <= n THEN s[i] ELSE e
    <3>1. CASE i <= n
      <4>1. i \in 1..n
        BY <1>1, <3>1
      <4> HIDE DEF n
      <4> QED
        BY <1>3, <3>1, <4>1
    <3>2. CASE ~(i <= n)
      <4>1. i = n + 1
        BY <1>1, <3>2
      <4> QED
        BY <1>4, <3>2, <4>1 DEF e
    <3> QED
      BY <3>1, <3>2
  <2> QED
    BY <1>2, <1>5, <2>1
<1>7. \A p \in Staying \ {running_pid} : Arenas'[p] = Arenas[p]
  BY ArenaKept
<1>8. DOMAIN Arenas = Staying /\ DOMAIN Arenas' = Staying
  BY ArenasAre DEF ArenasOf
<1>9. Arenas' = [p \in DOMAIN Arenas' |-> Arenas'[p]]
  BY ArenasAre DEF ArenasOf
<1> QED
  BY <1>6, <1>7, <1>8, <1>9 DEF e, s

-----------------------------------------------------------------------------
(* The swap space: a page to be mapped finds a block when the arenas have  *)
(* fewer swap pages than there are blocks.                                 *)

LEMMA SwapPageBlock ==
  ASSUME OInv, NEW e \in Memory!SwapPages
  PROVE  LET l == <<e[1], e[2] - 1>> IN
         /\ e = <<e[1], e[2]>> /\ e[2] \in 1..NPages
         /\ l \in Live /\ bte[l] \in SwapBlock
         /\ bte[l] = <<SWAP, bte[l][2]>> /\ bte[l][2] \in Block
         /\ MappedBlocks[bte[l]] = {l}
<1> DEFINE l == <<e[1], e[2] - 1>>
<1>1. /\ e = <<e[1], e[2]>> /\ e[2] \in 1..NPages
      /\ e[1] \in DOMAIN Arenas /\ e[2] <= Len(Arenas[e[1]])
      /\ Arenas[e[1]][e[2]].kind = "swap"
  <2>1. Memory!SwapPages =
          {o \in Pid \X (1..NPages) :
             /\ o[1] \in DOMAIN Arenas /\ o[2] <= Len(Arenas[o[1]])
             /\ Arenas[o[1]][o[2]].kind = "swap"}
    BY DEF Memory!SwapPages, Arenas, Staying
  <2> QED
    BY <2>1
<1>2. e[1] \in Staying
  BY <1>1, ArenasAre DEF ArenasOf
<1>3. /\ next[e[1]] \in 0..NPages /\ Len(Arenas[e[1]]) = next[e[1]]
      /\ Arenas[e[1]] = [i \in 1..next[e[1]] |->
                           PageOf(pte, phys, disk, bte, <<e[1], i - 1>>)]
      /\ \A i \in 1..next[e[1]] : <<e[1], i - 1>> \in Live
  BY <1>2, ArenaIs, StayingPages
<1>4. e[2] \in 1..next[e[1]]
  BY <1>1, <1>3, OopAssumption
<1>5. l \in Live /\ PageOf(pte, phys, disk, bte, l).kind = "swap"
  BY <1>1, <1>3, <1>4
<1>6. bte[l][1] = SWAP
  BY <1>5 DEF PageOf
<1>7. bte[l] \in Backing
  BY <1>5, InvSound, LivePage
<1>8. bte[l] \in SwapBlock
  BY <1>6, <1>7, BackingIs
<1>9. MappedBlocks[bte[l]] = {l}
  BY <1>5, <1>8, InvSound, LivePage
<1>10. bte[l] = <<SWAP, bte[l][2]>> /\ bte[l][2] \in Block
  BY <1>8 DEF SwapBlock
<1> QED
  BY <1>1, <1>5, <1>8, <1>9, <1>10

\* The block that vm_map is to give is one of the swap file's, and nobody's.
LEMMA SpareSwap ==
  ASSUME OInv, FirstFreeSwap # BlCnt
  PROVE  FirstFreeSwap \in Block /\ MappedBlocks[<<SWAP, FirstFreeSwap>>] = {}
<1> DEFINE T == {b \in 0..BlCnt : b \notin SwapBlocks}
<1>1. /\ SwapBlocks = {b \in Block : MappedBlocks[<<SWAP, b>>] # {}}
      /\ FirstFreeSwap = Min(T)
  BY DEF OInv, FirstFreeLeast
<1>2. \A k : k \in Block <=> k \in 0..BlCnt /\ k # BlCnt
  BY OopAssumption DEF Block
<1>3. BlCnt \in T /\ T \in SUBSET Nat
  BY <1>1, <1>2, OopAssumption
<1>4. FirstFreeSwap \in T
  <2> HIDE DEF T
  <2> QED
    BY <1>1, <1>3, MinInSet
<1> QED
  BY <1>1, <1>2, <1>4

LEMMA SpareBlock ==
  ASSUME OInv, NEW b \in Block, MappedBlocks[<<SWAP, b>>] = {}
  PROVE  Cardinality(Memory!SwapPages) < BlCnt
<1> DEFINE S      == Memory!SwapPages
           T      == Block \ {b}
           at(e)  == <<e[1], e[2] - 1>>
           held   == [e \in S |-> bte[at(e)][2]]
<1>1. \A e \in S : /\ held[e] \in Block
                   /\ MappedBlocks[<<SWAP, held[e]>>] = {at(e)}
  BY SwapPageBlock
<1>2. \A e \in S : held[e] \in T
  BY <1>1
<1>3. ASSUME NEW d \in S, NEW e \in S, held[d] = held[e]
      PROVE  d = e
  <2>1. at(d) = at(e)
    <3>1. {at(d)} = {at(e)}
      BY <1>1, <1>3
    <3> HIDE DEF at
    <3> QED
      BY <3>1
  <2>2. /\ d = <<d[1], d[2]>> /\ d[2] \in 1..NPages
        /\ e = <<e[1], e[2]>> /\ e[2] \in 1..NPages
    BY SwapPageBlock
  <2>3. d[1] = e[1] /\ d[2] - 1 = e[2] - 1
    BY <2>1
  <2>4. d[2] = e[2]
    BY <2>2, <2>3, OopAssumption
  <2> QED
    BY <2>2, <2>3, <2>4
<1>4. held \in Injection(S, T)
  <2>1. held \in [S -> T]
    BY <1>2
  <2>2. DOMAIN held = S /\ \A d, e \in S : held[d] = held[e] => d = e
    BY <1>3
  <2> HIDE DEF held, S, T
  <2> QED
    BY <2>1, <2>2 DEF Injection, IsInjective
<1>5. BlCnt \in Nat /\ BlCnt > 0
  BY OopAssumption DEF Block
<1>6. IsFiniteSet(Block) /\ Cardinality(Block) = BlCnt
  BY <1>5, FS_Interval DEF Block
<1>7. IsFiniteSet(T) /\ Cardinality(T) = BlCnt - 1
  BY <1>6, FS_RemoveElement
<1>8. IsFiniteSet(S) /\ Cardinality(S) <= Cardinality(T)
  <2> HIDE DEF held, S, T
  <2> QED
    BY <1>4, <1>7, FS_Injection
<1>9. Cardinality(S) \in Nat
  BY <1>8, FS_CardinalityType
<1> QED
  BY <1>5, <1>7, <1>8, <1>9

-----------------------------------------------------------------------------
(* Every step of the pager is a step of VirtualMemory or changes no arena. *)

\* The process that calls has an arena.
LEMMA CallerStays ==
  ASSUME OInv, call.op \notin {"none", "exit"}
  PROVE  /\ Current = running_pid /\ running_pid \in Staying
         /\ running_pid \in DOMAIN Arenas /\ Staying = DOMAIN next
BY ArenasAre DEF Current, Staying, ArenasOf, OInv, TypeOK

\* A step that maps nothing leaves the arenas alone, but that of a process that
\* begins to exit.
LEMMA NothingMapped ==
  ASSUME OInv, OInv', PagesSame, FilesSame,
         \A p \in Staying' : next'[p] = next[p],
         \/ Staying' = Staying /\ Current' = Current
         \/ /\ Current \in Staying
            /\ Staying' = Staying \ {Current}
            /\ Current' = NoPid
  PROVE  [Memory!Next]_(Memory!vars)
<1>1. Arenas' = [p \in Staying' |-> Arenas[p]] /\ Files' = Files
  BY ArenasKeep
<1>2. DOMAIN Arenas = Staying /\ Arenas = [p \in Staying |-> Arenas[p]]
  BY ArenasAre DEF ArenasOf
<1>3. CASE Staying' = Staying /\ Current' = Current
  BY <1>1, <1>2, <1>3, Stutters
<1>4. CASE Current \in Staying /\ Staying' = Staying \ {Current} /\ Current' = NoPid
  BY <1>1, <1>2, <1>4, Exits
<1> QED
  BY <1>3, <1>4

\* A call that the running process is in goes on, returns or kills it.
LEMMA CallMaps ==
  ASSUME OInv, OInv', PagesSame, FilesSame, UNCHANGED <<running_pid, next>>,
         call.op \notin {"none", "exit"}, call'.op # "none"
  PROVE  [Memory!Next]_(Memory!vars)
<1>1. Current = running_pid /\ running_pid \in Staying /\ Staying = DOMAIN next
  BY CallerStays
<1>2. CASE call'.op = "exit"
  BY <1>1, <1>2, NothingMapped DEF Staying, Current
<1>3. CASE call'.op # "exit"
  BY <1>1, <1>3, NothingMapped DEF Staying, Current
<1> QED
  BY <1>2, <1>3

LEMMA FaultMaps ==
  ASSUME OInv, OInv', call.op \notin {"none", "exit"},
         NEW v, NEW w \in BOOLEAN, NEW ok, NEW fail,
         vm_fault(v, w, ok, fail), ok.op # "none", fail.op # "none"
  PROVE  [Memory!Next]_(Memory!vars)
<1>1. call' \in {ok, fail} /\ UNCHANGED proc
  BY FaultSteps
<1>2. PagesSame /\ FilesSame
  BY FaultSame
<1> QED
  BY <1>1, <1>2, CallMaps DEF proc

\* A page of the running process is at the place in its arena that follows its
\* number.
LEMMA PageAt ==
  ASSUME OInv, call.op \notin {"none", "exit"}, NEW v \in Vpage, Mine(v) \in Live
  PROVE  /\ v + 1 \in 1..next[running_pid]
         /\ v + 1 \in 1..NPages /\ v + 1 <= Len(Arenas[running_pid])
         /\ Arenas[running_pid][v + 1] = PageOf(pte, phys, disk, bte, Mine(v))
<1>1. running_pid \in Staying
  BY CallerStays
<1>2. /\ next[running_pid] \in 0..NPages /\ Len(Arenas[running_pid]) = next[running_pid]
      /\ Arenas[running_pid] = [i \in 1..next[running_pid] |->
                                  PageOf(pte, phys, disk, bte, <<running_pid, i - 1>>)]
  BY <1>1, ArenaIs, StayingPages
<1>3. v < next[running_pid]
  BY DEF Live, Mine
<1>4. v \in 0..(NPages - 1)
  BY DEF Vpage
<1>5. v + 1 \in 1..next[running_pid] /\ v + 1 \in 1..NPages
  BY <1>2, <1>3, <1>4, OopAssumption
<1>6. (v + 1) - 1 = v /\ v + 1 <= next[running_pid]
  BY <1>2, <1>4, <1>5, OopAssumption
<1>7. <<running_pid, (v + 1) - 1>> = Mine(v)
  BY <1>6 DEF Mine
<1>8. Arenas[running_pid][v + 1] =
        PageOf(pte, phys, disk, bte, <<running_pid, (v + 1) - 1>>)
  BY <1>2, <1>5
<1> QED
  BY <1>2, <1>5, <1>6, <1>7, <1>8

\* A store sets one swap page, or one block of a file.
LEMMA StoreMaps ==
  ASSUME OInv, OInv', NEW v \in Vpage, NEW d \in Data, Store(v, d)
  PROVE  Memory!Next
<1> DEFINE e == Mine(v)
           i == v + 1
           n == next[running_pid]
           Old(l) == PageOf(pte, phys, disk, bte, l)
           New(l) == PageOf(pte', phys', disk', bte', l)
<1>1. /\ call.op \in {"run", "retry"} /\ call'.op = "run" /\ e \in Live
      /\ UNCHANGED <<running_pid, next, bte>>
  BY StoreFrame
<1>2. /\ bte[e] \in Backing
      /\ \A b \in Backing :
           Stored(PhysMem', phys', disk', b) =
             IF b = bte[e] THEN d ELSE Stored(PhysMem, phys, disk, b)
      /\ \A l \in Live : bte[l] \in SwapBlock =>
           Reads(pte', phys', disk', bte', l) =
             IF l = e THEN d ELSE Reads(pte, phys, disk, bte, l)
  BY StoreWrites
<1>3. /\ Current = running_pid /\ running_pid \in Staying /\ running_pid \in DOMAIN Arenas
      /\ Staying' = Staying /\ Current' = Current
  <2>1. call.op \notin {"none", "exit"} /\ call'.op \notin {"none", "exit"}
    BY <1>1
  <2>2. Current = running_pid /\ running_pid \in Staying /\ running_pid \in DOMAIN Arenas
    BY <2>1, CallerStays
  <2>3. Staying' = Staying /\ Current' = Current
    BY <1>1, <2>1 DEF Staying, Current
  <2> QED
    BY <2>2, <2>3
<1>4. /\ i \in 1..n /\ i \in 1..NPages /\ i <= Len(Arenas[running_pid])
      /\ Arenas[running_pid][i] = Old(e)
  BY <1>1, PageAt
<1>5. \A l \in Live : bte[l] \in Backing /\ (bte[l] \in SwapBlock <=> bte[l][1] = SWAP)
  <2>1. \A l \in Live : bte[l] \in Backing
    BY InvSound, LivePage
  <2> QED
    BY <2>1, BackingIs
<1>6. \A l \in Live : l # e => New(l) = Old(l)
  BY <1>1, <1>2, <1>5 DEF PageOf
<1>7. Arenas' = [p \in Staying |-> Arenas'[p]] /\ Arenas = [p \in Staying |-> Arenas[p]]
  BY <1>3, ArenasAre DEF ArenasOf
<1>8. \A p \in Staying :
        /\ Arenas'[p] = [j \in 1..next[p] |-> New(<<p, j - 1>>)]
        /\ Arenas[p] = [j \in 1..next[p] |-> Old(<<p, j - 1>>)]
        /\ \A j \in 1..next[p] : <<p, j - 1>> \in Live
  BY <1>1, <1>3, ArenaIs, ArenaAfter, StayingPages
<1>9. \A p \in Staying : \A j \in 1..next[p] :
        <<p, j - 1>> = e <=> p = running_pid /\ j = i
  <2> TAKE p \in Staying
  <2> TAKE j \in 1..next[p]
  <2>1. next[p] \in 0..NPages
    BY StayingPages
  <2>2. j - 1 = v <=> j = v + 1
    BY <2>1, OopAssumption DEF Vpage
  <2> QED
    BY <2>2 DEF Mine
<1>10. \A f \in FileBlock : f \in Backing
  BY DEF Backing
<1> HIDE DEF e, i, n
<1>11. CASE bte[e] \in SwapBlock
  <2> DEFINE page == [kind |-> "swap", data |-> d]
  <2>1. bte[e][1] = SWAP /\ bte[e] \notin FileBlock
    BY <1>2, <1>11, BackingIs
  <2>2. Files' = Files
    BY <1>2, <1>10, <2>1, FilesAre
  <2>3. New(e) = page
    BY <1>1, <1>2, <1>11, <2>1 DEF PageOf
  <2>4. Old(e).kind = "swap" /\ [Old(e) EXCEPT !.data = d] = page
    BY <2>1 DEF PageOf
  <2> HIDE DEF Old, New, page
  <2>5. \A p \in Staying \ {running_pid} : Arenas'[p] = Arenas[p]
    <3> TAKE p \in Staying \ {running_pid}
    <3>1. \A j \in 1..next[p] : New(<<p, j - 1>>) = Old(<<p, j - 1>>)
      BY <1>6, <1>8, <1>9
    <3> QED
      BY <1>8, <3>1
  <2>6. Arenas'[running_pid] = [Arenas[running_pid] EXCEPT ![i] = page]
    <3>1. \A j \in 1..n : New(<<running_pid, j - 1>>) =
            IF j = i THEN page ELSE Old(<<running_pid, j - 1>>)
      BY <1>3, <1>6, <1>8, <1>9, <2>3 DEF n
    <3>2. /\ Arenas'[running_pid] = [j \in 1..n |-> New(<<running_pid, j - 1>>)]
          /\ Arenas[running_pid] = [j \in 1..n |-> Old(<<running_pid, j - 1>>)]
      BY <1>3, <1>8 DEF n
    <3>3. DOMAIN Arenas[running_pid] = 1..n
      BY <3>2
    <3>4. \A j \in 1..n : Arenas[running_pid][j] = Old(<<running_pid, j - 1>>)
      BY <3>2
    <3>5. \A j \in 1..n : Arenas'[running_pid][j] =
            IF j = i THEN page ELSE Arenas[running_pid][j]
      BY <3>1, <3>2, <3>4
    <3>6. Arenas[running_pid] = [j \in 1..n |-> Arenas[running_pid][j]]
      BY <3>2, <3>4
    <3>7. Arenas'[running_pid] = [j \in 1..n |-> Arenas'[running_pid][j]]
      BY <3>2
    <3> QED
      BY <3>3, <3>5, <3>6, <3>7
  <2>7. Arenas' = [Arenas EXCEPT ![running_pid] =
                     [Arenas[running_pid] EXCEPT ![i] = page]]
    BY <1>3, <1>7, <2>5, <2>6
  <2>8. Arenas' = [Arenas EXCEPT ![running_pid][i].data = d]
    BY <1>4, <2>4, <2>7
  <2> QED
    BY <1>3, <1>4, <2>2, <2>4, <2>8, Stores
<1>12. CASE bte[e] \notin SwapBlock
  <2>1. bte[e][1] # SWAP
    BY <1>2, <1>12, BackingIs
  <2>2. Old(e) = [kind |-> "file", block |-> bte[e]] /\ New(e) = Old(e)
    BY <1>1, <2>1 DEF PageOf
  <2>3. \A p \in Staying : Arenas'[p] = Arenas[p]
    <3> TAKE p \in Staying
    <3>1. \A j \in 1..next[p] : New(<<p, j - 1>>) = Old(<<p, j - 1>>)
      BY <1>6, <1>8, <2>2
    <3> HIDE DEF Old, New
    <3> QED
      BY <1>8, <3>1
  <2>4. Arenas' = Arenas
    BY <1>7, <2>3
  <2>5. Files' = [Files EXCEPT ![bte[e]] = d]
    BY <1>2, <1>10, FilesAre
  <2>6. Arenas[Current][i].kind # "swap" /\ Arenas[Current][i].block = bte[e]
    BY <1>3, <1>4, <2>2
  <2> QED
    BY <1>3, <1>4, <2>4, <2>5, <2>6, Stores
<1> QED
  BY <1>11, <1>12

\* What the running process reads in a page is what VirtualMemory says it holds.
LEMMA ReadsContent ==
  ASSUME OInv, call.op \notin {"none", "exit"}, NEW v \in Vpage, Permits(v, FALSE)
  PROVE  /\ Mine(v) \in Live
         /\ Memory!Content(Current, v + 1) = phys[pte[Mine(v)].ppage]
<1> DEFINE e    == Mine(v)
           page == PageOf(pte, phys, disk, bte, e)
<1>1. e \in Live
  BY PermittedLive
<1>2. Sound(PhysMem, pte, MappedBlocks, bte, Live) /\ bte[e] \in Backing
  BY <1>1, InvSound, LivePage
<1>3. pte[e].ppage # Absent
  <2>1. pte[e].ppage = Absent => pte[e] = NullEntry
    BY <1>1, <1>2, NamedFrame
  <2>2. pte[e].read_enable
    BY DEF Permits
  <2> QED
    BY <2>1, <2>2, EntriesAre
<1>4. Reads(pte, phys, disk, bte, e) = phys[pte[e].ppage]
  BY <1>3 DEF Reads
<1>5. Current = running_pid
  BY CallerStays
<1>6. Arenas[Current][v + 1] = page
  BY <1>1, <1>5, PageAt
<1>7. Memory!Content(Current, v + 1) =
        IF page.kind = "swap" THEN page.data ELSE Files[page.block]
  <2>1. Memory!Content(Current, v + 1) =
          IF Arenas[Current][v + 1].kind = "swap" THEN Arenas[Current][v + 1].data
          ELSE Files[Arenas[Current][v + 1].block]
    BY DEF Memory!Content, Arenas, Staying, Files
  <2> HIDE DEF page
  <2> QED
    BY <1>6, <2>1
<1>8. CASE bte[e][1] = SWAP
  BY <1>1, <1>4, <1>7, <1>8 DEF PageOf
<1>9. CASE bte[e][1] # SWAP
  <2>1. bte[e] \in FileBlock /\ bte[e] \notin SwapBlock
    BY <1>2, <1>9, BackingIs DEF Backing
  <2>2. Memory!Content(Current, v + 1) = Files[bte[e]]
    BY <1>7, <1>9 DEF PageOf
  <2>3. Files[bte[e]] = Stored(PhysMem, phys, disk, bte[e])
    BY <2>1, FilesAre
  <2>4. Reads(pte, phys, disk, bte, e) = Stored(PhysMem, phys, disk, bte[e])
    BY <1>1, <1>2, <2>1, PageReads
  <2> QED
    BY <1>1, <1>4, <2>2, <2>3, <2>4
<1> QED
  BY <1>8, <1>9

\* The mapped page has its place at the end of the arena of the process that
\* runs, before the step and after it.
LEMMA GrownBy ==
  ASSUME OInv, Grow, call.op \notin {"none", "exit"}, call'.op \notin {"none", "exit"}
  PROVE  /\ Staying' = Staying /\ Current' = Current /\ Current = running_pid
         /\ running_pid \in Staying /\ running_pid \in DOMAIN Arenas
         /\ Len(Arenas[running_pid]) = next[running_pid]
         /\ next[running_pid] \in 0..NPages
         /\ next'[running_pid] = next[running_pid] + 1
         /\ \A p \in Staying \ {running_pid} : next'[p] = next[p]
<1>1. /\ Current = running_pid /\ running_pid \in Staying /\ running_pid \in DOMAIN Arenas
      /\ Staying = DOMAIN next
  BY CallerStays
<1>2. running_pid' = running_pid /\ next' = [next EXCEPT ![running_pid] = @ + 1]
  BY DEF Grow
<1>3. Staying' = Staying /\ Current' = Current
  BY <1>1, <1>2 DEF Staying, Current
<1> QED
  BY <1>1, <1>2, <1>3, ArenaIs, StayingPages

LEMMA MapFileMaps ==
  ASSUME OInv, OInv', NEW v \in Vpage, NEW b \in FBlock, MapFile(v, b)
  PROVE  Memory!Next
<1> DEFINE d    == phys[pte[Mine(v)].ppage]
           page == [kind |-> "file", block |-> <<NameOf[d], b>>]
<1>1. /\ PagesSame /\ FilesSame
      /\ bte'[NewEntry] = <<NameOf[d], b>> /\ bte'[NewEntry] \in FileBlock
  BY MapFileSame
<1>2. /\ Reading(v, b) /\ Permits(v, FALSE) /\ d \notin Spill /\ Grow /\ call' = Run
  BY DEF MapFile
<1>3. call.op \in {"run", "string"} /\ next[running_pid] # NPages /\ call'.op = "run"
  <2>1. v \in 0..NPages
    BY OopAssumption DEF Vpage
  <2>2. Run.op = "run"
    BY <2>1, CallsAre
  <2> QED
    BY <1>2, <2>2, ReadingRoom
<1>4. /\ Staying' = Staying /\ Current' = Current /\ Current = running_pid
      /\ running_pid \in Staying /\ running_pid \in DOMAIN Arenas
      /\ Len(Arenas[running_pid]) = next[running_pid] /\ next[running_pid] \in 0..NPages
      /\ next'[running_pid] = next[running_pid] + 1
      /\ \A p \in Staying \ {running_pid} : next'[p] = next[p]
  BY <1>2, <1>3, GrownBy
<1>5. PageOf(pte', phys', disk', bte', NewEntry) = page
  <2>1. bte'[NewEntry][1] # SWAP
    BY <1>1, BackingIs DEF Backing
  <2> QED
    BY <1>1, <2>1 DEF PageOf
<1>6. Arenas' = [Arenas EXCEPT ![running_pid] = Append(@, page)]
  BY <1>1, <1>4, <1>5, ArenaGrows
<1>7. Mine(v) \in Live /\ Memory!Content(Current, v + 1) = d
  BY <1>2, <1>3, ReadsContent
<1>8. v + 1 \in 1..NPages /\ v + 1 <= Len(Arenas[running_pid])
  BY <1>3, <1>7, PageAt
<1>9. Len(Arenas[running_pid]) < NPages
  BY <1>3, <1>4, OopAssumption
<1>10. Files' = Files
  BY <1>1, FilesKept
<1> HIDE DEF d
<1> QED
  BY <1>2, <1>4, <1>6, <1>7, <1>8, <1>9, <1>10, ExtendsFile

LEMMA MapSwapMaps ==
  ASSUME OInv, OInv', ZeroKept, MapSwap
  PROVE  Memory!Next
<1> DEFINE page == [kind |-> "swap", data |-> Zero]
<1>1. /\ PagesSame /\ FilesSame
      /\ bte'[NewEntry] = <<SWAP, FirstFreeSwap>> /\ pte'[NewEntry].ppage = 0
      /\ phys'[0] = Zero
  BY MapSwapSame DEF ZeroKept
<1>2. /\ call.op = "run" /\ call' = call /\ Grow
      /\ next[running_pid] # NPages /\ FirstFreeSwap # BlCnt
  BY DEF MapSwap, Idle
<1>3. /\ Staying' = Staying /\ Current' = Current /\ Current = running_pid
      /\ running_pid \in Staying /\ running_pid \in DOMAIN Arenas
      /\ Len(Arenas[running_pid]) = next[running_pid] /\ next[running_pid] \in 0..NPages
      /\ next'[running_pid] = next[running_pid] + 1
      /\ \A p \in Staying \ {running_pid} : next'[p] = next[p]
  BY <1>2, GrownBy
<1>4. PageOf(pte', phys', disk', bte', NewEntry) = page
  BY <1>1, FrameIs DEF PageOf, Reads
<1>5. Arenas' = [Arenas EXCEPT ![running_pid] = Append(@, page)]
  BY <1>1, <1>3, <1>4, ArenaGrows
<1>6. Len(Arenas[running_pid]) < NPages
  BY <1>2, <1>3, OopAssumption
<1>7. Cardinality(Memory!SwapPages) < BlCnt
  <2>1. FirstFreeSwap \in Block /\ MappedBlocks[<<SWAP, FirstFreeSwap>>] = {}
    BY <1>2, SpareSwap
  <2> QED
    BY <2>1, SpareBlock
<1>8. Files' = Files
  BY <1>1, FilesKept
<1> QED
  BY <1>3, <1>5, <1>6, <1>7, <1>8, ExtendsSwap

LEMMA DestroyMaps ==
  ASSUME OInv, OInv', NEW v \in 0..NPages, DestroyPage(v) \/ DestroyTable(v)
  PROVE  [Memory!Next]_(Memory!vars)
<1>1. PICK b : b \in FBlock
  BY OopAssumption
<1>2. Exiting(v)
  BY DEF DestroyPage, DestroyTable
<1>3. /\ call.op \in {"run", "exit"} /\ None.op = "none"
      /\ \A o \in 0..NPages : Exit(o).op = "exit"
  <2>1. Exit(v).op = "exit" /\ None.op = "none" /\ \A o \in 0..NPages : Exit(o).op = "exit"
    BY <1>1, CallsAre
  <2> QED
    BY <1>2, <2>1 DEF Exiting, Idle
<1>4. /\ running_pid \in DOMAIN next
      /\ Current = IF call.op = "exit" THEN NoPid ELSE running_pid
      /\ next[running_pid] \in 0..NPages
  BY <1>3 DEF Current, OInv, TypeOK
<1>5. CASE DestroyPage(v)
  <2>1. PagesSame /\ FilesSame
    BY <1>5, DestroyPageSame
  <2>2. UNCHANGED <<running_pid, next>> /\ call'.op = "exit"
    <3>1. v < next[running_pid] /\ call' = Exit(v + 1) /\ UNCHANGED proc
      BY <1>5 DEF DestroyPage
    <3>2. v + 1 \in 0..NPages
      BY <1>4, <3>1, OopAssumption
    <3> QED
      BY <1>3, <3>1, <3>2 DEF proc
  <2>3. CASE call.op = "run"
    <3>1. Staying = DOMAIN next /\ Staying' = DOMAIN next \ {running_pid}
      BY <2>2, <2>3 DEF Staying
    <3>2. Current = running_pid /\ Current' = NoPid
      BY <1>4, <2>2, <2>3 DEF Current
    <3> QED
      BY <1>4, <2>1, <2>2, <3>1, <3>2, NothingMapped
  <2>4. CASE call.op = "exit"
    <3>1. Staying' = Staying /\ Current' = Current
      BY <2>2, <2>4 DEF Staying, Current
    <3> QED
      BY <2>1, <2>2, <3>1, NothingMapped
  <2> QED
    BY <1>3, <2>3, <2>4
<1>6. CASE DestroyTable(v)
  <2>1. PagesSame /\ FilesSame
    BY <1>6, DestroyTableSame
  <2>2. /\ next' = [p \in DOMAIN next \ {running_pid} |-> next[p]]
        /\ call'.op = "none"
    BY <1>3, <1>6 DEF DestroyTable
  <2>3. /\ Staying' = DOMAIN next \ {running_pid} /\ Current' = NoPid
        /\ \A p \in Staying' : next'[p] = next[p]
    BY <2>2 DEF Staying, Current
  <2>4. CASE call.op = "run"
    BY <1>4, <2>1, <2>3, <2>4, NothingMapped DEF Staying
  <2>5. CASE call.op = "exit"
    BY <1>4, <2>1, <2>3, <2>5, NothingMapped DEF Staying
  <2> QED
    BY <1>3, <2>4, <2>5
<1> QED
  BY <1>5, <1>6

LEMMA SwitchMaps ==
  ASSUME OInv, OInv', NEW p \in Pid, vm_switch(p)
  PROVE  Memory!Next
<1>1. PagesSame /\ FilesSame
  BY QuietSame DEF vm_switch
<1>2. Run.op = "run"
  <2>1. PICK b : b \in FBlock
    BY OopAssumption
  <2>2. 0 \in 0..NPages /\ FALSE \in BOOLEAN
    BY OopAssumption
  <2> QED
    BY <2>1, <2>2, CallsAre
<1>3. /\ call.op \in {"run", "none"} /\ call'.op = "run"
      /\ p \in DOMAIN next /\ running_pid' = p /\ next' = next
  BY <1>2 DEF vm_switch, Kernel
<1>4. Staying = DOMAIN next /\ Staying' = Staying /\ Current' = p
  BY <1>3 DEF Staying, Current
<1>5. Arenas' = [q \in Staying' |-> Arenas[q]] /\ Files' = Files
  BY <1>1, <1>3, <1>4, ArenasKeep
<1>6. DOMAIN Arenas = Staying /\ Arenas = [q \in Staying |-> Arenas[q]]
  BY ArenasAre DEF ArenasOf
<1> QED
  BY <1>3, <1>4, <1>5, <1>6, Switches

\* A child starts with an empty arena.
LEMMA CreateMaps ==
  ASSUME OInv, OInv', NEW child \in Pid, vm_create(child)
  PROVE  Memory!Next
<1>1. PagesSame /\ FilesSame
  BY QuietSame DEF vm_create
<1>2. /\ UNCHANGED <<running_pid, call>> /\ Kernel /\ child \notin DOMAIN next
      /\ DOMAIN next' = DOMAIN next \cup {child} /\ next'[child] = 0
      /\ \A p \in DOMAIN next : next'[p] = next[p]
  BY DEF vm_create
<1>3. Staying = DOMAIN next /\ Staying' = Staying \cup {child} /\ Current' = Current
  BY <1>2 DEF Staying, Current, Kernel
<1>4. DOMAIN Arenas = Staying /\ Arenas' = [p \in Staying' |-> Arenas'[p]]
  BY ArenasAre DEF ArenasOf
<1>5. \A p \in Staying : Arenas'[p] = Arenas[p]
  BY <1>1, <1>2, <1>3, ArenaKept
<1>6. Arenas'[child] = <<>>
  <2>1. Arenas'[child] = [i \in 1..0 |-> PageOf(pte', phys', disk', bte', <<child, i - 1>>)]
    BY <1>2, <1>3, ArenasAre DEF ArenasOf
  <2> QED
    BY <2>1
<1>7. Arenas' = [p \in DOMAIN Arenas \cup {child} |->
                   IF p # child THEN Arenas[p] ELSE <<>>]
  BY <1>2, <1>3, <1>4, <1>5, <1>6
<1>8. Files' = Files
  BY <1>1, FilesKept
<1>9. child \notin DOMAIN Arenas /\ NoPid \notin DOMAIN Arenas
  BY <1>2, <1>3, <1>4, OopAssumption DEF OInv, TypeOK
<1> QED
  BY <1>3, <1>7, <1>8, <1>9, Creates

LEMMA AccessMaps ==
  ASSUME OInv, OInv', Access \/ Name
  PROVE  [Memory!Next]_(Memory!vars)
<1>1. call.op \notin {"none", "exit"}
  BY InCall
<1>2. PICK c : c \in FBlock
  BY OopAssumption
<1>3. \A v \in Vpage : v \in 0..NPages /\ v + 1 \in 0..NPages
  BY OopAssumption DEF Vpage
<1>4. /\ 0 \in 0..NPages
      /\ \A v \in 0..NPages, w \in BOOLEAN, b \in FBlock :
           /\ Run.op = "run" /\ Exit(v).op = "exit"
           /\ Retry(v, w).op = "retry" /\ Str(v, b).op = "string"
  BY CallsAre, OopAssumption
<1>5. Run.op = "run" /\ Exit(0).op = "exit"
  BY <1>2, <1>4
<1>6. ASSUME NEW v \in Vpage, NEW w \in BOOLEAN, AppFault(v, w)
      PROVE  [Memory!Next]_(Memory!vars)
  <2>1. Retry(v, w).op # "none" /\ Exit(0).op # "none"
    BY <1>2, <1>3, <1>4, <1>5
  <2> QED
    BY <1>1, <1>6, <2>1, FaultMaps DEF AppFault
<1>7. CASE \E v \in Vpage, d \in Data : Store(v, d)
  BY <1>7, StoreMaps
<1>8. ASSUME UNCHANGED <<proc, tables, frames, space, data>>, call'.op # "none"
      PROVE  [Memory!Next]_(Memory!vars)
  BY <1>1, <1>8, QuietSame, CallMaps DEF proc
<1>9. CASE \E v \in Vpage : Reload(v)
  BY <1>5, <1>8, <1>9 DEF Reload
<1>10. ASSUME NEW v \in Vpage, NEW b \in FBlock, NameFault(v, b)
       PROVE  [Memory!Next]_(Memory!vars)
  <2>1. Str(v, b).op # "none" /\ Run.op # "none"
    BY <1>3, <1>4, <1>5
  <2>2. vm_fault(v, FALSE, Str(v, b), Run)
    BY <1>10 DEF NameFault
  <2> QED
    BY <1>1, <2>1, <2>2, FaultMaps
<1>11. ASSUME NEW v \in Vpage, NEW b \in FBlock, NameSpills(v, b)
       PROVE  [Memory!Next]_(Memory!vars)
  <2>1. Str(v + 1, b).op # "none"
    BY <1>3, <1>4
  <2> QED
    BY <1>8, <1>11, <2>1 DEF NameSpills
<1> QED
  BY <1>6, <1>7, <1>9, <1>10, <1>11, MapFileMaps DEF Access, Name

LEMMA InitMaps ==
  ASSUME Init
  PROVE  Memory!Init
<1>1. /\ next = <<>> /\ call.op = "none" /\ phys \in [Ppage -> Data]
      /\ disk \in [Backing -> Data]
  BY InvAtFirst, OopAssumption, CallsAre DEF Init, OInv, TypeOK
<1>2. Arenas = <<>>
  <2>1. Staying = {}
    BY <1>1 DEF Staying
  <2>2. DOMAIN Arenas = {} /\ Arenas = [p \in {} |-> Arenas[p]]
    BY <2>1, ArenasAre DEF ArenasOf
  <2> QED
    BY <2>2
<1>3. Current = NoPid
  BY <1>1 DEF Current
<1>4. Files \in [FileBlock -> Data]
  <2>1. \A f \in FileBlock : Stored(PhysMem, phys, disk, f) \in Data
    <3> TAKE f \in FileBlock
    <3> DEFINE held == {p \in Frame : PhysMem[p].loc = f}
    <3>1. held # {} => (CHOOSE p \in held : TRUE) \in Frame
      OBVIOUS
    <3>2. f \in Backing /\ \A p \in Frame : p \in Ppage
      BY FrameIs DEF Backing
    <3> QED
      BY <1>1, <3>1, <3>2 DEF Stored
  <2> QED
    BY <2>1, FilesAre
<1> QED
  BY <1>2, <1>3, <1>4 DEF Memory!Init, Arenas, Staying, Current, Files, FileBlock

LEMMA NextMaps ==
  ASSUME OInv, OInv', ZeroKept, [Next]_vars
  PROVE  [Memory!Next]_(Memory!vars)
<1>1. CASE Access \/ Name
  BY <1>1, AccessMaps
<1>2. CASE MapSwap
  BY <1>2, MapSwapMaps
<1>3. CASE vm_destroy
  BY <1>3, DestroyMaps DEF vm_destroy
<1>4. CASE \E p \in Pid : vm_create(p) \/ vm_switch(p)
  BY <1>4, CreateMaps, SwitchMaps
<1>5. CASE UNCHANGED vars
  <2>1. UNCHANGED <<tables, frames, data>> /\ UNCHANGED <<running_pid, next, call>>
    BY <1>5 DEF vars, proc
  <2>2. PagesSame /\ FilesSame
    BY <2>1, QuietSame
  <2>3. Staying' = Staying /\ Current' = Current /\ \A p \in Staying' : next'[p] = next[p]
    BY <2>1 DEF Staying, Current
  <2> QED
    BY <2>2, <2>3, NothingMapped
<1> QED
  BY <1>1, <1>2, <1>3, <1>4, <1>5 DEF Next

\* The second pager implements the arenas of VirtualMemory: whatever is faulted,
\* copied, evicted and written back, every process sees its own pages as it left
\* them, and a file block the same wherever it is mapped.
THEOREM OopArenasImplemented == Spec => ArenasKept
<1>1. Init => Memory!Init
  BY InitMaps
<1>2. OInv /\ OInv' /\ ZeroKept /\ [Next]_vars => [Memory!Next]_(Memory!vars)
  BY NextMaps
<1> QED
  BY <1>1, <1>2, OopInvariance, ZeroInvariance, PTL DEF Spec, ArenasKept, Memory!Spec
=============================================================================
