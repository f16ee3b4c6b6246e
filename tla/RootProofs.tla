----------------------------- MODULE RootProofs -----------------------------
(***************************************************************************)
(* What is proved of src/src/vm_pager.cpp holds of the root copy as well:  *)
(* a write-back that fails keeps types, clock, records and reservations,   *)
(* and the loop of vm_create, a page a step, does what Pager's single step *)
(* says of it.                                                             *)
(***************************************************************************)
EXTENDS PagerProofs, RootPager

-----------------------------------------------------------------------------
(* A write that fails.                                                     *)

\* What a failed write does to the frames is well-typed, and moves no page.
LEMMA AllocFailsKeeps ==
  ASSUME IInv, NEW ps \in [Frame -> Ppb], NEW entries \in [Pte -> Entry],
         \A l \in Pte : entries[l].ppage = pt[l].ppage,
         AllocFails(ps, entries), UNCHANGED <<proc, space, contents>>
  PROVE  Keeps /\ FaultLeaves
<1> DEFINE n == Victim(ps)
<1>1. /\ clock_q' = AllocClock(ps)
      /\ free_ppage' = Append(free_ppage, n)
      /\ psuff' = [AllocPsuff(ps) EXCEPT ![n].ref = FALSE]
      /\ pt' = [l \in Pte |-> IF \E p \in Passed(ps) : l \in core[p]
                              THEN Revoked(entries[l]) ELSE entries[l]]
      /\ UNCHANGED <<ghost, core, infile, filemap>>
  BY DEF AllocFails
<1>2. FramesOK /\ MappingOK /\ ContentsOK /\ ClockComplete
  BY DEF IInv, TypeOK
<1>3. /\ n \in Frame
      /\ AllocClock(ps) \in Seq(Frame)
      /\ IsInjective(AllocClock(ps)) /\ Range(AllocClock(ps)) = Frame
      /\ AllocPsuff(ps) \in [Frame -> Ppb]
  BY <1>2, AllocFrames, VictimIsFrame
<1> HIDE DEF n
<1>4. FramesOK'
  <2>1. free_ppage' \in Seq(Frame)
    BY <1>1, <1>2, <1>3, AppendProperties DEF FramesOK
  <2>2. psuff' \in [Frame -> Ppb]
    BY <1>1, <1>3 DEF Ppb
  <2> QED
    BY <1>1, <1>2, <1>3, <2>1, <2>2 DEF FramesOK, Maps
<1>5. \A l \in Pte : pt'[l] \in Entry /\ pt'[l].ppage = pt[l].ppage
  <2>1. SUFFICES ASSUME NEW l \in Pte
                 PROVE  pt'[l] \in Entry /\ pt'[l].ppage = pt[l].ppage
    OBVIOUS
  <2>2. entries[l] \in Entry /\ entries[l].ppage = pt[l].ppage
    OBVIOUS
  <2>3. Revoked(entries[l]) \in Entry /\ Revoked(entries[l]).ppage = pt[l].ppage
    BY <2>2 DEF Revoked, Entry
  <2>4. pt'[l] = Revoked(entries[l]) \/ pt'[l] = entries[l]
    BY <1>1
  <2> QED
    BY <2>2, <2>3, <2>4
<1>6. MappingOK'
  <2>1. pt' \in [Pte -> Entry]
    BY <1>1, <1>5
  <2> QED
    BY <1>1, <1>2, <2>1 DEF MappingOK, Maps
<1>7. SameRecords(infile')
  BY <1>1, <1>2, SameItself
<1>8. FaultLeaves
  <2>1. \A l \in DOMAIN infile : l \in Pte
    BY <1>2, RecordType
  <2> QED
    BY <1>1, <1>5, <2>1 DEF FaultLeaves
<1> QED
  BY <1>1, <1>2, <1>3, <1>4, <1>6, <1>7, <1>8
  DEF Keeps, proc, space, contents, ContentsOK, ClockComplete

\* Where a fault stands when its alloc fails.
LEMMA FaultFails ==
  ASSUME IInv, NEW e \in DOMAIN infile, LoadWriteFails(e) \/ CowWriteFails(e),
         UNCHANGED <<proc, space, contents>>
  PROVE  Keeps /\ FaultLeaves
<1>1. /\ psuff \in [Frame -> Ppb] /\ pt \in [Pte -> Entry]
      /\ e \in Pte
  BY RecordType DEF IInv, TypeOK, FramesOK, MappingOK
<1>2. CASE LoadWriteFails(e)
  BY <1>1, <1>2, AllocFailsKeeps DEF LoadWriteFails
<1>3. CASE CowWriteFails(e)
  <2> DEFINE p    == pt[e].ppage
             seen == [pt EXCEPT ![e].read_enable = TRUE]
             kept == [seen EXCEPT ![e].write_enable = @ \/ psuff[p].dirty]
             ps   == [psuff EXCEPT ![p].ref = TRUE]
  <2>1. IF p = pinned THEN AllocFails(psuff, seen) ELSE AllocFails(ps, kept)
    BY <1>3 DEF CowWriteFails
  <2>2. pt[e] \in Entry /\ p \in Ppage
    BY <1>1 DEF Entry
  <2>3. seen \in [Pte -> Entry] /\ \A l \in Pte : seen[l].ppage = pt[l].ppage
    BY <1>1, <2>2 DEF Entry
  <2>4. CASE p = pinned
    BY <1>1, <2>1, <2>3, <2>4, AllocFailsKeeps
  <2>5. CASE p # pinned
    <3>1. p \in Frame
      BY <2>2, <2>5 DEF Frame
    <3>2. psuff[p] \in Ppb
      BY <1>1, <3>1
    <3>3. ps \in [Frame -> Ppb]
      BY <1>1, <3>1, <3>2 DEF Ppb
    <3>4. psuff[p].dirty \in BOOLEAN
      BY <3>2 DEF Ppb
    <3> HIDE DEF seen, p
    <3>5. kept \in [Pte -> Entry] /\ \A l \in Pte : kept[l].ppage = pt[l].ppage
      <4>1. seen[e] \in Entry
        BY <1>1, <2>3
      <4> QED
        BY <1>1, <2>3, <3>4, <4>1 DEF Entry
    <3> HIDE DEF kept, ps
    <3> QED
      BY <2>1, <2>5, <3>3, <3>5, AllocFailsKeeps
  <2> QED
    BY <2>4, <2>5
<1> QED
  BY <1>2, <1>3

LEMMA WriteFailsStep ==
  ASSUME IInv, SwapReserved, WriteFails
  PROVE  IInv' /\ SwapReserved'
<1>1. PICK v \in 0..(bound - 1) :
        /\ Recorded(Mine(v))
        /\ (\E w \in BOOLEAN : AccessFails(v, w)) \/ \E b \in FBlock : NameFails(v, b)
  BY DEF WriteFails
<1>2. UNCHANGED <<proc, space, contents>>
  BY DEF WriteFails
<1>3. bound \in 0..NPages
  BY DEF IInv, TypeOK, ProcOK
<1>4. v \in 0..NPages /\ 0 \in 0..NPages
  BY <1>3, SizeAssumption, PCntAssumption
<1>5. Mine(v) \in DOMAIN infile
  BY <1>1 DEF Recorded
<1>6. LoadWriteFails(Mine(v)) \/ CowWriteFails(Mine(v))
  BY <1>1 DEF AccessFails, NameFails
<1>7. Keeps /\ FaultLeaves
  BY <1>2, <1>5, <1>6, FaultFails
<1>8. /\ call.op \notin {"none", "exit"}
      /\ call' \in {Exit(0), Run}
  <2>1. ASSUME NEW w \in BOOLEAN, AccessFails(v, w)
        PROVE  call.op \in {"run", "retry"} /\ call' = Exit(0)
    <3>1. Retry(v, w).op = "retry"
      BY DEF Retry, Run
    <3> QED
      BY <2>1, <3>1 DEF AccessFails, Idle
  <2>2. ASSUME NEW b \in FBlock, NameFails(v, b)
        PROVE  call.op \in {"run", "string"} /\ call' = Run
    <3>1. Str(v, b).op = "string"
      BY DEF Str, Run
    <3> QED
      BY <2>2, <3>1 DEF NameFails, Reading, Idle
  <2> QED
    BY <1>1, <2>1, <2>2
<1>9. /\ call' \in Call /\ call'.op \in {"run", "exit"}
      /\ call'.op = "exit" => call'.vp = 0
  <2>1. FBlock # {}
    BY DataAssumption
  <2>2. PICK b \in FBlock : TRUE
    BY <2>1
  <2>3. /\ Run \in Call /\ Run.op = "run"
        /\ Exit(0) \in Call /\ Exit(0).op = "exit" /\ Exit(0).vp = 0
    BY <1>4, CallsOK
  <2> QED
    BY <1>8, <2>3
<1>10. IInv'
  BY <1>7, <1>8, <1>9, ServiceStep
<1>11. SwapReserved'
  BY <1>7, SameRecordsReserve DEF Keeps
<1> QED
  BY <1>10, <1>11

-----------------------------------------------------------------------------
(* vm_create a page a step.  The maps kept in fork are those that Pager's  *)
(* vm_create gives a child that is only k pages long.                      *)

Protected(entry)   == [entry EXCEPT !.write_enable = FALSE]
InBlock(record, b) == [record EXCEPT !.block = b]

Born(child, k) == {child} \X (0..(k - 1))

Copy(parent, e) ==
  LET model == infile[<<parent, e[2]>>]
  IN  IF model.ftype = "FILE_B" THEN model
      ELSE [model EXCEPT !.block = free_block[SwapBefore(parent, e[2]) + 1]]

CopiesOf(parent, child, k, type, block) ==
  {e \in Born(child, k) : /\ Copy(parent, e).ftype = type
                          /\ Copy(parent, e).block = block}

ForkedInfile(parent, child, k) ==
  [e \in DOMAIN infile \cup Born(child, k) |->
     IF e \in Born(child, k) THEN Copy(parent, e) ELSE infile[e]]

ForkedSwfile(parent, child, k) ==
  [b \in Block |-> swfile[b] \cup CopiesOf(parent, child, k, "SWAP", b)]

ForkedFilemap(parent, child, k) ==
  [f \in DOMAIN filemap \cup
         {Copy(parent, e).block :
            e \in {d \in Born(child, k) : Copy(parent, d).ftype = "FILE_B"}} |->
     Listing(filemap, f, CopiesOf(parent, child, k, "FILE_B", f))]

ForkedFree(parent, k) ==
  SubSeq(free_block, SwapBefore(parent, k) + 1, Len(free_block))

ForkedCount(parent, k) == (eblcnt - SwapBefore(parent, k)) % Word

ForkedCore(parent, child, k) ==
  [p \in Ppage |->
     core[p] \cup {e \in Born(child, k) : pt[<<parent, e[2]>>].ppage = p}]

ForkedPt(parent, child, k) ==
  [e \in Pte |->
     IF e \in Born(child, k)
     THEN [pt[<<parent, e[2]>>] EXCEPT !.write_enable = FALSE]
     ELSE IF e[1] = parent /\ e[2] < k
          THEN [pt[e] EXCEPT !.write_enable = FALSE]
     ELSE pt[e]]

\* The guard of vm_create.
MayFork(parent, child) ==
  /\ Kernel
  /\ parent = NoPid \/ (Idle /\ parent = curr_pid)
  /\ child \notin DOMAIN all_pt
  /\ ParentNumsw(parent) <= Len(free_block)

\* What the loop of vm_create has made of the maps when it comes to page f.vp.
ForkAt(f) ==
  /\ DOMAIN f = {"parent", "child", "vp", "infile", "filemap", "swfile",
                 "free_block", "eblcnt", "core", "pt"}
  /\ f.parent \in Pid \cup {NoPid} /\ f.child \in Pid
  /\ MayFork(f.parent, f.child)
  /\ f.vp \in 0..ParentSize(f.parent)
  /\ f.infile = ForkedInfile(f.parent, f.child, f.vp)
  /\ f.filemap = ForkedFilemap(f.parent, f.child, f.vp)
  /\ f.swfile = ForkedSwfile(f.parent, f.child, f.vp)
  /\ f.free_block = ForkedFree(f.parent, f.vp)
  /\ f.eblcnt = ForkedCount(f.parent, f.vp)
  /\ f.core = ForkedCore(f.parent, f.child, f.vp)
  /\ f.pt = ForkedPt(f.parent, f.child, f.vp)

\* The loop invariant of vm_create.
ForkOK == fork # NoFork => ForkAt(fork)

\* The kernel waits: the maps that a fork started from are still the pager's.
LEMMA KernelWaits ==
  ASSUME UNCHANGED vars
  PROVE  ForkOK' <=> (fork' # NoFork => ForkAt(fork'))
BY DEF ForkOK, ForkAt, vars, proc, space, frames, mapping, MayFork, Kernel, Idle,
       ParentNumsw, ParentSize, ForkedInfile, ForkedSwfile, ForkedFilemap,
       ForkedFree, ForkedCount, ForkedCore, ForkedPt, CopiesOf, Copy, Listing,
       SwapBefore

\* Before the first page nothing is changed.
LEMMA ForkedNothing ==
  ASSUME IInv, NEW parent, NEW child
  PROVE  /\ ForkedInfile(parent, child, 0) = infile
         /\ ForkedSwfile(parent, child, 0) = swfile
         /\ ForkedFilemap(parent, child, 0) = filemap
         /\ ForkedFree(parent, 0) = free_block
         /\ ForkedCount(parent, 0) = eblcnt
         /\ ForkedCore(parent, child, 0) = core
         /\ ForkedPt(parent, child, 0) = pt
<1>1. Born(child, 0) = {}
  BY DEF Born
<1>2. SwapBefore(parent, 0) = 0
  <2>1. {i \in 0..(0 - 1) : infile[<<parent, i>>].ftype = "SWAP"} = {}
    OBVIOUS
  <2> QED
    BY <2>1, FS_EmptySet DEF SwapBefore
<1>3. /\ Maps(infile, Pte, Infile) /\ Maps(filemap, FileBlock, Fbp)
      /\ pt \in [Pte -> Entry]
      /\ swfile \in [Block -> SUBSET Pte]
      /\ free_block \in Seq(Block)
      /\ eblcnt \in 0..(Word - 1)
      /\ core \in [Ppage -> SUBSET Pte]
  BY DEF IInv, TypeOK, MappingOK, SpaceOK, FramesOK
<1>4. \A type, b : CopiesOf(parent, child, 0, type, b) = {}
  BY <1>1 DEF CopiesOf
<1>5. ForkedInfile(parent, child, 0) = infile
  BY <1>1, <1>3 DEF ForkedInfile, Maps
<1>6. ForkedSwfile(parent, child, 0) = swfile
  BY <1>3, <1>4 DEF ForkedSwfile
<1>7. ForkedFilemap(parent, child, 0) = filemap
  <2>1. ASSUME NEW f \in DOMAIN filemap
        PROVE  Listing(filemap, f, {}) = filemap[f]
    <3>1. filemap[f] \in Fbp
      BY <1>3 DEF Maps
    <3> QED
      BY <3>1 DEF Listing, Fbp
  <2>2. {Copy(parent, e).block :
            e \in {d \in Born(child, 0) : Copy(parent, d).ftype = "FILE_B"}} = {}
    BY <1>1
  <2> QED
    BY <1>3, <1>4, <2>1, <2>2 DEF ForkedFilemap, Maps
<1>8. ForkedFree(parent, 0) = free_block
  <2>1. Len(free_block) \in Nat /\ \A i \in 1..Len(free_block) : free_block[i] \in Block
    BY <1>3, LenProperties, ElementOfSeq
  <2> QED
    BY <1>2, <1>3, <2>1, SubSeqProperties, SeqEqual DEF ForkedFree
<1>9. ForkedCount(parent, 0) = eblcnt
  BY <1>2, <1>3, SizeAssumption, PCntAssumption DEF ForkedCount
<1>10. ForkedCore(parent, child, 0) = core
  BY <1>1, <1>3 DEF ForkedCore
<1>11. ForkedPt(parent, child, 0) = pt
  BY <1>1, <1>3 DEF ForkedPt, Pte, Vpage
<1> QED
  BY <1>5, <1>6, <1>7, <1>8, <1>9, <1>10, <1>11

\* The page after the first k: its entry, its record and the block it may get.
LEMMA NextPage ==
  ASSUME IInv, NEW parent \in Pid \cup {NoPid}, NEW child \in Pid,
         MayFork(parent, child), NEW k \in 0..(ParentSize(parent) - 1)
  PROVE  /\ parent \in Pid /\ parent # child /\ k \in Vpage
         /\ <<parent, k>> \in DOMAIN infile
         /\ infile[<<parent, k>>] \in Infile
         /\ pt[<<parent, k>>] \in Entry
         /\ <<child, k>> \in Pte /\ <<child, k>> \notin DOMAIN infile
         /\ Born(child, k + 1) = Born(child, k) \cup {<<child, k>>}
         /\ <<child, k>> \notin Born(child, k)
         /\ \A e \in Born(child, k) : e[1] = child
         /\ SwapBefore(parent, k) \in Nat
         /\ infile[<<parent, k>>].ftype = "SWAP" =>
              /\ SwapBefore(parent, k) + 1 \in 1..Len(free_block)
              /\ SwapBefore(parent, k + 1) = SwapBefore(parent, k) + 1
         /\ infile[<<parent, k>>].ftype = "FILE_B" =>
              SwapBefore(parent, k + 1) = SwapBefore(parent, k)
<1>1. /\ ParentSize(parent) \in 0..NPages
      /\ ParentNumsw(parent) \in Nat
      /\ \A i \in 0..(ParentSize(parent) - 1) :
           /\ parent \in DOMAIN all_pt /\ i \in Vpage
           /\ <<parent, i>> \in DOMAIN infile
      /\ ParentNumsw(parent) = Seats(infile, parent, ParentSize(parent))
  BY ParentPages DEF MayFork
<1>2. /\ parent \in DOMAIN all_pt /\ k \in Vpage
      /\ <<parent, k>> \in DOMAIN infile
  BY <1>1
<1>3. /\ parent \in Pid /\ parent # child
      /\ DOMAIN all_pt \subseteq Pid
      /\ \A e \in DOMAIN infile : e[1] \in DOMAIN all_pt
  BY <1>2 DEF MayFork, IInv, TypeOK, ProcOK, Maps, RecordsLive, Live
<1>4. infile[<<parent, k>>] \in Infile
  BY <1>2, RecordType DEF IInv, TypeOK
<1>5. /\ pt[<<parent, k>>] \in Entry /\ <<child, k>> \in Pte
  BY <1>2, <1>3 DEF IInv, TypeOK, MappingOK, Pte
<1>6. <<child, k>> \notin DOMAIN infile
  BY <1>3 DEF MayFork
<1>7. k \in Nat /\ ParentSize(parent) \in Nat
  BY <1>1, SizeAssumption, PCntAssumption
<1>8. /\ Born(child, k + 1) = Born(child, k) \cup {<<child, k>>}
      /\ <<child, k>> \notin Born(child, k)
      /\ \A e \in Born(child, k) : e[1] = child
  <2>1. 0..(k + 1 - 1) = (0..(k - 1)) \cup {k} /\ k \notin 0..(k - 1)
    BY <1>7
  <2> QED
    BY <2>1 DEF Born
<1>9. SwapBefore(parent, k) \in Nat
  BY <1>7, SwapBeforeSeats, SeatSetFinite
<1>10. SwapBefore(parent, k + 1)
         = SwapBefore(parent, k) + (IF infile[<<parent, k>>].ftype = "SWAP" THEN 1 ELSE 0)
  BY <1>7, SwapBeforeSeats, NextSeat
<1>11. ASSUME infile[<<parent, k>>].ftype = "SWAP"
       PROVE  SwapBefore(parent, k) + 1 \in 1..Len(free_block)
  <2>1. Seats(infile, parent, k) + 1 \in 1..ParentNumsw(parent)
    BY <1>1, <1>7, <1>11, SeatInRange
  <2>2. Len(free_block) \in Nat /\ ParentNumsw(parent) <= Len(free_block)
    BY LenProperties DEF IInv, TypeOK, SpaceOK, MayFork
  <2> QED
    BY <1>1, <2>1, <2>2, SwapBeforeSeats
<1> QED
  BY <1>2, <1>3, <1>4, <1>5, <1>6, <1>8, <1>9, <1>10, <1>11

\* One more page copied, whatever its kind.
LEMMA PageCopied ==
  ASSUME IInv, NEW parent \in Pid \cup {NoPid}, NEW child \in Pid,
         MayFork(parent, child), NEW k \in 0..(ParentSize(parent) - 1)
  PROVE  /\ ForkedInfile(parent, child, k + 1)
              = Put(ForkedInfile(parent, child, k), <<child, k>>,
                    Copy(parent, <<child, k>>))
         /\ ForkedInfile(parent, child, k)[<<parent, k>>] = infile[<<parent, k>>]
         /\ ForkedPt(parent, child, k)[<<parent, k>>] = pt[<<parent, k>>]
         /\ ForkedPt(parent, child, k + 1)
              = Shares(ForkedPt(parent, child, k), <<parent, k>>, <<child, k>>,
                     Protected(pt[<<parent, k>>]))
         /\ ForkedCore(parent, child, k + 1)
              = Inserted(ForkedCore(parent, child, k),
                       Protected(pt[<<parent, k>>]).ppage, <<child, k>>)
<1> DEFINE e     == <<parent, k>>
           c     == <<child, k>>
           entry == Protected(pt[e])
<1>1. /\ parent \in Pid /\ parent # child /\ k \in Vpage
      /\ e \in DOMAIN infile /\ pt[e] \in Entry
      /\ c \in Pte /\ c \notin DOMAIN infile
      /\ Born(child, k + 1) = Born(child, k) \cup {c}
      /\ c \notin Born(child, k)
      /\ \A l \in Born(child, k) : l[1] = child
  BY NextPage
<1>2. e \in Pte /\ e[1] = parent /\ e[2] = k /\ c[1] = child /\ c[2] = k /\ e # c
  BY <1>1 DEF Pte
<1>3. e \notin Born(child, k) /\ e \notin Born(child, k + 1)
  BY <1>1, <1>2
<1>4. k \in Int /\ ~(k < k)
  OBVIOUS
<1> HIDE DEF e, c
<1>5. /\ DOMAIN ForkedInfile(parent, child, k + 1)
           = DOMAIN ForkedInfile(parent, child, k) \cup {c}
      /\ \A l \in DOMAIN ForkedInfile(parent, child, k + 1) :
           ForkedInfile(parent, child, k + 1)[l]
             = IF l = c THEN Copy(parent, c) ELSE ForkedInfile(parent, child, k)[l]
  BY <1>1 DEF ForkedInfile
<1>6. ForkedInfile(parent, child, k + 1)
        = Put(ForkedInfile(parent, child, k), c, Copy(parent, c))
  BY <1>1, <1>5 DEF Put, ForkedInfile
<1>7. ForkedInfile(parent, child, k)[e] = infile[e]
  BY <1>1, <1>3 DEF ForkedInfile
<1>8. ForkedPt(parent, child, k)[e] = pt[e]
  BY <1>2, <1>3, <1>4 DEF ForkedPt
<1>9. ForkedPt(parent, child, k + 1)
        = Shares(ForkedPt(parent, child, k), e, c, entry)
  <2>1. ASSUME NEW l \in Pte
        PROVE  ForkedPt(parent, child, k + 1)[l]
                 = IF l = c \/ l = e THEN entry ELSE ForkedPt(parent, child, k)[l]
    <3>1. l[2] \in Int /\ l = <<l[1], l[2]>>
      BY DEF Pte, Vpage
    <3>2. CASE l = c
      BY <1>1, <1>2, <3>2 DEF ForkedPt, Protected, e
    <3>3. CASE l = e
      <4>1. k < k + 1
        OBVIOUS
      <4> QED
        BY <1>2, <1>3, <3>3, <4>1 DEF ForkedPt, Protected
    <3>4. CASE l # c /\ l # e
      <4>1. l \in Born(child, k + 1) <=> l \in Born(child, k)
        BY <1>1, <3>4
      <4>2. l[1] = parent => (l[2] < k + 1 <=> l[2] < k)
        <5>1. l[1] = parent => l[2] # k
          BY <3>1, <3>4 DEF e
        <5> QED
          BY <3>1, <5>1
      <4> QED
        BY <3>4, <4>1, <4>2 DEF ForkedPt
    <3> QED
      BY <3>2, <3>3, <3>4
  <2>2. /\ DOMAIN ForkedPt(parent, child, k) = Pte
        /\ ForkedPt(parent, child, k + 1)
             = [l \in Pte |-> ForkedPt(parent, child, k + 1)[l]]
    BY DEF ForkedPt
  <2> HIDE DEF entry
  <2> QED
    BY <1>2, <2>1, <2>2 DEF Shares
<1>10. ForkedCore(parent, child, k + 1)
         = Inserted(ForkedCore(parent, child, k), entry.ppage, c)
  <2>1. entry.ppage = pt[e].ppage /\ entry.ppage \in Ppage
    BY <1>1 DEF Entry, Protected
  <2>2. ASSUME NEW p \in Ppage
        PROVE  ForkedCore(parent, child, k + 1)[p]
                 = IF p = entry.ppage
                   THEN ForkedCore(parent, child, k)[p] \cup {c}
                   ELSE ForkedCore(parent, child, k)[p]
    <3>1. pt[<<parent, c[2]>>].ppage = entry.ppage
      BY <1>2, <2>1 DEF e
    <3> QED
      BY <1>1, <3>1 DEF ForkedCore
  <2>3. /\ DOMAIN ForkedCore(parent, child, k) = Ppage
        /\ ForkedCore(parent, child, k + 1)
             = [p \in Ppage |-> ForkedCore(parent, child, k + 1)[p]]
    BY DEF ForkedCore
  <2> HIDE DEF entry
  <2> QED
    BY <2>1, <2>2, <2>3 DEF Inserted
<1> QED
  BY <1>6, <1>7, <1>8, <1>9, <1>10 DEF e, c

LEMMA InsertedInto ==
  ASSUME NEW p, NEW S, NEW T
  PROVE  [[ppage |-> p, vpset |-> S] EXCEPT !.vpset = @ \cup T]
           = [ppage |-> p, vpset |-> S \cup T]
OBVIOUS

LEMMA InsertedTwice ==
  ASSUME NEW r \in Fbp, NEW S, NEW T
  PROVE  [r EXCEPT !.vpset = @ \cup (S \cup T)]
           = [[r EXCEPT !.vpset = @ \cup S] EXCEPT !.vpset = @ \cup T]
<1>1. r.vpset \cup (S \cup T) = (r.vpset \cup S) \cup T
  OBVIOUS
<1>2. r = [ppage |-> r.ppage, vpset |-> r.vpset]
  BY DEF Fbp
<1>3. [r EXCEPT !.vpset = @ \cup (S \cup T)]
        = [ppage |-> r.ppage, vpset |-> (r.vpset \cup S) \cup T]
  BY <1>1, <1>2
<1>4. [r EXCEPT !.vpset = @ \cup S]
        = [ppage |-> r.ppage, vpset |-> r.vpset \cup S]
  BY <1>2
<1> QED
  BY <1>3, <1>4

\* A file page joins its block and takes no swap block.
LEMMA FilePageCopied ==
  ASSUME IInv, NEW parent \in Pid \cup {NoPid}, NEW child \in Pid,
         MayFork(parent, child), NEW k \in 0..(ParentSize(parent) - 1),
         infile[<<parent, k>>].ftype = "FILE_B"
  PROVE  LET f  == infile[<<parent, k>>].block
             fm == ForkedFilemap(parent, child, k)
         IN
         /\ Copy(parent, <<child, k>>) = infile[<<parent, k>>]
         /\ ForkedFilemap(parent, child, k + 1)
              = Put(fm, f, Listing(fm, f, {<<child, k>>}))
         /\ ForkedSwfile(parent, child, k + 1) = ForkedSwfile(parent, child, k)
         /\ ForkedFree(parent, k + 1) = ForkedFree(parent, k)
         /\ ForkedCount(parent, k + 1) = ForkedCount(parent, k)
<1> DEFINE e  == <<parent, k>>
           c  == <<child, k>>
           f  == infile[e].block
           fm == ForkedFilemap(parent, child, k)
<1>1. /\ SwapBefore(parent, k + 1) = SwapBefore(parent, k)
      /\ infile[e] \in Infile
      /\ Born(child, k + 1) = Born(child, k) \cup {c}
      /\ c \notin Born(child, k)
  BY NextPage
<1>2. Copy(parent, c) = infile[e] /\ Copy(parent, c).ftype = "FILE_B"
  BY DEF Copy
<1>3. Copy(parent, c).block = f
  BY <1>2
<1>4. \A b : CopiesOf(parent, child, k + 1, "SWAP", b)
               = CopiesOf(parent, child, k, "SWAP", b)
  <2> HIDE DEF c
  <2> QED
    BY <1>1, <1>2 DEF CopiesOf
<1>5. \A g : CopiesOf(parent, child, k + 1, "FILE_B", g)
               = CopiesOf(parent, child, k, "FILE_B", g) \cup
                   (IF g = f THEN {c} ELSE {})
  <2> HIDE DEF c, f
  <2> QED
    BY <1>1, <1>2, <1>3 DEF CopiesOf
<1>6. ForkedFilemap(parent, child, k + 1) = Put(fm, f, Listing(fm, f, {c}))
  <2> HIDE DEF c, f
  <2>1. DOMAIN ForkedFilemap(parent, child, k + 1) = DOMAIN fm \cup {f}
    BY <1>1, <1>2, <1>3 DEF ForkedFilemap
  <2>2. ASSUME NEW g, g \in DOMAIN fm \cup {f}
        PROVE  ForkedFilemap(parent, child, k + 1)[g]
                 = IF g = f THEN Listing(fm, f, {c}) ELSE fm[g]
    <3>1. ForkedFilemap(parent, child, k + 1)[g]
            = Listing(filemap, g, CopiesOf(parent, child, k + 1, "FILE_B", g))
      BY <2>1, <2>2 DEF ForkedFilemap
    <3>2. g \in DOMAIN fm =>
            fm[g] = Listing(filemap, g, CopiesOf(parent, child, k, "FILE_B", g))
      BY DEF ForkedFilemap
    <3>3. CASE g # f
      BY <1>5, <2>2, <3>1, <3>2, <3>3
    <3>4. CASE g = f /\ g \in DOMAIN fm
      <4> DEFINE S == CopiesOf(parent, child, k, "FILE_B", g)
      <4>1. CopiesOf(parent, child, k + 1, "FILE_B", g) = S \cup {c}
        BY <1>5, <3>4
      <4> HIDE DEF S
      <4>2. Listing(filemap, g, S \cup {c})
              = [Listing(filemap, g, S) EXCEPT !.vpset = @ \cup {c}]
        <5>1. CASE g \in DOMAIN filemap
          <6>1. filemap[g] \in Fbp
            BY <5>1 DEF IInv, TypeOK, MappingOK, Maps
          <6>2. /\ Listing(filemap, g, S \cup {c})
                     = [filemap[g] EXCEPT !.vpset = @ \cup (S \cup {c})]
                /\ Listing(filemap, g, S) = [filemap[g] EXCEPT !.vpset = @ \cup S]
            BY <5>1 DEF Listing
          <6> QED
            BY <6>1, <6>2, InsertedTwice
        <5>2. CASE g \notin DOMAIN filemap
          <6>1. /\ Listing(filemap, g, S \cup {c})
                     = [ppage |-> pinned, vpset |-> S \cup {c}]
                /\ Listing(filemap, g, S) = [ppage |-> pinned, vpset |-> S]
            BY <5>2 DEF Listing
          <6> QED
            BY <6>1, InsertedInto
        <5> QED
          BY <5>1, <5>2
      <4>3. Listing(fm, f, {c}) = [fm[g] EXCEPT !.vpset = @ \cup {c}]
        BY <3>4 DEF Listing
      <4> QED
        BY <3>1, <3>2, <3>4, <4>1, <4>2, <4>3 DEF S
    <3>5. CASE g = f /\ g \notin DOMAIN fm
      <4>1. CopiesOf(parent, child, k, "FILE_B", g) = {}
        BY <3>5 DEF ForkedFilemap, CopiesOf
      <4>2. g \notin DOMAIN filemap
        BY <3>5 DEF ForkedFilemap
      <4>3. CopiesOf(parent, child, k + 1, "FILE_B", g) = {c}
        BY <1>5, <3>5, <4>1
      <4> QED
        BY <3>1, <3>5, <4>2, <4>3 DEF Listing
    <3> QED
      BY <2>2, <3>3, <3>4, <3>5
  <2>3. ForkedFilemap(parent, child, k + 1)
          = [g \in DOMAIN ForkedFilemap(parent, child, k + 1) |->
               ForkedFilemap(parent, child, k + 1)[g]]
    BY DEF ForkedFilemap
  <2> HIDE DEF fm
  <2> QED
    BY <2>1, <2>2, <2>3 DEF Put
<1>7. ForkedSwfile(parent, child, k + 1) = ForkedSwfile(parent, child, k)
  BY <1>4 DEF ForkedSwfile
<1> QED
  BY <1>1, <1>2, <1>6, <1>7 DEF ForkedFree, ForkedCount

\* Counting down modulo w one by one, or all at once.
LEMMA Divided ==
  ASSUME NEW w \in Nat \ {0}, NEW x \in Int
  PROVE  /\ x = w * (x \div w) + (x % w)
         /\ x \div w \in Int
         /\ x % w \in 0..(w - 1)
OBVIOUS

LEMMA Distributes ==
  ASSUME NEW w \in Int, NEW x \in Int, NEW y \in Int
  PROVE  w * (x - y) = w * x - w * y
OBVIOUS

LEMMA NoMultiple ==
  ASSUME NEW w \in Nat \ {0}, NEW k \in Int, NEW d \in Int,
         d = w * k, -w < d, d < w
  PROVE  d = 0
<1>1. CASE k >= 1
  <2>1. w * k >= w
    BY <1>1
  <2> QED
    BY <2>1
<1>2. CASE k <= -1
  <2>1. w * k <= -w
    BY <1>2
  <2> QED
    BY <2>1
<1>3. CASE k = 0
  BY <1>3
<1> QED
  BY <1>1, <1>2, <1>3

LEMMA WrapsOnce ==
  ASSUME NEW w \in Nat \ {0}, NEW x \in Int, NEW n \in Int
  PROVE  ((x % w) - n) % w = (x - n) % w
<1> DEFINE a == x \div w
           r == x % w
           b == (r - n) \div w
           s == (r - n) % w
           c == (x - n) \div w
           t == (x - n) % w
<1>1. x = w * a + r /\ a \in Int /\ r \in 0..(w - 1)
  BY Divided
<1>2. r - n = w * b + s /\ b \in Int /\ s \in 0..(w - 1)
  <2>1. r - n \in Int
    BY <1>1
  <2> HIDE DEF r
  <2> QED
    BY <2>1, Divided
<1>3. x - n = w * c + t /\ c \in Int /\ t \in 0..(w - 1)
  BY Divided
<1> HIDE DEF a, b, c, r, s, t
<1>4. s - t = w * (c - a - b)
  <2>1. w * (c - a - b) = w * (c - a) - w * b
    BY <1>1, <1>2, <1>3, Distributes
  <2>2. w * (c - a) = w * c - w * a
    BY <1>1, <1>2, <1>3, Distributes
  <2> QED
    BY <1>1, <1>2, <1>3, <2>1, <2>2
<1>5. s - t = 0
  BY <1>1, <1>2, <1>3, <1>4, NoMultiple
<1>6. s = t
  BY <1>2, <1>3, <1>5
<1> QED
  BY <1>6 DEF r, s, t

\* A swap page takes the next free block.
LEMMA SwapPageCopied ==
  ASSUME IInv, NEW parent \in Pid \cup {NoPid}, NEW child \in Pid,
         MayFork(parent, child), NEW k \in 0..(ParentSize(parent) - 1),
         infile[<<parent, k>>].ftype = "SWAP"
  PROVE  LET taken == Head(ForkedFree(parent, k)) IN
         /\ Copy(parent, <<child, k>>)
              = InBlock(infile[<<parent, k>>], taken)
         /\ ForkedFilemap(parent, child, k + 1) = ForkedFilemap(parent, child, k)
         /\ ForkedSwfile(parent, child, k + 1)
              = Inserted(ForkedSwfile(parent, child, k), taken, <<child, k>>)
         /\ ForkedFree(parent, k + 1) = Tail(ForkedFree(parent, k))
         /\ ForkedCount(parent, k + 1) = (ForkedCount(parent, k) - 1) % Word
<1> DEFINE e == <<parent, k>>
           c == <<child, k>>
           n == SwapBefore(parent, k)
           q == ForkedFree(parent, k)
           taken == Head(q)
<1>1. /\ SwapBefore(parent, k + 1) = n + 1
      /\ n \in Nat
      /\ n + 1 \in 1..Len(free_block)
      /\ infile[e] \in Infile
      /\ Born(child, k + 1) = Born(child, k) \cup {c}
      /\ c \notin Born(child, k)
  BY NextPage
<1>2. /\ free_block \in Seq(Block) /\ Len(free_block) \in Nat
      /\ \A i \in 1..Len(free_block) : free_block[i] \in Block
      /\ eblcnt \in Int
  BY LenProperties, ElementOfSeq, SizeAssumption, PCntAssumption
  DEF IInv, TypeOK, SpaceOK
<1> HIDE DEF n
<1>3. /\ q \in Seq(Block) /\ Len(q) = Len(free_block) - n
      /\ \A i \in 1..(Len(free_block) - n) : q[i] = free_block[n + i]
  <2>1. n + 1 \in 1..(Len(free_block) + 1) /\ Len(free_block) \in n..Len(free_block)
    BY <1>1, <1>2
  <2> QED
    BY <1>1, <1>2, <2>1, SubSeqProperties DEF ForkedFree, n
<1> HIDE DEF q
<1>4. /\ Head(q) = q[1]
      /\ Tail(q) \in Seq(Block) /\ Len(Tail(q)) = Len(q) - 1
      /\ \A i \in 1..Len(Tail(q)) : Tail(q)[i] = q[i + 1]
  <2>1. q # <<>>
    BY <1>1, <1>2, <1>3
  <2> QED
    BY <1>3, <2>1, HeadTailProperties
<1>5. taken = free_block[n + 1] /\ taken \in Block
  BY <1>1, <1>2, <1>3, <1>4
<1> HIDE DEF taken
<1>6. /\ Copy(parent, c) = InBlock(infile[e], taken)
      /\ Copy(parent, c).ftype = "SWAP"
      /\ Copy(parent, c).block = taken
  <2>1. Copy(parent, c) = [infile[e] EXCEPT !.block = free_block[n + 1]]
    BY DEF Copy, n
  <2>2. infile[e] \in SwapRec
    BY <1>1, InfileFields
  <2> QED
    BY <1>5, <2>1, <2>2 DEF SwapRec, InBlock
<1>7. \A f : CopiesOf(parent, child, k + 1, "FILE_B", f)
               = CopiesOf(parent, child, k, "FILE_B", f)
  <2> HIDE DEF c
  <2> QED
    BY <1>1, <1>6 DEF CopiesOf
<1>8. \A b : CopiesOf(parent, child, k + 1, "SWAP", b)
               = CopiesOf(parent, child, k, "SWAP", b) \cup
                   (IF b = taken THEN {c} ELSE {})
  <2> HIDE DEF c
  <2> QED
    BY <1>1, <1>6 DEF CopiesOf
<1>9. ForkedFilemap(parent, child, k + 1) = ForkedFilemap(parent, child, k)
  <2>1. {d \in Born(child, k + 1) : Copy(parent, d).ftype = "FILE_B"}
          = {d \in Born(child, k) : Copy(parent, d).ftype = "FILE_B"}
    <3> HIDE DEF c
    <3> QED
      BY <1>1, <1>6
  <2> QED
    BY <1>7, <2>1 DEF ForkedFilemap
<1>10. ForkedSwfile(parent, child, k + 1)
         = Inserted(ForkedSwfile(parent, child, k), taken, c)
  <2>1. ASSUME NEW b \in Block
        PROVE  ForkedSwfile(parent, child, k + 1)[b]
                 = IF b = taken THEN ForkedSwfile(parent, child, k)[b] \cup {c}
                   ELSE ForkedSwfile(parent, child, k)[b]
    BY <1>8 DEF ForkedSwfile
  <2>2. /\ DOMAIN ForkedSwfile(parent, child, k) = Block
        /\ ForkedSwfile(parent, child, k + 1)
             = [b \in Block |-> ForkedSwfile(parent, child, k + 1)[b]]
    BY DEF ForkedSwfile
  <2> QED
    BY <1>5, <2>1, <2>2 DEF Inserted
<1>11. ForkedFree(parent, k + 1) = Tail(q)
  <2> DEFINE r == ForkedFree(parent, k + 1)
  <2>1. /\ r \in Seq(Block) /\ Len(r) = Len(free_block) - (n + 1)
        /\ \A i \in 1..(Len(free_block) - (n + 1)) : r[i] = free_block[(n + 1) + i]
    <3> DEFINE m == (n + 1) + 1
    <3>1. /\ m \in Int /\ m \in 1..(Len(free_block) + 1)
          /\ \A i \in m..Len(free_block) : free_block[i] \in Block
      BY <1>1, <1>2
    <3>2. r = SubSeq(free_block, m, Len(free_block))
      BY <1>1 DEF ForkedFree
    <3>3. \A i \in 1..(Len(free_block) - (n + 1)) : m + i - 1 = (n + 1) + i
      BY <1>1, <1>2
    <3>4. Len(free_block) - m + 1 = Len(free_block) - (n + 1)
      BY <1>1, <1>2
    <3> HIDE DEF m, r
    <3>5. /\ r \in Seq(Block)
          /\ Len(r) = IF m <= Len(free_block) THEN Len(free_block) - m + 1 ELSE 0
          /\ \A i \in 1..(Len(free_block) - m + 1) : r[i] = free_block[m + i - 1]
      BY <1>2, <3>1, <3>2, SubSeqProperties
    <3>6. Len(r) = Len(free_block) - (n + 1)
      BY <1>1, <1>2, <3>1, <3>4, <3>5
    <3> QED
      BY <3>3, <3>4, <3>5, <3>6
  <2> HIDE DEF r
  <2>2. Len(r) = Len(Tail(q))
    BY <1>1, <1>2, <1>3, <1>4, <2>1
  <2>3. ASSUME NEW i \in 1..Len(r)
        PROVE  r[i] = Tail(q)[i]
    <3>1. /\ i \in 1..Len(Tail(q)) /\ i + 1 \in 1..(Len(free_block) - n)
          /\ n + (i + 1) = (n + 1) + i
      BY <1>1, <1>2, <2>1, <2>2
    <3> QED
      BY <1>3, <1>4, <2>1, <3>1
  <2>4. r = Tail(q)
    BY <1>4, <2>1, <2>2, <2>3, SeqEqual
  <2> QED
    BY <2>4 DEF r
<1>12. ForkedCount(parent, k + 1) = (ForkedCount(parent, k) - 1) % Word
  <2>1. /\ ForkedCount(parent, k + 1) = (eblcnt - (n + 1)) % Word
        /\ ForkedCount(parent, k) = (eblcnt - n) % Word
    BY <1>1 DEF ForkedCount, n
  <2>2. eblcnt - n \in Int /\ (eblcnt - n) - 1 = eblcnt - (n + 1)
    BY <1>1, <1>2
  <2>3. (((eblcnt - n) % Word) - 1) % Word = ((eblcnt - n) - 1) % Word
    <3> DEFINE x == eblcnt - n
    <3>1. x \in Int /\ Word \in Nat \ {0} /\ 1 \in Int
      BY <2>2, SizeAssumption, PCntAssumption
    <3> HIDE DEF x
    <3>2. ((x % Word) - 1) % Word = (x - 1) % Word
      BY <3>1, WrapsOnce
    <3> QED
      BY <3>2 DEF x
  <2> QED
    BY <2>1, <2>2, <2>3
<1> QED
  BY <1>6, <1>9, <1>10, <1>11, <1>12 DEF taken, q

-----------------------------------------------------------------------------
(* The steps of the loop.                                                  *)

LEMMA ForkStartOK ==
  ASSUME IInv, NEW parent \in Pid \cup {NoPid}, NEW child \in Pid,
         ForkStart(parent, child)
  PROVE  ForkOK'
<1>1. /\ MayFork(parent, child)
      /\ fork' = [parent |-> parent, child |-> child, vp |-> 0,
                  infile |-> infile, filemap |-> filemap, swfile |-> swfile,
                  free_block |-> free_block, eblcnt |-> eblcnt,
                  core |-> core, pt |-> pt]
      /\ UNCHANGED vars
  BY DEF ForkStart, MayFork
<1>2. /\ fork'.parent = parent /\ fork'.child = child /\ fork'.vp = 0
      /\ fork'.infile = infile /\ fork'.filemap = filemap
      /\ fork'.swfile = swfile /\ fork'.free_block = free_block
      /\ fork'.eblcnt = eblcnt /\ fork'.core = core /\ fork'.pt = pt
      /\ DOMAIN fork' = {"parent", "child", "vp", "infile", "filemap", "swfile",
                         "free_block", "eblcnt", "core", "pt"}
  BY <1>1
<1>3. 0 \in 0..ParentSize(parent)
  <2>1. ParentSize(parent) \in 0..NPages
    BY <1>1, ParentPages DEF MayFork
  <2> QED
    BY <2>1, SizeAssumption, PCntAssumption
<1>4. /\ infile = ForkedInfile(parent, child, 0)
      /\ swfile = ForkedSwfile(parent, child, 0)
      /\ filemap = ForkedFilemap(parent, child, 0)
      /\ free_block = ForkedFree(parent, 0)
      /\ eblcnt = ForkedCount(parent, 0)
      /\ core = ForkedCore(parent, child, 0)
      /\ pt = ForkedPt(parent, child, 0)
  BY ForkedNothing
<1> QED
  BY <1>1, <1>2, <1>3, <1>4, KernelWaits DEF ForkAt


ForkFields == {"parent", "child", "vp", "infile", "filemap", "swfile",
               "free_block", "eblcnt", "core", "pt"}

\* What an iteration changes, field by field.
LEMMA ForkPageFields ==
  ASSUME ForkPage, DOMAIN fork = ForkFields
  PROVE  LET e     == <<fork.parent, fork.vp>>
             c     == <<fork.child, fork.vp>>
             entry == Protected(fork.pt[e])
             b     == fork.infile[e]
             taken == Head(fork.free_block)
         IN
         /\ DOMAIN fork' = ForkFields
         /\ fork'.parent = fork.parent /\ fork'.child = fork.child
         /\ fork'.vp = fork.vp + 1
         /\ fork'.pt = Shares(fork.pt, e, c, entry)
         /\ fork'.core = Inserted(fork.core, entry.ppage, c)
         /\ b.ftype = "FILE_B" =>
              /\ fork'.infile = Put(fork.infile, c, b)
              /\ fork'.filemap
                   = Put(fork.filemap, b.block, Listing(fork.filemap, b.block, {c}))
              /\ fork'.swfile = fork.swfile
              /\ fork'.free_block = fork.free_block
              /\ fork'.eblcnt = fork.eblcnt
         /\ b.ftype # "FILE_B" =>
              /\ fork'.infile = Put(fork.infile, c, InBlock(b, taken))
              /\ fork'.filemap = fork.filemap
              /\ fork'.swfile = Inserted(fork.swfile, taken, c)
              /\ fork'.free_block = Tail(fork.free_block)
              /\ fork'.eblcnt = (fork.eblcnt - 1) % Word
<1> DEFINE e      == <<fork.parent, fork.vp>>
           c      == <<fork.child, fork.vp>>
           entry  == [fork.pt[e] EXCEPT !.write_enable = FALSE]
           b      == fork.infile[e]
           taken  == Head(fork.free_block)
           moved  == [b EXCEPT !.block = taken]
           both   == [fork EXCEPT !.vp = @ + 1,
                                  !.pt = Shares(@, e, c, entry),
                                  !.core = Inserted(@, entry.ppage, c)]
           named  == [both EXCEPT
                        !.infile = Put(@, c, b),
                        !.filemap = Put(@, b.block, Listing(@, b.block, {c}))]
           paged  == [both EXCEPT
                        !.infile = Put(@, c, moved),
                        !.swfile = Inserted(@, taken, c),
                        !.free_block = Popped(@),
                        !.eblcnt = (@ - 1) % Word]
<1>1. fork' = IF b.ftype = "FILE_B" THEN named ELSE paged
  BY Zenon DEF ForkPage
<1>2. entry = Protected(fork.pt[e]) /\ moved = InBlock(b, taken)
  BY DEF Protected, InBlock
<1> HIDE DEF e, c, entry, b, taken, moved
<1>3. /\ DOMAIN both = ForkFields
      /\ both.vp = fork.vp + 1
      /\ both.pt = Shares(fork.pt, e, c, entry)
      /\ both.core = Inserted(fork.core, entry.ppage, c)
      /\ both.parent = fork.parent /\ both.child = fork.child
      /\ both.infile = fork.infile /\ both.filemap = fork.filemap
      /\ both.swfile = fork.swfile /\ both.free_block = fork.free_block
      /\ both.eblcnt = fork.eblcnt
  BY DEF ForkFields
<1> HIDE DEF both
<1>4. /\ DOMAIN named = ForkFields
      /\ named.infile = Put(fork.infile, c, b)
      /\ named.filemap
           = Put(fork.filemap, b.block, Listing(fork.filemap, b.block, {c}))
      /\ named.vp = both.vp /\ named.pt = both.pt /\ named.core = both.core
      /\ named.parent = both.parent /\ named.child = both.child
      /\ named.swfile = both.swfile /\ named.free_block = both.free_block
      /\ named.eblcnt = both.eblcnt
  BY <1>3 DEF ForkFields
<1>5. /\ DOMAIN paged = ForkFields
      /\ paged.infile = Put(fork.infile, c, moved)
      /\ paged.swfile = Inserted(fork.swfile, taken, c)
      /\ paged.free_block = Tail(fork.free_block)
      /\ paged.eblcnt = (fork.eblcnt - 1) % Word
      /\ paged.vp = both.vp /\ paged.pt = both.pt /\ paged.core = both.core
      /\ paged.parent = both.parent /\ paged.child = both.child
      /\ paged.filemap = both.filemap
  BY <1>3 DEF ForkFields, Popped
<1> HIDE DEF named, paged
<1>6. /\ DOMAIN fork' = ForkFields
      /\ fork'.parent = fork.parent /\ fork'.child = fork.child
      /\ fork'.vp = fork.vp + 1
      /\ fork'.pt = Shares(fork.pt, e, c, entry)
      /\ fork'.core = Inserted(fork.core, entry.ppage, c)
  BY <1>1, <1>3, <1>4, <1>5
<1>7. ASSUME b.ftype = "FILE_B"
      PROVE  /\ fork'.infile = Put(fork.infile, c, b)
             /\ fork'.filemap
                  = Put(fork.filemap, b.block, Listing(fork.filemap, b.block, {c}))
             /\ fork'.swfile = fork.swfile
             /\ fork'.free_block = fork.free_block
             /\ fork'.eblcnt = fork.eblcnt
  BY <1>1, <1>3, <1>4, <1>7
<1>8. ASSUME b.ftype # "FILE_B"
      PROVE  /\ fork'.infile = Put(fork.infile, c, InBlock(b, taken))
             /\ fork'.filemap = fork.filemap
             /\ fork'.swfile = Inserted(fork.swfile, taken, c)
             /\ fork'.free_block = Tail(fork.free_block)
             /\ fork'.eblcnt = (fork.eblcnt - 1) % Word
  BY <1>1, <1>2, <1>3, <1>5, <1>8
<1>9. entry = Protected(fork.pt[e])
  BY <1>2
<1> QED
  BY <1>6, <1>7, <1>8, <1>9 DEF e, c, b, taken

\* An iteration: the maps of k pages become those of k + 1.
LEMMA ForkPageOK ==
  ASSUME IInv, ForkOK, ForkPage
  PROVE  fork' # NoFork /\ ForkOK'
<1>1. /\ fork # NoFork /\ ForkAt(fork)
      /\ fork.vp < ParentSize(fork.parent)
      /\ UNCHANGED vars
  BY DEF ForkPage, ForkOK
<1>2. SUFFICES ASSUME NEW parent, NEW child, NEW k,
                      parent = fork.parent, child = fork.child, k = fork.vp
               PROVE  fork' # NoFork /\ ForkAt(fork')
  BY <1>1, KernelWaits
<1>3. /\ parent \in Pid \cup {NoPid} /\ child \in Pid
      /\ MayFork(parent, child)
      /\ k \in 0..ParentSize(parent)
      /\ fork.infile = ForkedInfile(parent, child, k)
      /\ fork.filemap = ForkedFilemap(parent, child, k)
      /\ fork.swfile = ForkedSwfile(parent, child, k)
      /\ fork.free_block = ForkedFree(parent, k)
      /\ fork.eblcnt = ForkedCount(parent, k)
      /\ fork.core = ForkedCore(parent, child, k)
      /\ fork.pt = ForkedPt(parent, child, k)
      /\ DOMAIN fork = ForkFields
  BY <1>1, <1>2 DEF ForkAt, ForkFields
<1>4. ParentSize(parent) \in 0..NPages
  BY <1>3, ParentPages DEF MayFork
<1>5. k \in 0..(ParentSize(parent) - 1) /\ k + 1 \in 0..ParentSize(parent)
  BY <1>1, <1>2, <1>3, <1>4, SizeAssumption, PCntAssumption
<1> DEFINE e     == <<parent, k>>
           c     == <<child, k>>
           b     == infile[e]
           entry == Protected(pt[e])
           taken == Head(ForkedFree(parent, k))
<1>6. /\ ForkedInfile(parent, child, k + 1)
           = Put(ForkedInfile(parent, child, k), c, Copy(parent, c))
      /\ fork.infile[e] = b /\ fork.pt[e] = pt[e]
      /\ ForkedPt(parent, child, k + 1)
           = Shares(ForkedPt(parent, child, k), e, c, entry)
      /\ ForkedCore(parent, child, k + 1)
           = Inserted(ForkedCore(parent, child, k), entry.ppage, c)
  BY <1>3, <1>5, PageCopied
<1>7. /\ DOMAIN fork' = ForkFields
      /\ fork'.parent = parent /\ fork'.child = child /\ fork'.vp = k + 1
      /\ fork'.pt = Shares(fork.pt, e, c, entry)
      /\ fork'.core = Inserted(fork.core, entry.ppage, c)
      /\ b.ftype = "FILE_B" =>
           /\ fork'.infile = Put(fork.infile, c, b)
           /\ fork'.filemap
                = Put(fork.filemap, b.block, Listing(fork.filemap, b.block, {c}))
           /\ fork'.swfile = fork.swfile
           /\ fork'.free_block = fork.free_block
           /\ fork'.eblcnt = fork.eblcnt
      /\ b.ftype # "FILE_B" =>
           /\ fork'.infile = Put(fork.infile, c, InBlock(b, taken))
           /\ fork'.filemap = fork.filemap
           /\ fork'.swfile = Inserted(fork.swfile, taken, c)
           /\ fork'.free_block = Tail(fork.free_block)
           /\ fork'.eblcnt = (fork.eblcnt - 1) % Word
  <2>1. /\ e = <<fork.parent, fork.vp>> /\ c = <<fork.child, fork.vp>>
        /\ b = fork.infile[e] /\ entry = Protected(fork.pt[e])
        /\ taken = Head(fork.free_block)
    BY <1>2, <1>3, <1>6
  <2> HIDE DEF e, c, b, entry, taken
  <2> QED
    BY <1>2, <1>3, <2>1, ForkPageFields
<1>8. fork' # NoFork
  BY <1>7 DEF ForkFields, NoFork
<1>9. b \in Infile
  BY <1>3, <1>5, NextPage
<1>10. /\ fork'.infile = ForkedInfile(parent, child, k + 1)
       /\ fork'.filemap = ForkedFilemap(parent, child, k + 1)
       /\ fork'.swfile = ForkedSwfile(parent, child, k + 1)
       /\ fork'.free_block = ForkedFree(parent, k + 1)
       /\ fork'.eblcnt = ForkedCount(parent, k + 1)
  <2>1. CASE b.ftype = "FILE_B"
    <3>1. /\ Copy(parent, c) = b
          /\ ForkedFilemap(parent, child, k + 1)
               = Put(ForkedFilemap(parent, child, k), b.block,
                     Listing(ForkedFilemap(parent, child, k), b.block, {c}))
          /\ ForkedSwfile(parent, child, k + 1) = ForkedSwfile(parent, child, k)
          /\ ForkedFree(parent, k + 1) = ForkedFree(parent, k)
          /\ ForkedCount(parent, k + 1) = ForkedCount(parent, k)
      BY <1>3, <1>5, <2>1, FilePageCopied
    <3> HIDE DEF e, c, b, entry, taken
    <3> QED
      BY <1>3, <1>6, <1>7, <2>1, <3>1
  <2>2. CASE b.ftype # "FILE_B"
    <3>1. b.ftype = "SWAP"
      BY <1>9, <2>2, InfileFields
    <3>2. /\ Copy(parent, c) = InBlock(b, taken)
          /\ ForkedFilemap(parent, child, k + 1) = ForkedFilemap(parent, child, k)
          /\ ForkedSwfile(parent, child, k + 1)
               = Inserted(ForkedSwfile(parent, child, k), taken, c)
          /\ ForkedFree(parent, k + 1) = Tail(ForkedFree(parent, k))
          /\ ForkedCount(parent, k + 1) = (ForkedCount(parent, k) - 1) % Word
      BY <1>3, <1>5, <3>1, SwapPageCopied
    <3> HIDE DEF e, c, b, entry, taken
    <3> QED
      BY <1>3, <1>6, <1>7, <2>2, <3>2
  <2> QED
    BY <2>1, <2>2
<1>11. /\ fork'.pt = ForkedPt(parent, child, k + 1)
       /\ fork'.core = ForkedCore(parent, child, k + 1)
  BY <1>3, <1>6, <1>7
<1> QED
  BY <1>3, <1>5, <1>7, <1>8, <1>10, <1>11 DEF ForkAt, ForkFields

\* When all pages are done, the maps are those of vm_create.
LEMMA ForkEndCreates ==
  ASSUME IInv, ForkOK, ForkEnd
  PROVE  /\ fork.parent \in Pid \cup {NoPid} /\ fork.child \in Pid
         /\ vm_create(fork.parent, fork.child)
<1>1. fork # NoFork /\ ForkAt(fork)
  BY DEF ForkEnd, ForkOK
<1>2. SUFFICES ASSUME NEW parent, NEW child,
                      parent = fork.parent, child = fork.child
               PROVE  /\ parent \in Pid \cup {NoPid} /\ child \in Pid
                      /\ vm_create(parent, child)
  OBVIOUS
<1> DEFINE size     == ParentSize(parent)
           numsw    == ParentNumsw(parent)
           born     == {child} \X (0..(size - 1))
           model(e) == <<parent, e[2]>>
           copy(e)  == IF infile[model(e)].ftype = "FILE_B"
                       THEN infile[model(e)]
                       ELSE [infile[model(e)] EXCEPT !.block =
                               free_block[SwapBefore(parent, e[2]) + 1]]
           record   == [e \in born |-> copy(e)]
<1>3. /\ parent \in Pid \cup {NoPid} /\ child \in Pid
      /\ MayFork(parent, child)
      /\ infile' = ForkedInfile(parent, child, size)
      /\ filemap' = ForkedFilemap(parent, child, size)
      /\ swfile' = ForkedSwfile(parent, child, size)
      /\ free_block' = ForkedFree(parent, size)
      /\ eblcnt' = (ForkedCount(parent, size) - numsw) % Word
      /\ core' = ForkedCore(parent, child, size)
      /\ pt' = [e \in Pte |-> IF e[1] = child /\ e[2] >= size THEN NullEntry
                              ELSE ForkedPt(parent, child, size)[e]]
      /\ all_pt' = Put(all_pt, child, [size |-> size, numsw |-> numsw])
      /\ UNCHANGED <<curr_pid, bound, clock_q, free_ppage, psuff, ghost,
                     contents, call>>
  <2>1. fork.vp = size
    BY <1>2 DEF ForkEnd
  <2> HIDE DEF size
  <2>2. /\ parent \in Pid \cup {NoPid} /\ child \in Pid
        /\ MayFork(parent, child)
        /\ fork.infile = ForkedInfile(parent, child, size)
        /\ fork.filemap = ForkedFilemap(parent, child, size)
        /\ fork.swfile = ForkedSwfile(parent, child, size)
        /\ fork.free_block = ForkedFree(parent, size)
        /\ fork.eblcnt = ForkedCount(parent, size)
        /\ fork.core = ForkedCore(parent, child, size)
        /\ fork.pt = ForkedPt(parent, child, size)
    BY <1>1, <1>2, <2>1 DEF ForkAt
  <2>3. ParentSize(parent) = size
    BY DEF size
  <2> QED
    BY <1>2, <2>2, <2>3 DEF ForkEnd, Carried
<1>4. /\ size \in 0..NPages /\ size \in Nat /\ numsw \in Nat
      /\ numsw = SwapBefore(parent, size)
  BY <1>3, ParentPages, SwapBeforeSeats, SizeAssumption, PCntAssumption
  DEF MayFork
<1>5. born = Born(child, size)
  BY DEF Born
<1>6. \A e \in born : record[e] = Copy(parent, e)
  BY DEF Copy
<1> HIDE DEF size, numsw, record, born
<1>7. infile' = [e \in DOMAIN infile \cup born |->
                   IF e \in born THEN record[e] ELSE infile[e]]
  BY <1>3, <1>5, <1>6 DEF ForkedInfile
<1>8. \A b : /\ {e \in born : record[e].ftype = "SWAP" /\ record[e].block = b}
                  = CopiesOf(parent, child, size, "SWAP", b)
             /\ {e \in born : record[e].ftype = "FILE_B" /\ record[e].block = b}
                  = CopiesOf(parent, child, size, "FILE_B", b)
  BY <1>5, <1>6 DEF CopiesOf
<1>9. swfile' = [b \in Block |-> swfile[b] \cup
                   {e \in born : record[e].ftype = "SWAP" /\ record[e].block = b}]
  BY <1>3, <1>8 DEF ForkedSwfile
<1>10. filemap' = [f \in DOMAIN filemap \cup
                         {record[e].block :
                            e \in {d \in born : record[d].ftype = "FILE_B"}} |->
                     Listing(filemap, f, {e \in born : /\ record[e].ftype = "FILE_B"
                                                       /\ record[e].block = f})]
  <2>1. {record[e].block : e \in {d \in born : record[d].ftype = "FILE_B"}}
          = {Copy(parent, e).block :
               e \in {d \in Born(child, size) : Copy(parent, d).ftype = "FILE_B"}}
    BY <1>5, <1>6
  <2> QED
    BY <1>3, <1>8, <2>1 DEF ForkedFilemap
<1>11. free_block' = SubSeq(free_block, numsw + 1, Len(free_block))
  BY <1>3, <1>4 DEF ForkedFree
<1>12. eblcnt' = (eblcnt - numsw - numsw) % Word
  <2> DEFINE x == eblcnt - numsw
  <2>1. eblcnt' = ((x % Word) - numsw) % Word
    BY <1>3, <1>4 DEF ForkedCount
  <2>2. x \in Int /\ Word \in Nat \ {0} /\ numsw \in Int
    BY <1>4, SizeAssumption, PCntAssumption DEF IInv, TypeOK, SpaceOK
  <2> HIDE DEF x
  <2>3. eblcnt' = (x - numsw) % Word
    BY <2>1, <2>2, WrapsOnce
  <2> QED
    BY <2>3 DEF x
<1>13. core' = [p \in Ppage |->
                  core[p] \cup {e \in born : pt[model(e)].ppage = p}]
  BY <1>3, <1>5 DEF ForkedCore
<1>14. pt' = [e \in Pte |->
                IF e \in born THEN [pt[model(e)] EXCEPT !.write_enable = FALSE]
                ELSE IF e[1] = child THEN NullEntry
                ELSE IF e[1] = parent /\ e[2] < size
                     THEN [pt[e] EXCEPT !.write_enable = FALSE]
                ELSE pt[e]]
  <2>1. ASSUME NEW e \in Pte
        PROVE  /\ e \in born <=> e[1] = child /\ e[2] < size
               /\ e[2] >= size <=> ~(e[2] < size)
    <3>1. e = <<e[1], e[2]>> /\ e[2] \in Nat
      BY SizeAssumption, PCntAssumption DEF Pte, Vpage
    <3>2. e[2] \in 0..(size - 1) <=> e[2] < size
      BY <1>4, <3>1
    <3>3. e[2] >= size <=> ~(e[2] < size)
      BY <1>4, <3>1
    <3> QED
      BY <3>1, <3>2, <3>3 DEF born
  <2>2. ASSUME NEW e \in Pte
        PROVE  pt'[e] =
                 IF e \in born THEN [pt[model(e)] EXCEPT !.write_enable = FALSE]
                 ELSE IF e[1] = child THEN NullEntry
                 ELSE IF e[1] = parent /\ e[2] < size
                      THEN [pt[e] EXCEPT !.write_enable = FALSE]
                 ELSE pt[e]
    <3>1. pt'[e] = IF e[1] = child /\ e[2] >= size THEN NullEntry
                   ELSE ForkedPt(parent, child, size)[e]
      BY <1>3
    <3>2. ForkedPt(parent, child, size)[e]
            = IF e \in born THEN [pt[model(e)] EXCEPT !.write_enable = FALSE]
              ELSE IF e[1] = parent /\ e[2] < size
                   THEN [pt[e] EXCEPT !.write_enable = FALSE]
              ELSE pt[e]
      BY <1>5 DEF ForkedPt
    <3> QED
      BY <2>1, <3>1, <3>2
  <2>3. pt' = [e \in Pte |-> pt'[e]]
    BY <1>3
  <2> QED
    BY <2>2, <2>3
<1>15. /\ Kernel
       /\ parent = NoPid \/ (Idle /\ parent = curr_pid)
       /\ child \notin DOMAIN all_pt
       /\ numsw <= Len(free_block)
  BY <1>3 DEF MayFork, numsw
<1>16. vm_create(parent, child)
  BY <1>3, <1>7, <1>9, <1>10, <1>11, <1>12, <1>13, <1>14, <1>15, Zenon
  DEF vm_create, size, numsw, born, record
<1> QED
  BY <1>3, <1>16

-----------------------------------------------------------------------------
(* The invariant of the root copy and what follows.                        *)

RootInv == IInv /\ SwapReserved /\ ForkOK

\* Between forks each step is one of Pager's or a write that fails.
LEMMA PagerSteps ==
  ASSUME RootInv, fork = NoFork, UNCHANGED fork,
         \/ Step
         \/ \E v \in Vpage, b \in FBlock : MapFile(v, b)
         \/ WriteFails
  PROVE  RootInv'
<1>1. IInv' /\ SwapReserved'
  <2>1. CASE Step \/ \E v \in Vpage, b \in FBlock : MapFile(v, b)
    BY <2>1, NextIInv, NextReserves DEF RootInv, Next
  <2>2. CASE WriteFails
    BY <2>2, WriteFailsStep DEF RootInv
  <2> QED
    BY <2>1, <2>2
<1>2. ForkOK'
  BY DEF ForkOK
<1> QED
  BY <1>1, <1>2 DEF RootInv

LEMMA RootNextInv ==
  ASSUME RootInv, [RootNext]_rootvars
  PROVE  RootInv'
<1>1. ASSUME UNCHANGED vars
      PROVE  IInv' /\ SwapReserved'
  BY <1>1, NextIInv, NextReserves DEF RootInv
<1>2. CASE /\ fork = NoFork
           /\ \/ Step
              \/ \E v \in Vpage, b \in FBlock : MapFile(v, b)
              \/ WriteFails
           /\ UNCHANGED fork
  BY <1>2, PagerSteps
<1>3. CASE \E parent \in Pid \cup {NoPid}, child \in Pid :
             ForkStart(parent, child)
  BY <1>1, <1>3, ForkStartOK DEF RootInv, ForkStart
<1>4. CASE ForkPage
  BY <1>1, <1>4, ForkPageOK DEF RootInv, ForkPage
<1>5. CASE ForkEnd
  <2>1. PICK parent \in Pid \cup {NoPid}, child \in Pid : vm_create(parent, child)
    BY <1>5, ForkEndCreates DEF RootInv
  <2>2. IInv' /\ SwapReserved'
    BY <2>1, CreateStep, CreateReserves DEF RootInv
  <2>3. ForkOK'
    BY <1>5 DEF ForkEnd, ForkOK
  <2> QED
    BY <2>2, <2>3 DEF RootInv
<1>6. CASE UNCHANGED rootvars
  <2>1. UNCHANGED vars /\ UNCHANGED fork
    BY <1>6 DEF rootvars
  <2>2. ForkOK'
    BY <2>1, KernelWaits DEF RootInv, ForkOK
  <2> QED
    BY <1>1, <2>1, <2>2 DEF RootInv
<1> QED
  BY <1>2, <1>3, <1>4, <1>5, <1>6 DEF RootNext

LEMMA RootInitInv ==
  ASSUME RootInit
  PROVE  RootInv
BY InitIInv, InitReserves DEF RootInit, RootInv, ForkOK

\* The invariant of Pager, and of the fork's loop, holds of the root copy, with
\* writes that fail at any eviction.
THEOREM RootInvariance == RootSpec => []RootInv
BY RootInitInv, RootNextInv, PTL DEF RootSpec

\* No write-back that fails leaves a value out of range.
THEOREM RootTypeCorrect == RootSpec => []TypeOK
<1>1. RootInv => TypeOK
  BY DEF RootInv, IInv
<1> QED
  BY <1>1, RootInvariance, PTL

\* A failed write and a fork interrupted by none keep every page on record.
THEOREM RootRecordsCorrect == RootSpec => []RecordsLive
<1>1. RootInv => RecordsLive
  BY DEF RootInv, IInv
<1> QED
  BY <1>1, RootInvariance, PTL

\* The number of blocks a fork will need is right before every fork.
THEOREM RootNumswCorrect == RootSpec => []NumswCounts
<1>1. RootInv => NumswCounts
  BY DEF RootInv, IInv
<1> QED
  BY <1>1, RootInvariance, PTL

\* Each swap block is free, or one page's, also after failed writes, and after
\* forks that pop one block per page.
THEOREM RootSwapReservedCorrect == RootSpec => []SwapReserved
<1>1. RootInv => SwapReserved
  BY DEF RootInv
<1> QED
  BY <1>1, RootInvariance, PTL

\* The loop of vm_create, from whatever state, for any number of pages of either
\* kind, ends with the maps that Pager's single step gives the child.
THEOREM ForkLoopCorrect == RootSpec => ForkAsWhole
<1>1. ASSUME RootInv, [RootNext]_rootvars
      PROVE  [fork # NoFork /\ fork' = NoFork
                => vm_create(fork.parent, fork.child)]_rootvars
  <2>1. SUFFICES ASSUME fork # NoFork, fork' = NoFork
                 PROVE  vm_create(fork.parent, fork.child)
    OBVIOUS
  <2>2. ~UNCHANGED rootvars
    BY <2>1 DEF rootvars
  <2>3. ForkPage \/ ForkEnd
    BY <1>1, <2>1, <2>2 DEF RootNext, ForkStart
  <2>4. ~ForkPage
    BY <1>1, <2>1, ForkPageOK DEF RootInv
  <2> QED
    BY <1>1, <2>3, <2>4, ForkEndCreates DEF RootInv
<1> QED
  BY <1>1, RootInvariance, PTL DEF RootSpec, ForkAsWhole

=============================================================================
