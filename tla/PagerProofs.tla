---------------------------- MODULE PagerProofs ----------------------------
(***************************************************************************)
(* Proofs about Pager for every number of processes, pages, frames, blocks *)
(* and files.                                                              *)
(***************************************************************************)
EXTENDS PagerProperties, QueueLemmas, FiniteSetTheorems

-----------------------------------------------------------------------------
(* Maps.                                                                   *)

LEMMA PutMaps ==
  ASSUME NEW f, NEW X, NEW Y, NEW x \in X, NEW y \in Y, Maps(f, X, Y)
  PROVE  Maps(Put(f, x, y), X, Y)
BY DEF Maps, Put

LEMMA DropMaps ==
  ASSUME NEW f, NEW X, NEW Y, NEW S, Maps(f, X, Y)
  PROVE  Maps(Drop(f, S), X, Y)
BY DEF Maps, Drop, Restrict

-----------------------------------------------------------------------------
(* What the type of a record says of its fields.                           *)

LEMMA InfileUpdate ==
  ASSUME NEW r \in Infile, NEW b \in BOOLEAN
  PROVE  /\ [r EXCEPT !.infile = b] \in Infile
         /\ [r EXCEPT !.infile = b].ftype = r.ftype
         /\ [r EXCEPT !.infile = b].block = r.block
         /\ [r EXCEPT !.infile = b].infile = b
<1>1. CASE r \in SwapRec
  BY <1>1 DEF SwapRec, Infile
<1>2. CASE r \in FileRec
  BY <1>2 DEF FileRec, Infile
<1> QED
  BY <1>1, <1>2 DEF Infile

LEMMA InfileFields ==
  ASSUME NEW r \in Infile
  PROVE  /\ r.infile \in BOOLEAN
         /\ r.ftype \in {"SWAP", "FILE_B"}
         /\ r.ftype = "SWAP" => r \in SwapRec /\ r.block \in Block
         /\ r.ftype = "FILE_B" => r \in FileRec /\ r.block \in FileBlock
BY DEF Infile, SwapRec, FileRec

LEMMA CallsOK ==
  ASSUME NEW v \in 0..NPages, NEW w \in BOOLEAN, NEW b \in FBlock
  PROVE  /\ Run \in Call /\ Run.op = "run"
         /\ None \in Call /\ None.op = "none"
         /\ Retry(v, w) \in Call /\ Retry(v, w).op = "retry"
         /\ Str(v, b) \in Call /\ Str(v, b).op = "string"
         /\ Exit(v) \in Call /\ Exit(v).op = "exit" /\ Exit(v).vp = v
<1>1. (CHOOSE c \in FBlock : TRUE) \in FBlock
  BY DataAssumption
<1>2. Run \in Call /\ Run.op = "run"
  BY <1>1, SizeAssumption, PCntAssumption DEF Run, Call
<1>3. \A o \in {"none", "run", "retry", "string", "exit"}, c \in FBlock :
        LET new == [Run EXCEPT !.op = o, !.vp = v, !.write = w, !.block = c] IN
        new \in Call /\ new.op = o /\ new.vp = v
  BY <1>1, SizeAssumption, PCntAssumption DEF Run, Call
<1> QED
  BY <1>1, <1>2, SizeAssumption, PCntAssumption DEF Run, None, Retry, Str, Exit, Call

-----------------------------------------------------------------------------
(* The clock and alloc.                                                    *)

\* Every frame that the clock manages is in its queue, once.
ClockComplete == IsInjective(clock_q) /\ Range(clock_q) = Frame

LEMMA VictimIsFrame ==
  ASSUME FramesOK, ClockComplete, NEW ps \in [Frame -> Ppb]
  PROVE  /\ Hand(ps) \in 1..Len(clock_q)
         /\ Victim(ps) \in Frame
<1>1. Len(clock_q) \in Nat /\ DOMAIN clock_q = 1..Len(clock_q)
  BY LenProperties DEF FramesOK
<1>2. 1 \in Frame
  BY SizeAssumption, PCntAssumption DEF Frame, Ppage, pinned
<1>3. Len(clock_q) # 0
  BY <1>1, <1>2 DEF ClockComplete, Range
<1>4. ASSUME Unreferenced(ps) = {}
      PROVE  Hand(ps) \in 1..Len(clock_q)
  <2>1. Hand(ps) = 1
    BY <1>4 DEF Hand
  <2> QED
    BY <1>1, <1>3, <2>1
<1>5. ASSUME Unreferenced(ps) # {}
      PROVE  Hand(ps) \in 1..Len(clock_q)
  <2>1. Unreferenced(ps) \in SUBSET Nat /\ Unreferenced(ps) \subseteq 1..Len(clock_q)
    BY <1>1 DEF Unreferenced
  <2>2. Min(Unreferenced(ps)) \in Unreferenced(ps)
    BY <1>5, <2>1, MinInSet
  <2>3. Hand(ps) = Min(Unreferenced(ps))
    BY <1>5 DEF Hand
  <2> QED
    BY <2>1, <2>2, <2>3
<1>6. Hand(ps) \in 1..Len(clock_q)
  BY <1>4, <1>5
<1>7. clock_q \in Seq(Frame)
  BY DEF FramesOK
<1> QED
  BY <1>6, <1>7, ElementOfSeq DEF Victim

LEMMA AllocFrames ==
  ASSUME FramesOK, ClockComplete, NEW ps \in [Frame -> Ppb]
  PROVE  /\ Alloc(ps) \in Frame
         /\ AllocClock(ps) \in Seq(Frame)
         /\ IsInjective(AllocClock(ps)) /\ Range(AllocClock(ps)) = Frame
         /\ AllocFree(ps) \in Seq(Frame)
         /\ AllocPsuff(ps) \in [Frame -> Ppb]
         /\ Maps(AllocGhost(ps), Frame, FileBlock)
         /\ AllocCore(ps) \in [Ppage -> SUBSET Pte]
<1>0. clock_q \in Seq(Frame) /\ free_ppage \in Seq(Frame)
  BY DEF FramesOK
<1>1. Alloc(ps) \in Frame /\ AllocFree(ps) \in Seq(Frame)
  <2>1. CASE Evicts
    BY <1>0, <2>1, VictimIsFrame DEF Alloc, AllocFree
  <2>2. CASE ~Evicts
    BY <1>0, <2>2, HeadTailProperties DEF Alloc, AllocFree, Evicts
  <2> QED
    BY <2>1, <2>2
<1>2. /\ AllocClock(ps) \in Seq(Frame)
      /\ IsInjective(AllocClock(ps)) /\ Range(AllocClock(ps)) = Frame
  <2>1. CASE Evicts
    <3>1. Hand(ps) \in 0..Len(clock_q)
      BY VictimIsFrame
    <3> QED
      BY <1>0, <2>1, <3>1, RotatePermutes DEF AllocClock, ClockComplete
  <2>2. CASE ~Evicts
    <3> DEFINE i == CHOOSE i \in 1..Len(clock_q) : clock_q[i] = Alloc(ps)
    <3>1. DOMAIN clock_q = 1..Len(clock_q)
      BY LenProperties DEF FramesOK
    <3>2. \E j \in 1..Len(clock_q) : clock_q[j] = Alloc(ps)
      BY <1>1, <3>1 DEF ClockComplete, Range
    <3>3. i \in 1..Len(clock_q)
      BY <3>2
    <3>4. AllocClock(ps) = MoveToTail(clock_q, i)
      BY <2>2 DEF AllocClock
    <3> HIDE DEF i
    <3> QED
      BY <1>0, <3>3, <3>4, MoveToTailPermutes DEF ClockComplete
  <2> QED
    BY <2>1, <2>2
<1>3. AllocPsuff(ps) \in [Frame -> Ppb]
  <2>1. CASE Evicts
    BY <2>1 DEF AllocPsuff, Ppb
  <2>2. CASE ~Evicts
    BY <1>1, <2>2 DEF AllocPsuff, Ppb
  <2> QED
    BY <2>1, <2>2
<1>4. Maps(AllocGhost(ps), Frame, FileBlock)
  BY DropMaps DEF AllocGhost, FramesOK
<1>5. AllocCore(ps) \in [Ppage -> SUBSET Pte]
  BY DEF AllocCore, FramesOK
<1> QED
  BY <1>1, <1>2, <1>3, <1>4, <1>5

\* A map with the records of infile up to the flag that alloc and vm_fault set.
SameRecords(g) ==
  /\ DOMAIN g = DOMAIN infile
  /\ \A e \in DOMAIN infile : /\ g[e] \in Infile
                              /\ g[e].ftype = infile[e].ftype
                              /\ g[e].block = infile[e].block

LEMMA RecordType ==
  ASSUME MappingOK, NEW e \in DOMAIN infile
  PROVE  infile[e] \in Infile /\ e \in Pte
BY DEF MappingOK, Maps

LEMMA EntryTypes ==
  /\ NullEntry \in Entry
  /\ \A x \in Entry : Revoked(x) \in Entry /\ Granted(x) \in Entry
<1>1. 0 \in Ppage
  BY SizeAssumption, PCntAssumption DEF Ppage
<1> QED
  BY <1>1 DEF Entry, Revoked, Granted, NullEntry, pinned

LEMMA AllocMapping ==
  ASSUME TypeOK, ClockComplete, NEW ps \in [Frame -> Ppb], EvictAsserts(ps)
  PROVE  /\ AllocPt(ps) \in [Pte -> Entry]
         /\ SameRecords(AllocInfile(ps))
         /\ Maps(AllocFilemap(ps), FileBlock, Fbp)
         /\ AllocSwap(ps) \in [Block -> Data]
         /\ AllocFile(ps) \in [FileBlock -> Data]
<1> USE DEF TypeOK
<1>1. Victim(ps) \in Frame /\ Victim(ps) \in Ppage
  BY VictimIsFrame DEF Frame
<1>2. AllocPt(ps) \in [Pte -> Entry]
  BY EntryTypes DEF AllocPt, MappingOK
<1>3. SameRecords(AllocInfile(ps))
  <2>1. ASSUME NEW e \in DOMAIN infile
        PROVE  /\ AllocInfile(ps)[e] \in Infile
               /\ AllocInfile(ps)[e].ftype = infile[e].ftype
               /\ AllocInfile(ps)[e].block = infile[e].block
    <3>1. infile[e] \in Infile
      BY RecordType
    <3>2. AllocInfile(ps)[e] = [infile[e] EXCEPT !.infile = TRUE] \/ AllocInfile(ps)[e] = infile[e]
      BY DEF AllocInfile
    <3> QED
      BY <3>1, <3>2, InfileUpdate
  <2> QED
    BY <2>1 DEF SameRecords, AllocInfile
<1>4. Maps(AllocFilemap(ps), FileBlock, Fbp)
  BY DropMaps DEF AllocFilemap, MappingOK
<1>5. phys[Victim(ps)] \in Data
  BY <1>1 DEF ContentsOK
<1>6. ASSUME Evicts, ~OfGhost(ps)
      PROVE  Backing(ps) \in Infile
  BY <1>6, RecordType DEF EvictAsserts, Recorded, Backing
<1>7. AllocSwap(ps) \in [Block -> Data]
  <2>1. CASE WritesBack(ps) /\ ~OfGhost(ps) /\ Backing(ps).ftype = "SWAP"
    <3>1. Backing(ps) \in Infile
      BY <2>1, <1>6 DEF WritesBack
    <3>2. Backing(ps).block \in Block
      BY <2>1, <3>1, InfileFields
    <3>3. AllocSwap(ps) = [swap EXCEPT ![Backing(ps).block] = phys[Victim(ps)]]
      BY <2>1 DEF AllocSwap
    <3> QED
      BY <1>5, <3>2, <3>3 DEF ContentsOK
  <2>2. CASE ~(WritesBack(ps) /\ ~OfGhost(ps) /\ Backing(ps).ftype = "SWAP")
    BY <2>2 DEF AllocSwap, ContentsOK
  <2> QED
    BY <2>1, <2>2
<1>8. AllocFile(ps) \in [FileBlock -> Data]
  <2>1. \A x \in FileBlock : [file EXCEPT ![x] = phys[Victim(ps)]] \in [FileBlock -> Data]
    BY <1>5 DEF ContentsOK
  <2>2. CASE ~WritesBack(ps)
    BY <2>2 DEF AllocFile, ContentsOK
  <2>3. CASE WritesBack(ps) /\ OfGhost(ps)
    <3>1. ghost[Victim(ps)] \in FileBlock
      BY <2>3 DEF OfGhost, FramesOK, Maps
    <3>2. AllocFile(ps) = [file EXCEPT ![ghost[Victim(ps)]] = phys[Victim(ps)]]
      BY <2>3 DEF AllocFile
    <3> QED
      BY <2>1, <3>1, <3>2
  <2>4. CASE WritesBack(ps) /\ ~OfGhost(ps) /\ Backing(ps).ftype = "FILE_B"
    <3>1. Backing(ps) \in Infile
      BY <2>4, <1>6 DEF WritesBack
    <3>2. Backing(ps).block \in FileBlock
      BY <2>4, <3>1, InfileFields
    <3>3. AllocFile(ps) = [file EXCEPT ![Backing(ps).block] = phys[Victim(ps)]]
      BY <2>4 DEF AllocFile
    <3> QED
      BY <2>1, <3>2, <3>3
  <2>5. CASE WritesBack(ps) /\ ~OfGhost(ps) /\ Backing(ps).ftype # "FILE_B"
    BY <2>5 DEF AllocFile, ContentsOK
  <2> QED
    BY <2>2, <2>3, <2>4, <2>5
<1> QED
  BY <1>2, <1>3, <1>4, <1>7, <1>8

-----------------------------------------------------------------------------
(* vm_fault.                                                               *)

\* What a fault leaves as it is, whatever comes of it.
Keeps ==
  /\ UNCHANGED <<curr_pid, bound, all_pt, eblcnt, free_block, swfile>>
  /\ FramesOK' /\ MappingOK' /\ ContentsOK'
  /\ ClockComplete'
  /\ SameRecords(infile')

LEMMA SameItself ==
  ASSUME MappingOK
  PROVE  SameRecords(infile)
BY RecordType DEF SameRecords

LEMMA SameMaps ==
  ASSUME MappingOK, NEW g, SameRecords(g), g = [e \in DOMAIN g |-> g[e]]
  PROVE  Maps(g, Pte, Infile)
BY DEF SameRecords, MappingOK, Maps

LEMMA FaultResidentKeeps ==
  ASSUME TypeOK, ClockComplete, NEW e \in DOMAIN infile, NEW w \in BOOLEAN,
         NEW ok, FaultResident(e, w, ok)
  PROVE  Keeps
<1> USE DEF TypeOK
<1> DEFINE p     == pt[e].ppage
           dirty == p # pinned /\ psuff[p].dirty
           seen  == [pt[e] EXCEPT !.read_enable = TRUE,
                                  !.write_enable = @ \/ dirty]
           entry(l) == IF l = e \/ l \in SameBlock(e) THEN seen ELSE pt[l]
<1>1. e \in Pte /\ pt[e] \in Entry /\ p \in Ppage
  BY RecordType DEF MappingOK, Entry
<1>2. seen \in Entry
  BY <1>1 DEF Entry
<1>3. pt' = [l \in Pte |->
              IF w /\ l \in core[p] THEN Granted(entry(l)) ELSE entry(l)]
  BY DEF FaultResident
<1>4. \A l \in Pte : entry(l) \in Entry
  BY <1>2 DEF MappingOK
<1> HIDE DEF entry
<1>5. pt' \in [Pte -> Entry]
  BY <1>3, <1>4, EntryTypes
<1>6. psuff' \in [Frame -> Ppb]
  <2>1. CASE p = pinned
    BY <2>1 DEF FaultResident, FramesOK
  <2>2. CASE p # pinned
    <3>1. p \in Frame /\ psuff[p] \in Ppb
      BY <1>1, <2>2 DEF Frame, FramesOK
    <3>2. psuff' = [psuff EXCEPT ![p] = [ref |-> TRUE, dirty |-> @.dirty \/ w]]
      BY <2>2 DEF FaultResident
    <3> QED
      BY <3>1, <3>2 DEF FramesOK, Ppb
  <2> QED
    BY <2>1, <2>2
<1>7. UNCHANGED <<proc, space, clock_q, free_ppage, ghost, core, infile,
                  filemap, contents>>
  BY DEF FaultResident
<1>8. FramesOK'
  BY <1>6, <1>7 DEF FramesOK
<1>9. MappingOK'
  BY <1>5, <1>7 DEF MappingOK
<1>10. ContentsOK'
  BY <1>7 DEF ContentsOK, contents
<1>11. ClockComplete'
  BY <1>7 DEF ClockComplete
<1>12. SameRecords(infile')
  BY <1>7, SameItself
<1> QED
  BY <1>7, <1>8, <1>9, <1>10, <1>11, <1>12 DEF Keeps, proc, space

LEMMA FaultCowKeeps ==
  ASSUME TypeOK, ClockComplete, NEW e \in DOMAIN infile, NEW ok, FaultCow(e, ok)
  PROVE  Keeps
<1> USE DEF TypeOK
<1> DEFINE p  == pt[e].ppage
           ps == IF p = pinned THEN psuff ELSE [psuff EXCEPT ![p].ref = TRUE]
           n  == Alloc(ps)
<1>1. e \in Pte /\ p \in Ppage
  BY RecordType DEF MappingOK, Entry
<1>2. ps \in [Frame -> Ppb]
  BY <1>1 DEF FramesOK, Frame, Ppb
<1>3. /\ EvictAsserts(ps)
      /\ phys' = [phys EXCEPT ![n] = phys[p]]
      /\ core' = [AllocCore(ps) EXCEPT ![p] = @ \ {e}, ![n] = @ \cup {e}]
      /\ pt' = [AllocPt(ps) EXCEPT ![e] =
                  [ppage |-> n, read_enable |-> TRUE, write_enable |-> TRUE]]
      /\ psuff' = [AllocPsuff(ps) EXCEPT ![n].dirty = TRUE]
      /\ clock_q' = AllocClock(ps)
      /\ free_ppage' = AllocFree(ps)
      /\ infile' = AllocInfile(ps)
      /\ ghost' = AllocGhost(ps)
      /\ filemap' = AllocFilemap(ps)
      /\ swap' = AllocSwap(ps)
      /\ file' = AllocFile(ps)
      /\ UNCHANGED <<proc, space, accessed>>
  BY DEF FaultCow
<1> HIDE DEF ps, p
<1>4. /\ AllocPt(ps) \in [Pte -> Entry]
      /\ SameRecords(AllocInfile(ps))
      /\ Maps(AllocFilemap(ps), FileBlock, Fbp)
      /\ AllocSwap(ps) \in [Block -> Data]
      /\ AllocFile(ps) \in [FileBlock -> Data]
  BY <1>2, <1>3, AllocMapping
<1>5. /\ n \in Frame /\ n \in Ppage
      /\ AllocClock(ps) \in Seq(Frame)
      /\ IsInjective(AllocClock(ps)) /\ Range(AllocClock(ps)) = Frame
      /\ AllocFree(ps) \in Seq(Frame)
      /\ AllocPsuff(ps) \in [Frame -> Ppb]
      /\ Maps(AllocGhost(ps), Frame, FileBlock)
      /\ AllocCore(ps) \in [Ppage -> SUBSET Pte]
  BY <1>2, AllocFrames DEF Frame
<1> HIDE DEF n
<1>6. FramesOK'
  <2>1. psuff' \in [Frame -> Ppb]
    BY <1>3, <1>5 DEF Ppb
  <2>2. core' \in [Ppage -> SUBSET Pte]
    BY <1>1, <1>3, <1>5
  <2> QED
    BY <1>3, <1>5, <2>1, <2>2 DEF FramesOK
<1>7. MappingOK'
  <2>1. pt' \in [Pte -> Entry]
    BY <1>3, <1>4, <1>5 DEF Entry
  <2>2. Maps(infile', Pte, Infile)
    BY <1>3, <1>4, SameMaps DEF AllocInfile
  <2> QED
    BY <1>3, <1>4, <2>1, <2>2 DEF MappingOK
<1>8. ContentsOK'
  BY <1>1, <1>3, <1>4, <1>5 DEF ContentsOK
<1>9. ClockComplete'
  BY <1>3, <1>5 DEF ClockComplete
<1> QED
  BY <1>3, <1>4, <1>6, <1>7, <1>8, <1>9 DEF Keeps, proc, space

LEMMA FaultLoadKeeps ==
  ASSUME TypeOK, ClockComplete, NEW e \in DOMAIN infile, Recorded(e),
         NEW w \in BOOLEAN, NEW ok, FaultLoad(e, w, ok)
  PROVE  Keeps
<1> USE DEF TypeOK
<1> DEFINE b      == infile[e]
           n      == Alloc(psuff)
           isFile == b.ftype = "FILE_B"
           lifted == Lifted(e)
           stale  == AllocCore(psuff)[n]
           copies == w /\ ~isFile /\ Shared(stale \cup lifted)
           grants == w /\ ~copies
           dirty  == grants \/ AllocPsuff(psuff)[n].dirty
<1>1. psuff \in [Frame -> Ppb]
  BY DEF FramesOK
<1>2. /\ EvictAsserts(psuff)
      /\ isFile => b.block \in DOMAIN AllocFilemap(psuff)
      /\ phys' = [phys EXCEPT ![n] = IF isFile THEN AllocFile(psuff)[b.block]
                                    ELSE AllocSwap(psuff)[b.block]]
      /\ accessed' = IF isFile THEN accessed \cup {b.block} ELSE accessed
      /\ infile' = [l \in DOMAIN infile |->
                      IF l \in lifted THEN [infile[l] EXCEPT !.infile = FALSE]
                      ELSE AllocInfile(psuff)[l]]
      /\ pt' = [l \in Pte |->
                  IF l \in lifted
                  THEN [ppage |-> n, read_enable |-> TRUE,
                        write_enable |-> dirty /\ ~copies]
                  ELSE IF grants /\ l \in stale
                  THEN Granted(AllocPt(psuff)[l])
                  ELSE AllocPt(psuff)[l]]
      /\ core' = [AllocCore(psuff) EXCEPT ![n] = @ \cup lifted]
      /\ filemap' = IF isFile
                    THEN [AllocFilemap(psuff) EXCEPT ![b.block].ppage = n]
                    ELSE AllocFilemap(psuff)
      /\ psuff' = [AllocPsuff(psuff) EXCEPT
                     ![n] = [ref |-> TRUE, dirty |-> dirty]]
      /\ clock_q' = AllocClock(psuff)
      /\ free_ppage' = AllocFree(psuff)
      /\ ghost' = AllocGhost(psuff)
      /\ swap' = AllocSwap(psuff)
      /\ file' = AllocFile(psuff)
      /\ UNCHANGED <<proc, space>>
  BY DEF FaultLoad
<1>3. /\ b \in Infile
      /\ isFile => b.block \in FileBlock /\ b.block \in DOMAIN filemap
      /\ ~isFile => b.block \in Block
  BY RecordType, InfileFields DEF Recorded
<1>4. lifted \in SUBSET Pte
  BY <1>3 DEF Lifted, MappingOK, Maps, Fbp, SpaceOK
<1>5. /\ AllocPt(psuff) \in [Pte -> Entry]
      /\ SameRecords(AllocInfile(psuff))
      /\ Maps(AllocFilemap(psuff), FileBlock, Fbp)
      /\ AllocSwap(psuff) \in [Block -> Data]
      /\ AllocFile(psuff) \in [FileBlock -> Data]
  BY <1>1, <1>2, AllocMapping
<1>6. /\ n \in Frame /\ n \in Ppage
      /\ AllocClock(psuff) \in Seq(Frame)
      /\ IsInjective(AllocClock(psuff)) /\ Range(AllocClock(psuff)) = Frame
      /\ AllocFree(psuff) \in Seq(Frame)
      /\ AllocPsuff(psuff) \in [Frame -> Ppb]
      /\ Maps(AllocGhost(psuff), Frame, FileBlock)
      /\ AllocCore(psuff) \in [Ppage -> SUBSET Pte]
  BY <1>1, AllocFrames DEF Frame
<1>7. dirty \in BOOLEAN /\ copies \in BOOLEAN
  BY <1>6 DEF Ppb, Shared
<1> HIDE DEF n, lifted, copies, grants, dirty
<1>8. FramesOK'
  <2>1. psuff' \in [Frame -> Ppb]
    BY <1>2, <1>6, <1>7 DEF Ppb
  <2>2. core' \in [Ppage -> SUBSET Pte]
    BY <1>2, <1>4, <1>6
  <2> QED
    BY <1>2, <1>6, <2>1, <2>2 DEF FramesOK
<1>9. SameRecords(infile')
  <2>1. ASSUME NEW l \in DOMAIN infile
        PROVE  /\ infile'[l] \in Infile
               /\ infile'[l].ftype = infile[l].ftype
               /\ infile'[l].block = infile[l].block
    <3>1. infile[l] \in Infile
      BY RecordType
    <3>2. CASE l \in lifted
      <4>1. infile'[l] = [infile[l] EXCEPT !.infile = FALSE]
        BY <1>2, <3>2
      <4> QED
        BY <3>1, <4>1, InfileUpdate
    <3>3. CASE l \notin lifted
      <4>1. infile'[l] = AllocInfile(psuff)[l]
        BY <1>2, <3>3
      <4> QED
        BY <1>5, <4>1 DEF SameRecords
    <3> QED
      BY <3>2, <3>3
  <2> QED
    BY <1>2, <2>1 DEF SameRecords
<1>10. MappingOK'
  <2>0. \A x \in Entry : Granted(x) \in Entry
    BY DEF Granted, Entry
  <2>1. pt' \in [Pte -> Entry]
    <3>1. [ppage |-> n, read_enable |-> TRUE, write_enable |-> dirty /\ ~copies] \in Entry
      BY <1>6, <1>7 DEF Entry
    <3> QED
      BY <1>2, <1>5, <2>0, <3>1
  <2>2. Maps(infile', Pte, Infile)
    BY <1>2, <1>9, SameMaps
  <2>3. Maps(filemap', FileBlock, Fbp)
    <3>1. CASE isFile
      <4> DEFINE fm == AllocFilemap(psuff)
      <4>1. /\ filemap' = [fm EXCEPT ![b.block].ppage = n]
            /\ DOMAIN fm \subseteq FileBlock /\ fm \in [DOMAIN fm -> Fbp]
        BY <1>2, <1>5, <3>1 DEF Maps
      <4> HIDE DEF fm
      <4>2. ASSUME NEW f \in DOMAIN fm
            PROVE  [fm[f] EXCEPT !.ppage = n] \in Fbp
        <5>1. fm[f] \in Fbp
          BY <4>1
        <5> QED
          BY <1>6, <5>1 DEF Fbp
      <4>3. filemap' \in [DOMAIN fm -> Fbp]
        BY <4>1, <4>2
      <4> QED
        BY <4>1, <4>3 DEF Maps
    <3>2. CASE ~isFile
      BY <1>2, <1>5, <3>2
    <3> QED
      BY <3>1, <3>2
  <2> QED
    BY <2>1, <2>2, <2>3 DEF MappingOK
<1>11. ContentsOK'
  <2>1. phys' \in [Ppage -> Data]
    BY <1>2, <1>3, <1>5, <1>6 DEF ContentsOK
  <2>2. accessed' \subseteq FileBlock
    BY <1>2, <1>3 DEF ContentsOK
  <2> QED
    BY <1>2, <1>5, <2>1, <2>2 DEF ContentsOK
<1>12. ClockComplete'
  BY <1>2, <1>6 DEF ClockComplete
<1> QED
  BY <1>2, <1>8, <1>9, <1>10, <1>11, <1>12 DEF Keeps, proc, space

LEMMA FaultReadFailsKeeps ==
  ASSUME TypeOK, ClockComplete, NEW e \in DOMAIN infile, NEW fail,
         FaultReadFails(e, fail)
  PROVE  Keeps
<1> USE DEF TypeOK
<1> DEFINE n == Alloc(psuff)
<1>1. psuff \in [Frame -> Ppb]
  BY DEF FramesOK
<1>2. /\ EvictAsserts(psuff)
      /\ free_ppage' = Append(AllocFree(psuff), n)
      /\ psuff' = [AllocPsuff(psuff) EXCEPT
                     ![n] = [ref |-> FALSE, dirty |-> FALSE]]
      /\ clock_q' = AllocClock(psuff)
      /\ pt' = AllocPt(psuff)
      /\ infile' = AllocInfile(psuff)
      /\ core' = AllocCore(psuff)
      /\ ghost' = AllocGhost(psuff)
      /\ filemap' = AllocFilemap(psuff)
      /\ swap' = AllocSwap(psuff)
      /\ file' = AllocFile(psuff)
      /\ UNCHANGED <<proc, space, phys, accessed>>
  BY DEF FaultReadFails
<1>3. /\ AllocPt(psuff) \in [Pte -> Entry]
      /\ SameRecords(AllocInfile(psuff))
      /\ Maps(AllocFilemap(psuff), FileBlock, Fbp)
      /\ AllocSwap(psuff) \in [Block -> Data]
      /\ AllocFile(psuff) \in [FileBlock -> Data]
  BY <1>1, <1>2, AllocMapping
<1>4. /\ n \in Frame
      /\ AllocClock(psuff) \in Seq(Frame)
      /\ IsInjective(AllocClock(psuff)) /\ Range(AllocClock(psuff)) = Frame
      /\ AllocFree(psuff) \in Seq(Frame)
      /\ AllocPsuff(psuff) \in [Frame -> Ppb]
      /\ Maps(AllocGhost(psuff), Frame, FileBlock)
      /\ AllocCore(psuff) \in [Ppage -> SUBSET Pte]
  BY <1>1, AllocFrames
<1> HIDE DEF n
<1>5. FramesOK'
  <2>1. free_ppage' \in Seq(Frame)
    BY <1>2, <1>4, AppendProperties
  <2>2. psuff' \in [Frame -> Ppb]
    BY <1>2, <1>4 DEF Ppb
  <2> QED
    BY <1>2, <1>4, <2>1, <2>2 DEF FramesOK
<1>6. MappingOK'
  <2>1. Maps(infile', Pte, Infile)
    BY <1>2, <1>3, SameMaps DEF AllocInfile
  <2> QED
    BY <1>2, <1>3, <2>1 DEF MappingOK
<1>7. ContentsOK' /\ ClockComplete'
  BY <1>2, <1>3, <1>4 DEF ContentsOK, ClockComplete
<1> QED
  BY <1>2, <1>3, <1>5, <1>6, <1>7 DEF Keeps, proc, space

LEMMA FaultTypes ==
  ASSUME TypeOK, ClockComplete, NEW v, NEW w \in BOOLEAN, NEW ok, NEW fail,
         vm_fault(v, w, ok, fail)
  PROVE  Keeps /\ call' \in {ok, fail}
<1>1. CASE FaultInvalid(v, fail)
  <2>1. UNCHANGED <<proc, space, frames, mapping, contents>> /\ call' = fail
    BY <1>1 DEF FaultInvalid
  <2> QED
    BY <2>1, SameItself
    DEF Keeps, proc, space, frames, mapping, contents, TypeOK, FramesOK,
        MappingOK, ContentsOK, ClockComplete
<1>2. ASSUME Recorded(Mine(v)), FaultResident(Mine(v), w, ok)
      PROVE  Keeps /\ call' = ok
  BY <1>2, FaultResidentKeeps DEF Recorded, FaultResident
<1>3. ASSUME Recorded(Mine(v)), FaultCow(Mine(v), ok)
      PROVE  Keeps /\ call' = ok
  BY <1>3, FaultCowKeeps DEF Recorded, FaultCow
<1>4. ASSUME Recorded(Mine(v)), FaultLoad(Mine(v), w, ok)
      PROVE  Keeps /\ call' = ok
  BY <1>4, FaultLoadKeeps DEF Recorded, FaultLoad
<1>5. ASSUME Recorded(Mine(v)), FaultReadFails(Mine(v), fail)
      PROVE  Keeps /\ call' = fail
  BY <1>5, FaultReadFailsKeeps DEF Recorded, FaultReadFails
<1> QED
  BY <1>1, <1>2, <1>3, <1>4, <1>5 DEF vm_fault

-----------------------------------------------------------------------------
(* The inductive invariant.  The type of the ghosts needs FileFrames (a    *)
(* file page in memory is never in the zero page), which needs Listed (the *)
(* entries filemap lists are of file pages); bound stays in the arena      *)
(* because a name is looked up only while there is room; and the types of  *)
(* what vm_create copies need the records and the count of swap pages of   *)
(* the parent to be right.                                                 *)

NameRoom == call.op = "string" => bound # NPages

Listed ==
  \A f \in DOMAIN filemap : \A e \in filemap[f].vpset :
    e \in DOMAIN infile /\ ~IsSwap(e) /\ infile[e].block = f

FileFrames ==
  \A e \in DOMAIN infile : ~IsSwap(e) /\ Resident(e) => pt[e].ppage # pinned

IInv ==
  /\ TypeOK
  /\ ClockComplete
  /\ NameRoom
  /\ RecordsLive
  /\ NumswCounts
  /\ Listed
  /\ FileFrames

-----------------------------------------------------------------------------
(* Faults keep it.                                                         *)

LEMMA AllocLeaves ==
  ASSUME TypeOK, NEW ps
  PROVE  /\ \A l \in Pte : AllocPt(ps)[l].ppage = pt[l].ppage
         /\ \A l \in DOMAIN infile :
              ~AllocInfile(ps)[l].infile => ~infile[l].infile
         /\ \A f \in DOMAIN AllocFilemap(ps) :
              f \in DOMAIN filemap /\ AllocFilemap(ps)[f] = filemap[f]
<1>1. \A l \in Pte : AllocPt(ps)[l].ppage = pt[l].ppage
  BY DEF AllocPt, Revoked, TypeOK, MappingOK, Entry
<1>2. ASSUME NEW l \in DOMAIN infile, ~AllocInfile(ps)[l].infile
      PROVE  ~infile[l].infile
  <2>1. infile[l] \in Infile
    BY RecordType DEF TypeOK
  <2>2. [infile[l] EXCEPT !.infile = TRUE].infile = TRUE
    BY <2>1, InfileUpdate
  <2>3. AllocInfile(ps)[l] = [infile[l] EXCEPT !.infile = TRUE]
        \/ AllocInfile(ps)[l] = infile[l]
    BY DEF AllocInfile
  <2> QED
    BY <1>2, <2>2, <2>3
<1>3. ASSUME NEW f \in DOMAIN AllocFilemap(ps)
      PROVE  f \in DOMAIN filemap /\ AllocFilemap(ps)[f] = filemap[f]
  BY DEF AllocFilemap, Drop, Restrict
<1> QED
  BY <1>1, <1>2, <1>3

\* The entries and the frame that a fault leaves each block and page.
FaultLeaves ==
  /\ \A f \in DOMAIN filemap' :
       f \in DOMAIN filemap /\ filemap'[f].vpset = filemap[f].vpset
  /\ \A l \in DOMAIN infile :
       ~infile'[l].infile => pt'[l].ppage # pinned
                             \/ (~infile[l].infile /\ pt'[l].ppage = pt[l].ppage)

LEMMA FaultPages ==
  ASSUME TypeOK, ClockComplete, NEW v, NEW w \in BOOLEAN, NEW ok, NEW fail,
         vm_fault(v, w, ok, fail)
  PROVE  FaultLeaves
<1> DEFINE e == Mine(v)
<1>0. DOMAIN infile \subseteq Pte /\ psuff \in [Frame -> Ppb]
  BY RecordType DEF TypeOK, FramesOK
<1>1. CASE FaultInvalid(v, fail)
  BY <1>1 DEF FaultInvalid, FaultLeaves, mapping
<1>2. ASSUME Recorded(e), FaultResident(e, w, ok)
      PROVE  FaultLeaves
  <2> DEFINE p     == pt[e].ppage
             dirty == p # pinned /\ psuff[p].dirty
             seen  == [pt[e] EXCEPT !.read_enable = TRUE,
                                    !.write_enable = @ \/ dirty]
             entry(l) == IF l = e \/ l \in SameBlock(e) THEN seen ELSE pt[l]
  <2>1. pt' = [l \in Pte |->
                IF w /\ l \in core[p] THEN Granted(entry(l)) ELSE entry(l)]
    BY <1>2 DEF FaultResident
  <2>2. infile' = infile /\ filemap' = filemap
    BY <1>2 DEF FaultResident
  <2>3. e \in Pte /\ pt[e] \in Entry
    BY <1>0, <1>2 DEF Recorded, TypeOK, MappingOK
  <2>4. seen \in Entry /\ seen.ppage = p
    BY <2>3 DEF Entry
  <2>5. \A l \in Pte : entry(l) \in Entry
    BY <2>4 DEF TypeOK, MappingOK
  <2>6. \A l \in Pte : entry(l).ppage = pt[l].ppage \/ entry(l).ppage # pinned
    <3> TAKE l \in Pte
    <3>1. CASE l = e
      BY <2>4, <3>1
    <3>2. CASE l # e /\ l \in SameBlock(e)
      <4>1. p # pinned
        BY <3>2 DEF SameBlock
      <4> QED
        BY <2>4, <3>2, <4>1
    <3>3. CASE l # e /\ l \notin SameBlock(e)
      BY <3>3
    <3> QED
      BY <3>1, <3>2, <3>3
  <2> HIDE DEF entry
  <2>7. \A l \in Pte : pt'[l].ppage = entry(l).ppage
    BY <2>1, <2>5 DEF Granted, Entry
  <2> QED
    BY <1>0, <2>2, <2>6, <2>7 DEF FaultLeaves
<1>3. ASSUME Recorded(e), FaultCow(e, ok)
      PROVE  FaultLeaves
  <2> DEFINE p  == pt[e].ppage
             ps == IF p = pinned THEN psuff ELSE [psuff EXCEPT ![p].ref = TRUE]
             n  == Alloc(ps)
  <2>1. e \in Pte /\ p \in Ppage
    BY <1>0, <1>3 DEF Recorded, TypeOK, MappingOK, Entry
  <2>2. ps \in [Frame -> Ppb]
    BY <1>0, <2>1 DEF Frame, Ppb
  <2>3. n \in Frame /\ AllocPt(ps) \in [Pte -> Entry]
    BY <1>3, <2>2, AllocFrames, AllocMapping DEF FaultCow, TypeOK
  <2>4. /\ pt' = [AllocPt(ps) EXCEPT ![e] =
                    [ppage |-> n, read_enable |-> TRUE, write_enable |-> TRUE]]
        /\ infile' = AllocInfile(ps)
        /\ filemap' = AllocFilemap(ps)
    BY <1>3 DEF FaultCow
  <2> HIDE DEF ps, p, n
  <2>5. n # pinned
    BY <2>3 DEF Frame
  <2> QED
    BY <1>0, <2>1, <2>3, <2>4, <2>5, AllocLeaves DEF FaultLeaves
<1>4. ASSUME Recorded(e), FaultLoad(e, w, ok)
      PROVE  FaultLeaves
  <2> DEFINE b      == infile[e]
             n      == Alloc(psuff)
             isFile == b.ftype = "FILE_B"
             lifted == Lifted(e)
             stale  == AllocCore(psuff)[n]
             copies == w /\ ~isFile /\ Shared(stale \cup lifted)
             grants == w /\ ~copies
             dirty  == grants \/ AllocPsuff(psuff)[n].dirty
  <2>1. /\ pt' = [l \in Pte |->
                    IF l \in lifted
                    THEN [ppage |-> n, read_enable |-> TRUE,
                          write_enable |-> dirty /\ ~copies]
                    ELSE IF grants /\ l \in stale
                    THEN Granted(AllocPt(psuff)[l])
                    ELSE AllocPt(psuff)[l]]
        /\ infile' = [l \in DOMAIN infile |->
                        IF l \in lifted THEN [infile[l] EXCEPT !.infile = FALSE]
                        ELSE AllocInfile(psuff)[l]]
        /\ filemap' = IF isFile
                      THEN [AllocFilemap(psuff) EXCEPT ![b.block].ppage = n]
                      ELSE AllocFilemap(psuff)
        /\ EvictAsserts(psuff)
    BY <1>4 DEF FaultLoad
  <2>2. n # pinned
    BY <1>0, AllocFrames DEF Frame, TypeOK
  <2>3. Maps(AllocFilemap(psuff), FileBlock, Fbp)
    BY <1>0, <2>1, AllocMapping
  <2>3a. AllocPt(psuff) \in [Pte -> Entry]
    BY <1>0, <2>1, AllocMapping
  <2> HIDE DEF n, lifted, stale, copies, grants, dirty
  <2>3b. \A x \in Entry : Granted(x).ppage = x.ppage
    BY DEF Granted, Entry
  <2>4. ASSUME NEW f \in DOMAIN filemap'
        PROVE  f \in DOMAIN filemap /\ filemap'[f].vpset = filemap[f].vpset
    <3>1. DOMAIN filemap' = DOMAIN AllocFilemap(psuff)
      BY <2>1
    <3>2. filemap'[f].vpset = AllocFilemap(psuff)[f].vpset
      BY <2>1, <2>3, <3>1 DEF Maps, Fbp
    <3> QED
      BY <3>1, <3>2, AllocLeaves
  <2>5. ASSUME NEW l \in DOMAIN infile, ~infile'[l].infile
        PROVE  pt'[l].ppage # pinned
               \/ (~infile[l].infile /\ pt'[l].ppage = pt[l].ppage)
    <3>1. CASE l \in lifted
      BY <1>0, <2>1, <2>2, <3>1
    <3>2. CASE l \notin lifted
      <4>1. l \in Pte
        BY <1>0
      <4>2. pt'[l].ppage = AllocPt(psuff)[l].ppage
        BY <2>1, <2>3a, <2>3b, <3>2, <4>1
      <4>3. infile'[l] = AllocInfile(psuff)[l]
        BY <2>1, <3>2
      <4> QED
        BY <1>0, <2>5, <3>2, <4>2, <4>3, AllocLeaves
    <3> QED
      BY <3>1, <3>2
  <2> QED
    BY <2>4, <2>5 DEF FaultLeaves
<1>5. ASSUME Recorded(e), FaultReadFails(e, fail)
      PROVE  FaultLeaves
  <2>1. /\ pt' = AllocPt(psuff)
        /\ infile' = AllocInfile(psuff)
        /\ filemap' = AllocFilemap(psuff)
    BY <1>5 DEF FaultReadFails
  <2> QED
    BY <1>0, <2>1, AllocLeaves DEF FaultLeaves
<1> QED
  BY <1>1, <1>2, <1>3, <1>4, <1>5 DEF vm_fault

\* The processes whose pages are all mapped: vm_destroy is not discarding them.
Staying == DOMAIN all_pt \ (IF call.op = "exit" THEN {curr_pid} ELSE {})

\* SwapBefore as a function of the records, so that it can be compared between
\* two maps of them and two processes.
SeatSet(f, p, k) == {i \in 0..(k - 1) : f[<<p, i>>].ftype = "SWAP"}
Seats(f, p, k)   == Cardinality(SeatSet(f, p, k))

LEMMA SwapBeforeSeats ==
  \A p, k : SwapBefore(p, k) = Seats(infile, p, k)
BY DEF SwapBefore, Seats, SeatSet

LEMMA CountedSeats ==
  /\ NumswCounts <=> \A p \in Staying :
       all_pt[p].numsw = Seats(infile, p, all_pt[p].size)
  /\ NumswCounts' <=> \A p \in Staying' :
       all_pt'[p].numsw = Seats(infile', p, all_pt'[p].size)
BY DEF NumswCounts, Staying, SwapBefore, Seats, SeatSet

LEMMA SameSeats ==
  ASSUME NEW f, NEW g, NEW p, NEW q, NEW k,
         \A i \in 0..(k - 1) : g[<<q, i>>].ftype = f[<<p, i>>].ftype
  PROVE  Seats(g, q, k) = Seats(f, p, k)
<1>1. SeatSet(g, q, k) = SeatSet(f, p, k)
  BY DEF SeatSet
<1> QED
  BY <1>1 DEF Seats

LEMMA StayingPages ==
  ASSUME IInv, NEW p \in Staying
  PROVE  /\ p \in Pid
         /\ all_pt[p].size \in 0..NPages /\ all_pt[p].numsw \in Nat
         /\ \A i \in 0..(all_pt[p].size - 1) :
              i \in Vpage /\ <<p, i>> \in DOMAIN infile
         /\ all_pt[p].numsw = Seats(infile, p, all_pt[p].size)
<1>1. /\ p \in Pid
      /\ all_pt[p].size \in 0..NPages /\ all_pt[p].numsw \in Nat
  BY DEF IInv, TypeOK, ProcOK, Maps, Pt, Staying
<1>2. ASSUME NEW i \in 0..(all_pt[p].size - 1)
      PROVE  i \in Vpage /\ <<p, i>> \in DOMAIN infile
  <2>1. i \in Vpage
    BY <1>1, SizeAssumption, PCntAssumption DEF Vpage
  <2>2. <<p, i>> \in Live
    BY <1>1, <2>1 DEF Live, Pte, Staying
  <2> QED
    BY <2>1, <2>2 DEF IInv, RecordsLive
<1>3. all_pt[p].numsw = Seats(infile, p, all_pt[p].size)
  BY CountedSeats DEF IInv
<1> QED
  BY <1>1, <1>2, <1>3

\* A step of a running process that changes no arena.
LEMMA ServiceStep ==
  ASSUME IInv, Keeps, FaultLeaves,
         call' \in Call,
         call.op \notin {"none", "exit"},
         call'.op # "none",
         call'.op = "exit" => call'.vp = 0,
         call'.op = "string" => bound # NPages
  PROVE  IInv'
<1> USE DEF Keeps
<1>1. TypeOK'
  BY DEF IInv, TypeOK, ProcOK, SpaceOK
<1>2. ClockComplete' /\ NameRoom'
  BY DEF NameRoom
<1>3. Live' = Live
  <2>1. \A e \in Pte : ~(e[2] < 0)
    BY SizeAssumption, PCntAssumption DEF Pte, Vpage
  <2>2. \A e \in Pte : (e \in Live)' <=> e \in Live
    BY <2>1 DEF Live
  <2> QED
    BY <2>2 DEF Live
<1>4. RecordsLive'
  BY <1>3 DEF IInv, RecordsLive, SameRecords
<1>5. NumswCounts'
  <2>1. ASSUME NEW p \in DOMAIN all_pt
        PROVE  all_pt[p].numsw = Seats(infile', p, all_pt[p].size)
    <3>1. p \in Staying
      BY DEF Staying
    <3>2. \A i \in 0..(all_pt[p].size - 1) : <<p, i>> \in DOMAIN infile
      BY <3>1, StayingPages
    <3>3. Seats(infile', p, all_pt[p].size) = Seats(infile, p, all_pt[p].size)
      BY <3>2, SameSeats DEF SameRecords
    <3> QED
      BY <3>1, <3>3, StayingPages
  <2> QED
    BY <2>1, CountedSeats DEF Staying
<1>6. Listed'
  BY DEF IInv, Listed, FaultLeaves, SameRecords, IsSwap
<1>7. FileFrames'
  BY DEF IInv, FileFrames, FaultLeaves, SameRecords, IsSwap, Resident
<1> QED
  BY <1>1, <1>2, <1>4, <1>5, <1>6, <1>7 DEF IInv

\* A step that moves on without touching what the pager keeps.
LEMMA QuietStep ==
  ASSUME IInv, UNCHANGED <<proc, space, frames, mapping>>, ContentsOK'
  PROVE  Keeps /\ FaultLeaves
<1> USE DEF proc, space, frames, mapping
<1>1. FramesOK' /\ MappingOK' /\ ClockComplete'
  BY DEF IInv, TypeOK, FramesOK, MappingOK, ClockComplete
<1>2. SameRecords(infile')
  BY SameItself DEF IInv, TypeOK
<1> QED
  BY <1>1, <1>2 DEF Keeps, FaultLeaves

LEMMA AccessStep ==
  ASSUME IInv, Access
  PROVE  IInv'
<1>0. PICK v \in Vpage : \/ \E w \in BOOLEAN : AppFault(v, w)
                         \/ \E d \in Data : Store(v, d)
                         \/ Reload(v)
  BY DEF Access
<1>1. v \in 0..NPages /\ 0 \in 0..NPages /\ FBlock # {}
  BY SizeAssumption, PCntAssumption, DataAssumption DEF Vpage
<1>2. \A w \in BOOLEAN : /\ Retry(v, w) \in Call /\ Retry(v, w).op = "retry"
                         /\ Exit(0) \in Call /\ Exit(0).op = "exit"
                         /\ Exit(0).vp = 0
                         /\ Run \in Call /\ Run.op = "run"
  BY <1>1, CallsOK
<1>3. ASSUME NEW w \in BOOLEAN, AppFault(v, w)
      PROVE  IInv'
  <2>1. call.op \in {"run", "retry"}
    BY <1>2, <1>3 DEF AppFault, Idle
  <2>2. vm_fault(v, w, Retry(v, w), Exit(0))
    BY <1>3 DEF AppFault
  <2>3. Keeps /\ FaultLeaves /\ call' \in {Retry(v, w), Exit(0)}
    BY <2>2, FaultTypes, FaultPages DEF IInv
  <2> QED
    BY <1>2, <2>1, <2>3, ServiceStep
<1>4. ASSUME NEW d \in Data, Store(v, d)
      PROVE  IInv'
  <2>1. call.op \in {"run", "retry"}
    BY <1>2, <1>4 DEF Store, Idle
  <2>2. ContentsOK'
    BY <1>4 DEF Store, IInv, TypeOK, ContentsOK
  <2>3. UNCHANGED <<proc, space, frames, mapping>> /\ call' = Run
    BY <1>4 DEF Store
  <2>4. Keeps /\ FaultLeaves
    BY <2>2, <2>3, QuietStep
  <2> QED
    BY <1>2, <2>1, <2>3, <2>4, ServiceStep
<1>5. ASSUME Reload(v)
      PROVE  IInv'
  <2>1. call.op = "retry"
    BY <1>2, <1>5 DEF Reload
  <2>2. UNCHANGED <<proc, space, frames, mapping, contents>> /\ call' = Run
    BY <1>5 DEF Reload
  <2>3. ContentsOK'
    BY <2>2 DEF IInv, TypeOK, ContentsOK, contents
  <2>4. Keeps /\ FaultLeaves
    BY <2>2, <2>3, QuietStep
  <2> QED
    BY <1>2, <2>1, <2>2, <2>4, ServiceStep
<1> QED
  BY <1>0, <1>3, <1>4, <1>5

LEMMA NameStep ==
  ASSUME IInv, Name
  PROVE  IInv'
<1>0. PICK v \in Vpage, b \in FBlock : NameFault(v, b) \/ NameSpills(v, b)
  BY DEF Name
<1>1. v \in 0..NPages /\ v + 1 \in 0..NPages
  BY SizeAssumption, PCntAssumption DEF Vpage
<1>2. /\ Str(v, b) \in Call /\ Str(v, b).op = "string"
      /\ Str(v + 1, b) \in Call /\ Str(v + 1, b).op = "string"
      /\ Run \in Call /\ Run.op = "run"
  <2>1. \A u \in 0..NPages :
          /\ Str(u, b) \in Call /\ Str(u, b).op = "string"
          /\ Run \in Call /\ Run.op = "run"
    BY CallsOK
  <2> QED
    BY <1>1, <2>1
<1>3. Reading(v, b)
  BY <1>0 DEF NameFault, NameSpills
<1>4. call.op \in {"run", "string"} /\ bound # NPages
  BY <1>2, <1>3 DEF Reading, Idle, IInv, NameRoom
<1>5. ASSUME NameFault(v, b)
      PROVE  IInv'
  <2>1. vm_fault(v, FALSE, Str(v, b), Run)
    BY <1>5 DEF NameFault
  <2>2. Keeps /\ FaultLeaves /\ call' \in {Str(v, b), Run}
    BY <2>1, FaultTypes, FaultPages DEF IInv
  <2> QED
    BY <1>2, <1>4, <2>2, ServiceStep
<1>6. ASSUME NameSpills(v, b)
      PROVE  IInv'
  <2>1. UNCHANGED <<proc, space, frames, mapping, contents>> /\ call' = Str(v + 1, b)
    BY <1>6 DEF NameSpills
  <2>2. ContentsOK'
    BY <2>1 DEF IInv, TypeOK, ContentsOK, contents
  <2>3. Keeps /\ FaultLeaves
    BY <2>1, <2>2, QuietStep
  <2> QED
    BY <1>2, <1>4, <2>1, <2>3, ServiceStep
<1> QED
  BY <1>0, <1>5, <1>6

LEMMA SwitchStep ==
  ASSUME IInv, NEW p \in Pid, vm_switch(p)
  PROVE  IInv'
<1> USE DEF vm_switch, proc, space, frames, mapping, contents
<1>1. Run \in Call /\ Run.op = "run"
  <2>1. 0 \in 0..NPages /\ \E c \in FBlock : TRUE
    BY SizeAssumption, PCntAssumption, DataAssumption
  <2> QED
    BY <2>1, CallsOK
<1>2. all_pt[p].size \in 0..NPages
  BY DEF IInv, TypeOK, ProcOK, Maps, Pt
<1>3. TypeOK'
  BY <1>1, <1>2
  DEF IInv, TypeOK, ProcOK, SpaceOK, FramesOK, MappingOK, ContentsOK
<1>4. call.op # "exit" /\ call'.op # "exit" /\ NameRoom'
  BY <1>1 DEF Kernel, NameRoom
<1>5. Live' = Live
  BY <1>4 DEF Live
<1>6. NumswCounts'
  BY <1>4 DEF IInv, NumswCounts, SwapBefore
<1> QED
  BY <1>3, <1>4, <1>5, <1>6
  DEF IInv, RecordsLive, ClockComplete, Listed, FileFrames, IsSwap, Resident

LEMMA DestroyTableStep ==
  ASSUME IInv, NEW v \in 0..NPages, DestroyTable(v)
  PROVE  IInv'
<1> USE DEF DestroyTable, space, frames, contents
<1>1. \E c \in FBlock : TRUE
  BY DataAssumption
<1>2. /\ None \in Call /\ None.op = "none"
      /\ Run.op = "run"
      /\ Exit(v).op = "exit" /\ Exit(v).vp = v
  BY <1>1, CallsOK
<1>3. v = all_pt[curr_pid].size /\ infile' = infile
  OBVIOUS
<1>4. /\ DOMAIN all_pt' = DOMAIN all_pt \ {curr_pid}
      /\ \A p \in DOMAIN all_pt' : all_pt'[p] = all_pt[p]
      /\ Maps(all_pt', Pid, Pt)
  BY DropMaps DEF IInv, TypeOK, ProcOK, Drop, Restrict
<1>5. TypeOK'
  <2>1. pt' \in [Pte -> Entry]
    BY EntryTypes DEF IInv, TypeOK, MappingOK
  <2>2. ProcOK'
    BY <1>2, <1>4 DEF IInv, TypeOK, ProcOK
  <2> QED
    BY <2>1, <2>2 DEF IInv, TypeOK, SpaceOK, FramesOK, MappingOK, ContentsOK
<1>6. Live' = Live
  <2>1. \A e \in Pte : (e \in Live)' <=> e \in Live
    <3> TAKE e \in Pte
    <3>1. e[2] \in Vpage
      BY DEF Pte
    <3>2. CASE e[1] = curr_pid
      <4>1. e \notin Live
        <5>1. CASE Idle /\ v = 0
          <6>1. ~(e[2] < all_pt[e[1]].size)
            BY <1>3, <3>1, <3>2, <5>1, SizeAssumption, PCntAssumption DEF Vpage
          <6> QED
            BY <6>1 DEF Live
        <5>2. CASE call = Exit(v)
          <6>1. /\ e[2] < all_pt[e[1]].size => e[2] < call.vp
                /\ call.op = "exit"
            BY <1>2, <1>3, <3>2, <5>2
          <6> QED
            BY <3>2, <6>1 DEF Live
        <5> QED
          BY <5>1, <5>2 DEF Exiting
      <4> QED
        BY <1>4, <3>2, <4>1 DEF Live
    <3>3. CASE e[1] # curr_pid
      BY <1>2, <1>4, <3>3 DEF Live
    <3> QED
      BY <3>2, <3>3
  <2> QED
    BY <2>1 DEF Live
<1>7. NumswCounts'
  <2>1. ASSUME NEW p \in DOMAIN all_pt'
        PROVE  all_pt'[p].numsw = Seats(infile', p, all_pt'[p].size)
    <3>1. p \in Staying
      BY <1>4 DEF Staying
    <3> QED
      BY <1>3, <1>4, <3>1, StayingPages
  <2> QED
    BY <2>1, CountedSeats DEF Staying
<1>8. FileFrames'
  <2>1. ASSUME NEW e \in DOMAIN infile
        PROVE  pt'[e] = pt[e]
    <3>1. e \in Pte /\ e \in Live'
      BY <1>6, RecordType DEF IInv, TypeOK, RecordsLive
    <3>2. e[1] # curr_pid
      BY <1>4, <3>1 DEF Live
    <3> QED
      BY <3>1, <3>2
  <2> QED
    BY <2>1 DEF IInv, FileFrames, IsSwap, Resident
<1> QED
  BY <1>2, <1>5, <1>6, <1>7, <1>8
  DEF IInv, NameRoom, RecordsLive, ClockComplete, Listed, IsSwap

-----------------------------------------------------------------------------
(* Counting swap pages.                                                    *)

LEMMA SeatSetFinite ==
  ASSUME NEW f, NEW p, NEW k \in Nat
  PROVE  IsFiniteSet(SeatSet(f, p, k)) /\ Seats(f, p, k) \in Nat
<1>1. IsFiniteSet(0..(k - 1)) /\ SeatSet(f, p, k) \in SUBSET (0..(k - 1))
  BY FS_Interval DEF SeatSet
<1>2. IsFiniteSet(SeatSet(f, p, k))
  BY <1>1, FS_Subset
<1> QED
  BY <1>2, FS_CardinalityType DEF Seats

LEMMA NextSeat ==
  ASSUME NEW f, NEW p, NEW k \in Nat
  PROVE  Seats(f, p, k + 1)
           = Seats(f, p, k) + (IF f[<<p, k>>].ftype = "SWAP" THEN 1 ELSE 0)
<1>1. SeatSet(f, p, k + 1) = IF f[<<p, k>>].ftype = "SWAP"
                             THEN SeatSet(f, p, k) \cup {k}
                             ELSE SeatSet(f, p, k)
  BY DEF SeatSet
<1>2. k \notin SeatSet(f, p, k)
  BY DEF SeatSet
<1>3. Cardinality(SeatSet(f, p, k) \cup {k}) = Cardinality(SeatSet(f, p, k)) + 1
  BY <1>2, SeatSetFinite, FS_AddElement
<1>4. Cardinality(SeatSet(f, p, k)) \in Nat
  BY SeatSetFinite DEF Seats
<1> QED
  BY <1>1, <1>3, <1>4 DEF Seats

\* vm_create gives each swap page a block of its own among the first numsw.
LEMMA SeatInRange ==
  ASSUME NEW f, NEW p, NEW n \in Nat, NEW i \in 0..(n - 1),
         f[<<p, i>>].ftype = "SWAP"
  PROVE  Seats(f, p, i) + 1 \in 1..Seats(f, p, n)
<1>1. i \in Nat /\ i + 1 \in Nat
  OBVIOUS
<1>2. SeatSet(f, p, i + 1) \in SUBSET SeatSet(f, p, n)
  BY DEF SeatSet
<1>3. Seats(f, p, i + 1) <= Seats(f, p, n)
  BY <1>2, SeatSetFinite, FS_Subset DEF Seats
<1>4. Seats(f, p, i + 1) = Seats(f, p, i) + 1
  BY <1>1, NextSeat
<1>5. Seats(f, p, i) \in Nat /\ Seats(f, p, n) \in Nat
  BY <1>1, SeatSetFinite
<1> QED
  BY <1>3, <1>4, <1>5

LEMMA WrapsInWord ==
  ASSUME NEW x \in Int
  PROVE  x % Word \in 0..(Word - 1)
BY SizeAssumption, PCntAssumption

-----------------------------------------------------------------------------
(* vm_map keeps the invariant.                                             *)

\* What either kind of vm_map does to the arena: one page more, one record more.
Grows(record, swaps) ==
  /\ infile' = Put(infile, NewEntry, record)
  /\ all_pt' = [all_pt EXCEPT ![curr_pid] =
                  [size |-> @.size + 1, numsw |-> @.numsw + swaps]]
  /\ bound' = bound + 1
  /\ curr_pid' = curr_pid
  /\ call' \in Call /\ call'.op = "run"

LEMMA MapGrows ==
  ASSUME IInv, call.op \notin {"none", "exit"}, bound # NPages,
         NEW record \in Infile,
         Grows(record, IF record.ftype = "SWAP" THEN 1 ELSE 0)
  PROVE  /\ NewEntry \in Pte /\ NewEntry \notin DOMAIN infile
         /\ ProcOK' /\ Maps(infile', Pte, Infile)
         /\ RecordsLive' /\ NumswCounts' /\ NameRoom'
<1> DEFINE swaps == IF record.ftype = "SWAP" THEN 1 ELSE 0
           size  == all_pt[curr_pid].size
<1>0. /\ infile' = Put(infile, NewEntry, record)
      /\ all_pt' = [all_pt EXCEPT ![curr_pid] =
                      [size |-> @.size + 1, numsw |-> @.numsw + swaps]]
      /\ bound' = bound + 1
      /\ curr_pid' = curr_pid
      /\ call' \in Call /\ call'.op = "run"
      /\ swaps \in {0, 1}
  BY DEF Grows
<1>1. /\ curr_pid \in DOMAIN all_pt /\ curr_pid \in Pid
      /\ bound = size /\ size \in 0..(NPages - 1)
      /\ all_pt[curr_pid] \in Pt /\ all_pt[curr_pid].numsw \in Nat
      /\ Maps(all_pt, Pid, Pt)
  BY SizeAssumption, PCntAssumption DEF IInv, TypeOK, ProcOK, Maps, Pt
<1>2. NewEntry = <<curr_pid, size>> /\ NewEntry \in Pte
  BY <1>1 DEF NewEntry, Mine, Pte, Vpage
<1>3. NewEntry \notin DOMAIN infile
  BY <1>1, <1>2 DEF IInv, RecordsLive, Live
<1> HIDE DEF swaps
<1>4. /\ DOMAIN all_pt' = DOMAIN all_pt
      /\ all_pt'[curr_pid] = [size |-> size + 1,
                              numsw |-> all_pt[curr_pid].numsw + swaps]
      /\ \A p \in DOMAIN all_pt \ {curr_pid} : all_pt'[p] = all_pt[p]
  BY <1>0, <1>1 DEF Maps
<1>5. ProcOK'
  <2>1. all_pt'[curr_pid] \in Pt
    BY <1>0, <1>1, <1>4, SizeAssumption, PCntAssumption DEF Pt
  <2>2. Maps(all_pt', Pid, Pt)
    BY <1>0, <1>1, <1>4, <2>1 DEF Maps
  <2>3. bound' \in 0..NPages
    BY <1>0, <1>1, SizeAssumption, PCntAssumption
  <2> QED
    BY <1>0, <1>1, <1>4, <2>2, <2>3 DEF ProcOK, IInv, TypeOK
<1>6. Maps(infile', Pte, Infile)
  BY <1>0, <1>2, PutMaps DEF IInv, TypeOK, MappingOK
<1>7. Live' = Live \cup {NewEntry}
  <2>1. \A e \in Pte : (e \in Live)' <=> e \in Live \/ e = NewEntry
    <3> TAKE e \in Pte
    <3>1. e = <<e[1], e[2]>> /\ e[2] \in Int
      BY SizeAssumption, PCntAssumption DEF Pte, Vpage
    <3>2. CASE e[1] = curr_pid
      <4>1. e[2] < size + 1 <=> e[2] < size \/ e[2] = size
        BY <1>1, <3>1
      <4> QED
        BY <1>0, <1>1, <1>2, <1>4, <3>1, <3>2, <4>1 DEF Live
    <3>3. CASE e[1] # curr_pid
      BY <1>0, <1>2, <1>4, <3>3 DEF Live
    <3> QED
      BY <3>2, <3>3
  <2> QED
    BY <1>2, <2>1 DEF Live
<1>8. /\ DOMAIN infile' = DOMAIN infile \cup {NewEntry}
      /\ infile'[NewEntry] = record
      /\ \A e \in DOMAIN infile : infile'[e] = infile[e]
  BY <1>0, <1>3 DEF Put
<1>9. RecordsLive'
  BY <1>7, <1>8 DEF IInv, RecordsLive
<1>10. NumswCounts'
  <2>1. ASSUME NEW p \in DOMAIN all_pt
        PROVE  Seats(infile', p, all_pt[p].size) = all_pt[p].numsw
    <3>1. p \in Staying
      BY DEF Staying
    <3>2. \A i \in 0..(all_pt[p].size - 1) : <<p, i>> \in DOMAIN infile
      BY <3>1, StayingPages
    <3>3. Seats(infile', p, all_pt[p].size) = Seats(infile, p, all_pt[p].size)
      BY <1>8, <3>2, SameSeats
    <3> QED
      BY <3>1, <3>3, StayingPages
  <2>2. Seats(infile', curr_pid, size + 1)
          = Seats(infile', curr_pid, size) + swaps
    BY <1>1, <1>2, <1>8, NextSeat DEF swaps
  <2>3. \A p \in Staying' : all_pt'[p].numsw = Seats(infile', p, all_pt'[p].size)
    BY <1>0, <1>1, <1>4, <2>1, <2>2 DEF Staying
  <2> QED
    BY <2>3, CountedSeats
<1>11. NameRoom'
  BY <1>0 DEF NameRoom
<1> QED
  BY <1>2, <1>3, <1>5, <1>6, <1>9, <1>10, <1>11

LEMMA MapSwapStep ==
  ASSUME IInv, MapSwap
  PROVE  IInv'
<1> DEFINE record == [ftype |-> "SWAP", infile |-> FALSE,
                      block |-> Head(free_block)]
<1>1. /\ call.op = "run"
      /\ free_block # <<>> /\ bound # NPages
      /\ infile' = Put(infile, NewEntry, record)
      /\ swfile' = [swfile EXCEPT ![Head(free_block)] = @ \cup {NewEntry}]
      /\ free_block' = Tail(free_block)
      /\ eblcnt' = (eblcnt - 1) % Word
      /\ pt' = [pt EXCEPT ![NewEntry] =
                  [ppage |-> pinned, read_enable |-> TRUE,
                   write_enable |-> FALSE]]
      /\ core' = [core EXCEPT ![pinned] = @ \cup {NewEntry}]
      /\ all_pt' = [all_pt EXCEPT ![curr_pid] =
                      [size |-> @.size + 1, numsw |-> @.numsw + 1]]
      /\ bound' = bound + 1
      /\ UNCHANGED <<curr_pid, clock_q, free_ppage, psuff, ghost, filemap,
                     contents, call>>
  BY DEF MapSwap, Idle
<1>2. Head(free_block) \in Block /\ Tail(free_block) \in Seq(Block)
  BY <1>1, HeadTailProperties DEF IInv, TypeOK, SpaceOK
<1>3. record \in Infile /\ record.ftype = "SWAP"
  BY <1>2 DEF Infile, SwapRec
<1> HIDE DEF record
<1>4. Grows(record, IF record.ftype = "SWAP" THEN 1 ELSE 0)
  BY <1>1, <1>3 DEF Grows, IInv, TypeOK, ProcOK
<1>5. /\ NewEntry \in Pte /\ NewEntry \notin DOMAIN infile
      /\ ProcOK' /\ Maps(infile', Pte, Infile)
      /\ RecordsLive' /\ NumswCounts' /\ NameRoom'
  BY <1>1, <1>3, <1>4, MapGrows
<1>6. pinned \in Ppage
  BY SizeAssumption, PCntAssumption DEF pinned, Ppage
<1>7. SpaceOK'
  <2>1. eblcnt - 1 \in Int
    BY SizeAssumption, PCntAssumption DEF IInv, TypeOK, SpaceOK
  <2>2. eblcnt' \in 0..(Word - 1)
    BY <1>1, <2>1, WrapsInWord
  <2>3. swfile' \in [Block -> SUBSET Pte]
    BY <1>1, <1>5 DEF IInv, TypeOK, SpaceOK
  <2> QED
    BY <1>1, <1>2, <2>2, <2>3 DEF SpaceOK
<1>8. FramesOK'
  BY <1>1, <1>5, <1>6 DEF IInv, TypeOK, FramesOK
<1>9. MappingOK'
  BY <1>1, <1>5, <1>6 DEF IInv, TypeOK, MappingOK, Entry
<1>10. ContentsOK' /\ ClockComplete'
  BY <1>1 DEF IInv, TypeOK, ContentsOK, ClockComplete, contents
<1>11. /\ DOMAIN infile' = DOMAIN infile \cup {NewEntry}
       /\ infile'[NewEntry] = record
       /\ \A e \in DOMAIN infile : infile'[e] = infile[e] /\ pt'[e] = pt[e]
  BY <1>1, <1>5, RecordType DEF Put, IInv, TypeOK
<1>12. Listed'
  <2>1. filemap' = filemap
    BY <1>1
  <2> QED
    BY <1>11, <2>1 DEF IInv, Listed, IsSwap
<1>13. FileFrames'
  <2>1. ASSUME NEW e \in DOMAIN infile
        PROVE  infile'[e].ftype # "SWAP" /\ ~infile'[e].infile =>
                 pt'[e].ppage # pinned
    BY <1>11 DEF IInv, FileFrames, IsSwap, Resident
  <2> QED
    BY <1>3, <1>11, <2>1 DEF FileFrames, IsSwap, Resident
<1> QED
  BY <1>5, <1>7, <1>8, <1>9, <1>10, <1>12, <1>13 DEF IInv, TypeOK

LEMMA MapFileStep ==
  ASSUME IInv, NEW v \in Vpage, NEW b \in FBlock, MapFile(v, b)
  PROVE  IInv'
<1> DEFINE fb     == NamedBy(v, b)
           p      == filemap[fb].ppage
           others == filemap[fb].vpset
           onDisk == others # {} /\ infile[First(others)].infile
           entry  == IF p \in DOMAIN ghost
                     THEN [ppage |-> p, read_enable |-> psuff[p].ref,
                           write_enable |-> psuff[p].ref /\ psuff[p].dirty]
                     ELSE pt[First(others)]
           record(disk) == [ftype |-> "FILE_B", infile |-> disk, block |-> fb]
<1>1. /\ Reading(v, b) /\ Permits(v, FALSE)
      /\ Remap(fb) \/ MapNew(fb)
      /\ all_pt' = [all_pt EXCEPT ![curr_pid].size = @ + 1]
      /\ bound' = bound + 1 /\ curr_pid' = curr_pid
      /\ call' = Run
      /\ UNCHANGED <<space, clock_q, free_ppage, psuff, contents>>
  BY DEF MapFile, Grow, Readable
<1>2. 0 \in 0..NPages /\ v \in 0..NPages
  BY SizeAssumption, PCntAssumption DEF Vpage
<1>3. Run \in Call /\ Run.op = "run" /\ Str(v, b).op = "string"
  BY <1>2, CallsOK
<1>4. call.op \in {"run", "string"} /\ bound # NPages
  BY <1>1, <1>3 DEF Reading, Idle, IInv, NameRoom
<1>5. curr_pid \in Pid /\ all_pt[curr_pid] \in Pt
  BY <1>4 DEF IInv, TypeOK, ProcOK, Maps
<1>6. fb \in FileBlock
  <2>1. Mine(v) \in Pte
    BY <1>5 DEF Mine, Pte
  <2>2. pt[Mine(v)].ppage \in Ppage
    BY <2>1 DEF IInv, TypeOK, MappingOK, Entry
  <2>3. phys[pt[Mine(v)].ppage] \in Data
    BY <2>2 DEF IInv, TypeOK, ContentsOK
  <2> QED
    BY <2>3, DataAssumption DEF NamedBy, FileBlock
<1> HIDE DEF fb
<1>7. PICK disk \in BOOLEAN : infile' = Put(infile, NewEntry, record(disk))
  BY <1>1 DEF Remap, MapNew
<1>8. record(disk) \in Infile /\ record(disk).ftype = "FILE_B"
  BY <1>6 DEF Infile, FileRec
<1>9. Grows(record(disk), 0)
  <2>1. all_pt' = [all_pt EXCEPT ![curr_pid] =
                     [size |-> @.size + 1, numsw |-> @.numsw + 0]]
    <3> DEFINE r == all_pt[curr_pid]
    <3>1. [r EXCEPT !.size = r.size + 1]
            = [size |-> r.size + 1, numsw |-> r.numsw + 0]
      BY <1>5 DEF Pt
    <3> QED
      BY <1>1, <3>1
  <2> QED
    BY <1>1, <1>3, <1>7, <2>1 DEF Grows
<1>10. /\ NewEntry \in Pte /\ NewEntry \notin DOMAIN infile
       /\ ProcOK' /\ Maps(infile', Pte, Infile)
       /\ RecordsLive' /\ NumswCounts' /\ NameRoom'
  BY <1>4, <1>8, <1>9, MapGrows
<1>11. /\ DOMAIN infile' = DOMAIN infile \cup {NewEntry}
       /\ infile'[NewEntry] = record(disk)
       /\ \A e \in DOMAIN infile : infile'[e] = infile[e]
  BY <1>7, <1>10 DEF Put
<1>12. ASSUME Remap(fb)
       PROVE  FramesOK' /\ MappingOK' /\ Listed' /\ FileFrames'
  <2>1. /\ fb \in DOMAIN filemap
        /\ p \in DOMAIN ghost \/ others # {}
        /\ ghost' = Drop(ghost, {p})
        /\ pt' = [pt EXCEPT ![NewEntry] = entry]
        /\ infile' = Put(infile, NewEntry, record(onDisk))
        /\ core' = IF onDisk THEN core
                   ELSE [core EXCEPT ![entry.ppage] = @ \cup {NewEntry}]
        /\ filemap' = [filemap EXCEPT ![fb].vpset = @ \cup {NewEntry}]
    BY <1>12 DEF Remap
  <2>2. /\ p \in Ppage /\ others \in SUBSET Pte
        /\ Maps(filemap, FileBlock, Fbp)
    BY <2>1 DEF IInv, TypeOK, MappingOK, Maps, Fbp
  <2>3. others # {} => First(others) \in others
    BY DEF First
  <2>4. /\ entry \in Entry
        /\ ~onDisk => entry.ppage # pinned
    <3>1. CASE p \in DOMAIN ghost
      <4>1. p \in Frame
        BY <3>1 DEF IInv, TypeOK, FramesOK, Maps
      <4>2. psuff[p] \in Ppb
        BY <4>1 DEF IInv, TypeOK, FramesOK
      <4>3. entry = [ppage |-> p, read_enable |-> psuff[p].ref,
                     write_enable |-> psuff[p].ref /\ psuff[p].dirty]
        BY <3>1
      <4> QED
        BY <4>1, <4>2, <4>3 DEF Entry, Ppb, Frame
    <3>2. CASE p \notin DOMAIN ghost
      <4>1. First(others) \in others /\ others # {}
        BY <2>1, <2>3, <3>2
      <4>2. /\ First(others) \in DOMAIN infile
            /\ ~IsSwap(First(others))
        BY <2>1, <4>1 DEF IInv, Listed
      <4>3. entry = pt[First(others)]
        BY <3>2
      <4>4. ~onDisk => Resident(First(others))
        BY <4>1 DEF Resident
      <4> QED
        BY <2>2, <4>1, <4>2, <4>3, <4>4 DEF IInv, FileFrames, TypeOK, MappingOK
    <3> QED
      BY <3>1, <3>2
  <2> HIDE DEF entry, onDisk
  <2>5. FramesOK'
    <3>1. Maps(ghost', Frame, FileBlock)
      BY <2>1, DropMaps DEF IInv, TypeOK, FramesOK
    <3>2. core' \in [Ppage -> SUBSET Pte]
      BY <1>10, <2>1, <2>4 DEF IInv, TypeOK, FramesOK, Entry
    <3> QED
      BY <1>1, <3>1, <3>2 DEF IInv, TypeOK, FramesOK
  <2>6. MappingOK'
    <3>1. pt' \in [Pte -> Entry]
      BY <2>1, <2>4 DEF IInv, TypeOK, MappingOK
    <3>2. Maps(filemap', FileBlock, Fbp)
      BY <1>10, <2>1, <2>2 DEF Maps, Fbp
    <3> QED
      BY <1>10, <3>1, <3>2 DEF MappingOK
  <2>7. infile'[NewEntry] = record(onDisk)
    BY <2>1 DEF Put
  <2>8. Listed'
    <3> SUFFICES ASSUME NEW f \in DOMAIN filemap, NEW e \in filemap'[f].vpset
                 PROVE  /\ e \in DOMAIN infile'
                        /\ infile'[e].ftype # "SWAP"
                        /\ infile'[e].block = f
      BY <2>1 DEF Listed, IsSwap
    <3>1. CASE e \in filemap[f].vpset
      BY <1>11, <3>1 DEF IInv, Listed, IsSwap
    <3>2. CASE e \notin filemap[f].vpset
      <4>1. e = NewEntry /\ f = fb
        BY <2>1, <2>2, <3>2 DEF Maps, Fbp
      <4> QED
        BY <1>11, <4>1
    <3> QED
      BY <3>1, <3>2
  <2>9. FileFrames'
    <3>1. ASSUME NEW e \in DOMAIN infile
          PROVE  pt'[e] = pt[e]
      BY <1>10, <2>1, RecordType DEF IInv, TypeOK
    <3>2. ~infile'[NewEntry].infile => pt'[NewEntry].ppage # pinned
      <4>1. pt'[NewEntry] = entry
        BY <1>10, <2>1 DEF IInv, TypeOK, MappingOK
      <4>2. ~infile'[NewEntry].infile <=> ~onDisk
        BY <2>7
      <4> QED
        BY <2>4, <4>1, <4>2
    <3> QED
      BY <1>11, <3>1, <3>2 DEF IInv, FileFrames, IsSwap, Resident
  <2> QED
    BY <2>5, <2>6, <2>8, <2>9
<1>13. ASSUME MapNew(fb)
       PROVE  FramesOK' /\ MappingOK' /\ Listed' /\ FileFrames'
  <2> DEFINE blk == [ppage |-> pinned, vpset |-> {NewEntry}]
  <2>1. /\ fb \notin DOMAIN filemap
        /\ filemap' = Put(filemap, fb, blk)
        /\ pt' = [pt EXCEPT ![NewEntry] = NullEntry]
        /\ infile' = Put(infile, NewEntry, record(TRUE))
        /\ UNCHANGED <<ghost, core>>
    BY <1>13 DEF MapNew
  <2>2. FramesOK'
    BY <1>1, <2>1 DEF IInv, TypeOK, FramesOK
  <2>3. MappingOK'
    <3>1. pt' \in [Pte -> Entry]
      BY <2>1, EntryTypes DEF IInv, TypeOK, MappingOK
    <3>2. blk \in Fbp
      BY <1>10, SizeAssumption, PCntAssumption DEF Fbp, pinned, Ppage
    <3>3. Maps(filemap', FileBlock, Fbp)
      BY <1>6, <2>1, <3>2, PutMaps DEF IInv, TypeOK, MappingOK
    <3> QED
      BY <1>10, <3>1, <3>3 DEF MappingOK
  <2>4. Listed'
    <3> SUFFICES ASSUME NEW f \in DOMAIN filemap', NEW e \in filemap'[f].vpset
                 PROVE  /\ e \in DOMAIN infile'
                        /\ infile'[e].ftype # "SWAP"
                        /\ infile'[e].block = f
      BY DEF Listed, IsSwap
    <3>1. CASE f = fb
      <4>1. e = NewEntry
        BY <2>1, <3>1 DEF Put
      <4> QED
        BY <1>11, <3>1, <4>1
    <3>2. CASE f # fb
      <4>1. f \in DOMAIN filemap /\ filemap'[f] = filemap[f]
        BY <2>1, <3>2 DEF Put
      <4> QED
        BY <1>11, <4>1 DEF IInv, Listed, IsSwap
    <3> QED
      BY <3>1, <3>2
  <2>5. FileFrames'
    <3>1. ASSUME NEW e \in DOMAIN infile
          PROVE  pt'[e] = pt[e]
      BY <1>10, <2>1, RecordType DEF IInv, TypeOK
    <3>2. infile'[NewEntry].infile
      BY <2>1 DEF Put
    <3> QED
      BY <1>11, <3>1, <3>2 DEF IInv, FileFrames, IsSwap, Resident
  <2> QED
    BY <2>2, <2>3, <2>4, <2>5
<1>14. SpaceOK' /\ ContentsOK' /\ ClockComplete'
  BY <1>1 DEF IInv, TypeOK, SpaceOK, ContentsOK, ClockComplete, space, contents
<1> QED
  BY <1>1, <1>10, <1>12, <1>13, <1>14 DEF IInv, TypeOK

-----------------------------------------------------------------------------
(* vm_destroy and vm_create keep the invariant.                            *)

LEMMA DestroyPageStep ==
  ASSUME IInv, NEW v \in 0..NPages, DestroyPage(v)
  PROVE  IInv'
<1> DEFINE e == Mine(v)
           b == infile[e]
           p == pt[e].ppage
<1>1. /\ Exiting(v)
      /\ v < all_pt[curr_pid].size
      /\ Recorded(e)
      /\ DiscardBacking(e) /\ DiscardFrame(e)
      /\ infile' = Drop(infile, {e})
      /\ call' = Exit(v + 1)
      /\ UNCHANGED <<curr_pid, bound, all_pt, clock_q, pt, phys, swap, file,
                     accessed>>
  BY DEF DestroyPage, vm_discard, proc, contents
<1>2. /\ e \in DOMAIN infile /\ e \in Pte /\ e = <<curr_pid, v>>
      /\ b \in Infile
      /\ p \in Ppage
  BY <1>1, RecordType DEF Recorded, Mine, IInv, TypeOK, MappingOK, Entry
<1>3. /\ b.ftype \in {"SWAP", "FILE_B"}
      /\ b.ftype = "SWAP" => b.block \in Block
      /\ b.ftype = "FILE_B" => b.block \in FileBlock /\ b.block \in DOMAIN filemap
  BY <1>1, <1>2, InfileFields DEF Recorded
<1>4. \E c \in FBlock : TRUE
  BY DataAssumption
<1>5. /\ Run.op = "run"
      /\ Exit(v).op = "exit" /\ Exit(v).vp = v
  BY <1>4, CallsOK
<1>6. /\ curr_pid \in DOMAIN all_pt
      /\ all_pt[curr_pid].size \in 0..NPages
      /\ Maps(all_pt, Pid, Pt)
  BY <1>1, <1>5 DEF Exiting, Idle, IInv, TypeOK, ProcOK, Maps, Pt
<1>7. v + 1 \in 0..NPages
  BY <1>1, <1>6, SizeAssumption, PCntAssumption
<1>8. Exit(v + 1) \in Call /\ Exit(v + 1).op = "exit" /\ Exit(v + 1).vp = v + 1
  BY <1>4, <1>7, CallsOK
<1>9. /\ DOMAIN infile' = DOMAIN infile \ {e}
      /\ \A l \in DOMAIN infile' : infile'[l] = infile[l]
      /\ Maps(infile', Pte, Infile)
  BY <1>1, DropMaps DEF Drop, Restrict, IInv, TypeOK, MappingOK
<1>10. SpaceOK'
  <2>1. CASE b.ftype = "SWAP"
    <3>1. CASE Sole(swfile[b.block])
      <4>1. /\ free_block' = Append(free_block, b.block)
            /\ swfile' = [swfile EXCEPT ![b.block] = {}]
            /\ eblcnt' = (eblcnt + 1) % Word
        BY <1>1, <2>1, <3>1 DEF DiscardBacking, GiveBack
      <4>2. free_block' \in Seq(Block)
        BY <1>3, <2>1, <4>1, AppendProperties DEF IInv, TypeOK, SpaceOK
      <4>3. eblcnt + 1 \in Int
        BY SizeAssumption, PCntAssumption DEF IInv, TypeOK, SpaceOK
      <4>4. eblcnt' \in 0..(Word - 1)
        BY <4>1, <4>3, WrapsInWord
      <4> QED
        BY <4>1, <4>2, <4>4 DEF IInv, TypeOK, SpaceOK
    <3>2. CASE ~Sole(swfile[b.block])
      <4>1. /\ swfile' = [swfile EXCEPT ![b.block] = @ \ {e}]
            /\ UNCHANGED <<free_block, eblcnt>>
        BY <1>1, <2>1, <3>2 DEF DiscardBacking
      <4> QED
        BY <4>1 DEF IInv, TypeOK, SpaceOK
    <3> QED
      BY <3>1, <3>2
  <2>2. CASE b.ftype # "SWAP"
    BY <1>1, <2>2 DEF DiscardBacking, space, IInv, TypeOK, SpaceOK
  <2> QED
    BY <2>1, <2>2
<1>11. /\ Maps(filemap', FileBlock, Fbp)
       /\ Listed'
  <2>1. CASE b.ftype = "SWAP"
    <3>1. filemap' = filemap
      BY <1>1, <2>1 DEF DiscardBacking
    <3> QED
      BY <1>9, <2>1, <3>1 DEF IInv, TypeOK, MappingOK, Listed, IsSwap
  <2>2. CASE b.ftype # "SWAP"
    <3>1. /\ Maps(filemap, FileBlock, Fbp)
          /\ \/ filemap' = Drop(filemap, {b.block})
             \/ filemap' = [filemap EXCEPT ![b.block].vpset = @ \ {e}]
      BY <1>1, <2>2 DEF DiscardBacking, IInv, TypeOK, MappingOK
    <3>2. Maps(filemap', FileBlock, Fbp)
      <4>1. CASE filemap' = Drop(filemap, {b.block})
        BY <3>1, <4>1, DropMaps
      <4>2. CASE filemap' = [filemap EXCEPT ![b.block].vpset = @ \ {e}]
        BY <3>1, <4>2 DEF Maps, Fbp
      <4> QED
        BY <3>1, <4>1, <4>2
    <3>3. ASSUME NEW f \in DOMAIN filemap', NEW l \in filemap'[f].vpset
          PROVE  /\ l \in DOMAIN infile /\ l # e
                 /\ infile[l].ftype # "SWAP" /\ infile[l].block = f
      <4>1. /\ f \in DOMAIN filemap /\ l \in filemap[f].vpset
            /\ f = b.block => l # e
        <5>1. CASE filemap' = Drop(filemap, {b.block})
          BY <3>3, <5>1 DEF Drop, Restrict
        <5>2. CASE filemap' = [filemap EXCEPT ![b.block].vpset = @ \ {e}]
          BY <3>1, <3>3, <5>2 DEF Maps, Fbp
        <5> QED
          BY <3>1, <5>1, <5>2
      <4> QED
        BY <4>1 DEF IInv, Listed, IsSwap
    <3>4. Listed'
      BY <1>9, <3>3 DEF Listed, IsSwap
    <3> QED
      BY <3>2, <3>4
  <2> QED
    BY <2>1, <2>2
<1>12. FramesOK'
  <2>1. CASE b.infile
    BY <1>1, <2>1 DEF DiscardFrame, IInv, TypeOK, FramesOK
  <2>2. CASE ~b.infile
    <3>1. /\ core' = [core EXCEPT ![p] = IF Shared(core[p]) THEN @ \ {e} ELSE {}]
          /\ ghost' = IF b.ftype = "FILE_B" /\ Sole(core[p])
                      THEN Put(ghost, p, b.block) ELSE ghost
          /\ IF b.ftype = "SWAP" /\ Sole(core[p]) /\ p # pinned
             THEN /\ free_ppage' = Append(free_ppage, p)
                  /\ psuff' = [psuff EXCEPT
                                 ![p] = [ref |-> FALSE, dirty |-> FALSE]]
             ELSE UNCHANGED <<free_ppage, psuff>>
      BY <1>1, <2>2 DEF DiscardFrame, FreesFrame
    <3>2. core' \in [Ppage -> SUBSET Pte]
      BY <1>2, <3>1 DEF IInv, TypeOK, FramesOK
    <3>3. Maps(ghost', Frame, FileBlock)
      <4>1. CASE b.ftype = "FILE_B"
        <5>1. p \in Frame
          BY <1>2, <2>2, <4>1 DEF IInv, FileFrames, IsSwap, Resident, Frame
        <5> QED
          BY <1>3, <3>1, <4>1, <5>1, PutMaps DEF IInv, TypeOK, FramesOK
      <4>2. CASE b.ftype # "FILE_B"
        BY <3>1, <4>2 DEF IInv, TypeOK, FramesOK
      <4> QED
        BY <4>1, <4>2
    <3>4. free_ppage' \in Seq(Frame) /\ psuff' \in [Frame -> Ppb]
      <4>1. CASE b.ftype = "SWAP" /\ Sole(core[p]) /\ p # pinned
        <5>1. p \in Frame
          BY <1>2, <4>1 DEF Frame
        <5>2. free_ppage \in Seq(Frame) /\ psuff \in [Frame -> Ppb]
          BY DEF IInv, TypeOK, FramesOK
        <5>3. /\ free_ppage' = Append(free_ppage, p)
              /\ psuff' = [psuff EXCEPT
                             ![p] = [ref |-> FALSE, dirty |-> FALSE]]
          BY <3>1, <4>1
        <5> HIDE DEF p
        <5>4. free_ppage' \in Seq(Frame)
          BY <5>1, <5>2, <5>3, AppendProperties
        <5>5. psuff' \in [Frame -> Ppb]
          BY <5>2, <5>3 DEF Ppb
        <5> QED
          BY <5>4, <5>5
      <4>2. CASE ~(b.ftype = "SWAP" /\ Sole(core[p]) /\ p # pinned)
        BY <3>1, <4>2 DEF IInv, TypeOK, FramesOK
      <4> QED
        BY <4>1, <4>2
    <3> QED
      BY <1>1, <3>2, <3>3, <3>4 DEF IInv, TypeOK, FramesOK
  <2> QED
    BY <2>1, <2>2
<1>13. TypeOK'
  <2>1. ProcOK'
    BY <1>1, <1>5, <1>6, <1>8 DEF IInv, TypeOK, ProcOK, Exiting, Idle
  <2>2. MappingOK'
    BY <1>1, <1>9, <1>11 DEF IInv, TypeOK, MappingOK
  <2>3. ContentsOK'
    BY <1>1 DEF IInv, TypeOK, ContentsOK
  <2> QED
    BY <1>10, <1>12, <2>1, <2>2, <2>3 DEF TypeOK
<1>14. RecordsLive'
  <2>1. \A l \in Pte : (l \in Live)' <=> l \in Live /\ l # e
    <3> TAKE l \in Pte
    <3>1. l = <<l[1], l[2]>> /\ l[2] \in Nat
      BY SizeAssumption, PCntAssumption DEF Pte, Vpage
    <3>2. CASE l[1] = curr_pid
      <4>1. call'.op = "exit" /\ call'.vp = v + 1
        BY <1>1, <1>8
      <4>2. (l \in Live)' <=> l[2] < all_pt[curr_pid].size /\ ~(l[2] < v + 1)
        BY <1>1, <1>6, <3>2, <4>1 DEF Live
      <4>3. l \in Live <=> l[2] < all_pt[curr_pid].size /\ ~(l[2] < v)
        <5>1. CASE Idle /\ v = 0
          <6>1. ~(l[2] < v) /\ call.op # "exit"
            BY <3>1, <5>1 DEF Idle
          <6> QED
            BY <1>6, <3>2, <6>1 DEF Live
        <5>2. CASE call = Exit(v)
          BY <1>5, <1>6, <3>2, <5>2 DEF Live
        <5> QED
          BY <1>1, <5>1, <5>2 DEF Exiting
      <4>4. l # e <=> l[2] # v
        BY <1>2, <3>1, <3>2
      <4> QED
        BY <3>1, <4>2, <4>3, <4>4
    <3>3. CASE l[1] # curr_pid
      BY <1>1, <1>2, <3>3 DEF Live
    <3> QED
      BY <3>2, <3>3
  <2>2. Live' = Live \ {e}
    BY <2>1 DEF Live
  <2> QED
    BY <1>9, <2>2 DEF IInv, RecordsLive
<1>15. NumswCounts'
  <2>1. ASSUME NEW q \in DOMAIN all_pt \ {curr_pid}
        PROVE  all_pt[q].numsw = Seats(infile', q, all_pt[q].size)
    <3>1. q \in Staying
      BY DEF Staying
    <3>2. \A i \in 0..(all_pt[q].size - 1) : <<q, i>> \in DOMAIN infile'
      BY <1>2, <1>9, <3>1, StayingPages
    <3>3. Seats(infile', q, all_pt[q].size) = Seats(infile, q, all_pt[q].size)
      BY <1>9, <3>2, SameSeats
    <3> QED
      BY <3>1, <3>3, StayingPages
  <2>2. Staying' = DOMAIN all_pt \ {curr_pid}
    BY <1>1, <1>8 DEF Staying
  <2> QED
    BY <1>1, <2>1, <2>2, CountedSeats
<1>16. ClockComplete' /\ NameRoom' /\ FileFrames'
  <2>1. ClockComplete' /\ NameRoom'
    BY <1>1, <1>8 DEF IInv, ClockComplete, NameRoom
  <2>2. FileFrames'
    BY <1>1, <1>9 DEF IInv, FileFrames, IsSwap, Resident
  <2> QED
    BY <2>1, <2>2
<1> QED
  BY <1>11, <1>13, <1>14, <1>15, <1>16 DEF IInv

\* What a child is made of: nothing, or the pages of a running parent.
LEMMA ParentPages ==
  ASSUME IInv, NEW parent, parent = NoPid \/ (Idle /\ parent = curr_pid)
  PROVE  /\ ParentSize(parent) \in 0..NPages
         /\ ParentNumsw(parent) \in Nat
         /\ \A i \in 0..(ParentSize(parent) - 1) :
              /\ parent \in DOMAIN all_pt /\ i \in Vpage
              /\ <<parent, i>> \in DOMAIN infile
         /\ ParentNumsw(parent) = Seats(infile, parent, ParentSize(parent))
<1>1. CASE parent \in DOMAIN all_pt
  <2>1. parent # NoPid
    BY <1>1, PidAssumption DEF IInv, TypeOK, ProcOK, Maps
  <2>2. parent \in Staying
    BY <1>1, <2>1 DEF Staying, Idle
  <2>3. /\ ParentSize(parent) = all_pt[parent].size
        /\ ParentNumsw(parent) = all_pt[parent].numsw
    BY <1>1 DEF ParentSize, ParentNumsw
  <2> QED
    BY <1>1, <2>2, <2>3, StayingPages
<1>2. CASE parent \notin DOMAIN all_pt
  <2>1. ParentSize(parent) = 0 /\ ParentNumsw(parent) = 0
    BY <1>2 DEF ParentSize, ParentNumsw
  <2>2. SeatSet(infile, parent, 0) = {}
    BY DEF SeatSet
  <2>3. Seats(infile, parent, 0) = 0
    BY <2>2, FS_EmptySet DEF Seats
  <2> QED
    BY <2>1, <2>3, SizeAssumption, PCntAssumption
<1> QED
  BY <1>1, <1>2

LEMMA CreateStep ==
  ASSUME IInv, NEW parent \in Pid \cup {NoPid}, NEW child \in Pid,
         vm_create(parent, child)
  PROVE  IInv'
<1> DEFINE size     == ParentSize(parent)
           numsw    == ParentNumsw(parent)
           born     == {child} \X (0..(size - 1))
           model(e) == <<parent, e[2]>>
           copy(e)  == IF infile[model(e)].ftype = "FILE_B"
                       THEN infile[model(e)]
                       ELSE [infile[model(e)] EXCEPT !.block =
                               free_block[SwapBefore(parent, e[2]) + 1]]
           record   == [e \in born |-> copy(e)]
<1>1. /\ Kernel
      /\ parent = NoPid \/ (Idle /\ parent = curr_pid)
      /\ child \notin DOMAIN all_pt
      /\ numsw <= Len(free_block)
      /\ infile' = [e \in DOMAIN infile \cup born |->
                      IF e \in born THEN record[e] ELSE infile[e]]
      /\ swfile' = [b \in Block |-> swfile[b] \cup
                      {e \in born : /\ record[e].ftype = "SWAP"
                                    /\ record[e].block = b}]
      /\ filemap' = [f \in DOMAIN filemap \cup
                           {record[e].block :
                              e \in {d \in born : record[d].ftype = "FILE_B"}} |->
                       Listing(filemap, f,
                               {e \in born : /\ record[e].ftype = "FILE_B"
                                             /\ record[e].block = f})]
      /\ free_block' = SubSeq(free_block, numsw + 1, Len(free_block))
      /\ eblcnt' = (eblcnt - numsw - numsw) % Word
      /\ core' = [p \in Ppage |->
                    core[p] \cup {e \in born : pt[model(e)].ppage = p}]
      /\ pt' = [e \in Pte |->
                  IF e \in born THEN [pt[model(e)] EXCEPT !.write_enable = FALSE]
                  ELSE IF e[1] = child THEN NullEntry
                  ELSE IF e[1] = parent /\ e[2] < size
                       THEN [pt[e] EXCEPT !.write_enable = FALSE]
                  ELSE pt[e]]
      /\ all_pt' = Put(all_pt, child, [size |-> size, numsw |-> numsw])
      /\ UNCHANGED <<curr_pid, bound, clock_q, free_ppage, psuff, ghost,
                     contents, call>>
  BY DEF vm_create
<1>2. /\ size \in 0..NPages
      /\ numsw \in Nat
      /\ \A i \in 0..(size - 1) :
           /\ parent \in DOMAIN all_pt /\ i \in Vpage
           /\ <<parent, i>> \in DOMAIN infile
      /\ numsw = Seats(infile, parent, size)
  BY <1>1, ParentPages
<1>3. ASSUME NEW e \in born
      PROVE  /\ e \in Pte /\ e[1] = child /\ e[2] \in 0..(size - 1)
             /\ e = <<child, e[2]>>
             /\ model(e) \in DOMAIN infile /\ model(e) \in Pte
             /\ record[e] \in Infile
             /\ record[e].ftype = infile[model(e)].ftype
             /\ record[e].infile = infile[model(e)].infile
             /\ record[e].ftype # "SWAP" =>
                  record[e].block = infile[model(e)].block
  <2>1. /\ e[1] = child /\ e[2] \in 0..(size - 1) /\ e = <<child, e[2]>>
        /\ e[2] \in Vpage /\ model(e) \in DOMAIN infile
    BY <1>2
  <2>2. e \in Pte /\ model(e) \in Pte
    BY <2>1, RecordType DEF Pte, IInv, TypeOK
  <2>3. infile[model(e)] \in Infile
    BY <2>1, RecordType DEF IInv, TypeOK
  <2>4. record[e] = copy(e)
    OBVIOUS
  <2> HIDE DEF record
  <2>5. CASE infile[model(e)].ftype = "FILE_B"
    <3>1. record[e] = infile[model(e)]
      BY <2>4, <2>5
    <3> QED
      BY <2>1, <2>2, <2>3, <3>1
  <2>6. CASE infile[model(e)].ftype # "FILE_B"
    <3>1. infile[model(e)] \in SwapRec
      BY <2>3, <2>6, InfileFields
    <3>2. infile[<<parent, e[2]>>].ftype = "SWAP"
      BY <3>1 DEF SwapRec
    <3>3. Seats(infile, parent, e[2]) + 1 \in 1..numsw
      BY <1>2, <2>1, <3>2, SeatInRange
    <3>4. Seats(infile, parent, e[2]) + 1 \in 1..Len(free_block)
      <4>1. Len(free_block) \in Nat
        BY LenProperties DEF IInv, TypeOK, SpaceOK
      <4> QED
        BY <1>1, <1>2, <3>3, <4>1
    <3>5. free_block[Seats(infile, parent, e[2]) + 1] \in Block
      BY <3>4, ElementOfSeq DEF IInv, TypeOK, SpaceOK
    <3>6. record[e] = [infile[model(e)] EXCEPT !.block =
                         free_block[Seats(infile, parent, e[2]) + 1]]
      BY <2>4, <2>6, SwapBeforeSeats
    <3>7. record[e] \in SwapRec /\ record[e].infile = infile[model(e)].infile
      BY <3>1, <3>5, <3>6 DEF SwapRec
    <3> QED
      BY <2>1, <2>2, <3>1, <3>7 DEF SwapRec, Infile
  <2> QED
    BY <2>5, <2>6
<1> HIDE DEF record
<1>4. born \in SUBSET Pte /\ born \cap DOMAIN infile = {}
  <2>1. \A e \in DOMAIN infile : e[1] \in DOMAIN all_pt
    BY DEF IInv, RecordsLive, Live
  <2> QED
    BY <1>1, <1>3, <2>1
<1>5. /\ DOMAIN infile' = DOMAIN infile \cup born
      /\ \A e \in born : infile'[e] = record[e]
      /\ \A e \in DOMAIN infile : infile'[e] = infile[e]
  BY <1>1, <1>4
<1>6. /\ DOMAIN all_pt' = DOMAIN all_pt \cup {child}
      /\ all_pt'[child] = [size |-> size, numsw |-> numsw]
      /\ \A p \in DOMAIN all_pt : all_pt'[p] = all_pt[p]
      /\ Maps(all_pt', Pid, Pt)
  <2>1. [size |-> size, numsw |-> numsw] \in Pt
    BY <1>2 DEF Pt
  <2>2. Maps(all_pt', Pid, Pt)
    BY <1>1, <2>1, PutMaps DEF IInv, TypeOK, ProcOK
  <2> QED
    BY <1>1, <2>2 DEF Put
<1>7. call.op # "exit" /\ call.op # "string"
  BY <1>1 DEF Kernel
<1>8. TypeOK'
  <2>1. ProcOK'
    BY <1>1, <1>6 DEF IInv, TypeOK, ProcOK
  <2>2. SpaceOK'
    <3>1. eblcnt - numsw - numsw \in Int
      BY <1>2, SizeAssumption, PCntAssumption DEF IInv, TypeOK, SpaceOK
    <3>2. eblcnt' \in 0..(Word - 1)
      BY <1>1, <3>1, WrapsInWord
    <3>3. free_block' \in Seq(Block)
      <4>1. /\ free_block \in Seq(Block)
            /\ Len(free_block) \in Nat
            /\ \A i \in 1..Len(free_block) : free_block[i] \in Block
        BY LenProperties, ElementOfSeq DEF IInv, TypeOK, SpaceOK
      <4> QED
        BY <1>1, <1>2, <4>1, SubSeqProperties
    <3>4. swfile' \in [Block -> SUBSET Pte]
      BY <1>1, <1>4 DEF IInv, TypeOK, SpaceOK
    <3> QED
      BY <3>2, <3>3, <3>4 DEF SpaceOK
  <2>3. FramesOK'
    BY <1>1, <1>4 DEF IInv, TypeOK, FramesOK
  <2>4. MappingOK'
    <3>1. Maps(infile', Pte, Infile)
      BY <1>1, <1>3, <1>4, <1>5 DEF IInv, TypeOK, MappingOK, Maps
    <3>2. Maps(filemap', FileBlock, Fbp)
      <4>1. DOMAIN filemap' \subseteq FileBlock
        <5>1. DOMAIN filemap \subseteq FileBlock
          BY DEF IInv, TypeOK, MappingOK, Maps
        <5>2. ASSUME NEW e \in born, record[e].ftype = "FILE_B"
              PROVE  record[e].block \in FileBlock
          BY <1>3, <5>2 DEF Infile, SwapRec, FileRec
        <5> QED
          BY <1>1, <5>1, <5>2
      <4>2. ASSUME NEW f \in DOMAIN filemap'
            PROVE  filemap'[f] \in Fbp
        <5> DEFINE more == {e \in born : /\ record[e].ftype = "FILE_B"
                                        /\ record[e].block = f}
        <5>1. f \in DOMAIN filemap => filemap[f] \in Fbp
          BY DEF IInv, TypeOK, MappingOK, Maps
        <5>2. more \in SUBSET Pte
          BY <1>4
        <5>3. filemap'[f] = Listing(filemap, f, more)
          BY <1>1
        <5>4. pinned \in Ppage
          BY PCntAssumption DEF pinned, Ppage
        <5> HIDE DEF more
        <5> QED
          BY <5>1, <5>2, <5>3, <5>4 DEF Fbp, Listing
      <4>3. filemap' \in [DOMAIN filemap' -> Fbp]
        BY <1>1, <4>2
      <4> QED
        BY <4>1, <4>3 DEF Maps
    <3>3. pt' \in [Pte -> Entry]
      <4>1. \A e \in Pte : [pt[e] EXCEPT !.write_enable = FALSE] \in Entry
        BY DEF IInv, TypeOK, MappingOK, Entry
      <4> QED
        BY <1>1, <1>3, <4>1, EntryTypes DEF IInv, TypeOK, MappingOK
    <3> QED
      BY <3>1, <3>2, <3>3 DEF MappingOK
  <2>5. ContentsOK'
    BY <1>1 DEF IInv, TypeOK, ContentsOK, contents
  <2> QED
    BY <2>1, <2>2, <2>3, <2>4, <2>5 DEF TypeOK
<1>9. RecordsLive'
  <2>1. \A e \in Pte : (e \in Live)' <=> e \in Live \/ e \in born
    <3> TAKE e \in Pte
    <3>1. e = <<e[1], e[2]>> /\ e[2] \in Nat
      BY SizeAssumption, PCntAssumption DEF Pte, Vpage
    <3>2. CASE e[1] = child
      <4>1. (e \in Live)' <=> e[2] < size
        BY <1>1, <1>6, <1>7, <3>2 DEF Live
      <4>2. e \notin Live
        BY <1>1, <3>2 DEF Live
      <4>3. e \in born <=> e[2] < size
        BY <1>2, <3>1, <3>2
      <4> QED
        BY <4>1, <4>2, <4>3
    <3>3. CASE e[1] # child
      <4>1. e \notin born
        BY <3>3
      <4>2. (e \in Live)' <=> e \in Live
        BY <1>1, <1>6, <3>3 DEF Live
      <4> QED
        BY <4>1, <4>2
    <3> QED
      BY <3>2, <3>3
  <2>2. Live' = Live \cup born
    BY <1>4, <2>1 DEF Live
  <2> QED
    BY <1>5, <2>2 DEF IInv, RecordsLive
<1>10. NumswCounts'
  <2>1. ASSUME NEW p \in DOMAIN all_pt
        PROVE  all_pt[p].numsw = Seats(infile', p, all_pt[p].size)
    <3>1. p \in Staying
      BY <1>7 DEF Staying
    <3>2. \A i \in 0..(all_pt[p].size - 1) : <<p, i>> \in DOMAIN infile
      BY <3>1, StayingPages
    <3>3. Seats(infile', p, all_pt[p].size) = Seats(infile, p, all_pt[p].size)
      BY <1>5, <3>2, SameSeats
    <3> QED
      BY <3>1, <3>3, StayingPages
  <2>2. numsw = Seats(infile', child, size)
    <3>1. ASSUME NEW i \in 0..(size - 1)
          PROVE  infile'[<<child, i>>].ftype = infile[<<parent, i>>].ftype
      <4>1. <<child, i>> \in born
        OBVIOUS
      <4> QED
        BY <1>3, <1>5, <4>1
    <3> HIDE DEF size
    <3>2. Seats(infile', child, size) = Seats(infile, parent, size)
      BY <3>1, SameSeats
    <3> QED
      BY <1>2, <3>2
  <2>3. Staying' = DOMAIN all_pt \cup {child}
    BY <1>1, <1>6, <1>7 DEF Staying
  <2> QED
    BY <1>6, <2>1, <2>2, <2>3, CountedSeats
<1>11. Listed'
  <2> SUFFICES ASSUME NEW f \in DOMAIN filemap', NEW e \in filemap'[f].vpset
               PROVE  /\ e \in DOMAIN infile'
                      /\ infile'[e].ftype # "SWAP"
                      /\ infile'[e].block = f
    BY DEF Listed, IsSwap
  <2>1. \/ f \in DOMAIN filemap /\ e \in filemap[f].vpset
        \/ e \in born /\ record[e].ftype = "FILE_B" /\ record[e].block = f
    BY <1>1 DEF Listing, IInv, TypeOK, MappingOK, Maps, Fbp
  <2>2. CASE f \in DOMAIN filemap /\ e \in filemap[f].vpset
    BY <1>5, <2>2 DEF IInv, Listed, IsSwap
  <2>3. CASE e \in born /\ record[e].ftype = "FILE_B" /\ record[e].block = f
    BY <1>5, <2>3
  <2> QED
    BY <2>1, <2>2, <2>3
<1>12. FileFrames'
  <2>1. \A l \in Pte : [pt[l] EXCEPT !.write_enable = FALSE].ppage = pt[l].ppage
    BY DEF IInv, TypeOK, MappingOK, Entry
  <2>2. ASSUME NEW e \in DOMAIN infile
        PROVE  pt'[e].ppage = pt[e].ppage
    <3>1. e \in Pte /\ e \notin born /\ e[1] # child
      BY <1>1, <1>4, RecordType DEF IInv, TypeOK, RecordsLive, Live
    <3> QED
      BY <1>1, <2>1, <3>1
  <2>3. ASSUME NEW e \in born
        PROVE  pt'[e].ppage = pt[model(e)].ppage
    BY <1>1, <1>3, <2>1
  <2>4. ASSUME NEW e \in born, record[e].ftype # "SWAP", ~record[e].infile
        PROVE  pt[model(e)].ppage # pinned
    BY <1>3, <2>4 DEF IInv, FileFrames, IsSwap, Resident
  <2> QED
    BY <1>5, <2>2, <2>3, <2>4 DEF IInv, FileFrames, IsSwap, Resident
<1>13. ClockComplete' /\ NameRoom'
  BY <1>1, <1>7 DEF IInv, ClockComplete, NameRoom
<1> QED
  BY <1>8, <1>9, <1>10, <1>11, <1>12, <1>13 DEF IInv

-----------------------------------------------------------------------------
(* The invariant holds at first and is kept by every step.                 *)

LEMMA InitIInv ==
  ASSUME Init
  PROVE  IInv
<1> USE DEF Init
<1>1. 0 \in 0..NPages /\ \E c \in FBlock : TRUE
  BY SizeAssumption, PCntAssumption, DataAssumption
<1>2. None \in Call /\ None.op = "none"
  BY <1>1, CallsOK
<1>3. ProcOK
  BY <1>1, <1>2 DEF ProcOK, Maps
<1>4. SpaceOK
  <2>1. free_block \in Seq(Block)
    <3>1. \A i \in 1..BlCnt : i - 1 \in Block
      BY SizeAssumption, PCntAssumption DEF Block
    <3> QED
      BY <3>1, SizeAssumption, PCntAssumption, SeqDef
  <2> QED
    BY <2>1, SizeAssumption, PCntAssumption DEF SpaceOK
<1>5. /\ clock_q \in Seq(Frame) /\ Range(clock_q) = Frame
      /\ IsInjective(clock_q)
  <2>1. Frame = 1..(PCnt - 1) /\ PCnt - 1 \in Nat
    BY SizeAssumption, PCntAssumption DEF Frame, Ppage, pinned
  <2>2. clock_q \in Seq(Frame)
    BY <2>1, SeqDef
  <2>3. Range(clock_q) = Frame
    BY <2>1 DEF Range
  <2>4. IsInjective(clock_q)
    BY DEF IsInjective
  <2> QED
    BY <2>2, <2>3, <2>4
<1>6. FramesOK
  BY <1>5 DEF FramesOK, Maps, Ppb
<1>7. MappingOK
  BY EntryTypes DEF MappingOK, Maps
<1>8. ContentsOK
  BY DataAssumption DEF ContentsOK
<1>9. Live = {}
  BY DEF Live
<1> QED
  BY <1>2, <1>3, <1>4, <1>5, <1>6, <1>7, <1>8, <1>9
  DEF IInv, TypeOK, ClockComplete, NameRoom, RecordsLive, NumswCounts, Listed,
      FileFrames

LEMMA NextIInv ==
  ASSUME IInv, [Next]_vars
  PROVE  IInv'
<1>1. CASE Access
  BY <1>1, AccessStep
<1>2. CASE Name
  BY <1>2, NameStep
<1>3. CASE MapSwap
  BY <1>3, MapSwapStep
<1>4. CASE vm_destroy
  <2>1. PICK v \in 0..NPages : DestroyPage(v) \/ DestroyTable(v)
    BY <1>4 DEF vm_destroy
  <2> QED
    BY <2>1, DestroyPageStep, DestroyTableStep
<1>5. CASE \E p \in Pid : vm_switch(p)
  BY <1>5, SwitchStep
<1>6. CASE \E v \in Vpage, b \in FBlock : MapFile(v, b)
  BY <1>6, MapFileStep
<1>7. CASE \E parent \in Pid \cup {NoPid}, child \in Pid :
             vm_create(parent, child)
  BY <1>7, CreateStep
<1>8. CASE UNCHANGED vars
  BY <1>8
  DEF vars, proc, space, frames, mapping, contents, IInv, TypeOK, ProcOK,
      SpaceOK, FramesOK, MappingOK, ContentsOK, ClockComplete, NameRoom,
      RecordsLive, NumswCounts, Listed, FileFrames, Live, IsSwap, Resident,
      SwapBefore
<1> QED
  BY <1>1, <1>2, <1>3, <1>4, <1>5, <1>6, <1>7, <1>8 DEF Next, Step

-----------------------------------------------------------------------------

\* The inductive invariant holds for every number of processes, pages, frames
\* and blocks, whatever vm_create, vm_map, vm_fault and vm_destroy do in which
\* order; the theorems after it are parts of it.
THEOREM Invariance == Spec => []IInv
<1>1. Init => IInv
  BY InitIInv
<1>2. IInv /\ [Next]_vars => IInv'
  BY NextIInv
<1> QED
  BY <1>1, <1>2, PTL DEF Spec

\* Whatever the kernel and the applications do, forks included, the pager of
\* vm_pager.cpp computes no frame, block or page number out of range.
THEOREM TypeCorrect == Spec => []TypeOK
<1>1. IInv => TypeOK
  BY DEF IInv
<1> QED
  BY <1>1, Invariance, PTL

\* vm_map and vm_create record each page they map and vm_discard each page it
\* unmaps, and nobody else.
THEOREM RecordsCorrect == Spec => []RecordsLive
<1>1. IInv => RecordsLive
  BY DEF IInv
<1> QED
  BY <1>1, Invariance, PTL

\* vm_create reserves as many blocks as the parent has swap pages.
THEOREM NumswCorrect == Spec => []NumswCounts
<1>1. IInv => NumswCounts
  BY DEF IInv
<1> QED
  BY <1>1, Invariance, PTL

-----------------------------------------------------------------------------
(* Swap space.  The blocks that vm_map and vm_create take and vm_discard    *)
(* gives back are never lost, never given twice and never given back while *)
(* a page is written there.                                                *)

\* What is left of a queue when its first k elements are taken.
LEMMA FrontTaken ==
  ASSUME NEW S, NEW q \in Seq(S), NEW k \in 0..Len(q), IsInjective(q)
  PROVE  /\ IsInjective(SubSeq(q, k + 1, Len(q)))
         /\ Range(SubSeq(q, k + 1, Len(q))) = {q[i] : i \in (k + 1)..Len(q)}
<1> DEFINE r == SubSeq(q, k + 1, Len(q))
<1>1. /\ Len(q) \in Nat /\ DOMAIN q = 1..Len(q)
      /\ \A i \in 1..Len(q) : q[i] \in S
  BY LenProperties, ElementOfSeq
<1>2. /\ r \in Seq(S) /\ Len(r) = Len(q) - k
      /\ \A i \in 1..(Len(q) - k) : r[i] = q[k + i]
  <2>1. Len(q) \in Nat /\ \A j \in 1..Len(q) : q[j] \in S
    BY <1>1
  <2> QED
    BY <2>1, SubSeqProperties
<1>3. DOMAIN r = 1..(Len(q) - k)
  BY <1>2, LenProperties
<1> HIDE DEF r
<1>4. \A i, j \in DOMAIN q : q[i] = q[j] => i = j
  BY DEF IsInjective
<1>5. ASSUME NEW i \in DOMAIN r, NEW j \in DOMAIN r, r[i] = r[j]
      PROVE  i = j
  <2>1. k + i \in DOMAIN q /\ k + j \in DOMAIN q /\ q[k + i] = q[k + j]
    <3>1. i \in 1..(Len(q) - k) /\ j \in 1..(Len(q) - k)
      BY <1>3
    <3>2. k + i \in 1..Len(q) /\ k + j \in 1..Len(q)
      BY <1>1, <3>1
    <3>3. r[i] = q[k + i] /\ r[j] = q[k + j]
      BY <1>2, <3>1
    <3> QED
      BY <1>1, <1>5, <3>2, <3>3
  <2>2. k + i = k + j
    BY <1>4, <2>1
  <2> QED
    BY <1>1, <1>3, <2>2
<1>6. ASSUME NEW y \in Range(r)
      PROVE  \E i \in (k + 1)..Len(q) : y = q[i]
  <2>1. PICK i \in DOMAIN r : y = r[i]
    BY DEF Range
  <2>2. k + i \in (k + 1)..Len(q) /\ y = q[k + i]
    BY <1>1, <1>2, <1>3, <2>1
  <2> QED
    BY <2>2
<1>7. ASSUME NEW i \in (k + 1)..Len(q)
      PROVE  q[i] \in Range(r)
  <2>1. i - k \in DOMAIN r /\ k + (i - k) = i
    BY <1>1, <1>3
  <2>2. r[i - k] = q[i]
    BY <1>2, <1>3, <2>1
  <2> QED
    BY <2>1, <2>2 DEF Range
<1>8. IsInjective(r)
  BY <1>5 DEF IsInjective
<1>9. Range(r) = {q[i] : i \in (k + 1)..Len(q)}
  BY <1>6, <1>7
<1> QED
  BY <1>8, <1>9 DEF r

-----------------------------------------------------------------------------
(* Faults and file pages leave the reservation alone.                      *)

\* The pages written to block b, according to the records g.
WrittenTo(g, b) == {e \in DOMAIN g : g[e].ftype = "SWAP" /\ g[e].block = b}

Reservation(g, held, queue) ==
  /\ IsInjective(queue)
  /\ \A b \in Block :
       /\ held[b] = WrittenTo(g, b)
       /\ IF b \in Range(queue) THEN held[b] = {} ELSE Sole(held[b])

LEMMA ReservationDef ==
  /\ SwapReserved <=> Reservation(infile, swfile, free_block)
  /\ SwapReserved' <=> Reservation(infile', swfile', free_block')
BY DEF SwapReserved, Reservation, WrittenTo, IsSwap

LEMMA UnchangedReservation ==
  ASSUME SwapReserved, UNCHANGED <<swfile, free_block>>,
         \A b \in Block : WrittenTo(infile', b) = WrittenTo(infile, b)
  PROVE  SwapReserved'
BY ReservationDef DEF Reservation

LEMMA SameRecordsReserve ==
  ASSUME SwapReserved, UNCHANGED <<swfile, free_block>>, SameRecords(infile')
  PROVE  SwapReserved'
<1>1. ASSUME NEW b \in Block
      PROVE  WrittenTo(infile', b) = WrittenTo(infile, b)
  BY DEF SameRecords, WrittenTo
<1> QED
  BY <1>1, UnchangedReservation

LEMMA AccessReserves ==
  ASSUME IInv, SwapReserved, Access \/ Name
  PROVE  SwapReserved'
<1>1. ASSUME NEW v, NEW w \in BOOLEAN, NEW ok, NEW fail,
             vm_fault(v, w, ok, fail)
      PROVE  SwapReserved'
  <2>1. Keeps
    BY <1>1, FaultTypes DEF IInv
  <2> QED
    BY <2>1, SameRecordsReserve DEF Keeps
<1>2. ASSUME UNCHANGED <<proc, space, frames, mapping>>
      PROVE  SwapReserved'
  BY <1>2, UnchangedReservation DEF space, mapping
<1>3. CASE Access
  <2>1. PICK v \in Vpage : \/ \E w \in BOOLEAN : AppFault(v, w)
                           \/ \E d \in Data : Store(v, d)
                           \/ Reload(v)
    BY <1>3 DEF Access
  <2>2. ASSUME NEW w \in BOOLEAN, AppFault(v, w)
        PROVE  SwapReserved'
    BY <1>1, <2>2 DEF AppFault
  <2>3. ASSUME NEW d \in Data, Store(v, d)
        PROVE  SwapReserved'
    BY <1>2, <2>3 DEF Store
  <2>4. ASSUME Reload(v)
        PROVE  SwapReserved'
    BY <1>2, <2>4 DEF Reload
  <2> QED
    BY <2>1, <2>2, <2>3, <2>4
<1>4. CASE Name
  <2>1. PICK v \in Vpage, b \in FBlock : NameFault(v, b) \/ NameSpills(v, b)
    BY <1>4 DEF Name
  <2>2. ASSUME NameFault(v, b)
        PROVE  SwapReserved'
    BY <1>1, <2>2 DEF NameFault
  <2>3. ASSUME NameSpills(v, b)
        PROVE  SwapReserved'
    BY <1>2, <2>3 DEF NameSpills
  <2> QED
    BY <2>1, <2>2, <2>3
<1> QED
  BY <1>3, <1>4

\* The page vm_map is about to add has no record yet.
LEMMA NewEntryFresh ==
  ASSUME IInv, call.op # "none"
  PROVE  NewEntry \notin DOMAIN infile
<1>1. curr_pid \in DOMAIN all_pt /\ all_pt[curr_pid].size \in Nat
  BY SizeAssumption, PCntAssumption DEF IInv, TypeOK, ProcOK, Maps, Pt
<1> QED
  BY <1>1 DEF NewEntry, Mine, IInv, RecordsLive, Live

LEMMA MapFileReserves ==
  ASSUME IInv, SwapReserved, NEW v \in Vpage, NEW b \in FBlock, MapFile(v, b)
  PROVE  SwapReserved'
<1>1. /\ Reading(v, b)
      /\ UNCHANGED <<swfile, free_block>>
      /\ Remap(NamedBy(v, b)) \/ MapNew(NamedBy(v, b))
  BY DEF MapFile, space
<1>2. PICK disk \in BOOLEAN :
        infile' = Put(infile, NewEntry,
          [ftype |-> "FILE_B", infile |-> disk, block |-> NamedBy(v, b)])
  BY <1>1 DEF Remap, MapNew
<1>3. Str(v, b).op = "string"
  <2>1. v \in 0..NPages
    BY SizeAssumption, PCntAssumption DEF Vpage
  <2> QED
    BY <2>1, CallsOK
<1>4. NewEntry \notin DOMAIN infile
  BY <1>1, <1>3, NewEntryFresh DEF Reading, Idle
<1>5. ASSUME NEW k \in Block
      PROVE  WrittenTo(infile', k) = WrittenTo(infile, k)
  BY <1>2, <1>4 DEF WrittenTo, Put
<1> QED
  BY <1>1, <1>5, UnchangedReservation

-----------------------------------------------------------------------------
(* A swap page takes the first free block and gives it back.               *)

LEMMA MapSwapReserves ==
  ASSUME IInv, SwapReserved, MapSwap
  PROVE  SwapReserved'
<1> DEFINE h == Head(free_block)
<1>1. /\ call.op = "run" /\ free_block # <<>>
      /\ infile' = Put(infile, NewEntry,
                       [ftype |-> "SWAP", infile |-> FALSE, block |-> h])
      /\ swfile' = [swfile EXCEPT ![h] = @ \cup {NewEntry}]
      /\ free_block' = Tail(free_block)
  BY DEF MapSwap, Idle
<1>2. free_block \in Seq(Block) /\ swfile \in [Block -> SUBSET Pte]
  BY DEF IInv, TypeOK, SpaceOK
<1>3. Reservation(infile, swfile, free_block)
  BY ReservationDef
<1>4. NewEntry \notin DOMAIN infile
  BY <1>1, NewEntryFresh
<1>5. /\ h \in Range(free_block) /\ IsInjective(free_block')
      /\ Range(free_block') = Range(free_block) \ {h}
  BY <1>1, <1>2, <1>3, TailWithoutHead DEF Reservation
<1>6. h \in Block
  BY <1>1, <1>2, HeadTailProperties
<1> HIDE DEF h
<1>7. ASSUME NEW b \in Block
      PROVE  /\ swfile'[b] = WrittenTo(infile', b)
             /\ IF b \in Range(free_block') THEN swfile'[b] = {}
                ELSE Sole(swfile'[b])
  <2>1. CASE b = h
    <3>1. swfile'[b] = swfile[b] \cup {NewEntry} /\ swfile[b] = {}
      BY <1>1, <1>2, <1>3, <1>5, <2>1 DEF Reservation
    <3>2. WrittenTo(infile', b) = WrittenTo(infile, b) \cup {NewEntry}
      BY <1>1, <1>4, <2>1 DEF WrittenTo, Put
    <3> QED
      BY <1>3, <1>5, <2>1, <3>1, <3>2 DEF Reservation, Sole
  <2>2. CASE b # h
    <3>1. swfile'[b] = swfile[b]
      BY <1>1, <1>2, <2>2
    <3>2. WrittenTo(infile', b) = WrittenTo(infile, b)
      BY <1>1, <1>4, <2>2 DEF WrittenTo, Put
    <3> QED
      BY <1>3, <1>5, <2>2, <3>1, <3>2 DEF Reservation
  <2> QED
    BY <2>1, <2>2
<1> QED
  BY <1>5, <1>7, ReservationDef DEF Reservation

LEMMA DestroyPageReserves ==
  ASSUME IInv, SwapReserved, NEW v \in 0..NPages, DestroyPage(v)
  PROVE  SwapReserved'
<1> DEFINE e == Mine(v)
           b == infile[e]
<1>1. /\ e \in DOMAIN infile
      /\ DiscardBacking(e)
      /\ infile' = Drop(infile, {e})
  BY DEF DestroyPage, vm_discard, Recorded
<1>2. b \in Infile
  BY <1>1, RecordType DEF IInv, TypeOK
<1>3. free_block \in Seq(Block) /\ swfile \in [Block -> SUBSET Pte]
  BY DEF IInv, TypeOK, SpaceOK
<1>4. Reservation(infile, swfile, free_block)
  BY ReservationDef
<1> HIDE DEF e
<1>5. CASE b.ftype = "SWAP"
  <2>1. b.block \in Block
    BY <1>2, <1>5, InfileFields
  <2>2. e \in swfile[b.block]
    BY <1>1, <1>4, <1>5, <2>1 DEF Reservation, WrittenTo
  <2>3. b.block \notin Range(free_block) /\ Sole(swfile[b.block])
    BY <1>4, <2>1, <2>2 DEF Reservation
  <2>4. swfile[b.block] = {e}
    BY <2>2, <2>3 DEF Sole
  <2>5. /\ free_block' = Append(free_block, b.block)
        /\ swfile' = [swfile EXCEPT ![b.block] = {}]
    BY <1>1, <1>5, <2>3 DEF DiscardBacking, GiveBack
  <2>6. /\ IsInjective(free_block')
        /\ Range(free_block') = Range(free_block) \cup {b.block}
    BY <1>3, <1>4, <2>1, <2>3, <2>5, Appended DEF Reservation
  <2>7. ASSUME NEW k \in Block
        PROVE  /\ swfile'[k] = WrittenTo(infile', k)
               /\ IF k \in Range(free_block') THEN swfile'[k] = {}
                  ELSE Sole(swfile'[k])
    <3>1. WrittenTo(infile', k) = WrittenTo(infile, k) \ {e}
      BY <1>1 DEF WrittenTo, Drop, Restrict
    <3>2. CASE k = b.block
      <4>1. WrittenTo(infile, k) = {e}
        BY <1>4, <2>4, <3>2 DEF Reservation
      <4> QED
        BY <1>3, <2>5, <2>6, <3>1, <3>2, <4>1
    <3>3. CASE k # b.block
      <4>1. e \notin WrittenTo(infile, k)
        BY <3>3 DEF WrittenTo
      <4> QED
        BY <1>3, <1>4, <2>5, <2>6, <3>1, <3>3, <4>1 DEF Reservation
    <3> QED
      BY <3>2, <3>3
  <2> QED
    BY <2>6, <2>7, ReservationDef DEF Reservation
<1>6. CASE b.ftype # "SWAP"
  <2>1. UNCHANGED <<swfile, free_block>>
    BY <1>1, <1>6 DEF DiscardBacking, space
  <2>2. ASSUME NEW k \in Block
        PROVE  WrittenTo(infile', k) = WrittenTo(infile, k)
    BY <1>1, <1>6 DEF WrittenTo, Drop, Restrict
  <2> QED
    BY <2>1, <2>2, UnchangedReservation
<1> QED
  BY <1>5, <1>6

-----------------------------------------------------------------------------
(* vm_create deals the first numsw free blocks to the child's swap pages,  *)
(* in order: each of them goes to one page.                                *)

\* Two swap pages of one process have different seats.
LEMMA SeatsDiffer ==
  ASSUME NEW f, NEW p, NEW n \in Nat,
         NEW i \in SeatSet(f, p, n), NEW j \in SeatSet(f, p, n),
         Seats(f, p, i) = Seats(f, p, j)
  PROVE  i = j
<1>1. ASSUME NEW k \in SeatSet(f, p, n), NEW m \in SeatSet(f, p, n), k < m
      PROVE  Seats(f, p, k) # Seats(f, p, m)
  <2>1. k \in 0..(m - 1) /\ m \in Nat /\ k \in Nat /\ f[<<p, k>>].ftype = "SWAP"
    BY <1>1 DEF SeatSet
  <2>2. Seats(f, p, k) + 1 \in 1..Seats(f, p, m)
    BY <2>1, SeatInRange
  <2>3. Seats(f, p, k) \in Nat /\ Seats(f, p, m) \in Nat
    BY <2>1, SeatSetFinite
  <2> QED
    BY <2>2, <2>3
<1>2. i \in Nat /\ j \in Nat
  BY DEF SeatSet
<1> QED
  BY <1>1, <1>2

\* Every one of the numsw seats is taken.
LEMMA SeatsTaken ==
  ASSUME NEW f, NEW p, NEW n \in Nat, NEW k \in 1..Seats(f, p, n)
  PROVE  \E i \in SeatSet(f, p, n) : Seats(f, p, i) + 1 = k
<1> DEFINE S    == SeatSet(f, p, n)
           T    == 1..Seats(f, p, n)
           seat == [i \in S |-> Seats(f, p, i) + 1]
<1>1. Seats(f, p, n) \in Nat /\ Seats(f, p, n) = Cardinality(S)
  BY SeatSetFinite DEF Seats
<1>2. IsFiniteSet(T) /\ Cardinality(T) = Seats(f, p, n)
  BY <1>1, FS_Interval
<1>3. ASSUME NEW i \in S
      PROVE  seat[i] \in T /\ Seats(f, p, i) \in Nat
  <2>1. i \in 0..(n - 1) /\ i \in Nat /\ f[<<p, i>>].ftype = "SWAP"
    BY DEF SeatSet
  <2> QED
    BY <2>1, SeatInRange, SeatSetFinite
<1>4. ASSUME NEW i \in S, NEW j \in S, seat[i] = seat[j]
      PROVE  i = j
  <2>1. Seats(f, p, i) = Seats(f, p, j)
    BY <1>3, <1>4
  <2> QED
    BY <2>1, SeatsDiffer
<1>5. DOMAIN seat = S /\ \A i \in S : seat[i] = Seats(f, p, i) + 1
  OBVIOUS
<1>6. seat \in [S -> T]
  BY <1>3
<1> HIDE DEF S, T, seat
<1>7. seat \in Injection(S, T)
  BY <1>4, <1>5, <1>6 DEF Injection, IsInjective
<1>8. seat \in Surjection(S, T)
  BY <1>1, <1>2, <1>7, FS_Injection
<1>9. k \in T
  BY DEF T
<1>10. \E i \in S : seat[i] = k
  BY <1>8, <1>9 DEF Surjection
<1> QED
  BY <1>5, <1>10 DEF S

LEMMA CreateReserves ==
  ASSUME IInv, SwapReserved, NEW parent \in Pid \cup {NoPid},
         NEW child \in Pid, vm_create(parent, child)
  PROVE  SwapReserved'
<1> DEFINE size     == ParentSize(parent)
           numsw    == ParentNumsw(parent)
           born     == {child} \X (0..(size - 1))
           model(e) == <<parent, e[2]>>
           copy(e)  == IF infile[model(e)].ftype = "FILE_B"
                       THEN infile[model(e)]
                       ELSE [infile[model(e)] EXCEPT !.block =
                               free_block[SwapBefore(parent, e[2]) + 1]]
           record   == [e \in born |-> copy(e)]
           seat(e)  == Seats(infile, parent, e[2]) + 1
           given(b) == {e \in born : record[e].ftype = "SWAP"
                                     /\ record[e].block = b}
<1>1. /\ parent = NoPid \/ (Idle /\ parent = curr_pid)
      /\ child \notin DOMAIN all_pt
      /\ numsw <= Len(free_block)
      /\ infile' = [e \in DOMAIN infile \cup born |->
                      IF e \in born THEN record[e] ELSE infile[e]]
      /\ swfile' = [b \in Block |-> swfile[b] \cup given(b)]
      /\ free_block' = SubSeq(free_block, numsw + 1, Len(free_block))
  BY DEF vm_create
<1>2. /\ size \in Nat
      /\ numsw \in Nat
      /\ \A i \in 0..(size - 1) : <<parent, i>> \in DOMAIN infile
      /\ numsw = Seats(infile, parent, size)
  BY <1>1, ParentPages, SizeAssumption, PCntAssumption
<1>3. /\ free_block \in Seq(Block)
      /\ Len(free_block) \in Nat /\ DOMAIN free_block = 1..Len(free_block)
  BY LenProperties DEF IInv, TypeOK, SpaceOK
<1>4. Reservation(infile, swfile, free_block)
  BY ReservationDef
<1>5. \A i, j \in 1..Len(free_block) : free_block[i] = free_block[j] => i = j
  BY <1>3, <1>4 DEF Reservation, IsInjective
<1>6. ASSUME NEW e \in born
      PROVE  /\ e = <<child, e[2]>> /\ e[2] \in 0..(size - 1)
             /\ record[e].ftype = infile[model(e)].ftype
             /\ record[e].ftype = "SWAP" =>
                  /\ e[2] \in SeatSet(infile, parent, size)
                  /\ seat(e) \in 1..numsw
                  /\ record[e].block = free_block[seat(e)]
  <2>1. e = <<child, e[2]>> /\ e[2] \in 0..(size - 1)
    OBVIOUS
  <2>2. infile[model(e)] \in Infile
    BY <1>2, <2>1, RecordType DEF IInv, TypeOK
  <2>3. record[e] = copy(e)
    OBVIOUS
  <2> HIDE DEF record
  <2>4. CASE infile[model(e)].ftype = "FILE_B"
    BY <2>1, <2>3, <2>4
  <2>5. CASE infile[model(e)].ftype # "FILE_B"
    <3>1. infile[model(e)] \in SwapRec
      BY <2>2, <2>5, InfileFields
    <3>2. record[e] = [infile[model(e)] EXCEPT !.block =
                         free_block[Seats(infile, parent, e[2]) + 1]]
      BY <2>3, <2>5, SwapBeforeSeats
    <3>3. /\ infile[<<parent, e[2]>>].ftype = "SWAP"
          /\ record[e].ftype = "SWAP"
          /\ record[e].block = free_block[Seats(infile, parent, e[2]) + 1]
      BY <3>1, <3>2 DEF SwapRec
    <3>4. Seats(infile, parent, e[2]) + 1 \in 1..numsw
      BY <1>2, <2>1, <3>3, SeatInRange
    <3>5. e[2] \in SeatSet(infile, parent, size)
      BY <2>1, <3>3 DEF SeatSet
    <3> QED
      BY <2>1, <3>3, <3>4, <3>5
  <2> QED
    BY <2>4, <2>5
<1>7. born \cap DOMAIN infile = {}
  <2>1. \A e \in DOMAIN infile : e[1] \in DOMAIN all_pt
    BY DEF IInv, RecordsLive, Live
  <2>2. \A e \in born : e[1] = child
    OBVIOUS
  <2> QED
    BY <1>1, <2>1, <2>2
<1>8. /\ IsInjective(free_block')
      /\ Range(free_block')
           = {free_block[i] : i \in (numsw + 1)..Len(free_block)}
  <2>1. numsw \in 0..Len(free_block)
    BY <1>1, <1>2, <1>3
  <2> QED
    BY <1>1, <1>3, <1>4, <2>1, FrontTaken DEF Reservation
<1>9. Range(free_block) = {free_block[i] : i \in 1..Len(free_block)}
  BY <1>3 DEF Range
<1> HIDE DEF record, seat
<1>10. ASSUME NEW b \in Block
       PROVE  swfile'[b] = WrittenTo(infile', b)
  <2>1. WrittenTo(infile', b) = WrittenTo(infile, b) \cup given(b)
    BY <1>1, <1>7 DEF WrittenTo
  <2> QED
    BY <1>1, <1>4, <2>1 DEF Reservation
<1>11. ASSUME NEW b \in Block
       PROVE  IF b \in Range(free_block') THEN swfile'[b] = {}
              ELSE Sole(swfile'[b])
  <2>1. swfile'[b] = swfile[b] \cup given(b)
    BY <1>1
  <2>2. ASSUME NEW e \in given(b)
        PROVE  /\ e \in born /\ e = <<child, e[2]>>
               /\ e[2] \in SeatSet(infile, parent, size)
               /\ seat(e) \in 1..numsw /\ seat(e) \in 1..Len(free_block)
               /\ free_block[seat(e)] = b
    <3>1. e \in born /\ record[e].ftype = "SWAP" /\ record[e].block = b
      OBVIOUS
    <3>2. /\ e = <<child, e[2]>>
          /\ e[2] \in SeatSet(infile, parent, size)
          /\ seat(e) \in 1..numsw
          /\ free_block[seat(e)] = b
      BY <1>6, <3>1
    <3>3. seat(e) \in 1..Len(free_block)
      BY <1>1, <1>2, <1>3, <3>2
    <3> QED
      BY <3>1, <3>2, <3>3
  <2>3. CASE b \in Range(free_block')
    <3>1. PICK m \in (numsw + 1)..Len(free_block) : b = free_block[m]
      BY <1>8, <2>3
    <3>2. m \in 1..Len(free_block) /\ m \notin 1..numsw
      BY <1>2, <1>3
    <3>3. swfile[b] = {}
      BY <1>4, <1>9, <3>1, <3>2 DEF Reservation
    <3>4. given(b) = {}
      BY <1>5, <2>2, <3>1, <3>2
    <3> QED
      BY <2>1, <2>3, <3>3, <3>4
  <2>4. CASE b \notin Range(free_block') /\ b \in Range(free_block)
    <3>1. PICK m \in 1..Len(free_block) : b = free_block[m]
      BY <1>9, <2>4
    <3>2. m \in 1..numsw
      BY <1>2, <1>3, <1>8, <2>4, <3>1
    <3>3. PICK i \in SeatSet(infile, parent, size) :
            Seats(infile, parent, i) + 1 = m
      BY <1>2, <3>2, SeatsTaken
    <3>4. /\ i \in 0..(size - 1) /\ infile[<<parent, i>>].ftype = "SWAP"
          /\ <<child, i>> \in born
      BY DEF SeatSet
    <3>5. <<child, i>> \in given(b)
      <4>1. record[<<child, i>>].ftype = "SWAP"
        BY <1>6, <3>4
      <4>2. record[<<child, i>>].block = free_block[seat(<<child, i>>)]
        BY <1>6, <3>4, <4>1
      <4>3. seat(<<child, i>>) = m
        BY <3>3 DEF seat
      <4> QED
        BY <3>1, <3>4, <4>1, <4>2, <4>3
    <3>6. ASSUME NEW e \in given(b)
          PROVE  e = <<child, i>>
      <4>1. seat(e) = m
        BY <1>5, <2>2, <3>1
      <4>2. Seats(infile, parent, e[2]) + 1 = m
        BY <4>1 DEF seat
      <4>3. /\ e[2] \in SeatSet(infile, parent, size)
            /\ e[2] \in Nat /\ i \in Nat
        <5>1. e[2] \in SeatSet(infile, parent, size)
          BY <2>2
        <5> QED
          BY <5>1 DEF SeatSet
      <4>4. /\ Seats(infile, parent, e[2]) \in Nat
            /\ Seats(infile, parent, i) \in Nat
        BY <4>3, SeatSetFinite
      <4>5. Seats(infile, parent, e[2]) = Seats(infile, parent, i)
        BY <3>3, <4>2, <4>4
      <4>6. e[2] = i
        BY <1>2, <4>3, <4>5, SeatsDiffer
      <4> QED
        BY <2>2, <4>6
    <3> HIDE DEF given
    <3>7. given(b) = {<<child, i>>}
      BY <3>5, <3>6
    <3>8. swfile[b] = {}
      BY <1>4, <2>4 DEF Reservation
    <3> QED
      BY <2>1, <2>4, <3>7, <3>8 DEF Sole
  <2>5. CASE b \notin Range(free_block)
    <3>1. given(b) = {}
      BY <1>9, <2>2, <2>5
    <3>2. b \notin Range(free_block')
      <4>1. \A m \in (numsw + 1)..Len(free_block) : m \in 1..Len(free_block)
        BY <1>2, <1>3
      <4> QED
        BY <1>8, <1>9, <2>5, <4>1
    <3> QED
      BY <1>4, <2>1, <2>5, <3>1, <3>2 DEF Reservation
  <2> QED
    BY <2>3, <2>4, <2>5
<1> QED
  BY <1>8, <1>10, <1>11, ReservationDef DEF Reservation

-----------------------------------------------------------------------------

LEMMA InitReserves ==
  ASSUME Init
  PROVE  SwapReserved
<1> USE DEF Init
<1>1. free_block = [i \in 1..BlCnt |-> i - 1]
  OBVIOUS
<1>2. IsInjective(free_block)
  BY <1>1 DEF IsInjective
<1>3. ASSUME NEW b \in Block
      PROVE  b \in Range(free_block)
  <2>1. b + 1 \in 1..BlCnt /\ (b + 1) - 1 = b
    BY SizeAssumption, PCntAssumption DEF Block
  <2>2. free_block[b + 1] = b
    BY <1>1, <2>1
  <2> QED
    BY <1>1, <2>1, <2>2 DEF Range
<1>4. ASSUME NEW b \in Block
      PROVE  swfile[b] = {} /\ WrittenTo(infile, b) = {}
  BY DEF WrittenTo
<1> QED
  BY <1>2, <1>3, <1>4, ReservationDef DEF Reservation

LEMMA NextReserves ==
  ASSUME IInv, SwapReserved, [Next]_vars
  PROVE  SwapReserved'
<1>1. CASE Access \/ Name
  BY <1>1, AccessReserves
<1>2. CASE MapSwap
  BY <1>2, MapSwapReserves
<1>3. CASE vm_destroy
  <2>1. PICK v \in 0..NPages : DestroyPage(v) \/ DestroyTable(v)
    BY <1>3 DEF vm_destroy
  <2>2. CASE DestroyTable(v)
    BY <2>2, UnchangedReservation DEF DestroyTable, space
  <2> QED
    BY <2>1, <2>2, DestroyPageReserves
<1>4. CASE \E p \in Pid : vm_switch(p)
  BY <1>4, UnchangedReservation DEF vm_switch, space, mapping
<1>5. CASE \E v \in Vpage, b \in FBlock : MapFile(v, b)
  BY <1>5, MapFileReserves
<1>6. CASE \E parent \in Pid \cup {NoPid}, child \in Pid :
             vm_create(parent, child)
  BY <1>6, CreateReserves
<1>7. CASE UNCHANGED vars
  BY <1>7, UnchangedReservation DEF vars, space, mapping
<1> QED
  BY <1>1, <1>2, <1>3, <1>4, <1>5, <1>6, <1>7 DEF Next, Step

\* A swap block is free once, or reserved by the one page that is written to
\* it, whatever maps, forks and exits came before: vm_map and vm_create never
\* hand out a block in use, and vm_discard gives each back when its page goes.
THEOREM SwapReservedCorrect == Spec => []SwapReserved
<1>1. Init => IInv /\ SwapReserved
  BY InitIInv, InitReserves
<1>2. IInv /\ SwapReserved /\ [Next]_vars => (IInv /\ SwapReserved)'
  BY NextIInv, NextReserves
<1> QED
  BY <1>1, <1>2, PTL DEF Spec
=============================================================================
