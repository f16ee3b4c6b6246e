---------------------------- MODULE ArenaProofs ----------------------------
(***************************************************************************)
(* What the processes see, for every number of processes, pages, frames,   *)
(* blocks and files, within the limits of CleanSpec: a serviced fault is   *)
(* not taken again, only stores change what a page holds, the pager        *)
(* implements the arenas of VirtualMemory, and vm_map reads the name that  *)
(* it was called with.                                                     *)
(***************************************************************************)
EXTENDS FrameProofs, PagerNames

-----------------------------------------------------------------------------
(* A serviced fault is not taken again.                                    *)

LEMMA RetryIs ==
  ASSUME NEW v \in 0..NPages, NEW w \in BOOLEAN
  PROVE  Retry(v, w).op = "retry" /\ Retry(v, w).vp = v /\ Retry(v, w).write = w
BY DEF Retry, Run

LEMMA NextPermits ==
  ASSUME FInv, Hidden, NoRepeatedFault, [CleanNext]_vars
  PROVE  NoRepeatedFault'
<1> SUFFICES ASSUME call'.op = "retry"
             PROVE  Permits(call.vp, call.write)'
  BY DEF NoRepeatedFault
<1>1. IInv' /\ SwapReserved'
  BY CleanIsNext, NextIInv, NextReserves DEF FInv
<1>2. \A v \in Vpage : v \in 0..NPages /\ v + 1 \in 0..NPages
  BY SizeAssumption, PCntAssumption DEF Vpage
<1>3. /\ Run.op = "run" /\ None.op = "none"
      /\ \A v \in 0..NPages : Exit(v).op = "exit"
      /\ \A v \in 0..NPages, b \in FBlock : Str(v, b).op = "string"
  <2>1. FBlock # {} /\ 0 \in 0..NPages
    BY SizeAssumption, PCntAssumption, DataAssumption
  <2> QED
    BY <2>1, CallsOK
<1>4. ASSUME NEW v \in Vpage, NEW w \in BOOLEAN, AppFault(v, w)
      PROVE  Permits(call.vp, call.write)'
  <2>1. vm_fault(v, w, Retry(v, w), Exit(0))
    BY <1>4 DEF AppFault
  <2>2. \/ call' = Exit(0)
        \/ /\ call' = Retry(v, w)
           /\ IF w THEN pt'[Mine(v)].write_enable ELSE pt'[Mine(v)].read_enable
    BY <1>1, <2>1, FaultAgrees
  <2>3. call' # Exit(0)
    BY <1>3, SizeAssumption
  <2>4. call'.vp = v /\ call'.write = w
    BY <1>2, <2>2, <2>3, RetryIs
  <2>5. curr_pid' = curr_pid
    BY <1>4, AccessKeepsPages DEF Access
  <2> QED
    BY <2>2, <2>3, <2>4, <2>5 DEF Permits, Mine
<1>5. ASSUME NEW v \in Vpage, NEW b \in FBlock, NameFault(v, b)
      PROVE  FALSE
  <2>1. call' \in {Str(v, b), Run}
    BY <1>1, <1>5, FaultAgrees DEF NameFault
  <2> QED
    BY <1>2, <1>3, <2>1
<1>6. CASE Access
  BY <1>3, <1>4, <1>6 DEF Access, Store, Reload
<1>7. CASE Name
  BY <1>2, <1>3, <1>5, <1>7 DEF Name, NameSpills
<1>8. CASE MapSwap
  BY <1>8 DEF MapSwap, Idle
<1>9. CASE vm_destroy
  <2>1. PICK v \in 0..NPages : DestroyPage(v) \/ DestroyTable(v)
    BY <1>9 DEF vm_destroy
  <2>2. CASE DestroyPage(v)
    <3>1. v < all_pt[curr_pid].size /\ Exiting(v) /\ call' = Exit(v + 1)
      BY <2>2 DEF DestroyPage
    <3>2. call.op # "none"
      BY <1>3, <3>1 DEF Exiting, Idle
    <3>3. all_pt[curr_pid].size \in 0..NPages
      BY <3>2 DEF FInv, IInv, TypeOK, ProcOK, Maps, Pt
    <3>4. v + 1 \in 0..NPages
      BY <3>1, <3>3, SizeAssumption, PCntAssumption
    <3> QED
      BY <1>3, <3>1, <3>4
  <2>3. CASE DestroyTable(v)
    BY <1>3, <2>3 DEF DestroyTable
  <2> QED
    BY <2>1, <2>2, <2>3
<1>10. CASE \E p \in Pid : vm_switch(p)
  BY <1>3, <1>10 DEF vm_switch
<1>11. CASE \E v \in Vpage, b \in FBlock : MapFile(v, b) /\ ~StaleGhost(NamedBy(v, b))
  BY <1>3, <1>11 DEF MapFile
<1>12. CASE \E parent \in Pid \cup {NoPid}, child \in Pid :
              vm_create(parent, child) /\ ParentSize(parent) = 0
  BY <1>12 DEF vm_create, Kernel
<1>13. CASE UNCHANGED vars
  BY <1>13 DEF vars, proc, mapping, NoRepeatedFault, Permits, Mine
<1> QED
  BY <1>6, <1>7, <1>8, <1>9, <1>10, <1>11, <1>12, <1>13 DEF CleanNext, Step

\* vm_fault leaves the access it serviced permitted, so that the instruction it
\* interrupted does not fault a second time.
THEOREM FaultsServiced == CleanSpec => []NoRepeatedFault
<1>1. Init => NoRepeatedFault
  <2>1. None.op = "none"
    <3>1. FBlock # {} /\ 0 \in 0..NPages
      BY SizeAssumption, PCntAssumption, DataAssumption
    <3> QED
      BY <3>1, CallsOK
  <2> QED
    BY <2>1 DEF Init, NoRepeatedFault
<1>2. (FInv /\ Hidden) /\ NoRepeatedFault /\ [CleanNext]_vars => NoRepeatedFault'
  BY NextPermits
<1> QED
  BY <1>1, <1>2, Agreement, PTL DEF CleanSpec

-----------------------------------------------------------------------------
(* What pages and file blocks hold, in memory or on disk.                  *)

InMem(g, fm, f) == f \in DOMAIN fm /\ \A l \in fm[f].vpset : ~g[l].infile

FileData(g, fm, m, fl, f) == IF InMem(g, fm, f) THEN m[fm[f].ppage] ELSE fl[f]
SwapData(g, t, m, s, e) == IF ~g[e].infile THEN m[t[e].ppage] ELSE s[g[e].block]

\* A page that stays mapped keeps its backing, and a swap page what it holds.
PagesSame(g, t, m, s) ==
  \A e \in DOMAIN infile \cap DOMAIN g :
    /\ g[e].ftype = infile[e].ftype /\ g[e].block = infile[e].block
    /\ IsSwap(e) => SwapData(g, t, m, s, e) = SwapData(infile, pt, phys, swap, e)

FilesSame(g, fm, m, fl) ==
  \A f \in FileBlock :
    FileData(g, fm, m, fl, f) = FileData(infile, filemap, phys, file, f)

\* The block of a file page is in memory when the page is, and in the frame
\* that filemap says.
LEMMA FileTogether ==
  ASSUME NEW g, NEW t, NEW fm, BlocksListed(g, fm), BlocksMoveAsOne(g, t, fm),
         NEW e \in DOMAIN g, g[e].ftype # "SWAP"
  PROVE  /\ InMem(g, fm, g[e].block) <=> ~g[e].infile
         /\ ~g[e].infile => fm[g[e].block].ppage = t[e].ppage
<1> DEFINE f == g[e].block
<1>1. f \in DOMAIN fm /\ e \in fm[f].vpset
  BY DEF BlocksListed, FileOf
<1> QED
  BY <1>1 DEF InMem, BlocksMoveAsOne

\* alloc moves what its frame holds to disk, and nothing refers to the frame.
LEMMA AllocSame ==
  ASSUME FInv, NEW n, NEW g, NEW t, NEW c, NEW fm, NEW gh, NEW ps, NEW s, NEW fl,
         Taken(n, g, t, c, fm, gh, ps, s, fl)
  PROVE  /\ PagesSame(g, t, phys, s) /\ FilesSame(g, fm, phys, fl)
         /\ \A e \in DOMAIN g : ~g[e].infile => t[e].ppage # n
         /\ \A f \in DOMAIN fm : InMem(g, fm, f) => fm[f].ppage # n
<1>1. /\ Agree(infile, pt, core, filemap, ghost, Free, {})
      /\ Agree(g, t, c, fm, gh, Free \ {n}, {n})
  BY TakenAgrees DEF FInv
<1>2. /\ n \in Frame /\ n \in Ppage
      /\ DOMAIN infile \subseteq Pte /\ pt \in [Pte -> Entry]
      /\ core \in [Ppage -> SUBSET Pte] /\ DOMAIN filemap \subseteq FileBlock
  BY FInvTypes DEF Taken
<1>3. /\ DOMAIN g = DOMAIN infile
      /\ \A e \in DOMAIN infile :
           /\ g[e].ftype = infile[e].ftype /\ g[e].block = infile[e].block
           /\ g[e].infile <=> infile[e].infile \/ e \in core[n]
  BY DEF Taken
<1>4. /\ DOMAIN fm = {f \in DOMAIN filemap : ~(n \in DOMAIN ghost /\ ghost[n] = f)}
      /\ \A f \in DOMAIN fm : fm[f] = filemap[f]
  BY DEF Taken
<1>5. /\ \A b \in Block :
           s[b] = IF \E e \in core[n] : IsSwap(e) /\ infile[e].block = b
                  THEN phys[n] ELSE swap[b]
      /\ \A f \in FileBlock :
           fl[f] = IF \/ \E e \in core[n] : ~IsSwap(e) /\ infile[e].block = f
                      \/ n \in DOMAIN ghost /\ ghost[n] = f
                   THEN phys[n] ELSE file[f]
  BY Zenon DEF Taken
<1>6. \A e : e \in core[n] <=> e \in DOMAIN infile /\ ~infile[e].infile /\ pt[e].ppage = n
  BY <1>1, <1>2 DEF Agree, Cored, Loaded
<1>7. \A e \in Pte : t[e].ppage = pt[e].ppage
  <2> TAKE e \in Pte
  <2>1. t[e] = pt[e] \/ t[e] = Revoked(pt[e])
    BY DEF Taken
  <2> QED
    BY <1>2, <2>1, EntryRevoked
<1>8. \A e \in DOMAIN g : ~g[e].infile => t[e].ppage # n
  BY <1>2, <1>3, <1>6, <1>7
<1>9. \A f \in DOMAIN fm : InMem(g, fm, f) => fm[f].ppage # n
  <2> SUFFICES ASSUME NEW f \in DOMAIN fm, InMem(g, fm, f)
               PROVE  fm[f].ppage # n
    OBVIOUS
  <2>1. CASE fm[f].vpset = {}
    BY <1>1, <1>2, <2>1 DEF Agree, GhostsListed, Parted
  <2>2. CASE fm[f].vpset # {}
    <3>1. PICK l \in fm[f].vpset : ~g[l].infile
      BY <2>2 DEF InMem
    <3>2. l \in DOMAIN g /\ t[l].ppage = fm[f].ppage
      BY <1>1, <3>1 DEF Agree, BlocksListed, FileOf, BlocksMoveAsOne
    <3> QED
      BY <1>8, <3>1, <3>2
  <2> QED
    BY <2>1, <2>2
<1>10. ASSUME NEW e \in DOMAIN infile, IsSwap(e)
       PROVE  SwapData(g, t, phys, s, e) = SwapData(infile, pt, phys, swap, e)
  <2>1. infile[e].block \in Block /\ e \in Pte
    BY <1>2, <1>10, FInvTypes, InfileFields DEF IsSwap
  <2>2. CASE e \in core[n]
    <3>1. ~infile[e].infile /\ g[e].infile /\ pt[e].ppage = n
      BY <1>3, <1>6, <1>10, <2>2
    <3>2. s[infile[e].block] = phys[n]
      BY <1>5, <1>10, <2>1, <2>2
    <3> QED
      BY <1>3, <1>10, <3>1, <3>2 DEF SwapData
  <2>3. CASE e \notin core[n] /\ infile[e].infile
    <3>1. ~\E l \in core[n] : IsSwap(l) /\ infile[l].block = infile[e].block
      BY <1>6, <1>10, <2>3, SameBlockTogether
    <3> QED
      BY <1>3, <1>5, <2>1, <2>3, <3>1 DEF SwapData
  <2>4. CASE e \notin core[n] /\ ~infile[e].infile
    BY <1>3, <1>7, <1>10, <2>1, <2>4 DEF SwapData
  <2> QED
    BY <2>2, <2>3, <2>4
<1>11. ASSUME NEW f \in FileBlock
       PROVE  FileData(g, fm, phys, fl, f) = FileData(infile, filemap, phys, file, f)
  <2>1. CASE \E e \in core[n] : ~IsSwap(e) /\ infile[e].block = f
    <3>1. PICK e \in core[n] : ~IsSwap(e) /\ infile[e].block = f
      BY <2>1
    <3>2. e \in DOMAIN infile /\ ~infile[e].infile /\ g[e].infile /\ pt[e].ppage = n
      BY <1>3, <1>6, <3>1
    <3>3. /\ BlocksListed(infile, filemap) /\ BlocksMoveAsOne(infile, pt, filemap)
          /\ BlocksListed(g, fm) /\ BlocksMoveAsOne(g, t, fm)
          /\ infile[e].ftype # "SWAP" /\ g[e].ftype # "SWAP"
          /\ e \in DOMAIN infile /\ e \in DOMAIN g
      BY <1>1, <1>3, <3>1, <3>2 DEF Agree, IsSwap
    <3>4. InMem(infile, filemap, f) /\ filemap[f].ppage = n
      BY <3>1, <3>2, <3>3, FileTogether
    <3>5. ~InMem(g, fm, f)
      BY <1>3, <3>1, <3>2, <3>3, FileTogether
    <3> QED
      BY <1>5, <3>1, <3>4, <3>5 DEF FileData
  <2>2. CASE n \in DOMAIN ghost /\ ghost[n] = f
    <3>1. f \in DOMAIN filemap /\ filemap[f].vpset = {} /\ filemap[f].ppage = n
      BY <1>1, <2>2 DEF Agree, GhostsListed
    <3>2. FileData(infile, filemap, phys, file, f) = phys[n]
      BY <3>1 DEF FileData, InMem
    <3>3. FileData(g, fm, phys, fl, f) = fl[f]
      BY <1>4, <2>2 DEF FileData, InMem
    <3> QED
      BY <1>5, <2>2, <3>2, <3>3
  <2>3. CASE ~(\E e \in core[n] : ~IsSwap(e) /\ infile[e].block = f)
             /\ ~(n \in DOMAIN ghost /\ ghost[n] = f)
    <3>1. fl[f] = file[f]
      BY <1>5, <2>3
    <3>2. f \in DOMAIN fm <=> f \in DOMAIN filemap
      BY <1>4, <2>3
    <3>3. f \in DOMAIN filemap =>
            \A l \in filemap[f].vpset : g[l].infile <=> infile[l].infile
      BY <1>1, <1>3, <2>3 DEF Agree, BlocksListed, FileOf, IsSwap
    <3>4. InMem(g, fm, f) <=> InMem(infile, filemap, f)
      BY <1>4, <3>2, <3>3 DEF InMem
    <3> QED
      BY <1>4, <3>1, <3>2, <3>4 DEF FileData, InMem
  <2> QED
    BY <2>1, <2>2, <2>3
<1> QED
  BY <1>3, <1>8, <1>9, <1>10, <1>11 DEF PagesSame, FilesSame

\* A page copied to a frame of its own holds what it held.
LEMMA CowSame ==
  ASSUME FInv, NEW e, Recorded(e), NEW ok, FaultCow(e, ok)
  PROVE  PagesSame(infile', pt', phys', swap') /\ FilesSame(infile', filemap', phys', file')
<1> DEFINE n  == Alloc(psuff)
           g  == AllocInfile(psuff)
           t  == AllocPt(psuff)
           c  == AllocCore(psuff)
           fm == AllocFilemap(psuff)
           gh == AllocGhost(psuff)
           ps == AllocPsuff(psuff)
           s  == AllocSwap(psuff)
           fl == AllocFile(psuff)
<1>1. e \in DOMAIN infile /\ Resident(e) /\ IsCow(e)
  BY DEF FaultCow, Recorded, Resident
<1>2. pt[e].ppage = pinned /\ IsSwap(e)
  BY <1>1, CowOfZero
<1>3. /\ EvictAsserts(psuff)
      /\ phys' = [phys EXCEPT ![n] = phys[pinned]]
      /\ pt' = [t EXCEPT ![e] = [ppage |-> n, read_enable |-> TRUE,
                                 write_enable |-> TRUE]]
      /\ infile' = g /\ filemap' = fm /\ swap' = s /\ file' = fl
  BY <1>2 DEF FaultCow
<1>4. Taken(n, g, t, c, fm, gh, ps, s, fl)
  BY AllocTakes
<1>5. /\ g \in [DOMAIN infile -> Infile] /\ t \in [Pte -> Entry]
      /\ fm \in [DOMAIN fm -> Fbp]
  BY <1>3, AllocTypes
<1> HIDE DEF n, g, t, c, fm, gh, ps, s, fl
<1>6. /\ PagesSame(g, t, phys, s) /\ FilesSame(g, fm, phys, fl)
      /\ \A l \in DOMAIN g : ~g[l].infile => t[l].ppage # n
      /\ \A f \in DOMAIN fm : InMem(g, fm, f) => fm[f].ppage # n
  BY <1>4, AllocSame
<1>7. /\ n \in Frame /\ n \in Ppage /\ e \in Pte /\ DOMAIN infile \subseteq Pte
      /\ phys \in [Ppage -> Data]
  BY <1>1, <1>4, FInvTypes DEF Taken
<1>8. phys'[n] = phys[pinned] /\ \A q \in Ppage \ {n} : phys'[q] = phys[q]
  BY <1>3, <1>7
<1>9. pt'[e].ppage = n /\ \A l \in Pte \ {e} : pt'[l] = t[l] /\ t[l].ppage \in Ppage
  BY <1>3, <1>5, <1>7 DEF Entry
<1>10. ~g[e].infile
  <2>1. e \notin core[n]
    BY <1>2, <1>7, FInvTypes DEF FInv, Agree, Cored
  <2> QED
    BY <1>1, <1>4, <2>1 DEF Taken, Resident
<1>11. PagesSame(infile', pt', phys', swap')
  <2> SUFFICES ASSUME NEW l \in DOMAIN infile, IsSwap(l)
               PROVE  SwapData(g, pt', phys', s, l) = SwapData(infile, pt, phys, swap, l)
    BY <1>3, <1>5, <1>6 DEF PagesSame
  <2>1. SwapData(g, t, phys, s, l) = SwapData(infile, pt, phys, swap, l)
    BY <1>5, <1>6 DEF PagesSame
  <2>2. CASE l = e
    BY <1>1, <1>2, <1>8, <1>9, <1>10, <2>2 DEF SwapData, Resident
  <2>3. CASE l # e
    BY <1>5, <1>6, <1>7, <1>8, <1>9, <2>1, <2>3 DEF SwapData
  <2> QED
    BY <2>2, <2>3
<1>12. FilesSame(infile', filemap', phys', file')
  <2> SUFFICES ASSUME NEW f \in FileBlock
               PROVE  FileData(g, fm, phys', fl, f) = FileData(g, fm, phys, fl, f)
    BY <1>3, <1>6 DEF FilesSame
  <2>1. InMem(g, fm, f) => fm[f].ppage \in Ppage \ {n}
    BY <1>5, <1>6 DEF InMem, Fbp
  <2> QED
    BY <1>8, <2>1 DEF FileData
<1> QED
  BY <1>11, <1>12

\* A page or block read from disk holds what the disk held.
LEMMA LoadSame ==
  ASSUME FInv, NEW e, Recorded(e), NEW w \in BOOLEAN, NEW ok, FaultLoad(e, w, ok)
  PROVE  PagesSame(infile', pt', phys', swap') /\ FilesSame(infile', filemap', phys', file')
<1> DEFINE n  == Alloc(psuff)
           g  == AllocInfile(psuff)
           t  == AllocPt(psuff)
           c  == AllocCore(psuff)
           fm == AllocFilemap(psuff)
           gh == AllocGhost(psuff)
           ps == AllocPsuff(psuff)
           s  == AllocSwap(psuff)
           fl == AllocFile(psuff)
           k  == infile[e].block
           up == Lifted(e)
<1>1. e \in DOMAIN infile /\ infile[e].infile /\ EvictAsserts(psuff)
  BY DEF FaultLoad, Recorded
<1>2. /\ g \in [DOMAIN infile -> Infile] /\ t \in [Pte -> Entry]
      /\ fm \in [DOMAIN fm -> Fbp] /\ c \in [Ppage -> SUBSET Pte]
  BY <1>1, AllocTypes
<1>3. Taken(n, g, t, c, fm, gh, ps, s, fl)
  BY AllocTakes
<1>4. /\ n \in Frame /\ n \in Ppage /\ e \in Pte /\ DOMAIN infile \subseteq Pte
      /\ phys \in [Ppage -> Data] /\ core \in [Ppage -> SUBSET Pte]
  BY <1>1, <1>3, FInvTypes DEF Taken
<1>5. c[n] = {}
  BY <1>3, <1>4 DEF Taken
<1>6. IF IsSwap(e) THEN infile[e].ftype # "FILE_B" ELSE infile[e].ftype = "FILE_B"
  BY <1>1, FInvTypes DEF IsSwap
<1>7. /\ e \in up
      /\ \A l : l \in up <=> /\ l \in DOMAIN infile
                             /\ IsSwap(l) <=> IsSwap(e)
                             /\ infile[l].block = k
      /\ IsSwap(e) => up = {e}
      /\ \A l \in up : infile[l].infile
  BY <1>1, LiftedTogether
<1>8. /\ phys' = [phys EXCEPT ![n] = IF ~IsSwap(e) THEN fl[k] ELSE s[k]]
      /\ infile' = [l \in DOMAIN infile |->
                      IF l \in up THEN [infile[l] EXCEPT !.infile = FALSE]
                      ELSE g[l]]
      /\ filemap' = IF ~IsSwap(e) THEN [fm EXCEPT ![k].ppage = n] ELSE fm
      /\ ~IsSwap(e) => k \in DOMAIN fm
  BY <1>6 DEF FaultLoad
<1>9. swap' = s /\ file' = fl
  BY DEF FaultLoad
<1>10. \A l \in Pte : pt'[l].ppage = IF l \in up THEN n ELSE t[l].ppage
  <2>1. ~(infile[e].ftype # "FILE_B" /\ Shared(c[n] \cup up))
    BY <1>5, <1>6, <1>7 DEF Shared
  <2>2. PICK wr : pt' = [l \in Pte |->
          IF l \in up THEN [ppage |-> n, read_enable |-> TRUE, write_enable |-> wr]
          ELSE IF w /\ l \in c[n] THEN Granted(t[l]) ELSE t[l]]
    BY <2>1 DEF FaultLoad
  <2> QED
    BY <1>5, <2>2
<1> HIDE DEF n, g, t, c, fm, gh, ps, s, fl, up
<1>11. /\ PagesSame(g, t, phys, s) /\ FilesSame(g, fm, phys, fl)
       /\ \A l \in DOMAIN g : ~g[l].infile => t[l].ppage # n
       /\ \A f \in DOMAIN fm : InMem(g, fm, f) => fm[f].ppage # n
  BY <1>3, AllocSame
<1>12. BlocksListed(g, fm)
  BY <1>3, TakenAgrees DEF Agree
<1>13. /\ phys'[n] = IF ~IsSwap(e) THEN fl[k] ELSE s[k]
       /\ \A q \in Ppage \ {n} : phys'[q] = phys[q]
  BY <1>4, <1>8
<1>14. /\ DOMAIN infile' = DOMAIN infile /\ DOMAIN g = DOMAIN infile
       /\ \A l \in DOMAIN infile \ up : infile'[l] = g[l]
       /\ \A l \in up : /\ infile'[l].infile = FALSE
                        /\ infile'[l].ftype = infile[l].ftype
                        /\ infile'[l].block = infile[l].block
  <2>1. ASSUME NEW l \in up
        PROVE  /\ infile'[l].infile = FALSE
               /\ infile'[l].ftype = infile[l].ftype
               /\ infile'[l].block = infile[l].block
    <3>1. infile[l] \in Infile /\ l \in DOMAIN infile
      BY <1>7, <2>1, FInvTypes
    <3>2. infile'[l] = [infile[l] EXCEPT !.infile = FALSE]
      BY <1>8, <2>1, <3>1
    <3> QED
      BY <3>1, <3>2, InfileUpdate
  <2> QED
    BY <1>2, <1>8, <2>1
<1>15. \A l \in DOMAIN infile : /\ g[l].ftype = infile[l].ftype
                                /\ g[l].block = infile[l].block
                                /\ infile[l].infile => g[l].infile
  BY <1>3 DEF Taken
<1>16. /\ DOMAIN filemap' = DOMAIN fm
       /\ \A f \in DOMAIN fm : /\ filemap'[f].vpset = fm[f].vpset
                               /\ f # k \/ IsSwap(e) => filemap'[f] = fm[f]
       /\ ~IsSwap(e) => k \in DOMAIN fm /\ filemap'[k].ppage = n
  BY <1>2, <1>8 DEF Fbp
<1>17. \A f \in DOMAIN fm : \A l \in fm[f].vpset :
         /\ l \in DOMAIN infile
         /\ l \in up <=> f = k /\ ~IsSwap(e)
  BY <1>7, <1>12, <1>14, <1>15 DEF BlocksListed, FileOf, IsSwap
<1>18. ~IsSwap(e) => e \in fm[k].vpset
  BY <1>1, <1>12, <1>14, <1>15, <1>16 DEF BlocksListed, FileOf, IsSwap
<1>19. PagesSame(infile', pt', phys', swap')
  <2>1. ASSUME NEW l \in DOMAIN infile
        PROVE  infile'[l].ftype = infile[l].ftype /\ infile'[l].block = infile[l].block
    BY <1>14, <1>15
  <2>2. ASSUME NEW l \in DOMAIN infile, IsSwap(l)
        PROVE  SwapData(infile', pt', phys', s, l) = SwapData(infile, pt, phys, swap, l)
    <3>1. SwapData(g, t, phys, s, l) = SwapData(infile, pt, phys, swap, l) /\ l \in Pte
      BY <1>4, <1>11, <1>14, <2>2 DEF PagesSame
    <3>2. CASE l \in up
      <4>1. l = e /\ IsSwap(e) /\ g[l].infile
        BY <1>7, <1>15, <2>2, <3>2
      <4>2. SwapData(g, t, phys, s, l) = s[k]
        BY <1>15, <2>2, <4>1 DEF SwapData
      <4>3. SwapData(infile', pt', phys', s, l) = phys'[n]
        BY <1>10, <1>14, <3>1, <3>2 DEF SwapData
      <4> QED
        BY <1>13, <3>1, <4>1, <4>2, <4>3
    <3>3. CASE l \notin up
      <4>1. infile'[l] = g[l] /\ pt'[l].ppage = t[l].ppage
        BY <1>10, <1>14, <2>2, <3>1, <3>3
      <4>2. ~g[l].infile => t[l].ppage \in Ppage \ {n}
        BY <1>2, <1>11, <1>14, <2>2, <3>1 DEF Entry
      <4> QED
        BY <1>13, <3>1, <4>1, <4>2 DEF SwapData
    <3> QED
      BY <3>2, <3>3
  <2> QED
    BY <1>9, <2>1, <2>2 DEF PagesSame
<1>20. FilesSame(infile', filemap', phys', file')
  <2> SUFFICES ASSUME NEW f \in FileBlock
               PROVE  FileData(infile', filemap', phys', fl, f) = FileData(g, fm, phys, fl, f)
    BY <1>9, <1>11 DEF FilesSame
  <2>1. CASE f = k /\ ~IsSwap(e)
    <3>1. InMem(infile', filemap', f)
      BY <1>14, <1>16, <1>17, <2>1 DEF InMem
    <3>2. ~InMem(g, fm, f)
      BY <1>1, <1>15, <1>18, <2>1 DEF InMem
    <3> QED
      BY <1>13, <1>16, <2>1, <3>1, <3>2 DEF FileData
  <2>2. CASE ~(f = k /\ ~IsSwap(e))
    <3>1. f \in DOMAIN fm => \A l \in fm[f].vpset : infile'[l] = g[l]
      BY <1>14, <1>17, <2>2
    <3>2. InMem(infile', filemap', f) <=> InMem(g, fm, f)
      BY <1>16, <3>1 DEF InMem
    <3>3. InMem(g, fm, f) => /\ fm[f].ppage \in Ppage \ {n}
                             /\ filemap'[f].ppage = fm[f].ppage
      BY <1>2, <1>11, <1>16, <2>2 DEF InMem, Fbp
    <3> QED
      BY <1>13, <3>2, <3>3 DEF FileData
  <2> QED
    BY <2>1, <2>2
<1> QED
  BY <1>19, <1>20

\* No fault changes what a page or a file block holds.
LEMMA FaultSame ==
  ASSUME FInv, NEW v \in Vpage, NEW w \in BOOLEAN, NEW ok, NEW fail,
         vm_fault(v, w, ok, fail)
  PROVE  /\ PagesSame(infile', pt', phys', swap')
         /\ FilesSame(infile', filemap', phys', file')
         /\ DOMAIN infile' = DOMAIN infile
<1> DEFINE e == Mine(v)
<1>1. CASE FaultInvalid(v, fail)
  BY <1>1 DEF FaultInvalid, mapping, contents, PagesSame, FilesSame
<1>2. CASE Recorded(e) /\ FaultResident(e, w, ok)
  <2>1. UNCHANGED <<infile, filemap, phys, swap, file>>
    BY <1>2 DEF FaultResident, contents
  <2>2. \A l \in Pte : pt'[l].ppage = pt[l].ppage
    <3>1. e \in DOMAIN infile /\ ~infile[e].infile /\ e \in Pte
      BY <1>2, FInvTypes DEF FaultResident, Recorded
    <3>2. pt \in [Pte -> Entry] /\ pt[e].ppage \in Ppage
      BY <3>1, FInvTypes DEF Entry
    <3>3. \A l \in core[pt[e].ppage] : pt[l].ppage = pt[e].ppage
      BY <3>2 DEF FInv, Agree, Cored
    <3>4. \A l \in SameBlock(e) : pt[l].ppage = pt[e].ppage
      <4> SUFFICES ASSUME NEW l \in SameBlock(e)
                   PROVE  pt[l].ppage = pt[e].ppage
        OBVIOUS
      <4>1. ~IsSwap(e) /\ l \in filemap[infile[e].block].vpset
        BY DEF SameBlock, IsSwap
      <4>2. l \in DOMAIN infile /\ ~IsSwap(l) /\ infile[l].block = infile[e].block
        BY <3>1, <4>1 DEF FInv, Agree, BlocksListed, FileOf, IsSwap
      <4> QED
        BY <3>1, <4>1, <4>2, SameBlockTogether
    <3>5. \E x \in Entry :
            /\ x.ppage = pt[e].ppage
            /\ pt' = [l \in Pte |-> IF w /\ l \in core[pt[e].ppage]
                      THEN Granted(IF l = e \/ l \in SameBlock(e) THEN x ELSE pt[l])
                      ELSE IF l = e \/ l \in SameBlock(e) THEN x ELSE pt[l]]
      <4> DEFINE d == pt[e].ppage # pinned /\ psuff[pt[e].ppage].dirty
                 x == [pt[e] EXCEPT !.read_enable = TRUE, !.write_enable = @ \/ d]
      <4>1. pt[e] \in Entry
        BY <3>1, <3>2
      <4>2. x.ppage = pt[e].ppage /\ x \in Entry
        BY <4>1 DEF Entry
      <4>3. pt' = [l \in Pte |-> IF w /\ l \in core[pt[e].ppage]
                     THEN Granted(IF l = e \/ l \in SameBlock(e) THEN x ELSE pt[l])
                     ELSE IF l = e \/ l \in SameBlock(e) THEN x ELSE pt[l]]
        BY <1>2, Zenon DEF FaultResident
      <4> HIDE DEF x
      <4> QED
        BY <4>2, <4>3, Zenon
    <3>6. \A y \in Entry : Granted(y).ppage = y.ppage
      BY DEF Granted, Entry
    <3> QED
      BY <3>2, <3>3, <3>4, <3>5, <3>6
  <2>3. \A l \in DOMAIN infile : pt'[l].ppage = pt[l].ppage
    BY <2>2, FInvTypes
  <2>4. PagesSame(infile', pt', phys', swap')
    BY <2>1, <2>3 DEF PagesSame, SwapData
  <2>5. FilesSame(infile', filemap', phys', file')
    BY <2>1 DEF FilesSame
  <2> QED
    BY <2>1, <2>4, <2>5
<1>3. CASE Recorded(e) /\ FaultReadFails(e, fail)
  <2>1. /\ pt' = AllocPt(psuff) /\ infile' = AllocInfile(psuff)
        /\ filemap' = AllocFilemap(psuff) /\ swap' = AllocSwap(psuff)
        /\ file' = AllocFile(psuff) /\ phys' = phys
    BY <1>3 DEF FaultReadFails
  <2> QED
    BY <2>1, AllocTakes, AllocSame DEF AllocInfile
<1>4. CASE Recorded(e) /\ FaultCow(e, ok)
  BY <1>4, CowSame DEF FaultCow, AllocInfile
<1>5. CASE Recorded(e) /\ FaultLoad(e, w, ok)
  BY <1>5, LoadSame DEF FaultLoad
<1> QED
  BY <1>1, <1>2, <1>3, <1>4, <1>5 DEF vm_fault

\* A store changes the swap page it is made to, or the block of the file page.
LEMMA StoreWrites ==
  ASSUME FInv, Hidden, NEW v \in Vpage, NEW d, Store(v, d)
  PROVE  /\ call.op \notin {"none", "exit"} /\ Mine(v) \in DOMAIN infile
         /\ infile' = infile
         /\ \A e \in DOMAIN infile : IsSwap(e) =>
              SwapData(infile', pt', phys', swap', e) =
                IF e = Mine(v) THEN d ELSE SwapData(infile, pt, phys, swap, e)
         /\ \A f \in FileBlock :
              FileData(infile', filemap', phys', file', f) =
                IF ~IsSwap(Mine(v)) /\ f = infile[Mine(v)].block THEN d
                ELSE FileData(infile, filemap, phys, file, f)
<1> DEFINE e == Mine(v)
           p == pt[e].ppage
<1>1. call.op \notin {"none", "exit"} /\ Permits(v, TRUE)
  <2>1. v \in 0..NPages /\ FBlock # {}
    BY SizeAssumption, PCntAssumption, DataAssumption DEF Vpage
  <2> QED
    BY <2>1, CallsOK DEF Store, Idle
<1>2. /\ e \in DOMAIN infile /\ e \in Pte /\ ~infile[e].infile
      /\ pt[e].write_enable
  BY <1>1, PermitsMapped, FInvTypes DEF Resident
<1>3. /\ p # pinned /\ p \in Ppage /\ p \in Frame
      /\ core \in [Ppage -> SUBSET Pte] /\ DOMAIN infile \subseteq Pte
      /\ pt \in [Pte -> Entry] /\ phys \in [Ppage -> Data]
      /\ filemap \in [DOMAIN filemap -> Fbp]
  BY <1>2, FInvTypes DEF FInv, Seen, Entry, Frame
<1>4. /\ UNCHANGED <<infile, filemap, pt, swap, file>>
      /\ phys' = [phys EXCEPT ![p] = d]
  BY DEF Store, mapping
<1> HIDE DEF e, p
<1>5. phys'[p] = d /\ \A q \in Ppage \ {p} : phys'[q] = phys[q]
  BY <1>3, <1>4
<1>6. \A l : l \in core[p] <=> l \in DOMAIN infile /\ ~infile[l].infile /\ pt[l].ppage = p
  BY <1>3 DEF FInv, Agree, Cored, Loaded
<1>7. e \in core[p]
  BY <1>2, <1>6 DEF p
<1>8. \A l \in core[p] : IF IsSwap(e) THEN l = e
                         ELSE ~IsSwap(l) /\ infile[l] = infile[e]
  BY <1>3, <1>7 DEF FInv, Agree, Owned, IsSwap
<1>9. ASSUME NEW l \in DOMAIN infile, IsSwap(l)
      PROVE  SwapData(infile', pt', phys', swap', l) =
               IF l = e THEN d ELSE SwapData(infile, pt, phys, swap, l)
  <2>1. CASE l = e
    BY <1>2, <1>4, <1>5, <2>1 DEF SwapData, p
  <2>2. CASE l # e
    <3>1. ~infile[l].infile => pt[l].ppage \in Ppage \ {p}
      BY <1>3, <1>6, <1>8, <1>9, <2>2 DEF Entry
    <3> QED
      BY <1>4, <1>5, <2>2, <3>1 DEF SwapData
  <2> QED
    BY <2>1, <2>2
<1>10. ASSUME NEW f \in FileBlock
       PROVE  FileData(infile', filemap', phys', file', f) =
                IF ~IsSwap(e) /\ f = infile[e].block THEN d
                ELSE FileData(infile, filemap, phys, file, f)
  <2>1. CASE ~IsSwap(e) /\ f = infile[e].block
    <3>1. infile[e].ftype # "SWAP"
      BY <2>1 DEF IsSwap
    <3>2. BlocksListed(infile, filemap) /\ BlocksMoveAsOne(infile, pt, filemap)
      BY DEF FInv, Agree
    <3>3. InMem(infile, filemap, f) /\ filemap[f].ppage = p
      BY <1>2, <2>1, <3>1, <3>2, FileTogether DEF p
    <3> QED
      BY <1>4, <1>5, <2>1, <3>3 DEF FileData
  <2>2. CASE ~(~IsSwap(e) /\ f = infile[e].block)
    <3>1. ASSUME InMem(infile, filemap, f)
          PROVE  filemap[f].ppage \in Ppage \ {p}
      <4>1. f \in DOMAIN filemap /\ filemap[f].ppage \in Ppage
        BY <1>3, <3>1 DEF InMem, Fbp
      <4>2. CASE filemap[f].vpset = {}
        BY <1>3, <1>7, <4>1, <4>2 DEF FInv, Agree, GhostsListed, Parted
      <4>3. CASE filemap[f].vpset # {}
        <5>1. PICK l \in filemap[f].vpset : ~infile[l].infile
          BY <3>1, <4>3 DEF InMem
        <5>2. /\ l \in DOMAIN infile /\ ~IsSwap(l) /\ infile[l].block = f
              /\ pt[l].ppage = filemap[f].ppage
          BY <4>1, <5>1 DEF FInv, Agree, BlocksListed, FileOf, BlocksMoveAsOne, IsSwap
        <5>3. l \notin core[p]
          BY <1>8, <2>2, <5>2
        <5> QED
          BY <1>6, <4>1, <5>1, <5>2, <5>3
      <4> QED
        BY <4>2, <4>3
    <3> QED
      BY <1>4, <1>5, <2>2, <3>1 DEF FileData
  <2> QED
    BY <2>1, <2>2
<1> QED
  BY <1>1, <1>2, <1>4, <1>9, <1>10 DEF e

\* The entries of mapped pages, their records and the contents do not change.
LEMMA QuietSame ==
  ASSUME UNCHANGED <<infile, filemap, phys, swap, file>>,
         \A e \in DOMAIN infile : pt'[e] = pt[e]
  PROVE  /\ PagesSame(infile', pt', phys', swap')
         /\ FilesSame(infile', filemap', phys', file')
BY DEF PagesSame, FilesSame, SwapData

\* Mapping a page changes what no other page and no file block holds.
LEMMA MapFileSame ==
  ASSUME FInv, Hidden,
         NEW v \in Vpage, NEW b \in FBlock, MapFile(v, b), ~StaleGhost(NamedBy(v, b))
  PROVE  /\ PagesSame(infile', pt', phys', swap')
         /\ FilesSame(infile', filemap', phys', file')
         /\ NewEntry \notin DOMAIN infile /\ DOMAIN infile' = DOMAIN infile \cup {NewEntry}
         /\ infile'[NewEntry].ftype = "FILE_B" /\ infile'[NewEntry].block = NamedBy(v, b)
<1> DEFINE x  == NewEntry
           fb == NamedBy(v, b)
<1>1. /\ x \in Pte \ DOMAIN infile /\ fb \in FileBlock
      /\ UNCHANGED <<free_ppage, psuff, phys, swap, file, accessed>>
      /\ \E disk \in BOOLEAN, y \in Entry : Joins(x, fb, disk, y) /\ Fits(fb, disk, y)
  BY MapFileJoins
<1> HIDE DEF x, fb
<1>2. PICK disk \in BOOLEAN, y \in Entry : Joins(x, fb, disk, y) /\ Fits(fb, disk, y)
  BY <1>1
<1>3. /\ infile' = Put(infile, x, [ftype |-> "FILE_B", infile |-> disk, block |-> fb])
      /\ pt' = [pt EXCEPT ![x] = y]
      /\ DOMAIN filemap' = DOMAIN filemap \cup {fb}
      /\ \A f \in DOMAIN filemap \ {fb} : filemap'[f] = filemap[f]
      /\ \A l : l \in filemap'[fb].vpset <=> l = x \/ FileOf(infile, l, fb)
      /\ DOMAIN ghost' = {p \in DOMAIN ghost : ghost[p] # fb}
  BY <1>2 DEF Joins
<1>4. /\ DOMAIN infile' = DOMAIN infile \cup {x}
      /\ \A l \in DOMAIN infile : infile'[l] = infile[l] /\ pt'[l] = pt[l]
      /\ infile'[x].infile = disk
      /\ infile'[x].ftype = "FILE_B" /\ infile'[x].block = fb
  BY <1>1, <1>3, FInvTypes DEF Put
<1>5. PagesSame(infile', pt', phys', swap')
  BY <1>1, <1>4 DEF PagesSame, SwapData
<1>6. ASSUME NEW f \in FileBlock
      PROVE  FileData(infile', filemap', phys', file', f) =
               FileData(infile, filemap, phys, file, f)
  <2>1. CASE f # fb
    <3>1. f \in DOMAIN filemap' <=> f \in DOMAIN filemap
      BY <1>3, <2>1
    <3>2. f \in DOMAIN filemap =>
            filemap'[f] = filemap[f] /\ \A l \in filemap[f].vpset : infile'[l] = infile[l]
      BY <1>3, <1>4, <2>1 DEF FInv, Agree, BlocksListed, FileOf
    <3> QED
      BY <1>1, <3>1, <3>2 DEF FileData, InMem
  <2>2. CASE f = fb
    <3>1. \A l : FileOf(infile, l, fb) => l \in DOMAIN infile /\ (infile[l].infile <=> disk)
      BY <1>2 DEF Fits, FileOf
    <3>2. fb \in DOMAIN filemap' /\ (InMem(infile', filemap', fb) <=> ~disk)
      BY <1>3, <1>4, <3>1 DEF InMem
    <3>3. fb \in DOMAIN filemap =>
            \A l : l \in filemap[fb].vpset <=> FileOf(infile, l, fb)
      BY DEF FInv, Agree, BlocksListed
    <3>4. CASE disk
      <4>1. ~InMem(infile, filemap, fb)
        <5> SUFFICES ASSUME fb \in DOMAIN filemap
                     PROVE  \E l \in filemap[fb].vpset : infile[l].infile
          BY DEF InMem
        <5>1. filemap[fb].vpset # {}
          BY <1>2, <3>4 DEF Fits, FInv, Agree, GhostsListed
        <5> QED
          BY <3>1, <3>3, <3>4, <5>1
      <4> QED
        BY <1>1, <2>2, <3>2, <3>4, <4>1 DEF FileData
    <3>5. CASE ~disk
      <4>1. /\ y.ppage \in Frame /\ filemap'[fb].ppage = y.ppage
            /\ y.ppage \notin Free \cup DOMAIN ghost'
            /\ \A a \in core[y.ppage] : FileOf(infile, a, fb)
            /\ \A l : FileOf(infile, l, fb) => pt[l] = y
            /\ \A p \in DOMAIN ghost : ghost[p] = fb => p = y.ppage
        BY <1>2, <3>5 DEF Fits
      <4>2. fb \in DOMAIN filemap /\ filemap[fb].ppage = y.ppage
        <5>1. CASE y.ppage \in DOMAIN ghost
          <6>1. ghost[y.ppage] = fb
            BY <1>3, <4>1, <5>1
          <6> QED
            BY <5>1, <6>1 DEF FInv, Agree, GhostsListed
        <5>2. CASE y.ppage \notin DOMAIN ghost
          <6>1. PICK a \in core[y.ppage] : FileOf(infile, a, fb)
            BY <4>1, <5>2 DEF FInv, Agree, Parted
          <6>2. fb \in DOMAIN filemap /\ a \in filemap[fb].vpset /\ pt[a].ppage = y.ppage
            BY <3>3, <4>1, <6>1 DEF FInv, Agree, BlocksListed, FileOf
          <6>3. ~infile[a].infile
            BY <3>1, <3>5, <6>1
          <6> QED
            BY <6>2, <6>3 DEF FInv, Agree, BlocksMoveAsOne
        <5> QED
          BY <5>1, <5>2
      <4>3. InMem(infile, filemap, fb)
        BY <3>1, <3>3, <3>5, <4>2 DEF InMem
      <4> QED
        BY <1>1, <2>2, <3>2, <3>5, <4>1, <4>2, <4>3 DEF FileData
    <3> QED
      BY <3>4, <3>5
  <2> QED
    BY <2>1, <2>2
<1> QED
  BY <1>1, <1>4, <1>5, <1>6 DEF FilesSame, x, fb

\* A new swap page holds zeroes.
LEMMA MapSwapSame ==
  ASSUME FInv, MapSwap
  PROVE  /\ PagesSame(infile', pt', phys', swap')
         /\ FilesSame(infile', filemap', phys', file')
         /\ NewEntry \notin DOMAIN infile /\ DOMAIN infile' = DOMAIN infile \cup {NewEntry}
         /\ infile'[NewEntry].ftype = "SWAP"
         /\ SwapData(infile', pt', phys', swap', NewEntry) = Zero
<1> DEFINE x == NewEntry
<1>1. call.op = "run" /\ bound # NPages
  BY DEF MapSwap, Idle
<1>2. x \in Pte \ DOMAIN infile
  <2>1. /\ curr_pid \in Pid /\ all_pt[curr_pid].size = bound /\ bound \in 0..NPages
    BY <1>1 DEF FInv, IInv, TypeOK, ProcOK, Maps
  <2>2. bound \in Vpage
    BY <1>1, <2>1, SizeAssumption, PCntAssumption DEF Vpage
  <2> QED
    BY <1>1, <2>1, <2>2, NewEntryFresh DEF FInv, NewEntry, Mine, Pte
<1>3. /\ infile' = Put(infile, x, [ftype |-> "SWAP", infile |-> FALSE,
                                   block |-> Head(free_block)])
      /\ pt' = [pt EXCEPT ![x] =
                  [ppage |-> pinned, read_enable |-> TRUE, write_enable |-> FALSE]]
      /\ UNCHANGED <<filemap, phys, swap, file>>
  BY DEF MapSwap, contents
<1> HIDE DEF x
<1>4. /\ DOMAIN infile' = DOMAIN infile \cup {x}
      /\ \A l \in DOMAIN infile : infile'[l] = infile[l] /\ pt'[l] = pt[l]
      /\ infile'[x].ftype = "SWAP" /\ ~infile'[x].infile
      /\ pt'[x].ppage = pinned
  BY <1>2, <1>3, FInvTypes DEF Put
<1>5. SwapData(infile', pt', phys', swap', x) = Zero
  BY <1>3, <1>4 DEF SwapData, FInv
<1>6. PagesSame(infile', pt', phys', swap')
  <2>1. phys' = phys /\ swap' = swap
    BY <1>3
  <2> QED
    BY <1>2, <1>4, <2>1 DEF PagesSame, SwapData
<1>7. FilesSame(infile', filemap', phys', file')
  <2>1. \A f \in DOMAIN filemap : \A l \in filemap[f].vpset : infile'[l] = infile[l]
    BY <1>4 DEF FInv, Agree, BlocksListed, FileOf
  <2> QED
    BY <1>3, <2>1 DEF FilesSame, FileData, InMem
<1> QED
  BY <1>2, <1>4, <1>5, <1>6, <1>7 DEF x

\* A page leaves: its block stays in memory if it was there, as a ghost if the
\* page was the last one.
LEMMA DestroyPageSame ==
  ASSUME FInv, NEW v, DestroyPage(v)
  PROVE  /\ PagesSame(infile', pt', phys', swap')
         /\ FilesSame(infile', filemap', phys', file')
         /\ DOMAIN infile' = DOMAIN infile \ {Mine(v)}
<1> DEFINE e == Mine(v)
           b == infile[e]
<1>1. Recorded(e) /\ DiscardBacking(e) /\ infile' = Drop(infile, {e})
  BY DEF DestroyPage, vm_discard
<1>2. UNCHANGED <<pt, phys, swap, file>>
  BY DEF DestroyPage, contents
<1> HIDE DEF e
<1>3. /\ e \in DOMAIN infile /\ b.ftype \in {"SWAP", "FILE_B"}
      /\ b.ftype # "SWAP" => b.block \in DOMAIN filemap /\ filemap[b.block] \in Fbp
  BY <1>1, FInvTypes DEF Recorded
<1>4. /\ DOMAIN infile' = DOMAIN infile \ {e}
      /\ \A l \in DOMAIN infile' : infile'[l] = infile[l]
  BY <1>1 DEF Drop, Restrict
<1>5. PagesSame(infile', pt', phys', swap')
  BY <1>2, <1>4 DEF PagesSame, SwapData
<1>6. FilesSame(infile', filemap', phys', file')
  <2> SUFFICES ASSUME NEW f \in FileBlock
               PROVE  FileData(infile', filemap', phys, file, f) =
                        FileData(infile, filemap, phys, file, f)
    BY <1>2 DEF FilesSame
  <2>1. \A g \in DOMAIN filemap :
          \A l \in filemap[g].vpset : l # e => infile'[l] = infile[l]
    BY <1>4 DEF FInv, Agree, BlocksListed, FileOf
  <2>2. CASE b.ftype = "SWAP" \/ b.block # f
    <3>1. f \in DOMAIN filemap' <=> f \in DOMAIN filemap
      BY <1>1, <1>3, <2>2 DEF DiscardBacking, Drop, Restrict
    <3>2. f \in DOMAIN filemap => filemap'[f] = filemap[f]
      BY <1>1, <1>3, <2>2 DEF DiscardBacking, Drop, Restrict
    <3>3. f \in DOMAIN filemap => e \notin filemap[f].vpset
      BY <2>2 DEF FInv, Agree, BlocksListed, FileOf
    <3> QED
      BY <2>1, <3>1, <3>2, <3>3 DEF FileData, InMem
  <2>3. CASE b.ftype # "SWAP" /\ b.block = f
    <3>1. filemap' = IF b.infile /\ filemap[f].vpset \subseteq {e}
                     THEN Drop(filemap, {f})
                     ELSE [filemap EXCEPT ![f].vpset = @ \ {e}]
      BY <1>1, <1>3, <2>3 DEF DiscardBacking
    <3>2. /\ InMem(infile, filemap, f) <=> ~b.infile
          /\ f \in DOMAIN filemap /\ filemap[f] \in Fbp
          /\ \A l \in filemap[f].vpset : infile[l].infile <=> b.infile
      <4>1. BlocksListed(infile, filemap) /\ BlocksMoveAsOne(infile, pt, filemap)
        BY DEF FInv, Agree
      <4>2. InMem(infile, filemap, b.block) <=> ~b.infile
        BY <1>3, <2>3, <4>1, FileTogether
      <4> QED
        BY <1>3, <2>3, <4>1, <4>2 DEF BlocksListed, FileOf, BlocksMoveAsOne
    <3>3. CASE b.infile /\ filemap[f].vpset \subseteq {e}
      <4>1. f \notin DOMAIN filemap'
        BY <3>1, <3>3 DEF Drop, Restrict
      <4> QED
        BY <3>2, <3>3, <4>1 DEF FileData, InMem
    <3>4. CASE ~(b.infile /\ filemap[f].vpset \subseteq {e})
      <4>1. /\ f \in DOMAIN filemap' /\ filemap'[f].vpset = filemap[f].vpset \ {e}
            /\ filemap'[f].ppage = filemap[f].ppage
        BY <3>1, <3>2, <3>4 DEF Fbp
      <4>2. InMem(infile', filemap', f) <=> ~b.infile
        BY <2>1, <3>2, <3>4, <4>1 DEF InMem
      <4> QED
        BY <3>2, <4>1, <4>2 DEF FileData
    <3> QED
      BY <3>3, <3>4
  <2> QED
    BY <2>2, <2>3
<1> QED
  BY <1>4, <1>5, <1>6 DEF e

\* The page tables made and freed are of processes without pages.
LEMMA TablesSame ==
  ASSUME FInv,
         \/ \E v \in 0..NPages : DestroyTable(v)
         \/ \E p \in Pid : vm_switch(p)
         \/ \E parent \in Pid \cup {NoPid}, child \in Pid :
              vm_create(parent, child) /\ ParentSize(parent) = 0
  PROVE  /\ PagesSame(infile', pt', phys', swap')
         /\ FilesSame(infile', filemap', phys', file')
         /\ infile' = infile
<1>1. IInv /\ DOMAIN infile \subseteq Pte
  BY FInvTypes DEF FInv
<1>2. ASSUME NEW v \in 0..NPages, DestroyTable(v)
      PROVE  /\ UNCHANGED <<infile, filemap, phys, swap, file>>
             /\ \A e \in DOMAIN infile : pt'[e] = pt[e]
  BY <1>1, <1>2, TableEmpty DEF DestroyTable, contents
<1>3. ASSUME NEW p \in Pid, vm_switch(p)
      PROVE  /\ UNCHANGED <<infile, filemap, phys, swap, file>>
             /\ \A e \in DOMAIN infile : pt'[e] = pt[e]
  BY <1>3 DEF vm_switch, mapping, contents
<1>4. ASSUME NEW parent \in Pid \cup {NoPid}, NEW child \in Pid,
             vm_create(parent, child), ParentSize(parent) = 0
      PROVE  /\ UNCHANGED <<infile, filemap, phys, swap, file>>
             /\ \A e \in DOMAIN infile : pt'[e] = pt[e]
  <2>1. /\ UNCHANGED <<infile, filemap, phys, swap, file>>
        /\ child \notin DOMAIN all_pt
        /\ pt' = [e \in Pte |-> IF e[1] = child THEN NullEntry ELSE pt[e]]
    BY <1>1, <1>4, FlatCreate
  <2>2. \A e \in DOMAIN infile : e[1] # child
    BY <1>1, <2>1 DEF IInv, RecordsLive, Live
  <2> QED
    BY <1>1, <2>1, <2>2
<1> QED
  BY <1>2, <1>3, <1>4, QuietSame

\* Nothing but a store changes what a page or a file block holds.
LEMMA NextSame ==
  ASSUME FInv, Hidden, [CleanNext]_vars,
         ~\E v \in Vpage, d \in Data : Store(v, d)
  PROVE  /\ PagesSame(infile', pt', phys', swap')
         /\ FilesSame(infile', filemap', phys', file')
<1>1. CASE Access
  <2>1. PICK v \in Vpage : (\E w \in BOOLEAN : AppFault(v, w)) \/ Reload(v)
    BY <1>1 DEF Access
  <2> QED
    BY <2>1, FaultSame, QuietSame DEF AppFault, Reload, mapping, contents
<1>2. CASE Name
  BY <1>2, FaultSame, QuietSame DEF Name, NameFault, NameSpills, mapping, contents
<1>3. CASE MapSwap
  BY <1>3, MapSwapSame
<1>4. CASE vm_destroy
  BY <1>4, DestroyPageSame, TablesSame DEF vm_destroy
<1>5. CASE \E p \in Pid : vm_switch(p)
  BY <1>5, TablesSame
<1>6. CASE \E v \in Vpage, b \in FBlock : MapFile(v, b) /\ ~StaleGhost(NamedBy(v, b))
  BY <1>6, MapFileSame
<1>7. CASE \E parent \in Pid \cup {NoPid}, child \in Pid :
             vm_create(parent, child) /\ ParentSize(parent) = 0
  BY <1>7, TablesSame
<1>8. CASE UNCHANGED vars
  BY <1>8, QuietSame DEF vars, mapping, contents
<1> QED
  BY <1>1, <1>2, <1>3, <1>4, <1>5, <1>6, <1>7, <1>8 DEF CleanNext, Step

LEMMA NextStores ==
  ASSUME FInv, FInv', Hidden, [CleanNext]_vars,
         NEW e \in Live \cap Live', Content(e)' # Content(e)
  PROVE  \E v \in Vpage, d \in Data : Store(v, d)
<1> SUFFICES ASSUME ~\E v \in Vpage, d \in Data : Store(v, d)
             PROVE  FALSE
  OBVIOUS
<1>1. e \in DOMAIN infile /\ e \in DOMAIN infile'
  BY DEF FInv, IInv, RecordsLive
<1>2. /\ PagesSame(infile', pt', phys', swap')
      /\ FilesSame(infile', filemap', phys', file')
  BY NextSame
<1>3. infile'[e].ftype = infile[e].ftype /\ infile'[e].block = infile[e].block
  BY <1>1, <1>2 DEF PagesSame
<1>4. CASE IsSwap(e)
  <2>1. /\ Content(e) = SwapData(infile, pt, phys, swap, e)
        /\ Content(e)' = SwapData(infile', pt', phys', swap', e)
    BY <1>3, <1>4 DEF Content, Resident, OnDisk, IsSwap, SwapData
  <2> QED
    BY <1>1, <1>2, <1>4, <2>1 DEF PagesSame
<1>5. CASE ~IsSwap(e)
  <2> DEFINE f == infile[e].block
  <2>1. f \in FileBlock /\ infile[e].ftype # "SWAP" /\ infile'[e].ftype # "SWAP"
    BY <1>1, <1>3, <1>5, FInvTypes, InfileFields DEF IsSwap
  <2>2. /\ BlocksListed(infile, filemap) /\ BlocksMoveAsOne(infile, pt, filemap)
        /\ BlocksListed(infile', filemap') /\ BlocksMoveAsOne(infile', pt', filemap')
    BY DEF FInv, Agree
  <2>3. /\ InMem(infile, filemap, infile[e].block) <=> ~infile[e].infile
        /\ ~infile[e].infile => filemap[infile[e].block].ppage = pt[e].ppage
    BY <1>1, <2>1, <2>2, FileTogether
  <2>4. /\ InMem(infile', filemap', infile'[e].block) <=> ~infile'[e].infile
        /\ ~infile'[e].infile => filemap'[infile'[e].block].ppage = pt'[e].ppage
    BY <1>1, <2>1, <2>2, FileTogether
  <2>5. Content(e) = FileData(infile, filemap, phys, file, f)
    BY <1>5, <2>3 DEF Content, Resident, OnDisk, FileData
  <2>6. Content(e)' = FileData(infile', filemap', phys', file', f)
    BY <1>3, <1>5, <2>4 DEF Content, Resident, OnDisk, IsSwap, FileData
  <2> QED
    BY <1>2, <2>1, <2>5, <2>6 DEF FilesSame
<1> QED
  BY <1>4, <1>5

\* What a process reads in a page changes with the stores the MMU lets through
\* and with nothing else: no fault, eviction, copy, vm_map or vm_destroy alters it.
THEOREM StoresOnly == CleanSpec => OnlyStoresWrite
<1>1. (FInv /\ Hidden) /\ (FInv /\ Hidden)' /\ [CleanNext]_vars =>
        [(\E e \in Live \cap Live' : Content(e)' # Content(e)) =>
           \E v \in Vpage, d \in Data : Store(v, d)]_vars
  BY NextStores
<1> QED
  BY <1>1, Agreement, PTL DEF CleanSpec, OnlyStoresWrite

-----------------------------------------------------------------------------
(* The arenas that a state of the pager stands for, by the maps they are   *)
(* made of: T is all_pt, S the processes.                                  *)

Current == IF call.op \in {"none", "exit"} THEN NoPid ELSE curr_pid

Files ==
  [f \in FileBlock |-> IF InMemory(f) THEN phys[filemap[f].ppage] ELSE file[f]]

PageOf(g, t, m, s, e) ==
  IF g[e].ftype = "SWAP" THEN [kind |-> "swap", data |-> SwapData(g, t, m, s, e)]
  ELSE [kind |-> "file", block |-> g[e].block]

ArenasOf(T, S, g, t, m, s) ==
  [p \in S |-> [i \in 1..T[p].size |-> PageOf(g, t, m, s, <<p, i - 1>>)]]

LEMMA ArenasAre ==
  /\ Arenas = ArenasOf(all_pt, Staying, infile, pt, phys, swap)
  /\ Arenas' = ArenasOf(all_pt', Staying', infile', pt', phys', swap')
BY DEF Arenas, ArenasOf, Staying, Page, PageOf, SwapData, IsSwap, Content, Resident, OnDisk

LEMMA FilesAre ==
  /\ Files = [f \in FileBlock |-> FileData(infile, filemap, phys, file, f)]
  /\ Files' = [f \in FileBlock |-> FileData(infile', filemap', phys', file', f)]
BY DEF Files, FileData, InMem, InMemory, Resident

LEMMA FilesKept ==
  ASSUME FilesSame(infile', filemap', phys', file')
  PROVE  Files' = Files
BY FilesAre DEF FilesSame

\* The arena of a process has the pages that all_pt counts, and each is mapped.
LEMMA ArenaIs ==
  ASSUME IInv, NEW p \in Staying
  PROVE  /\ p \in DOMAIN Arenas /\ p \in Pid
         /\ all_pt[p].size \in 0..NPages
         /\ Arenas[p] = [i \in 1..all_pt[p].size |->
                           PageOf(infile, pt, phys, swap, <<p, i - 1>>)]
         /\ Arenas[p] \in Seq({Arenas[p][i] : i \in 1..all_pt[p].size})
         /\ Len(Arenas[p]) = all_pt[p].size
         /\ \A i \in 1..all_pt[p].size : <<p, i - 1>> \in DOMAIN infile
<1>1. /\ p \in Pid /\ all_pt[p].size \in 0..NPages /\ all_pt[p].size \in Nat
      /\ \A i \in 0..(all_pt[p].size - 1) : <<p, i>> \in DOMAIN infile
  BY StayingPages, SizeAssumption, PCntAssumption
<1>2. \A i \in 1..all_pt[p].size : i - 1 \in 0..(all_pt[p].size - 1)
  BY <1>1
<1>3. /\ p \in DOMAIN Arenas
      /\ Arenas[p] = [i \in 1..all_pt[p].size |->
                        PageOf(infile, pt, phys, swap, <<p, i - 1>>)]
  BY ArenasAre DEF ArenasOf
<1>4. Arenas[p] = [i \in 1..all_pt[p].size |-> Arenas[p][i]]
  BY <1>3
<1>5. /\ Arenas[p] \in Seq({Arenas[p][i] : i \in 1..all_pt[p].size})
      /\ Len(Arenas[p]) = all_pt[p].size
  BY <1>1, <1>4, SequenceOf
<1> QED
  BY <1>1, <1>2, <1>3, <1>5

LEMMA ArenaAfter ==
  ASSUME IInv', NEW p \in Staying'
  PROVE  /\ p \in DOMAIN Arenas' /\ p \in Pid
         /\ all_pt'[p].size \in 0..NPages
         /\ Arenas'[p] = [i \in 1..all_pt'[p].size |->
                            PageOf(infile', pt', phys', swap', <<p, i - 1>>)]
         /\ \A i \in 1..all_pt'[p].size : <<p, i - 1>> \in DOMAIN infile'
<1>1. p \in Pid /\ p \in DOMAIN all_pt' /\ all_pt'[p].size \in 0..NPages
  BY DEF IInv, TypeOK, ProcOK, Maps, Pt, Staying
<1>2. ASSUME NEW i \in 1..all_pt'[p].size
      PROVE  <<p, i - 1>> \in DOMAIN infile'
  <2>1. i - 1 \in Vpage /\ i - 1 < all_pt'[p].size
    BY <1>1, SizeAssumption, PCntAssumption DEF Vpage
  <2>2. <<p, i - 1>> \in Live'
    BY <1>1, <2>1 DEF Live, Pte, Staying
  <2> QED
    BY <2>2 DEF IInv, RecordsLive
<1>3. /\ p \in DOMAIN Arenas'
      /\ Arenas'[p] = [i \in 1..all_pt'[p].size |->
                         PageOf(infile', pt', phys', swap', <<p, i - 1>>)]
  BY ArenasAre DEF ArenasOf
<1> QED
  BY <1>1, <1>2, <1>3

LEMMA PageKept ==
  ASSUME PagesSame(infile', pt', phys', swap'),
         NEW e \in DOMAIN infile, e \in DOMAIN infile'
  PROVE  PageOf(infile', pt', phys', swap', e) = PageOf(infile, pt, phys, swap, e)
BY DEF PagesSame, PageOf, IsSwap

\* The arena of a process that maps nothing stays what it is.
LEMMA ArenaKept ==
  ASSUME IInv, IInv', PagesSame(infile', pt', phys', swap'),
         NEW p \in Staying, p \in Staying', all_pt'[p].size = all_pt[p].size
  PROVE  Arenas'[p] = Arenas[p]
<1>1. /\ Arenas[p] = [i \in 1..all_pt[p].size |->
                        PageOf(infile, pt, phys, swap, <<p, i - 1>>)]
      /\ \A i \in 1..all_pt[p].size : <<p, i - 1>> \in DOMAIN infile
  BY ArenaIs
<1>2. /\ Arenas'[p] = [i \in 1..all_pt[p].size |->
                         PageOf(infile', pt', phys', swap', <<p, i - 1>>)]
      /\ \A i \in 1..all_pt[p].size : <<p, i - 1>> \in DOMAIN infile'
  BY ArenaAfter
<1>3. \A i \in 1..all_pt[p].size :
        PageOf(infile', pt', phys', swap', <<p, i - 1>>) =
          PageOf(infile, pt, phys, swap, <<p, i - 1>>)
  BY <1>1, <1>2, PageKept
<1> QED
  BY <1>1, <1>2, <1>3

LEMMA ArenasKeep ==
  ASSUME IInv, IInv', PagesSame(infile', pt', phys', swap'),
         FilesSame(infile', filemap', phys', file'),
         Staying' \subseteq Staying,
         \A p \in Staying' : all_pt'[p].size = all_pt[p].size
  PROVE  Arenas' = [p \in Staying' |-> Arenas[p]] /\ Files' = Files
<1>1. \A p \in Staying' : Arenas'[p] = Arenas[p]
  BY ArenaKept
<1>2. Arenas' = [p \in Staying' |-> Arenas'[p]]
  BY ArenasAre DEF ArenasOf
<1> QED
  BY <1>1, <1>2, FilesKept

-----------------------------------------------------------------------------
(* The steps of VirtualMemory under this mapping.                          *)

LEMMA Stutters ==
  ASSUME Arenas' = Arenas, Current' = Current, Files' = Files
  PROVE  [Memory!Next]_(Memory!vars)
BY DEF Memory!vars, Current, Files

LEMMA Exits ==
  ASSUME Current \in DOMAIN Arenas,
         Arenas' = [p \in DOMAIN Arenas \ {Current} |-> Arenas[p]],
         Current' = NoPid, Files' = Files
  PROVE  Memory!Next
BY DEF Memory!Next, Memory!Exit, Memory!Running, Current, Files

LEMMA Switches ==
  ASSUME NEW p \in Pid, p \in DOMAIN Arenas, Current' = p,
         Arenas' = Arenas, Files' = Files
  PROVE  Memory!Next
BY DEF Memory!Next, Memory!Switch, Current, Files

LEMMA Creates ==
  ASSUME NEW parent \in Pid \cup {NoPid}, NEW child \in Pid,
         child \notin DOMAIN Arenas, parent \in {NoPid, Current},
         Arenas' = [p \in DOMAIN Arenas \cup {child} |->
                      IF p # child THEN Arenas[p]
                      ELSE IF parent \in DOMAIN Arenas THEN Arenas[parent] ELSE <<>>],
         Current' = Current, Files' = Files
  PROVE  Memory!Next
BY DEF Memory!Next, Memory!Create, Current, Files

LEMMA SameCounting ==
  ASSUME NEW S
  PROVE  Memory!Cardinality(S) = Cardinality(S)
BY DEF Memory!Cardinality, Cardinality

LEMMA MapsSwap ==
  ASSUME Current \in DOMAIN Arenas, Len(Arenas[Current]) < NPages,
         Cardinality(Memory!SwapPages) < BlCnt,
         Arenas' = [Arenas EXCEPT ![Current] = Append(@, [kind |-> "swap", data |-> Zero])],
         Current' = Current, Files' = Files
  PROVE  Memory!Next
<1>1. Memory!Cardinality(Memory!SwapPages) < BlCnt
  BY SameCounting
<1> QED
  BY <1>1 DEF Memory!Next, Memory!MapSwap, Memory!Extend, Memory!Running, Memory!SwapPage,
       Current, Files

LEMMA MapsFile ==
  ASSUME Current \in DOMAIN Arenas, Len(Arenas[Current]) < NPages,
         NEW k \in 1..NPages, NEW b \in FBlock, k <= Len(Arenas[Current]),
         NEW d, Memory!Content(Current, k) = d, d \notin Spill,
         Arenas' = [Arenas EXCEPT ![Current] =
                      Append(@, [kind |-> "file", block |-> <<NameOf[d], b>>])],
         Current' = Current, Files' = Files
  PROVE  Memory!Next
<1>1. Memory!MapFile(k, b)
  BY DEF Memory!MapFile, Memory!Extend, Memory!Running, Memory!FilePage, Current, Files
<1> QED
  BY <1>1 DEF Memory!Next

LEMMA Stores ==
  ASSUME Current \in DOMAIN Arenas, NEW i \in 1..NPages, NEW d \in Data,
         i <= Len(Arenas[Current]), Current' = Current,
         IF Arenas[Current][i].kind = "swap"
         THEN /\ Arenas' = [Arenas EXCEPT ![Current][i].data = d]
              /\ Files' = Files
         ELSE /\ Files' = [Files EXCEPT ![Arenas[Current][i].block] = d]
              /\ Arenas' = Arenas
  PROVE  Memory!Next
<1>1. Memory!Store(i, d)
  BY DEF Memory!Store, Memory!Running, Current, Files
<1> QED
  BY <1>1 DEF Memory!Next

-----------------------------------------------------------------------------
(* The arena that vm_map extends.                                          *)

\* vm_map makes the arena of the running process one page longer.
LEMMA ArenaGrows ==
  ASSUME IInv, IInv', PagesSame(infile', pt', phys', swap'),
         curr_pid \in Staying, Staying' = Staying,
         all_pt'[curr_pid].size = all_pt[curr_pid].size + 1,
         \A p \in Staying \ {curr_pid} : all_pt'[p].size = all_pt[p].size
  PROVE  Arenas' = [Arenas EXCEPT ![curr_pid] =
                      Append(@, PageOf(infile', pt', phys', swap', NewEntry))]
<1> DEFINE n == all_pt[curr_pid].size
           s == Arenas[curr_pid]
           e == PageOf(infile', pt', phys', swap', NewEntry)
<1>1. /\ n \in Nat
      /\ s = [i \in 1..n |-> PageOf(infile, pt, phys, swap, <<curr_pid, i - 1>>)]
      /\ \A i \in 1..n : <<curr_pid, i - 1>> \in DOMAIN infile
  <2>1. n \in 0..NPages
    BY ArenaIs
  <2>2. n \in Nat
    BY <2>1, SizeAssumption
  <2> QED
    BY <2>2, ArenaIs
<1>2. /\ Arenas'[curr_pid] =
           [i \in 1..(n + 1) |-> PageOf(infile', pt', phys', swap', <<curr_pid, i - 1>>)]
      /\ \A i \in 1..(n + 1) : <<curr_pid, i - 1>> \in DOMAIN infile'
  BY ArenaAfter
<1>3. \A i \in 1..n : PageOf(infile', pt', phys', swap', <<curr_pid, i - 1>>) = s[i]
  <2> TAKE i \in 1..n
  <2>1. i \in 1..(n + 1)
    BY <1>1
  <2> QED
    BY <1>1, <1>2, <2>1, PageKept
<1>4. <<curr_pid, (n + 1) - 1>> = NewEntry
  BY <1>1 DEF NewEntry, Mine
<1> HIDE DEF e, s
<1>5. Append(s, e) = [i \in 1..(n + 1) |-> IF i <= n THEN s[i] ELSE e]
  <2>1. s = [i \in 1..n |-> s[i]]
    BY <1>1
  <2>2. n \in Nat
    BY <1>1
  <2> HIDE DEF n
  <2> QED
    BY <2>1, <2>2, AppendIs
<1>6. Arenas'[curr_pid] = Append(s, e)
  <2>1. ASSUME NEW i \in 1..(n + 1)
        PROVE  PageOf(infile', pt', phys', swap', <<curr_pid, i - 1>>) =
                 IF i <= n THEN s[i] ELSE e
    <3>1. CASE i <= n
      BY <1>1, <1>3, <3>1
    <3>2. CASE ~(i <= n)
      <4>1. i = n + 1
        BY <1>1, <3>2
      <4> QED
        BY <1>4, <3>2, <4>1 DEF e
    <3> QED
      BY <3>1, <3>2
  <2> QED
    BY <1>2, <1>5, <2>1
<1>7. \A p \in Staying \ {curr_pid} : Arenas'[p] = Arenas[p]
  BY ArenaKept
<1>8. DOMAIN Arenas = Staying /\ DOMAIN Arenas' = Staying
  BY ArenasAre DEF ArenasOf
<1>9. Arenas' = [p \in DOMAIN Arenas' |-> Arenas'[p]]
  BY ArenasAre DEF ArenasOf
<1> QED
  BY <1>6, <1>7, <1>8, <1>9 DEF e, s

-----------------------------------------------------------------------------
(* The swap space: a page to be mapped finds a block when the arenas have  *)
(* fewer swap pages than there are blocks.                                 *)

LEMMA SwapPageBlock ==
  ASSUME FInv, NEW e \in Memory!SwapPages
  PROVE  LET l == <<e[1], e[2] - 1>> IN
         /\ e = <<e[1], e[2]>> /\ e[1] \in Pid /\ e[2] \in 1..NPages
         /\ l \in DOMAIN infile
         /\ infile[l].ftype = "SWAP" /\ infile[l].block \in Block
         /\ l \in swfile[infile[l].block]
<1> DEFINE l == <<e[1], e[2] - 1>>
<1>1. /\ e = <<e[1], e[2]>> /\ e[1] \in Pid /\ e[2] \in 1..NPages
      /\ e[1] \in DOMAIN Arenas /\ e[2] <= Len(Arenas[e[1]])
      /\ Arenas[e[1]][e[2]].kind = "swap"
  BY DEF Memory!SwapPages
<1>2. e[1] \in Staying
  BY <1>1, ArenasAre DEF ArenasOf
<1>3. /\ all_pt[e[1]].size \in 0..NPages /\ Len(Arenas[e[1]]) = all_pt[e[1]].size
      /\ Arenas[e[1]] = [i \in 1..all_pt[e[1]].size |->
                           PageOf(infile, pt, phys, swap, <<e[1], i - 1>>)]
      /\ \A i \in 1..all_pt[e[1]].size : <<e[1], i - 1>> \in DOMAIN infile
  BY <1>2, ArenaIs DEF FInv
<1>4. e[2] \in 1..all_pt[e[1]].size
  BY <1>1, <1>3, SizeAssumption
<1>5. l \in DOMAIN infile /\ PageOf(infile, pt, phys, swap, l).kind = "swap"
  BY <1>1, <1>3, <1>4
<1>6. infile[l].ftype = "SWAP"
  BY <1>5 DEF PageOf
<1>7. infile[l].block \in Block
  BY <1>5, <1>6, FInvTypes, InfileFields
<1>8. l \in swfile[infile[l].block]
  BY <1>5, <1>6, <1>7 DEF FInv, SwapReserved, IsSwap
<1> QED
  BY <1>1, <1>5, <1>6, <1>7, <1>8

LEMMA SpareBlock ==
  ASSUME FInv, NEW b \in Range(free_block)
  PROVE  Cardinality(Memory!SwapPages) < BlCnt
<1> DEFINE S      == Memory!SwapPages
           T      == Block \ {b}
           at(e)  == <<e[1], e[2] - 1>>
           held   == [e \in S |-> infile[at(e)].block]
<1>1. b \in Block /\ swfile[b] = {}
  <2>1. b \in Block
    BY DEF FInv, IInv, TypeOK, SpaceOK, Range
  <2> QED
    BY <2>1 DEF FInv, SwapReserved
<1>2. \A e \in S : held[e] \in T /\ at(e) \in swfile[held[e]]
  BY <1>1, SwapPageBlock
<1>3. ASSUME NEW d \in S, NEW e \in S, held[d] = held[e]
      PROVE  d = e
  <2>1. at(d) = at(e)
    <3>1. held[d] \in Block /\ at(d) \in swfile[held[d]] /\ at(e) \in swfile[held[d]]
      BY <1>2, <1>3
    <3>2. Sole(swfile[held[d]])
      BY <3>1 DEF FInv, SwapReserved
    <3> HIDE DEF held, at
    <3> QED
      BY <3>1, <3>2 DEF Sole
  <2>2. /\ d = <<d[1], d[2]>> /\ d[2] \in 1..NPages
        /\ e = <<e[1], e[2]>> /\ e[2] \in 1..NPages
    BY SwapPageBlock
  <2>3. d[1] = e[1] /\ d[2] - 1 = e[2] - 1
    BY <2>1
  <2>4. d[2] = e[2]
    BY <2>2, <2>3, SizeAssumption
  <2> QED
    BY <2>2, <2>3, <2>4
<1>4. held \in Injection(S, T)
  <2>1. held \in [S -> T]
    BY <1>2
  <2>2. DOMAIN held = S /\ \A d, e \in S : held[d] = held[e] => d = e
    BY <1>3
  <2> HIDE DEF held, S, T
  <2> QED
    BY <2>1, <2>2 DEF Injection, IsInjective
<1>5. BlCnt \in Nat /\ BlCnt > 0
  BY <1>1, SizeAssumption DEF Block
<1>6. IsFiniteSet(Block) /\ Cardinality(Block) = BlCnt
  BY <1>5, FS_Interval DEF Block
<1>7. IsFiniteSet(T) /\ Cardinality(T) = BlCnt - 1
  BY <1>1, <1>6, FS_RemoveElement
<1>8. IsFiniteSet(S) /\ Cardinality(S) <= Cardinality(T)
  <2> HIDE DEF held, S, T
  <2> QED
    BY <1>4, <1>7, FS_Injection
<1>9. Cardinality(S) \in Nat
  BY <1>8, FS_CardinalityType
<1> QED
  BY <1>5, <1>7, <1>8, <1>9

-----------------------------------------------------------------------------
(* Every step of the pager is a step of VirtualMemory or changes no arena. *)

LEMMA MapsInvariant ==
  ASSUME FInv, FInv'
  PROVE  IInv /\ IInv'
BY DEF FInv

\* The process that calls has an arena.
LEMMA CallerStays ==
  ASSUME FInv, call.op \notin {"none", "exit"}
  PROVE  /\ Current = curr_pid /\ curr_pid \in Staying /\ curr_pid \in DOMAIN Arenas
         /\ Staying = DOMAIN all_pt /\ bound = all_pt[curr_pid].size
BY ArenasAre DEF Current, Staying, ArenasOf, FInv, IInv, TypeOK, ProcOK

\* A step that maps nothing leaves the arenas alone, but that of a process that
\* begins to exit.
LEMMA NothingMapped ==
  ASSUME FInv, FInv', PagesSame(infile', pt', phys', swap'),
         FilesSame(infile', filemap', phys', file'),
         \A p \in Staying' : all_pt'[p] = all_pt[p],
         \/ Staying' = Staying /\ Current' = Current
         \/ /\ Current \in Staying
            /\ Staying' = Staying \ {Current}
            /\ Current' = NoPid
  PROVE  [Memory!Next]_(Memory!vars)
<1>1. IInv /\ IInv'
  BY MapsInvariant
<1>2. Arenas' = [p \in Staying' |-> Arenas[p]] /\ Files' = Files
  BY <1>1, ArenasKeep
<1>3. DOMAIN Arenas = Staying /\ Arenas = [p \in Staying |-> Arenas[p]]
  BY ArenasAre DEF ArenasOf
<1>4. CASE Staying' = Staying /\ Current' = Current
  BY <1>2, <1>3, <1>4, Stutters
<1>5. CASE Current \in Staying /\ Staying' = Staying \ {Current} /\ Current' = NoPid
  BY <1>2, <1>3, <1>5, Exits
<1> QED
  BY <1>4, <1>5

\* A call that the running process is in goes on, returns or kills it.
LEMMA CallMaps ==
  ASSUME FInv, FInv', PagesSame(infile', pt', phys', swap'),
         FilesSame(infile', filemap', phys', file'),
         UNCHANGED <<curr_pid, all_pt>>,
         call.op \notin {"none", "exit"}, call'.op # "none"
  PROVE  [Memory!Next]_(Memory!vars)
<1>1. Current = curr_pid /\ curr_pid \in Staying /\ Staying = DOMAIN all_pt
  BY CallerStays
<1>2. CASE call'.op = "exit"
  BY <1>1, <1>2, NothingMapped DEF Staying, Current
<1>3. CASE call'.op # "exit"
  BY <1>1, <1>3, NothingMapped DEF Staying, Current
<1> QED
  BY <1>2, <1>3

LEMMA FaultReturns ==
  ASSUME NEW v, NEW w, NEW ok, NEW fail, vm_fault(v, w, ok, fail)
  PROVE  call' \in {ok, fail} /\ UNCHANGED <<curr_pid, all_pt>>
<1>1. CASE FaultInvalid(v, fail)
  BY <1>1 DEF FaultInvalid, proc
<1>2. CASE FaultResident(Mine(v), w, ok)
  BY <1>2 DEF FaultResident, proc
<1>3. CASE FaultCow(Mine(v), ok)
  BY <1>3 DEF FaultCow, proc
<1>4. CASE FaultLoad(Mine(v), w, ok)
  BY <1>4 DEF FaultLoad, proc
<1>5. CASE FaultReadFails(Mine(v), fail)
  BY <1>5 DEF FaultReadFails, proc
<1> QED
  BY <1>1, <1>2, <1>3, <1>4, <1>5 DEF vm_fault

LEMMA FaultMaps ==
  ASSUME FInv, FInv', call.op \notin {"none", "exit"},
         NEW v \in Vpage, NEW w \in BOOLEAN, NEW ok, NEW fail,
         vm_fault(v, w, ok, fail), ok.op # "none", fail.op # "none"
  PROVE  [Memory!Next]_(Memory!vars)
<1>1. call' \in {ok, fail} /\ UNCHANGED <<curr_pid, all_pt>>
  BY FaultReturns
<1>2. PagesSame(infile', pt', phys', swap') /\ FilesSame(infile', filemap', phys', file')
  BY FaultSame
<1> QED
  BY <1>1, <1>2, CallMaps

\* A page of the running process is at the place in its arena that follows its
\* number.
LEMMA PageAt ==
  ASSUME FInv, call.op \notin {"none", "exit"},
         NEW v \in Vpage, Mine(v) \in DOMAIN infile
  PROVE  /\ v + 1 \in 1..all_pt[curr_pid].size
         /\ v + 1 \in 1..NPages /\ v + 1 <= Len(Arenas[curr_pid])
         /\ Arenas[curr_pid][v + 1] = PageOf(infile, pt, phys, swap, Mine(v))
<1>1. curr_pid \in Staying
  BY CallerStays
<1>2. /\ all_pt[curr_pid].size \in 0..NPages /\ Len(Arenas[curr_pid]) = all_pt[curr_pid].size
      /\ Arenas[curr_pid] = [i \in 1..all_pt[curr_pid].size |->
                               PageOf(infile, pt, phys, swap, <<curr_pid, i - 1>>)]
  BY <1>1, ArenaIs DEF FInv
<1>3. Mine(v)[1] = curr_pid /\ Mine(v)[2] = v /\ Mine(v) \in Live
  BY DEF FInv, IInv, RecordsLive, Mine
<1>4. v < all_pt[curr_pid].size
  BY <1>3 DEF Live
<1>5. v \in 0..(NPages - 1)
  BY DEF Vpage
<1>6. v + 1 \in 1..all_pt[curr_pid].size /\ v + 1 \in 1..NPages
  BY <1>2, <1>4, <1>5, SizeAssumption
<1>7. (v + 1) - 1 = v /\ v + 1 <= all_pt[curr_pid].size
  BY <1>2, <1>5, <1>6, SizeAssumption
<1>8. <<curr_pid, (v + 1) - 1>> = Mine(v)
  BY <1>7 DEF Mine
<1>9. Arenas[curr_pid][v + 1] = PageOf(infile, pt, phys, swap, <<curr_pid, (v + 1) - 1>>)
  BY <1>2, <1>6
<1> QED
  BY <1>2, <1>6, <1>7, <1>8, <1>9

\* A store sets one swap page, or one block of a file.
LEMMA StoreMaps ==
  ASSUME FInv, FInv', Hidden, NEW v \in Vpage, NEW d \in Data, Store(v, d)
  PROVE  Memory!Next
<1> DEFINE e == Mine(v)
           i == v + 1
           n == all_pt[curr_pid].size
<1>1. /\ call.op \notin {"none", "exit"} /\ e \in DOMAIN infile
      /\ infile' = infile
      /\ \A l \in DOMAIN infile : IsSwap(l) =>
           SwapData(infile', pt', phys', swap', l) =
             IF l = e THEN d ELSE SwapData(infile, pt, phys, swap, l)
      /\ \A f \in FileBlock :
           FileData(infile', filemap', phys', file', f) =
             IF ~IsSwap(e) /\ f = infile[e].block THEN d
             ELSE FileData(infile, filemap, phys, file, f)
  BY StoreWrites
<1>2. UNCHANGED <<curr_pid, all_pt>> /\ call' = Run
  BY DEF Store, proc
<1>3. Current = curr_pid /\ curr_pid \in Staying /\ curr_pid \in DOMAIN Arenas
  BY <1>1, CallerStays
<1>4. Staying' = Staying /\ Current' = Current
  BY <1>1, <1>2, <1>3 DEF Staying, Current, Run
<1>5. i \in 1..n /\ i \in 1..NPages /\ i <= Len(Arenas[curr_pid])
  BY <1>1, PageAt
<1>6. Arenas[curr_pid][i] = PageOf(infile, pt, phys, swap, e)
  BY <1>1, PageAt
<1>7. \A l \in DOMAIN infile : l # e =>
        PageOf(infile', pt', phys', swap', l) = PageOf(infile, pt, phys, swap, l)
  BY <1>1 DEF PageOf, IsSwap
<1>8. Arenas' = [p \in Staying |-> Arenas'[p]] /\ Arenas = [p \in Staying |-> Arenas[p]]
  BY <1>4, ArenasAre DEF ArenasOf
<1>9. \A p \in Staying :
        /\ Arenas'[p] = [j \in 1..all_pt[p].size |->
                           PageOf(infile', pt', phys', swap', <<p, j - 1>>)]
        /\ Arenas[p] = [j \in 1..all_pt[p].size |->
                          PageOf(infile, pt, phys, swap, <<p, j - 1>>)]
        /\ \A j \in 1..all_pt[p].size : <<p, j - 1>> \in DOMAIN infile
  BY <1>2, <1>4, MapsInvariant, ArenaIs, ArenaAfter
<1>10. \A p \in Staying : \A j \in 1..all_pt[p].size :
         <<p, j - 1>> = e <=> p = curr_pid /\ j = i
  <2> TAKE p \in Staying
  <2> TAKE j \in 1..all_pt[p].size
  <2>1. all_pt[p].size \in 0..NPages
    BY ArenaIs DEF FInv
  <2>2. j - 1 = v <=> j = v + 1
    BY <2>1, SizeAssumption DEF Vpage
  <2> QED
    BY <2>2 DEF Mine
<1> HIDE DEF e, i, n
<1>11. CASE IsSwap(e)
  <2>1. Files' = Files
    BY <1>1, <1>11, FilesAre
  <2>2. PageOf(infile', pt', phys', swap', e) = [kind |-> "swap", data |-> d]
    BY <1>1, <1>11 DEF PageOf, IsSwap
  <2>3. /\ PageOf(infile, pt, phys, swap, e).kind = "swap"
        /\ [PageOf(infile, pt, phys, swap, e) EXCEPT !.data = d] =
             [kind |-> "swap", data |-> d]
    BY <1>11 DEF PageOf, IsSwap
  <2>4. \A p \in Staying \ {curr_pid} : Arenas'[p] = Arenas[p]
    <3> TAKE p \in Staying \ {curr_pid}
    <3>1. \A j \in 1..all_pt[p].size :
            PageOf(infile', pt', phys', swap', <<p, j - 1>>) =
              PageOf(infile, pt, phys, swap, <<p, j - 1>>)
      BY <1>7, <1>9, <1>10
    <3> QED
      BY <1>9, <3>1
  <2>5. Arenas'[curr_pid] =
          [Arenas[curr_pid] EXCEPT ![i] = [kind |-> "swap", data |-> d]]
    <3>1. \A j \in 1..n :
            PageOf(infile', pt', phys', swap', <<curr_pid, j - 1>>) =
              IF j = i THEN [kind |-> "swap", data |-> d]
              ELSE PageOf(infile, pt, phys, swap, <<curr_pid, j - 1>>)
      BY <1>3, <1>7, <1>9, <1>10, <2>2 DEF n
    <3>2. /\ Arenas'[curr_pid] = [j \in 1..n |->
                   PageOf(infile', pt', phys', swap', <<curr_pid, j - 1>>)]
          /\ Arenas[curr_pid] = [j \in 1..n |->
                   PageOf(infile, pt, phys, swap, <<curr_pid, j - 1>>)]
      BY <1>3, <1>9 DEF n
    <3>3. DOMAIN Arenas[curr_pid] = 1..n
      BY <3>2
    <3>4. \A j \in 1..n :
            Arenas[curr_pid][j] = PageOf(infile, pt, phys, swap, <<curr_pid, j - 1>>)
      BY <3>2
    <3> HIDE DEF n
    <3>5. \A j \in 1..n : Arenas'[curr_pid][j] =
            IF j = i THEN [kind |-> "swap", data |-> d] ELSE Arenas[curr_pid][j]
      BY <3>1, <3>2, <3>4
    <3>6. Arenas[curr_pid] = [j \in 1..n |-> Arenas[curr_pid][j]]
      BY <3>2, <3>4
    <3>7. Arenas'[curr_pid] = [j \in 1..n |-> Arenas'[curr_pid][j]]
      BY <3>2
    <3> QED
      BY <3>3, <3>5, <3>6, <3>7
  <2>6. Arenas' = [Arenas EXCEPT ![curr_pid] =
                     [Arenas[curr_pid] EXCEPT ![i] = [kind |-> "swap", data |-> d]]]
    BY <1>3, <1>8, <2>4, <2>5
  <2>7. Arenas' = [Arenas EXCEPT ![curr_pid][i].data = d]
    BY <1>6, <2>3, <2>6
  <2> QED
    BY <1>3, <1>4, <1>5, <1>6, <2>1, <2>3, <2>7, Stores
<1>12. CASE ~IsSwap(e)
  <2>1. PageOf(infile, pt, phys, swap, e) = [kind |-> "file", block |-> infile[e].block]
    BY <1>12 DEF PageOf, IsSwap
  <2>2. PageOf(infile', pt', phys', swap', e) = PageOf(infile, pt, phys, swap, e)
    BY <1>1, <1>12 DEF PageOf, IsSwap
  <2>3. \A p \in Staying : Arenas'[p] = Arenas[p]
    <3> TAKE p \in Staying
    <3>1. \A j \in 1..all_pt[p].size :
            PageOf(infile', pt', phys', swap', <<p, j - 1>>) =
              PageOf(infile, pt, phys, swap, <<p, j - 1>>)
      BY <1>7, <1>9, <2>2
    <3> QED
      BY <1>9, <3>1
  <2>4. Arenas' = Arenas
    BY <1>8, <2>3
  <2>5. Files' = [Files EXCEPT ![infile[e].block] = d]
    BY <1>1, <1>12, FilesAre
  <2>6. /\ Arenas[Current][i].kind # "swap"
        /\ Arenas[Current][i].block = infile[e].block
    BY <1>3, <1>6, <2>1
  <2> QED
    BY <1>3, <1>4, <1>5, <2>4, <2>5, <2>6, Stores
<1> QED
  BY <1>11, <1>12

\* What the running process reads in a page is what VirtualMemory says it holds.
LEMMA ReadsContent ==
  ASSUME FInv, Hidden, call.op \notin {"none", "exit"},
         NEW v \in Vpage, Permits(v, FALSE)
  PROVE  /\ Mine(v) \in DOMAIN infile
         /\ Memory!Content(Current, v + 1) = phys[pt[Mine(v)].ppage]
<1> DEFINE e == Mine(v)
<1>1. e \in DOMAIN infile /\ ~infile[e].infile
  BY PermitsMapped DEF Resident
<1>2. Current = curr_pid
  BY CallerStays
<1>3. Arenas[Current][v + 1] = PageOf(infile, pt, phys, swap, e)
  BY <1>1, <1>2, PageAt
<1>4. Memory!Content(Current, v + 1) =
        IF PageOf(infile, pt, phys, swap, e).kind = "swap"
        THEN PageOf(infile, pt, phys, swap, e).data
        ELSE Files[PageOf(infile, pt, phys, swap, e).block]
  BY <1>3 DEF Memory!Content, Files
<1>5. CASE infile[e].ftype = "SWAP"
  BY <1>1, <1>4, <1>5 DEF PageOf, SwapData
<1>6. CASE infile[e].ftype # "SWAP"
  <2>1. infile[e].block \in FileBlock
    BY <1>1, <1>6, FInvTypes, InfileFields
  <2>2. /\ InMem(infile, filemap, infile[e].block)
        /\ filemap[infile[e].block].ppage = pt[e].ppage
    <3>1. BlocksListed(infile, filemap) /\ BlocksMoveAsOne(infile, pt, filemap)
      BY DEF FInv, Agree
    <3> QED
      BY <1>1, <1>6, <3>1, FileTogether
  <2>3. Memory!Content(Current, v + 1) = Files[infile[e].block]
    BY <1>4, <1>6 DEF PageOf
  <2>4. Files[infile[e].block] = FileData(infile, filemap, phys, file, infile[e].block)
    BY <2>1, FilesAre
  <2> QED
    BY <1>1, <2>2, <2>3, <2>4 DEF FileData
<1> QED
  BY <1>1, <1>5, <1>6

\* The mapped page has its place at the end of the arena of the process that
\* runs, before the step and after it.
LEMMA GrownBy ==
  ASSUME FInv, FInv', Grow, call.op \notin {"none", "exit"},
         call'.op \notin {"none", "exit"}
  PROVE  /\ Staying' = Staying /\ Current' = Current /\ Current = curr_pid
         /\ curr_pid \in Staying /\ curr_pid \in DOMAIN Arenas
         /\ all_pt'[curr_pid].size = all_pt[curr_pid].size + 1
         /\ \A p \in Staying \ {curr_pid} : all_pt'[p].size = all_pt[p].size
<1>1. /\ Current = curr_pid /\ curr_pid \in Staying /\ curr_pid \in DOMAIN Arenas
      /\ Staying = DOMAIN all_pt
  BY CallerStays
<1>2. all_pt[curr_pid] \in Pt
  BY <1>1 DEF FInv, IInv, TypeOK, ProcOK, Maps
<1>3. curr_pid' = curr_pid /\ all_pt' = [all_pt EXCEPT ![curr_pid].size = @ + 1]
  BY DEF Grow
<1>4. Staying' = Staying /\ Current' = Current
  BY <1>1, <1>3 DEF Staying, Current
<1> QED
  BY <1>1, <1>2, <1>3, <1>4 DEF Pt

LEMMA MapFileMaps ==
  ASSUME FInv, FInv', Hidden,
         NEW v \in Vpage, NEW b \in FBlock, MapFile(v, b), ~StaleGhost(NamedBy(v, b))
  PROVE  Memory!Next
<1> DEFINE d    == phys[pt[Mine(v)].ppage]
           page == [kind |-> "file", block |-> <<NameOf[d], b>>]
<1>1. /\ PagesSame(infile', pt', phys', swap')
      /\ FilesSame(infile', filemap', phys', file')
      /\ infile'[NewEntry].ftype = "FILE_B"
      /\ infile'[NewEntry].block = <<NameOf[d], b>>
  BY MapFileSame DEF NamedBy
<1>2. call.op \in {"run", "string"}
  BY NotExiting
<1>3. bound # NPages
  BY MapFileJoins
<1>4. Permits(v, FALSE) /\ d \notin Spill /\ Grow /\ call' = Run
  BY DEF MapFile, Readable
<1>5. call'.op = "run"
  BY <1>4 DEF Run
<1>6. /\ Staying' = Staying /\ Current' = Current /\ Current = curr_pid
      /\ curr_pid \in Staying /\ curr_pid \in DOMAIN Arenas
      /\ all_pt'[curr_pid].size = all_pt[curr_pid].size + 1
      /\ \A p \in Staying \ {curr_pid} : all_pt'[p].size = all_pt[p].size
  BY <1>2, <1>4, <1>5, GrownBy
<1>7. PageOf(infile', pt', phys', swap', NewEntry) = page
  BY <1>1 DEF PageOf
<1>8. Arenas' = [Arenas EXCEPT ![curr_pid] = Append(@, page)]
  BY <1>1, <1>6, <1>7, MapsInvariant, ArenaGrows
<1>9. Mine(v) \in DOMAIN infile /\ Memory!Content(Current, v + 1) = d
  BY <1>2, <1>4, ReadsContent
<1>10. v + 1 \in 1..NPages /\ v + 1 <= Len(Arenas[curr_pid])
  BY <1>2, <1>9, PageAt
<1>11. Len(Arenas[curr_pid]) < NPages
  <2>1. Len(Arenas[curr_pid]) = all_pt[curr_pid].size /\ all_pt[curr_pid].size \in 0..NPages
    BY <1>6, ArenaIs DEF FInv
  <2>2. bound = all_pt[curr_pid].size
    BY <1>2, CallerStays
  <2> QED
    BY <1>3, <2>1, <2>2, SizeAssumption
<1>12. Files' = Files
  BY <1>1, FilesKept
<1> HIDE DEF d
<1> QED
  BY <1>4, <1>6, <1>8, <1>9, <1>10, <1>11, <1>12, MapsFile

LEMMA MapSwapMaps ==
  ASSUME FInv, FInv', MapSwap
  PROVE  Memory!Next
<1> DEFINE page == [kind |-> "swap", data |-> Zero]
<1>1. /\ PagesSame(infile', pt', phys', swap')
      /\ FilesSame(infile', filemap', phys', file')
      /\ infile'[NewEntry].ftype = "SWAP"
      /\ SwapData(infile', pt', phys', swap', NewEntry) = Zero
  BY MapSwapSame
<1>2. /\ call.op = "run" /\ bound # NPages /\ free_block # <<>>
      /\ call' = call /\ curr_pid' = curr_pid
      /\ all_pt' = [all_pt EXCEPT ![curr_pid] =
                      [size |-> @.size + 1, numsw |-> @.numsw + 1]]
  BY DEF MapSwap, Idle
<1>3. /\ Current = curr_pid /\ curr_pid \in Staying /\ curr_pid \in DOMAIN Arenas
      /\ Staying = DOMAIN all_pt /\ bound = all_pt[curr_pid].size
  BY <1>2, CallerStays
<1>4. Staying' = Staying /\ Current' = Current
  BY <1>2, <1>3 DEF Staying, Current
<1>5. /\ all_pt'[curr_pid].size = all_pt[curr_pid].size + 1
      /\ \A p \in Staying \ {curr_pid} : all_pt'[p].size = all_pt[p].size
  BY <1>2, <1>3
<1>6. PageOf(infile', pt', phys', swap', NewEntry) = page
  BY <1>1 DEF PageOf
<1>7. Arenas' = [Arenas EXCEPT ![curr_pid] = Append(@, page)]
  BY <1>1, <1>3, <1>4, <1>5, <1>6, MapsInvariant, ArenaGrows
<1>8. Len(Arenas[curr_pid]) < NPages
  <2>1. Len(Arenas[curr_pid]) = all_pt[curr_pid].size /\ all_pt[curr_pid].size \in 0..NPages
    BY <1>3, ArenaIs DEF FInv
  <2> QED
    BY <1>2, <1>3, <2>1, SizeAssumption
<1>9. Cardinality(Memory!SwapPages) < BlCnt
  <2>1. free_block \in Seq(Block) /\ IsInjective(free_block)
    BY DEF FInv, IInv, TypeOK, SpaceOK, SwapReserved
  <2>2. Head(free_block) \in Range(free_block)
    BY <1>2, <2>1, TailWithoutHead
  <2> QED
    BY <2>2, SpareBlock
<1>10. Files' = Files
  BY <1>1, FilesKept
<1>11. Current \in DOMAIN Arenas /\ Len(Arenas[Current]) < NPages
  BY <1>3, <1>8
<1>12. Arenas' = [Arenas EXCEPT ![Current] =
                    Append(@, [kind |-> "swap", data |-> Zero])]
  BY <1>3, <1>7
<1> QED
  BY <1>4, <1>9, <1>10, <1>11, <1>12, MapsSwap

LEMMA DestroyMaps ==
  ASSUME FInv, FInv', NEW v \in 0..NPages, DestroyPage(v) \/ DestroyTable(v)
  PROVE  [Memory!Next]_(Memory!vars)
<1>1. FBlock # {} /\ v \in 0..NPages
  BY DataAssumption
<1>2. Exiting(v)
  BY DEF DestroyPage, DestroyTable
<1>3. call.op \in {"run", "exit"} /\ None.op = "none"
  BY <1>2 DEF Exiting, Idle, Exit, None, Run
<1>4. /\ curr_pid \in DOMAIN all_pt
      /\ Current = IF call.op = "exit" THEN NoPid ELSE curr_pid
  BY <1>3 DEF Current, FInv, IInv, TypeOK, ProcOK
<1>5. CASE DestroyPage(v)
  <2>1. /\ PagesSame(infile', pt', phys', swap')
        /\ FilesSame(infile', filemap', phys', file')
    BY <1>5, DestroyPageSame
  <2>2. UNCHANGED <<curr_pid, all_pt>> /\ call'.op = "exit"
    <3>1. v < all_pt[curr_pid].size /\ call' = Exit(v + 1) /\ UNCHANGED proc
      BY <1>5 DEF DestroyPage
    <3>2. all_pt[curr_pid].size \in 0..NPages
      BY <1>4 DEF FInv, IInv, TypeOK, ProcOK, Maps, Pt
    <3>3. v + 1 \in 0..NPages
      BY <3>1, <3>2, SizeAssumption
    <3> QED
      BY <1>1, <3>1, <3>3, CallsOK DEF proc
  <2>3. CASE call.op = "run"
    <3>1. Staying = DOMAIN all_pt /\ Staying' = DOMAIN all_pt \ {curr_pid}
      BY <2>2, <2>3 DEF Staying
    <3>2. Current = curr_pid /\ Current' = NoPid
      BY <1>4, <2>2, <2>3 DEF Current
    <3> QED
      BY <1>4, <2>1, <2>2, <3>1, <3>2, NothingMapped
  <2>4. CASE call.op = "exit"
    <3>1. Staying' = Staying /\ Current' = Current
      BY <2>2, <2>4 DEF Staying, Current
    <3> QED
      BY <2>1, <2>2, <3>1, NothingMapped
  <2> QED
    BY <1>3, <2>3, <2>4
<1>6. CASE DestroyTable(v)
  <2>1. /\ PagesSame(infile', pt', phys', swap')
        /\ FilesSame(infile', filemap', phys', file')
    BY <1>6, TablesSame
  <2>2. all_pt' = Drop(all_pt, {curr_pid}) /\ call'.op = "none"
    BY <1>3, <1>6 DEF DestroyTable
  <2>3. /\ Staying' = DOMAIN all_pt \ {curr_pid} /\ Current' = NoPid
        /\ \A p \in Staying' : all_pt'[p] = all_pt[p]
    BY <2>2 DEF Staying, Current, Drop, Restrict
  <2>4. CASE call.op = "run"
    BY <1>4, <2>1, <2>3, <2>4, NothingMapped DEF Staying
  <2>5. CASE call.op = "exit"
    BY <1>4, <2>1, <2>3, <2>5, NothingMapped DEF Staying
  <2> QED
    BY <1>3, <2>4, <2>5
<1> QED
  BY <1>5, <1>6

LEMMA SwitchMaps ==
  ASSUME FInv, FInv', NEW p \in Pid, vm_switch(p)
  PROVE  Memory!Next
<1>1. /\ PagesSame(infile', pt', phys', swap')
      /\ FilesSame(infile', filemap', phys', file')
  BY TablesSame
<1>2. /\ call.op \in {"run", "none"} /\ call'.op = "run"
      /\ p \in DOMAIN all_pt /\ curr_pid' = p /\ all_pt' = all_pt
  BY DEF vm_switch, Kernel, Run
<1>3. Staying = DOMAIN all_pt /\ Staying' = Staying /\ Current' = p
  BY <1>2 DEF Staying, Current
<1>4. Arenas' = [q \in Staying' |-> Arenas[q]] /\ Files' = Files
  BY <1>1, <1>2, <1>3, MapsInvariant, ArenasKeep
<1>5. DOMAIN Arenas = Staying /\ Arenas = [q \in Staying |-> Arenas[q]]
  BY ArenasAre DEF ArenasOf
<1> QED
  BY <1>2, <1>3, <1>4, <1>5, Switches

\* The child of a process that has mapped nothing, as the child of one the
\* pager does not manage, starts with an empty arena.
LEMMA CreateMaps ==
  ASSUME FInv, FInv', NEW parent \in Pid \cup {NoPid}, NEW child \in Pid,
         vm_create(parent, child), ParentSize(parent) = 0
  PROVE  Memory!Next
<1>1. /\ PagesSame(infile', pt', phys', swap')
      /\ FilesSame(infile', filemap', phys', file')
  BY TablesSame
<1>2. /\ UNCHANGED <<curr_pid, call>> /\ Kernel /\ child \notin DOMAIN all_pt
      /\ DOMAIN all_pt' = DOMAIN all_pt \cup {child}
      /\ all_pt'[child].size = 0
      /\ \A p \in DOMAIN all_pt : all_pt'[p] = all_pt[p]
  BY FlatCreate DEF FInv
<1>3. Staying = DOMAIN all_pt /\ Staying' = Staying \cup {child} /\ Current' = Current
  BY <1>2 DEF Staying, Current, Kernel
<1>4. parent \in {NoPid, Current}
  <2>1. parent = NoPid \/ (Idle /\ parent = curr_pid)
    BY DEF vm_create
  <2> QED
    BY <2>1 DEF Current, Idle
<1>5. /\ DOMAIN Arenas = Staying
      /\ Arenas' = [p \in Staying' |-> Arenas'[p]]
  BY ArenasAre DEF ArenasOf
<1>6. \A p \in Staying : Arenas'[p] = Arenas[p]
  BY <1>1, <1>2, <1>3, MapsInvariant, ArenaKept
<1>7. Arenas'[child] = <<>>
  <2>1. Arenas'[child] = [i \in 1..0 |->
                            PageOf(infile', pt', phys', swap', <<child, i - 1>>)]
    BY <1>2, <1>3, ArenasAre DEF ArenasOf
  <2> QED
    BY <2>1
<1>8. parent \in DOMAIN Arenas => Arenas[parent] = <<>>
  <2> SUFFICES ASSUME parent \in DOMAIN Arenas
               PROVE  Arenas[parent] = <<>>
    OBVIOUS
  <2>1. parent \in Staying /\ all_pt[parent].size = 0
    BY <1>3, <1>5 DEF ParentSize
  <2>2. Arenas[parent] = [i \in 1..0 |->
                            PageOf(infile, pt, phys, swap, <<parent, i - 1>>)]
    BY <2>1, ArenasAre DEF ArenasOf
  <2> QED
    BY <2>2
<1>9. Arenas' = [p \in DOMAIN Arenas \cup {child} |->
                   IF p # child THEN Arenas[p]
                   ELSE IF parent \in DOMAIN Arenas THEN Arenas[parent] ELSE <<>>]
  BY <1>2, <1>3, <1>5, <1>6, <1>7, <1>8
<1>10. Files' = Files
  BY <1>1, FilesKept
<1>11. child \notin DOMAIN Arenas
  BY <1>2, <1>3, <1>5
<1> QED
  BY <1>3, <1>4, <1>9, <1>10, <1>11, Creates

LEMMA AccessMaps ==
  ASSUME FInv, FInv', Hidden, Access \/ Name
  PROVE  [Memory!Next]_(Memory!vars)
<1>1. call.op \notin {"none", "exit"}
  BY NotExiting
<1>2. /\ Run.op = "run" /\ Exit(0).op = "exit"
      /\ \A v \in Vpage, w \in BOOLEAN : Retry(v, w).op = "retry"
      /\ \A v \in 0..NPages, b \in FBlock : Str(v, b).op = "string"
      /\ \A v \in Vpage : v \in 0..NPages /\ v + 1 \in 0..NPages
  BY SizeAssumption, PCntAssumption
  DEF Run, Exit, Retry, Str, Vpage
<1>3. CASE \E v \in Vpage, w \in BOOLEAN : AppFault(v, w)
  BY <1>1, <1>2, <1>3, FaultMaps DEF AppFault
<1>4. CASE \E v \in Vpage, d \in Data : Store(v, d)
  BY <1>4, StoreMaps
<1>5. ASSUME UNCHANGED <<proc, mapping, contents>>, call'.op # "none"
      PROVE  [Memory!Next]_(Memory!vars)
  <2>1. UNCHANGED <<infile, filemap, pt, phys, swap, file>>
    BY <1>5 DEF mapping, contents
  <2>2. UNCHANGED <<curr_pid, all_pt>>
    BY <1>5 DEF proc
  <2>3. PagesSame(infile', pt', phys', swap') /\ FilesSame(infile', filemap', phys', file')
    BY <2>1, QuietSame
  <2> QED
    BY <1>1, <1>5, <2>2, <2>3, CallMaps
<1>6. CASE \E v \in Vpage : Reload(v)
  BY <1>2, <1>5, <1>6 DEF Reload
<1>7. CASE \E v \in Vpage, b \in FBlock : NameFault(v, b)
  BY <1>1, <1>2, <1>7, FaultMaps DEF NameFault
<1>8. CASE \E v \in Vpage, b \in FBlock : NameSpills(v, b)
  BY <1>2, <1>5, <1>8 DEF NameSpills
<1> QED
  BY <1>3, <1>4, <1>6, <1>7, <1>8 DEF Access, Name

LEMMA InitMaps ==
  ASSUME Init
  PROVE  Memory!Init
<1>1. all_pt = <<>> /\ filemap = <<>> /\ call.op = "none" /\ file \in [FileBlock -> Data]
  BY DataAssumption DEF Init, None, Run
<1>2. Arenas = <<>>
  <2>1. Staying = {}
    BY <1>1 DEF Staying
  <2>2. DOMAIN Arenas = {} /\ Arenas = [p \in {} |-> Arenas[p]]
    BY <2>1, ArenasAre DEF ArenasOf
  <2> QED
    BY <2>2
<1>3. Current = NoPid
  BY <1>1 DEF Current
<1>4. Files \in [FileBlock -> Data]
  BY <1>1 DEF Files, InMemory
<1> QED
  BY <1>2, <1>3, <1>4 DEF Memory!Init, Current, Files, FileBlock

LEMMA NextMaps ==
  ASSUME FInv, FInv', Hidden, [CleanNext]_vars
  PROVE  [Memory!Next]_(Memory!vars)
<1>1. CASE Access \/ Name
  BY <1>1, AccessMaps
<1>2. CASE MapSwap
  BY <1>2, MapSwapMaps
<1>3. CASE vm_destroy
  BY <1>3, DestroyMaps DEF vm_destroy
<1>4. CASE \E p \in Pid : vm_switch(p)
  BY <1>4, SwitchMaps
<1>5. CASE \E v \in Vpage, b \in FBlock : MapFile(v, b) /\ ~StaleGhost(NamedBy(v, b))
  BY <1>5, MapFileMaps
<1>6. CASE \E parent \in Pid \cup {NoPid}, child \in Pid :
             vm_create(parent, child) /\ ParentSize(parent) = 0
  BY <1>6, CreateMaps
<1>7. CASE UNCHANGED vars
  <2>1. /\ UNCHANGED <<infile, filemap, pt, phys, swap, file>>
        /\ UNCHANGED <<curr_pid, all_pt, call>>
    BY <1>7 DEF vars, proc, mapping, contents
  <2>2. PagesSame(infile', pt', phys', swap') /\ FilesSame(infile', filemap', phys', file')
    BY <2>1, QuietSame
  <2>3. Staying' = Staying /\ Current' = Current /\ \A p \in Staying' : all_pt'[p] = all_pt[p]
    BY <2>1 DEF Staying, Current
  <2> QED
    BY <2>2, <2>3, NothingMapped
<1> QED
  BY <1>1, <1>2, <1>3, <1>4, <1>5, <1>6, <1>7 DEF CleanNext, Step

\* The pager implements the arenas of VirtualMemory: whatever is faulted, copied,
\* evicted and written back, every process sees its own pages as it left them,
\* and a file block the same wherever it is mapped.
THEOREM ArenasImplemented == CleanSpec => ArenasKept
<1>1. Init => Memory!Init
  BY InitMaps
<1>2. (FInv /\ Hidden) /\ (FInv /\ Hidden)' /\ [CleanNext]_vars =>
        [Memory!Next]_(Memory!vars)
  BY NextMaps
<1> QED
  BY <1>1, <1>2, Agreement, PTL DEF CleanSpec, ArenasKept, Memory!Spec

-----------------------------------------------------------------------------
(* The name that vm_map reads.  While it reads, only the pager runs, so    *)
(* that no page of the caller changes: what it finds in a page, though it  *)
(* may have come back from the disk, is what was there at the call.        *)

Held == [k \in 0..(bound - 1) |-> Content(Mine(k))]

\* The name read so far is what the caller's pages hold from its first page on.
SpillsTo(name, v) ==
  /\ name.from \in Int /\ name.from <= v
  /\ name.data = Held
  /\ \A k \in name.from..(v - 1) : name.data[k] \in Spill

NameKnown == call.op = "string" => SpillsTo(named, call.vp)

LEMMA NamesAreClean ==
  ASSUME [NamesNext]_namevars
  PROVE  [CleanNext]_vars
BY DEF NamesNext, namevars, ReadName, MapNamed, Unnamed, CleanNext, Step, Name

LEMMA StrIs ==
  ASSUME NEW v \in 0..NPages, NEW b \in FBlock
  PROVE  Str(v, b).op = "string" /\ Str(v, b).vp = v
BY DEF Str, Run

\* Where vm_to_string is, the name so far is known.
LEMMA SoFarKnown ==
  ASSUME NameKnown, NEW v \in Vpage, NEW b \in FBlock, Reading(v, b)
  PROVE  /\ SpillsTo(NameSoFar(v), v)
         /\ call.op \in {"run", "string"}
<1>1. v \in Int /\ v \in 0..NPages
  BY SizeAssumption, PCntAssumption DEF Vpage
<1>2. CASE Idle
  BY <1>1, <1>2 DEF NameSoFar, Asked, SpillsTo, Held, Idle
<1>3. CASE ~Idle
  <2>1. call.op = "string" /\ call.vp = v
    BY <1>1, <1>3, StrIs DEF Reading
  <2> QED
    BY <1>3, <2>1 DEF NameSoFar, NameKnown
<1> QED
  BY <1>2, <1>3

\* The page that vm_to_string reads holds what it held at the call.
LEMMA PageRead ==
  ASSUME FInv, Hidden, NameKnown, NEW v \in Vpage, NEW b \in FBlock,
         Reading(v, b), Readable(v)
  PROVE  /\ v \in 0..(bound - 1) /\ v \in DOMAIN NameSoFar(v).data
         /\ NameSoFar(v).data[v] = phys[pt[Mine(v)].ppage]
<1>1. call.op \in {"run", "string"} /\ NameSoFar(v).data = Held
  BY SoFarKnown DEF SpillsTo
<1>2. Mine(v) \in DOMAIN infile /\ Resident(Mine(v))
  BY <1>1, PermitsMapped DEF Readable
<1>3. /\ Mine(v) \in Live
      /\ bound \in Int /\ bound = all_pt[curr_pid].size
  BY <1>1, <1>2, SizeAssumption, PCntAssumption
  DEF FInv, IInv, RecordsLive, TypeOK, ProcOK
<1>4. v \in 0..(bound - 1)
  BY <1>3, SizeAssumption, PCntAssumption DEF Live, Mine, Vpage
<1>5. Content(Mine(v)) = phys[pt[Mine(v)].ppage]
  BY <1>2 DEF Content
<1> QED
  BY <1>1, <1>4, <1>5 DEF Held

\* No step of a call that goes on reading changes a page of the caller.
LEMMA ReadingHolds ==
  ASSUME FInv, FInv', Hidden, [CleanNext]_vars, call.op \in {"run", "string"},
         call'.op = "string", UNCHANGED <<curr_pid, bound, all_pt>>
  PROVE  Held' = Held
<1>1. /\ curr_pid \in DOMAIN all_pt /\ bound = all_pt[curr_pid].size
      /\ curr_pid \in Pid /\ bound \in Nat /\ bound <= NPages
  BY SizeAssumption, PCntAssumption DEF FInv, IInv, TypeOK, ProcOK, Maps
<1>2. ASSUME NEW k \in 0..(bound - 1)
      PROVE  Content(Mine(k))' = Content(Mine(k))
  <2>1. Mine(k)' = Mine(k) /\ Mine(k) \in Pte
    BY <1>1, SizeAssumption, PCntAssumption DEF Mine, Pte, Vpage
  <2>2. Mine(k) \in Live /\ Mine(k) \in Live'
    BY <1>1, <2>1 DEF Live, Mine
  <2>3. ~\E v \in Vpage, d \in Data : Store(v, d)
    <3>1. Run.op = "run"
      BY DEF Run
    <3> QED
      BY <3>1 DEF Store
  <2>4. Content(Mine(k)) = Content(Mine(k))'
    BY <2>1, <2>2, <2>3, NextStores
  <2> QED
    BY <2>4
<1> QED
  BY <1>2 DEF Held

LEMMA NextKnown ==
  ASSUME FInv, Hidden, NameKnown, [NamesNext]_namevars
  PROVE  NameKnown'
<1> SUFFICES ASSUME call'.op = "string"
             PROVE  SpillsTo(named, call.vp)'
  BY DEF NameKnown
<1>1. [CleanNext]_vars /\ FInv' /\ Hidden'
  BY NamesAreClean, NextAgrees, NextHides
<1>2. /\ Run.op = "run" /\ None.op = "none"
      /\ \A v \in 0..NPages : Exit(v).op = "exit"
      /\ \A v \in 0..NPages, w \in BOOLEAN : Retry(v, w).op = "retry"
  BY DEF Run, None, Exit, Retry
<1>3. /\ 0 \in 0..NPages
      /\ \A v \in Vpage : v \in Int /\ v \in 0..NPages /\ v + 1 \in 0..NPages
  BY SizeAssumption, PCntAssumption DEF Vpage
<1>4. ASSUME NEW v \in Vpage, NEW b \in FBlock, ReadName(v, b)
      PROVE  SpillsTo(named, call.vp)'
  <2>1. Reading(v, b) /\ named' = NameSoFar(v)
    BY <1>4 DEF ReadName, NameFault, NameSpills
  <2>2. SpillsTo(NameSoFar(v), v) /\ call.op \in {"run", "string"}
    BY <2>1, SoFarKnown
  <2>3. CASE NameFault(v, b)
    <3>1. call' \in {Str(v, b), Run} /\ UNCHANGED <<curr_pid, all_pt>>
      BY <2>3, FaultReturns DEF NameFault
    <3>2. call'.vp = v
      BY <1>2, <1>3, <3>1, StrIs
    <3>3. bound' = bound
      BY <1>1, <2>2, <3>1 DEF FInv, IInv, TypeOK, ProcOK
    <3>4. Held' = Held
      BY <1>1, <2>2, <3>1, <3>3, ReadingHolds
    <3> QED
      BY <2>1, <2>2, <3>2, <3>4 DEF SpillsTo
  <2>4. CASE NameSpills(v, b)
    <3>1. /\ Readable(v) /\ phys[pt[Mine(v)].ppage] \in Spill
          /\ call' = Str(v + 1, b) /\ UNCHANGED <<curr_pid, bound, all_pt>>
      BY <2>4 DEF NameSpills, proc
    <3>2. call'.vp = v + 1
      BY <1>3, <3>1, StrIs
    <3>3. NameSoFar(v).data[v] \in Spill
      BY <2>1, <3>1, PageRead
    <3>4. Held' = Held
      BY <1>1, <2>2, <3>1, ReadingHolds
    <3>5. \A k \in NameSoFar(v).from..(v + 1 - 1) : NameSoFar(v).data[k] \in Spill
      BY <1>3, <2>2, <3>3 DEF SpillsTo
    <3> QED
      BY <1>3, <2>1, <2>2, <3>2, <3>4, <3>5 DEF SpillsTo
  <2> QED
    BY <1>4, <2>3, <2>4 DEF ReadName
<1>5. ASSUME NEW v \in Vpage, NEW b \in FBlock, MapNamed(v, b)
      PROVE  FALSE
  BY <1>2, <1>5 DEF MapNamed, MapFile
<1>6. ASSUME Unnamed
      PROVE  FALSE
  <2>1. CASE Access
    <3>1. ASSUME NEW v \in Vpage, NEW w \in BOOLEAN, AppFault(v, w)
          PROVE  call' \in {Retry(v, w), Exit(0)}
      BY <3>1, FaultReturns DEF AppFault
    <3> QED
      BY <1>2, <1>3, <2>1, <3>1 DEF Access, Store, Reload
  <2>2. CASE MapSwap
    BY <2>2 DEF MapSwap, Idle
  <2>3. CASE vm_destroy
    <3>1. \A v \in 0..NPages : DestroyPage(v) => v + 1 \in 0..NPages
      BY SizeAssumption, PCntAssumption
      DEF DestroyPage, Exiting, FInv, IInv, TypeOK, ProcOK, Maps, Pt, Exit, Run
    <3> QED
      BY <1>2, <2>3, <3>1 DEF vm_destroy, DestroyPage, DestroyTable, Exit, Run
  <2>4. CASE \E p \in Pid : vm_switch(p)
    BY <1>2, <2>4 DEF vm_switch
  <2>5. CASE \E parent \in Pid \cup {NoPid}, child \in Pid :
               vm_create(parent, child) /\ ParentSize(parent) = 0
    BY <2>5 DEF vm_create, Kernel
  <2> QED
    BY <1>6, <2>1, <2>2, <2>3, <2>4, <2>5 DEF Unnamed
<1>7. CASE UNCHANGED namevars
  <2>1. UNCHANGED <<vars, named>> /\ SpillsTo(named, call.vp)
    BY <1>7 DEF namevars, NameKnown, vars
  <2>2. Held' = Held
    BY <2>1 DEF Held, Content, Resident, OnDisk, IsSwap, Mine, vars, proc, mapping,
                contents
  <2> QED
    BY <2>1, <2>2 DEF SpillsTo, vars
<1> QED
  BY <1>4, <1>5, <1>6, <1>7 DEF NamesNext

\* vm_map maps the file that is named by what the caller's pages held when it was
\* called, whatever vm_to_string evicts and loads between two of them.
THEOREM NamesRead == NamesSpec => NameRead
<1> DEFINE I == FInv /\ Hidden /\ NameKnown
           Right(v, b) ==
             Reading(v, b) /\ FileAdded /\ MapFile(v, b) =>
               LET name == NameSoFar(v) IN
               /\ name.from <= v /\ v \in DOMAIN name.data
               /\ \A k \in name.from..(v - 1) : name.data[k] \in Spill
               /\ name.data[v] \notin Spill
               /\ infile'[NewEntry].block = <<NameOf[name.data[v]], b>>
<1>1. NamesInit => I
  BY InitAgrees DEF NamesInit, NameKnown, Init, None, Run
<1>2. I /\ [NamesNext]_namevars => I'
  BY NamesAreClean, NextAgrees, NextHides, NextKnown
<1>3. ASSUME I, NEW v \in Vpage, NEW b \in FBlock
      PROVE  Right(v, b)
  <2> SUFFICES ASSUME Reading(v, b), MapFile(v, b)
               PROVE  LET name == NameSoFar(v) IN
                      /\ name.from <= v /\ v \in DOMAIN name.data
                      /\ \A k \in name.from..(v - 1) : name.data[k] \in Spill
                      /\ name.data[v] \notin Spill
                      /\ infile'[NewEntry].block = <<NameOf[name.data[v]], b>>
    OBVIOUS
  <2>1. SpillsTo(NameSoFar(v), v)
    BY <1>3, SoFarKnown
  <2>2. Readable(v) /\ phys[pt[Mine(v)].ppage] \notin Spill
    BY DEF MapFile
  <2>3. /\ v \in DOMAIN NameSoFar(v).data
        /\ NameSoFar(v).data[v] = phys[pt[Mine(v)].ppage]
    BY <1>3, <2>2, PageRead
  <2>4. infile'[NewEntry].block = NamedBy(v, b)
    BY DEF MapFile, Remap, MapNew, Put
  <2> QED
    BY <2>1, <2>2, <2>3, <2>4 DEF SpillsTo, NamedBy
<1>4. I /\ [NamesNext]_namevars => [\A v \in Vpage, b \in FBlock : Right(v, b)]_namevars
  BY <1>3
<1> QED
  BY <1>1, <1>2, <1>4, PTL DEF NamesSpec, NameRead
=============================================================================
