---------------------------- MODULE FrameProofs ----------------------------
(***************************************************************************)
(* The maps of the pager agree with each other and with the permission     *)
(* bits, and the disk with what memory drops, for every number of          *)
(* processes, pages, frames, blocks and files, within the limits of        *)
(* CleanSpec.                                                              *)
(*                                                                         *)
(* Each part of the invariant is stated of given maps and not of the       *)
(* variables, so that it can also be said of what alloc leaves before its  *)
(* caller has put something into the frame.                                *)
(***************************************************************************)
EXTENDS PagerProofs

-----------------------------------------------------------------------------
(* The invariant: g is infile, t the page tables, c core, fm filemap, gh   *)
(* ghost, ps psuff, m, s and fl what memory and disk hold.                 *)

Loaded(g, e)   == e \in DOMAIN g /\ ~g[e].infile
FileOf(g, e, f) == e \in DOMAIN g /\ g[e].ftype # "SWAP" /\ g[e].block = f

\* A frame is in F, or in L, or a ghost, or has entries in core, and one only.
Parted(c, gh, F, L) ==
  /\ F \cap L = {}
  /\ \A p \in Frame :
       /\ p \in F \cup L => p \notin DOMAIN gh /\ c[p] = {}
       /\ p \in DOMAIN gh => c[p] = {}
       /\ p \in F \cup L \cup DOMAIN gh \/ c[p] # {}

Cored(g, t, c) ==
  \A p \in Ppage : \A e : e \in c[p] <=> Loaded(g, e) /\ t[e].ppage = p

Owned(g, t, c) ==
  \A p \in Frame : \A d, e \in c[p] :
    IF g[d].ftype = "SWAP" THEN d = e
    ELSE g[e].ftype # "SWAP" /\ g[d] = g[e] /\ t[d] = t[e]

BlocksListed(g, fm) ==
  /\ \A e \in DOMAIN g : g[e].ftype # "SWAP" => g[e].block \in DOMAIN fm
  /\ \A f \in DOMAIN fm : \A e : e \in fm[f].vpset <=> FileOf(g, e, f)

BlocksMoveAsOne(g, t, fm) ==
  \A f \in DOMAIN fm :
    /\ \A d, e \in fm[f].vpset : g[d].infile <=> g[e].infile
    /\ \A e \in fm[f].vpset : ~g[e].infile => t[e].ppage = fm[f].ppage

GhostsListed(fm, gh) ==
  /\ \A f \in DOMAIN fm : fm[f].vpset = {} =>
       fm[f].ppage \in DOMAIN gh /\ gh[fm[f].ppage] = f
  /\ \A p \in DOMAIN gh : /\ gh[p] \in DOMAIN fm
                          /\ fm[gh[p]].vpset = {}
                          /\ fm[gh[p]].ppage = p

Agree(g, t, c, fm, gh, F, L) ==
  /\ Parted(c, gh, F, L)
  /\ Cored(g, t, c)
  /\ Owned(g, t, c)
  /\ BlocksListed(g, fm)
  /\ BlocksMoveAsOne(g, t, fm)
  /\ GhostsListed(fm, gh)

Seen(g, t, ps) ==
  \A e \in Pte :
    /\ t[e].write_enable => t[e].read_enable
    /\ t[e].read_enable /\ e \in DOMAIN g =>
         ~g[e].infile /\ (t[e].ppage # pinned => ps[t[e].ppage].ref)
    /\ t[e].write_enable /\ e \in DOMAIN g =>
         t[e].ppage # pinned /\ ps[t[e].ppage].dirty

DiskHolds(g, e, s, fl, d) ==
  IF g[e].ftype = "SWAP" THEN s[g[e].block] = d ELSE fl[g[e].block] = d

Saved(g, c, gh, ps, m, s, fl) ==
  \A p \in Frame : ~ps[p].dirty =>
    /\ \A e \in c[p] : DiskHolds(g, e, s, fl, m[p])
    /\ p \in DOMAIN gh => fl[gh[p]] = m[p]

\* A file block that is in memory was read: dirty or not, and not only once a
\* store has made it dirty.
WasRead(g, gh, a) ==
  /\ \A e \in DOMAIN g : g[e].ftype # "SWAP" /\ ~g[e].infile => g[e].block \in a
  /\ \A p \in DOMAIN gh : gh[p] \in a

FInv ==
  /\ IInv
  /\ SwapReserved
  /\ IsInjective(free_ppage)
  /\ Agree(infile, pt, core, filemap, ghost, Free, {})
  /\ Seen(infile, pt, psuff)
  /\ Saved(infile, core, ghost, psuff, phys, swap, file)
  /\ WasRead(infile, ghost, accessed)
  /\ phys[pinned] = Zero

-----------------------------------------------------------------------------
(* alloc.                                                                  *)

\* What alloc leaves in a state where the maps agree, whichever way it found the
\* frame n: n holds nothing, its pages and its ghost are on disk.  P are the
\* frames whose entries it revoked.
Taken(n, g, t, c, fm, gh, ps, s, fl) ==
  /\ n \in Frame
  /\ DOMAIN g = DOMAIN infile
  /\ \A e \in DOMAIN infile :
       /\ g[e].ftype = infile[e].ftype /\ g[e].block = infile[e].block
       /\ g[e].infile <=> infile[e].infile \/ e \in core[n]
       /\ e \notin core[n] => g[e] = infile[e]
  /\ \E P \in SUBSET Frame :
       /\ n \in P
       /\ \A e \in Pte : t[e] = IF \E p \in P : e \in core[p]
                                THEN Revoked(pt[e]) ELSE pt[e]
       /\ \A p \in Frame \ P : ps[p].ref = psuff[p].ref
  /\ ps[n].ref
  /\ \A p \in Frame \ {n} : ps[p].dirty = psuff[p].dirty
  /\ c = [core EXCEPT ![n] = {}]
  /\ gh = Drop(ghost, {n})
  /\ DOMAIN fm = {f \in DOMAIN filemap : ~(n \in DOMAIN ghost /\ ghost[n] = f)}
  /\ \A f \in DOMAIN fm : fm[f] = filemap[f]
  /\ \A b \in Block :
       s[b] = IF \E e \in core[n] : IsSwap(e) /\ infile[e].block = b
              THEN phys[n] ELSE swap[b]
  /\ \A f \in FileBlock :
       fl[f] = IF \/ \E e \in core[n] : ~IsSwap(e) /\ infile[e].block = f
                  \/ n \in DOMAIN ghost /\ ghost[n] = f
               THEN phys[n] ELSE file[f]

\* pm_evict marks exactly the pages that the frame holds.
LEMMA EvicteesHeld ==
  ASSUME FInv, Evicts, Victim(psuff) \notin DOMAIN ghost
  PROVE  /\ First(core[Victim(psuff)]) \in core[Victim(psuff)]
         /\ Evictees(psuff) = core[Victim(psuff)]
<1> DEFINE n == Victim(psuff)
           d == First(core[n])
<1> USE DEF FInv, Agree
<1>1. n \in Frame /\ n \in Ppage
  BY VictimIsFrame DEF IInv, TypeOK, FramesOK, Frame
<1>2. Free = {}
  BY DEF Free, Evicts, Range
<1>3. core[n] # {}
  BY <1>1, <1>2 DEF Parted
<1>4. d \in core[n]
  BY <1>3 DEF First
<1> HIDE DEF d
<1>5. d \in DOMAIN infile /\ ~infile[d].infile /\ pt[d].ppage = n
  BY <1>1, <1>4 DEF Cored, Loaded
<1>6. infile[d] \in Infile
  BY <1>5, RecordType DEF IInv, TypeOK
<1>7. CASE infile[d].ftype = "SWAP"
  <2>1. infile[d].block \in Block
    BY <1>6, <1>7, InfileFields
  <2>2. d \in swfile[infile[d].block] /\ Sole(swfile[infile[d].block])
    BY <1>5, <1>7, <2>1 DEF SwapReserved, IsSwap
  <2>3. swfile[infile[d].block] = {d}
    BY <2>2 DEF Sole
  <2>4. core[n] = {d}
    BY <1>1, <1>4, <1>7 DEF Owned
  <2>5. Evictees(psuff) = swfile[infile[d].block]
    BY <1>7 DEF Evictees, OfGhost, Backing, d
  <2> QED
    BY <1>4, <2>3, <2>4, <2>5 DEF d
<1>8. CASE infile[d].ftype # "SWAP"
  <2> DEFINE f == infile[d].block
  <2>1. f \in DOMAIN filemap
    BY <1>5, <1>8 DEF BlocksListed
  <2>2. Evictees(psuff) = filemap[f].vpset
    BY <1>8 DEF Evictees, OfGhost, Backing, d
  <2>3. d \in filemap[f].vpset
    BY <1>5, <1>8, <2>1 DEF BlocksListed, FileOf
  <2>4. ASSUME NEW e \in core[n]
        PROVE  e \in filemap[f].vpset
    <3>1. infile[e] = infile[d] /\ e \in DOMAIN infile
      BY <1>1, <1>4, <1>8 DEF Owned, Cored, Loaded
    <3> QED
      BY <1>8, <2>1, <3>1 DEF BlocksListed, FileOf
  <2>5. ASSUME NEW e \in filemap[f].vpset
        PROVE  e \in core[n]
    <3>1. e \in DOMAIN infile
      BY <2>1 DEF BlocksListed, FileOf
    <3>2. ~infile[e].infile
      BY <1>5, <2>1, <2>3 DEF BlocksMoveAsOne
    <3>3. pt[e].ppage = filemap[f].ppage /\ pt[d].ppage = filemap[f].ppage
      BY <1>5, <2>1, <2>3, <3>2 DEF BlocksMoveAsOne
    <3> QED
      BY <1>1, <1>5, <3>1, <3>2, <3>3 DEF Cored, Loaded
  <2> QED
    BY <1>4, <2>2, <2>4, <2>5 DEF d
<1> QED
  BY <1>7, <1>8

LEMMA AllocTakes ==
  ASSUME FInv
  PROVE  Taken(Alloc(psuff), AllocInfile(psuff), AllocPt(psuff), AllocCore(psuff),
               AllocFilemap(psuff), AllocGhost(psuff), AllocPsuff(psuff),
               AllocSwap(psuff), AllocFile(psuff))
<1> DEFINE n == Alloc(psuff)
           d == First(core[n])
           b == infile[d]
<1> USE DEF FInv, Agree
<1>0. TypeOK /\ psuff \in [Frame -> Ppb] /\ core \in [Ppage -> SUBSET Pte]
  BY DEF IInv, TypeOK, FramesOK
<1>1. n \in Frame /\ n \in Ppage /\ n # pinned
  BY <1>0, AllocFrames DEF IInv, TypeOK, Frame
<1>2. ~Evicts => n \notin DOMAIN ghost /\ core[n] = {}
  <2>1. ~Evicts => n \in Free
    BY TailWithoutHead DEF Evicts, Alloc, Free, IInv, TypeOK, FramesOK
  <2> QED
    BY <1>1, <2>1 DEF Parted
<1>3. n \in DOMAIN ghost => core[n] = {}
  BY <1>1 DEF Parted
<1>4. Evicts => n = Victim(psuff)
  BY DEF Alloc
<1>5. Evicts /\ n \notin DOMAIN ghost =>
        d \in core[n] /\ Backing(psuff) = b /\ Evictees(psuff) = core[n]
  BY <1>4, EvicteesHeld DEF Backing
<1>6. Evictees(psuff) = core[n]
  BY <1>2, <1>3, <1>4, <1>5 DEF Evictees, OfGhost
<1>7. d \in core[n] => d \in DOMAIN infile /\ b \in Infile
  BY <1>0, <1>1, RecordType DEF Cored, Loaded, TypeOK
<1> HIDE DEF n, d
<1>8. AllocCore(psuff) = [core EXCEPT ![n] = {}]
  <2>1. AllocCore(psuff) = IF Evicts /\ n \notin DOMAIN ghost
                           THEN [core EXCEPT ![n] = {}] ELSE core
    BY <1>4 DEF AllocCore, OfGhost
  <2> QED
    BY <1>0, <1>1, <1>2, <1>3, <2>1
<1>9. AllocGhost(psuff) = Drop(ghost, {n})
  <2>1. CASE Evicts
    BY <1>4, <2>1 DEF AllocGhost
  <2>2. CASE ~Evicts
    <3>1. DOMAIN ghost \ {n} = DOMAIN ghost
      BY <1>2, <2>2
    <3>2. ghost = [p \in DOMAIN ghost |-> ghost[p]]
      BY <1>0 DEF TypeOK, FramesOK, Maps
    <3> QED
      BY <2>2, <3>1, <3>2 DEF AllocGhost, Drop, Restrict
  <2> QED
    BY <2>1, <2>2
<1>10. /\ DOMAIN AllocFilemap(psuff) =
            {f \in DOMAIN filemap : ~(n \in DOMAIN ghost /\ ghost[n] = f)}
       /\ \A f \in DOMAIN AllocFilemap(psuff) : AllocFilemap(psuff)[f] = filemap[f]
  <2>1. AllocFilemap(psuff) = IF n \in DOMAIN ghost
                              THEN Drop(filemap, {ghost[n]}) ELSE filemap
    BY <1>2, <1>4 DEF AllocFilemap, OfGhost
  <2> QED
    BY <2>1 DEF Drop, Restrict
<1>11. /\ DOMAIN AllocInfile(psuff) = DOMAIN infile
       /\ \A e \in DOMAIN infile :
            /\ AllocInfile(psuff)[e].ftype = infile[e].ftype
            /\ AllocInfile(psuff)[e].block = infile[e].block
            /\ AllocInfile(psuff)[e].infile <=> infile[e].infile \/ e \in core[n]
            /\ e \notin core[n] => AllocInfile(psuff)[e] = infile[e]
  <2>1. DOMAIN AllocInfile(psuff) = DOMAIN infile
    BY DEF AllocInfile
  <2>2. ASSUME NEW e \in DOMAIN infile
        PROVE  /\ AllocInfile(psuff)[e].ftype = infile[e].ftype
               /\ AllocInfile(psuff)[e].block = infile[e].block
               /\ AllocInfile(psuff)[e].infile <=> infile[e].infile \/ e \in core[n]
               /\ e \notin core[n] => AllocInfile(psuff)[e] = infile[e]
    <3>1. infile[e] \in Infile
      BY <1>0, RecordType DEF TypeOK
    <3>2. CASE e \in core[n]
      <4>1. AllocInfile(psuff)[e] = [infile[e] EXCEPT !.infile = TRUE]
        BY <1>6, <3>2 DEF AllocInfile
      <4> QED
        BY <3>1, <3>2, <4>1, InfileUpdate
    <3>3. CASE e \notin core[n]
      BY <1>6, <3>3 DEF AllocInfile
    <3> QED
      BY <3>2, <3>3
  <2> QED
    BY <2>1, <2>2
<1>12. \E P \in SUBSET Frame :
         /\ n \in P
         /\ \A e \in Pte : AllocPt(psuff)[e] = IF \E p \in P : e \in core[p]
                                               THEN Revoked(pt[e]) ELSE pt[e]
         /\ \A p \in Frame \ P : AllocPsuff(psuff)[p].ref = psuff[p].ref
  <2> DEFINE P == {n} \cup (IF Evicts THEN Passed(psuff) ELSE {})
  <2>1. P \in SUBSET Frame
    <3>1. \A i \in 1..Len(clock_q) : clock_q[i] \in Frame
      BY <1>0, ElementOfSeq DEF TypeOK, FramesOK
    <3>2. Hand(psuff) \in 1..Len(clock_q)
      BY <1>0, VictimIsFrame DEF IInv, TypeOK
    <3>3. Len(clock_q) \in Nat
      BY <1>0, LenProperties DEF TypeOK, FramesOK
    <3>4. Passed(psuff) \subseteq Frame
      BY <3>1, <3>2, <3>3 DEF Passed
    <3> QED
      BY <1>1, <3>4
  <2>2. ASSUME NEW e \in Pte
        PROVE  AllocPt(psuff)[e] = IF \E p \in P : e \in core[p]
                                   THEN Revoked(pt[e]) ELSE pt[e]
    BY <1>2, <1>6 DEF AllocPt
  <2>3. ASSUME NEW p \in Frame \ P
        PROVE  AllocPsuff(psuff)[p].ref = psuff[p].ref
    <3>1. CASE Evicts
      BY <1>0, <1>4, <2>3, <3>1 DEF AllocPsuff, Ppb
    <3>2. CASE ~Evicts
      BY <1>0, <2>3, <3>2 DEF AllocPsuff, n
    <3> QED
      BY <3>1, <3>2
  <2> HIDE DEF P
  <2>4. n \in P
    BY DEF P
  <2> QED
    BY <2>1, <2>2, <2>3, <2>4
<1>13. AllocPsuff(psuff)[n].ref
  <2>1. CASE Evicts
    BY <1>1, <1>4, <2>1 DEF AllocPsuff
  <2>2. CASE ~Evicts
    BY <1>0, <1>1, <2>2 DEF AllocPsuff, n, Ppb
  <2> QED
    BY <2>1, <2>2
<1>14. \A p \in Frame \ {n} : AllocPsuff(psuff)[p].dirty = psuff[p].dirty
  <2>1. CASE Evicts
    BY <1>0, <1>4, <2>1 DEF AllocPsuff, Ppb
  <2>2. CASE ~Evicts
    BY <1>0, <2>2 DEF AllocPsuff, n
  <2> QED
    BY <2>1, <2>2
<1>15. /\ \A k \in Block :
            AllocSwap(psuff)[k] = IF \E e \in core[n] : IsSwap(e) /\ infile[e].block = k
                                  THEN phys[n] ELSE swap[k]
       /\ \A f \in FileBlock :
            AllocFile(psuff)[f] = IF \/ \E e \in core[n] : ~IsSwap(e) /\ infile[e].block = f
                                     \/ n \in DOMAIN ghost /\ ghost[n] = f
                                  THEN phys[n] ELSE file[f]
  <2>0. /\ swap \in [Block -> Data] /\ file \in [FileBlock -> Data]
        /\ \A e \in core[n] : e \in DOMAIN infile
    BY <1>0, <1>1 DEF TypeOK, ContentsOK, Cored, Loaded
  <2>1. CASE ~Evicts
    BY <1>2, <2>1 DEF AllocSwap, AllocFile, WritesBack
  <2>2. CASE Evicts /\ n \in DOMAIN ghost
    <3>1. core[n] = {} /\ ghost[n] \in FileBlock /\ OfGhost(psuff)
      BY <1>0, <1>3, <1>4, <2>2 DEF TypeOK, FramesOK, Maps, OfGhost
    <3>2. AllocSwap(psuff) = swap
      BY <3>1 DEF AllocSwap
    <3>3. AllocFile(psuff) = IF psuff[n].dirty
                             THEN [file EXCEPT ![ghost[n]] = phys[n]] ELSE file
      BY <1>4, <2>2, <3>1 DEF AllocFile, WritesBack
    <3>4. ~psuff[n].dirty => file[ghost[n]] = phys[n]
      BY <1>1, <2>2 DEF Saved
    <3> QED
      BY <2>0, <2>2, <3>1, <3>2, <3>3, <3>4
  <2>3. CASE Evicts /\ n \notin DOMAIN ghost
    <3>1. /\ d \in core[n] /\ Backing(psuff) = b /\ ~OfGhost(psuff)
          /\ b \in Infile
      BY <1>4, <1>5, <1>7, <2>3 DEF OfGhost
    <3>2. ~psuff[n].dirty => DiskHolds(infile, d, swap, file, phys[n])
      BY <1>1, <3>1 DEF Saved
    <3>3. WritesBack(psuff) <=> psuff[n].dirty
      BY <1>4, <2>3 DEF WritesBack
    <3>4. CASE b.ftype = "SWAP"
      <4>1. core[n] = {d} /\ b.block \in Block
        BY <1>1, <3>1, <3>4, InfileFields DEF Owned
      <4>2. AllocSwap(psuff) = IF psuff[n].dirty
                               THEN [swap EXCEPT ![b.block] = phys[n]] ELSE swap
        BY <1>4, <2>3, <3>1, <3>3, <3>4 DEF AllocSwap
      <4>3. AllocFile(psuff) = file
        BY <3>1, <3>4 DEF AllocFile
      <4> QED
        BY <2>0, <2>3, <3>2, <3>4, <4>1, <4>2, <4>3 DEF IsSwap, DiskHolds
    <3>5. CASE b.ftype # "SWAP"
      <4>1. /\ b.ftype = "FILE_B" /\ b.block \in FileBlock
            /\ \A e \in core[n] : infile[e] = b
        BY <1>1, <3>1, <3>5, InfileFields DEF Owned
      <4>2. AllocSwap(psuff) = swap
        BY <3>1, <3>5 DEF AllocSwap
      <4>3. AllocFile(psuff) = IF psuff[n].dirty
                               THEN [file EXCEPT ![b.block] = phys[n]] ELSE file
        BY <1>4, <2>3, <3>1, <3>3, <4>1 DEF AllocFile
      <4> QED
        BY <2>0, <2>3, <3>1, <3>2, <3>5, <4>1, <4>2, <4>3 DEF IsSwap, DiskHolds
    <3> QED
      BY <3>4, <3>5
  <2> QED
    BY <2>1, <2>2, <2>3
<1> QED
  BY <1>1, <1>8, <1>9, <1>10, <1>11, <1>12, <1>13, <1>14, <1>15, Zenon DEF Taken, n

LEMMA AllocFrees ==
  ASSUME FInv
  PROVE  /\ IsInjective(AllocFree(psuff))
         /\ Range(AllocFree(psuff)) = Free \ {Alloc(psuff)}
<1>1. free_ppage \in Seq(Frame) /\ IsInjective(free_ppage)
  BY DEF FInv, IInv, TypeOK, FramesOK
<1>2. CASE Evicts
  <2>1. Free = {} /\ AllocFree(psuff) = free_ppage
    BY <1>2 DEF Free, Evicts, Range, AllocFree
  <2> QED
    BY <1>1, <2>1 DEF Free
<1>3. CASE ~Evicts
  <2>1. AllocFree(psuff) = Tail(free_ppage) /\ Alloc(psuff) = Head(free_ppage)
    BY <1>3 DEF AllocFree, Alloc
  <2> QED
    BY <1>1, <1>3, <2>1, TailWithoutHead DEF Evicts, Free
<1> QED
  BY <1>2, <1>3

-----------------------------------------------------------------------------
(* Facts about a state in which the maps agree.                            *)

LEMMA FInvTypes ==
  ASSUME FInv
  PROVE  /\ infile \in [DOMAIN infile -> Infile] /\ DOMAIN infile \subseteq Pte
         /\ pt \in [Pte -> Entry]
         /\ core \in [Ppage -> SUBSET Pte]
         /\ DOMAIN filemap \subseteq FileBlock
         /\ filemap \in [DOMAIN filemap -> Fbp]
         /\ DOMAIN ghost \subseteq Frame /\ ghost \in [DOMAIN ghost -> FileBlock]
         /\ psuff \in [Frame -> Ppb]
         /\ phys \in [Ppage -> Data] /\ swap \in [Block -> Data]
         /\ file \in [FileBlock -> Data]
         /\ \A e \in DOMAIN infile : infile[e].ftype \in {"SWAP", "FILE_B"}
         /\ Frame \subseteq Ppage /\ pinned \in Ppage /\ pinned \notin Frame
<1>1. TypeOK
  BY DEF FInv, IInv
<1>2. \A e \in DOMAIN infile : infile[e].ftype \in {"SWAP", "FILE_B"}
  BY <1>1, RecordType, InfileFields DEF TypeOK
<1>3. pinned \in Ppage
  BY PCntAssumption DEF pinned, Ppage
<1> QED
  BY <1>1, <1>2, <1>3 DEF TypeOK, MappingOK, FramesOK, ContentsOK, Maps, Frame

LEMMA EntryRevoked ==
  ASSUME NEW x \in Entry
  PROVE  /\ Revoked(x).ppage = x.ppage
         /\ Revoked(x).read_enable = FALSE /\ Revoked(x).write_enable = FALSE
BY DEF Entry, Revoked

\* Two pages with one block in memory are in one frame; a swap block has one page.
LEMMA SameBlockTogether ==
  ASSUME FInv, NEW d \in DOMAIN infile, NEW e \in DOMAIN infile,
         IsSwap(d) <=> IsSwap(e), infile[d].block = infile[e].block
  PROVE  /\ IsSwap(d) => d = e
         /\ infile[d].infile <=> infile[e].infile
         /\ ~infile[d].infile => pt[d].ppage = pt[e].ppage
<1> USE DEF FInv, Agree, IsSwap
<1>1. CASE IsSwap(d)
  <2> DEFINE b == infile[d].block
  <2>1. b \in Block
    BY <1>1, RecordType, InfileFields DEF IInv, TypeOK
  <2>2. d \in swfile[b] /\ e \in swfile[b] /\ Sole(swfile[b])
    BY <1>1, <2>1 DEF SwapReserved
  <2>3. d = e
    BY <2>2 DEF Sole
  <2> QED
    BY <2>3
<1>2. CASE ~IsSwap(d)
  <2> DEFINE f == infile[d].block
  <2>1. f \in DOMAIN filemap /\ d \in filemap[f].vpset /\ e \in filemap[f].vpset
    BY <1>2 DEF BlocksListed, FileOf
  <2> QED
    BY <1>2, <2>1 DEF BlocksMoveAsOne
<1> QED
  BY <1>1, <1>2

LEMMA TakenAgrees ==
  ASSUME FInv, NEW n, NEW g, NEW t, NEW c, NEW fm, NEW gh, NEW ps, NEW s, NEW fl,
         Taken(n, g, t, c, fm, gh, ps, s, fl)
  PROVE  /\ Agree(g, t, c, fm, gh, Free \ {n}, {n})
         /\ Seen(g, t, ps)
         /\ Saved(g, c, gh, ps, phys, s, fl)
         /\ WasRead(g, gh, accessed)
<1>0. /\ infile \in [DOMAIN infile -> Infile] /\ DOMAIN infile \subseteq Pte
      /\ pt \in [Pte -> Entry]
      /\ core \in [Ppage -> SUBSET Pte]
      /\ Frame \subseteq Ppage /\ pinned \notin Frame
      /\ DOMAIN ghost \subseteq Frame
  BY FInvTypes
<1>1. /\ Agree(infile, pt, core, filemap, ghost, Free, {})
      /\ Seen(infile, pt, psuff)
      /\ Saved(infile, core, ghost, psuff, phys, swap, file)
      /\ WasRead(infile, ghost, accessed)
  BY DEF FInv
<1>2. n \in Frame
  BY DEF Taken
<1>3. /\ DOMAIN gh = DOMAIN ghost \ {n}
      /\ \A p \in DOMAIN gh : gh[p] = ghost[p]
      /\ c[n] = {}
      /\ \A p \in Ppage \ {n} : c[p] = core[p]
  BY <1>0, <1>2 DEF Taken, Drop, Restrict
<1>4. PICK P \in SUBSET Frame :
        /\ n \in P
        /\ \A e \in Pte : t[e] = IF \E p \in P : e \in core[p]
                                 THEN Revoked(pt[e]) ELSE pt[e]
        /\ \A p \in Frame \ P : ps[p].ref = psuff[p].ref
  BY DEF Taken
<1>5. /\ \A p \in Frame \ {n} : ps[p].dirty = psuff[p].dirty
      /\ ps[n].ref
  BY DEF Taken
<1>6. /\ DOMAIN g = DOMAIN infile
      /\ \A e \in DOMAIN infile :
           /\ g[e].ftype = infile[e].ftype /\ g[e].block = infile[e].block
           /\ g[e].infile <=> infile[e].infile \/ e \in core[n]
           /\ e \notin core[n] => g[e] = infile[e]
  BY DEF Taken
<1>7. /\ DOMAIN fm = {f \in DOMAIN filemap : ~(n \in DOMAIN ghost /\ ghost[n] = f)}
      /\ \A f \in DOMAIN fm : fm[f] = filemap[f]
  BY DEF Taken
<1>8. /\ \A b \in Block :
           s[b] = IF \E e \in core[n] : IsSwap(e) /\ infile[e].block = b
                  THEN phys[n] ELSE swap[b]
      /\ \A f \in FileBlock :
           fl[f] = IF \/ \E e \in core[n] : ~IsSwap(e) /\ infile[e].block = f
                      \/ n \in DOMAIN ghost /\ ghost[n] = f
                   THEN phys[n] ELSE file[f]
  BY DEF Taken
<1>9. \A p \in Ppage : \A e : e \in core[p] <=> Loaded(infile, e) /\ pt[e].ppage = p
  BY <1>1 DEF Agree, Cored
<1>10. \A e \in Pte :
         /\ t[e].ppage = pt[e].ppage
         /\ t[e].read_enable <=> pt[e].read_enable /\ ~\E p \in P : e \in core[p]
         /\ t[e].write_enable <=> pt[e].write_enable /\ ~\E p \in P : e \in core[p]
  <2> TAKE e \in Pte
  <2>1. pt[e] \in Entry
    BY <1>0
  <2>2. CASE \E p \in P : e \in core[p]
    BY <1>4, <2>1, <2>2, EntryRevoked
  <2>3. CASE ~\E p \in P : e \in core[p]
    BY <1>4, <2>1, <2>3
  <2> QED
    BY <2>2, <2>3
<1>11. Parted(c, gh, Free \ {n}, {n})
  BY <1>0, <1>1, <1>2, <1>3 DEF Agree, Parted
<1>12. Cored(g, t, c)
  <2> SUFFICES ASSUME NEW p \in Ppage, NEW e
               PROVE  e \in c[p] <=> Loaded(g, e) /\ t[e].ppage = p
    BY DEF Cored
  <2>1. CASE p = n
    BY <1>0, <1>2, <1>3, <1>6, <1>9, <1>10, <2>1 DEF Loaded
  <2>2. CASE p # n
    BY <1>0, <1>2, <1>3, <1>6, <1>9, <1>10, <2>2 DEF Loaded
  <2> QED
    BY <2>1, <2>2
<1>13. Owned(g, t, c)
  <2> SUFFICES ASSUME NEW p \in Frame, NEW d \in c[p], NEW e \in c[p]
               PROVE  IF g[d].ftype = "SWAP" THEN d = e
                      ELSE g[e].ftype # "SWAP" /\ g[d] = g[e] /\ t[d] = t[e]
    BY DEF Owned
  <2>1. p # n /\ d \in core[p] /\ e \in core[p]
    BY <1>0, <1>3
  <2>2. d \in DOMAIN infile /\ e \in DOMAIN infile /\ d \notin core[n] /\ e \notin core[n]
    BY <1>0, <1>2, <1>9, <2>1 DEF Loaded
  <2>3. g[d] = infile[d] /\ g[e] = infile[e]
    BY <1>6, <2>2
  <2>4. /\ (\E q \in P : d \in core[q]) <=> p \in P
        /\ (\E q \in P : e \in core[q]) <=> p \in P
    BY <1>0, <1>9, <2>1
  <2>5. pt[d] = pt[e] => t[d] = t[e]
    BY <1>0, <1>4, <2>2, <2>4
  <2> QED
    BY <1>1, <2>1, <2>3, <2>5 DEF Agree, Owned
<1>14. BlocksListed(g, fm)
  <2>1. ASSUME NEW e \in DOMAIN g, g[e].ftype # "SWAP"
        PROVE  g[e].block \in DOMAIN fm
    <3>1. /\ g[e].block \in DOMAIN filemap /\ e \in filemap[g[e].block].vpset
      BY <1>1, <1>6, <2>1 DEF Agree, BlocksListed, FileOf
    <3>2. ~(n \in DOMAIN ghost /\ ghost[n] = g[e].block)
      BY <1>1, <3>1 DEF Agree, GhostsListed
    <3> QED
      BY <1>7, <3>1, <3>2
  <2>2. \A e, f : FileOf(g, e, f) <=> FileOf(infile, e, f)
    BY <1>6 DEF FileOf
  <2> QED
    BY <1>1, <1>7, <2>1, <2>2 DEF Agree, BlocksListed
<1>15. BlocksMoveAsOne(g, t, fm)
  <2> SUFFICES ASSUME NEW f \in DOMAIN fm
               PROVE  /\ \A d, e \in fm[f].vpset : g[d].infile <=> g[e].infile
                      /\ \A e \in fm[f].vpset : ~g[e].infile => t[e].ppage = fm[f].ppage
    BY DEF BlocksMoveAsOne
  <2>1. f \in DOMAIN filemap /\ fm[f] = filemap[f]
    BY <1>7
  <2>2. \A e \in filemap[f].vpset : e \in DOMAIN infile /\ infile[e] \in Infile
    BY <1>0, <1>1, <2>1 DEF Agree, BlocksListed, FileOf
  <2>3. ASSUME NEW d \in filemap[f].vpset, NEW e \in filemap[f].vpset
        PROVE  (infile[d].infile <=> infile[e].infile) /\ (d \in core[n] => e \in core[n])
    <3>1. infile[d].infile <=> infile[e].infile
      BY <1>1, <2>1, <2>3 DEF Agree, BlocksMoveAsOne
    <3>2. ~infile[d].infile => pt[d].ppage = pt[e].ppage
      BY <1>1, <2>1, <2>3, <3>1 DEF Agree, BlocksMoveAsOne
    <3> QED
      BY <1>0, <1>2, <1>9, <2>2, <3>1, <3>2 DEF Loaded
  <2>4. ASSUME NEW d \in filemap[f].vpset, NEW e \in filemap[f].vpset
        PROVE  g[d].infile <=> g[e].infile
    BY <1>6, <2>2, <2>3
  <2>5. ASSUME NEW e \in filemap[f].vpset, ~g[e].infile
        PROVE  t[e].ppage = filemap[f].ppage
    BY <1>0, <1>1, <1>6, <1>10, <2>1, <2>2, <2>5 DEF Agree, BlocksMoveAsOne
  <2> QED
    BY <2>1, <2>4, <2>5
<1>16. GhostsListed(fm, gh)
  BY <1>1, <1>3, <1>7 DEF Agree, GhostsListed
<1>17. Seen(g, t, ps)
  <2> SUFFICES ASSUME NEW e \in Pte
               PROVE  /\ t[e].write_enable => t[e].read_enable
                      /\ t[e].read_enable /\ e \in DOMAIN g =>
                           ~g[e].infile /\ (t[e].ppage # pinned => ps[t[e].ppage].ref)
                      /\ t[e].write_enable /\ e \in DOMAIN g =>
                           t[e].ppage # pinned /\ ps[t[e].ppage].dirty
    BY DEF Seen
  <2>1. t[e].write_enable => t[e].read_enable
    BY <1>1, <1>10 DEF Seen
  <2>2. ASSUME t[e].read_enable, e \in DOMAIN g
        PROVE  /\ ~g[e].infile
               /\ t[e].ppage = pt[e].ppage
               /\ t[e].ppage # pinned =>
                    /\ t[e].ppage \in Frame \ {n}
                    /\ ps[t[e].ppage].ref
    <3>1. /\ pt[e].read_enable /\ t[e].ppage = pt[e].ppage
          /\ ~infile[e].infile /\ \A p \in P : e \notin core[p]
      BY <1>1, <1>6, <1>10, <2>2 DEF Seen
    <3>2. ~g[e].infile
      BY <1>4, <1>6, <2>2, <3>1
    <3>3. ASSUME pt[e].ppage # pinned
          PROVE  pt[e].ppage \in Frame \ P /\ ps[pt[e].ppage].ref
      <4>1. pt[e].ppage \in Frame
        BY <1>0, <3>3 DEF Entry, Frame
      <4>2. e \in core[pt[e].ppage]
        BY <1>0, <1>6, <1>9, <2>2, <3>1, <4>1 DEF Loaded
      <4>3. pt[e].ppage \in Frame \ P
        BY <3>1, <4>1, <4>2
      <4>4. psuff[pt[e].ppage].ref
        BY <1>1, <1>6, <2>2, <3>1, <3>3 DEF Seen
      <4> QED
        BY <1>4, <4>3, <4>4
    <3> QED
      BY <1>4, <3>1, <3>2, <3>3
  <2>3. ASSUME t[e].write_enable, e \in DOMAIN g
        PROVE  t[e].ppage # pinned /\ ps[t[e].ppage].dirty
    <3>1. pt[e].write_enable /\ t[e].ppage = pt[e].ppage
      BY <1>10, <2>3
    <3>2. pt[e].ppage # pinned /\ psuff[pt[e].ppage].dirty
      BY <1>1, <1>6, <2>3, <3>1 DEF Seen
    <3> QED
      BY <1>5, <2>1, <2>2, <2>3, <3>1, <3>2
  <2> QED
    BY <2>1, <2>2, <2>3
<1>18. Saved(g, c, gh, ps, phys, s, fl)
  <2> SUFFICES ASSUME NEW p \in Frame, ~ps[p].dirty
               PROVE  /\ \A e \in c[p] : DiskHolds(g, e, s, fl, phys[p])
                      /\ p \in DOMAIN gh => fl[gh[p]] = phys[p]
    BY DEF Saved
  <2>1. ASSUME NEW e \in c[p]
        PROVE  DiskHolds(g, e, s, fl, phys[p])
    <3>1. p # n /\ e \in core[p] /\ ~psuff[p].dirty
      BY <1>0, <1>3, <1>5
    <3>2. DiskHolds(infile, e, swap, file, phys[p])
      BY <1>1, <3>1 DEF Saved
    <3>3. e \in DOMAIN infile /\ infile[e] \in Infile /\ ~infile[e].infile /\ pt[e].ppage = p
      BY <1>0, <1>9, <3>1 DEF Loaded
    <3>4. ASSUME NEW d \in core[n], IsSwap(d) <=> IsSwap(e)
          PROVE  infile[d].block # infile[e].block
      <4>1. d \in DOMAIN infile /\ ~infile[d].infile /\ pt[d].ppage = n
        BY <1>0, <1>2, <1>9 DEF Loaded
      <4> QED
        BY <3>1, <3>3, <3>4, <4>1, SameBlockTogether
    <3>5. CASE IsSwap(e)
      <4>1. s[infile[e].block] = swap[infile[e].block]
        BY <1>8, <3>3, <3>4, <3>5, InfileFields DEF IsSwap
      <4> QED
        BY <1>6, <3>2, <3>3, <3>5, <4>1 DEF DiskHolds, IsSwap
    <3>6. CASE ~IsSwap(e)
      <4>1. infile[e].block \in FileBlock
        BY <3>3, <3>6, InfileFields DEF IsSwap
      <4>2. ~(n \in DOMAIN ghost /\ ghost[n] = infile[e].block)
        BY <1>1, <3>3, <3>6 DEF Agree, BlocksListed, FileOf, GhostsListed, IsSwap
      <4>3. fl[infile[e].block] = file[infile[e].block]
        BY <1>8, <3>4, <3>6, <4>1, <4>2
      <4> QED
        BY <1>6, <3>2, <3>3, <3>6, <4>3 DEF DiskHolds, IsSwap
    <3> QED
      BY <3>5, <3>6
  <2>2. ASSUME p \in DOMAIN gh
        PROVE  fl[gh[p]] = phys[p]
    <3>1. p # n /\ p \in DOMAIN ghost /\ gh[p] = ghost[p] /\ ~psuff[p].dirty
      BY <1>3, <1>5, <2>2
    <3>2. file[ghost[p]] = phys[p] /\ ghost[p] \in FileBlock
      BY <1>1, <3>1, FInvTypes DEF Saved
    <3>3. ~(n \in DOMAIN ghost /\ ghost[n] = ghost[p])
      BY <1>1, <3>1 DEF Agree, GhostsListed
    <3>4. ASSUME NEW e \in core[n], ~IsSwap(e)
          PROVE  infile[e].block # ghost[p]
      BY <1>0, <1>1, <1>2, <1>9, <3>1, <3>4
      DEF Agree, GhostsListed, BlocksListed, FileOf, Loaded, IsSwap
    <3> QED
      BY <1>8, <3>1, <3>2, <3>3, <3>4
  <2> QED
    BY <2>1, <2>2
<1>19. WasRead(g, gh, accessed)
  BY <1>1, <1>3, <1>6 DEF WasRead
<1> QED
  BY <1>11, <1>12, <1>13, <1>14, <1>15, <1>16, <1>17, <1>18, <1>19 DEF Agree

-----------------------------------------------------------------------------
(* vm_fault.                                                               *)

LEMMA InfileEqual ==
  ASSUME NEW x \in Infile, NEW y \in Infile,
         x.ftype = y.ftype, x.block = y.block, x.infile <=> y.infile
  PROVE  x = y
BY DEF Infile, SwapRec, FileRec

LEMMA EntryEqual ==
  ASSUME NEW x \in Entry, NEW y \in Entry,
         x.ppage = y.ppage, x.read_enable <=> y.read_enable,
         x.write_enable <=> y.write_enable
  PROVE  x = y
BY DEF Entry

LEMMA AllocTypes ==
  ASSUME FInv, EvictAsserts(psuff)
  PROVE  /\ AllocInfile(psuff) \in [DOMAIN infile -> Infile]
         /\ AllocPt(psuff) \in [Pte -> Entry]
         /\ AllocCore(psuff) \in [Ppage -> SUBSET Pte]
         /\ AllocPsuff(psuff) \in [Frame -> Ppb]
         /\ AllocFilemap(psuff) \in [DOMAIN AllocFilemap(psuff) -> Fbp]
         /\ AllocFree(psuff) \in Seq(Frame)
<1>1. TypeOK /\ ClockComplete /\ psuff \in [Frame -> Ppb]
  BY DEF FInv, IInv, TypeOK, FramesOK
<1>2. AllocInfile(psuff) = [e \in DOMAIN infile |-> AllocInfile(psuff)[e]]
  BY DEF AllocInfile
<1>3. SameRecords(AllocInfile(psuff))
  BY <1>1, AllocMapping
<1>4. AllocInfile(psuff) \in [DOMAIN infile -> Infile]
  BY <1>2, <1>3 DEF SameRecords
<1> QED
  BY <1>1, <1>4, AllocMapping, AllocFrames DEF TypeOK, Maps

\* Only the zero page is copied: no other frame has more than one swap page.
LEMMA CowOfZero ==
  ASSUME FInv, NEW e \in DOMAIN infile, Resident(e), IsCow(e)
  PROVE  pt[e].ppage = pinned /\ IsSwap(e)
<1>1. pt[e].ppage \in Ppage
  BY FInvTypes DEF Entry
<1>2. ASSUME pt[e].ppage # pinned
      PROVE  FALSE
  <2> DEFINE p == pt[e].ppage
  <2>1. p \in Frame /\ Shared(core[p]) /\ infile[e].ftype = "SWAP"
    BY <1>1, <1>2 DEF IsCow, Frame
  <2>2. e \in core[p]
    BY <1>1 DEF FInv, Agree, Cored, Loaded, Resident
  <2>3. \A d \in core[p] : d = e
    BY <2>1, <2>2 DEF FInv, Agree, Owned
  <2> QED
    BY <2>1, <2>3 DEF Shared
<1>3. pt[e].ppage = pinned
  BY <1>2
<1> QED
  BY <1>3 DEF FInv, IInv, FileFrames, Resident

LEMMA CowAgrees ==
  ASSUME FInv, IInv', SwapReserved', NEW e, Recorded(e), NEW ok, FaultCow(e, ok)
  PROVE  FInv'
<1> DEFINE n  == Alloc(psuff)
           g  == AllocInfile(psuff)
           t  == AllocPt(psuff)
           c  == AllocCore(psuff)
           fm == AllocFilemap(psuff)
           gh == AllocGhost(psuff)
           ps == AllocPsuff(psuff)
           s  == AllocSwap(psuff)
           fl == AllocFile(psuff)
<1>1. e \in DOMAIN infile /\ Resident(e) /\ IsCow(e)
  BY DEF FaultCow, Recorded, Resident
<1>2. pt[e].ppage = pinned /\ IsSwap(e)
  BY <1>1, CowOfZero
<1>3. /\ EvictAsserts(psuff)
      /\ phys' = [phys EXCEPT ![n] = phys[pinned]]
      /\ core' = [c EXCEPT ![pinned] = @ \ {e}, ![n] = @ \cup {e}]
      /\ pt' = [t EXCEPT ![e] = [ppage |-> n, read_enable |-> TRUE,
                                 write_enable |-> TRUE]]
      /\ psuff' = [ps EXCEPT ![n].dirty = TRUE]
      /\ free_ppage' = AllocFree(psuff)
      /\ infile' = g /\ ghost' = gh /\ filemap' = fm
      /\ swap' = s /\ file' = fl /\ accessed' = accessed
  BY <1>2 DEF FaultCow
<1>4. Taken(n, g, t, c, fm, gh, ps, s, fl)
  BY AllocTakes
<1>5. IsInjective(free_ppage') /\ Free' = Free \ {n}
  BY <1>3, AllocFrees DEF Free
<1>6. /\ g \in [DOMAIN infile -> Infile] /\ t \in [Pte -> Entry]
      /\ c \in [Ppage -> SUBSET Pte] /\ ps \in [Frame -> Ppb]
  BY <1>3, AllocTypes
<1> HIDE DEF n, g, t, c, fm, gh, ps, s, fl
<1>7. /\ Agree(g, t, c, fm, gh, Free \ {n}, {n})
      /\ Seen(g, t, ps)
      /\ Saved(g, c, gh, ps, phys, s, fl)
      /\ WasRead(g, gh, accessed)
  BY <1>4, TakenAgrees
<1>8. /\ n \in Frame /\ n \in Ppage /\ pinned \in Ppage /\ n # pinned /\ e \in Pte
      /\ Frame \subseteq Ppage /\ pinned \notin Frame /\ DOMAIN infile \subseteq Pte
      /\ phys \in [Ppage -> Data]
  BY <1>1, <1>4, FInvTypes DEF Taken
<1>9. e \in core[pinned] /\ e \notin core[n]
  BY <1>1, <1>2, <1>8 DEF FInv, Agree, Cored, Loaded, Resident
<1>10. g[e] = infile[e] /\ ps[n].ref /\ c[n] = {}
  BY <1>1, <1>4, <1>8, <1>9, FInvTypes DEF Taken
<1>10a. t[e].ppage = pinned
  <2>1. t[e] = pt[e] \/ t[e] = Revoked(pt[e])
    BY <1>4, <1>8 DEF Taken
  <2>2. pt[e] \in Entry
    BY <1>8, FInvTypes
  <2> QED
    BY <1>2, <2>1, <2>2, EntryRevoked
<1>11. /\ core'[n] = {e} /\ core'[pinned] = c[pinned] \ {e}
       /\ \A p \in Ppage \ {n, pinned} : core'[p] = c[p]
  BY <1>3, <1>6, <1>8, <1>10
<1>12. /\ pt'[e].ppage = n /\ pt'[e].read_enable /\ pt'[e].write_enable
       /\ \A d \in Pte \ {e} : pt'[d] = t[d]
  BY <1>3, <1>6, <1>8
<1>13. /\ psuff'[n].ref /\ psuff'[n].dirty
       /\ \A p \in Frame \ {n} : psuff'[p] = ps[p]
  BY <1>3, <1>6, <1>8, <1>10 DEF Ppb
<1>14. phys'[pinned] = phys[pinned] /\ \A p \in Frame \ {n} : phys'[p] = phys[p]
  BY <1>3, <1>8
<1>15. ~g[e].infile /\ g[e].ftype = "SWAP" /\ e \in DOMAIN g
  BY <1>1, <1>2, <1>6, <1>10 DEF Resident, IsSwap
<1>16. Parted(core', ghost', Free', {})
  BY <1>3, <1>5, <1>7, <1>8, <1>11 DEF Agree, Parted
<1>17. Cored(infile', pt', core')
  <2> SUFFICES ASSUME NEW p \in Ppage, NEW d
               PROVE  d \in core'[p] <=> Loaded(g, d) /\ pt'[d].ppage = p
    BY <1>3 DEF Cored
  <2>1. d \in c[p] <=> Loaded(g, d) /\ t[d].ppage = p
    BY <1>7 DEF Agree, Cored
  <2>2. CASE d = e
    BY <1>8, <1>10a, <1>11, <1>12, <1>15, <2>1, <2>2 DEF Loaded
  <2>3. CASE d # e
    <3>1. Loaded(g, d) => pt'[d] = t[d]
      BY <1>6, <1>8, <1>12, <2>3 DEF Loaded
    <3> QED
      BY <1>8, <1>10, <1>11, <2>1, <2>3, <3>1
  <2> QED
    BY <2>2, <2>3
<1>18. Owned(infile', pt', core')
  <2> SUFFICES ASSUME NEW p \in Frame, NEW a \in core'[p], NEW d \in core'[p]
               PROVE  IF g[a].ftype = "SWAP" THEN a = d
                      ELSE g[d].ftype # "SWAP" /\ g[a] = g[d] /\ pt'[a] = pt'[d]
    <3>1. infile' = g
      BY <1>3
    <3> QED
      BY <3>1 DEF Owned
  <2>1. CASE p = n
    BY <1>11, <1>15, <2>1
  <2>2. CASE p # n
    <3>1. core'[p] = c[p]
      BY <1>8, <1>11, <2>2, FInvTypes
    <3>2. a # e /\ d # e /\ a \in Pte /\ d \in Pte
      <4>1. e \notin c[p]
        BY <1>7, <1>8, <1>10a DEF Agree, Cored
      <4> QED
        BY <1>6, <1>8, <3>1, <4>1
    <3> QED
      BY <1>7, <1>12, <3>1, <3>2 DEF Agree, Owned
  <2> QED
    BY <2>1, <2>2
<1>19. BlocksListed(infile', filemap')
  BY <1>3, <1>7 DEF Agree
<1>20. BlocksMoveAsOne(infile', pt', filemap')
  <2>1. \A f \in DOMAIN fm : \A d \in fm[f].vpset : d # e /\ d \in Pte
    BY <1>6, <1>7, <1>8, <1>15 DEF Agree, BlocksListed, FileOf
  <2> QED
    BY <1>3, <1>7, <1>12, <2>1 DEF Agree, BlocksMoveAsOne
<1>21. GhostsListed(filemap', ghost')
  BY <1>3, <1>7 DEF Agree
<1>22. Seen(infile', pt', psuff')
  <2> SUFFICES ASSUME NEW d \in Pte
               PROVE  /\ pt'[d].write_enable => pt'[d].read_enable
                      /\ pt'[d].read_enable /\ d \in DOMAIN g =>
                           ~g[d].infile /\ (pt'[d].ppage # pinned => psuff'[pt'[d].ppage].ref)
                      /\ pt'[d].write_enable /\ d \in DOMAIN g =>
                           pt'[d].ppage # pinned /\ psuff'[pt'[d].ppage].dirty
    BY <1>3 DEF Seen
  <2>1. CASE d = e
    BY <1>8, <1>12, <1>13, <1>15, <2>1
  <2>2. CASE d # e
    <3>1. pt'[d] = t[d] /\ t[d].ppage \in Ppage
      BY <1>6, <1>12, <2>2 DEF Entry
    <3>2. \A p \in Frame : /\ ps[p].ref => psuff'[p].ref
                           /\ ps[p].dirty => psuff'[p].dirty
      BY <1>13
    <3> QED
      BY <1>7, <3>1, <3>2 DEF Seen, Frame
  <2> QED
    BY <2>1, <2>2
<1>23. Saved(infile', core', ghost', psuff', phys', swap', file')
  <2> SUFFICES ASSUME NEW p \in Frame, ~psuff'[p].dirty
               PROVE  /\ \A d \in core'[p] : DiskHolds(g, d, s, fl, phys'[p])
                      /\ p \in DOMAIN gh => fl[gh[p]] = phys'[p]
    BY <1>3 DEF Saved
  <2>1. p # n /\ p # pinned
    BY <1>13, FInvTypes
  <2>2. core'[p] = c[p] /\ phys'[p] = phys[p] /\ psuff'[p] = ps[p]
    BY <1>8, <1>11, <1>13, <1>14, <2>1
  <2> QED
    BY <1>7, <2>2 DEF Saved
<1>24. WasRead(infile', ghost', accessed')
  BY <1>3, <1>7
<1> QED
  BY <1>5, <1>14, <1>16, <1>17, <1>18, <1>19, <1>20, <1>21, <1>22, <1>23, <1>24
  DEF FInv, Agree

\* The pages that vm_fault lifts are those of the block it reads.
LEMMA LiftedTogether ==
  ASSUME FInv, NEW e, Recorded(e)
  PROVE  /\ e \in Lifted(e)
         /\ \A l : l \in Lifted(e) <=>
              /\ l \in DOMAIN infile
              /\ IsSwap(l) <=> IsSwap(e)
              /\ infile[l].block = infile[e].block
         /\ IsSwap(e) => Lifted(e) = {e}
         /\ infile[e].infile => \A l \in Lifted(e) : infile[l].infile
<1> USE DEF FInv, Agree, IsSwap
<1>1. e \in DOMAIN infile /\ infile[e] \in Infile
  BY RecordType DEF Recorded, IInv, TypeOK
<1>2. ASSUME NEW l
      PROVE  l \in Lifted(e) <=> /\ l \in DOMAIN infile
                                 /\ IsSwap(l) <=> IsSwap(e)
                                 /\ infile[l].block = infile[e].block
  <2>1. CASE IsSwap(e)
    <3>1. infile[e].block \in Block /\ Lifted(e) = swfile[infile[e].block]
      BY <1>1, <2>1, InfileFields DEF Lifted
    <3> QED
      BY <2>1, <3>1 DEF SwapReserved
  <2>2. CASE ~IsSwap(e)
    <3>1. /\ infile[e].block \in DOMAIN filemap
          /\ Lifted(e) = filemap[infile[e].block].vpset
      BY <1>1, <2>2, InfileFields DEF Lifted, BlocksListed
    <3> QED
      BY <2>2, <3>1 DEF BlocksListed, FileOf
  <2> QED
    BY <2>1, <2>2
<1>3. \A l \in Lifted(e) : (infile[l].infile <=> infile[e].infile) /\ (IsSwap(e) => l = e)
  BY <1>1, <1>2, SameBlockTogether
<1> QED
  BY <1>1, <1>2, <1>3

LEMMA LoadAgrees ==
  ASSUME FInv, IInv', SwapReserved', NEW e, Recorded(e), NEW w \in BOOLEAN,
         NEW ok, FaultLoad(e, w, ok)
  PROVE  /\ FInv'
         /\ pt'[e].read_enable /\ (w => pt'[e].write_enable)
<1> DEFINE n  == Alloc(psuff)
           g  == AllocInfile(psuff)
           t  == AllocPt(psuff)
           c  == AllocCore(psuff)
           fm == AllocFilemap(psuff)
           gh == AllocGhost(psuff)
           ps == AllocPsuff(psuff)
           s  == AllocSwap(psuff)
           fl == AllocFile(psuff)
           k  == infile[e].block
           up == Lifted(e)
           wr == w \/ ps[n].dirty
<1>1. e \in DOMAIN infile /\ infile[e].infile /\ EvictAsserts(psuff)
  BY DEF FaultLoad, Recorded
<1>2. /\ g \in [DOMAIN infile -> Infile] /\ t \in [Pte -> Entry]
      /\ c \in [Ppage -> SUBSET Pte] /\ ps \in [Frame -> Ppb]
      /\ fm \in [DOMAIN fm -> Fbp]
  BY <1>1, AllocTypes
<1>3. Taken(n, g, t, c, fm, gh, ps, s, fl)
  BY AllocTakes
<1>4. /\ n \in Frame /\ n \in Ppage /\ n # pinned /\ pinned \notin Frame
      /\ e \in Pte /\ pinned \in Ppage
      /\ Frame \subseteq Ppage /\ DOMAIN infile \subseteq Pte
      /\ phys \in [Ppage -> Data] /\ core \in [Ppage -> SUBSET Pte]
  BY <1>1, <1>3, FInvTypes DEF Taken
<1>5. c[n] = {} /\ ps[n].ref
  BY <1>3, <1>4 DEF Taken
<1>6. IF IsSwap(e) THEN infile[e].ftype # "FILE_B" ELSE infile[e].ftype = "FILE_B"
  BY <1>1, FInvTypes DEF IsSwap
<1>7. /\ e \in up
      /\ \A l : l \in up <=> /\ l \in DOMAIN infile
                             /\ IsSwap(l) <=> IsSwap(e)
                             /\ infile[l].block = k
      /\ IsSwap(e) => up = {e}
      /\ \A l \in up : infile[l].infile
  BY <1>1, LiftedTogether
<1>8. ~(infile[e].ftype # "FILE_B" /\ Shared(c[n] \cup up))
  BY <1>5, <1>6, <1>7 DEF Shared
<1>9. /\ phys' = [phys EXCEPT ![n] = IF ~IsSwap(e) THEN fl[k] ELSE s[k]]
      /\ accessed' = IF ~IsSwap(e) THEN accessed \cup {k} ELSE accessed
      /\ infile' = [l \in DOMAIN infile |->
                      IF l \in up THEN [infile[l] EXCEPT !.infile = FALSE]
                      ELSE g[l]]
      /\ pt' = [l \in Pte |->
                  IF l \in up
                  THEN [ppage |-> n, read_enable |-> TRUE, write_enable |-> wr]
                  ELSE IF w /\ l \in c[n] THEN Granted(t[l]) ELSE t[l]]
      /\ core' = [c EXCEPT ![n] = @ \cup up]
      /\ filemap' = IF ~IsSwap(e) THEN [fm EXCEPT ![k].ppage = n] ELSE fm
      /\ psuff' = [ps EXCEPT ![n] = [ref |-> TRUE, dirty |-> wr]]
      /\ ~IsSwap(e) => k \in DOMAIN fm
  BY <1>6, <1>8 DEF FaultLoad
<1>10. free_ppage' = AllocFree(psuff) /\ ghost' = gh /\ swap' = s /\ file' = fl
  BY DEF FaultLoad
<1>11. IsInjective(free_ppage') /\ Free' = Free \ {n}
  BY <1>10, AllocFrees DEF Free
<1>12. wr \in BOOLEAN
  BY <1>2, <1>4 DEF Ppb
<1> HIDE DEF n, g, t, c, fm, gh, ps, s, fl, up, wr
<1>13. /\ Agree(g, t, c, fm, gh, Free \ {n}, {n})
       /\ Seen(g, t, ps)
       /\ Saved(g, c, gh, ps, phys, s, fl)
       /\ WasRead(g, gh, accessed)
  BY <1>3, TakenAgrees
<1>14. /\ core'[n] = up
       /\ \A p \in Ppage \ {n} : core'[p] = c[p]
  BY <1>2, <1>4, <1>5, <1>9
<1>15. \A l \in up : pt'[l].ppage = n /\ pt'[l].read_enable /\ pt'[l].write_enable = wr
  BY <1>4, <1>7, <1>9
<1>16. \A l \in Pte \ up : pt'[l] = t[l]
  BY <1>5, <1>9
<1>17. DOMAIN infile' = DOMAIN infile /\ DOMAIN g = DOMAIN infile
  BY <1>2, <1>9
<1>18. \A l \in up : /\ infile'[l].infile = FALSE
                     /\ infile'[l].ftype = infile[l].ftype
                     /\ infile'[l].block = infile[l].block
                     /\ infile'[l] \in Infile
  <2> TAKE l \in up
  <2>1. infile[l] \in Infile /\ l \in DOMAIN infile
    BY <1>7, FInvTypes
  <2>2. infile'[l] = [infile[l] EXCEPT !.infile = FALSE]
    BY <1>9, <2>1
  <2> QED
    BY <2>1, <2>2, InfileUpdate
<1>19. \A l \in DOMAIN infile \ up : infile'[l] = g[l]
  BY <1>9
<1>20. \A l \in DOMAIN infile : /\ g[l].ftype = infile[l].ftype
                                /\ g[l].block = infile[l].block
                                /\ infile[l].infile => g[l].infile
  BY <1>3 DEF Taken
<1>21. \A l : ~(l \in up /\ Loaded(g, l))
  BY <1>7, <1>20 DEF Loaded
<1>22. /\ psuff'[n].ref /\ (psuff'[n].dirty <=> wr)
       /\ \A p \in Frame \ {n} : psuff'[p] = ps[p]
  BY <1>2, <1>4, <1>9, <1>12
<1>23. phys'[pinned] = phys[pinned] /\ \A p \in Frame \ {n} : phys'[p] = phys[p]
  BY <1>4, <1>9
<1>24. /\ DOMAIN filemap' = DOMAIN fm
       /\ \A f \in DOMAIN fm : /\ filemap'[f].vpset = fm[f].vpset
                               /\ f # k \/ IsSwap(e) => filemap'[f] = fm[f]
       /\ ~IsSwap(e) => k \in DOMAIN fm /\ filemap'[k].ppage = n
  BY <1>2, <1>9 DEF Fbp
<1>25. ~IsSwap(e) => fm[k].vpset = up
  <2> SUFFICES ASSUME ~IsSwap(e)
               PROVE  \A l : l \in fm[k].vpset <=> l \in up
    OBVIOUS
  <2>1. \A l : l \in fm[k].vpset <=> FileOf(g, l, k)
    BY <1>13, <1>24 DEF Agree, BlocksListed
  <2>2. \A l : FileOf(g, l, k) <=> l \in up
    BY <1>7, <1>17, <1>20 DEF FileOf, IsSwap
  <2> QED
    BY <2>1, <2>2
<1>26. IsSwap(e) => \A f \in DOMAIN fm : e \notin fm[f].vpset
  BY <1>13, <1>20, <1>17, <1>1 DEF Agree, BlocksListed, FileOf, IsSwap
<1>27. \A f \in DOMAIN fm : f # k \/ IsSwap(e) => fm[f].vpset \cap up = {}
  BY <1>7, <1>13, <1>20, <1>26 DEF Agree, BlocksListed, FileOf
<1>28. Parted(core', ghost', Free', {})
  BY <1>4, <1>7, <1>10, <1>11, <1>13, <1>14 DEF Agree, Parted
<1>29. Cored(infile', pt', core')
  <2> SUFFICES ASSUME NEW p \in Ppage, NEW d
               PROVE  d \in core'[p] <=> Loaded(infile', d) /\ pt'[d].ppage = p
    BY DEF Cored
  <2>1. d \in c[p] <=> Loaded(g, d) /\ t[d].ppage = p
    BY <1>13 DEF Agree, Cored
  <2>2. CASE d \in up
    <3>1. Loaded(infile', d) /\ pt'[d].ppage = n
      BY <1>7, <1>15, <1>17, <1>18, <2>2 DEF Loaded
    <3> QED
      BY <1>14, <1>21, <2>1, <2>2, <3>1
  <2>3. CASE d \notin up
    <3>1. Loaded(infile', d) <=> Loaded(g, d)
      BY <1>17, <1>19, <2>3 DEF Loaded
    <3>2. Loaded(g, d) => pt'[d] = t[d]
      BY <1>4, <1>16, <1>17, <2>3 DEF Loaded
    <3> QED
      BY <1>5, <1>14, <2>1, <2>3, <3>1, <3>2
  <2> QED
    BY <2>2, <2>3
<1>30. Owned(infile', pt', core')
  <2> SUFFICES ASSUME NEW p \in Frame, NEW a \in core'[p], NEW d \in core'[p]
               PROVE  IF infile'[a].ftype = "SWAP" THEN a = d
                      ELSE infile'[d].ftype # "SWAP" /\ infile'[a] = infile'[d]
                           /\ pt'[a] = pt'[d]
    BY DEF Owned
  <2>1. CASE p = n
    <3>1. a \in up /\ d \in up
      BY <1>14, <2>1
    <3>2. infile'[a].ftype = infile[a].ftype /\ infile'[d].ftype = infile[d].ftype
      BY <1>18, <3>1
    <3>3. IsSwap(a) <=> IsSwap(d)
      BY <1>7, <3>1
    <3>4. ~IsSwap(a) => infile'[a] = infile'[d]
      <4>1. ~IsSwap(a) => infile[a].ftype = infile[d].ftype
        BY <1>7, <3>1, <3>3, FInvTypes DEF IsSwap
      <4> QED
        BY <1>7, <1>18, <3>1, <4>1, InfileEqual
    <3>5. pt'[a] = pt'[d]
      BY <1>4, <1>7, <1>9, <3>1
    <3>6. IsSwap(a) => a = d
      BY <1>7, <3>1
    <3> QED
      BY <3>2, <3>3, <3>4, <3>5, <3>6 DEF IsSwap
  <2>2. CASE p # n
    <3>1. a \in c[p] /\ d \in c[p]
      BY <1>4, <1>14, <2>2
    <3>2. Loaded(g, a) /\ Loaded(g, d)
      BY <1>4, <1>13, <3>1 DEF Agree, Cored
    <3>3. /\ infile'[a] = g[a] /\ infile'[d] = g[d]
          /\ pt'[a] = t[a] /\ pt'[d] = t[d]
      BY <1>4, <1>16, <1>17, <1>19, <1>21, <3>2 DEF Loaded
    <3> QED
      BY <1>13, <3>1, <3>3 DEF Agree, Owned
  <2> QED
    BY <2>1, <2>2
<1>31. BlocksListed(infile', filemap')
  <2>1. \A l \in DOMAIN infile : /\ infile'[l].ftype = g[l].ftype
                                 /\ infile'[l].block = g[l].block
    BY <1>18, <1>19, <1>20
  <2>2. \A l, f : FileOf(infile', l, f) <=> FileOf(g, l, f)
    BY <1>17, <2>1 DEF FileOf
  <2> QED
    BY <1>13, <1>17, <1>24, <2>1, <2>2 DEF Agree, BlocksListed
<1>32. BlocksMoveAsOne(infile', pt', filemap')
  <2> SUFFICES ASSUME NEW f \in DOMAIN fm
               PROVE  /\ \A a, d \in fm[f].vpset : infile'[a].infile <=> infile'[d].infile
                      /\ \A d \in fm[f].vpset : ~infile'[d].infile =>
                                                pt'[d].ppage = filemap'[f].ppage
    BY <1>24 DEF BlocksMoveAsOne
  <2>1. CASE f = k /\ ~IsSwap(e)
    BY <1>15, <1>18, <1>24, <1>25, <2>1
  <2>2. CASE ~(f = k /\ ~IsSwap(e))
    <3>1. \A d \in fm[f].vpset : d \in DOMAIN infile \ up /\ d \in Pte \ up
      BY <1>4, <1>13, <1>17, <1>27, <2>2 DEF Agree, BlocksListed, FileOf
    <3>2. \A d \in fm[f].vpset : infile'[d] = g[d] /\ pt'[d] = t[d]
      BY <1>16, <1>19, <3>1
    <3> QED
      BY <1>13, <1>24, <2>2, <3>2 DEF Agree, BlocksMoveAsOne
  <2> QED
    BY <2>1, <2>2
<1>33. GhostsListed(filemap', ghost')
  <2>1. ~IsSwap(e) => fm[k].vpset # {}
    BY <1>7, <1>25
  <2>2. \A f \in DOMAIN fm : fm[f].vpset = {} => filemap'[f] = fm[f]
    BY <1>24, <2>1
  <2> QED
    BY <1>10, <1>13, <1>24, <2>2 DEF Agree, GhostsListed
<1>34. Seen(infile', pt', psuff')
  <2> SUFFICES ASSUME NEW d \in Pte
               PROVE  /\ pt'[d].write_enable => pt'[d].read_enable
                      /\ pt'[d].read_enable /\ d \in DOMAIN infile =>
                           /\ ~infile'[d].infile
                           /\ pt'[d].ppage # pinned => psuff'[pt'[d].ppage].ref
                      /\ pt'[d].write_enable /\ d \in DOMAIN infile =>
                           pt'[d].ppage # pinned /\ psuff'[pt'[d].ppage].dirty
    BY <1>17 DEF Seen
  <2>1. CASE d \in up
    BY <1>4, <1>15, <1>18, <1>22, <2>1
  <2>2. CASE d \notin up
    <3>1. pt'[d] = t[d] /\ t[d].ppage \in Ppage
      BY <1>2, <1>16, <2>2 DEF Entry
    <3>2. t[d].write_enable => t[d].read_enable
      BY <1>13 DEF Seen
    <3>3. ASSUME t[d].read_enable, d \in DOMAIN infile
          PROVE  /\ ~infile'[d].infile
                 /\ t[d].ppage # pinned => psuff'[t[d].ppage] = ps[t[d].ppage]
      <4>1. ~g[d].infile /\ infile'[d] = g[d]
        BY <1>13, <1>17, <1>19, <2>2, <3>3 DEF Seen
      <4>2. d \in c[t[d].ppage]
        BY <1>13, <1>17, <3>1, <3>3, <4>1 DEF Agree, Cored, Loaded
      <4>3. t[d].ppage # n
        BY <1>5, <4>2
      <4> QED
        BY <1>22, <3>1, <4>1, <4>3 DEF Frame
    <3> QED
      BY <1>13, <1>17, <3>1, <3>2, <3>3 DEF Seen
  <2> QED
    BY <2>1, <2>2
<1>35. Saved(infile', core', ghost', psuff', phys', swap', file')
  <2> SUFFICES ASSUME NEW p \in Frame, ~psuff'[p].dirty
               PROVE  /\ \A d \in core'[p] : DiskHolds(infile', d, s, fl, phys'[p])
                      /\ p \in DOMAIN gh => fl[gh[p]] = phys'[p]
    BY <1>10 DEF Saved
  <2>1. CASE p = n
    <3>1. p \notin DOMAIN gh
      BY <1>13, <2>1 DEF Agree, Parted
    <3>2. phys'[p] = IF ~IsSwap(e) THEN fl[k] ELSE s[k]
      BY <1>4, <1>9, <2>1
    <3>3. \A d \in up : /\ infile'[d].block = k
                        /\ infile'[d].ftype = "SWAP" <=> IsSwap(e)
      BY <1>7, <1>18 DEF IsSwap
    <3> QED
      BY <1>14, <2>1, <3>1, <3>2, <3>3 DEF DiskHolds
  <2>2. CASE p # n
    <3>1. /\ core'[p] = c[p] /\ phys'[p] = phys[p] /\ psuff'[p] = ps[p]
      BY <1>4, <1>14, <1>22, <1>23, <2>2
    <3>2. \A d \in c[p] : infile'[d] = g[d]
      BY <1>4, <1>13, <1>17, <1>19, <1>21 DEF Agree, Cored, Loaded
    <3> QED
      BY <1>13, <3>1, <3>2 DEF Saved, DiskHolds
  <2> QED
    BY <2>1, <2>2
<1>36. WasRead(infile', ghost', accessed')
  <2>1. accessed \subseteq accessed' /\ (~IsSwap(e) => k \in accessed')
    BY <1>9
  <2>2. ASSUME NEW d \in DOMAIN infile, infile'[d].ftype # "SWAP", ~infile'[d].infile
        PROVE  infile'[d].block \in accessed'
    <3>1. CASE d \in up
      BY <1>7, <1>18, <2>1, <2>2, <3>1 DEF IsSwap
    <3>2. CASE d \notin up
      BY <1>13, <1>17, <1>19, <2>1, <2>2, <3>2 DEF WasRead
    <3> QED
      BY <3>1, <3>2
  <2> QED
    BY <1>10, <1>13, <1>17, <2>1, <2>2 DEF WasRead
<1>37. pt'[e].read_enable /\ (w => pt'[e].write_enable)
  BY <1>7, <1>15 DEF wr
<1> QED
  BY <1>11, <1>23, <1>28, <1>29, <1>30, <1>31, <1>32, <1>33, <1>34, <1>35, <1>36, <1>37
  DEF FInv, Agree

LEMMA ReadFailsAgrees ==
  ASSUME FInv, IInv', SwapReserved', NEW e, Recorded(e), NEW fail,
         FaultReadFails(e, fail)
  PROVE  FInv'
<1> DEFINE n  == Alloc(psuff)
           g  == AllocInfile(psuff)
           t  == AllocPt(psuff)
           c  == AllocCore(psuff)
           fm == AllocFilemap(psuff)
           gh == AllocGhost(psuff)
           ps == AllocPsuff(psuff)
           s  == AllocSwap(psuff)
           fl == AllocFile(psuff)
<1>1. /\ EvictAsserts(psuff)
      /\ free_ppage' = Append(AllocFree(psuff), n)
      /\ psuff' = [ps EXCEPT ![n] = [ref |-> FALSE, dirty |-> FALSE]]
  BY DEF FaultReadFails
<1>2. /\ pt' = t /\ infile' = g /\ core' = c /\ ghost' = gh /\ filemap' = fm
      /\ swap' = s /\ file' = fl /\ phys' = phys /\ accessed' = accessed
  BY DEF FaultReadFails
<1>3. /\ g \in [DOMAIN infile -> Infile] /\ t \in [Pte -> Entry]
      /\ ps \in [Frame -> Ppb] /\ AllocFree(psuff) \in Seq(Frame)
  BY <1>1, AllocTypes
<1>4. Taken(n, g, t, c, fm, gh, ps, s, fl)
  BY AllocTakes
<1>5. n \in Frame /\ n \in Ppage /\ pinned \notin Frame /\ pinned \in Ppage
  BY <1>4, FInvTypes DEF Taken
<1>6. /\ n \notin Range(AllocFree(psuff))
      /\ IsInjective(AllocFree(psuff)) /\ Range(AllocFree(psuff)) = Free \ {n}
  BY AllocFrees
<1> HIDE DEF n, g, t, c, fm, gh, ps, s, fl
<1>7. /\ Agree(g, t, c, fm, gh, Free \ {n}, {n})
      /\ Seen(g, t, ps)
      /\ Saved(g, c, gh, ps, phys, s, fl)
      /\ WasRead(g, gh, accessed)
  BY <1>4, TakenAgrees
<1>8. IsInjective(free_ppage') /\ Free' = (Free \ {n}) \cup {n}
  BY <1>1, <1>3, <1>5, <1>6, Appended DEF Free
<1>9. /\ ~psuff'[n].dirty
      /\ \A p \in Frame \ {n} : psuff'[p] = ps[p]
  BY <1>1, <1>3, <1>5
<1>10. c[n] = {} /\ n \notin DOMAIN gh
  BY <1>5, <1>7 DEF Agree, Parted
<1>11. Parted(c, gh, Free', {})
  BY <1>7, <1>8 DEF Agree, Parted
<1>12. Agree(infile', pt', core', filemap', ghost', Free', {})
  BY <1>2, <1>7, <1>11 DEF Agree
<1>13. Seen(g, t, psuff')
  <2>1. ASSUME NEW d \in Pte, t[d].read_enable, d \in DOMAIN g
        PROVE  ~g[d].infile /\ (t[d].ppage # pinned => psuff'[t[d].ppage] = ps[t[d].ppage])
    <3>1. ~g[d].infile /\ t[d].ppage \in Ppage
      BY <1>3, <1>7, <2>1 DEF Seen, Entry
    <3>2. d \in c[t[d].ppage]
      BY <1>7, <2>1, <3>1 DEF Agree, Cored, Loaded
    <3> QED
      BY <1>9, <1>10, <3>1, <3>2 DEF Frame
  <2> QED
    BY <1>7, <2>1 DEF Seen
<1>14. Saved(g, c, gh, psuff', phys, s, fl)
  BY <1>7, <1>9, <1>10 DEF Saved
<1> QED
  BY <1>2, <1>7, <1>8, <1>12, <1>13, <1>14 DEF FInv

\* vm_fault on a page in memory: the entries it changes are those of one frame.
LEMMA ResidentAgrees ==
  ASSUME FInv, IInv', SwapReserved', NEW e, Recorded(e), NEW w \in BOOLEAN,
         NEW ok, FaultResident(e, w, ok)
  PROVE  /\ FInv'
         /\ pt'[e].read_enable /\ (w => pt'[e].write_enable)
<1> DEFINE p     == pt[e].ppage
           dirty == p # pinned /\ psuff[p].dirty
           seen  == [pt[e] EXCEPT !.read_enable = TRUE,
                                  !.write_enable = @ \/ dirty]
           new   == IF w THEN Granted(seen) ELSE seen
           S     == {e} \cup SameBlock(e)
<1>1. /\ e \in DOMAIN infile /\ Resident(e) /\ e \in Pte
      /\ pt[e] \in Entry /\ p \in Ppage /\ pt \in [Pte -> Entry]
      /\ DOMAIN infile \subseteq Pte /\ psuff \in [Frame -> Ppb]
      /\ core \in [Ppage -> SUBSET Pte]
  BY FInvTypes DEF FaultResident, Recorded, Resident, Entry
<1>2. /\ pt' = [l \in Pte |-> IF w /\ l \in core[p]
                              THEN Granted(IF l \in S THEN seen ELSE pt[l])
                              ELSE IF l \in S THEN seen ELSE pt[l]]
      /\ psuff' = IF p = pinned THEN psuff
                  ELSE [psuff EXCEPT ![p] = [ref |-> TRUE, dirty |-> @.dirty \/ w]]
      /\ UNCHANGED <<free_ppage, ghost, core, infile, filemap>>
      /\ UNCHANGED <<phys, swap, file, accessed>>
      /\ w => ~IsCow(e)
  BY Zenon DEF FaultResident, contents
<1>3. w => p # pinned
  BY <1>2 DEF IsCow
<1>4. e \in core[p]
  BY <1>1 DEF FInv, Agree, Cored, Loaded, Resident
<1>5. \A l \in Pte : l \in core[p] <=> l \in DOMAIN infile /\ Resident(l) /\ pt[l].ppage = p
  BY <1>1 DEF FInv, Agree, Cored, Loaded, Resident
<1>6. p = pinned => S = {e}
  BY DEF SameBlock
<1>7. p # pinned => S = core[p]
  <2> SUFFICES ASSUME p # pinned, NEW l
               PROVE  l \in S <=> l \in core[p]
    OBVIOUS
  <2>0. p \in Frame
    BY <1>1 DEF Frame
  <2>1. CASE IsSwap(e)
    <3>1. S = {e}
      BY <2>1 DEF SameBlock, IsSwap
    <3> QED
      BY <1>4, <2>0, <2>1, <3>1 DEF FInv, Agree, Owned, IsSwap
  <2>2. CASE ~IsSwap(e)
    <3> DEFINE f == infile[e].block
    <3>1. /\ S = {e} \cup filemap[f].vpset /\ f \in DOMAIN filemap
          /\ \A d : d \in filemap[f].vpset <=> FileOf(infile, d, f)
      BY <1>1, <2>2, FInvTypes DEF SameBlock, IsSwap, FInv, Agree, BlocksListed
    <3>2. e \in filemap[f].vpset
      BY <1>1, <2>2, <3>1 DEF FileOf, IsSwap
    <3>3. ASSUME l \in filemap[f].vpset
          PROVE  l \in core[p]
      <4>1. l \in DOMAIN infile /\ ~IsSwap(l) /\ infile[l].block = f
        BY <3>1, <3>3 DEF FileOf, IsSwap
      <4>2. Resident(l) /\ pt[l].ppage = p
        BY <1>1, <2>2, <4>1, SameBlockTogether DEF Resident
      <4> QED
        BY <1>1, <1>5, <4>1, <4>2
    <3>4. ASSUME l \in core[p]
          PROVE  l \in filemap[f].vpset
      <4>1. l \in DOMAIN infile /\ infile[l] = infile[e]
        BY <1>1, <1>4, <1>5, <2>0, <2>2, <3>4 DEF FInv, Agree, Owned, IsSwap
      <4> QED
        BY <2>2, <3>1, <4>1 DEF FileOf, IsSwap
    <3> QED
      BY <3>1, <3>2, <3>3, <3>4
  <2> QED
    BY <2>1, <2>2
<1>8. /\ S \subseteq core[p] /\ e \in S
      /\ p # pinned => S = core[p]
  BY <1>4, <1>6, <1>7
<1>9. \A l \in Pte : pt'[l] = IF l \in S THEN new ELSE pt[l]
  <2> HIDE DEF seen, S
  <2> QED
    BY <1>2, <1>3, <1>8
<1>10. /\ seen \in Entry /\ seen.ppage = p /\ seen.read_enable = TRUE
       /\ seen.write_enable <=> pt[e].write_enable \/ dirty
  BY <1>1 DEF Entry
<1>11. /\ new.ppage = p /\ new.read_enable
       /\ new.write_enable <=> w \/ pt[e].write_enable \/ dirty
  BY <1>10, EntryTypes DEF Granted, Entry
<1>12. pt[e].write_enable => dirty
  BY <1>1 DEF FInv, Seen
<1>13. /\ \A q \in Frame : /\ psuff[q].ref => psuff'[q].ref
                           /\ psuff[q].dirty => psuff'[q].dirty
       /\ p # pinned => psuff'[p].ref /\ (psuff'[p].dirty <=> psuff[p].dirty \/ w)
  BY <1>1, <1>2 DEF Frame, Ppb
<1> HIDE DEF p, dirty, seen, new, S
<1>14. \A l \in Pte : pt'[l].ppage = pt[l].ppage
  BY <1>5, <1>8, <1>9, <1>11
<1>15. Cored(infile, pt', core)
  BY <1>1, <1>14 DEF FInv, Agree, Cored, Loaded
<1>16. Owned(infile, pt', core)
  <2> SUFFICES ASSUME NEW q \in Frame, NEW a \in core[q], NEW d \in core[q]
               PROVE  IF infile[a].ftype = "SWAP" THEN a = d
                      ELSE infile[d].ftype # "SWAP" /\ infile[a] = infile[d]
                           /\ pt'[a] = pt'[d]
    BY DEF Owned
  <2>1. a \in Pte /\ d \in Pte /\ pt[a].ppage = q /\ pt[d].ppage = q
    BY <1>1, FInvTypes DEF FInv, Agree, Cored, Loaded
  <2>2. pt[a] = pt[d] => pt'[a] = pt'[d]
    <3>1. CASE q = p
      BY <1>8, <1>9, <2>1, <3>1, FInvTypes
    <3>2. CASE q # p
      BY <1>5, <1>8, <1>9, <2>1, <3>2
    <3> QED
      BY <3>1, <3>2
  <2> QED
    BY <2>2 DEF FInv, Agree, Owned
<1>17. BlocksMoveAsOne(infile, pt', filemap)
  <2>1. \A f \in DOMAIN filemap : \A d \in filemap[f].vpset : d \in Pte
    BY <1>1 DEF FInv, Agree, BlocksListed, FileOf
  <2> QED
    BY <1>14, <2>1 DEF FInv, Agree, BlocksMoveAsOne
<1>18. Seen(infile, pt', psuff')
  <2> SUFFICES ASSUME NEW d \in Pte
               PROVE  /\ pt'[d].write_enable => pt'[d].read_enable
                      /\ pt'[d].read_enable /\ d \in DOMAIN infile =>
                           /\ ~infile[d].infile
                           /\ pt'[d].ppage # pinned => psuff'[pt'[d].ppage].ref
                      /\ pt'[d].write_enable /\ d \in DOMAIN infile =>
                           pt'[d].ppage # pinned /\ psuff'[pt'[d].ppage].dirty
    BY DEF Seen
  <2>1. CASE d \in S
    <3>1. ~infile[d].infile
      BY <1>5, <1>8, <2>1 DEF Resident
    <3>2. new.write_enable => p # pinned /\ psuff'[p].dirty
      BY <1>3, <1>11, <1>12, <1>13 DEF dirty
    <3> QED
      BY <1>9, <1>11, <1>13, <2>1, <3>1, <3>2
  <2>2. CASE d \notin S
    <3>1. pt'[d] = pt[d] /\ pt[d].ppage \in Ppage
      BY <1>1, <1>9, <2>2 DEF Entry
    <3> QED
      BY <1>13, <3>1 DEF FInv, Seen, Frame
  <2> QED
    BY <2>1, <2>2
<1>19. Saved(infile, core, ghost, psuff', phys, swap, file)
  BY <1>13 DEF FInv, Saved
<1>20. pt'[e].read_enable /\ (w => pt'[e].write_enable)
  BY <1>1, <1>8, <1>9, <1>11
<1> QED
  <2>1. Free' = Free
    BY <1>2 DEF Free
  <2>2. Agree(infile', pt', core', filemap', ghost', Free', {})
    BY <1>2, <1>15, <1>16, <1>17, <2>1 DEF FInv, Agree
  <2> QED
    BY <1>2, <1>18, <1>19, <1>20, <2>2 DEF FInv

\* Whatever comes of a fault, the maps agree after it; when vm_fault returns 0,
\* the access that faulted is permitted.
LEMMA FaultAgrees ==
  ASSUME FInv, IInv', SwapReserved', NEW v \in Vpage, NEW w \in BOOLEAN,
         NEW ok, NEW fail, vm_fault(v, w, ok, fail)
  PROVE  /\ FInv'
         /\ \/ call' = fail
            \/ /\ call' = ok
               /\ IF w THEN pt'[Mine(v)].write_enable ELSE pt'[Mine(v)].read_enable
<1>1. CASE FaultInvalid(v, fail)
  <2>1. /\ UNCHANGED <<free_ppage, psuff, ghost, core>>
        /\ UNCHANGED <<infile, filemap, pt>>
        /\ UNCHANGED <<phys, swap, file, accessed>>
        /\ call' = fail
    BY <1>1 DEF FaultInvalid, frames, mapping, contents
  <2>2. Free' = Free
    BY <2>1 DEF Free
  <2> QED
    BY <2>1, <2>2 DEF FInv
<1>2. ASSUME Recorded(Mine(v)), FaultResident(Mine(v), w, ok)
      PROVE  FInv' /\ call' = ok /\ pt'[Mine(v)].read_enable
             /\ (w => pt'[Mine(v)].write_enable)
  BY <1>2, ResidentAgrees DEF FaultResident
<1>3. ASSUME Recorded(Mine(v)), FaultCow(Mine(v), ok)
      PROVE  FInv' /\ call' = ok /\ pt'[Mine(v)].read_enable
             /\ pt'[Mine(v)].write_enable
  <2>1. Mine(v) \in Pte
    BY <1>3, FInvTypes DEF Recorded
  <2>2. \A ps : AllocPt(ps) = [x \in Pte |-> AllocPt(ps)[x]]
    BY DEF AllocPt
  <2>3. pt'[Mine(v)].read_enable /\ pt'[Mine(v)].write_enable
    BY <1>3, <2>1, <2>2 DEF FaultCow
  <2> QED
    BY <1>3, <2>3, CowAgrees DEF FaultCow
<1>4. ASSUME Recorded(Mine(v)), FaultLoad(Mine(v), w, ok)
      PROVE  FInv' /\ call' = ok /\ pt'[Mine(v)].read_enable
             /\ (w => pt'[Mine(v)].write_enable)
  BY <1>4, LoadAgrees DEF FaultLoad
<1>5. ASSUME Recorded(Mine(v)), FaultReadFails(Mine(v), fail)
      PROVE  FInv' /\ call' = fail
  BY <1>5, ReadFailsAgrees DEF FaultReadFails
<1> QED
  BY <1>1, <1>2, <1>3, <1>4, <1>5 DEF vm_fault

-----------------------------------------------------------------------------
(* What a process may access.                                              *)

\* Only mapped pages are accessible, and what a process leaves behind that is
\* exiting: the MMU never looks at the entries of a page nobody mapped.
Hidden ==
  \A l \in Pte : pt[l].read_enable =>
    l \in DOMAIN infile \/ (call.op = "exit" /\ l[1] = curr_pid)

LEMMA AllocReveals ==
  ASSUME FInv, NEW ps, NEW l \in Pte
  PROVE  AllocPt(ps)[l].read_enable => pt[l].read_enable
<1>1. pt[l] \in Entry
  BY FInvTypes
<1> QED
  BY <1>1, EntryRevoked DEF AllocPt

LEMMA FaultReveals ==
  ASSUME FInv, NEW v \in Vpage, NEW w \in BOOLEAN, NEW ok, NEW fail,
         vm_fault(v, w, ok, fail),
         NEW l \in Pte \ DOMAIN infile, pt'[l].read_enable
  PROVE  pt[l].read_enable
<1> DEFINE e == Mine(v)
<1>1. CASE FaultInvalid(v, fail)
  BY <1>1 DEF FaultInvalid, mapping
<1>2. CASE Recorded(e) /\ FaultResident(e, w, ok)
  <2>1. e \in DOMAIN infile /\ pt[e].ppage \in Ppage
    BY <1>2, FInvTypes DEF Recorded, Entry
  <2>2. l # e /\ l \notin core[pt[e].ppage]
    BY <2>1 DEF FInv, Agree, Cored, Loaded
  <2>3. l \notin SameBlock(e)
    BY <1>2, <2>1 DEF SameBlock, Recorded, FInv, Agree, BlocksListed, FileOf
  <2> QED
    BY <1>2, <2>2, <2>3 DEF FaultResident
<1>3. CASE Recorded(e) /\ FaultCow(e, ok)
  <2>1. PICK ps, x : pt' = [AllocPt(ps) EXCEPT ![e] = x]
    BY <1>3 DEF FaultCow
  <2>2. l # e
    BY <1>3 DEF Recorded
  <2>3. pt'[l] = AllocPt(ps)[l]
    BY <2>1, <2>2 DEF AllocPt
  <2> QED
    BY <2>3, AllocReveals
<1>4. CASE Recorded(e) /\ FaultLoad(e, w, ok)
  <2>1. AllocCore(psuff)[Alloc(psuff)] = {}
    <3>1. /\ Alloc(psuff) \in Ppage
          /\ AllocCore(psuff) = [core EXCEPT ![Alloc(psuff)] = {}]
      BY AllocTakes, FInvTypes DEF Taken
    <3> QED
      BY <3>1, FInvTypes
  <2>2. l \notin Lifted(e)
    BY <1>4, LiftedTogether
  <2>3. pt'[l] = AllocPt(psuff)[l]
    BY <1>4, <2>1, <2>2 DEF FaultLoad
  <2> QED
    BY <2>3, AllocReveals
<1>5. CASE Recorded(e) /\ FaultReadFails(e, fail)
  BY <1>5, AllocReveals DEF FaultReadFails
<1> QED
  BY <1>1, <1>2, <1>3, <1>4, <1>5 DEF vm_fault

\* A page the MMU lets the running process see is mapped.
LEMMA PermitsMapped ==
  ASSUME FInv, Hidden, call.op \notin {"none", "exit"},
         NEW v \in Vpage, NEW w \in BOOLEAN, Permits(v, w)
  PROVE  /\ Mine(v) \in DOMAIN infile /\ Resident(Mine(v))
         /\ pt[Mine(v)].read_enable /\ (w => pt[Mine(v)].write_enable)
<1>1. curr_pid \in Pid
  BY DEF FInv, IInv, TypeOK, ProcOK, Maps
<1>2. Mine(v) \in Pte
  BY <1>1 DEF Mine, Pte
<1>3. pt[Mine(v)].read_enable /\ (w => pt[Mine(v)].write_enable)
  BY <1>2 DEF Permits, FInv, Seen
<1> QED
  BY <1>2, <1>3 DEF Hidden, FInv, Seen, Resident

-----------------------------------------------------------------------------
(* Loads and stores, and the reading of a name.                            *)

\* Nothing of what the invariant is about changes.
LEMMA SameAgrees ==
  ASSUME FInv, IInv', SwapReserved',
         UNCHANGED <<free_ppage, psuff, ghost, core, infile, filemap, pt>>,
         UNCHANGED <<phys, swap, file, accessed>>
  PROVE  FInv'
<1>1. Free' = Free
  BY DEF Free
<1> QED
  BY <1>1 DEF FInv

\* A store only changes what a dirty frame holds.
LEMMA StoreAgrees ==
  ASSUME FInv, IInv', SwapReserved', Hidden, NEW v \in Vpage, NEW d, Store(v, d)
  PROVE  FInv'
<1> DEFINE p == pt[Mine(v)].ppage
<1>1. call.op \notin {"none", "exit"} /\ Permits(v, TRUE)
  <2>1. v \in 0..NPages /\ FBlock # {}
    BY SizeAssumption, PCntAssumption, DataAssumption DEF Vpage
  <2> QED
    BY <2>1, CallsOK DEF Store, Idle
<1>2. Mine(v) \in DOMAIN infile /\ Mine(v) \in Pte /\ pt[Mine(v)].write_enable
  BY <1>1, PermitsMapped, FInvTypes
<1>3. p # pinned /\ psuff[p].dirty
  BY <1>2 DEF FInv, Seen
<1>4. /\ UNCHANGED <<free_ppage, psuff, ghost, core>>
      /\ UNCHANGED <<infile, filemap, pt, swap, file, accessed>>
      /\ phys' = [phys EXCEPT ![p] = d]
  BY DEF Store, frames, mapping
<1> HIDE DEF p
<1>5. \A q \in Ppage \ {p} : phys'[q] = phys[q]
  BY <1>4, FInvTypes
<1>6. Saved(infile, core, ghost, psuff, phys', swap, file)
  BY <1>3, <1>5, FInvTypes DEF FInv, Saved
<1>7. phys'[pinned] = Zero /\ Free' = Free
  BY <1>3, <1>4, <1>5, FInvTypes DEF FInv, Free
<1> QED
  BY <1>4, <1>6, <1>7 DEF FInv

LEMMA AccessAgrees ==
  ASSUME FInv, IInv', SwapReserved', Hidden, Access \/ Name
  PROVE  FInv'
<1>1. CASE Access
  <2>1. PICK v \in Vpage : \/ \E w \in BOOLEAN : AppFault(v, w)
                           \/ \E d \in Data : Store(v, d)
                           \/ Reload(v)
    BY <1>1 DEF Access
  <2>2. ASSUME NEW w \in BOOLEAN, AppFault(v, w)
        PROVE  FInv'
    BY <2>2, FaultAgrees DEF AppFault
  <2>3. CASE Reload(v)
    BY <2>3, SameAgrees DEF Reload, frames, mapping, contents
  <2> QED
    BY <2>1, <2>2, <2>3, StoreAgrees
<1>2. CASE Name
  <2>1. PICK v \in Vpage, b \in FBlock : NameFault(v, b) \/ NameSpills(v, b)
    BY <1>2 DEF Name
  <2>2. CASE NameFault(v, b)
    BY <2>2, FaultAgrees DEF NameFault
  <2>3. CASE NameSpills(v, b)
    BY <2>3, SameAgrees DEF NameSpills, frames, mapping, contents
  <2> QED
    BY <2>1, <2>2, <2>3
<1> QED
  BY <1>1, <1>2

-----------------------------------------------------------------------------
(* vm_map of a file block.                                                 *)

\* A page x joins the pages of block fb, if there are any, with the entry y.
Joins(x, fb, disk, y) ==
  /\ infile' = Put(infile, x, [ftype |-> "FILE_B", infile |-> disk, block |-> fb])
  /\ pt' = [pt EXCEPT ![x] = y]
  /\ core' = IF disk THEN core ELSE [core EXCEPT ![y.ppage] = @ \cup {x}]
  /\ DOMAIN filemap' = DOMAIN filemap \cup {fb}
  /\ \A f \in DOMAIN filemap \ {fb} : filemap'[f] = filemap[f]
  /\ \A l : l \in filemap'[fb].vpset <=> l = x \/ FileOf(infile, l, fb)
  /\ DOMAIN ghost' = {p \in DOMAIN ghost : ghost[p] # fb}
  /\ \A p \in DOMAIN ghost' : ghost'[p] = ghost[p]

\* The entry is that of the other pages, and of the frame that holds the block.
Fits(fb, disk, y) ==
  /\ \A l : FileOf(infile, l, fb) => /\ infile[l].infile <=> disk
                                     /\ ~disk => pt[l] = y
  /\ \A p \in DOMAIN ghost : ghost[p] = fb => ~disk /\ p = y.ppage
  /\ ~disk => /\ y.ppage \in Frame
              /\ y.ppage = filemap'[fb].ppage
              /\ y.ppage \notin Free \cup DOMAIN ghost'
              /\ fb \in accessed
              /\ ~psuff[y.ppage].dirty => file[fb] = phys[y.ppage]
              /\ \A a \in core[y.ppage] : FileOf(infile, a, fb)
  /\ y.write_enable => y.read_enable /\ psuff[y.ppage].dirty
  /\ y.read_enable => ~disk /\ psuff[y.ppage].ref

LEMMA JoinAgrees ==
  ASSUME FInv, IInv', SwapReserved',
         UNCHANGED <<free_ppage, psuff, phys, swap, file, accessed>>,
         NEW x \in Pte \ DOMAIN infile, NEW fb \in FileBlock,
         NEW disk \in BOOLEAN, NEW y \in Entry,
         Joins(x, fb, disk, y), Fits(fb, disk, y)
  PROVE  FInv'
<1> USE DEF Joins, Fits
<1> DEFINE r == [ftype |-> "FILE_B", infile |-> disk, block |-> fb]
<1> DEFINE p == y.ppage
<1>0. /\ infile \in [DOMAIN infile -> Infile] /\ DOMAIN infile \subseteq Pte
      /\ pt \in [Pte -> Entry] /\ core \in [Ppage -> SUBSET Pte]
      /\ Frame \subseteq Ppage /\ pinned \notin Frame /\ p \in Ppage
  BY FInvTypes DEF Entry
<1>1. /\ DOMAIN infile' = DOMAIN infile \cup {x}
      /\ infile'[x] = r
      /\ \A l \in DOMAIN infile : infile'[l] = infile[l]
  BY DEF Put
<1>2. r.ftype = "FILE_B" /\ r.infile = disk /\ r.block = fb /\ r \in Infile
  BY DEF Infile, FileRec
<1> HIDE DEF r
<1>3. pt'[x] = y /\ \A l \in Pte \ {x} : pt'[l] = pt[l]
  BY <1>0
<1>4. /\ \A q \in Ppage \ {p} : core'[q] = core[q]
      /\ core'[p] = IF disk THEN core[p] ELSE core[p] \cup {x}
  BY <1>0
<1>5. Free' = Free
  BY DEF Free
<1>6. \A q \in Ppage : x \notin core[q]
  BY DEF FInv, Agree, Cored, Loaded
<1>7. Parted(core', ghost', Free', {})
  <2> SUFFICES ASSUME NEW q \in Frame
               PROVE  /\ q \in Free => q \notin DOMAIN ghost' /\ core'[q] = {}
                      /\ q \in DOMAIN ghost' => core'[q] = {}
                      /\ q \in Free \cup DOMAIN ghost' \/ core'[q] # {}
    BY <1>5 DEF Parted
  <2>1. CASE q # p \/ disk
    <3>1. core'[q] = core[q] /\ (q \in DOMAIN ghost' <=> q \in DOMAIN ghost)
      BY <1>0, <1>4, <2>1
    <3> QED
      BY <3>1 DEF FInv, Agree, Parted
  <2>2. CASE q = p /\ ~disk
    BY <1>4, <2>2
  <2> QED
    BY <2>1, <2>2
<1>8. Cored(infile', pt', core')
  <2> SUFFICES ASSUME NEW q \in Ppage, NEW l
               PROVE  l \in core'[q] <=> Loaded(infile', l) /\ pt'[l].ppage = q
    BY DEF Cored
  <2>1. l \in core[q] <=> Loaded(infile, l) /\ pt[l].ppage = q
    BY DEF FInv, Agree, Cored
  <2>2. CASE l = x
    BY <1>1, <1>2, <1>3, <1>4, <1>6, <2>2 DEF Loaded
  <2>3. CASE l # x
    <3>1. Loaded(infile', l) <=> Loaded(infile, l)
      BY <1>1, <2>3 DEF Loaded
    <3>2. Loaded(infile, l) => pt'[l] = pt[l]
      BY <1>0, <1>3, <2>3 DEF Loaded
    <3>3. l \in core'[q] <=> l \in core[q]
      BY <1>4, <2>3
    <3> QED
      BY <2>1, <3>1, <3>2, <3>3
  <2> QED
    BY <2>2, <2>3
<1>9. Owned(infile', pt', core')
  <2> SUFFICES ASSUME NEW q \in Frame, NEW a \in core'[q], NEW d \in core'[q]
               PROVE  IF infile'[a].ftype = "SWAP" THEN a = d
                      ELSE infile'[d].ftype # "SWAP" /\ infile'[a] = infile'[d]
                           /\ pt'[a] = pt'[d]
    BY DEF Owned
  <2>1. CASE q = p /\ ~disk
    <3>1. ASSUME NEW l \in core'[p]
          PROVE  infile'[l] = r /\ pt'[l] = y
      <4>1. CASE l = x
        BY <1>1, <1>3, <4>1
      <4>2. CASE l # x
        <5>1. FileOf(infile, l, fb)
          BY <1>4, <2>1, <4>2
        <5>2. l \in DOMAIN infile /\ infile[l] \in Infile /\ infile[l].ftype = "FILE_B"
          BY <1>0, <5>1, FInvTypes DEF FileOf
        <5>3. infile[l] = r
          BY <1>2, <5>1, <5>2, InfileEqual DEF FileOf
        <5> QED
          BY <1>0, <1>1, <1>3, <2>1, <4>2, <5>1, <5>2, <5>3
      <4> QED
        BY <4>1, <4>2
    <3> QED
      BY <1>2, <2>1, <3>1
  <2>2. CASE q # p \/ disk
    <3>1. a \in core[q] /\ d \in core[q]
      BY <1>0, <1>4, <2>2
    <3>2. /\ a \in DOMAIN infile /\ d \in DOMAIN infile /\ a # x /\ d # x
          /\ a \in Pte /\ d \in Pte
      BY <1>0, <3>1 DEF FInv, Agree, Cored, Loaded
    <3> QED
      BY <1>1, <1>3, <3>1, <3>2 DEF FInv, Agree, Owned
  <2> QED
    BY <2>1, <2>2
<1>10. \A l, f : FileOf(infile', l, f) <=> FileOf(infile, l, f) \/ (l = x /\ f = fb)
  BY <1>1, <1>2 DEF FileOf
<1>11. BlocksListed(infile', filemap')
  <2>1. \A l \in DOMAIN infile' : infile'[l].ftype # "SWAP" =>
                                  infile'[l].block \in DOMAIN filemap'
    BY <1>1, <1>2 DEF FInv, Agree, BlocksListed
  <2>2. ASSUME NEW f \in DOMAIN filemap', NEW l
        PROVE  l \in filemap'[f].vpset <=> FileOf(infile', l, f)
    <3>1. CASE f = fb
      BY <1>10, <3>1
    <3>2. CASE f # fb
      BY <1>10, <3>2 DEF FInv, Agree, BlocksListed
    <3> QED
      BY <3>1, <3>2
  <2> QED
    BY <2>1, <2>2 DEF BlocksListed
<1>12. BlocksMoveAsOne(infile', pt', filemap')
  <2> SUFFICES ASSUME NEW f \in DOMAIN filemap'
               PROVE  /\ \A a, d \in filemap'[f].vpset : infile'[a].infile <=> infile'[d].infile
                      /\ \A d \in filemap'[f].vpset : ~infile'[d].infile =>
                                                pt'[d].ppage = filemap'[f].ppage
    BY DEF BlocksMoveAsOne
  <2>1. CASE f = fb
    <3>1. ASSUME NEW l \in filemap'[fb].vpset
          PROVE  (infile'[l].infile <=> disk) /\ (~disk => pt'[l] = y)
      BY <1>0, <1>1, <1>2, <1>3, <3>1 DEF FileOf
    <3> QED
      BY <2>1, <3>1
  <2>2. CASE f # fb
    <3>1. f \in DOMAIN filemap /\ filemap'[f] = filemap[f]
      BY <2>2
    <3>2. \A l \in filemap[f].vpset : l \in DOMAIN infile /\ l \in Pte /\ l # x
      BY <1>0, <3>1 DEF FInv, Agree, BlocksListed, FileOf
    <3> QED
      BY <1>1, <1>3, <3>1, <3>2 DEF FInv, Agree, BlocksMoveAsOne
  <2> QED
    BY <2>1, <2>2
<1>13. GhostsListed(filemap', ghost')
  <2>1. x \in filemap'[fb].vpset
    OBVIOUS
  <2>2. ASSUME NEW f \in DOMAIN filemap', filemap'[f].vpset = {}
        PROVE  filemap'[f].ppage \in DOMAIN ghost' /\ ghost'[filemap'[f].ppage] = f
    <3>1. f # fb /\ f \in DOMAIN filemap /\ filemap'[f] = filemap[f]
      BY <2>1, <2>2
    <3> QED
      BY <2>2, <3>1 DEF FInv, Agree, GhostsListed
  <2>3. ASSUME NEW q \in DOMAIN ghost'
        PROVE  /\ ghost'[q] \in DOMAIN filemap'
               /\ filemap'[ghost'[q]].vpset = {}
               /\ filemap'[ghost'[q]].ppage = q
    BY <2>3 DEF FInv, Agree, GhostsListed
  <2> QED
    BY <2>2, <2>3 DEF GhostsListed
<1>14. Seen(infile', pt', psuff')
  <2> SUFFICES ASSUME NEW d \in Pte
               PROVE  /\ pt'[d].write_enable => pt'[d].read_enable
                      /\ pt'[d].read_enable /\ d \in DOMAIN infile' =>
                           /\ ~infile'[d].infile
                           /\ pt'[d].ppage # pinned => psuff[pt'[d].ppage].ref
                      /\ pt'[d].write_enable /\ d \in DOMAIN infile' =>
                           pt'[d].ppage # pinned /\ psuff[pt'[d].ppage].dirty
    BY DEF Seen
  <2>1. CASE d = x
    BY <1>0, <1>1, <1>2, <1>3, <2>1
  <2>2. CASE d # x
    BY <1>1, <1>3, <2>2 DEF FInv, Seen
  <2> QED
    BY <2>1, <2>2
<1>15. Saved(infile', core', ghost', psuff', phys', swap', file')
  <2> SUFFICES ASSUME NEW q \in Frame, ~psuff[q].dirty
               PROVE  /\ \A d \in core'[q] : DiskHolds(infile', d, swap, file, phys[q])
                      /\ q \in DOMAIN ghost' => file[ghost'[q]] = phys[q]
    BY DEF Saved
  <2>1. q \in DOMAIN ghost' => file[ghost'[q]] = phys[q]
    BY DEF FInv, Saved
  <2>2. ASSUME NEW d \in core'[q]
        PROVE  DiskHolds(infile', d, swap, file, phys[q])
    <3>1. CASE d = x
      <4>1. q = p /\ ~disk
        BY <1>0, <1>4, <1>6, <2>2, <3>1
      <4> QED
        BY <1>1, <1>2, <3>1, <4>1 DEF DiskHolds
    <3>2. CASE d # x
      <4>1. d \in core[q]
        BY <1>0, <1>4, <2>2, <3>2
      <4>2. d \in DOMAIN infile
        BY <1>0, <4>1 DEF FInv, Agree, Cored, Loaded
      <4> QED
        BY <1>1, <4>1, <4>2 DEF FInv, Saved, DiskHolds
    <3> QED
      BY <3>1, <3>2
  <2> QED
    BY <2>1, <2>2
<1>16. WasRead(infile', ghost', accessed')
  BY <1>1, <1>2 DEF FInv, WasRead
<1> QED
  BY <1>7, <1>8, <1>9, <1>11, <1>12, <1>13, <1>14, <1>15, <1>16 DEF FInv, Agree

\* Whether the block is mapped already, a ghost or on disk, the new page joins the
\* others that there are.
LEMMA MapFileJoins ==
  ASSUME FInv, Hidden,
         NEW v \in Vpage, NEW b \in FBlock, MapFile(v, b), ~StaleGhost(NamedBy(v, b))
  PROVE  /\ call.op \in {"run", "string"} /\ bound # NPages
         /\ NewEntry \in Pte \ DOMAIN infile /\ NamedBy(v, b) \in FileBlock
         /\ UNCHANGED <<free_ppage, psuff, phys, swap, file, accessed>>
         /\ \E disk \in BOOLEAN, y \in Entry :
              Joins(NewEntry, NamedBy(v, b), disk, y) /\ Fits(NamedBy(v, b), disk, y)
<1> DEFINE x  == NewEntry
           fb == NamedBy(v, b)
<1>1. call.op \in {"run", "string"} /\ bound # NPages
  <2>1. v \in 0..NPages
    BY SizeAssumption, PCntAssumption DEF Vpage
  <2>2. Str(v, b).op = "string"
    BY <2>1, CallsOK
  <2> QED
    BY <2>2 DEF MapFile, Reading, Idle, FInv, IInv, NameRoom
<1>2. x \in Pte \ DOMAIN infile
  <2>1. /\ curr_pid \in Pid /\ all_pt[curr_pid].size = bound /\ bound \in 0..NPages
    BY <1>1 DEF FInv, IInv, TypeOK, ProcOK, Maps
  <2>2. bound \in Vpage
    BY <1>1, <2>1, SizeAssumption, PCntAssumption DEF Vpage
  <2> QED
    BY <1>1, <2>1, <2>2, NewEntryFresh DEF FInv, NewEntry, Mine, Pte
<1>3. fb \in FileBlock
  <2>1. Mine(v) \in Pte
    BY <1>1, PermitsMapped, FInvTypes DEF MapFile, Readable
  <2>2. phys[pt[Mine(v)].ppage] \in Data
    BY <2>1, FInvTypes DEF Entry
  <2> QED
    BY <2>2, DataAssumption DEF NamedBy, FileBlock
<1>4. UNCHANGED <<free_ppage, psuff, phys, swap, file, accessed>>
  BY DEF MapFile, contents
<1>5. Remap(fb) \/ MapNew(fb)
  BY DEF MapFile
<1>6. ~(fb \in DOMAIN filemap /\ filemap[fb].ppage \in DOMAIN ghost
        /\ ghost[filemap[fb].ppage] # fb)
  BY DEF StaleGhost
<1>7. \A p \in DOMAIN ghost : ghost[p] = fb =>
        fb \in DOMAIN filemap /\ p = filemap[fb].ppage /\ filemap[fb].vpset = {}
  BY DEF FInv, Agree, GhostsListed
<1>8. ghost = [p \in DOMAIN ghost |-> ghost[p]]
  BY FInvTypes
<1> HIDE DEF x, fb
<1>9. ASSUME MapNew(fb)
      PROVE  \E disk \in BOOLEAN, y \in Entry : Joins(x, fb, disk, y) /\ Fits(fb, disk, y)
  <2> DEFINE r == [ftype |-> "FILE_B", infile |-> TRUE, block |-> fb]
  <2>1. /\ fb \notin DOMAIN filemap
        /\ filemap' = Put(filemap, fb, [ppage |-> pinned, vpset |-> {x}])
        /\ pt' = [pt EXCEPT ![x] = NullEntry]
        /\ infile' = Put(infile, x, r)
        /\ ghost' = ghost /\ core' = core
    BY <1>9 DEF MapNew, x
  <2>2. /\ DOMAIN filemap' = DOMAIN filemap \cup {fb}
        /\ filemap'[fb].vpset = {x}
        /\ \A f \in DOMAIN filemap \ {fb} : filemap'[f] = filemap[f]
    BY <2>1 DEF Put
  <2>3. \A l : ~FileOf(infile, l, fb)
    BY <2>1 DEF FInv, Agree, BlocksListed, FileOf
  <2>4. /\ NullEntry \in Entry
        /\ ~NullEntry.read_enable /\ ~NullEntry.write_enable
    BY EntryTypes DEF NullEntry
  <2>5. \A p \in DOMAIN ghost : ghost[p] # fb
    BY <1>7, <2>1
  <2>6. DOMAIN ghost' = {p \in DOMAIN ghost : ghost[p] # fb}
    BY <2>1, <2>5
  <2>7. TRUE \in BOOLEAN
    OBVIOUS
  <2>8. core' = IF TRUE THEN core ELSE [core EXCEPT ![NullEntry.ppage] = @ \cup {x}]
    BY <2>1
  <2>9. \A l : l \in filemap'[fb].vpset <=> l = x \/ FileOf(infile, l, fb)
    BY <2>2, <2>3
  <2>10. Joins(x, fb, TRUE, NullEntry)
    BY <2>1, <2>2, <2>6, <2>8, <2>9 DEF Joins
  <2>11. Fits(fb, TRUE, NullEntry)
    BY <2>3, <2>4, <2>5 DEF Fits
  <2> QED
    BY <2>4, <2>7, <2>10, <2>11
<1>10. ASSUME Remap(fb)
       PROVE  \E disk \in BOOLEAN, y \in Entry : Joins(x, fb, disk, y) /\ Fits(fb, disk, y)
  <2> DEFINE p      == filemap[fb].ppage
             others == filemap[fb].vpset
             d      == First(others)
             disk   == others # {} /\ infile[d].infile
             y      == IF p \in DOMAIN ghost
                       THEN [ppage |-> p, read_enable |-> psuff[p].ref,
                             write_enable |-> psuff[p].ref /\ psuff[p].dirty]
                       ELSE pt[d]
             r      == [ftype |-> "FILE_B", infile |-> disk, block |-> fb]
  <2>1. /\ fb \in DOMAIN filemap
        /\ p \in DOMAIN ghost \/ others # {}
        /\ ghost' = Drop(ghost, {p})
        /\ pt' = [pt EXCEPT ![x] = y]
        /\ infile' = Put(infile, x, r)
        /\ core' = IF disk THEN core ELSE [core EXCEPT ![y.ppage] = @ \cup {x}]
        /\ filemap' = [filemap EXCEPT ![fb].vpset = @ \cup {x}]
    BY <1>10 DEF Remap, x
  <2>2. filemap[fb] \in Fbp /\ p \in Ppage
    BY <2>1, FInvTypes DEF Fbp
  <2>3. /\ DOMAIN filemap' = DOMAIN filemap \cup {fb}
        /\ filemap'[fb].vpset = others \cup {x}
        /\ filemap'[fb].ppage = p
        /\ \A f \in DOMAIN filemap \ {fb} : filemap'[f] = filemap[f]
    BY <2>1, <2>2 DEF Fbp
  <2>4. \A l : l \in others <=> FileOf(infile, l, fb)
    BY <2>1 DEF FInv, Agree, BlocksListed
  <2>5. others # {} => d \in others
    BY DEF First
  <2>6. p \in DOMAIN ghost => ghost[p] = fb /\ others = {}
    BY <1>6, <1>7, <2>1
  <2>7. DOMAIN ghost' = DOMAIN ghost \ {p} /\ \A q \in DOMAIN ghost' : ghost'[q] = ghost[q]
    BY <2>1 DEF Drop, Restrict
  <2>8. DOMAIN ghost' = {q \in DOMAIN ghost : ghost[q] # fb}
    BY <1>7, <2>6, <2>7
  <2>9. \A l : l \in filemap'[fb].vpset <=> l = x \/ FileOf(infile, l, fb)
    BY <2>3, <2>4
  <2>10. disk \in BOOLEAN
    BY <2>4, <2>5, FInvTypes, InfileFields DEF FileOf
  <2>11. y \in Entry
    <3>1. CASE p \in DOMAIN ghost
      <4>1. psuff[p] \in Ppb
        BY <3>1, FInvTypes
      <4> QED
        BY <2>2, <3>1, <4>1 DEF Entry, Ppb
    <3>2. CASE p \notin DOMAIN ghost
      BY <2>1, <2>4, <2>5, <3>2, FInvTypes DEF FileOf
    <3> QED
      BY <3>1, <3>2
  <2>12. \A l : FileOf(infile, l, fb) => /\ infile[l].infile <=> disk
                                         /\ ~disk => pt[l] = y
    <3> SUFFICES ASSUME NEW l \in others
                 PROVE  /\ infile[l].infile <=> disk
                        /\ ~disk => pt[l] = y
      BY <2>4
    <3>1. d \in others /\ p \notin DOMAIN ghost /\ y = pt[d]
      BY <2>5, <2>6
    <3>2. infile[l].infile <=> infile[d].infile
      BY <2>1, <3>1 DEF FInv, Agree, BlocksMoveAsOne
    <3>3. ~disk => l \in core[p] /\ d \in core[p] /\ p \in Frame
      <4>1. \A e \in others : ~infile[e].infile => pt[e].ppage = p
        BY <2>1 DEF FInv, Agree, BlocksMoveAsOne
      <4>2. l \in DOMAIN infile /\ d \in DOMAIN infile /\ infile[d].ftype # "SWAP"
        BY <2>4, <3>1 DEF FileOf
      <4>3. ~disk => pt[d].ppage # pinned
        BY <3>1, <4>2 DEF FInv, IInv, FileFrames, IsSwap, Resident
      <4> QED
        BY <2>2, <3>1, <3>2, <4>1, <4>2, <4>3
        DEF FInv, Agree, Cored, Loaded, Frame
    <3>4. ~disk => pt[l] = pt[d]
      BY <2>4, <3>1, <3>3 DEF FInv, Agree, Owned, FileOf
    <3> QED
      BY <3>1, <3>2, <3>4
  <2>13. \A q \in DOMAIN ghost : ghost[q] = fb => ~disk /\ q = y.ppage
    BY <1>7
  <2>14. ASSUME ~disk
         PROVE  /\ y.ppage \in Frame
                /\ y.ppage = filemap'[fb].ppage
                /\ y.ppage \notin Free \cup DOMAIN ghost'
                /\ fb \in accessed
                /\ ~psuff[y.ppage].dirty => file[fb] = phys[y.ppage]
                /\ \A a \in core[y.ppage] : FileOf(infile, a, fb)
    <3>1. CASE p \in DOMAIN ghost
      <4>1. y.ppage = p /\ p \in Frame /\ core[p] = {} /\ p \notin Free /\ ghost[p] = fb
        BY <2>6, <3>1, FInvTypes DEF FInv, Agree, Parted
      <4> QED
        BY <2>3, <2>7, <3>1, <4>1 DEF FInv, WasRead, Saved
    <3>2. CASE p \notin DOMAIN ghost
      <4>1. d \in others /\ y = pt[d] /\ FileOf(infile, d, fb) /\ ~infile[d].infile
        BY <2>1, <2>4, <2>5, <2>14, <3>2
      <4>2. pt[d].ppage = p
        BY <2>1, <4>1 DEF FInv, Agree, BlocksMoveAsOne
      <4>3. p \in Frame
        BY <2>2, <4>1, <4>2
        DEF FileOf, FInv, IInv, FileFrames, IsSwap, Resident, Frame
      <4>4. d \in core[p]
        BY <2>2, <4>1, <4>2 DEF FileOf, FInv, Agree, Cored, Loaded
      <4>5. p \notin Free
        BY <4>3, <4>4 DEF FInv, Agree, Parted
      <4>6. fb \in accessed
        BY <4>1 DEF FileOf, FInv, WasRead
      <4>7. ~psuff[p].dirty => file[fb] = phys[p]
        BY <4>1, <4>3, <4>4 DEF FileOf, FInv, Saved, DiskHolds
      <4>8. ASSUME NEW a \in core[p]
            PROVE  FileOf(infile, a, fb)
        BY <2>2, <4>1, <4>3, <4>4 DEF FileOf, FInv, Agree, Owned, Cored, Loaded
      <4> QED
        BY <2>3, <2>7, <3>2, <4>1, <4>2, <4>3, <4>5, <4>6, <4>7, <4>8
    <3> QED
      BY <3>1, <3>2
  <2>15. /\ y.write_enable => y.read_enable /\ psuff[y.ppage].dirty
         /\ y.read_enable => ~disk /\ psuff[y.ppage].ref
    <3>1. CASE p \in DOMAIN ghost
      BY <2>6, <3>1
    <3>2. CASE p \notin DOMAIN ghost
      <4>1. d \in others /\ y = pt[d] /\ d \in DOMAIN infile /\ d \in Pte
        BY <2>1, <2>4, <2>5, <3>2, FInvTypes DEF FileOf
      <4>2. y.read_enable => ~disk
        BY <4>1 DEF FInv, Seen
      <4>3. ~disk => y.ppage # pinned
        BY <2>14, FInvTypes
      <4> QED
        BY <4>1, <4>2, <4>3 DEF FInv, Seen
    <3> QED
      BY <3>1, <3>2
  <2>16. Joins(x, fb, disk, y)
    BY <2>1, <2>3, <2>7, <2>8, <2>9 DEF Joins
  <2>17. Fits(fb, disk, y)
    <3> HIDE DEF y, disk
    <3> QED
      BY <2>12, <2>13, <2>14, <2>15 DEF Fits
  <2> HIDE DEF y, disk
  <2> QED
    BY <2>10, <2>11, <2>16, <2>17
<1>11. \E disk \in BOOLEAN, y \in Entry : Joins(x, fb, disk, y) /\ Fits(fb, disk, y)
  BY <1>5, <1>9, <1>10
<1> QED
  BY <1>1, <1>2, <1>3, <1>4, <1>11 DEF x, fb

LEMMA MapFileAgrees ==
  ASSUME FInv, IInv', SwapReserved', Hidden,
         NEW v \in Vpage, NEW b \in FBlock, MapFile(v, b), ~StaleGhost(NamedBy(v, b))
  PROVE  FInv'
<1> DEFINE x  == NewEntry
           fb == NamedBy(v, b)
<1>1. /\ x \in Pte \ DOMAIN infile /\ fb \in FileBlock
      /\ UNCHANGED <<free_ppage, psuff, phys, swap, file, accessed>>
      /\ \E disk \in BOOLEAN, y \in Entry : Joins(x, fb, disk, y) /\ Fits(fb, disk, y)
  BY MapFileJoins
<1> HIDE DEF x, fb
<1>2. PICK disk \in BOOLEAN, y \in Entry : Joins(x, fb, disk, y) /\ Fits(fb, disk, y)
  BY <1>1
<1> QED
  BY <1>1, <1>2, JoinAgrees

-----------------------------------------------------------------------------
(* vm_map of a swap page.                                                  *)

LEMMA MapSwapAgrees ==
  ASSUME FInv, IInv', SwapReserved', MapSwap
  PROVE  FInv'
<1> DEFINE x == NewEntry
           k == Head(free_block)
           y == [ppage |-> pinned, read_enable |-> TRUE, write_enable |-> FALSE]
           r == [ftype |-> "SWAP", infile |-> FALSE, block |-> k]
<1>1. call.op = "run" /\ bound # NPages
  BY DEF MapSwap, Idle
<1>2. x \in Pte \ DOMAIN infile
  <2>1. /\ curr_pid \in Pid /\ all_pt[curr_pid].size = bound /\ bound \in 0..NPages
    BY <1>1 DEF FInv, IInv, TypeOK, ProcOK, Maps
  <2>2. bound \in Vpage
    BY <1>1, <2>1, SizeAssumption, PCntAssumption DEF Vpage
  <2> QED
    BY <1>1, <2>1, <2>2, NewEntryFresh DEF FInv, NewEntry, Mine, Pte
<1>3. /\ infile' = Put(infile, x, r)
      /\ pt' = [pt EXCEPT ![x] = y]
      /\ core' = [core EXCEPT ![pinned] = @ \cup {x}]
      /\ UNCHANGED <<free_ppage, psuff, ghost, filemap, phys, swap, file, accessed>>
  BY DEF MapSwap, contents
<1>4. r.ftype = "SWAP" /\ r.infile = FALSE
  OBVIOUS
<1>5. y.ppage = pinned /\ ~y.write_enable
  OBVIOUS
<1> HIDE DEF x, k, y, r
<1>6. /\ DOMAIN infile \subseteq Pte /\ pt \in [Pte -> Entry]
      /\ core \in [Ppage -> SUBSET Pte]
      /\ Frame \subseteq Ppage /\ pinned \notin Frame /\ pinned \in Ppage
  BY FInvTypes
<1>7. /\ DOMAIN infile' = DOMAIN infile \cup {x}
      /\ infile'[x] = r
      /\ \A l \in DOMAIN infile : infile'[l] = infile[l]
  BY <1>2, <1>3 DEF Put
<1>8. pt'[x] = y /\ \A l \in Pte \ {x} : pt'[l] = pt[l]
  BY <1>2, <1>3, <1>6
<1>9. /\ \A q \in Ppage \ {pinned} : core'[q] = core[q]
      /\ core'[pinned] = core[pinned] \cup {x}
  BY <1>3, <1>6
<1>10. \A q \in Frame : core'[q] = core[q]
  BY <1>6, <1>9
<1>11. Free' = Free
  BY <1>3 DEF Free
<1>12. Parted(core', ghost', Free', {})
  BY <1>3, <1>10, <1>11 DEF FInv, Agree, Parted
<1>13. Cored(infile', pt', core')
  <2> SUFFICES ASSUME NEW q \in Ppage, NEW l
               PROVE  l \in core'[q] <=> Loaded(infile', l) /\ pt'[l].ppage = q
    BY DEF Cored
  <2>1. l \in core[q] <=> Loaded(infile, l) /\ pt[l].ppage = q
    BY DEF FInv, Agree, Cored
  <2>2. CASE l = x
    BY <1>2, <1>4, <1>5, <1>7, <1>8, <1>9, <2>1, <2>2 DEF Loaded
  <2>3. CASE l # x
    <3>1. Loaded(infile', l) <=> Loaded(infile, l)
      BY <1>7, <2>3 DEF Loaded
    <3>2. Loaded(infile, l) => pt'[l] = pt[l]
      BY <1>6, <1>8, <2>3 DEF Loaded
    <3>3. l \in core'[q] <=> l \in core[q]
      BY <1>9, <2>3
    <3> QED
      BY <2>1, <3>1, <3>2, <3>3
  <2> QED
    BY <2>2, <2>3
<1>14. \A q \in Frame : \A l \in core[q] : /\ l \in DOMAIN infile /\ l \in Pte /\ l # x
                                           /\ infile'[l] = infile[l] /\ pt'[l] = pt[l]
  BY <1>2, <1>6, <1>7, <1>8 DEF FInv, Agree, Cored, Loaded
<1>15. Owned(infile', pt', core')
  BY <1>10, <1>14 DEF FInv, Agree, Owned
<1>16. \A l, f : FileOf(infile', l, f) <=> FileOf(infile, l, f)
  BY <1>2, <1>4, <1>7 DEF FileOf
<1>17. BlocksListed(infile', filemap')
  BY <1>3, <1>4, <1>7, <1>16 DEF FInv, Agree, BlocksListed
<1>18. BlocksMoveAsOne(infile', pt', filemap')
  <2>1. \A f \in DOMAIN filemap : \A l \in filemap[f].vpset :
          infile'[l] = infile[l] /\ pt'[l] = pt[l]
    BY <1>2, <1>6, <1>7, <1>8 DEF FInv, Agree, BlocksListed, FileOf
  <2> QED
    BY <1>3, <2>1 DEF FInv, Agree, BlocksMoveAsOne
<1>19. Seen(infile', pt', psuff')
  <2> SUFFICES ASSUME NEW d \in Pte
               PROVE  /\ pt'[d].write_enable => pt'[d].read_enable
                      /\ pt'[d].read_enable /\ d \in DOMAIN infile' =>
                           /\ ~infile'[d].infile
                           /\ pt'[d].ppage # pinned => psuff[pt'[d].ppage].ref
                      /\ pt'[d].write_enable /\ d \in DOMAIN infile' =>
                           pt'[d].ppage # pinned /\ psuff[pt'[d].ppage].dirty
    BY <1>3 DEF Seen
  <2>1. CASE d = x
    BY <1>4, <1>5, <1>7, <1>8, <2>1
  <2>2. CASE d # x
    BY <1>7, <1>8, <2>2 DEF FInv, Seen
  <2> QED
    BY <2>1, <2>2
<1>20. Saved(infile', core', ghost', psuff', phys', swap', file')
  BY <1>3, <1>10, <1>14 DEF FInv, Saved, DiskHolds
<1>21. WasRead(infile', ghost', accessed')
  BY <1>3, <1>4, <1>7 DEF FInv, WasRead
<1> QED
  BY <1>3, <1>12, <1>13, <1>15, <1>17, <1>18, <1>19, <1>20, <1>21 DEF FInv, Agree

-----------------------------------------------------------------------------
(* vm_discard.                                                             *)

LEMMA DestroyPageAgrees ==
  ASSUME FInv, IInv', SwapReserved', NEW v, DestroyPage(v)
  PROVE  FInv'
<1> DEFINE e == Mine(v)
           b == infile[e]
           p == pt[e].ppage
<1>1. Recorded(e) /\ DiscardBacking(e) /\ DiscardFrame(e) /\ infile' = Drop(infile, {e})
  BY DEF DestroyPage, vm_discard
<1>2. UNCHANGED <<pt, phys, swap, file, accessed>>
  BY DEF DestroyPage, contents
<1> HIDE DEF e
<1>3. /\ e \in DOMAIN infile /\ e \in Pte /\ b \in Infile /\ pt[e] \in Entry
      /\ p \in Ppage
      /\ core \in [Ppage -> SUBSET Pte] /\ psuff \in [Frame -> Ppb]
      /\ Frame \subseteq Ppage /\ pinned \notin Frame /\ pinned \in Ppage
      /\ DOMAIN infile \subseteq Pte /\ free_ppage \in Seq(Frame)
  BY <1>1, FInvTypes DEF Recorded, Entry, FInv, IInv, TypeOK, FramesOK
<1>4. /\ b.ftype \in {"SWAP", "FILE_B"}
      /\ b.ftype # "SWAP" => b.block \in DOMAIN filemap /\ filemap[b.block] \in Fbp
  BY <1>1, <1>3, FInvTypes, InfileFields DEF Recorded
<1>5. ~b.infile => e \in core[p]
  BY <1>3 DEF FInv, Agree, Cored, Loaded
<1>6. \A q \in Ppage : e \in core[q] => ~b.infile /\ q = p
  BY DEF FInv, Agree, Cored, Loaded
<1>7. Sole(core[p]) /\ ~b.infile => core[p] = {e}
  BY <1>5 DEF Sole
<1>8. ~Shared(core[p]) /\ ~b.infile => core[p] = {e}
  BY <1>5 DEF Shared
<1>9. core[p] = {e} => Sole(core[p])
  BY DEF Sole
<1>10. \A q \in Ppage : core'[q] = core[q] \ {e}
  <2>1. CASE b.infile
    BY <1>1, <1>6, <2>1 DEF DiscardFrame
  <2>2. CASE ~b.infile
    <3>1. core' = [core EXCEPT ![p] = IF Shared(core[p]) THEN core[p] \ {e} ELSE {}]
      BY <1>1, <1>3, <2>2 DEF DiscardFrame
    <3> QED
      BY <1>3, <1>6, <1>8, <2>2, <3>1
  <2> QED
    BY <2>1, <2>2
<1>11. /\ DOMAIN infile' = DOMAIN infile \ {e}
       /\ \A l \in DOMAIN infile' : infile'[l] = infile[l]
  BY <1>1 DEF Drop, Restrict
<1>12. p \in Frame /\ ~b.infile /\ b.ftype = "SWAP" => core[p] = {e}
  BY <1>5 DEF FInv, Agree, Owned
<1>13. ~b.infile /\ b.ftype # "SWAP" => p \in Frame
  BY <1>3 DEF FInv, IInv, FileFrames, IsSwap, Resident, Frame
<1> DEFINE frees == ~b.infile /\ b.ftype = "SWAP" /\ p # pinned
           ghosts == ~b.infile /\ b.ftype # "SWAP" /\ core[p] = {e}
<1>14. IF frees THEN /\ free_ppage' = Append(free_ppage, p)
                     /\ psuff' = [psuff EXCEPT ![p] = [ref |-> FALSE, dirty |-> FALSE]]
       ELSE UNCHANGED <<free_ppage, psuff>>
  <2>1. frees => core[p] = {e}
    BY <1>3, <1>12 DEF Frame
  <2>2. ~b.infile => (FreesFrame(e) <=> frees)
    BY <1>9, <2>1 DEF FreesFrame
  <2> QED
    BY <1>1, <2>2 DEF DiscardFrame
<1>15. ghost' = IF ghosts THEN Put(ghost, p, b.block) ELSE ghost
  <2>1. b.ftype # "SWAP" <=> b.ftype = "FILE_B"
    BY <1>4
  <2> QED
    BY <1>1, <1>7, <1>9, <2>1 DEF DiscardFrame
<1>16. IF b.ftype = "SWAP" THEN filemap' = filemap
       ELSE filemap' = IF b.infile /\ filemap[b.block].vpset \subseteq {e}
                       THEN Drop(filemap, {b.block})
                       ELSE [filemap EXCEPT ![b.block].vpset = @ \ {e}]
  BY <1>1, <1>4 DEF DiscardBacking
<1> DEFINE gone == b.ftype # "SWAP" /\ b.infile /\ filemap[b.block].vpset \subseteq {e}
<1>17. \A f \in DOMAIN filemap : e \in filemap[f].vpset <=> b.ftype # "SWAP" /\ b.block = f
  BY <1>3 DEF FInv, Agree, BlocksListed, FileOf
<1>18. /\ DOMAIN filemap' = IF gone THEN DOMAIN filemap \ {b.block} ELSE DOMAIN filemap
       /\ \A f \in DOMAIN filemap' : /\ filemap'[f].vpset = filemap[f].vpset \ {e}
                                     /\ filemap'[f].ppage = filemap[f].ppage
  <2>1. CASE b.ftype = "SWAP"
    BY <1>16, <1>17, <2>1
  <2>2. CASE gone
    <3>1. filemap' = Drop(filemap, {b.block})
      BY <1>16, <2>2
    <3> QED
      BY <1>17, <2>2, <3>1 DEF Drop, Restrict
  <2>3. CASE b.ftype # "SWAP" /\ ~gone
    <3>1. filemap' = [filemap EXCEPT ![b.block].vpset = @ \ {e}]
      BY <1>16, <2>3
    <3> QED
      BY <1>4, <1>17, <2>3, <3>1 DEF Fbp
  <2> QED
    BY <2>1, <2>2, <2>3
<1>19. ~b.infile /\ b.ftype # "SWAP" =>
         \A l : l \in filemap[b.block].vpset <=> l \in core[p]
  <2> SUFFICES ASSUME ~b.infile, b.ftype # "SWAP", NEW l
               PROVE  l \in filemap[b.block].vpset <=> l \in core[p]
    OBVIOUS
  <2>1. e \in core[p] /\ p \in Frame /\ e \in filemap[b.block].vpset
    BY <1>4, <1>5, <1>13, <1>17
  <2>2. ASSUME l \in core[p]
        PROVE  l \in filemap[b.block].vpset
    <3>1. l \in DOMAIN infile /\ infile[l] = b
      BY <1>3, <2>1, <2>2 DEF FInv, Agree, Owned, Cored, Loaded
    <3> QED
      BY <1>4, <3>1 DEF FInv, Agree, BlocksListed, FileOf
  <2>3. ASSUME l \in filemap[b.block].vpset
        PROVE  l \in core[p]
    <3>1. l \in DOMAIN infile /\ ~infile[l].infile
      BY <1>4, <2>1, <2>3 DEF FInv, Agree, BlocksListed, BlocksMoveAsOne, FileOf
    <3>2. pt[l].ppage = filemap[b.block].ppage /\ p = filemap[b.block].ppage
      BY <1>4, <2>1, <2>3, <3>1 DEF FInv, Agree, BlocksMoveAsOne
    <3> QED
      BY <1>3, <3>1, <3>2 DEF FInv, Agree, Cored, Loaded
  <2> QED
    BY <2>2, <2>3
<1>20. ~b.infile /\ b.ftype # "SWAP" => filemap[b.block].ppage = p
  BY <1>4, <1>17 DEF FInv, Agree, BlocksMoveAsOne
<1>21. frees => p \in Frame /\ core[p] = {e}
  BY <1>3, <1>12 DEF Frame
<1>22. ghosts => p \in Frame
  BY <1>13
<1>23. frees \/ ghosts => p \notin Free /\ p \notin DOMAIN ghost
  BY <1>21, <1>22 DEF FInv, Agree, Parted
<1>24. IsInjective(free_ppage') /\ Free' = IF frees THEN Free \cup {p} ELSE Free
  <2>1. CASE frees
    <3>1. p \notin Range(free_ppage) /\ IsInjective(free_ppage)
      BY <1>23, <2>1 DEF Free, FInv
    <3>2. free_ppage' = Append(free_ppage, p) /\ free_ppage \in Seq(Frame) /\ p \in Frame
      BY <1>3, <1>14, <1>21, <2>1
    <3> HIDE DEF p, frees
    <3>3. IsInjective(free_ppage') /\ Range(free_ppage') = Range(free_ppage) \cup {p}
      BY <3>1, <3>2, Appended
    <3> QED
      BY <2>1, <3>3 DEF Free
  <2>2. CASE ~frees
    BY <1>14, <2>2 DEF Free, FInv
  <2> QED
    BY <2>1, <2>2
<1>25. /\ DOMAIN ghost' = IF ghosts THEN DOMAIN ghost \cup {p} ELSE DOMAIN ghost
       /\ ghosts => ghost'[p] = b.block
       /\ \A q \in DOMAIN ghost : ghost'[q] = ghost[q]
  BY <1>15, <1>23 DEF Put
<1>26. frees => ~ghosts
  OBVIOUS
<1>27. /\ \A q \in Frame : (frees => q # p) => psuff'[q] = psuff[q]
       /\ frees => ~psuff'[p].dirty
  BY <1>3, <1>14, <1>21
<1>28. ghosts \/ gone => b.ftype # "SWAP"
  OBVIOUS
<1>29. gone => b.infile /\ filemap[b.block].vpset \subseteq {e}
  OBVIOUS
<1>30. b.infile => ~frees /\ ~ghosts
  OBVIOUS
<1>31. ghosts => ~b.infile /\ core[p] = {e}
  OBVIOUS
<1>32. \A q \in Frame : core[q] = {e} => q = p /\ (frees \/ ghosts)
  BY <1>3, <1>6
<1> HIDE DEF b, p, frees, ghosts, gone
<1>33. Parted(core', ghost', Free', {})
  <2> SUFFICES ASSUME NEW q \in Frame
               PROVE  /\ q \in Free' => q \notin DOMAIN ghost' /\ core'[q] = {}
                      /\ q \in DOMAIN ghost' => core'[q] = {}
                      /\ q \in Free' \cup DOMAIN ghost' \/ core'[q] # {}
    BY DEF Parted
  <2>1. CASE q = p /\ (frees \/ ghosts)
    BY <1>3, <1>10, <1>21, <1>23, <1>24, <1>25, <1>26, <1>31, <2>1
  <2>2. CASE ~(q = p /\ (frees \/ ghosts))
    <3>1. (q \in Free' <=> q \in Free) /\ (q \in DOMAIN ghost' <=> q \in DOMAIN ghost)
      BY <1>24, <1>25, <2>2
    <3>2. core'[q] = core[q] \ {e} /\ core[q] # {e}
      BY <1>3, <1>10, <1>32, <2>2
    <3> QED
      BY <3>1, <3>2 DEF FInv, Agree, Parted
  <2> QED
    BY <2>1, <2>2
<1>34. Cored(infile', pt', core')
  BY <1>2, <1>10, <1>11 DEF FInv, Agree, Cored, Loaded
<1>35. Owned(infile', pt', core')
  <2>1. \A q \in Frame : \A l \in core'[q] : l \in core[q] /\ infile'[l] = infile[l]
    BY <1>3, <1>10, <1>11 DEF FInv, Agree, Cored, Loaded
  <2> QED
    BY <1>2, <2>1 DEF FInv, Agree, Owned
<1>36. \A l, f : FileOf(infile', l, f) <=> FileOf(infile, l, f) /\ l # e
  BY <1>11 DEF FileOf
<1>37. BlocksListed(infile', filemap')
  <2>1. ASSUME NEW l \in DOMAIN infile', infile'[l].ftype # "SWAP"
        PROVE  infile'[l].block \in DOMAIN filemap'
    <3>1. infile[l].block \in DOMAIN filemap /\ l \in filemap[infile[l].block].vpset /\ l # e
      BY <1>11, <2>1 DEF FInv, Agree, BlocksListed, FileOf
    <3> QED
      BY <1>11, <1>18, <1>29, <3>1
  <2> QED
    BY <1>18, <1>36, <2>1 DEF FInv, Agree, BlocksListed
<1>38. BlocksMoveAsOne(infile', pt', filemap')
  <2>1. \A f \in DOMAIN filemap' : f \in DOMAIN filemap
    BY <1>18
  <2>2. \A f \in DOMAIN filemap' : \A l \in filemap'[f].vpset :
          l \in filemap[f].vpset /\ infile'[l] = infile[l]
    BY <1>11, <1>18, <2>1 DEF FInv, Agree, BlocksListed, FileOf
  <2> QED
    BY <1>2, <1>18, <2>1, <2>2 DEF FInv, Agree, BlocksMoveAsOne
<1>39. GhostsListed(filemap', ghost')
  <2>1. ASSUME NEW f \in DOMAIN filemap', filemap'[f].vpset = {}
        PROVE  filemap'[f].ppage \in DOMAIN ghost' /\ ghost'[filemap'[f].ppage] = f
    <3>1. f \in DOMAIN filemap /\ filemap[f].vpset \subseteq {e}
      BY <1>18, <2>1
    <3>2. CASE filemap[f].vpset = {}
      BY <1>18, <1>25, <2>1, <3>1, <3>2 DEF FInv, Agree, GhostsListed
    <3>3. CASE filemap[f].vpset = {e}
      <4>1. b.ftype # "SWAP" /\ b.block = f
        BY <1>17, <3>1, <3>3
      <4>2. ~b.infile
        BY <1>18, <3>3, <4>1 DEF gone
      <4>3. core[p] = {e}
        BY <1>19, <3>3, <4>1, <4>2
      <4>4. ghosts
        BY <4>1, <4>2, <4>3 DEF ghosts
      <4> QED
        BY <1>18, <1>20, <1>25, <4>1, <4>2, <4>4
    <3> QED
      BY <3>1, <3>2, <3>3
  <2>2. ASSUME NEW q \in DOMAIN ghost'
        PROVE  /\ ghost'[q] \in DOMAIN filemap'
               /\ filemap'[ghost'[q]].vpset = {}
               /\ filemap'[ghost'[q]].ppage = q
    <3>1. CASE q \in DOMAIN ghost
      <4>1. /\ ghost'[q] = ghost[q] /\ ghost[q] \in DOMAIN filemap
            /\ filemap[ghost[q]].vpset = {} /\ filemap[ghost[q]].ppage = q
        BY <1>25, <3>1 DEF FInv, Agree, GhostsListed
      <4>2. gone => b.block # ghost[q]
        BY <1>17, <1>28, <4>1
      <4> QED
        BY <1>18, <4>1, <4>2
    <3>2. CASE q \notin DOMAIN ghost
      <4>1. q = p /\ ghosts /\ ghost'[q] = b.block
        BY <1>25, <3>2
      <4>2. /\ b.block \in DOMAIN filemap' /\ b.block \in DOMAIN filemap
            /\ filemap[b.block].ppage = p
        BY <1>4, <1>18, <1>20, <1>28, <1>29, <1>31, <4>1
      <4>3. filemap[b.block].vpset \subseteq {e}
        BY <1>19, <1>28, <1>31, <4>1
      <4> QED
        BY <1>18, <4>1, <4>2, <4>3
    <3> QED
      BY <3>1, <3>2
  <2> QED
    BY <2>1, <2>2 DEF GhostsListed
<1>40. Seen(infile', pt', psuff')
  <2> SUFFICES ASSUME NEW d \in Pte
               PROVE  /\ pt[d].write_enable => pt[d].read_enable
                      /\ pt[d].read_enable /\ d \in DOMAIN infile' =>
                           /\ ~infile'[d].infile
                           /\ pt[d].ppage # pinned => psuff'[pt[d].ppage].ref
                      /\ pt[d].write_enable /\ d \in DOMAIN infile' =>
                           pt[d].ppage # pinned /\ psuff'[pt[d].ppage].dirty
    BY <1>2 DEF Seen
  <2>1. pt[d].write_enable => pt[d].read_enable
    BY DEF FInv, Seen
  <2>2. ASSUME pt[d].read_enable, d \in DOMAIN infile'
        PROVE  /\ ~infile'[d].infile
               /\ pt[d].ppage # pinned => psuff'[pt[d].ppage] = psuff[pt[d].ppage]
    <3>1. d \in DOMAIN infile /\ d # e /\ ~infile[d].infile /\ infile'[d] = infile[d]
      BY <1>11, <2>2 DEF FInv, Seen
    <3>2. pt[d].ppage \in Ppage
      BY FInvTypes DEF Entry
    <3>3. d \in core[pt[d].ppage]
      BY <3>1, <3>2 DEF FInv, Agree, Cored, Loaded
    <3>4. frees => pt[d].ppage # p
      BY <1>21, <3>1, <3>3
    <3> QED
      BY <1>27, <3>1, <3>2, <3>4 DEF Frame
  <2> QED
    BY <1>11, <2>1, <2>2 DEF FInv, Seen
<1>41. Saved(infile', core', ghost', psuff', phys', swap', file')
  <2> SUFFICES ASSUME NEW q \in Frame, ~psuff'[q].dirty
               PROVE  /\ \A d \in core'[q] : DiskHolds(infile', d, swap, file, phys[q])
                      /\ q \in DOMAIN ghost' => file[ghost'[q]] = phys[q]
    BY <1>2 DEF Saved
  <2>1. CASE frees /\ q = p
    BY <1>3, <1>10, <1>21, <1>23, <1>25, <1>26, <2>1
  <2>2. CASE ~(frees /\ q = p)
    <3>1. ~psuff[q].dirty
      BY <1>27, <2>2
    <3>2. \A d \in core'[q] : d \in core[q] /\ infile'[d] = infile[d]
      BY <1>3, <1>10, <1>11 DEF FInv, Agree, Cored, Loaded
    <3>3. \A d \in core'[q] : DiskHolds(infile', d, swap, file, phys[q])
      BY <3>1, <3>2 DEF FInv, Saved, DiskHolds
    <3>4. CASE q \in DOMAIN ghost
      BY <1>25, <3>1, <3>3, <3>4 DEF FInv, Saved
    <3>5. CASE q \notin DOMAIN ghost /\ q \in DOMAIN ghost'
      <4>1. q = p /\ ghosts /\ ghost'[q] = b.block /\ e \in core[q] /\ b.ftype # "SWAP"
        BY <1>25, <1>28, <1>31, <3>5
      <4>2. DiskHolds(infile, e, swap, file, phys[q])
        BY <3>1, <4>1 DEF FInv, Saved
      <4>3. file[b.block] = phys[q]
        BY <4>1, <4>2 DEF DiskHolds, b
      <4> QED
        BY <3>3, <4>1, <4>3
    <3> QED
      BY <3>3, <3>4, <3>5
  <2> QED
    BY <2>1, <2>2
<1>42. WasRead(infile', ghost', accessed')
  <2>1. ghosts => b.block \in accessed
    BY <1>3, <1>28, <1>31 DEF FInv, WasRead, b
  <2> QED
    BY <1>2, <1>11, <1>25, <2>1 DEF FInv, WasRead
<1> QED
  BY <1>2, <1>24, <1>33, <1>34, <1>35, <1>37, <1>38, <1>39, <1>40, <1>41, <1>42
  DEF FInv, Agree

-----------------------------------------------------------------------------
(* Page tables come and go.                                                *)

\* The table of a process that has no pages is made or freed.
LEMMA TableAgrees ==
  ASSUME FInv, IInv', SwapReserved', NEW p,
         \A e \in DOMAIN infile : e[1] # p,
         pt' = [e \in Pte |-> IF e[1] = p THEN NullEntry ELSE pt[e]],
         UNCHANGED <<free_ppage, psuff, ghost, core, infile, filemap>>,
         UNCHANGED <<phys, swap, file, accessed>>
  PROVE  FInv'
<1>1. Free' = Free
  BY DEF Free
<1>2. DOMAIN infile \subseteq Pte
  BY FInvTypes
<1>3. \A e \in DOMAIN infile : pt'[e] = pt[e]
  BY <1>2
<1>4. Cored(infile, pt', core)
  BY <1>3 DEF FInv, Agree, Cored, Loaded
<1>5. Owned(infile, pt', core)
  <2>1. \A q \in Frame : \A e \in core[q] : e \in DOMAIN infile
    BY FInvTypes DEF FInv, Agree, Cored, Loaded
  <2> QED
    BY <1>3, <2>1 DEF FInv, Agree, Owned
<1>6. BlocksMoveAsOne(infile, pt', filemap)
  BY <1>3 DEF FInv, Agree, BlocksMoveAsOne, BlocksListed, FileOf
<1>7. Seen(infile, pt', psuff)
  <2>1. ~NullEntry.read_enable /\ ~NullEntry.write_enable
    BY DEF NullEntry
  <2> QED
    BY <1>3, <2>1 DEF FInv, Seen
<1> QED
  BY <1>1, <1>4, <1>5, <1>6, <1>7 DEF FInv, Agree

\* When vm_destroy frees the table it has discarded every page.
LEMMA TableEmpty ==
  ASSUME IInv, NEW v \in 0..NPages, DestroyTable(v)
  PROVE  \A e \in DOMAIN infile : e[1] # curr_pid
<1> SUFFICES ASSUME NEW e \in DOMAIN infile, e[1] = curr_pid
             PROVE  FALSE
  OBVIOUS
<1>1. e \in Live /\ e \in Pte
  BY DEF IInv, RecordsLive, Live
<1>2. /\ e[2] < all_pt[curr_pid].size
      /\ ~(call.op = "exit" /\ e[2] < call.vp)
      /\ e[2] \in Nat /\ all_pt[curr_pid].size \in Nat
  BY <1>1, SizeAssumption, PCntAssumption
  DEF Live, Pte, Vpage, IInv, TypeOK, ProcOK, Maps, Pt
<1>3. v = all_pt[curr_pid].size /\ Exiting(v)
  BY DEF DestroyTable
<1>4. CASE v = 0
  BY <1>2, <1>3, <1>4
<1>5. CASE call = Exit(v)
  <2>1. FBlock # {}
    BY DataAssumption
  <2>2. call.op = "exit" /\ call.vp = v
    BY <1>5, <2>1, CallsOK
  <2> QED
    BY <1>2, <1>3, <2>2
<1> QED
  BY <1>3, <1>4, <1>5 DEF Exiting

\* vm_create of an empty arena makes a page table and nothing else.
LEMMA FlatCreate ==
  ASSUME IInv, NEW parent \in Pid \cup {NoPid}, NEW child \in Pid,
         vm_create(parent, child), ParentSize(parent) = 0
  PROVE  /\ UNCHANGED <<infile, filemap, core, swfile, free_block, eblcnt>>
         /\ UNCHANGED <<curr_pid, bound, clock_q, free_ppage, psuff, ghost>>
         /\ UNCHANGED <<phys, swap, file, accessed, call>>
         /\ Kernel /\ child \notin DOMAIN all_pt
         /\ DOMAIN all_pt' = DOMAIN all_pt \cup {child}
         /\ all_pt'[child].size = 0
         /\ \A p \in DOMAIN all_pt : all_pt'[p] = all_pt[p]
         /\ pt' = [e \in Pte |-> IF e[1] = child THEN NullEntry ELSE pt[e]]
<1> DEFINE size     == ParentSize(parent)
           numsw    == ParentNumsw(parent)
           born     == {child} \X (0..(size - 1))
           model(e) == <<parent, e[2]>>
           copy(e)  == IF infile[model(e)].ftype = "FILE_B" THEN infile[model(e)]
                       ELSE [infile[model(e)] EXCEPT
                               !.block = free_block[SwapBefore(parent, e[2]) + 1]]
           record   == [e \in born |-> copy(e)]
<1>1. size = 0
  OBVIOUS
<1>2. 0..(size - 1) = {}
  BY <1>1
<1>3. born = {}
  BY <1>2
<1>4. numsw = 0
  <2>1. CASE parent \notin DOMAIN all_pt
    BY <2>1 DEF ParentNumsw
  <2>2. CASE parent \in DOMAIN all_pt
    <3>1. call.op # "exit"
      BY DEF vm_create, Kernel
    <3>2. all_pt[parent].size = 0 /\ numsw = all_pt[parent].numsw
      BY <1>1, <2>2 DEF ParentSize, ParentNumsw
    <3>3. numsw = SwapBefore(parent, 0)
      BY <2>2, <3>1, <3>2 DEF IInv, NumswCounts
    <3>4. {i \in 0..(0 - 1) : infile[<<parent, i>>].ftype = "SWAP"} = {}
      OBVIOUS
    <3>5. SwapBefore(parent, 0) = Cardinality({})
      BY <3>4 DEF SwapBefore
    <3> QED
      BY <3>3, <3>5, FS_EmptySet
  <2> QED
    BY <2>1, <2>2
<1>5. /\ infile' = [e \in DOMAIN infile \cup born |->
                     IF e \in born THEN record[e] ELSE infile[e]]
      /\ swfile' = [b \in Block |-> swfile[b] \cup
                     {e \in born : record[e].ftype = "SWAP" /\ record[e].block = b}]
      /\ filemap' = [f \in DOMAIN filemap \cup
                       {record[e].block : e \in {d \in born : record[d].ftype = "FILE_B"}} |->
                       Listing(filemap, f, {e \in born : /\ record[e].ftype = "FILE_B"
                                                         /\ record[e].block = f})]
      /\ free_block' = SubSeq(free_block, numsw + 1, Len(free_block))
      /\ eblcnt' = (eblcnt - numsw - numsw) % Word
      /\ core' = [p \in Ppage |-> core[p] \cup {e \in born : pt[model(e)].ppage = p}]
      /\ pt' = [e \in Pte |->
                  IF e \in born THEN [pt[model(e)] EXCEPT !.write_enable = FALSE]
                  ELSE IF e[1] = child THEN NullEntry
                  ELSE IF e[1] = parent /\ e[2] < size
                       THEN [pt[e] EXCEPT !.write_enable = FALSE]
                  ELSE pt[e]]
      /\ all_pt' = Put(all_pt, child, [size |-> size, numsw |-> numsw])
      /\ Kernel /\ child \notin DOMAIN all_pt
  BY DEF vm_create
<1>6. /\ UNCHANGED <<curr_pid, bound, clock_q, free_ppage, psuff, ghost>>
      /\ UNCHANGED <<phys, swap, file, accessed, call>>
  BY DEF vm_create, contents
<1> HIDE DEF record, born, size, numsw
<1>7. TypeOK
  BY DEF IInv
<1>8. infile' = infile
  <2>1. infile = [e \in DOMAIN infile |-> infile[e]]
    BY <1>7 DEF TypeOK, MappingOK, Maps
  <2> QED
    BY <1>3, <1>5, <2>1
<1>9. swfile' = swfile
  <2>1. swfile = [b \in Block |-> swfile[b]]
    BY <1>7 DEF TypeOK, SpaceOK
  <2>2. \A b \in Block : swfile[b] \cup
          {e \in born : record[e].ftype = "SWAP" /\ record[e].block = b} = swfile[b]
    BY <1>3
  <2> QED
    BY <1>5, <2>1, <2>2
<1>10. filemap' = filemap
  <2>1. filemap \in [DOMAIN filemap -> Fbp]
    BY <1>7 DEF TypeOK, MappingOK, Maps
  <2>2. DOMAIN filemap \cup
          {record[e].block : e \in {d \in born : record[d].ftype = "FILE_B"}} = DOMAIN filemap
    BY <1>3
  <2>3. \A f \in DOMAIN filemap : \A S : S = {} => Listing(filemap, f, S) = filemap[f]
    <3> TAKE f \in DOMAIN filemap
    <3>1. filemap[f] \in Fbp
      BY <2>1
    <3> QED
      BY <3>1 DEF Listing, Fbp
  <2>4. \A f : {e \in born : /\ record[e].ftype = "FILE_B"
                             /\ record[e].block = f} = {}
    BY <1>3
  <2>5. DOMAIN filemap' = DOMAIN filemap
    BY <1>5, <2>2
  <2>6. \A f \in DOMAIN filemap : filemap'[f] = filemap[f]
    BY <1>5, <2>2, <2>3, <2>4
  <2>7. filemap' = [f \in DOMAIN filemap' |-> filemap'[f]]
    BY <1>5
  <2> QED
    BY <2>1, <2>5, <2>6, <2>7
<1>11. core' = core
  <2>1. core = [p \in Ppage |-> core[p]]
    BY <1>7 DEF TypeOK, FramesOK
  <2>2. \A p \in Ppage : core[p] \cup {e \in born : pt[model(e)].ppage = p} = core[p]
    BY <1>3
  <2> QED
    BY <1>5, <2>1, <2>2
<1>12. free_block' = free_block /\ eblcnt' = eblcnt
  <2>1. free_block \in Seq(Block) /\ eblcnt \in 0..(Word - 1) /\ Word \in Nat \ {0}
    BY <1>7, SizeAssumption DEF TypeOK, SpaceOK
  <2>2. free_block' = SubSeq(free_block, 1, Len(free_block))
    BY <1>4, <1>5
  <2>3. eblcnt' = eblcnt % Word
    BY <1>4, <1>5, <2>1
  <2>4. eblcnt % Word = eblcnt
    BY <2>1
  <2>5. SubSeq(free_block, 1, Len(free_block)) = free_block
    BY <2>1, SubSeqProperties, LenProperties, SeqEqual
  <2> QED
    BY <2>2, <2>3, <2>4, <2>5
<1>13. /\ DOMAIN all_pt' = DOMAIN all_pt \cup {child}
       /\ all_pt'[child].size = 0
       /\ \A p \in DOMAIN all_pt : all_pt'[p] = all_pt[p]
  BY <1>1, <1>5 DEF Put
<1>14. pt' = [e \in Pte |-> IF e[1] = child THEN NullEntry ELSE pt[e]]
  <2>1. \A e \in Pte : ~(e[2] < size)
    BY <1>1, SizeAssumption, PCntAssumption DEF Pte, Vpage
  <2> QED
    BY <1>3, <1>5, <2>1
<1> QED
  BY <1>5, <1>6, <1>8, <1>9, <1>10, <1>11, <1>12, <1>13, <1>14

LEMMA TablesAgree ==
  ASSUME FInv, IInv', SwapReserved'
  PROVE  /\ \A v \in 0..NPages : DestroyTable(v) => FInv'
         /\ \A p \in Pid : vm_switch(p) => FInv'
         /\ \A parent \in Pid \cup {NoPid}, child \in Pid :
              vm_create(parent, child) /\ ParentSize(parent) = 0 => FInv'
<1>1. ASSUME NEW v \in 0..NPages, DestroyTable(v)
      PROVE  FInv'
  <2>1. \A e \in DOMAIN infile : e[1] # curr_pid
    BY <1>1, TableEmpty DEF FInv
  <2>2. /\ pt' = [e \in Pte |-> IF e[1] = curr_pid THEN NullEntry ELSE pt[e]]
        /\ UNCHANGED <<free_ppage, psuff, ghost, core, infile, filemap>>
        /\ UNCHANGED <<phys, swap, file, accessed>>
    BY <1>1 DEF DestroyTable, frames, contents
  <2> QED
    BY <2>1, <2>2, TableAgrees
<1>2. ASSUME NEW p \in Pid, vm_switch(p)
      PROVE  FInv'
  BY <1>2, SameAgrees DEF vm_switch, frames, mapping, contents
<1>3. ASSUME NEW parent \in Pid \cup {NoPid}, NEW child \in Pid,
             vm_create(parent, child), ParentSize(parent) = 0
      PROVE  FInv'
  <2>1. child \notin DOMAIN all_pt
        /\ pt' = [e \in Pte |-> IF e[1] = child THEN NullEntry ELSE pt[e]]
        /\ UNCHANGED <<free_ppage, psuff, ghost, core, infile, filemap>>
        /\ UNCHANGED <<phys, swap, file, accessed>>
    BY <1>3, FlatCreate DEF FInv
  <2>2. \A e \in DOMAIN infile : e[1] # child
    BY <2>1 DEF FInv, IInv, RecordsLive, Live
  <2> QED
    BY <2>1, <2>2, TableAgrees
<1> QED
  BY <1>1, <1>2, <1>3

-----------------------------------------------------------------------------
(* Every step keeps the invariant.                                         *)

LEMMA InitAgrees ==
  ASSUME Init
  PROVE  FInv /\ Hidden
<1> USE DEF Init
<1>1. IInv /\ SwapReserved
  BY InitIInv, InitReserves
<1>2. free_ppage = [i \in 1..(PCnt - 1) |-> i]
  OBVIOUS
<1>3. IsInjective(free_ppage)
  BY <1>2 DEF IsInjective
<1>4. \A p \in Frame : p \in Free
  <2> TAKE p \in Frame
  <2>1. p \in 1..(PCnt - 1)
    BY PCntAssumption DEF Frame, Ppage, pinned
  <2>2. p \in DOMAIN free_ppage /\ free_ppage[p] = p
    BY <1>2, <2>1
  <2> QED
    BY <2>2, InRange DEF Free
<1>5. DOMAIN infile = {} /\ DOMAIN ghost = {} /\ DOMAIN filemap = {}
  OBVIOUS
<1>6. /\ \A p \in Ppage : core[p] = {}
      /\ Frame \subseteq Ppage
  BY DEF Frame
<1>7. Agree(infile, pt, core, filemap, ghost, Free, {})
  BY <1>4, <1>5, <1>6
  DEF Agree, Parted, Cored, Owned, BlocksListed, BlocksMoveAsOne, GhostsListed,
      Loaded, FileOf
<1>8. /\ Seen(infile, pt, psuff) /\ Hidden
      /\ Saved(infile, core, ghost, psuff, phys, swap, file)
      /\ WasRead(infile, ghost, accessed)
  BY <1>5, <1>6 DEF Seen, Hidden, Saved, WasRead, NullEntry
<1>9. phys[pinned] = Zero
  BY FInvTypes, PCntAssumption DEF pinned, Ppage
<1> QED
  BY <1>1, <1>3, <1>7, <1>8, <1>9 DEF FInv

LEMMA CleanIsNext ==
  ASSUME [CleanNext]_vars
  PROVE  [Next]_vars
BY DEF CleanNext, Next

LEMMA NextAgrees ==
  ASSUME FInv, Hidden, [CleanNext]_vars
  PROVE  FInv'
<1>1. IInv' /\ SwapReserved'
  BY CleanIsNext, NextIInv, NextReserves DEF FInv
<1>2. CASE Access \/ Name
  BY <1>1, <1>2, AccessAgrees
<1>3. CASE MapSwap
  BY <1>1, <1>3, MapSwapAgrees
<1>4. CASE vm_destroy
  BY <1>1, <1>4, DestroyPageAgrees, TablesAgree DEF vm_destroy
<1>5. CASE \E p \in Pid : vm_switch(p)
  BY <1>1, <1>5, TablesAgree
<1>6. CASE \E v \in Vpage, b \in FBlock : MapFile(v, b) /\ ~StaleGhost(NamedBy(v, b))
  BY <1>1, <1>6, MapFileAgrees
<1>7. CASE \E parent \in Pid \cup {NoPid}, child \in Pid :
             vm_create(parent, child) /\ ParentSize(parent) = 0
  BY <1>1, <1>7, TablesAgree
<1>8. CASE UNCHANGED vars
  BY <1>1, <1>8, SameAgrees DEF vars, frames, mapping, contents
<1> QED
  BY <1>2, <1>3, <1>4, <1>5, <1>6, <1>7, <1>8 DEF CleanNext, Step

\* What a step other than of vm_destroy is taken from.
LEMMA NotExiting ==
  ASSUME FInv
  PROVE  /\ Access \/ Name => call.op \in {"run", "retry", "string"}
         /\ MapSwap => call.op = "run"
         /\ \A v \in Vpage, b \in FBlock :
              MapFile(v, b) => call.op \in {"run", "string"}
<1>1. \A v \in Vpage : v \in 0..NPages
  BY SizeAssumption, PCntAssumption DEF Vpage
<1>2. \A v \in Vpage, w \in BOOLEAN, b \in FBlock :
        Retry(v, w).op = "retry" /\ Str(v, b).op = "string"
  BY <1>1, CallsOK
<1>3. FBlock # {}
  BY DataAssumption
<1>4. \A v \in Vpage, w \in BOOLEAN : Retry(v, w).op = "retry"
  BY <1>2, <1>3
<1>5. Access => call.op \in {"run", "retry"}
  BY <1>4 DEF Access, AppFault, Store, Reload, Idle
<1>6. Name => call.op \in {"run", "string"}
  BY <1>2 DEF Name, NameFault, NameSpills, Reading, Idle
<1>7. MapSwap => call.op = "run"
  BY DEF MapSwap, Idle
<1>8. \A v \in Vpage, b \in FBlock : MapFile(v, b) => call.op \in {"run", "string"}
  BY <1>2 DEF MapFile, Reading, Idle
<1> QED
  BY <1>5, <1>6, <1>7, <1>8

\* The records after a load, a store or a name: the same pages are mapped.
LEMMA AccessKeepsPages ==
  ASSUME FInv, Access \/ Name
  PROVE  /\ DOMAIN infile' = DOMAIN infile
         /\ UNCHANGED <<curr_pid, bound, all_pt, eblcnt, free_block>>
         /\ \A l \in Pte \ DOMAIN infile : pt'[l].read_enable => pt[l].read_enable
<1>1. ASSUME NEW v \in Vpage, NEW w \in BOOLEAN, NEW ok, NEW fail,
             vm_fault(v, w, ok, fail)
      PROVE  /\ DOMAIN infile' = DOMAIN infile
             /\ UNCHANGED <<curr_pid, bound, all_pt, eblcnt, free_block>>
             /\ \A l \in Pte \ DOMAIN infile : pt'[l].read_enable => pt[l].read_enable
  BY <1>1, FaultTypes, FaultReveals DEF FInv, IInv, Keeps, SameRecords
<1>2. ASSUME UNCHANGED <<proc, space, frames, mapping>>
      PROVE  /\ DOMAIN infile' = DOMAIN infile
             /\ UNCHANGED <<curr_pid, bound, all_pt, eblcnt, free_block>>
             /\ \A l \in Pte \ DOMAIN infile : pt'[l].read_enable => pt[l].read_enable
  BY <1>2 DEF proc, space, mapping
<1>3. CASE Access
  BY <1>1, <1>2, <1>3 DEF Access, AppFault, Store, Reload
<1>4. CASE Name
  BY <1>1, <1>2, <1>4 DEF Name, NameFault, NameSpills
<1> QED
  BY <1>3, <1>4

LEMMA NextHides ==
  ASSUME FInv, Hidden, [CleanNext]_vars
  PROVE  Hidden'
<1> SUFFICES ASSUME NEW l \in Pte, pt'[l].read_enable
             PROVE  l \in DOMAIN infile' \/ (call'.op = "exit" /\ l[1] = curr_pid')
  BY DEF Hidden
<1>1. CASE Access \/ Name
  BY <1>1, AccessKeepsPages, NotExiting DEF Hidden
<1>2. ASSUME NEW x, call.op # "exit", \E y : pt' = [pt EXCEPT ![x] = y],
             \E r : infile' = Put(infile, x, r)
      PROVE  l \in DOMAIN infile'
  <2>1. l # x => pt'[l] = pt[l]
    BY <1>2
  <2>2. DOMAIN infile' = DOMAIN infile \cup {x}
    BY <1>2 DEF Put
  <2> QED
    BY <1>2, <2>1, <2>2 DEF Hidden
<1>3. CASE MapSwap
  BY <1>2, <1>3, NotExiting DEF MapSwap
<1>4. CASE \E v \in Vpage, b \in FBlock : MapFile(v, b) /\ ~StaleGhost(NamedBy(v, b))
  <2>1. PICK v \in Vpage, b \in FBlock : MapFile(v, b)
    BY <1>4
  <2>2. call.op # "exit"
    BY <2>1, NotExiting
  <2>3. Remap(NamedBy(v, b)) \/ MapNew(NamedBy(v, b))
    BY <2>1 DEF MapFile
  <2> QED
    BY <1>2, <2>2, <2>3 DEF Remap, MapNew
<1>5. CASE vm_destroy
  <2>1. PICK v \in 0..NPages : DestroyPage(v) \/ DestroyTable(v)
    BY <1>5 DEF vm_destroy
  <2>2. CASE DestroyPage(v)
    <3>1. v + 1 \in 0..NPages
      <4>1. v < all_pt[curr_pid].size /\ Exiting(v)
        BY <2>2 DEF DestroyPage
      <4>2. call.op # "none"
        BY <4>1, CallsOK, DataAssumption DEF Exiting, Idle
      <4>3. all_pt[curr_pid].size \in 0..NPages
        BY <4>2 DEF FInv, IInv, TypeOK, ProcOK, Maps, Pt
      <4> QED
        BY <4>1, <4>3, SizeAssumption, PCntAssumption
    <3>2. call'.op = "exit"
      BY <2>2, <3>1, CallsOK, DataAssumption DEF DestroyPage
    <3>3. /\ curr_pid' = curr_pid /\ pt' = pt
          /\ DOMAIN infile' = DOMAIN infile \ {Mine(v)}
      BY <2>2 DEF DestroyPage, proc, vm_discard, Drop, Restrict
    <3> QED
      BY <3>2, <3>3 DEF Hidden, Mine
  <2>3. CASE DestroyTable(v)
    <3>1. pt'[l] = IF l[1] = curr_pid THEN NullEntry ELSE pt[l]
      BY <2>3 DEF DestroyTable
    <3>2. l[1] # curr_pid /\ infile' = infile
      BY <2>3, <3>1 DEF NullEntry, DestroyTable
    <3> QED
      BY <3>1, <3>2 DEF Hidden
  <2> QED
    BY <2>1, <2>2, <2>3
<1>6. CASE \E p \in Pid : vm_switch(p)
  BY <1>6 DEF Hidden, vm_switch, Kernel, mapping
<1>7. CASE \E parent \in Pid \cup {NoPid}, child \in Pid :
             vm_create(parent, child) /\ ParentSize(parent) = 0
  <2>1. PICK parent \in Pid \cup {NoPid}, child \in Pid :
               vm_create(parent, child) /\ ParentSize(parent) = 0
    BY <1>7
  <2>2. /\ infile' = infile /\ Kernel
        /\ pt' = [e \in Pte |-> IF e[1] = child THEN NullEntry ELSE pt[e]]
    <3>1. IInv
      BY DEF FInv
    <3> QED
      BY <2>1, <3>1, FlatCreate
  <2>3. ~NullEntry.read_enable
    BY DEF NullEntry
  <2>4. pt[l].read_enable
    BY <2>2, <2>3
  <2> QED
    BY <2>2, <2>4 DEF Hidden, Kernel
<1>8. CASE UNCHANGED vars
  BY <1>8 DEF vars, proc, mapping, Hidden
<1> QED
  BY <1>1, <1>3, <1>4, <1>5, <1>6, <1>7, <1>8 DEF CleanNext, Step

-----------------------------------------------------------------------------

\* Within the limits of CleanSpec, the maps of the pager, the permission bits
\* and the disk agree, whatever was faulted, evicted, mapped and destroyed
\* before; the theorems after it are consequences.
THEOREM Agreement == CleanSpec => [](FInv /\ Hidden)
<1>1. Init => FInv /\ Hidden
  BY InitAgrees
<1>2. FInv /\ Hidden /\ [CleanNext]_vars => (FInv /\ Hidden)'
  BY NextAgrees, NextHides
<1> QED
  BY <1>1, <1>2, PTL DEF CleanSpec

\* alloc, vm_discard and vm_map move a frame between the free pages, the ghosts
\* and the mapped pages, and neither lose it nor give it to two of them.
THEOREM FramesCorrect == CleanSpec => []FramesPartitioned
<1>1. FInv => FramesPartitioned
  BY DEF FInv, Agree, Parted, FramesPartitioned
<1> QED
  BY <1>1, Agreement, PTL

\* core, by which runclock and pm_evict revoke the entries of a frame, lists
\* every entry that maps it and no other.
THEOREM CoreCorrect == CleanSpec => []CoreExact
<1>1. ASSUME FInv
      PROVE  CoreExact
  <2>1. ASSUME NEW p \in Ppage, NEW e
        PROVE  e \in core[p] <=> e \in DOMAIN infile /\ Resident(e) /\ pt[e].ppage = p
    BY <1>1 DEF FInv, Agree, Cored, Loaded, Resident
  <2> QED
    BY <2>1 DEF CoreExact
<1> QED
  BY <1>1, Agreement, PTL

\* cow and vm_map keep the pages in one frame to one swap page, or to those of
\* one file block, whose entries are then equal.
THEOREM BackingCorrect == CleanSpec => []OneBacking
<1>1. FInv => OneBacking
  BY DEF FInv, Agree, Owned, OneBacking, IsSwap
<1> QED
  BY <1>1, Agreement, PTL

\* filemap lists the pages of a file block and the frame that holds it, so that
\* vm_map finds a block in memory and vm_fault lifts all its pages at once.
THEOREM FilemapCorrect == CleanSpec => []FilemapExact
<1>1. ASSUME FInv
      PROVE  FilemapExact
  <2> USE <1>1 DEF FInv, Agree
  <2>1. \A e \in DOMAIN infile : ~IsSwap(e) => infile[e].block \in DOMAIN filemap
    BY DEF BlocksListed, IsSwap
  <2>2. ASSUME NEW f \in DOMAIN filemap
        PROVE  filemap[f].vpset =
                 {e \in DOMAIN infile : ~IsSwap(e) /\ infile[e].block = f}
    <3>1. \A e : e \in filemap[f].vpset <=> FileOf(infile, e, f)
      BY DEF BlocksListed
    <3> QED
      BY <3>1 DEF FileOf, IsSwap
  <2>3. ASSUME NEW f \in DOMAIN filemap, NEW d \in filemap[f].vpset,
               NEW e \in filemap[f].vpset
        PROVE  /\ infile[d].infile = infile[e].infile
               /\ Resident(e) => pt[e].ppage = filemap[f].ppage
    <3>1. infile[d] \in Infile /\ infile[e] \in Infile
      BY <2>2, FInvTypes
    <3>2. infile[d].infile \in BOOLEAN /\ infile[e].infile \in BOOLEAN
      BY <3>1, InfileFields
    <3> QED
      BY <3>2 DEF BlocksMoveAsOne, Resident
  <2> QED
    BY <2>1, <2>2, <2>3 DEF GhostsListed, FilemapExact
<1> QED
  BY <1>1, Agreement, PTL

\* The permission bits that vm_fault, runclock, pm_evict and vm_map leave let
\* no load pass to a frame the clock thinks unreferenced, no store to one
\* pm_evict would not write back, and none to the zero page.
THEOREM PermissionsCorrect == CleanSpec => []AccessesSeen
<1>1. FInv => AccessesSeen
  BY DEF FInv, Seen, IInv, RecordsLive, Resident, AccessesSeen
<1> QED
  BY <1>1, Agreement, PTL

\* pm_evict drops a clean frame without writing it, and loses nothing.
THEOREM CleanIsSaved == CleanSpec => []CleanMeansSaved
<1>1. ASSUME FInv
      PROVE  CleanMeansSaved
  <2> SUFFICES ASSUME NEW p \in Frame, ~psuff[p].dirty
               PROVE  /\ \A e \in core[p] : phys[p] = OnDisk(e)
                      /\ p \in DOMAIN ghost => phys[p] = file[ghost[p]]
    BY DEF CleanMeansSaved
  <2>1. \A e \in core[p] : DiskHolds(infile, e, swap, file, phys[p])
    BY <1>1 DEF FInv, Saved
  <2> QED
    BY <1>1, <2>1 DEF FInv, Saved, DiskHolds, OnDisk, IsSwap
<1> QED
  BY <1>1, Agreement, PTL

\* pm_evict only writes file blocks that were read, which the kernel keeps
\* writable: it cannot fail there.
THEOREM WritesSucceed == CleanSpec => []WritesAllowed
<1>1. ASSUME FInv
      PROVE  WritesAllowed
  <2> SUFFICES ASSUME NEW p \in Frame
               PROVE  /\ \A e \in core[p] : ~IsSwap(e) => infile[e].block \in accessed
                      /\ p \in DOMAIN ghost => ghost[p] \in accessed
    BY DEF WritesAllowed
  <2>1. \A e \in core[p] : e \in DOMAIN infile /\ ~infile[e].infile
    BY <1>1, FInvTypes DEF FInv, Agree, Cored, Loaded
  <2> QED
    BY <1>1, <2>1 DEF FInv, WasRead, IsSwap
<1> QED
  BY <1>1, Agreement, PTL

\* The assertions of pm_evict, vm_fault and vm_discard never fail, whichever
\* frame the clock stops at and whichever page faults or is discarded.
THEOREM AssertionsCorrect == CleanSpec => []AssertionsHold
<1>1. ASSUME FInv
      PROVE  AssertionsHold
  <2> USE <1>1 DEF FInv, Agree
  <2>1. VictimRecorded
    <3> SUFFICES ASSUME Evicts, NEW p \in Frame \ DOMAIN ghost
                 PROVE  core[p] # {} /\ \A e \in core[p] : Recorded(e)
      BY DEF VictimRecorded
    <3>1. core[p] # {}
      BY DEF Parted, Evicts, Free, Range
    <3>2. ASSUME NEW e \in core[p]
          PROVE  Recorded(e)
      <4>1. e \in DOMAIN infile
        BY FInvTypes DEF Cored, Loaded
      <4> QED
        BY <4>1 DEF Recorded, BlocksListed
    <3> QED
      BY <3>1, <3>2
  <2>2. ASSUME call.op \in {"run", "retry", "string"}, NEW v \in 0..(bound - 1)
        PROVE  /\ Mine(v) \in DOMAIN infile
               /\ ~IsSwap(Mine(v)) => Mine(v) \in filemap[infile[Mine(v)].block].vpset
    <3>1. /\ curr_pid \in DOMAIN all_pt /\ curr_pid \in Pid
          /\ bound = all_pt[curr_pid].size /\ bound \in 0..NPages
      BY <2>2 DEF IInv, TypeOK, ProcOK, Maps
    <3>2. v \in Vpage /\ v < bound
      BY <3>1, SizeAssumption, PCntAssumption DEF Vpage
    <3>3. Mine(v) \in Live
      BY <2>2, <3>1, <3>2 DEF Mine, Pte, Live
    <3>4. Mine(v) \in DOMAIN infile
      BY <3>3 DEF IInv, RecordsLive
    <3> QED
      BY <3>4 DEF BlocksListed, FileOf, IsSwap
  <2> QED
    BY <2>1, <2>2 DEF AssertionsHold
<1> QED
  BY <1>1, Agreement, PTL

\* A page of a file that the MMU lets a process load from is in the frame of
\* its own block.
THEOREM MappedCorrect == CleanSpec => []BackedAsMapped
<1>1. ASSUME FInv
      PROVE  BackedAsMapped
  <2> SUFFICES ASSUME NEW e \in Live, ~IsSwap(e), pt[e].read_enable
               PROVE  Resident(e) /\ pt[e].ppage = filemap[infile[e].block].ppage
    BY DEF BackedAsMapped
  <2>1. e \in DOMAIN infile /\ e \in Pte
    BY <1>1 DEF FInv, IInv, RecordsLive, Live
  <2>2. Resident(e)
    BY <1>1, <2>1 DEF FInv, Seen, Resident
  <2> QED
    BY <1>1, <2>1, <2>2
    DEF FInv, Agree, BlocksListed, BlocksMoveAsOne, FileOf, Resident, IsSwap
<1> QED
  BY <1>1, Agreement, PTL

=============================================================================
