-------------------------- MODULE PagerProperties --------------------------
(***************************************************************************)
(* What the pager has to keep true between the steps of Pager, and the     *)
(* arenas of VirtualMemory that it implements.                             *)
(***************************************************************************)
EXTENDS Pager

\* f is a map from some of X to Y.
Maps(f, X, Y) == DOMAIN f \subseteq X /\ f \in [DOMAIN f -> Y]

Live == {e \in Pte :
  /\ e[1] \in DOMAIN all_pt
  /\ e[2] < all_pt[e[1]].size
  /\ ~(call.op = "exit" /\ e[1] = curr_pid /\ e[2] < call.vp)}

IsSwap(e)   == infile[e].ftype = "SWAP"
Resident(e) == ~infile[e].infile
Free        == Range(free_ppage)

\* Where the contents of a mapped page are.
OnDisk(e)  == IF IsSwap(e) THEN swap[infile[e].block] ELSE file[infile[e].block]
Content(e) == IF Resident(e) THEN phys[pt[e].ppage] ELSE OnDisk(e)

ProcOK ==
  /\ curr_pid \in Pid \cup {NoPid}
  /\ bound \in 0..NPages
  /\ Maps(all_pt, Pid, Pt)
  /\ call \in Call
  /\ call.op # "none" =>
       curr_pid \in DOMAIN all_pt /\ bound = all_pt[curr_pid].size

SpaceOK ==
  /\ eblcnt \in 0..(Word - 1)
  /\ free_block \in Seq(Block)
  /\ swfile \in [Block -> SUBSET Pte]

FramesOK ==
  /\ clock_q \in Seq(Frame)
  /\ free_ppage \in Seq(Frame)
  /\ psuff \in [Frame -> Ppb]
  /\ Maps(ghost, Frame, FileBlock)
  /\ core \in [Ppage -> SUBSET Pte]

MappingOK ==
  /\ Maps(infile, Pte, Infile)
  /\ Maps(filemap, FileBlock, Fbp)
  /\ pt \in [Pte -> Entry]

ContentsOK ==
  /\ phys \in [Ppage -> Data]
  /\ swap \in [Block -> Data]
  /\ file \in [FileBlock -> Data]
  /\ accessed \subseteq FileBlock

\* Every variable holds values of its type: no frame, block or entry number out
\* of range is ever computed, whatever the operations before.  A running process
\* has a page table, of which bound is the size.
TypeOK == ProcOK /\ SpaceOK /\ FramesOK /\ MappingOK /\ ContentsOK

\* vm_map, vm_create and vm_discard together leave each swap block either free,
\* once, or reserved by exactly the one page that infile says is written there.
SwapReserved ==
  /\ IsInjective(free_block)
  /\ \A b \in Block :
       /\ swfile[b] = {e \in DOMAIN infile : IsSwap(e) /\ infile[e].block = b}
       /\ IF b \in Range(free_block) THEN swfile[b] = {} ELSE Sole(swfile[b])

\* numsw is what vm_create will reserve for a child: one block per swap page.
NumswCounts ==
  \A p \in DOMAIN all_pt \ (IF call.op = "exit" THEN {curr_pid} ELSE {}) :
    all_pt[p].numsw = SwapBefore(p, all_pt[p].size)

\* The records of infile are those of the pages mapped and not yet destroyed.
RecordsLive == DOMAIN infile = Live

\* A frame is free, or the ghost of a file block, or holds mapped pages: never
\* two of these, and never none, whichever of alloc, vm_discard and vm_map
\* moved it last.
FramesPartitioned ==
  /\ IsInjective(free_ppage)
  /\ \A p \in Frame :
       /\ p \in Free => p \notin DOMAIN ghost /\ core[p] = {}
       /\ p \in DOMAIN ghost => core[p] = {}
       /\ p \in Free \cup DOMAIN ghost \/ core[p] # {}

\* core lists the entries a frame's pages are mapped by, so that runclock and
\* pm_evict revoke every one of them.
CoreExact ==
  \A p \in Ppage :
    core[p] = {e \in DOMAIN infile : Resident(e) /\ pt[e].ppage = p}

\* Pages in one frame have one backing: a private frame holds one swap page, a
\* shared one all mapped pages of one file block, wherever they were mapped.
OneBacking ==
  \A p \in Frame : \A d, e \in core[p] :
    IF IsSwap(d) THEN d = e
    ELSE ~IsSwap(e) /\ infile[d] = infile[e] /\ pt[d] = pt[e]

\* filemap lists the mapped pages of a file block and the frame that holds it,
\* and keeps a block without pages exactly as long as it is a ghost.
FilemapExact ==
  /\ \A e \in DOMAIN infile : ~IsSwap(e) => infile[e].block \in DOMAIN filemap
  /\ \A f \in DOMAIN filemap :
       LET block == filemap[f] IN
       /\ block.vpset =
            {e \in DOMAIN infile : ~IsSwap(e) /\ infile[e].block = f}
       /\ \A d, e \in block.vpset : infile[d].infile = infile[e].infile
       /\ \A e \in block.vpset : Resident(e) => pt[e].ppage = block.ppage
       /\ block.vpset = {} =>
            block.ppage \in DOMAIN ghost /\ ghost[block.ppage] = f
  /\ \A p \in DOMAIN ghost :
       /\ ghost[p] \in DOMAIN filemap
       /\ filemap[ghost[p]].vpset = {}
       /\ filemap[ghost[p]].ppage = p

\* The MMU lets nothing through that the pager must see: a load only to a page
\* in memory whose frame is marked referenced, a store only to one marked dirty,
\* and never a store to the shared zero page.
AccessesSeen ==
  \A e \in Pte :
    /\ pt[e].write_enable => pt[e].read_enable
    /\ pt[e].read_enable /\ e \in Live =>
         /\ Resident(e)
         /\ pt[e].ppage # pinned => psuff[pt[e].ppage].ref
    /\ pt[e].write_enable /\ e \in Live =>
         pt[e].ppage # pinned /\ psuff[pt[e].ppage].dirty

\* A frame that is not dirty may be dropped: the disk holds what it holds.
CleanMeansSaved ==
  \A p \in Frame : ~psuff[p].dirty =>
    /\ \A e \in core[p] : phys[p] = OnDisk(e)
    /\ p \in DOMAIN ghost => phys[p] = file[ghost[p]]

\* pm_evict writes no block but those that were read before, and these the
\* kernel promises to keep writable: its failure paths are never taken.
WritesAllowed ==
  \A p \in Frame : psuff[p].dirty =>
    /\ \A e \in core[p] : ~IsSwap(e) => infile[e].block \in accessed
    /\ p \in DOMAIN ghost => ghost[p] \in accessed

\* Whichever frame the clock stops at, pm_evict can save what it holds: the
\* entries core lists for it have their records ("should exist from vm_map").
VictimRecorded ==
  Evicts => \A p \in Frame \ DOMAIN ghost :
              core[p] # {} /\ \A e \in core[p] : Recorded(e)

\* The assertions of pm_evict, vm_fault and vm_discard that a fault or an exit
\* starting here would evaluate: the victim holds a mapped page, the page has a
\* record, the block lists the page.
AssertionsHold ==
  /\ VictimRecorded
  /\ call.op \in {"run", "retry", "string"} =>
       \A v \in 0..(bound - 1) :
         /\ Mine(v) \in DOMAIN infile
         /\ ~IsSwap(Mine(v)) => Mine(v) \in filemap[infile[Mine(v)].block].vpset

\* A fault that vm_fault serviced is not taken a second time by the instruction
\* it interrupted.
NoRepeatedFault == call.op = "retry" => Permits(call.vp, call.write)

-----------------------------------------------------------------------------

\* What a process reads in a page changes with the stores the MMU lets through
\* and with nothing else: no fault, eviction, copy, map or exit alters it.
OnlyStoresWrite ==
  [][(\E e \in Live \cap Live' : Content(e)' # Content(e)) =>
        \E v \in Vpage, d \in Data : Store(v, d)]_vars

\* Every fault is serviced, every name read and every exit finished.
CallsReturn == ~Kernel ~> Kernel

-----------------------------------------------------------------------------
(* What the headers say, and the program does not keep in every case.      *)

\* vm_map: a page is backed by the specified file at the specified block, and a
\* load the MMU lets through reads what that block holds.
BackedAsMapped ==
  \A e \in Live : ~IsSwap(e) /\ pt[e].read_enable =>
    /\ Resident(e)
    /\ pt[e].ppage = filemap[infile[e].block].ppage

\* vm_create: the child's arena has the same mappings and data as its parent's.
ChildInherits ==
  [][\A c \in DOMAIN all_pt' \ DOMAIN all_pt :
       \A i \in 0..(all_pt'[c].size - 1) :
         Content(<<c, i>>)' = Content(<<curr_pid, i>>)]_vars

\* vm_map: a swap page is private, not shared with any other virtual page: what
\* is stored to one is never seen through another.
StoresPrivate ==
  \A d, e \in Live : d # e /\ IsSwap(d) /\ pt[d].write_enable =>
    ~(pt[e].read_enable /\ pt[e].ppage = pt[d].ppage)

\* cow asserts that the frame it copies from is a ghost.
CowOfGhost ==
  [][\A e \in Live : e \in DOMAIN infile' /\ Resident(e) /\ Resident(e)'
                      /\ pt'[e].ppage # pt[e].ppage =>
        pt[e].ppage \in DOMAIN ghost]_vars

-----------------------------------------------------------------------------
(* The arenas this state stands for.  A process that has begun to exit has *)
(* none any more.                                                          *)

Page(e) == IF IsSwap(e) THEN [kind |-> "swap", data |-> Content(e)]
           ELSE [kind |-> "file", block |-> infile[e].block]

Arenas ==
  [p \in DOMAIN all_pt \ (IF call.op = "exit" THEN {curr_pid} ELSE {}) |->
     [i \in 1..all_pt[p].size |-> Page(<<p, i - 1>>)]]

InMemory(f) ==
  /\ f \in DOMAIN filemap
  /\ \A e \in filemap[f].vpset : Resident(e)

Memory == INSTANCE VirtualMemory WITH
  arena   <- Arenas,
  current <- IF call.op \in {"none", "exit"} THEN NoPid ELSE curr_pid,
  files   <- [f \in FileBlock |->
                IF InMemory(f) THEN phys[filemap[f].ppage] ELSE file[f]]

\* Whatever is faulted, copied, evicted and written back, every process sees its
\* own pages as it left them, and a file block the same wherever it is mapped.
ArenasKept == Memory!Spec
=============================================================================
