----------------------------- MODULE PagerOop -----------------------------
(***************************************************************************)
(* The second pager of the repository, src/src/vm_pager_oop.cpp, with the  *)
(* machine it serves.  It keeps the state of a frame in one record, queues *)
(* only the frames in use, marks a page on disk by a frame number out of   *)
(* range, and gives a ghost page a table entry of its own: that of frame p *)
(* is <<NoPid, p>> here.  A page's backing is the pair of a file name and  *)
(* a block number, the name SWAP standing for the swap file, so that swap  *)
(* blocks and file blocks lie in one map.                                  *)
(*                                                                         *)
(* Assertions are evaluated, as the Makefile builds them: the program ends *)
(* where one fails.  As in Pager, a definition that only repeats the name  *)
(* of the next one with a suffix is a plausible mistake in that one.       *)
(***************************************************************************)
EXTENDS Integers, Sequences, FiniteSets, SequencesExt, FiniteSetsExt, Control,
        OopClock

CONSTANTS
  Pid, NoPid,       \* process identifiers, and running_pid = -1
  BlCnt,            \* swap_blocks, the second argument of vm_init
  File, SWAP,       \* file names, and the name of the swap file
  Data, Zero, Junk, \* page contents: any, all zeroes, what nobody wrote
  NameOf,           \* the file named by the string in a page of that content
  Spill             \* contents with no '\0' between the string and the page end

ASSUME OopAssumption ==
  /\ NoPid \notin Pid /\ SWAP \notin File
  /\ NPages \in Nat \ {0} /\ BlCnt \in Nat
  /\ Zero \in Data /\ Junk \in Data
  /\ NameOf \in [Data -> File] /\ Spill \subseteq Data /\ FBlock # {}

Block     == 0..(BlCnt - 1)
SwapBlock == {SWAP} \X Block
FileBlock == File \X FBlock
Backing   == SwapBlock \cup FileBlock
Pte       == Pid \X Vpage
Ghost(p)  == <<NoPid, p>>
Ptes      == Pte \cup {Ghost(p) : p \in Frame}

PhysEntry   == [state : MemStates, dirty : BOOLEAN, loc : Backing \cup {NoLoc}]
Entry       == [ppage : 0..PCnt, read_enable : BOOLEAN, write_enable : BOOLEAN]

VARIABLES
  running_pid, next,             \* ProcessNextVPage, for the live processes
  pte, bte,                      \* ProcessPageTables, ProcessPageBlocks
  SwapBlocks, FirstFreeSwap,     \* SwapBlocks: the blocks ALLOCATED
  MappedBlocks,                  \* the entries of each backing, {} for no key
  phys, disk, accessed,          \* contents, file blocks read successfully
  call                           \* control

proc   == <<running_pid, next>>
tables == <<pte, bte, MappedBlocks>>
space  == <<SwapBlocks, FirstFreeSwap>>
data   == <<phys, disk, accessed>>
vars   == <<proc, tables, frames, space, data, call>>

NullEntry == [ppage |-> Absent, read_enable |-> FALSE, write_enable |-> FALSE]
Unreadable(entry) ==
  [entry EXCEPT !.read_enable = FALSE, !.write_enable = FALSE]

Idle    == call.op = "run"
Kernel  == call.op \in {"run", "none"}
Mine(v) == <<running_pid, v>>

\* The MMU lets the access through.
Permits(v, w) ==
  /\ v \in Vpage
  /\ IF w THEN pte[Mine(v)].write_enable ELSE pte[Mine(v)].read_enable

Init ==
  /\ running_pid = NoPid /\ next = <<>>
  /\ pte = [e \in Ptes |-> NullEntry]
  /\ bte = [e \in Pte |-> NoLoc]
  /\ MappedBlocks = [b \in Backing |-> {}]
  /\ FramesInit
  /\ SwapBlocks = {} /\ FirstFreeSwap = 0
  /\ phys = [p \in Ppage |-> IF p = 0 THEN Zero ELSE Junk]
  /\ disk = [b \in Backing |-> Junk]
  /\ accessed = {}
  /\ call = None

-----------------------------------------------------------------------------
(* get_ppage, what it leaves in the tables and on the disk.  OopClock has  *)
(* the frame it returns and what it leaves in PhysMem and the queues.      *)

IsGhost(p) == p # Absent /\ PhysMem[p].state \in GhostStates
Mapped(p)  == MappedBlocks[PhysMem[p].loc]        \* get_mapped_pte_set

\* The evicted pages go to disk; the entry of an evicted ghost is deleted.
GotPteVictim ==
  [e \in Ptes |-> IF Evicts /\ e \in Mapped(Victim) THEN NullEntry ELSE pte[e]]
GotPte ==
  [e \in Ptes |->
     IF ~Evicts THEN pte[e]
     ELSE IF e \in Mapped(Victim) THEN NullEntry
     ELSE IF \E p \in Passed : e \in Mapped(p) THEN Unreadable(pte[e])
     ELSE pte[e]]

GotMappedKept == MappedBlocks
GotMapped ==
  IF Evicts /\ IsGhost(Victim)
  THEN [MappedBlocks EXCEPT ![PhysMem[Victim].loc] = {}] ELSE MappedBlocks

\* With NDEBUG the assertion that holds the write of a ghost is not compiled.
GotDiskNDEBUG ==
  IF Evicts /\ PhysMem[Victim].dirty /\ ~IsGhost(Victim)
  THEN [disk EXCEPT ![PhysMem[Victim].loc] = phys[Victim]] ELSE disk
GotDisk ==
  IF Evicts /\ PhysMem[Victim].dirty
  THEN [disk EXCEPT ![PhysMem[Victim].loc] = phys[Victim]] ELSE disk

-----------------------------------------------------------------------------
(* vm_fault(v, w), called with the continuation ok when it returns 0 and   *)
(* fail when it returns -1.  The MMU faults on a readable page only when   *)
(* the access is a store.                                                  *)

FaultInvalid(v, fail) ==
  /\ v \notin Vpage \/ v >= next[running_pid]
  /\ call' = fail
  /\ UNCHANGED <<proc, tables, frames, space, data>>

WritableNot(entry) == entry
Writable(entry)    == [entry EXCEPT !.write_enable = TRUE]

\* Readable, and not the zero page of a swap page: the first store to it.
FaultDirty(e, ok) ==
  LET p == pte[e].ppage IN
  /\ pte[e].read_enable
  /\ bte[e][1] # SWAP \/ p # 0
  /\ pte' = [l \in Ptes |-> IF l \in Mapped(p)
                            THEN Writable(pte[l]) ELSE pte[l]]
  /\ PhysMem' = [PhysMem EXCEPT ![p].dirty = TRUE]
  /\ call' = ok
  /\ UNCHANGED <<proc, bte, MappedBlocks, MemQueue, FreePhys, space, data>>

\* The zero page is copied to a frame of its own.
FaultCopy(e, ok) ==
  LET n == get_ppage IN
  /\ pte[e].read_enable
  /\ bte[e][1] = SWAP /\ pte[e].ppage = 0
  /\ PhysMem' = [GotMem EXCEPT ![n] =
                   [state |-> "REFERENCED", dirty |-> TRUE, loc |-> bte[e]]]
  /\ MemQueue' = Append(GotQueue, n)
  /\ FreePhys' = GotFree
  /\ phys' = [phys EXCEPT ![n] = phys[0]]
  /\ disk' = GotDisk
  /\ MappedBlocks' = GotMapped
  /\ pte' = [l \in Ptes |->
               IF l \in GotMapped[bte[e]]
               THEN [GotPte[l] EXCEPT !.ppage = n, !.write_enable = TRUE]
               ELSE GotPte[l]]
  /\ call' = ok
  /\ UNCHANGED <<proc, bte, space, accessed>>

\* In memory and pending: referenced again, and writable if it is dirty now.
FaultPending(e, w, ok) ==
  LET p == pte[e].ppage
      dirty == PhysMem[p].dirty \/ w
  IN
  /\ ~pte[e].read_enable
  /\ p # Absent
  /\ PhysMem' = [PhysMem EXCEPT ![p].state = "REFERENCED", ![p].dirty = dirty]
  /\ pte' = [l \in Ptes |-> IF l \in Mapped(p)
                            THEN [pte[l] EXCEPT !.read_enable = TRUE,
                                                !.write_enable = dirty]
                            ELSE pte[l]]
  /\ call' = ok
  /\ UNCHANGED <<proc, bte, MappedBlocks, MemQueue, FreePhys, space, data>>

\* On disk, and read into a frame.
Load(e, w, ok) ==
  LET n == get_ppage IN
  /\ ~pte[e].read_enable
  /\ pte[e].ppage = Absent
  /\ phys' = [phys EXCEPT ![n] = GotDisk[bte[e]]]
  /\ PhysMem' = [GotMem EXCEPT ![n] = [state |-> "REFERENCED",
                                       dirty |-> @.dirty \/ w, loc |-> bte[e]]]
  /\ MemQueue' = Append(GotQueue, n)
  /\ FreePhys' = GotFree
  /\ disk' = GotDisk
  /\ MappedBlocks' = GotMapped
  /\ pte' = [l \in Ptes |->
               IF l \in GotMapped[bte[e]]
               THEN [ppage |-> n, read_enable |-> TRUE,
                     write_enable |-> w \/ GotPte[l].write_enable]
               ELSE GotPte[l]]
  /\ call' = ok
  /\ UNCHANGED <<proc, bte, space>>

FaultLoad(e, w, ok) ==
  Load(e, w, ok) /\ accessed' = accessed \cup ({bte[e]} \cap FileBlock)

FaultReadUnchecked(e, fail) ==
  /\ bte[e] \in FileBlock \ accessed
  /\ Load(e, FALSE, fail) /\ UNCHANGED accessed

\* file_read fails: the frame, evicted or not, is a free one.  The swap file,
\* and a block that was read before, never fail.
FaultReadFails(e, fail) ==
  /\ ~pte[e].read_enable
  /\ pte[e].ppage = Absent
  /\ bte[e] \in FileBlock \ accessed
  /\ FreePhys' = Append(GotFree, get_ppage)
  /\ PhysMem' = GotMem
  /\ MemQueue' = GotQueue
  /\ disk' = GotDisk
  /\ MappedBlocks' = GotMapped
  /\ pte' = GotPte
  /\ call' = fail
  /\ UNCHANGED <<proc, bte, space, phys, accessed>>

vm_fault(v, w, ok, fail) ==
  \/ FaultInvalid(v, fail)
  \/ /\ v \in Vpage /\ v < next[running_pid]
     /\ \/ w /\ (FaultDirty(Mine(v), ok) \/ FaultCopy(Mine(v), ok))
        \/ FaultPending(Mine(v), w, ok)
        \/ FaultLoad(Mine(v), w, ok)
        \/ FaultReadFails(Mine(v), fail)

\* A load or a store faults.  The kernel restarts the instruction when the
\* fault is serviced and destroys the process when it cannot be.
AppFault(v, w) ==
  /\ Idle \/ call = Retry(v, w)
  /\ ~Permits(v, w)
  /\ vm_fault(v, w, Retry(v, w), Exit(0))

Store(v, d) ==
  /\ Idle \/ call = Retry(v, TRUE)
  /\ Permits(v, TRUE)
  /\ phys' = [phys EXCEPT ![pte[Mine(v)].ppage] = d]
  /\ call' = Run
  /\ UNCHANGED <<proc, tables, frames, space, disk, accessed>>

\* The restarted load completes.  A load that does not fault changes nothing.
Reload(v) ==
  /\ call = Retry(v, FALSE)
  /\ Permits(v, FALSE)
  /\ call' = Run
  /\ UNCHANGED <<proc, tables, frames, space, data>>

-----------------------------------------------------------------------------
(* read_filename and vm_map.  A call that returns nullptr without a fault  *)
(* changes nothing and is not an action.                                   *)

ReadingFull(v, b) == Idle \/ call = Str(v, b)

Reading(v, b) ==
  \/ Idle /\ next[running_pid] # NPages
  \/ call = Str(v, b)

NameFault(v, b) ==
  /\ Reading(v, b)
  /\ ~Permits(v, FALSE)
  /\ vm_fault(v, FALSE, Str(v, b), Run)

NameSpills(v, b) ==
  /\ Reading(v, b)
  /\ Permits(v, FALSE)
  /\ phys[pte[Mine(v)].ppage] \in Spill
  /\ call' = Str(v + 1, b)
  /\ UNCHANGED <<proc, tables, frames, space, data>>

NewEntry == Mine(next[running_pid])
Grow     == /\ next' = [next EXCEPT ![running_pid] = @ + 1]
            /\ UNCHANGED running_pid

\* A block nobody maps is on disk.
MapNew(fb) ==
  /\ MappedBlocks[fb] = {}
  /\ pte' = [pte EXCEPT ![NewEntry] = NullEntry]
  /\ MappedBlocks' = [MappedBlocks EXCEPT ![fb] = {NewEntry}]
  /\ UNCHANGED PhysMem

\* A mapped block: the new entry is a copy of another one.  When the block is on
\* disk the code takes the state of a frame past the end of PhysMem; where that
\* memory does not look like the state of a ghost, this is what happens.
MapShared(fb) ==
  LET entry == pte[CHOOSE l \in MappedBlocks[fb] : TRUE] IN
  /\ MappedBlocks[fb] # {}
  /\ ~IsGhost(entry.ppage)
  /\ pte' = [pte EXCEPT ![NewEntry] = entry]
  /\ MappedBlocks' = [MappedBlocks EXCEPT ![fb] = @ \cup {NewEntry}]
  /\ UNCHANGED PhysMem

\* The block is a ghost, which the new entry replaces.
MapGhost(fb) ==
  LET ghost == CHOOSE l \in MappedBlocks[fb] : TRUE
      p     == pte[ghost].ppage
  IN
  /\ MappedBlocks[fb] # {}
  /\ IsGhost(p)
  /\ PhysMem' = [PhysMem EXCEPT ![p] = Revived(@)]
  /\ pte' = [pte EXCEPT
               ![NewEntry] = IF PhysMem[p].state = "GHOST_PEND"
                             THEN Unreadable(pte[ghost]) ELSE pte[ghost],
               ![ghost] = NullEntry]
  /\ MappedBlocks' = [MappedBlocks EXCEPT ![fb] = {NewEntry}]

MapFile(v, b) ==
  /\ Reading(v, b)
  /\ Permits(v, FALSE)
  /\ phys[pte[Mine(v)].ppage] \notin Spill
  /\ LET fb == <<NameOf[phys[pte[Mine(v)].ppage]], b>> IN
       /\ MapNew(fb) \/ MapShared(fb) \/ MapGhost(fb)
       /\ bte' = [bte EXCEPT ![NewEntry] = fb]
  /\ Grow
  /\ call' = Run
  /\ UNCHANGED <<MemQueue, FreePhys, space, data>>

\* The scan for the next available swap block, from the one just taken.
NextFree == Min({b \in (FirstFreeSwap + 1)..BlCnt : b \notin SwapBlocks})

MapSwap ==
  /\ Idle
  /\ next[running_pid] # NPages
  /\ FirstFreeSwap # BlCnt
  /\ pte' = [pte EXCEPT ![NewEntry] =
               [ppage |-> 0, read_enable |-> TRUE, write_enable |-> FALSE]]
  /\ bte' = [bte EXCEPT ![NewEntry] = <<SWAP, FirstFreeSwap>>]
  /\ SwapBlocks' = SwapBlocks \cup {FirstFreeSwap}
  /\ MappedBlocks' =
       [MappedBlocks EXCEPT ![<<SWAP, FirstFreeSwap>>] = @ \cup {NewEntry}]
  /\ FirstFreeSwap' = NextFree
  /\ Grow
  /\ UNCHANGED <<frames, data, call>>

-----------------------------------------------------------------------------
(* vm_destroy: its loop over the pages, then its loop over the queue.      *)

Exiting(v) == (Idle /\ v = 0) \/ call = Exit(v)

LowerKept(b) == FirstFreeSwap
Lower(b)     == IF b < FirstFreeSwap THEN b ELSE FirstFreeSwap

DiscardSwap(e) ==
  LET b == bte[e][2]
      p == pte[e].ppage
  IN
  /\ bte[e][1] = SWAP
  /\ SwapBlocks' = SwapBlocks \ {b}
  /\ FirstFreeSwap' = Lower(b)
  /\ MappedBlocks' = [MappedBlocks EXCEPT ![bte[e]] = {}]
  /\ PhysMem' = IF p \in {Absent, 0} THEN PhysMem
                ELSE [PhysMem EXCEPT ![p] = FreeEntry]
  /\ UNCHANGED pte

\* The last entry of a file block in memory leaves a ghost.
LeavesGhost(e) == MappedBlocks[bte[e]] = {e} /\ pte[e].ppage # Absent

DiscardFile(e) ==
  LET p == pte[e].ppage IN
  /\ bte[e][1] # SWAP
  /\ IF LeavesGhost(e)
     THEN /\ pte' = [pte EXCEPT ![Ghost(p)] = pte[e]]
          /\ MappedBlocks' = [MappedBlocks EXCEPT ![bte[e]] = {Ghost(p)}]
          /\ PhysMem' = [PhysMem EXCEPT ![p] = Ghosted(@)]
     ELSE /\ MappedBlocks' = [MappedBlocks EXCEPT ![bte[e]] = @ \ {e}]
          /\ UNCHANGED <<pte, PhysMem>>
  /\ UNCHANGED space

DestroyPage(v) ==
  /\ Exiting(v)
  /\ v < next[running_pid]
  /\ DiscardSwap(Mine(v)) \/ DiscardFile(Mine(v))
  /\ call' = Exit(v + 1)
  /\ UNCHANGED <<proc, bte, MemQueue, FreePhys, data>>

DestroyTable(v) ==
  /\ Exiting(v)
  /\ v = next[running_pid]
  /\ FreePhys' = SortedFree
  /\ MemQueue' = SortedQueue
  /\ pte' = [e \in Ptes |-> IF e[1] = running_pid THEN NullEntry ELSE pte[e]]
  /\ bte' = [e \in Pte |-> IF e[1] = running_pid THEN NoLoc ELSE bte[e]]
  /\ next' = [p \in DOMAIN next \ {running_pid} |-> next[p]]
  /\ call' = None
  /\ UNCHANGED <<running_pid, MappedBlocks, PhysMem, space, data>>

-----------------------------------------------------------------------------
(* vm_create, for a parent whose arena is empty as its note demands, and   *)
(* vm_switch.                                                              *)

vm_create(child) ==
  /\ Kernel
  /\ child \notin DOMAIN next
  /\ next' = [p \in DOMAIN next \cup {child} |->
                IF p = child THEN 0 ELSE next[p]]
  /\ UNCHANGED <<running_pid, tables, frames, space, data, call>>

vm_switch(p) ==
  /\ Kernel
  /\ p \in DOMAIN next
  /\ running_pid' = p
  /\ call' = Run
  /\ UNCHANGED <<next, tables, frames, space, data>>

Access ==
  \E v \in Vpage :
    \/ \E w \in BOOLEAN : AppFault(v, w)
    \/ \E d \in Data : Store(v, d)
    \/ Reload(v)

Name ==
  \E v \in Vpage, b \in FBlock :
    NameFault(v, b) \/ NameSpills(v, b) \/ MapFile(v, b)

vm_destroy == \E v \in 0..NPages : DestroyPage(v) \/ DestroyTable(v)

Next == \/ Access \/ Name \/ MapSwap \/ vm_destroy
        \/ \E p \in Pid : vm_create(p) \/ vm_switch(p)

Spec == Init /\ [][Next]_vars

\* The pager runs to the end of a call, and the kernel restarts the instruction
\* it serviced a fault of.
Service  == ~Kernel /\ Next
LiveSpec == Spec /\ WF_vars(Service)

-----------------------------------------------------------------------------
(* Properties.                                                             *)

Live == {e \in Pte :
  /\ e[1] \in DOMAIN next
  /\ e[2] < next[e[1]]
  /\ ~(call.op = "exit" /\ e[1] = running_pid /\ e[2] < call.vp)}

Content(e) == IF pte[e].ppage = Absent THEN disk[bte[e]] ELSE phys[pte[e].ppage]

\* Every variable holds values of its type; a running process has its tables.
TypeOK ==
  /\ running_pid \in Pid \cup {NoPid}
  /\ DOMAIN next \subseteq Pid /\ next \in [DOMAIN next -> 0..NPages]
  /\ call.op # "none" => running_pid \in DOMAIN next
  /\ pte \in [Ptes -> Entry]
  /\ bte \in [Pte -> Backing \cup {NoLoc}]
  /\ MappedBlocks \in [Backing -> SUBSET Ptes]
  /\ PhysMem \in [Ppage -> PhysEntry]
  /\ MemQueue \in Seq(Frame) /\ FreePhys \in Seq(Frame)
  /\ SwapBlocks \subseteq Block /\ FirstFreeSwap \in 0..BlCnt
  /\ phys \in [Ppage -> Data] /\ disk \in [Backing -> Data]
  /\ accessed \subseteq FileBlock
  /\ call \in Call

\* No frame is lost or queued twice when get_ppage takes it off its queue, a
\* read fails, or vm_destroy sorts the frames: each is either to be had or in
\* the clock's queue, and outside vm_destroy no frame in that queue is FREE.
FramesQueued ==
  /\ IsInjective(FreePhys \o MemQueue)
  /\ Range(FreePhys \o MemQueue) = Frame
  /\ \A p \in Range(FreePhys) : PhysMem[p] = FreeEntry
  /\ \A p \in Range(MemQueue) : IsFree(p) => call.op = "exit"

\* MappedBlocks lists the entries of a backing: the pages that vm_map gave it,
\* one at most for a swap block, or the ghost they left, never both.
MappedExact ==
  \A b \in Backing :
    LET users == {e \in Live : bte[e] = b} IN
    \/ MappedBlocks[b] = users /\ (b[1] = SWAP => Cardinality(users) <= 1)
    \/ /\ users = {} /\ b[1] # SWAP
       /\ \E p \in Frame : /\ MappedBlocks[b] = {Ghost(p)}
                           /\ IsGhost(p) /\ PhysMem[p].loc = b

\* The bits of every entry of a frame say what the frame's record says: readable
\* if it is referenced, writable if it is dirty too, so that the MMU lets no
\* access through that the clock and the write-back must hear of.
BitsAgree ==
  \A p \in Frame : ~IsFree(p) =>
    /\ Mapped(p) # {}
    /\ \A e \in Mapped(p) :
         LET referenced == PhysMem[p].state \in {"REFERENCED", "GHOST_REF"} IN
         pte[e] = [ppage |-> p, read_enable |-> referenced,
                   write_enable |-> referenced /\ PhysMem[p].dirty]

\* FirstFreeSwap is the least block no page reserved, or their number when none
\* is left: vm_map neither refuses a block it has nor hands one out twice.
FirstFreeLeast ==
  /\ SwapBlocks = {b \in Block : MappedBlocks[<<SWAP, b>>] # {}}
  /\ FirstFreeSwap = Min({b \in 0..BlCnt : b \notin SwapBlocks})

\* A frame that is not dirty may be dropped: the disk holds what it holds.
CleanMeansSaved ==
  \A p \in Frame : ~IsFree(p) /\ ~PhysMem[p].dirty =>
    phys[p] = disk[PhysMem[p].loc]

\* get_ppage writes back no file block but those that were read before, which the
\* kernel promises to keep writable: it never loses a frame by returning -1.
WritesAllowed ==
  \A p \in Frame : PhysMem[p].dirty => PhysMem[p].loc \in SwapBlock \cup accessed

\* What the code asserts of the tables: a swap block and a ghost have a single
\* entry; the block vm_map is to give has none; a page is among the entries of its
\* backing; a readable one lies in a frame marked so, and the frame a file page
\* leaves is not free.
AssertionsHold ==
  /\ \A p \in Frame : IsGhost(p) \/ PhysMem[p].loc \in SwapBlock =>
                      Cardinality(Mapped(p)) = 1
  /\ FirstFreeSwap # BlCnt => MappedBlocks[<<SWAP, FirstFreeSwap>>] = {}
  /\ \A e \in Live :
       /\ e \in MappedBlocks[bte[e]]
       /\ bte[e] # <<SWAP, FirstFreeSwap>>
       /\ pte[e].read_enable =>
            /\ pte[e].ppage # Absent
            /\ PhysMem[pte[e].ppage].state \in {"REFERENCED", "PINNED"}
       /\ bte[e][1] # SWAP /\ pte[e].ppage # Absent =>
            PhysMem[pte[e].ppage].state \in {"REFERENCED", "PEND"}

\* What a process reads in a page changes with the stores the MMU lets through
\* and with nothing else: no fault, eviction, copy, map or exit alters it.
OnlyStoresWrite ==
  [][(\E e \in Live \cap Live' : Content(e)' # Content(e)) =>
        \E v \in Vpage, d \in Data : Store(v, d)]_vars

\* Every fault is serviced, every name read and every exit finished.
CallsReturn == ~Kernel ~> Kernel

\* The arenas this state stands for.
Page(e) == IF bte[e][1] = SWAP THEN [kind |-> "swap", data |-> Content(e)]
           ELSE [kind |-> "file", block |-> bte[e]]

Memory == INSTANCE VirtualMemory WITH
  arena   <- [p \in DOMAIN next \
                      (IF call.op = "exit" THEN {running_pid} ELSE {}) |->
                [i \in 1..next[p] |-> Page(<<p, i - 1>>)]],
  current <- IF call.op \in {"none", "exit"} THEN NoPid ELSE running_pid,
  files   <- [f \in FileBlock |->
                LET held == {p \in Frame : PhysMem[p].loc = f} IN
                IF held = {} THEN disk[f] ELSE phys[CHOOSE p \in held : TRUE]]

\* Every process sees its own pages as it left them, and a file block the same
\* wherever it is mapped.
ArenasKept == Memory!Spec
=============================================================================
