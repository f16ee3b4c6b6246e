------------------------------- MODULE Pager -------------------------------
(***************************************************************************)
(* The pager of src/src/vm_pager.cpp with the machine it serves: the MMU   *)
(* that faults into it, the disk it reads and writes, and the kernel that  *)
(* calls vm_create, vm_switch and vm_destroy.  The hash maps of the code   *)
(* are functions with a changing domain (infile, filemap, ghost, all_pt);  *)
(* maps from a key to a set that the code erases when the set gets empty   *)
(* (core, swfile) are total functions, {} standing for an absent key.  A   *)
(* pointer to a page table entry is the pair <<pid, virtual page>>.        *)
(*                                                                         *)
(* A definition that only repeats the name of the next one with a suffix   *)
(* (AllocPtEvicted before AllocPt, AllocCoreKept before AllocCore) is a    *)
(* plausible mistake in that one.  No action uses it: PROJECT.json pairs   *)
(* it with the property that finds it.                                     *)
(***************************************************************************)
EXTENDS Integers, Sequences, FiniteSets, SequencesExt, Functions,
        Control, Clock

CONSTANTS
  Pid, NoPid,       \* process identifiers, and none
  BlCnt,            \* swap_blocks, the second argument of vm_init
  File,             \* file names
  Data, Zero, Junk, \* page contents: any, all zeroes, what nobody wrote
  NameOf,           \* the file named by the string in a page of that content
  Spill,            \* contents with no '\0' between the string and the page end
  Word              \* eblcnt is unsigned: it counts modulo Word

ASSUME PidAssumption == NoPid \notin Pid
ASSUME SizeAssumption ==
  /\ NPages \in Nat \ {0}
  /\ BlCnt \in Nat
  /\ Word \in Nat \ {0}
  /\ BlCnt < Word
ASSUME DataAssumption ==
  /\ Zero \in Data /\ Junk \in Data
  /\ NameOf \in [Data -> File]
  /\ Spill \subseteq Data
  /\ FBlock # {}

Pte       == Pid \X Vpage
Block     == 0..(BlCnt - 1)
FileBlock == File \X FBlock

SwapRec == [ftype : {"SWAP"}, infile : BOOLEAN, block : Block]
FileRec == [ftype : {"FILE_B"}, infile : BOOLEAN, block : FileBlock]
Infile  == SwapRec \cup FileRec
Pt      == [size : 0..NPages, numsw : Nat]
Fbp     == [ppage : Ppage, vpset : SUBSET Pte]
Entry   == [ppage : Ppage, read_enable : BOOLEAN, write_enable : BOOLEAN]

VARIABLES
  curr_pid, bound, all_pt,             \* running process, live processes
  eblcnt, free_block, swfile,          \* swap space
  psuff, ghost, core,                  \* physical pages
  infile, filemap,                     \* backing of virtual pages
  pt,                                  \* the page tables
  phys, swap, file,                    \* contents of memory and of the disk
  accessed,                            \* file blocks read successfully
  call                                 \* control

space    == <<eblcnt, free_block, swfile>>
proc     == <<curr_pid, bound, all_pt>>
frames   == <<clock_q, free_ppage, psuff, ghost, core>>
mapping  == <<infile, filemap, pt>>
contents == <<phys, swap, file, accessed>>
vars     == <<proc, space, frames, mapping, contents, call>>

-----------------------------------------------------------------------------
(* Maps and sets.                                                          *)

Put(f, x, v) == [y \in DOMAIN f \cup {x} |-> IF y = x THEN v ELSE f[y]]
Drop(f, S)   == Restrict(f, DOMAIN f \ S)
Sole(S)      == \E d \in S : S = {d}            \* size() == 1
Shared(S)    == \E c, d \in S : c # d           \* size() > 1

\* *set.begin(): the entry at the least address, whichever that is.
First(S) == CHOOSE e \in S : TRUE

NullEntry == [ppage |-> pinned, read_enable |-> FALSE, write_enable |-> FALSE]
Revoked(entry) ==
  [entry EXCEPT !.read_enable = FALSE, !.write_enable = FALSE]
GrantedRead(entry) == [entry EXCEPT !.read_enable = TRUE]
Granted(entry) ==
  [entry EXCEPT !.read_enable = TRUE, !.write_enable = TRUE]

-----------------------------------------------------------------------------
(* Control.                                                                *)

Idle    == call.op = "run"
Kernel  == call.op \in {"run", "none"}
Mine(v) == <<curr_pid, v>>

\* The MMU: an access to a page outside the arena, or without the permission
\* bit it needs, faults.
Permits(v, w) ==
  /\ v \in Vpage
  /\ IF w THEN pt[Mine(v)].write_enable ELSE pt[Mine(v)].read_enable

\* vm_to_string is about to look at virtual page v: the call was just made,
\* or its loop got this far.
Reading(v, b) ==
  \/ Idle /\ bound # NPages
  \/ call = Str(v, b)

ReadableOnce(v) == Permits(v, FALSE) \/ (call.op = "string" /\ v < bound)

\* It asks this of every page the name lies in, before it reads one there.
Readable(v) == Permits(v, FALSE)

-----------------------------------------------------------------------------
(* vm_init                                                                 *)

Init ==
  /\ curr_pid = NoPid /\ bound = 0 /\ all_pt = <<>>
  /\ eblcnt = BlCnt
  /\ free_block = [i \in 1..BlCnt |-> i - 1]
  /\ swfile = [b \in Block |-> {}]
  /\ clock_q = [i \in 1..(PCnt - 1) |-> i]
  /\ free_ppage = [i \in 1..(PCnt - 1) |-> i]
  /\ psuff = [p \in Frame |-> [ref |-> FALSE, dirty |-> FALSE]]
  /\ ghost = <<>>
  /\ core = [p \in Ppage |-> {}]
  /\ infile = <<>>
  /\ filemap = <<>>
  /\ pt = [e \in Pte |-> NullEntry]
  /\ phys = [p \in Ppage |-> IF p = pinned THEN Zero ELSE Junk]
  /\ swap = [b \in Block |-> Junk]
  /\ file = [f \in FileBlock |-> Junk]
  /\ accessed = {}
  /\ call = None

\* What the code asserts of an entry it looks up: infile has a record of it and
\* filemap one of its block.  The program goes no further otherwise.
Recorded(e) ==
  /\ e \in DOMAIN infile
  /\ infile[e].ftype = "FILE_B" => infile[e].block \in DOMAIN filemap

-----------------------------------------------------------------------------
(* alloc, and pm_evict inside it: the frame it returns, and what it leaves *)
(* in each variable it may change.                                         *)

OfGhost(ps) == Victim(ps) \in DOMAIN ghost

Backing(ps) == infile[First(core[Victim(ps)])]

\* The assertions of pm_evict: the victim is a ghost or holds a mapped page.
EvictAsserts(ps) ==
  Evicts /\ ~OfGhost(ps) =>
    /\ core[Victim(ps)] # {}
    /\ Recorded(First(core[Victim(ps)]))

\* The entries pm_evict marks as on disk.
Evictees(ps) ==
  IF ~Evicts \/ OfGhost(ps) THEN {}
  ELSE IF Backing(ps).ftype = "SWAP" THEN swfile[Backing(ps).block]
  ELSE filemap[Backing(ps).block].vpset

WritesMapped(ps) == Evicts /\ ps[Victim(ps)].dirty /\ ~OfGhost(ps)
WritesBack(ps) == Evicts /\ ps[Victim(ps)].dirty

AllocPtEvicted(ps) ==
  [e \in Pte |-> IF e \in Evictees(ps) THEN Revoked(pt[e]) ELSE pt[e]]

AllocPt(ps) ==
  [e \in Pte |->
     IF e \in Evictees(ps) \/ (Evicts /\ \E p \in Passed(ps) : e \in core[p])
     THEN Revoked(pt[e]) ELSE pt[e]]

AllocInfile(ps) ==
  [e \in DOMAIN infile |->
     IF e \in Evictees(ps) THEN [infile[e] EXCEPT !.infile = TRUE]
     ELSE infile[e]]

AllocCoreKept(ps) == core

AllocCore(ps) ==
  IF Evicts /\ ~OfGhost(ps) THEN [core EXCEPT ![Victim(ps)] = {}] ELSE core

AllocGhostKept(ps) == ghost
AllocGhost(ps) == IF Evicts THEN Drop(ghost, {Victim(ps)}) ELSE ghost

AllocFilemapKept(ps) == filemap
AllocFilemap(ps) ==
  IF Evicts /\ OfGhost(ps) THEN Drop(filemap, {ghost[Victim(ps)]}) ELSE filemap

AllocSwap(ps) ==
  IF WritesBack(ps) /\ ~OfGhost(ps) /\ Backing(ps).ftype = "SWAP"
  THEN [swap EXCEPT ![Backing(ps).block] = phys[Victim(ps)]] ELSE swap

AllocFileGhost(ps) ==
  IF WritesBack(ps) /\ OfGhost(ps)
  THEN [file EXCEPT ![ghost[Victim(ps)]] = phys[Victim(ps)]] ELSE file

AllocFile(ps) ==
  IF ~WritesBack(ps) THEN file
  ELSE IF OfGhost(ps) THEN [file EXCEPT ![ghost[Victim(ps)]] = phys[Victim(ps)]]
  ELSE IF Backing(ps).ftype = "FILE_B"
  THEN [file EXCEPT ![Backing(ps).block] = phys[Victim(ps)]] ELSE file

-----------------------------------------------------------------------------
(* vm_fault(v, w), called with the continuation ok when it returns 0 and   *)
(* fail when it returns -1.                                                *)

IsCowShared(e) == Shared(core[pt[e].ppage]) /\ infile[e].ftype = "SWAP"

\* The swap page is the zero page still, or shares its frame.
IsCow(e) ==
  \/ pt[e].ppage = pinned
  \/ /\ Shared(core[pt[e].ppage])
     /\ infile[e].ftype = "SWAP"
     /\ ~infile[e].infile

FaultInvalid(v, fail) ==
  /\ v >= bound
  /\ call' = fail
  /\ UNCHANGED <<proc, space, frames, mapping, contents>>

SameBlockNone(e) == {}

\* The entries that share the file block of page e, which is in memory.
SameBlock(e) ==
  IF pt[e].ppage # pinned /\ infile[e].ftype = "FILE_B"
  THEN filemap[infile[e].block].vpset ELSE {}

\* The page is in memory and is not copied: the permission bits and the
\* reference and dirty bits change, for every entry of a file block at once.
FaultResident(e, w, ok) ==
  LET p     == pt[e].ppage
      dirty == p # pinned /\ psuff[p].dirty
      seen  == [pt[e] EXCEPT !.read_enable = TRUE,
                             !.write_enable = @ \/ dirty]
      entry(l) == IF l = e \/ l \in SameBlock(e) THEN seen ELSE pt[l]
  IN
  /\ ~infile[e].infile
  /\ ~(w /\ IsCow(e))
  /\ pt' = [l \in Pte |->
              IF w /\ l \in core[p] THEN Granted(entry(l)) ELSE entry(l)]
  /\ psuff' = IF p = pinned THEN psuff
              ELSE [psuff EXCEPT ![p] = [ref |-> TRUE, dirty |-> @.dirty \/ w]]
  /\ call' = ok
  /\ UNCHANGED <<proc, space, clock_q, free_ppage, ghost, core, infile, filemap,
                 contents>>

\* cow: the entry moves to a frame of its own with a copy of the contents.
FaultCow(e, ok) ==
  LET p  == pt[e].ppage
      ps == IF p = pinned THEN psuff ELSE [psuff EXCEPT ![p].ref = TRUE]
      n  == Alloc(ps)
  IN
  /\ ~infile[e].infile
  /\ IsCow(e)
  /\ EvictAsserts(ps)
  /\ phys' = [phys EXCEPT ![n] = phys[p]]
  /\ core' = [AllocCore(ps) EXCEPT ![p] = @ \ {e}, ![n] = @ \cup {e}]
  /\ pt' = [AllocPt(ps) EXCEPT ![e] =
              [ppage |-> n, read_enable |-> TRUE, write_enable |-> TRUE]]
  /\ psuff' = [AllocPsuff(ps) EXCEPT ![n].dirty = TRUE]
  /\ clock_q' = AllocClock(ps)
  /\ free_ppage' = AllocFree(ps)
  /\ infile' = AllocInfile(ps)
  /\ ghost' = AllocGhost(ps)
  /\ filemap' = AllocFilemap(ps)
  /\ swap' = AllocSwap(ps)
  /\ file' = AllocFile(ps)
  /\ call' = ok
  /\ UNCHANGED <<proc, space, accessed>>

\* The entries of the block that backs page e.
LiftedAlone(e) == {e}
Lifted(e) == IF infile[e].ftype = "FILE_B" THEN filemap[infile[e].block].vpset
             ELSE swfile[infile[e].block]

\* The page is on disk: it is read into a frame and every entry of its block
\* is lifted.  If core still lists other entries for the frame, which only a fork
\* or a failed write leaves behind, a store makes a file page writable for them
\* too, and copies a swap page.  The copy is the next step, of the restarted
\* store: the page is not writable yet, whatever the dirty bit of the frame.  A
\* block that was evicted as a ghost while it had pages is not followed further.
FaultLoad(e, w, ok) ==
  LET b      == infile[e]
      n      == Alloc(psuff)
      isFile == b.ftype = "FILE_B"
      lifted == Lifted(e)
      stale  == AllocCore(psuff)[n]
      copies == w /\ ~isFile /\ Shared(stale \cup lifted)
      grants == w /\ ~copies
      dirty  == grants \/ AllocPsuff(psuff)[n].dirty
  IN
  /\ b.infile
  /\ EvictAsserts(psuff)
  /\ isFile => b.block \in DOMAIN AllocFilemap(psuff)
  /\ phys' = [phys EXCEPT ![n] = IF isFile THEN AllocFile(psuff)[b.block]
                                ELSE AllocSwap(psuff)[b.block]]
  /\ accessed' = IF isFile THEN accessed \cup {b.block} ELSE accessed
  /\ infile' = [l \in DOMAIN infile |->
                  IF l \in lifted THEN [infile[l] EXCEPT !.infile = FALSE]
                  ELSE AllocInfile(psuff)[l]]
  /\ pt' = [l \in Pte |->
              IF l \in lifted
              THEN [ppage |-> n, read_enable |-> TRUE,
                    write_enable |-> dirty /\ ~copies]
              ELSE IF grants /\ l \in stale THEN Granted(AllocPt(psuff)[l])
              ELSE AllocPt(psuff)[l]]
  /\ core' = [AllocCore(psuff) EXCEPT ![n] = @ \cup lifted]
  /\ filemap' = IF isFile THEN [AllocFilemap(psuff) EXCEPT ![b.block].ppage = n]
                ELSE AllocFilemap(psuff)
  /\ psuff' = [AllocPsuff(psuff) EXCEPT ![n] = [ref |-> TRUE, dirty |-> dirty]]
  /\ clock_q' = AllocClock(psuff)
  /\ free_ppage' = AllocFree(psuff)
  /\ ghost' = AllocGhost(psuff)
  /\ swap' = AllocSwap(psuff)
  /\ file' = AllocFile(psuff)
  /\ call' = ok
  /\ UNCHANGED <<proc, space>>

\* file_read fails: the frame goes back to the free pages, whatever it held
\* before having been evicted.  The swap file, and a block that was read
\* before, never fail.
FaultReadFails(e, fail) ==
  LET n == Alloc(psuff) IN
  /\ infile[e].infile
  /\ infile[e].ftype = "FILE_B"
  /\ infile[e].block \notin accessed
  /\ EvictAsserts(psuff)
  /\ free_ppage' = Append(AllocFree(psuff), n)
  /\ psuff' = [AllocPsuff(psuff) EXCEPT ![n] = [ref |-> FALSE, dirty |-> FALSE]]
  /\ clock_q' = AllocClock(psuff)
  /\ pt' = AllocPt(psuff)
  /\ infile' = AllocInfile(psuff)
  /\ core' = AllocCore(psuff)
  /\ ghost' = AllocGhost(psuff)
  /\ filemap' = AllocFilemap(psuff)
  /\ swap' = AllocSwap(psuff)
  /\ file' = AllocFile(psuff)
  /\ call' = fail
  /\ UNCHANGED <<proc, space, phys, accessed>>

vm_fault(v, w, ok, fail) ==
  \/ FaultInvalid(v, fail)
  \/ /\ v < bound /\ Recorded(Mine(v))
     /\ \/ FaultResident(Mine(v), w, ok)
        \/ w /\ FaultCow(Mine(v), ok)
        \/ FaultLoad(Mine(v), w, ok)
        \/ FaultReadFails(Mine(v), fail)

\* A load or a store faults.  The kernel restarts the instruction when the
\* fault is serviced and destroys the process when it cannot be.
AppFault(v, w) ==
  /\ Idle \/ call = Retry(v, w)
  /\ ~Permits(v, w)
  /\ vm_fault(v, w, Retry(v, w), Exit(0))

\* A store the MMU lets through.
Store(v, d) ==
  /\ Idle \/ call = Retry(v, TRUE)
  /\ Permits(v, TRUE)
  /\ phys' = [phys EXCEPT ![pt[Mine(v)].ppage] = d]
  /\ call' = Run
  /\ UNCHANGED <<proc, space, frames, mapping, swap, file, accessed>>

\* The restarted load completes.  A load that does not fault changes nothing.
Reload(v) ==
  /\ call = Retry(v, FALSE)
  /\ Permits(v, FALSE)
  /\ call' = Run
  /\ UNCHANGED <<proc, space, frames, mapping, contents>>

-----------------------------------------------------------------------------
(* vm_to_string and vm_map.  A call that returns nullptr without a fault   *)
(* (the arena is full, no swap block is left, the name lies outside the    *)
(* arena) changes nothing and is not an action.                            *)

\* A page of the name is not readable: vm_to_string faults it in itself, and
\* vm_map returns nullptr when that fails.
NameFault(v, b) ==
  /\ Reading(v, b)
  /\ ~Readable(v)
  /\ vm_fault(v, FALSE, Str(v, b), Run)

NameSpillsAgain(v, b) ==
  /\ Reading(v, b)
  /\ Readable(v)
  /\ phys[pt[Mine(v)].ppage] \in Spill
  /\ call' = Str(v, b)
  /\ UNCHANGED <<proc, space, frames, mapping, contents>>

\* The string goes on in the next page.
NameSpills(v, b) ==
  /\ Reading(v, b)
  /\ Readable(v)
  /\ phys[pt[Mine(v)].ppage] \in Spill
  /\ call' = Str(v + 1, b)
  /\ UNCHANGED <<proc, space, frames, mapping, contents>>

NewEntry  == Mine(all_pt[curr_pid].size)
NamedBy(v, b) == <<NameOf[phys[pt[Mine(v)].ppage]], b>>

Grow == /\ all_pt' = [all_pt EXCEPT ![curr_pid].size = @ + 1]
        /\ bound' = bound + 1
        /\ UNCHANGED curr_pid

\* The block is in filemap already.  Its frame number tells a ghost page; the
\* new entry then takes its permissions from the frame's bits, otherwise from
\* another entry of the block.
Remap(fb) ==
  LET p      == filemap[fb].ppage
      others == filemap[fb].vpset
      onDisk == others # {} /\ infile[First(others)].infile
      entry  == IF p \in DOMAIN ghost
                THEN [ppage |-> p, read_enable |-> psuff[p].ref,
                      write_enable |-> psuff[p].ref /\ psuff[p].dirty]
                ELSE pt[First(others)]
  IN
  /\ fb \in DOMAIN filemap
  /\ p \in DOMAIN ghost \/ others # {}
  /\ ghost' = Drop(ghost, {p})
  /\ pt' = [pt EXCEPT ![NewEntry] = entry]
  /\ infile' = Put(infile, NewEntry,
                   [ftype |-> "FILE_B", infile |-> onDisk, block |-> fb])
  /\ core' = IF onDisk THEN core
             ELSE [core EXCEPT ![entry.ppage] = @ \cup {NewEntry}]
  /\ filemap' = [filemap EXCEPT ![fb].vpset = @ \cup {NewEntry}]

MapNewZero(fb) ==
  /\ fb \notin DOMAIN filemap
  /\ filemap' = Put(filemap, fb, [ppage |-> pinned, vpset |-> {NewEntry}])
  /\ pt' = [pt EXCEPT ![NewEntry] = NullEntry]
  /\ infile' = Put(infile, NewEntry,
                   [ftype |-> "FILE_B", infile |-> FALSE, block |-> fb])
  /\ UNCHANGED <<ghost, core>>

\* A block nobody has mapped: it is on disk.
MapNew(fb) ==
  /\ fb \notin DOMAIN filemap
  /\ filemap' = Put(filemap, fb, [ppage |-> pinned, vpset |-> {NewEntry}])
  /\ pt' = [pt EXCEPT ![NewEntry] = NullEntry]
  /\ infile' = Put(infile, NewEntry,
                   [ftype |-> "FILE_B", infile |-> TRUE, block |-> fb])
  /\ UNCHANGED <<ghost, core>>

MapFile(v, b) ==
  /\ Reading(v, b)
  /\ Readable(v)
  /\ phys[pt[Mine(v)].ppage] \notin Spill
  /\ Remap(NamedBy(v, b)) \/ MapNew(NamedBy(v, b))
  /\ Grow
  /\ call' = Run
  /\ UNCHANGED <<space, clock_q, free_ppage, psuff, contents>>

\* A swap page reserves its block at once and shows the zero page.
MapSwap ==
  /\ Idle
  /\ free_block # <<>> /\ bound # NPages
  /\ infile' = Put(infile, NewEntry, [ftype |-> "SWAP", infile |-> FALSE,
                                      block |-> Head(free_block)])
  /\ swfile' = [swfile EXCEPT ![Head(free_block)] = @ \cup {NewEntry}]
  /\ free_block' = Tail(free_block)
  /\ eblcnt' = (eblcnt - 1) % Word
  /\ pt' = [pt EXCEPT ![NewEntry] =
              [ppage |-> pinned, read_enable |-> TRUE, write_enable |-> FALSE]]
  /\ core' = [core EXCEPT ![pinned] = @ \cup {NewEntry}]
  /\ all_pt' = [all_pt EXCEPT ![curr_pid] =
                  [size |-> @.size + 1, numsw |-> @.numsw + 1]]
  /\ bound' = bound + 1
  /\ UNCHANGED <<curr_pid, clock_q, free_ppage, psuff, ghost, filemap, contents,
                 call>>

-----------------------------------------------------------------------------
(* vm_discard and the loop of vm_destroy.                                  *)

GiveBackCounted(b) ==
  eblcnt' = (eblcnt + 1) % Word /\ UNCHANGED free_block

GiveBack(b) ==
  free_block' = Append(free_block, b) /\ eblcnt' = (eblcnt + 1) % Word

\* A swap block is free again when its last entry leaves; a file block leaves
\* filemap with its last entry unless its contents stay in memory.
DiscardBacking(e) ==
  LET b == infile[e] IN
  IF b.ftype = "SWAP"
  THEN /\ IF Sole(swfile[b.block])
          THEN /\ GiveBack(b.block)
               /\ swfile' = [swfile EXCEPT ![b.block] = {}]
          ELSE /\ swfile' = [swfile EXCEPT ![b.block] = @ \ {e}]
               /\ UNCHANGED <<free_block, eblcnt>>
       /\ UNCHANGED filemap
  ELSE /\ filemap' = IF b.infile /\ filemap[b.block].vpset \subseteq {e}
                     THEN Drop(filemap, {b.block})
                     ELSE [filemap EXCEPT ![b.block].vpset = @ \ {e}]
       /\ UNCHANGED space

FreesAnyFrame(e) == infile[e].ftype = "SWAP" /\ Sole(core[pt[e].ppage])

FreesFrame(e) ==
  infile[e].ftype = "SWAP" /\ Sole(core[pt[e].ppage]) /\ pt[e].ppage # pinned

\* The frame of the last entry: a file page leaves a ghost, a private page
\* gives the frame back.
DiscardFrame(e) ==
  LET b == infile[e]
      p == pt[e].ppage
  IN
  IF b.infile THEN UNCHANGED <<free_ppage, psuff, ghost, core>>
  ELSE /\ core' = [core EXCEPT ![p] = IF Shared(core[p]) THEN @ \ {e} ELSE {}]
       /\ ghost' = IF b.ftype = "FILE_B" /\ Sole(core[p])
                   THEN Put(ghost, p, b.block) ELSE ghost
       /\ IF FreesFrame(e)
          THEN /\ free_ppage' = Append(free_ppage, p)
               /\ psuff' = [psuff EXCEPT ![p] = [ref |-> FALSE, dirty |-> FALSE]]
          ELSE UNCHANGED <<free_ppage, psuff>>

DiscardRecordKept(e) ==
  Recorded(e) /\ DiscardBacking(e) /\ DiscardFrame(e) /\ UNCHANGED infile

DiscardFrameKept(e) ==
  /\ Recorded(e) /\ DiscardBacking(e)
  /\ infile' = Drop(infile, {e})
  /\ UNCHANGED <<free_ppage, psuff, ghost, core>>

vm_discard(e) ==
  /\ Recorded(e)
  /\ DiscardBacking(e)
  /\ DiscardFrame(e)
  /\ infile' = Drop(infile, {e})

\* The running process exits (v = 0) or the loop has reached page v.
Exiting(v) == (Idle /\ v = 0) \/ call = Exit(v)

DestroyPage(v) ==
  /\ Exiting(v)
  /\ v < all_pt[curr_pid].size
  /\ vm_discard(Mine(v))
  /\ call' = Exit(v + 1)
  /\ UNCHANGED <<proc, clock_q, pt, contents>>

\* The page table is freed; curr_pid and bound stay what they were, and nothing
\* runs before the next vm_switch.
DestroyTable(v) ==
  /\ Exiting(v)
  /\ v = all_pt[curr_pid].size
  /\ all_pt' = Drop(all_pt, {curr_pid})
  /\ pt' = [e \in Pte |-> IF e[1] = curr_pid THEN NullEntry ELSE pt[e]]
  /\ call' = None
  /\ UNCHANGED <<curr_pid, bound, space, frames, infile, filemap, contents>>

-----------------------------------------------------------------------------
(* vm_switch and vm_create, called by the kernel between instructions.     *)

vm_switch(p) ==
  /\ Kernel
  /\ p \in DOMAIN all_pt
  /\ curr_pid' = p
  /\ bound' = all_pt[p].size
  /\ call' = Run
  /\ UNCHANGED <<all_pt, space, frames, mapping, contents>>

\* The page count of a parent: none for one the pager does not manage.
ParentSize(p)  == IF p \in DOMAIN all_pt THEN all_pt[p].size ELSE 0
ParentNumsw(p) == IF p \in DOMAIN all_pt THEN all_pt[p].numsw ELSE 0

\* The swap pages among the parent's first k pages: the child's copy of swap
\* page i gets the block at position SwapBefore(parent, i) + 1 of free_block.
SwapBefore(parent, k) ==
  Cardinality({i \in 0..(k - 1) : infile[<<parent, i>>].ftype = "SWAP"})

\* filemap[..][f].vpset.insert, for each of S: an absent block gets a record.
Listing(fm, f, S) ==
  IF f \in DOMAIN fm THEN [fm[f] EXCEPT !.vpset = @ \cup S]
  ELSE [ppage |-> pinned, vpset |-> S]

\* The child gets the parent's entries, write protected in both, and a block
\* of its own for each of its swap pages.
vm_create(parent, child) ==
  LET size     == ParentSize(parent)
      numsw    == ParentNumsw(parent)
      born     == {child} \X (0..(size - 1))
      model(e) == <<parent, e[2]>>
      copy(e)  == IF infile[model(e)].ftype = "FILE_B" THEN infile[model(e)]
                  ELSE [infile[model(e)] EXCEPT
                          !.block = free_block[SwapBefore(parent, e[2]) + 1]]
      record   == [e \in born |-> copy(e)]
  IN
  /\ Kernel
  /\ parent = NoPid \/ (Idle /\ parent = curr_pid)
  /\ child \notin DOMAIN all_pt
  /\ numsw <= Len(free_block)
  /\ infile' = [e \in DOMAIN infile \cup born |->
                  IF e \in born THEN record[e] ELSE infile[e]]
  /\ swfile' = [b \in Block |-> swfile[b] \cup
                  {e \in born : record[e].ftype = "SWAP" /\ record[e].block = b}]
  /\ filemap' = [f \in DOMAIN filemap \cup
                       {record[e].block : e \in {d \in born : record[d].ftype = "FILE_B"}} |->
                   Listing(filemap, f, {e \in born : /\ record[e].ftype = "FILE_B"
                                                     /\ record[e].block = f})]
  /\ free_block' = SubSeq(free_block, numsw + 1, Len(free_block))
  /\ eblcnt' = (eblcnt - numsw - numsw) % Word
  /\ core' = [p \in Ppage |-> core[p] \cup {e \in born : pt[model(e)].ppage = p}]
  /\ pt' = [e \in Pte |->
              IF e \in born THEN [pt[model(e)] EXCEPT !.write_enable = FALSE]
              ELSE IF e[1] = child THEN NullEntry
              ELSE IF e[1] = parent /\ e[2] < size
                   THEN [pt[e] EXCEPT !.write_enable = FALSE]
              ELSE pt[e]]
  /\ all_pt' = Put(all_pt, child, [size |-> size, numsw |-> numsw])
  /\ UNCHANGED <<curr_pid, bound, clock_q, free_ppage, psuff, ghost, contents,
                 call>>

-----------------------------------------------------------------------------
(* The steps of the system.  Step is what the code does right wherever it  *)
(* starts; the two operations beside it have cases the code gets wrong.    *)

Access ==
  \E v \in Vpage :
    \/ \E w \in BOOLEAN : AppFault(v, w)
    \/ \E d \in Data : Store(v, d)
    \/ Reload(v)

Name ==
  \E v \in Vpage, b \in FBlock : NameFault(v, b) \/ NameSpills(v, b)

vm_destroy == \E v \in 0..NPages : DestroyPage(v) \/ DestroyTable(v)

Step == Access \/ Name \/ MapSwap \/ vm_destroy \/ \E p \in Pid : vm_switch(p)

Next ==
  \/ Step
  \/ \E v \in Vpage, b \in FBlock : MapFile(v, b)
  \/ \E parent \in Pid \cup {NoPid}, child \in Pid : vm_create(parent, child)

\* The program as written.
Spec == Init /\ [][Next]_vars

\* A child is created of an empty arena only: what fork comes to when the
\* parent has mapped nothing yet, or is not managed.
FlatNext ==
  \/ Step
  \/ \E v \in Vpage, b \in FBlock : MapFile(v, b)
  \/ \E parent \in Pid \cup {NoPid}, child \in Pid :
       vm_create(parent, child) /\ ParentSize(parent) = 0

FlatSpec == Init /\ [][FlatNext]_vars

\* A block in filemap whose frame number belongs to the ghost of another block.
StaleGhost(fb) ==
  /\ fb \in DOMAIN filemap
  /\ filemap[fb].ppage \in DOMAIN ghost
  /\ ghost[filemap[fb].ppage] # fb

\* Besides, no file block is mapped over the ghost of another one: the limits
\* within which the program is correct.
CleanNext ==
  \/ Step
  \/ \E v \in Vpage, b \in FBlock :
       MapFile(v, b) /\ ~StaleGhost(NamedBy(v, b))
  \/ \E parent \in Pid \cup {NoPid}, child \in Pid :
       vm_create(parent, child) /\ ParentSize(parent) = 0

CleanSpec == Init /\ [][CleanNext]_vars
=============================================================================
