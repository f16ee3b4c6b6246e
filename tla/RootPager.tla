----------------------------- MODULE RootPager -----------------------------
(***************************************************************************)
(* vm_pager.cpp in the root of the repository, the file its Makefile       *)
(* builds.  It is the program of Pager, with checks in cow and vm_fault of *)
(* what alloc returns: a write that fails ends the fault.  Two things are  *)
(* modelled here that Pager leaves out: disks on which a write may fail,   *)
(* which vm_pager.h excludes and pm_evict handles, and the loop of         *)
(* vm_create, a page a step, which Pager takes as a whole.                 *)
(*                                                                         *)
(* All else is Pager's.  A definition that repeats the name of the next    *)
(* one with a suffix is a plausible mistake in that one.                   *)
(***************************************************************************)
EXTENDS PagerProperties

VARIABLE fork   \* vm_create: its arguments, its counter and the maps it edits

NoFork   == <<>>
rootvars == <<vars, fork>>

-----------------------------------------------------------------------------
(* A write that fails.                                                     *)

\* pm_evict cannot save the victim: it calls its frame free and clean, and
\* alloc returns -1.  The hand has moved, and the entries it passed are revoked,
\* but the records of the frame's pages stay as they were.
AllocFails(ps, entries) ==
  /\ WritesBack(ps)
  /\ EvictAsserts(ps)
  /\ clock_q' = AllocClock(ps)
  /\ free_ppage' = Append(free_ppage, Victim(ps))
  /\ psuff' = [AllocPsuff(ps) EXCEPT ![Victim(ps)].ref = FALSE]
  /\ pt' = [l \in Pte |-> IF \E p \in Passed(ps) : l \in core[p]
                          THEN Revoked(entries[l]) ELSE entries[l]]
  /\ UNCHANGED <<ghost, core, infile, filemap>>

\* vm_fault cannot make room for the page: nothing was loaded.
LoadWriteFails(e) == infile[e].infile /\ AllocFails(psuff, pt)

\* cow cannot: the page stays shared, with the permissions that were granted
\* before the copy was tried.
CowWriteFails(e) ==
  LET p    == pt[e].ppage
      seen == [pt EXCEPT ![e].read_enable = TRUE]
  IN
  /\ ~infile[e].infile
  /\ IsCow(e)
  /\ IF p = pinned THEN AllocFails(psuff, seen)
     ELSE AllocFails([psuff EXCEPT ![p].ref = TRUE],
                     [seen EXCEPT ![e].write_enable = @ \/ psuff[p].dirty])

\* vm_fault returns -1.  The kernel destroys the process whose access it was; the
\* name that vm_map was reading cannot be read, and vm_map returns nullptr.
AccessFails(v, w) ==
  /\ Idle \/ call = Retry(v, w)
  /\ ~Permits(v, w)
  /\ LoadWriteFails(Mine(v)) \/ (w /\ CowWriteFails(Mine(v)))
  /\ call' = Exit(0)

NameFails(v, b) ==
  /\ Reading(v, b)
  /\ ~Readable(v)
  /\ LoadWriteFails(Mine(v))
  /\ call' = Run

WriteFails ==
  /\ \E v \in 0..(bound - 1) :
       /\ Recorded(Mine(v))
       /\ (\E w \in BOOLEAN : AccessFails(v, w)) \/ \E b \in FBlock : NameFails(v, b)
  /\ UNCHANGED <<proc, space, contents>>

-----------------------------------------------------------------------------
(* vm_create.  The kernel waits for it: the maps that it is changing are   *)
(* kept in fork until it returns.                                          *)

ForkStart(parent, child) ==
  /\ fork = NoFork
  /\ Kernel
  /\ parent = NoPid \/ (Idle /\ parent = curr_pid)
  /\ child \notin DOMAIN all_pt
  /\ ParentNumsw(parent) <= Len(free_block)
  /\ fork' = [parent |-> parent, child |-> child, vp |-> 0,
              infile |-> infile, filemap |-> filemap, swfile |-> swfile,
              free_block |-> free_block, eblcnt |-> eblcnt,
              core |-> core, pt |-> pt]
  /\ UNCHANGED vars

\* core[x].insert(e), swfile[x].insert(e)
Inserted(sets, x, e) == [sets EXCEPT ![x] = @ \cup {e}]

\* The child's entry is the parent's.
Shares(table, e, c, entry) == [table EXCEPT ![e] = entry, ![c] = entry]

\* One page: both entries are write protected; a file page joins its block, a
\* swap page gets the next free block.
PoppedNot(q) == q
Popped(q)    == Tail(q)
ForkPage ==
  LET e     == <<fork.parent, fork.vp>>
      c     == <<fork.child, fork.vp>>
      entry == [fork.pt[e] EXCEPT !.write_enable = FALSE]
      b     == fork.infile[e]
      taken == Head(fork.free_block)
      both  == [fork EXCEPT
                  !.vp = @ + 1,
                  !.pt = Shares(@, e, c, entry),
                  !.core = Inserted(@, entry.ppage, c)]
  IN
  /\ fork # NoFork
  /\ fork.vp < ParentSize(fork.parent)
  /\ fork' =
       IF b.ftype = "FILE_B"
       THEN [both EXCEPT
               !.infile = Put(@, c, b),
               !.filemap = Put(@, b.block, Listing(@, b.block, {c}))]
       ELSE [both EXCEPT
               !.infile = Put(@, c, [b EXCEPT !.block = taken]),
               !.swfile = Inserted(@, taken, c),
               !.free_block = Popped(@),
               !.eblcnt = (@ - 1) % Word]
  /\ UNCHANGED vars

CarriedLost(parent) == 0
Carried(parent)     == ParentNumsw(parent)

\* The rest of the arena is emptied, and the child is on record.
ForkEnd ==
  LET size  == ParentSize(fork.parent)
      numsw == Carried(fork.parent)
  IN
  /\ fork # NoFork
  /\ fork.vp = size
  /\ pt' = [e \in Pte |-> IF e[1] = fork.child /\ e[2] >= size THEN NullEntry
                          ELSE fork.pt[e]]
  /\ eblcnt' = (fork.eblcnt - numsw) % Word
  /\ all_pt' = Put(all_pt, fork.child, [size |-> size, numsw |-> numsw])
  /\ infile' = fork.infile /\ filemap' = fork.filemap
  /\ swfile' = fork.swfile /\ free_block' = fork.free_block
  /\ core' = fork.core
  /\ fork' = NoFork
  /\ UNCHANGED <<curr_pid, bound, clock_q, free_ppage, psuff, ghost, contents,
                 call>>

-----------------------------------------------------------------------------

RootInit == Init /\ fork = NoFork

RootNext ==
  \/ /\ fork = NoFork
     /\ \/ Step
        \/ \E v \in Vpage, b \in FBlock : MapFile(v, b)
        \/ WriteFails
     /\ UNCHANGED fork
  \/ \E parent \in Pid \cup {NoPid}, child \in Pid : ForkStart(parent, child)
  \/ ForkPage
  \/ ForkEnd

RootSpec == RootInit /\ [][RootNext]_rootvars

-----------------------------------------------------------------------------
(* Properties, besides those of PagerProperties.                           *)

\* The loop of vm_create, popping a block per swap page and counting eblcnt
\* down, does what Pager's single step says of it, from whatever state.
ForkAsWhole ==
  [][fork # NoFork /\ fork' = NoFork => vm_create(fork.parent, fork.child)]_rootvars
=============================================================================
