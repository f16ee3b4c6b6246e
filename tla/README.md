# Mager: the pager, specified, checked and proved

Mager is a user-level virtual-memory pager. A kernel and an MMU, which exist
as object code in `src/infra`, call it when processes are created, switched,
exit, map a page or touch a page they have no permission for; the pager
answers by editing page tables, moving pages between memory and disk, and
deciding which frame to give up. It is sequential code, but everything it does
is bookkeeping over several maps that must agree, for several processes that
share frames, and an error shows many calls after the one that made it. That is
what this project specifies.

There are three pagers here: `src/vm_pager.cpp`, the copy of it in the root,
which the Makefile builds, and `src/vm_pager_oop.cpp`, a second design. Paths
are relative to the repository, and line numbers without a file are those of
`src/vm_pager.cpp`. In `PROJECT.json` that file is `src/src/vm_pager.cpp`,
because there the repository itself is `src`.

## Inventory

| Component | Code | State | Operations | Modules |
|---|---|---|---|---|
| Interface | `src/vm_pager.h`, `vm_app.h`, `vm_arena.h` | an arena per process | create, switch, map, access, exit | `VirtualMemory` |
| Clock and frames | `src/vm_pager.cpp` 18-24, 37-60, 146-249 | `clock_q`, `free_ppage`, `psuff`, `core`, `ghost` | `runclock`, `alloc`, `pm_evict` | `Clock`, `ClockLoop`, `Pager` |
| Faults, copy on write | 256-371 | page tables, frame contents | `vm_fault`, `is_cow`, `cow` | `Pager` |
| Mapping, file blocks, ghosts | 379-494, 502-564 | `infile`, `filemap`, `ghost` | `vm_map`, `vm_to_string`, `vm_discard` | `Pager`, `PagerNames` |
| Processes, swap space | 62-138, 567-575 | `all_pt`, `curr_pid`, `bound`, `free_block`, `swfile`, `eblcnt` | `vm_init`, `vm_create`, `vm_switch`, `vm_destroy` | `Pager` |
| Second pager | `src/vm_pager_oop.cpp` | `PhysMem`, `MemQueue`, `FreePhys`, `MappedBlocks`, `SwapBlocks`, `FirstFreeSwap`, two tables per process | the same interface, over `get_ppage` | `OopClock`, `OopLoops`, `PagerOop` |
| Root copy | `vm_pager.cpp` in the root | as `src/vm_pager.cpp` | the same, with checks of what `alloc` returns | `RootPager`, `ClockLoop` |
| MMU, kernel, disk | `infra/libvm_pager.o` | registers, files | accesses, restarts, `file_read`, `file_write` | external, inside `Pager` and `PagerOop` |
| Application library, tests, build | `infra/libvm_app.o`, `tests`, `Makefile`, `autotag.sh` | | | not modelled |

How they interact: the kernel calls the pager between two instructions of the
running process and never while it is inside a call. A fault handler calls
`alloc`, which may call `pm_evict`, which calls `runclock` and the disk. `vm_map`
calls `vm_fault` itself, to read the file name out of the caller's arena. The
maps are shared by all of them, and an entry of one process's page table is
edited on behalf of another's fault.

What is hard, and is in `PROJECT.json` under "hazards" with the line it bites
at: stale state (a frame number `filemap` remembers, a core entry that misses a
page, a dirty bit dropped early), sharing between processes that run in turn,
the ghosts' life across exit, map and eviction, the reading of a name whose
pages are evicted meanwhile, a read or a write that fails after an eviction has begun,
reservation of swap blocks across forks, the two maps that a fork's loop edits
in step, loops that must end, and the limits of the queues.

## Modules

| Module | What it is |
|---|---|
| `VirtualMemory` | Abstract specification: arenas of private zero-filled pages and of pages that alias file blocks. No frames, no faults. |
| `Control` | Where a pager is between two steps; shared by both pagers. |
| `Queues` | What the loops of both pagers do to a queue in a round: turn it, turn it without an element, keep some elements. |
| `Clock` | `alloc` and `runclock` in closed form: which frame, and what is left in the queue, the free list and the bits. |
| `ClockLoop` | The same code with its loops, an iteration a step, compared with `Clock`. |
| `Pager` | `src/vm_pager.cpp` with MMU, disk and kernel: one action per path through each operation. |
| `PagerProperties` | Its invariants, action properties, and the refinement mapping to `VirtualMemory`. |
| `PagerNames` | `Pager` with a history variable: what the arena held when `vm_map` was called. Progress is stated here too. |
| `RootPager` | The root copy: `Pager` with write-backs that fail, and the loop of `vm_create` a page a step. |
| `OopClock` | `get_ppage` and the sorting of frames in `vm_destroy`, of `src/vm_pager_oop.cpp`, in closed form. |
| `OopLoops` | The same code with its loops, an iteration a step, compared with `OopClock`. |
| `PagerOop` | `src/vm_pager_oop.cpp` over `OopClock`, one action per path, with its properties. |
| `MCPager`, `MCPagerNames`, `MCRootPager`, `MCPagerOop` | Values for TLC. The two modules on loops need none. |
| `QueueLemmas` | What the operators of `Queues` do to any queue; least elements of sets. |
| `ClockProofs`, `OopLoopProofs` | Theorems about `ClockLoop` and `OopLoops`. |
| `PagerProofs` | Theorems about `Pager` under `Spec`: types, clock, records, swap space. |
| `FrameProofs` | Under `CleanSpec`: frames, core, file blocks, ghosts, permissions, saved contents, assertions. |
| `ArenaProofs` | Under `CleanSpec`: what the processes see, and the refinement of `VirtualMemory`; under `NamesSpec`: the names. |
| `RootProofs`, `OopProofs` | Theorems about `RootPager` and `PagerOop`. |

### How `Pager` corresponds to the code

Each global of `src/vm_pager.cpp` 7-30 is a variable of the same name, except
`blcnt`, `pcnt` and `pinned`, which never change. `page_table_base_register` is
`curr_pid`; a `page_table_entry_t*` is the pair of a process and a page number.
`phys`, `swap` and `file` are the contents of memory and disk, `accessed` the
file blocks that were read successfully, `call` where the pager is.

The operators `AllocX` give variable `x` after `alloc` (and `pm_evict` within):
they are what the actions that allocate have in common. `vm_fault` is the
disjunction `FaultInvalid`, `FaultResident`, `FaultCow`, `FaultLoad`,
`FaultReadFails`, with the continuation of its caller as an argument: an
application (`AppFault`) or `vm_to_string` (`NameFault`). `vm_map` of a file is
one step per page that the name lies in (`NameFault`, `NameSpills`) and then
`MapFile`; a page is faulted in first unless it is `Readable`, the test at 413. `vm_destroy` is one step per page (`DestroyPage`) and one for the
table. All other operations are one step, with everything the function does.

Abstractions: a page's content is a model value; `NameOf` says which file the
string in it names, `Spill` which contents have no `\0` to the end of the page.
`*set.begin()` is `CHOOSE`, an arbitrary but fixed element: the order of
addresses. A file name and block number are one pair. A call that returns
without any change (full arena, no swap block, name outside the arena) is no
action. Integers are unbounded but for `eblcnt`, which counts modulo `Word`.

What is assumed of the environment: `memory_pages` is at least 2 (with 1 the
clock is empty); a parent is the running process, or one that the pager does not
manage; child identifiers are new; the file contract of `src/vm_pager.h`
108-113 (a block that was accessed once stays accessible, the swap file does
not fail). Assertions are not evaluated in `Pager`: with them `cow` would not
compile (line 258). `AssertionsHold` states the ones of `pm_evict`, `vm_fault`
and `vm_discard` as an invariant, and `CowAssert` shows the one of `cow` fails.

After a fork of a process that has mapped pages the program can reach states in
which it stops making sense: `core` lists pages of a frame that are on disk, and
a frame is freed, or becomes a ghost, while other pages use it. `Spec` follows
the program through these states and stops in three: an assertion of
`pm_evict`, `vm_fault` or `vm_discard` fails; a block is read whose `filemap`
record went with a ghost (`FaultLoad`); a block is mapped that has neither a
ghost nor a page (`Remap`, where the code reads the first element of an empty
set).
`CleanSpec` is the program within the limits where it works: children of
processes with empty arenas only, and no file block mapped over another block's
ghost. `FlatSpec` drops the second limit, `Spec` both.

### How `RootPager` corresponds to the code

The root copy differs from `src/vm_pager.cpp` in two checks, in `cow` (260) and
in `vm_fault` (310): what `alloc` returns when `pm_evict` could not write the
victim back ends the fault. `AllocFails` is what the failed call leaves: the hand
has moved, the entries it passed are revoked, and the victim is called free and
clean although `core` and the page tables still have its pages.
`LoadWriteFails` and `CowWriteFails` are the two callers, `AccessFails` and
`NameFails` what becomes of the access or of the name. The header excludes such
failures for blocks read before and for the swap file; the code handles them,
so `RootPager` lets any write-back fail.

`vm_create` is here the loop that it is: `ForkStart` enters it, `ForkPage` is an
iteration, `ForkEnd` the rest. The maps that it changes are kept in `fork` until
then, because the kernel calls nothing meanwhile. All other actions are those of
`Pager`: the code they translate is the same in both copies. `ClockLoop` has the
loops of `runclock` and `alloc`, and is mapped to the root's lines.

### How `PagerOop` corresponds to the code

`OopClock` has the frames, `PagerOop` all else. The globals of `src/vm_pager_oop.cpp` 31-60 are variables of the same names;
`next` is `ProcessNextVPage`, `pte` and `bte` are the tables, and the swap file
is the name `SWAP`, so that `MappedBlocks` is one function. A ghost of frame `p`,
which the code allocates as a page table entry, is the entry `<<NoPid, p>>`.
Assertions are evaluated, as the Makefile builds them. `vm_create` ignores the
parent, and its note limits calls to parents with empty arenas. Not followed:
the state read past the end of `PhysMem` at line 731 when it looks like a
ghost's, and a name that begins exactly at the arena's end (line 74).

## Properties and runs

Within the limits of `CleanSpec`:

- **Frames.** A frame is free, a ghost or mapped, never two of these
  (`FramesPartitioned`); `core` lists exactly the pages in a frame (`CoreExact`);
  pages in one frame have one backing (`OneBacking`); `filemap` and the ghosts
  agree (`FilemapExact`).
- **Permissions.** The MMU lets nothing through that the clock or the write-back
  must see (`AccessesSeen`); a serviced fault is not taken again
  (`NoRepeatedFault`).
- **Contents.** What is clean is saved (`CleanMeansSaved`); only a block that
  may be written is written (`WritesAllowed`); nothing but a store changes what
  a process reads (`OnlyStoresWrite`); the arenas are those of `VirtualMemory`
  (`ArenasKept`). The last two complement each other: `ArenasKept` alone would
  take a lost write of the running process for a store of an older value.

And of `PagerNames`, which has the same limits and one more variable:

- **Names.** `vm_map` maps the file whose name the arena held when it was called
  (`NameRead`). The pages of a name may evict each other while it is read, and
  neither `OnlyStoresWrite` nor `ArenasKept`, which know one name only, would see
  a frame read that holds another page by then. The history variable `named`
  keeps the arena as it was, and the property compares it with the file page
  that is added in the end.
- **Progress.** Every fault, name and exit comes to an end (`CallsReturn`).

With forks as well (`Spec`, `RootSpec`): `TypeOK`, `SwapReserved`, `NumswCounts`,
`RecordsLive`. For the second pager: `FramesQueued`,
`MappedExact`, `BitsAgree`, `FirstFreeLeast`, `CleanMeansSaved`,
`WritesAllowed`, `AssertionsHold` (here of the assertions that are compiled in),
`OnlyStoresWrite`, `ArenasKept`, `CallsReturn`. `RootSpec` adds writes
that fail and forks a page at a time; there the loop of `vm_create` has to do what `Pager`
says of it in one step (`ForkAsWhole`). For the loops of both designs:
`LoopsAgree`; `SecondChance` and `AllocReturns` for the one, `LoopAsserts` and
`LoopsEnd` for the other.

| Run | Specification | Instance | Distinct states | Shows |
|---|---|---|---|---|
| `PagerFiles` | `CleanSpec` | 2 processes, 2 pages each, 2 frames and the zero page, 1 file block | 841,000 | frames, permissions, contents and arenas under sharing, eviction, ghosts, read failures |
| `PagerShared` | `CleanSpec` | 3 pages, 1 frame, 2 file blocks | 151,000 | `filemap` when every load evicts another block |
| `PagerSwap` | `CleanSpec` | 3 swap blocks for 4 pages, 2 frames | 1,138,000 | swap pages alone, up to the limit of the swap file |
| `PagerNames` | `LiveSpec` | 1 process, 3 pages, 1 frame, 2 swap blocks, 2 file names, 3 contents of which one spills | 378,000 | names whose pages evict each other; progress |
| `RootPager` | `RootSpec` | 2 processes, 2 pages each, 1 frame, 2 swap blocks, 1 file block, forks, failed writes | 1,556,000 | what forks and failed write-backs leave right; the fork's loop |
| `PagerOop` | `LiveSpec` | as `PagerFiles`, 2 swap blocks | 507,000 | the second pager; progress |
| `OopLoops` | `Spec` | 4 frames | 845,000 | its loops against closed form, their assertions, termination |
| `ClockLoop` | `Spec` | 4 frames | 268,000 | loops against closed form, second chance, termination |
| `StaleGhostMapped` | `FlatSpec` | 2 file blocks, 1 frame | stops | finding 1 |
| `ForkData`, `ForkPrivate` | `Spec` | 2 swap pages and forks | stop | findings 2, 3 |
| `CowAssert` | `CleanSpec` | 1 swap page | stops | finding 4 |

Why these bounds are enough to be worth running. Two processes are what sharing
and switching need; two managed frames are the least with which the hand has a
choice, and fewer frames than pages make every path evict; a swap block less
than there are pages lets the swap file fill up. In `PagerSwap` every content spills,
so that no file can be mapped and swap pages are looked at alone. `PagerShared`
has more file blocks than frames and a single content. In `PagerNames` there is a
single frame, so that a name over two pages evicts its first page when it loads
the second. `Word` is the least number greater than what `eblcnt` may hold. The
clock's order over more frames is the subject of `ClockLoop`: with four of
them, all queue orders, bits and free lists that can come about.

`RootPager` has two more bounds, in `MCRootPager`. A write that fails, and a fork
followed by an exit, make `free_ppage` grow without end, because a frame is
called free while entries use it. Every state with such a frame is checked; it
is continued while there is one process, no fork, and no longer a free list
than there are frames (`FewFreeFrames`). So what a single process does after a
failed write is followed; what several do is not. And the processes are one family (`OneFamily`): 1 is born when there is no process, 2
while 1 lives. There is a single content, because none of the five properties
tells contents apart. The theorems on `RootSpec` have none of these bounds. The
program may stop, as said above, so that TLC does not look for deadlock in
`RootPager`; it does in all other passing runs, where nothing may stop.

In `OopLoops` a frame's page is one value, `Loc`: the loops look at a frame's
state only. Four frames give every order of the queue and every state in it.

Fairness. `LiveSpec` of `PagerNames` has weak fairness on `Service`, the steps inside a call and
the restart of a faulting instruction: the pager runs to the end of a call
before anything else happens, and the kernel restarts the instruction
(`src/vm_app.h` 53: the scheduler is not preemptive). It is the same in
`PagerOop`. In `ClockLoop` and `OopLoops` it is on the loops' own steps. No fairness is assumed of applications.

Each property is paired in `PROJECT.json` with a mistake in one mapped
definition that violates it. These are the definitions whose name is another's
with a suffix (`AllocPtEvicted` before `AllocPt`); no action uses them.

## Findings

1. **A stale ghost is mapped** (`src/vm_pager.cpp` 451, run `StaleGhostMapped`).
   `vm_map` recognises a ghost by a frame number that `filemap` does not clear at
   an eviction. The new page is readable at once and shows another block.
2. **A fork loses swapped pages** (104, 114-118, `ForkData`). The child's copy of
   a swap page on disk is a block to which nothing was written. It is also
   entered in `core` under a frame the parent no longer has, which can make the
   assertion at line 180 fail later.
3. **Forked swap pages are not private** (213, 343, `ForkPrivate`). For the same
   reason a frame can be freed twice (547-552), and `free_ppage` grows each time.
4. **`cow` asserts the opposite of what it needs** (258-259, `CowAssert`). The
   file compiles and works with `NDEBUG` only, which the Makefile does not set.
   The root copy has the same two lines.

Seen while modelling, and not runs of their own: `eblcnt`, by its comment at
line 13 the "empty swap block count", is decremented twice per swap page of a
fork (118, 127), so that it drifts and wraps around, but nothing reads it; the
checks of `alloc()` that the root copy has are missing at 260 and 308 (unreachable under the file
contract); after a failed write the root copy has a frame that is both free and
in use, and loses what was stored there;
`"@FAULT"`, and `"SWAP"` and `"FAIL"` in the second pager, are file names as
well as marks; line 273 of the second pager writes to disk inside an `assert`;
its lines 74, 694 and 731 read one element past an array.

## Proofs

Everything is proved for every number of processes, arena pages, frames, swap
blocks, file names and contents. Assumptions: those named in `Clock`, `Pager` and
`ClockLoop` (`PCntAssumption`, `SizeAssumption`, `DataAssumption`,
`PidAssumption`, `NoPageAssumption`, and `PCntAssumption`, `LocAssumption` and
`OopAssumption` of the second pager): at least two frames, at least one page, at
least one number of a file block, a type for what the constants are.

| Module | Of | Theorems | Properties |
|---|---|---|---|
| `PagerProofs` | `Spec` | `TypeCorrect`, `RecordsCorrect`, `NumswCorrect` | `TypeOK`, `RecordsLive`, `NumswCounts` |
| | | `SwapReservedCorrect` | `SwapReserved` |
| `FrameProofs` | `CleanSpec` | `Agreement` | the inductive invariant `FInv /\ Hidden` |
| | | `FramesCorrect`, `CoreCorrect`, `BackingCorrect`, `FilemapCorrect` | `FramesPartitioned`, `CoreExact`, `OneBacking`, `FilemapExact` |
| | | `PermissionsCorrect`, `CleanIsSaved`, `WritesSucceed` | `AccessesSeen`, `CleanMeansSaved`, `WritesAllowed` |
| | | `AssertionsCorrect`, `MappedCorrect` | `AssertionsHold`, `BackedAsMapped` |
| `ArenaProofs` | `CleanSpec` | `FaultsServiced` | `NoRepeatedFault` |
| | | `StoresOnly`, `ArenasImplemented` | `OnlyStoresWrite`, `ArenasKept` |
| | `NamesSpec` | `NamesRead` | `NameRead` |
| `RootProofs` | `RootSpec` | `RootInvariance` | the inductive invariant `RootInv` |
| | | `RootTypeCorrect`, `RootRecordsCorrect`, `RootNumswCorrect`, `RootSwapReservedCorrect` | as under `Spec` |
| | | `ForkLoopCorrect` | `ForkAsWhole` |
| `ClockProofs` | `ClockLoop` | `LoopInvariance` | the inductive invariant `LoopInv` |
| | | `LoopsAgreeCorrect`, `SecondChanceCorrect` | `LoopsAgree`, `SecondChance` |
| `OopLoopProofs` | `OopLoops` | `LoopInvariance` | the inductive invariant `LoopInv` |
| | | `LoopsAgreeCorrect`, `LoopAssertsCorrect` | `LoopsAgree`, `LoopAsserts` |
| `OopProofs` | `PagerOop`'s `Spec` | `OopInvariance` | the inductive invariant `OInv` |
| | | `OopTypeCorrect`, `OopFramesCorrect`, `OopMappedCorrect`, `OopBitsCorrect` | `TypeOK`, `FramesQueued`, `MappedExact`, `BitsAgree` |
| | | `OopSwapCorrect`, `OopCleanIsSaved`, `OopWritesSucceed`, `OopAssertionsCorrect` | `FirstFreeLeast`, `CleanMeansSaved`, `WritesAllowed`, `AssertionsHold` |
| | | `OopStoresOnly`, `OopArenasImplemented` | `OnlyStoresWrite`, `ArenasKept` |

So every invariant of the passing runs is a theorem, and so is every action
property and the refinement of the arenas by both pagers.

**Types, clock, records** (`PagerProofs`). The inductive invariant is
`IInv == TypeOK /\ ClockComplete /\ NameRoom /\ RecordsLive /\ NumswCounts /\
Listed /\ FileFrames`. Types alone are not inductive. `alloc` takes a frame off
the clock, so the victim has a type only if the clock holds the frames
(`ClockComplete`, from the lemmas that a rotation and a move to the tail permute
a sequence; it is a part of this argument only and no property of a run).
`vm_discard` makes a ghost of the frame of a file page, which is a
frame the clock manages only if file pages are never in the zero page
(`FileFrames`), which in turn needs that `filemap` lists file pages only
(`Listed`). `vm_create` copies what it finds under the parent's entries and
pops a block for each swap page, so the records must be there (`RecordsLive`)
and `numsw` must be their number (`NumswCounts`). `bound` stays within the arena
because a name is read only while there is room (`NameRoom`). Each operation has
a lemma `...Step` that it keeps `IInv`; `NextIInv` puts them together.

**Swap space** (also `PagerProofs`) keeps `IInv /\ SwapReserved`. The step that needs an
argument is the fork: the child's swap page `i` takes the block at position
`SwapBefore(parent, i) + 1` of `free_block`, and the lemmas on counting
(`NextSeat`, `SeatsDiffer`, `SeatsTaken`) show that this deals the first `numsw`
blocks out, each to one page.

**Agreement of the maps** (`FrameProofs`). None of the properties of `CleanSpec`
is inductive alone: `pm_evict` saves and revokes the pages that `core` lists, so
contents and permissions are right only if `core` is exact; it writes the block
of one of them, so all must have the same backing; a ghost leaves `filemap` with
its frame, so `filemap` and the ghosts must agree; and `vm_fault` grants a write
by the dirty bit. Hence one invariant, `FInv`, with a part for each: `Parted`,
`Cored`, `Owned`, `BlocksListed`, `BlocksMoveAsOne`, `GhostsListed` (together
`Agree`), `Seen`, `Saved`, `WasRead`, and that the zero page holds zeroes.
`WasRead` is what `WritesAllowed` has to be strengthened to: a file block in
memory was read, dirty or not, because the store that makes it dirty comes
later. `Hidden` says that the MMU never has a readable entry of a page nobody
mapped, except of a process that is exiting.

The parts are stated of given maps, not of the variables, because `alloc` leaves
a frame that holds nothing and its caller fills it in the same step. `Taken` is
what any `alloc` leaves, eviction or not: the frame has no pages and no ghost,
those it had are on disk, and some frames lost their permission bits. Every
lemma on a fault starts from `Taken`. A page that `vm_map` adds joins those of its
block (`JoinAgrees`) with their entry, whether the block is new, on disk, in
memory or a ghost (`MapFileJoins`). `vm_discard` is one lemma with a case per place
where its page may be (`DestroyPageAgrees`).

The first limit of `CleanSpec` is used in `FlatCreate`: `vm_create` copies nothing
there. The second is a hypothesis of `MapFileJoins`, and finding 1 is what happens
without it.

**What the processes see** (`ArenaProofs`). What a page holds is defined through
the maps: its frame's content if it is in memory, its block's otherwise.
`FInv` makes this independent of where it is: pages in a frame have one backing,
and a block is in memory when its pages are (`FileTogether`). An eviction moves
a content to where `Taken` says it is read from then on, and a load moves it
back; so no step but a store changes it (`StoresOnly`). The refinement follows:
the arenas are functions of the maps (`ArenasOf`), every step leaves them alone
(`Stutters`), extends one (`ArenaGrows`) or stores in one (`StoreMaps`).
`VirtualMemory` lets a swap page be mapped while fewer are in use than there are
blocks. That the pager has a free block exactly then is an injection of the swap
pages into the blocks that are not free (`SpareBlock`).

For the names (`NamesRead`) the steps of `NamesSpec` are steps of `CleanSpec`
(`NamesAreClean`), so `FInv` holds. The invariant added is `NameKnown`: while a
name is read, every page still holds what `named` remembers of it, and the pages
between its first one and the one `vm_to_string` is at hold contents that spill.
A step of the reading stores nothing (`ReadingHolds`), so what was remembered
stays true of the pages, though not of the frames they were in; and a page that
is readable is in the frame its entry names (`PageRead`), so what `vm_to_string`
reads there is what the page holds.

**The root copy** (`RootProofs`). A write-back that fails does not keep `Agree`,
but its effect is well-typed and moves no page (`AllocFailsKeeps`), so the steps
of `Spec` above apply to it. For the loop of `vm_create` the invariant `ForkOK`
says that after `vp` iterations the maps in `fork` are those that `Pager`'s
`vm_create` gives a child of `vp` pages. A page of file or swap, in memory or on
disk, extends them by what its iteration does (`FilePageCopied`,
`SwapPageCopied`). `eblcnt`, decremented in the loop and again after it, wraps
around more than once (`WrapsOnce`). At the end the child has as many pages as
the parent, which is `ForkAsWhole`; and because the loop then does what one step
of `vm_create` does, `SwapReserved` and `IInv` follow from the proofs on `Spec`.

**The loops of the clock** (`ClockProofs`). `LoopInv` says where each loop is in the queue it
began with. After `k` turns the queue is a `Ring`: what is left of the old one
behind its first `k` frames, then the ones that went to the tail. For the hand
these are the first `k`, all referenced before and not any more. For the
rotation they are the first `k` without the frame that was taken. The hand stops
at the first frame that was not referenced (`HandFinds`) or, after a whole
turn, at the first one, because its bit is gone (`HandTurns`). The rotation ends
after `PCnt - 1` turns, which is the length of the queue because it holds each
frame once (`QueueLength`).

**The loops of the second pager** (`OopLoopProofs`). The same `Ring` describes
both. `get_ppage`'s hand has passed the first `k` frames, none of them pending
before and all of them now; after a whole turn it takes the first one
(`HandTurns`). That there is a frame in front and that it is in use, which the
code asserts, needs that the two queues hold each frame once (`Dealt`) and that
those of the clock are in use (`Within`), also after `vm_destroy` sorted them.
Of a round of `vm_destroy` the queue keeps the frames in use of the first `i`
(`SortedBy`). `curr_top` is the first of these, or free, or not looked at yet
(`Fronted`): whence the last assertion.

What such a round keeps, `Sifted`, is a recursive function. The library's
induction cannot be used, so the facts about it come from the least place where
they could fail (`Reached`): that the next element is kept or not (`SiftedOn`),
and that what is kept is the elements of the set, each once (`SiftedKeeps`).

**The second pager** (`OopProofs`). Again no property is inductive alone.
`get_ppage` makes the entries of a frame unreadable, and deletes those of a
ghost, through `MappedBlocks`: that every entry of a frame is reached, and none
of another one, is `MappedExact`. That it is right to leave an entry as it is
needs `BitsAgree` in the stronger form that an entry is determined by the record
of its frame (`Bits`), and that an entry outside every frame is empty or, in the
swap file, the zero page's (`Placed`). Hence `Agree`, whose parts are `Recorded`,
`Bits`, `Placed`, `Listed`, `GhostsListed` and `Backed`; `Saved`, with what was
read before, as in `FrameProofs`; and `Dealt` and `Queued`: the two queues hold each
frame once, and a free frame's record is blank. `Unmapped` says that the entries
past the end of an arena are empty, so that no access and no name reaches them.

As `alloc` does, `get_ppage` leaves a frame that nobody has yet. The parts are
therefore stated of given maps, and `GotSound`, `GotQueues` and `GotSaved` say
what it leaves, whichever frames it aged. The paths of `vm_fault` are of two
shapes: a frame is marked (`MarkKeeps`: the first store, a pending page) or
filled (`FillKeeps`: the copy of the zero page, a load). `vm_map` adds an entry to
a block that nobody maps, that others do, or that a ghost holds (`PageMapped`,
`PageShared`, `GhostReplaced`); `vm_destroy` takes one away, with its frame, with
a ghost left behind, or with neither (`SwapPageDropped`, `GhostLeft`,
`FilePageDropped`). The scan of `vm_map` finds the least free block because the
one it starts from is the least (`MapSwapKeeps`), and a block that is given back
may be less (`SwapDiscarded`).

A page reads the zero page or what its backing holds, which is in a frame or
on the disk (`Stored`, `PageReads`). `get_ppage` moves what its frame held to
the disk: written if dirty, and already there if not, by `Saved` (`GotStored`).
A frame that is filled or marked holds what its backing held (`FillSame`,
`MarkSame`), so that no step but a store changes what a page reads (`NextSame`):
`OopStoresOnly`. `OopArenasImplemented` needs one more invariant, `ZeroKept`: a
page in the zero page is not writable (`Bits`), so that frame stays zero and a
new swap page reads as the abstract one does. A store sets what one backing
holds, and so what every page mapped to it reads (`StoreWrites`); `vm_map` makes
one arena a page longer (`ArenaGrows`). That the abstract `vm_map` has a
block to give exactly when `FirstFreeSwap` is not past the end is, as in
`PagerProofs`, an injection of the swap pages into the blocks (`SpareSwap`,
`SpareBlock`).

Only model-checked: liveness (`CallsReturn`, `AllocReturns`, `LoopsEnd`), which
with `ENABLED` is out of the prover's reach.

## Plan

Done, in this order: the abstract arenas; `Pager` operation by operation with
its runs; the proofs of types, clock, records and swap space; the second pager;
the loops of the clock; the root copy with failing writes and the fork's loop;
the loops, assertions and progress of the second pager; the proofs of the
agreement of the maps, of the arenas, of the names, of the root copy, of the loops of both
designs and of the second pager's invariants and arenas.

Next: no safety property of a passing run is left unproved. What may still be
proved is how far the agreement of the first pager's maps survives a fork: which
parts of `FInv` hold under `Spec` for the processes and blocks that no fork
touched, which would say where the damage of findings 1 to 3 ends.

## Not modelled

The application library and the kernel are object code; what they do is in the
models as far as the headers say it. The tests are applications, the rest is
build files. In the second pager the state read past the end of `PhysMem` (731)
and a name that begins at the arena's end (74) are undefined behaviour of which
one outcome is followed. The spelling of names (`"@FAULT"`, `"SWAP"`, `"FAIL"`) is
below the abstraction of a file.

## Running

    tlc -config PagerFiles.cfg MCPager
    tlc -config PagerNames.cfg MCPagerNames
    tlc -config RootPager.cfg MCRootPager
    tlc -config PagerOop.cfg MCPagerOop
    tlc -config ClockLoop.cfg ClockLoop
    tlc -config OopLoops.cfg OopLoops
    tlapm QueueLemmas.tla
    tlapm ClockProofs.tla
    tlapm OopLoopProofs.tla
    tlapm PagerProofs.tla
    tlapm FrameProofs.tla
    tlapm ArenaProofs.tla
    tlapm RootProofs.tla
    tlapm OopProofs.tla

Each run takes up to about two minutes on two cores, each module of proofs up to
about ten.
