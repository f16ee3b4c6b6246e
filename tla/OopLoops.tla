------------------------------ MODULE OopLoops ------------------------------
(***************************************************************************)
(* The loops of get_ppage and vm_destroy in src/src/vm_pager_oop.cpp as    *)
(* they are written, one iteration a step, and what the rest of the pager  *)
(* does to a frame between two calls.  OopClock has a closed form for what *)
(* each leaves, and PagerOop uses it; here the two are compared.  Of the   *)
(* table entries of a frame there is only whether the loop revoked them.   *)
(***************************************************************************)
EXTENDS OopClock

CONSTANT Loc        \* what a frame in use holds, whichever it is

ASSUME LocAssumption == Loc # NoLoc

VARIABLES
  pc,               \* which loop runs, or has ended; "idle" otherwise
  pmem,             \* get_ppage: the frame it looks at
  revoked,          \* get_ppage: the frames whose entries it made unreadable
  curr_top, i,      \* vm_destroy: the frame it expects in front, its counter
  start             \* the frames when the loop was entered

vars == <<frames, pc, pmem, revoked, curr_top, i, start>>

Now   == [mem |-> PhysMem, queue |-> MemQueue, free |-> FreePhys]
Never == [mem |-> <<>>, queue |-> <<>>, free |-> <<>>]
Mapped == {p \in Range(MemQueue) : PhysMem[p].state \in {"REFERENCED", "PEND"}}

Init ==
  /\ FramesInit
  /\ pc = "idle" /\ pmem = 0 /\ revoked = {} /\ curr_top = 0 /\ i = 0
  /\ start = Never

-----------------------------------------------------------------------------
(* Between two calls.                                                      *)

\* vm_fault marks a frame referenced, and dirty when it grants a store.
Access(p, w) ==
  /\ pc = "idle" /\ p \in Mapped
  /\ PhysMem' = [PhysMem EXCEPT ![p].state = "REFERENCED", ![p].dirty = @ \/ w]
  /\ UNCHANGED <<MemQueue, FreePhys, pc, pmem, revoked, curr_top, i, start>>

\* vm_map makes a ghost a page again.
Revive(p) ==
  /\ pc = "idle" /\ PhysMem[p].state \in GhostStates
  /\ PhysMem' = [PhysMem EXCEPT ![p] = Revived(@)]
  /\ UNCHANGED <<MemQueue, FreePhys, pc, pmem, revoked, curr_top, i, start>>

-----------------------------------------------------------------------------
(* get_ppage.                                                              *)

TakeFree ==
  /\ pc = "idle" /\ FreePhys # <<>>
  /\ start' = Now
  /\ pmem' = Head(FreePhys)
  /\ FreePhys' = Tail(FreePhys)
  /\ pc' = "got"
  /\ UNCHANGED <<PhysMem, MemQueue, revoked, curr_top, i>>

Enter ==
  /\ pc = "idle" /\ FreePhys = <<>>
  /\ start' = Now
  /\ pc' = "hand"
  /\ UNCHANGED <<frames, pmem, revoked, curr_top, i>>

\* A pending frame in front is taken: its pages go to disk, its ghost is deleted.
HandTake ==
  LET p == Head(MemQueue) IN
  /\ pc = "hand"
  /\ PhysMem[p].state \in {"PEND", "GHOST_PEND"}
  /\ pmem' = p
  /\ MemQueue' = Tail(MemQueue)
  /\ PhysMem' = [PhysMem EXCEPT ![p] = FreeEntry]
  /\ pc' = "got"
  /\ UNCHANGED <<FreePhys, revoked, curr_top, i, start>>

TurnedLost(p) == Tail(MemQueue)
Turned(p)     == Append(Tail(MemQueue), p)

\* Any other turns pending, and goes to the tail.
HandPass ==
  LET p == Head(MemQueue) IN
  /\ pc = "hand"
  /\ PhysMem[p].state \notin {"PEND", "GHOST_PEND"}
  /\ pmem' = p
  /\ MemQueue' = Turned(p)
  /\ PhysMem' = [PhysMem EXCEPT ![p] = Aged(@)]
  /\ revoked' = revoked \cup {p}
  /\ UNCHANGED <<FreePhys, pc, curr_top, i, start>>

Leave == /\ pc' = "idle" /\ pmem' = 0 /\ revoked' = {}
         /\ curr_top' = 0 /\ i' = 0 /\ start' = Never

\* vm_fault puts the page that it needed there, or fails to read it.
Return(w) ==
  /\ pc = "got"
  /\ PhysMem' = [PhysMem EXCEPT ![pmem] =
                   [state |-> "REFERENCED", dirty |-> w, loc |-> Loc]]
  /\ MemQueue' = Append(MemQueue, pmem)
  /\ Leave
  /\ UNCHANGED FreePhys

ReadFails ==
  /\ pc = "got"
  /\ FreePhys' = Append(FreePhys, pmem)
  /\ Leave
  /\ UNCHANGED <<PhysMem, MemQueue>>

-----------------------------------------------------------------------------
(* vm_destroy: the frames of swap pages are freed and those of file blocks *)
(* become ghosts, then every frame in the queue is looked at once.         *)

Exit(Swap, Block) ==
  /\ pc = "idle"
  /\ Swap \cap Block = {}
  /\ PhysMem' = [p \in Ppage |-> IF p \in Swap THEN FreeEntry
                                 ELSE IF p \in Block THEN Ghosted(PhysMem[p])
                                 ELSE PhysMem[p]]
  /\ MemQueue # <<>>
  /\ start' = [Now EXCEPT !.mem = PhysMem']
  /\ curr_top' = Head(MemQueue)
  /\ pc' = "sort"
  /\ UNCHANGED <<MemQueue, FreePhys, pmem, revoked, i>>

TopKept(tmp) == curr_top
Top(tmp)     == IF IsFree(curr_top) THEN tmp ELSE curr_top

SortStep ==
  LET tmp == Head(MemQueue) IN
  /\ pc = "sort" /\ i < Len(start.queue)
  /\ curr_top' = Top(tmp)
  /\ IF IsFree(tmp)
     THEN FreePhys' = Append(FreePhys, tmp) /\ MemQueue' = Tail(MemQueue)
     ELSE MemQueue' = Turned(tmp) /\ UNCHANGED FreePhys
  /\ i' = i + 1
  /\ UNCHANGED <<PhysMem, pc, pmem, revoked, start>>

SortEnd ==
  /\ pc = "sort" /\ i = Len(start.queue)
  /\ pc' = "sorted"
  /\ UNCHANGED <<frames, pmem, revoked, curr_top, i, start>>

Destroyed == pc = "sorted" /\ Leave /\ UNCHANGED frames

-----------------------------------------------------------------------------

Loop == HandTake \/ HandPass \/ SortStep \/ SortEnd

Next ==
  \/ \E p \in Frame, w \in BOOLEAN : Access(p, w)
  \/ \E p \in Frame : Revive(p)
  \/ TakeFree \/ Enter
  \/ Loop
  \/ \E w \in BOOLEAN : Return(w)
  \/ ReadFails
  \/ \E Swap, Block \in SUBSET Mapped : Exit(Swap, Block)
  \/ Destroyed

\* Nothing else runs while a loop does.
Spec == Init /\ [][Next]_vars /\ WF_vars(Loop)

-----------------------------------------------------------------------------

Before == INSTANCE OopClock WITH
  PhysMem <- start.mem, MemQueue <- start.queue, FreePhys <- start.free

\* The loops leave what the closed forms say, whatever the queue's order and the
\* states of its frames: the frame, the queues, every frame's record, and the
\* frames whose pages must fault before they are used again.
LoopsAgree ==
  /\ pc = "got" =>
       /\ pmem = Before!get_ppage
       /\ PhysMem = Before!GotMem
       /\ MemQueue = Before!GotQueue
       /\ FreePhys = Before!GotFree
       /\ revoked = IF Before!Evicts THEN Before!Passed ELSE {}
  /\ pc = "sorted" =>
       /\ MemQueue = Before!SortedQueue
       /\ FreePhys = Before!SortedFree

\* What the loops assert: there is a frame in front of get_ppage's hand and it
\* is not free, and vm_destroy leaves the frame in front that was the first one
\* in use.
LoopAsserts ==
  /\ pc = "hand" => MemQueue # <<>> /\ InUse(Head(MemQueue))
  /\ pc = "sorted" => MemQueue = <<>> \/ curr_top = Head(MemQueue)

\* get_ppage does not turn the queue for ever, and vm_destroy comes to its end.
LoopsEnd == pc \in {"hand", "sort"} ~> pc \in {"got", "sorted"}
=============================================================================
