----------------------------- MODULE ClockLoop -----------------------------
(***************************************************************************)
(* The loops of runclock and alloc as they are written in both copies of   *)
(* vm_pager.cpp, one iteration a step, and what vm_fault and vm_discard do *)
(* to the reference bits between two calls of alloc.  Clock has a closed   *)
(* form for what each call leaves, and Pager uses it; here the two are     *)
(* compared.                                                               *)
(***************************************************************************)
EXTENDS Clock, FiniteSets

CONSTANT NoPage     \* ppage holds nothing: alloc has not chosen yet

ASSUME NoPageAssumption == NoPage \notin Frame

VARIABLES
  psuff,            \* reference and dirty bits
  readable,         \* frames whose pages the MMU lets a load through to
  pc,               \* where alloc is; "idle" outside of it
  i, ppage,         \* its loop counter and the page it has chosen
  start             \* clock_q, free_ppage and psuff when alloc was called

vars == <<clock_q, free_ppage, psuff, readable, pc, i, ppage, start>>

Held   == Frame \ Range(free_ppage)
Now    == [queue |-> clock_q, free |-> free_ppage, bits |-> psuff]
Never  == [queue |-> <<>>, free |-> <<>>, bits |-> <<>>]
Turned == Append(Tail(clock_q), Head(clock_q))  \* push(front()), pop()

Init ==
  /\ clock_q = [k \in 1..(PCnt - 1) |-> k]
  /\ free_ppage = [k \in 1..(PCnt - 1) |-> k]
  /\ psuff = [p \in Frame |-> [ref |-> FALSE, dirty |-> FALSE]]
  /\ readable = {}
  /\ pc = "idle" /\ i = 0 /\ ppage = NoPage
  /\ start = Never

-----------------------------------------------------------------------------
(* Between two calls: a fault of a page in memory, and the ways a frame    *)
(* loses its last page.                                                    *)

\* vm_fault marks the frame referenced, and dirty when it grants a write.
Access(p, w) ==
  /\ pc = "idle" /\ p \in Held
  /\ psuff' = [psuff EXCEPT ![p] = [ref |-> TRUE, dirty |-> @.dirty \/ w]]
  /\ readable' = readable \cup {p}
  /\ UNCHANGED <<clock_q, free_ppage, pc, i, ppage, start>>

\* vm_discard frees the frame of a swap page,
Free(p) ==
  /\ pc = "idle" /\ p \in Held
  /\ free_ppage' = Append(free_ppage, p)
  /\ psuff' = [psuff EXCEPT ![p] = [ref |-> FALSE, dirty |-> FALSE]]
  /\ readable' = readable \ {p}
  /\ UNCHANGED <<clock_q, pc, i, ppage, start>>

\* and keeps that of a file block, which nobody may access any more, as a ghost.
Ghost(p) ==
  /\ pc = "idle" /\ p \in readable
  /\ readable' = readable \ {p}
  /\ UNCHANGED <<clock_q, free_ppage, psuff, pc, i, ppage, start>>

-----------------------------------------------------------------------------
(* alloc with a free page: the rotation that takes it to the tail.         *)

TakeFree ==
  /\ pc = "idle" /\ free_ppage # <<>>
  /\ start' = Now
  /\ ppage' = Head(free_ppage)
  /\ free_ppage' = Tail(free_ppage)
  /\ i' = 0
  /\ pc' = "rotate"
  /\ UNCHANGED <<clock_q, psuff, readable>>

Requeued == Turned
Skimmed  == IF Head(clock_q) = ppage THEN Tail(clock_q) ELSE Turned

RotateStep ==
  /\ pc = "rotate" /\ i < PCnt - 1
  /\ clock_q' = Skimmed
  /\ i' = i + 1
  /\ UNCHANGED <<free_ppage, psuff, readable, pc, ppage, start>>

RotateEnd ==
  /\ pc = "rotate" /\ i = PCnt - 1
  /\ clock_q' = Append(clock_q, ppage)
  /\ psuff' = [psuff EXCEPT ![ppage].ref = TRUE]
  /\ pc' = "done"
  /\ UNCHANGED <<free_ppage, readable, i, ppage, start>>

-----------------------------------------------------------------------------
(* alloc without one: runclock, then the rest of pm_evict.                 *)

RunClock ==
  /\ pc = "idle" /\ free_ppage = <<>>
  /\ start' = Now
  /\ pc' = "hand"
  /\ UNCHANGED <<clock_q, free_ppage, psuff, readable, i, ppage>>

BitKept(p)    == psuff
BitCleared(p) == [psuff EXCEPT ![p].ref = FALSE]

HandPass ==
  LET p == Head(clock_q) IN
  /\ pc = "hand" /\ psuff[p].ref
  /\ clock_q' = Turned
  /\ psuff' = BitCleared(p)
  /\ readable' = readable \ {p}
  /\ UNCHANGED <<free_ppage, pc, i, ppage, start>>

StopsAtClean(p) == ~psuff[p].dirty
StopsAt(p)      == ~psuff[p].ref

HandStop ==
  LET p == Head(clock_q) IN
  /\ pc = "hand" /\ StopsAt(p)
  /\ clock_q' = Turned
  /\ psuff' = [psuff EXCEPT ![p].ref = TRUE]
  /\ ppage' = p
  /\ pc' = "evict"
  /\ UNCHANGED <<free_ppage, readable, i, start>>

\* pm_evict saves the page and forgets it.
Evict ==
  /\ pc = "evict"
  /\ psuff' = [psuff EXCEPT ![ppage].dirty = FALSE]
  /\ readable' = readable \ {ppage}
  /\ pc' = "done"
  /\ UNCHANGED <<clock_q, free_ppage, i, ppage, start>>

\* vm_fault puts the page that it needed there, dirty if it is to be written.
Return(w) ==
  /\ pc = "done"
  /\ psuff' = [psuff EXCEPT ![ppage].dirty = @ \/ w]
  /\ readable' = readable \cup {ppage}
  /\ pc' = "idle" /\ i' = 0 /\ ppage' = NoPage /\ start' = Never
  /\ UNCHANGED <<clock_q, free_ppage>>

-----------------------------------------------------------------------------

Loop == \/ RotateStep \/ RotateEnd
        \/ HandPass \/ HandStop \/ Evict

Next ==
  \/ \E p \in Frame, w \in BOOLEAN : Access(p, w)
  \/ \E p \in Frame : Free(p) \/ Ghost(p)
  \/ TakeFree \/ RunClock
  \/ Loop
  \/ \E w \in BOOLEAN : Return(w)

\* Nothing else runs while alloc does.
Spec == Init /\ [][Next]_vars /\ WF_vars(Loop)

-----------------------------------------------------------------------------

Before == INSTANCE Clock WITH clock_q <- start.queue, free_ppage <- start.free

\* The loops leave what the closed form says, for any order of the queue and any
\* bits: the frame, the queue, the free pages and the bits of every frame, and
\* the frames the hand passed are those that lost their permission bits.
LoopsAgree ==
  pc = "done" =>
    /\ ppage = Before!Alloc(start.bits)
    /\ clock_q = Before!AllocClock(start.bits)
    /\ free_ppage = Before!AllocFree(start.bits)
    /\ psuff = Before!AllocPsuff(start.bits)
    /\ Before!Evicts => readable \cap Before!Passed(start.bits) = {}

\* A page that was accessed since the hand last passed it is evicted only when
\* every page was.
SecondChance ==
  pc = "done" /\ start.free = <<>> /\ start.bits[ppage].ref =>
    \A p \in Frame : start.bits[p].ref

\* The hand does not go round for ever, and the rotation ends.
AllocReturns == pc # "idle" ~> pc = "done"
=============================================================================
