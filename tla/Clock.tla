------------------------------- MODULE Clock -------------------------------
(***************************************************************************)
(* The order in which the pager of src/src/vm_pager.cpp hands out physical *)
(* pages: alloc and the runclock inside pm_evict, each as one step.  The   *)
(* loops they are written with are the subject of ClockLoop.               *)
(*                                                                         *)
(* The bits of psuff are an argument, ps, because vm_fault may set one of  *)
(* them before it gets here.  Definitions with a suffix to another's name  *)
(* are the mistakes that Pager describes.                                  *)
(***************************************************************************)
EXTENDS Queues

CONSTANT PCnt       \* memory_pages, the first argument of vm_init

ASSUME PCntAssumption == PCnt \in Nat \ {0, 1}

VARIABLES
  clock_q,          \* the clock: the hand is at the front
  free_ppage        \* the frames that hold nothing

Ppage     == 0..(PCnt - 1)
pinned    == 0
Frame     == Ppage \ {pinned}       \* the pages the clock manages

Ppb     == [ref : BOOLEAN, dirty : BOOLEAN]

-----------------------------------------------------------------------------
(* runclock: the pages in front of the first unreferenced one lose their   *)
(* reference bit and go to the tail; when every page is referenced the     *)
(* hand makes a full round and takes the page it began with.               *)

Unreferenced(ps) == {i \in 1..Len(clock_q) : ~ps[clock_q[i]].ref}

Hand(ps) ==
  IF Unreferenced(ps) = {} THEN 1 ELSE Min(Unreferenced(ps))

Victim(ps) == clock_q[Hand(ps)]

Passed(ps) ==
  {clock_q[i] : i \in IF Unreferenced(ps) = {} THEN 1..Len(clock_q)
                      ELSE 1..(Hand(ps) - 1)}

-----------------------------------------------------------------------------
(* alloc: the frame it returns, and what it leaves in clock_q, free_ppage  *)
(* and psuff.                                                              *)

Evicts == free_ppage = <<>>

Alloc(ps) == IF Evicts THEN Victim(ps) ELSE Head(free_ppage)

AllocClock(ps) ==
  IF Evicts THEN Rotate(clock_q, Hand(ps))
  ELSE MoveToTail(clock_q, CHOOSE i \in 1..Len(clock_q) : clock_q[i] = Alloc(ps))

AllocFree(ps) == IF Evicts THEN free_ppage ELSE Tail(free_ppage)

AllocPsuffClean(ps) ==
  [p \in Frame |-> [ref   |-> p = Alloc(ps) \/ (ps[p].ref /\ p \notin Passed(ps)),
                    dirty |-> ps[p].dirty /\ p # Alloc(ps) /\ p \notin Passed(ps)]]

AllocPsuff(ps) ==
  IF Evicts
  THEN [p \in Frame |->
          [ref   |-> p = Victim(ps) \/ (ps[p].ref /\ p \notin Passed(ps)),
           dirty |-> ps[p].dirty /\ p # Victim(ps)]]
  ELSE [ps EXCEPT ![Alloc(ps)].ref = TRUE]
=============================================================================
