------------------------------ MODULE OopClock ------------------------------
(***************************************************************************)
(* The frames of src/src/vm_pager_oop.cpp: how get_ppage hands them out    *)
(* and how vm_destroy sorts them, each as one step.  The loops they are    *)
(* written with are the subject of OopLoops.                               *)
(***************************************************************************)
EXTENDS Queues, FiniteSetsExt

CONSTANT PCnt       \* memory_pages, the first argument of vm_init

ASSUME PCntAssumption == PCnt \in Nat \ {0, 1}

VARIABLES
  PhysMem,          \* the state of each frame
  MemQueue,         \* the clock, of the frames in use
  FreePhys          \* the others

Ppage       == 0..(PCnt - 1)
Frame       == 1..(PCnt - 1)
Absent      == PCnt                 \* PhysMem.size(): no frame, on disk
NoLoc       == <<>>                 \* nullptr, or an entry never written
GhostStates == {"GHOST_REF", "GHOST_PEND"}
MemStates   == {"FREE", "REFERENCED", "PEND", "PINNED"} \cup GhostStates
FreeEntry   == [state |-> "FREE", dirty |-> FALSE, loc |-> NoLoc]
PinnedEntry == [FreeEntry EXCEPT !.state = "PINNED"]
frames      == <<PhysMem, MemQueue, FreePhys>>

FramesInit ==
  /\ PhysMem = [p \in Ppage |-> IF p = 0 THEN PinnedEntry ELSE FreeEntry]
  /\ MemQueue = <<>>
  /\ FreePhys = [i \in 1..(PCnt - 1) |-> i]

-----------------------------------------------------------------------------
(* get_ppage: the frame it returns, and what it leaves in each variable.   *)
(* A frame in front of the first pending one turns pending and goes to the *)
(* tail; if none is pending, all turn pending and the first one is taken.  *)

Pending == {i \in 1..Len(MemQueue) :
              PhysMem[MemQueue[i]].state \in {"PEND", "GHOST_PEND"}}
Hand      == IF Pending = {} THEN 1 ELSE Min(Pending)
Victim    == MemQueue[Hand]
Passed    == {MemQueue[i] : i \in IF Pending = {} THEN 1..Len(MemQueue)
                                  ELSE 1..(Hand - 1)}
Evicts    == FreePhys = <<>>
get_ppage == IF Evicts THEN Victim ELSE Head(FreePhys)

AgedKept(entry)  == entry
AgedClean(entry) == [entry EXCEPT !.state = "PEND", !.dirty = FALSE]
Aged(entry) ==
  CASE entry.state = "REFERENCED" -> [entry EXCEPT !.state = "PEND"]
    [] entry.state = "GHOST_REF"  -> [entry EXCEPT !.state = "GHOST_PEND"]
    [] OTHER                      -> entry

GotMem ==
  IF ~Evicts THEN PhysMem
  ELSE [p \in Ppage |-> IF p = Victim THEN FreeEntry
                        ELSE IF p \in Passed THEN Aged(PhysMem[p])
                        ELSE PhysMem[p]]

GotQueueKept == MemQueue
GotQueue ==
  IF Evicts
  THEN SubSeq(MemQueue, Hand + 1, Len(MemQueue)) \o SubSeq(MemQueue, 1, Hand - 1)
  ELSE MemQueue

GotFree == IF Evicts THEN FreePhys ELSE Tail(FreePhys)

-----------------------------------------------------------------------------
(* vm_destroy: what becomes of the frames of the pages it discards, and    *)
(* the queues once they are sorted.                                        *)

Ghosted(entry) ==
  [entry EXCEPT !.state = IF @ = "REFERENCED" THEN "GHOST_REF" ELSE "GHOST_PEND"]
RevivedNot(entry) == entry
Revived(entry) ==
  [entry EXCEPT !.state = IF @ = "GHOST_REF" THEN "REFERENCED" ELSE "PEND"]

IsFree(p)   == PhysMem[p].state = "FREE"
InUse(p)    == ~IsFree(p)
SortedFree  == FreePhys \o Sifted(MemQueue, {p \in Frame : IsFree(p)})
SortedQueue == Sifted(MemQueue, {p \in Frame : InUse(p)})
=============================================================================
