--------------------------- MODULE VirtualMemory ---------------------------
(***************************************************************************)
(* What the pager promises its applications (src/src/vm_pager.h): every    *)
(* process sees an arena of private, initially zero pages and of pages     *)
(* that alias a block of a file.  There is no physical memory, no swap     *)
(* block, no eviction and no fault here; a page simply holds what was last *)
(* stored in it.                                                           *)
(***************************************************************************)
EXTENDS Integers, Sequences, FiniteSets

CONSTANTS
  Pid, NoPid,       \* process identifiers, and none
  NPages,           \* pages in an arena (VM_ARENA_SIZE / VM_PAGESIZE)
  BlCnt,            \* blocks of the swap file
  File, FBlock,     \* file names and block numbers
  Data, Zero,       \* contents of a page, and the all-zero page
  NameOf, Spill     \* the file a content names; contents with no terminator

VARIABLES
  arena,      \* arena[pid]: the pages of a live process
  current,    \* the process that runs
  files       \* files[<<name, block>>]: the contents of a file block

vars == <<arena, current, files>>

SwapPage(d) == [kind |-> "swap", data |-> d]
FilePage(f) == [kind |-> "file", block |-> f]

Content(p, i) ==
  LET page == arena[p][i] IN
    IF page.kind = "swap" THEN page.data ELSE files[page.block]

SwapPages ==
  {e \in Pid \X (1..NPages) :
     /\ e[1] \in DOMAIN arena
     /\ e[2] <= Len(arena[e[1]])
     /\ arena[e[1]][e[2]].kind = "swap"}

Running == current \in DOMAIN arena

Extend(page) ==
  /\ Running
  /\ Len(arena[current]) < NPages
  /\ arena' = [arena EXCEPT ![current] = Append(@, page)]
  /\ UNCHANGED <<current, files>>

-----------------------------------------------------------------------------

Init ==
  /\ arena = <<>>
  /\ current = NoPid
  /\ files \in [File \X FBlock -> Data]

\* A child starts with its parent's mappings and data; the child of a process
\* the pager does not manage starts empty.
Create(parent, child) ==
  /\ child \notin DOMAIN arena
  /\ parent \in {NoPid, current}
  /\ arena' = [p \in DOMAIN arena \cup {child} |->
                 IF p # child THEN arena[p]
                 ELSE IF parent \in DOMAIN arena THEN arena[parent] ELSE <<>>]
  /\ UNCHANGED <<current, files>>

Switch(p) ==
  /\ p \in DOMAIN arena
  /\ current' = p
  /\ UNCHANGED <<arena, files>>

\* A swap page needs a block of the swap file of its own, reserved eagerly.
MapSwap == Cardinality(SwapPages) < BlCnt /\ Extend(SwapPage(Zero))

\* The name is a string in the caller's arena; k is the page it ends in.
MapFile(k, block) ==
  /\ Running
  /\ k <= Len(arena[current])
  /\ Content(current, k) \notin Spill
  /\ Extend(FilePage(<<NameOf[Content(current, k)], block>>))

Store(i, d) ==
  /\ Running
  /\ i <= Len(arena[current])
  /\ LET page == arena[current][i] IN
       IF page.kind = "swap"
       THEN /\ arena' = [arena EXCEPT ![current][i].data = d]
            /\ UNCHANGED files
       ELSE /\ files' = [files EXCEPT ![page.block] = d]
            /\ UNCHANGED arena
  /\ UNCHANGED current

\* The process exits, or is killed by an access that cannot be satisfied.
Exit ==
  /\ Running
  /\ arena' = [p \in DOMAIN arena \ {current} |-> arena[p]]
  /\ current' = NoPid
  /\ UNCHANGED files

Next ==
  \/ \E p \in Pid \cup {NoPid}, c \in Pid : Create(p, c)
  \/ \E p \in Pid : Switch(p)
  \/ MapSwap
  \/ \E k \in 1..NPages, b \in FBlock : MapFile(k, b)
  \/ \E i \in 1..NPages, d \in Data : Store(i, d)
  \/ Exit

Spec == Init /\ [][Next]_vars
=============================================================================
