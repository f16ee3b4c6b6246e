----------------------------- MODULE PagerNames -----------------------------
(***************************************************************************)
(* The name that vm_map reads.  vm_to_string reads it out of the caller's  *)
(* arena and faults in the pages that it lies in, of which the load of one *)
(* may evict another.  The steps are those of CleanNext; a history         *)
(* variable remembers what the arena held when vm_map was called.          *)
(***************************************************************************)
EXTENDS PagerProperties

VARIABLE named   \* of the vm_map in progress: the page its name begins in, and
                 \* what the caller's pages held when it was called

namevars == <<vars, named>>

NoName == [from |-> 0, data |-> <<>>]

Asked(v) == [from |-> v, data |-> [k \in 0..(bound - 1) |-> Content(Mine(k))]]

\* vm_to_string is at page v: the call begins here, or it began before.
NameSoFar(v) == IF Idle THEN Asked(v) ELSE named

\* A step of vm_map(name, b), at page v of the name.
ReadName(v, b) ==
  /\ NameFault(v, b) \/ NameSpills(v, b)
  /\ named' = IF call'.op = "string" THEN NameSoFar(v) ELSE NoName

MapNamed(v, b) ==
  /\ MapFile(v, b) /\ ~StaleGhost(NamedBy(v, b))
  /\ named' = NoName

Unnamed ==
  /\ \/ Access
     \/ MapSwap
     \/ vm_destroy
     \/ \E p \in Pid : vm_switch(p)
     \/ \E parent \in Pid \cup {NoPid}, child \in Pid :
          vm_create(parent, child) /\ ParentSize(parent) = 0
  /\ UNCHANGED named

NamesInit == Init /\ named = NoName
NamesNext ==
  \/ \E v \in Vpage, b \in FBlock : ReadName(v, b) \/ MapNamed(v, b)
  \/ Unnamed

NamesSpec == NamesInit /\ [][NamesNext]_namevars

\* The pager runs to the end of a call it is in, one process after the other,
\* and the kernel restarts the instruction it serviced a fault of.
Service  == ~Kernel /\ NamesNext
LiveSpec == NamesSpec /\ WF_namevars(Service)

-----------------------------------------------------------------------------

\* A file page is added to the arena of the running process.
FileAdded == NewEntry \in DOMAIN infile' /\ infile'[NewEntry].ftype = "FILE_B"

\* vm_map maps the file whose name the process asked for: the string that its
\* pages held when it called, from the page the name begins in over those it
\* spills out of, although vm_to_string may have evicted them while it read.
NameRead ==
  [][\A v \in Vpage, b \in FBlock :
       Reading(v, b) /\ FileAdded /\ MapFile(v, b) =>
         LET name == NameSoFar(v) IN
         /\ name.from <= v /\ v \in DOMAIN name.data
         /\ \A k \in name.from..(v - 1) : name.data[k] \in Spill
         /\ name.data[v] \notin Spill
         /\ infile'[NewEntry].block = <<NameOf[name.data[v]], b>>]_namevars
=============================================================================
