---------------------------- MODULE MCRootPager ----------------------------
EXTENDS RootPager

SameName == [d \in Data |-> CHOOSE f \in File : TRUE]

\* Bounds.  A write that fails, and a fork followed by an exit, put a frame among
\* the free ones that entries still use, and can do so without end.  A state with
\* such a frame is checked; it is continued while there is one process, no fork,
\* and the free frames are no more than there are frames.
FreeFramesUnused ==
  \A i \in DOMAIN free_ppage : core[free_ppage[i]] = {}
FewFreeFrames ==
  \/ FreeFramesUnused
  \/ fork = NoFork /\ Cardinality(DOMAIN all_pt) < 2 /\ Len(free_ppage) < PCnt

\* The processes are one family: process 1 is born when there is no other,
\* process 2 while there is one.
OneFamily ==
  \A p \in DOMAIN all_pt' \ DOMAIN all_pt : (p = 1) <=> (all_pt = <<>>)
=============================================================================
