---------------------------- MODULE MCPagerOop ----------------------------
(***************************************************************************)
(* The second pager on small instances; every content names one file.      *)
(***************************************************************************)
EXTENDS PagerOop

SameName == [d \in Data |-> CHOOSE f \in File : TRUE]
=============================================================================
