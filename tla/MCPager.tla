------------------------------ MODULE MCPager ------------------------------
(***************************************************************************)
(* The pager on small instances.  Every content names the same file, so    *)
(* that which block a page maps is the choice of the block number alone.   *)
(***************************************************************************)
EXTENDS PagerProperties

SameName == [d \in Data |-> CHOOSE f \in File : TRUE]
=============================================================================
