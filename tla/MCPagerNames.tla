---------------------------- MODULE MCPagerNames ----------------------------
(***************************************************************************)
(* Names on a small instance: a page of zeroes names one file, any other   *)
(* content another one.                                                    *)
(***************************************************************************)
EXTENDS PagerNames

TwoNames ==
  [d \in Data |-> IF d = Zero THEN CHOOSE f \in File : TRUE
                  ELSE CHOOSE g \in File : g # CHOOSE f \in File : TRUE]
=============================================================================
