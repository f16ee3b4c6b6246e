------------------------------ MODULE Control ------------------------------
(***************************************************************************)
(* Where a pager is between two of its steps: the machine runs the         *)
(* application ("run") or nothing ("none"), restarts the instruction that  *)
(* faulted ("retry"), or the pager is in the loop that reads a file name   *)
(* from the arena ("string") or in the loop of vm_destroy ("exit").        *)
(***************************************************************************)
EXTENDS Integers

CONSTANTS
  NPages,      \* VM_ARENA_SIZE / VM_PAGESIZE
  FBlock       \* numbers of file blocks

Vpage == 0..(NPages - 1)

Call == [op : {"none", "run", "retry", "string", "exit"}, vp : 0..NPages,
         write : BOOLEAN, block : FBlock]

Run         == [op |-> "run", vp |-> 0, write |-> FALSE,
                block |-> CHOOSE b \in FBlock : TRUE]
None        == [Run EXCEPT !.op = "none"]
Retry(v, w) == [Run EXCEPT !.op = "retry", !.vp = v, !.write = w]
Exit(v)     == [Run EXCEPT !.op = "exit", !.vp = v]
Str(v, b)   == [Run EXCEPT !.op = "string", !.vp = v, !.block = b]
=============================================================================
