-------------------------- MODULE MCRuntimeMemory --------------------------
(* Three units of heap, and five words of stack: the upmost is never       *)
(* painted, the lowest is the guard, and an attempt that begins at word 0  *)
(* paints nothing.  The columns of the heap and those of the stack have    *)
(* only begin and end in common, so a state in which the stack is painted  *)
(* and the heap is in use is not followed further; attempts of both kinds  *)
(* come one after another.                                                 *)
EXTENDS RuntimeMemory

QuietStack == ~painted /\ written = {} /\ \A w \in Words : stack[w] = "used"
QuietHeap  == call = NoCall /\ in_use = 0 /\ most = 0 /\ allocation_calls = 0 /\ free_calls = 0

HeapOrStack == QuietStack \/ QuietHeap
=============================================================================
