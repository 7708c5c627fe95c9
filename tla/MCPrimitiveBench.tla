-------------------------- MODULE MCPrimitiveBench --------------------------
(* A counter with a period of three cycles, arrays of two samples and three iterations asked
   for, one warm-up, both programs and all adapters. *)
EXTENDS PrimitiveBench
=============================================================================
