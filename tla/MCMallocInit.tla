------------------------------ MODULE MCMallocInit ------------------------------
(***************************************************************************)
(* MallocInit with three threads: one initializes, one spins and one finds *)
(* the work done, or calls aligned_alloc.                                  *)
(***************************************************************************)
EXTENDS MallocInit
===============================================================================
