-------------------------------- MODULE MCStartup --------------------------------
(***************************************************************************)
(* Startup with two other threads, in both builds, with both orders of the *)
(* constructors, with and without free slots left in glibc's heap.         *)
(***************************************************************************)
EXTENDS Startup
===============================================================================
