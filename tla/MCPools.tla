--------------------------------- MODULE MCPools ---------------------------------
(***************************************************************************)
(* Pools in seven addresses, the heap in the first one: an anonymous pool  *)
(* of three and a file pool of two or none, in either order, with or       *)
(* without gaps.                                                           *)
(***************************************************************************)
EXTENDS Pools
===============================================================================
