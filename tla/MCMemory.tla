----------------------------- MODULE MCMemory -------------------------------
(***************************************************************************)
(* Memory with a device memory that holds two tiles and a host memory that *)
(* holds one.                                                              *)
(***************************************************************************)
EXTENDS Memory, TLC

CONSTANTS fb, sys, s1, s2

MCCapacity == (fb :> 2) @@ (sys :> 1)
MCKeyOf == (s1 :> 1) @@ (s2 :> 2)
=============================================================================
