---------------------------- MODULE MCReflection ----------------------------
(* An instance of Reflection for TLC. *)
EXTENDS Reflection
=============================================================================
