------------------------------ MODULE MCHandlePins ------------------------------
(***************************************************************************)
(* HandlePins with interchangeable handles, objects and goroutines.  All   *)
(* properties checked here are safety properties.                          *)
(***************************************************************************)
EXTENDS HandlePins, TLC

Symmetry ==
  Permutations(Handles) \cup Permutations(Objects) \cup Permutations(Goroutines)
================================================================================
