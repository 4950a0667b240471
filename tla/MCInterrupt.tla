------------------------------ MODULE MCInterrupt ------------------------------
(***************************************************************************)
(* Three operations of one instance: outer makes Go callbacks, inner is    *)
(* made by them, other comes from an unrelated goroutine.                  *)
(***************************************************************************)
EXTENDS Interrupt

CONSTANTS outer, inner, other

MCParent == [c \in Calls |-> IF c = inner THEN outer ELSE TopLevel]
===============================================================================
