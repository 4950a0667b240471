----------------------------- MODULE DynamicScope -----------------------------
(***************************************************************************)
(* What the host save stack of the native XS SDK is for (sdk/include/      *)
(* perl.h, "Host save-stack backing SAVESPTR/save_hptr"): a location that  *)
(* module code saves and assigns gets its value back when the scope that   *)
(* saved it ends, whether that scope ends normally or a croak leaves it    *)
(* together with scopes around it.                                         *)
(***************************************************************************)
EXTENDS Naturals, Sequences

CONSTANTS Locs, Values     \* host locations and what they may hold

VARIABLES env,             \* the value of each location
          outer            \* for each open scope, the values it began with

vars == <<env, outer>>

Init ==
  /\ env \in [Locs -> Values]
  /\ outer = << >>

Open ==
  /\ outer' = Append(outer, env)
  /\ UNCHANGED env

Bind ==
  /\ outer # << >>
  /\ \E x \in Locs, v \in Values : env' = [env EXCEPT ![x] = v]
  /\ UNCHANGED outer

\* The scopes from the k-th on end together.
Close ==
  \E k \in DOMAIN outer :
    /\ env' = outer[k]
    /\ outer' = SubSeq(outer, 1, k - 1)

Next == Open \/ Bind \/ Close

Spec == Init /\ [][Next]_vars
===============================================================================
