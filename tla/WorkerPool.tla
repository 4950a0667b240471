------------------------------ MODULE WorkerPool ------------------------------
(***************************************************************************)
(* What a server of single-threaded workers promises: a worker is lent to  *)
(* one user at a time, a user borrows one worker at a time, and a worker   *)
(* is retired only when nobody has it.  A user that never gives its worker *)
(* back keeps it for good.                                                 *)
(***************************************************************************)
CONSTANTS Workers, Users, NoUser

VARIABLES ready, lent

vars == <<ready, lent>>

Init ==
  /\ ready = {}
  /\ lent = [w \in Workers |-> NoUser]

Add(w) ==
  /\ w \notin ready
  /\ lent[w] = NoUser
  /\ ready' = ready \cup {w}
  /\ UNCHANGED lent

Lend(w, u) ==
  /\ w \in ready
  /\ lent[w] = NoUser
  /\ \A v \in Workers : lent[v] # u
  /\ lent' = [lent EXCEPT ![w] = u]
  /\ UNCHANGED ready

GiveBack(w) ==
  /\ lent[w] # NoUser
  /\ lent' = [lent EXCEPT ![w] = NoUser]
  /\ UNCHANGED ready

Retire(w) ==
  /\ w \in ready
  /\ lent[w] = NoUser
  /\ ready' = ready \ {w}
  /\ UNCHANGED lent

Next ==
  \E w \in Workers :
    Add(w) \/ GiveBack(w) \/ Retire(w) \/ \E u \in Users : Lend(w, u)

Spec == Init /\ [][Next]_vars
================================================================================
