---------------------------- MODULE InterruptProofs ----------------------------
(***************************************************************************)
(* Proofs about Interrupt, for any number of operations and any way they   *)
(* nest.  That a cancelled operation stops is liveness and stays with TLC. *)
(***************************************************************************)
EXTENDS Interrupt, TLAPS

(***************************************************************************)
(* What an operation has before it starts and after it returned, and that  *)
(* a watchdog fires only for a context that is done.                       *)
(***************************************************************************)
IdleIsFresh ==
  \A c \in Calls :
    /\ pc[c] = "idle" => dog[c] = "off" /\ outcome[c] = "none"
    /\ pc[c] = "done" => dog[c] # "watching"

FiredIsCancelled ==
  \A c \in Calls : dog[c] = "fired" => c \in cancelled

\* An operation that has had no company has none now.
AloneHasNoCompany ==
  \A c, d \in Calls : alone[c] /\ InProgress(c) /\ InProgress(d) => c = d

\* The part of NoStrayInterrupt about operations that have met the flag.
InterruptedIsCancelled ==
  \A c \in Calls : alone[c] /\ outcome[c] = "interrupted" => c \in cancelled

\* The inductive invariant.
IInv ==
  /\ TypeOK
  /\ IdleIsFresh
  /\ FiredIsCancelled
  /\ FlagHasOwner
  /\ AloneHasNoCompany
  /\ InterruptedIsCancelled

-------------------------------------------------------------------------------
(***************************************************************************)
(* Every action keeps the types of the variables.                          *)
(***************************************************************************)
LEMMA TypeStep == TypeOK /\ [Next]_vars => TypeOK'
<1> USE InterruptAssumption
<1> SUFFICES ASSUME TypeOK, [Next]_vars PROVE TypeOK'
  OBVIOUS
<1>1. CASE UNCHANGED vars
  BY <1>1 DEF TypeOK, vars
<1>2. ASSUME NEW c \in Calls, StartCancelled(c) PROVE TypeOK'
  BY <1>2 DEF TypeOK, StartCancelled, Moves
<1>3. ASSUME NEW c \in Calls, Start(c) PROVE TypeOK'
  BY <1>3 DEF TypeOK, Start, Moves
<1>4. ASSUME NEW c \in Calls, Cancel(c) PROVE TypeOK'
  BY <1>4 DEF TypeOK, Cancel
<1>5. ASSUME NEW c \in Calls, Fire(c) \/ Stop(c) PROVE TypeOK'
  BY <1>5 DEF TypeOK, Fire, Stop
<1>6. ASSUME NEW c \in Calls, Enter(c) PROVE TypeOK'
  BY <1>6 DEF TypeOK, Enter, Moves
<1>7. ASSUME NEW c \in Calls, Trapped(c) PROVE TypeOK'
  BY <1>7 DEF TypeOK, Trapped
<1>12. ASSUME NEW c \in Calls, Interrupted(c) PROVE TypeOK'
  BY <1>12 DEF TypeOK, Interrupted, Moves
<1>8. ASSUME NEW c \in Calls, Finish(c) PROVE TypeOK'
  BY <1>8 DEF TypeOK, Finish, Moves
<1>9. ASSUME NEW c \in Calls, Callback(c) \/ HandlerReturn(c) PROVE TypeOK'
  BY <1>9 DEF TypeOK, Callback, HandlerReturn, Moves
<1>10. ASSUME NEW c \in Calls, Disarm(c) \/ Collect(c) PROVE TypeOK'
  BY <1>10 DEF TypeOK, Disarm, Collect, Moves
<1>11. ASSUME NEW c \in Calls, Again(c) PROVE TypeOK'
  BY <1>11 DEF TypeOK, Again, Moves
<1> QED
  BY <1>1, <1>2, <1>3, <1>4, <1>5, <1>6, <1>7, <1>8, <1>9, <1>10, <1>11, <1>12
  DEF Next, Step

(***************************************************************************)
(* Every action keeps the rest of the invariant.                           *)
(***************************************************************************)
LEMMA IdleStep == TypeOK /\ IdleIsFresh /\ [Next]_vars => IdleIsFresh'
<1> SUFFICES ASSUME TypeOK, IdleIsFresh, [Next]_vars PROVE IdleIsFresh'
  OBVIOUS
<1> USE DEF TypeOK, IdleIsFresh
<1>1. CASE UNCHANGED vars
  BY <1>1 DEF vars
<1>2. ASSUME NEW c \in Calls, StartCancelled(c) \/ Start(c) \/ Cancel(c) PROVE IdleIsFresh'
  BY <1>2 DEF StartCancelled, Start, Cancel, Moves
<1>3. ASSUME NEW c \in Calls, Fire(c) \/ Stop(c) PROVE IdleIsFresh'
  BY <1>3 DEF Fire, Stop
<1>4. ASSUME NEW c \in Calls, Enter(c) \/ Callback(c) \/ HandlerReturn(c) PROVE IdleIsFresh'
  BY <1>4 DEF Enter, Callback, HandlerReturn, Moves
<1>5. ASSUME NEW c \in Calls, Trapped(c) \/ Interrupted(c) \/ Finish(c) PROVE IdleIsFresh'
  BY <1>5 DEF Trapped, Interrupted, Finish, Moves
<1>6. ASSUME NEW c \in Calls, Disarm(c) \/ Collect(c) \/ Again(c) PROVE IdleIsFresh'
  BY <1>6 DEF Disarm, Collect, Again, Moves
<1> QED
  BY <1>1, <1>2, <1>3, <1>4, <1>5, <1>6 DEF Next, Step

LEMMA FiredStep == TypeOK /\ FiredIsCancelled /\ [Next]_vars => FiredIsCancelled'
<1> SUFFICES ASSUME TypeOK, FiredIsCancelled, [Next]_vars PROVE FiredIsCancelled'
  OBVIOUS
<1> USE DEF TypeOK, FiredIsCancelled
<1>1. CASE UNCHANGED vars
  BY <1>1 DEF vars
<1>2. ASSUME NEW c \in Calls, StartCancelled(c) \/ Start(c) \/ Cancel(c)
      PROVE  FiredIsCancelled'
  BY <1>2 DEF StartCancelled, Start, Cancel
<1>3. ASSUME NEW c \in Calls, Fire(c) \/ Stop(c) PROVE FiredIsCancelled'
  BY <1>3 DEF Fire, Stop
<1>4. ASSUME NEW c \in Calls, Enter(c) \/ Callback(c) \/ HandlerReturn(c)
      PROVE  FiredIsCancelled'
  BY <1>4 DEF Enter, Callback, HandlerReturn
<1>5. ASSUME NEW c \in Calls, Trapped(c) \/ Interrupted(c) \/ Finish(c)
      PROVE  FiredIsCancelled'
  BY <1>5 DEF Trapped, Interrupted, Finish
<1>6. ASSUME NEW c \in Calls, Disarm(c) \/ Collect(c) \/ Again(c)
      PROVE  FiredIsCancelled'
  BY <1>6 DEF Disarm, Collect, Again
<1> QED
  BY <1>1, <1>2, <1>3, <1>4, <1>5, <1>6 DEF Next, Step

(***************************************************************************)
(* The flag keeps an owner: the one that owned it goes on owning it until  *)
(* its Collect, which clears the flag.                                     *)
(***************************************************************************)
LEMMA OwnerStep == TypeOK /\ IdleIsFresh /\ FlagHasOwner /\ [Next]_vars => FlagHasOwner'
<1> SUFFICES ASSUME TypeOK, IdleIsFresh, FlagHasOwner, [Next]_vars, flag' PROVE FlagHasOwner'
  BY DEF FlagHasOwner
<1> USE DEF TypeOK
<1>1. ASSUME NEW c \in Calls, Fire(c) PROVE FlagHasOwner'
  BY <1>1 DEF Fire, FlagHasOwner, InProgress, IdleIsFresh
<1>2. ASSUME flag, NEW o \in Calls, dog[o] = "fired", InProgress(o)
      PROVE  FlagHasOwner'
  <2> USE <1>2 DEF InProgress
  <2> SUFFICES dog'[o] = "fired" /\ pc'[o] \notin {"idle", "done"}
    BY DEF FlagHasOwner
  <2>1. CASE UNCHANGED vars
    BY <2>1 DEF vars
  <2>2. ASSUME NEW c \in Calls, StartCancelled(c) \/ Start(c) \/ Cancel(c)
        PROVE  dog'[o] = "fired" /\ pc'[o] \notin {"idle", "done"}
    BY <2>2 DEF StartCancelled, Start, Cancel, Moves
  <2>3. ASSUME NEW c \in Calls, Fire(c) \/ Stop(c)
        PROVE  dog'[o] = "fired" /\ pc'[o] \notin {"idle", "done"}
    BY <2>3 DEF Fire, Stop
  <2>4. ASSUME NEW c \in Calls, Enter(c) \/ Callback(c) \/ HandlerReturn(c)
        PROVE  dog'[o] = "fired" /\ pc'[o] \notin {"idle", "done"}
    BY <2>4 DEF Enter, Callback, HandlerReturn, Moves
  <2>5. ASSUME NEW c \in Calls, Trapped(c) \/ Interrupted(c) \/ Finish(c)
        PROVE  dog'[o] = "fired" /\ pc'[o] \notin {"idle", "done"}
    BY <2>5 DEF Trapped, Interrupted, Finish, Moves
  <2>6. ASSUME NEW c \in Calls, Disarm(c) \/ Collect(c) \/ Again(c)
        PROVE  dog'[o] = "fired" /\ pc'[o] \notin {"idle", "done"}
    BY <2>6, flag' DEF Disarm, Collect, Again, Moves
  <2> QED
    BY <2>1, <2>2, <2>3, <2>4, <2>5, <2>6 DEF Next, Step
<1>3. CASE flag
  BY <1>2, <1>3 DEF FlagHasOwner
<1>4. CASE ~flag
  <2>1. PICK c \in Calls : Fire(c)
    BY <1>4, flag' DEF vars, Next, Step, StartCancelled, Start, Cancel, Stop, Enter, Trapped,
       Interrupted, Finish, Callback, HandlerReturn, Disarm, Collect, Again
  <2> QED
    BY <1>1, <2>1
<1> QED
  BY <1>3, <1>4

(***************************************************************************)
(* Start is the only action that brings an operation into progress, and it *)
(* takes note of the company it makes.                                     *)
(***************************************************************************)
LEMMA AloneStep == TypeOK /\ AloneHasNoCompany /\ [Next]_vars => AloneHasNoCompany'
<1> SUFFICES ASSUME TypeOK, AloneHasNoCompany, [Next]_vars,
                    NEW c \in Calls, NEW d \in Calls,
                    alone'[c], InProgress(c)', InProgress(d)'
             PROVE  c = d
  BY DEF AloneHasNoCompany
<1> USE DEF TypeOK, InProgress
<1>1. CASE \E e \in Calls : Start(e)
  <2> PICK e \in Calls : Start(e)
    BY <1>1
  <2>1. \A x \in Calls \ {e} : InProgress(x)' <=> InProgress(x)
    BY DEF Start, Moves
  <2>2. alone' = [x \in Calls |->
           IF x = e THEN {y \in Calls \ {e} : InProgress(y)} = {}
           ELSE alone[x] /\ x \notin {y \in Calls \ {e} : InProgress(y)}]
    BY DEF Start
  <2>3. CASE c = e
    BY <2>1, <2>2, <2>3
  <2>4. CASE c # e
    BY <2>1, <2>2, <2>4
  <2> QED
    BY <2>3, <2>4
<1>2. CASE ~ \E e \in Calls : Start(e)
  <2>1. alone' = alone
    BY <1>2 DEF vars, Next, Step, StartCancelled, Cancel, Fire, Stop, Enter, Trapped,
       Interrupted, Finish, Callback, HandlerReturn, Disarm, Collect, Again
  <2>2. ASSUME NEW x \in Calls, InProgress(x)' PROVE InProgress(x)
    <3>1. ASSUME NEW e \in Calls, StartCancelled(e) \/ Cancel(e) \/ Fire(e) \/ Stop(e)
          PROVE  InProgress(x)
      BY <2>2, <3>1 DEF StartCancelled, Cancel, Fire, Stop, Moves
    <3>2. ASSUME NEW e \in Calls, Enter(e) \/ Callback(e) \/ HandlerReturn(e)
          PROVE  InProgress(x)
      BY <2>2, <3>2 DEF Enter, Callback, HandlerReturn, Moves
    <3>3. ASSUME NEW e \in Calls, Trapped(e) \/ Interrupted(e) \/ Finish(e)
          PROVE  InProgress(x)
      BY <2>2, <3>3 DEF Trapped, Interrupted, Finish, Moves
    <3>4. ASSUME NEW e \in Calls, Disarm(e) \/ Collect(e) \/ Again(e)
          PROVE  InProgress(x)
      BY <2>2, <3>4 DEF Disarm, Collect, Again, Moves
    <3>5. CASE UNCHANGED vars
      BY <2>2, <3>5 DEF vars
    <3> QED
      BY <1>2, <3>1, <3>2, <3>3, <3>4, <3>5 DEF Next, Step
  <2> QED
    BY <2>1, <2>2 DEF AloneHasNoCompany
<1> QED
  BY <1>1, <1>2

(***************************************************************************)
(* An operation with no company meets only a flag of its own.              *)
(***************************************************************************)
LEMMA StrayFlag ==
  ASSUME FiredIsCancelled, FlagHasOwner, AloneHasNoCompany, flag,
         NEW c \in Calls, alone[c], InProgress(c)
  PROVE  c \in cancelled
BY DEF FiredIsCancelled, FlagHasOwner, AloneHasNoCompany

LEMMA InterruptedStep == IInv /\ [Next]_vars => InterruptedIsCancelled'
<1> SUFFICES ASSUME IInv, [Next]_vars, NEW c \in Calls,
                    alone'[c], outcome'[c] = "interrupted"
             PROVE  c \in cancelled'
  BY DEF InterruptedIsCancelled
<1> USE DEF TypeOK
<1>0. TypeOK /\ IdleIsFresh /\ InterruptedIsCancelled
  BY DEF IInv
<1>1. ASSUME Interrupted(c) PROVE c \in cancelled'
  <2>1. flag /\ InProgress(c) /\ alone[c] /\ cancelled' = cancelled
    BY <1>1, <1>0 DEF Interrupted, Moves, InProgress
  <2> QED
    BY <2>1, StrayFlag DEF IInv
<1>2. CASE UNCHANGED vars
  BY <1>0, <1>2 DEF vars, InterruptedIsCancelled
<1>3. ASSUME NEW e \in Calls, StartCancelled(e) \/ Cancel(e) \/ Fire(e) \/ Stop(e)
      PROVE  c \in cancelled'
  BY <1>0, <1>3 DEF StartCancelled, Cancel, Fire, Stop, InterruptedIsCancelled
<1>4. ASSUME NEW e \in Calls, Enter(e) \/ Callback(e) \/ HandlerReturn(e) \/ Trapped(e)
      PROVE  c \in cancelled'
  BY <1>0, <1>4 DEF Enter, Callback, HandlerReturn, Trapped, InterruptedIsCancelled
<1>5. ASSUME NEW e \in Calls, Disarm(e) \/ Collect(e) \/ Again(e)
      PROVE  c \in cancelled'
  BY <1>0, <1>5 DEF Disarm, Collect, Again, InterruptedIsCancelled
<1>6. ASSUME NEW e \in Calls, Finish(e) PROVE c \in cancelled'
  BY <1>0, <1>6 DEF Finish, InterruptedIsCancelled
<1>7. ASSUME NEW e \in Calls, Interrupted(e), e # c PROVE c \in cancelled'
  BY <1>0, <1>7 DEF Interrupted, InterruptedIsCancelled
<1>8. ASSUME NEW e \in Calls, Start(e) PROVE c \in cancelled'
  <2>1. outcome[c] = "interrupted" /\ cancelled' = cancelled /\ pc[e] = "idle"
    BY <1>8 DEF Start, Moves
  <2>2. e # c
    BY <1>0, <2>1 DEF IdleIsFresh
  <2>3. alone[c]
    BY <1>0, <1>8, <2>2 DEF Start
  <2> QED
    BY <1>0, <2>1, <2>3 DEF InterruptedIsCancelled
<1> QED
  BY <1>1, <1>2, <1>3, <1>4, <1>5, <1>6, <1>7, <1>8 DEF Next, Step

-------------------------------------------------------------------------------
LEMMA Initially == Init => IInv
<1> SUFFICES ASSUME Init PROVE IInv
  OBVIOUS
<1>1. TypeOK
  BY DEF Init, TypeOK
<1>2. \A c \in Calls : pc[c] = "idle" /\ dog[c] = "off" /\ outcome[c] = "none"
  BY DEF Init
<1>3. IdleIsFresh /\ FiredIsCancelled /\ InterruptedIsCancelled
  BY <1>2 DEF IdleIsFresh, FiredIsCancelled, InterruptedIsCancelled
<1>4. FlagHasOwner
  BY DEF Init, FlagHasOwner
<1>5. AloneHasNoCompany
  BY <1>2 DEF AloneHasNoCompany, InProgress
<1> QED
  BY <1>1, <1>3, <1>4, <1>5 DEF IInv

LEMMA Inductive == IInv /\ [Next]_vars => IInv'
BY TypeStep, IdleStep, FiredStep, OwnerStep, AloneStep, InterruptedStep DEF IInv

LEMMA Invariant == Spec => []IInv
BY Initially, Inductive, PTL DEF Spec

(***************************************************************************)
(* The variables keep their types, however the operations overlap.         *)
(***************************************************************************)
THEOREM TypeCorrect == Spec => []TypeOK
<1>1. IInv => TypeOK
  BY DEF IInv
<1> QED
  BY <1>1, Invariant, PTL

(***************************************************************************)
(* A set interrupt flag always belongs to an operation that will clear it  *)
(* (internal/instance.go, disarm): a cancellation that came too late does  *)
(* not poison the next operation, whatever overlaps whatever.              *)
(***************************************************************************)
THEOREM NoLingeringFlag == Spec => []FlagHasOwner
<1>1. IInv => FlagHasOwner
  BY DEF IInv
<1> QED
  BY <1>1, Invariant, PTL

(***************************************************************************)
(* An operation that overlaps no other is never interrupted on behalf of   *)
(* another one, be it earlier or later (internal/instance.go, valueOp).    *)
(***************************************************************************)
THEOREM LoneInterruptIsOwn == Spec => []NoStrayInterrupt
<1>1. IInv => NoStrayInterrupt
  BY StrayFlag DEF IInv, NoStrayInterrupt, InterruptedIsCancelled
<1> QED
  BY <1>1, Invariant, PTL
===============================================================================
