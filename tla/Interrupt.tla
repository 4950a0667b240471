------------------------------- MODULE Interrupt -------------------------------
(***************************************************************************)
(* Cancellation of operations (internal/instance.go, valueOp and           *)
(* armInterrupt).  Every operation with a cancellable context has a        *)
(* watchdog goroutine that, when the context is done, stores 1 into the    *)
(* instance's one interrupt flag.  The guest tests the flag at each opcode *)
(* of whatever call is executing, clears it and croaks; when the operation *)
(* is over it disarms its watchdog and clears the flag if that one fired.  *)
(*                                                                         *)
(* The operations of one instance may overlap: one may wait for the mutex  *)
(* behind another, and one may be made by a Go callback of another.  Here  *)
(* the mutex is only what it guarantees, that one call executes at a time. *)
(***************************************************************************)
EXTENDS Naturals

CONSTANTS
  Calls,         \* operations of one instance
  TopLevel,      \* "made by no callback"
  Parent,        \* the operation whose Go callback makes this one, or TopLevel
  Cancellable,   \* operations whose context has a Done channel
  Endless,       \* operations whose Perl code does not end by itself
  Trapping       \* operations whose Perl code may trap a die in an eval block

ASSUME InterruptAssumption ==
  /\ TopLevel \notin Calls
  /\ Parent \in [Calls -> Calls \cup {TopLevel}]
  /\ Cancellable \subseteq Calls
  /\ Endless \subseteq Calls
  /\ Trapping \subseteq Calls

VARIABLES
  pc,          \* idle, waiting (for mu), guest, handler, leaving, disarming, done
  dog,         \* watchdog of each operation: off, watching, fired or stopped
  cancelled,   \* operations whose context is done
  flag,        \* the interrupt flag in guest memory
  outcome,     \* how the Perl code ended: none, ok, died or interrupted
  alone        \* history: no other operation has overlapped this one

vars == <<pc, dog, cancelled, flag, outcome, alone>>

InProgress(c) == pc[c] \notin {"idle", "done"}

Moves(c, from, to) ==
  /\ pc[c] = from
  /\ pc' = [pc EXCEPT ![c] = to]

Init ==
  /\ pc = [c \in Calls |-> "idle"]
  /\ dog = [c \in Calls |-> "off"]
  /\ cancelled = {}
  /\ flag = FALSE
  /\ outcome = [c \in Calls |-> "none"]
  /\ alone = [c \in Calls |-> TRUE]

\* A nested operation is made while the Go callback of its parent runs.
CanStart(c) == Parent[c] # TopLevel => pc[Parent[c]] = "handler"

-------------------------------------------------------------------------------
\* valueOp with a context that is already done returns its error at once.
StartCancelled(c) ==
  /\ CanStart(c)
  /\ c \in cancelled
  /\ Moves(c, "idle", "done")
  /\ UNCHANGED <<dog, cancelled, flag, outcome, alone>>

\* Variant: a context without a Done channel gets a watchdog as well.
StartWatching(c) ==
  LET others == {d \in Calls \ {c} : InProgress(d)} IN
  /\ CanStart(c)
  /\ c \notin cancelled
  /\ Moves(c, "idle", "waiting")
  /\ dog' = [dog EXCEPT ![c] = "watching"]
  /\ alone' = [d \in Calls |-> IF d = c THEN others = {} ELSE alone[d] /\ d \notin others]
  /\ UNCHANGED <<cancelled, flag, outcome>>

\* valueOp up to the call of invoke: the watchdog is armed before mu is taken.
Start(c) ==
  LET others == {d \in Calls \ {c} : InProgress(d)} IN
  /\ CanStart(c)
  /\ c \notin cancelled
  /\ Moves(c, "idle", "waiting")
  /\ dog' = [dog EXCEPT ![c] = IF c \in Cancellable THEN "watching" ELSE "off"]
  /\ alone' = [d \in Calls |-> IF d = c THEN others = {} ELSE alone[d] /\ d \notin others]
  /\ UNCHANGED <<cancelled, flag, outcome>>

\* The owner of the context cancels it, or its deadline passes.
Cancel(c) ==
  /\ c \in Cancellable \ cancelled
  /\ pc[c] # "done"
  /\ cancelled' = cancelled \cup {c}
  /\ UNCHANGED <<pc, dog, flag, outcome, alone>>

\* Variant: the watchdog reports that it fired but does not store the flag.
FireWithoutStore(c) ==
  /\ dog[c] = "watching"
  /\ c \in cancelled
  /\ dog' = [dog EXCEPT ![c] = "fired"]
  /\ UNCHANGED <<pc, cancelled, flag, outcome, alone>>

\* Watchdog, case <-done: store the flag without taking mu, then report.
Fire(c) ==
  /\ dog[c] = "watching"
  /\ c \in cancelled
  /\ flag' = TRUE
  /\ dog' = [dog EXCEPT ![c] = "fired"]
  /\ UNCHANGED <<pc, cancelled, outcome, alone>>

\* Watchdog, case <-stop.
Stop(c) ==
  /\ dog[c] = "watching"
  /\ pc[c] = "disarming"
  /\ dog' = [dog EXCEPT ![c] = "stopped"]
  /\ UNCHANGED <<pc, cancelled, flag, outcome, alone>>

\* invoke takes mu, or handleCallback takes it back.
Enter(c) ==
  /\ \A d \in Calls : pc[d] # "guest"
  /\ Moves(c, "waiting", "guest")
  /\ UNCHANGED <<dog, cancelled, flag, outcome, alone>>

\* The run loop finds the flag set, clears it and croaks, but the croak is a
\* die like any other: an eval block of the Perl code traps it.
Trapped(c) ==
  /\ c \in Trapping
  /\ pc[c] = "guest"
  /\ flag
  /\ flag' = FALSE
  /\ UNCHANGED <<pc, dog, cancelled, outcome, alone>>

\* No eval block in between: the croak ends the operation.
Interrupted(c) ==
  /\ flag
  /\ Moves(c, "guest", "leaving")
  /\ flag' = FALSE
  /\ outcome' = [outcome EXCEPT ![c] = "interrupted"]
  /\ UNCHANGED <<dog, cancelled, alone>>

\* The Perl code ends, whether or not it would have met the flag.
Finish(c) ==
  /\ c \notin Endless
  /\ Moves(c, "guest", "leaving")
  /\ \E o \in {"ok", "died"} : outcome' = [outcome EXCEPT ![c] = o]
  /\ UNCHANGED <<dog, cancelled, flag, alone>>

\* The Perl code calls a bound Go function, which may make operations.
Callback(c) ==
  /\ \E d \in Calls : Parent[d] = c
  /\ Moves(c, "guest", "handler")
  /\ UNCHANGED <<dog, cancelled, flag, outcome, alone>>

HandlerReturn(c) ==
  /\ \A d \in Calls : Parent[d] = c => ~InProgress(d)
  /\ Moves(c, "handler", "waiting")
  /\ UNCHANGED <<dog, cancelled, flag, outcome, alone>>

\* disarm, close(stop): mu has been released before.
Disarm(c) ==
  /\ Moves(c, "leaving", "disarming")
  /\ UNCHANGED <<dog, cancelled, flag, outcome, alone>>

\* Variant: disarm trusts the guest to have cleared the flag.
CollectKeepingFlag(c) ==
  /\ dog[c] # "watching"
  /\ Moves(c, "disarming", "done")
  /\ UNCHANGED <<dog, cancelled, flag, outcome, alone>>

\* Variant: disarm does not wait for the watchdog to report.
CollectAtOnce(c) ==
  /\ Moves(c, "disarming", "done")
  /\ flag' = IF dog[c] = "fired" THEN FALSE ELSE flag
  /\ UNCHANGED <<dog, cancelled, outcome, alone>>

\* disarm, <-fired: wait for the watchdog's report and clear the flag if it
\* fired; then valueOp returns.
Collect(c) ==
  /\ dog[c] # "watching"
  /\ Moves(c, "disarming", "done")
  /\ flag' = IF dog[c] = "fired" THEN FALSE ELSE flag
  /\ UNCHANGED <<dog, cancelled, outcome, alone>>

\* The program goes on to make the same operation with a fresh context.
Again(c) ==
  /\ Moves(c, "done", "idle")
  /\ dog' = [dog EXCEPT ![c] = "off"]
  /\ cancelled' = cancelled \ {c}
  /\ outcome' = [outcome EXCEPT ![c] = "none"]
  /\ UNCHANGED <<flag, alone>>

-------------------------------------------------------------------------------
Step(c) ==
  \/ StartCancelled(c) \/ Start(c) \/ Cancel(c) \/ Fire(c) \/ Stop(c)
  \/ Enter(c) \/ Trapped(c) \/ Interrupted(c) \/ Finish(c) \/ Callback(c) \/ HandlerReturn(c)
  \/ Disarm(c) \/ Collect(c) \/ Again(c)

Next == \E c \in Calls : Step(c)

Spec == Init /\ [][Next]_vars

(***************************************************************************)
(* Goroutines are scheduled, the select of a watchdog takes a ready case,  *)
(* sync.Mutex does not starve a waiter, and the guest keeps executing      *)
(* opcodes: a call that is executing with the flag set again and again,    *)
(* be it between two callbacks, comes to an opcode, and the run loop tests *)
(* the flag there.  Callbacks return.  Perl code need not end by itself.   *)
(***************************************************************************)
Fairness ==
  \A c \in Calls :
    /\ SF_vars(Enter(c))
    /\ SF_vars(Trapped(c) \/ Interrupted(c))
    /\ WF_vars(Fire(c) \/ Stop(c))
    /\ WF_vars(HandlerReturn(c))
    /\ WF_vars(Disarm(c))
    /\ WF_vars(Collect(c))

FairSpec == Spec /\ Fairness

-------------------------------------------------------------------------------
\* The types; and a watchdog exists only for a context that can be done.
TypeOK ==
  /\ pc \in [Calls -> {"idle", "waiting", "guest", "handler", "leaving", "disarming", "done"}]
  /\ dog \in [Calls -> {"off", "watching", "fired", "stopped"}]
  /\ \A c \in Calls \ Cancellable : dog[c] = "off"
  /\ cancelled \subseteq Cancellable
  /\ flag \in BOOLEAN
  /\ outcome \in [Calls -> {"none", "ok", "died", "interrupted"}]
  /\ alone \in [Calls -> BOOLEAN]

(***************************************************************************)
(* The flag is set only on behalf of an operation that has yet to disarm:  *)
(* once all operations are over no flag lingers to poison the next one     *)
(* (internal/instance.go, the comment on armInterrupt).                    *)
(***************************************************************************)
FlagHasOwner ==
  flag => \E c \in Calls : dog[c] = "fired" /\ InProgress(c)

(***************************************************************************)
(* An operation that no other overlapped meets the flag, or is interrupted *)
(* by it, only if its own context was cancelled: no earlier cancellation   *)
(* leaks into it.                                                          *)
(***************************************************************************)
NoStrayInterrupt ==
  \A c \in Calls :
    /\ alone[c]
    /\ (InProgress(c) /\ flag) \/ outcome[c] = "interrupted"
    => c \in cancelled

(***************************************************************************)
(* Cancelling an operation that no other overlaps makes it return, even if *)
(* its Perl code would run forever; unless that code traps dies, since the *)
(* guest clears the flag and the watchdog stores it only once.             *)
(***************************************************************************)
CancelStopsAlone ==
  \A c \in Calls \ Trapping :
    InProgress(c) /\ c \in cancelled ~> ~InProgress(c) \/ ~alone[c]

(***************************************************************************)
(* Cancelling an operation makes it return: what the documentation of Eval *)
(* says of every operation ("Cancelling ctx while the eval runs stops it   *)
(* at the next Perl opcode").                                              *)
(***************************************************************************)
CancelStops ==
  \A c \in Calls : pc[c] = "guest" /\ c \in cancelled ~> ~InProgress(c)
===============================================================================
