----------------------------- MODULE NestedEntry -----------------------------
(***************************************************************************)
(* What internal/perl.go promises of a Module (the comment on type Module):*)
(* the transpiled interpreter is entered as a stack of calls.  A call that *)
(* has handed control to a Go callback is suspended; another call may then *)
(* run on top of it; it ends before the call below it resumes.             *)
(***************************************************************************)
EXTENDS Naturals, Sequences

CONSTANT Goroutines      \* the goroutines that may enter the instance

VARIABLES stack,         \* owners of the calls in progress, innermost last
          running        \* whether the innermost call is executing guest code

vars == <<stack, running>>

Init ==
  /\ stack = << >>
  /\ running = FALSE

\* A call starts on top of whatever is suspended.
Begin(g) ==
  /\ ~running
  /\ stack' = Append(stack, g)
  /\ running' = TRUE

\* The innermost call hands control to a Go callback.
Suspend ==
  /\ running
  /\ running' = FALSE
  /\ UNCHANGED stack

\* The callback returns: only the innermost call may go on.
Continue ==
  /\ ~running
  /\ stack # << >>
  /\ running' = TRUE
  /\ UNCHANGED stack

\* The innermost call returns to its caller.
End ==
  /\ running
  /\ stack' = SubSeq(stack, 1, Len(stack) - 1)
  /\ running' = FALSE

Next == (\E g \in Goroutines : Begin(g)) \/ Suspend \/ Continue \/ End

Spec == Init /\ [][Next]_vars
===============================================================================
