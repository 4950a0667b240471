------------------------------ MODULE MCXsControl ------------------------------
(***************************************************************************)
(* What the activations of native code are made of, in one run: frames and *)
(* jumps, the table of current frames, marks and arguments.  These parts   *)
(* keep separate state, so a behaviour picks one at the start and stays    *)
(* with it; the run is the union, and each property speaks of its part.    *)
(* Frames are interchangeable: every property treats them alike, and the   *)
(* refinement mapping does not name them.                                  *)
(***************************************************************************)
EXTENDS XsFrames, FrameTable, XsStack, TLC

CONSTANTS t1, t2, t3      \* threads: t1 and t2 hash to the same slot
VARIABLE part

NothingBeside == << >>
ThreadHash == [t \in Threads |-> IF t = t3 THEN 1 ELSE 0]
Symmetry == Permutations(Frames)

ControlInit ==
  /\ part \in {"frames", "table", "stack"}
  /\ Init /\ TableInit /\ StackInit

ControlNext ==
  \/ part = "frames" /\ Next /\ UNCHANGED <<part, tableVars, stackVars>>
  \/ part = "table" /\ TableNext /\ UNCHANGED <<part, vars, stackVars>>
  \/ part = "stack" /\ StackNext /\ UNCHANGED <<part, vars, tableVars>>

ControlSpec == ControlInit /\ [][ControlNext]_<<part, vars, tableVars, stackVars>>

ControlTypeOK == TypeOK /\ TableTypeOK /\ StackTypeOK
===============================================================================
