-------------------------------- MODULE XsStack --------------------------------
(***************************************************************************)
(* The Perl stacks of native code (xs/sdk/include/perl.h, and dispatch in  *)
(* xs/xs.go).  A frame has an argument stack, of which only the top        *)
(* matters here, and a stack of marks, which tell where the arguments of a *)
(* call begin.  PL_markstack_ptr may be assigned: it is one global,        *)
(* published for the frame whose mark operation was the last, and every    *)
(* mark operation takes over what was done to it.                          *)
(*                                                                         *)
(* An XSUB that is called by pointer works on its caller's frame (direct). *)
(* The PUTBACK and SPAGAIN around calls are taken for granted: psp is the  *)
(* local sp.                                                               *)
(***************************************************************************)
EXTENDS Integers, Sequences, SequencesExt

CONSTANTS
  StackFrames,     \* memory for frames; that of one whose call is over is used again
  Nobody,          \* markstack_owner before any mark operation
  MaxMarks,        \* GOPERL_XS_MARKS
  MaxStack,        \* GOPERL_XS_STACK
  MaxNesting       \* bound: nested XSUBs

ASSUME StackAssumption ==
  /\ MaxMarks \in Nat \ {0} /\ MaxStack \in Nat \ {0} /\ MaxNesting \in Nat

VARIABLES
  marks,           \* marks of each frame, with what popped ones leave behind
  markidx,         \* of each frame, from 0; -1: none
  psp,             \* stack top of each frame
  markPtr,         \* markstack_owner, and markstack_ptr as an index into its marks
  subs,            \* running XSUBs, innermost last: frame, where arguments begin, whether
                   \* direct, and how many marks are its callers'
  calling,         \* the guest runs for the innermost one (call_sv), or for none
  pushed           \* the marks that the XSUBs on a frame have pushed and not popped

stackVars == <<marks, markidx, psp, markPtr, subs, calling, pushed>>

Sub == subs[Len(subs)]
InSub == subs # << >> /\ ~calling

Zeroed == [i \in 0..(MaxMarks - 1) |-> 0]

StackInit ==
  /\ marks = [f \in StackFrames |-> Zeroed]
  /\ markidx = [f \in StackFrames |-> 0]
  /\ psp = [f \in StackFrames |-> 0]
  /\ markPtr = [owner |-> Nobody, idx |-> 0]
  /\ subs = << >>
  /\ calling = FALSE
  /\ pushed = [f \in StackFrames |-> << >>]

-------------------------------------------------------------------------------
(* Marks.                                                                  *)

\* mutant of Adopted: what was done to PL_markstack_ptr is not taken over
NotAdopted(f, idx) == idx

\* goperl_marks_adopt: the mark index of f.
Adopted(f, idx) == IF markPtr.owner = f THEN markPtr.idx ELSE idx

\* goperl_popmark, when f's index was idx: the mark and the new index.
Popped(f, idx, ms) ==
  LET i == Adopted(f, idx) IN
  IF i >= 0 THEN [mark |-> ms[i], idx |-> i - 1] ELSE [mark |-> 0, idx |-> i]

Publish(f, idx) ==
  /\ markidx' = [markidx EXCEPT ![f] = idx]
  /\ markPtr' = [owner |-> f, idx |-> idx]

\* An XSUB pops the marks it pushed, or un-popped, itself.
OwnMark == Len(pushed[Sub.f]) > Sub.below

Unpush(f) == [pushed EXCEPT ![f] = IF @ = << >> THEN @ ELSE Front(@)]

-------------------------------------------------------------------------------
(* XSUBs.                                                                  *)

\* The guest calls an XSUB: a zeroed frame with a mark under its arguments, which
\* dXSARGS pops.
EnterXsub(f, items) ==
  /\ subs # << >> => calling
  /\ Len(subs) < MaxNesting /\ \A i \in DOMAIN subs : subs[i].f # f
  /\ items < MaxStack - 1
  /\ LET popped == Popped(f, 0, Zeroed) IN
     /\ Publish(f, popped.idx)
     /\ subs' = Append(subs, [f |-> f, mark |-> popped.mark, direct |-> FALSE, below |-> 0])
  /\ psp' = [psp EXCEPT ![f] = items]
  /\ calling' = FALSE
  /\ UNCHANGED <<marks, pushed>>

\* (*CvXSUB(cv))(aTHX_ cv)
EnterDirect ==
  /\ InSub /\ Len(subs) < MaxNesting /\ OwnMark
  /\ LET f == Sub.f
         popped == Popped(f, markidx[f], marks[f]) IN
     /\ Publish(f, popped.idx)
     /\ subs' = Append(subs, [f |-> f, mark |-> popped.mark, direct |-> TRUE,
                              below |-> Len(pushed[f]) - 1])
     /\ pushed' = Unpush(f)
  /\ UNCHANGED <<marks, psp, calling>>

\* The loader takes the results and drops the frame.
Drop(f) ==
  /\ marks' = [marks EXCEPT ![f] = Zeroed]
  /\ markidx' = [markidx EXCEPT ![f] = 0]
  /\ psp' = [psp EXCEPT ![f] = 0]
  /\ pushed' = [pushed EXCEPT ![f] = << >>]

\* XSRETURN(n): the results begin where the arguments began.
LeaveWith(n) ==
  /\ InSub /\ ~OwnMark
  /\ Sub.mark + n < MaxStack
  /\ subs' = Front(subs)
  /\ calling' = (Len(subs) > 1 /\ ~Sub.direct)
  /\ IF Sub.direct THEN /\ psp' = [psp EXCEPT ![Sub.f] = Sub.mark + n]
                        /\ UNCHANGED <<marks, markidx, pushed>>
     ELSE Drop(Sub.f)
  /\ UNCHANGED markPtr

\* A croak out of an XSUB that the guest called.  One out of a direct call is what module
\* XsFrames shows to break the protocol: it leaves no frame current to go on with.
CroakOut ==
  /\ InSub /\ ~Sub.direct
  /\ subs' = Front(subs)
  /\ calling' = (Len(subs) > 1)
  /\ Drop(Sub.f)
  /\ UNCHANGED markPtr

-------------------------------------------------------------------------------
(* What an XSUB does.                                                      *)

\* PUSHMARK(SP); with the mark stack full it croaks (CroakOut).
PushMark ==
  /\ InSub
  /\ LET f == Sub.f
         i == Adopted(f, markidx[f]) IN
     /\ i + 1 < MaxMarks
     /\ marks' = [marks EXCEPT ![f][i + 1] = psp[f]]
     /\ Publish(f, i + 1)
     /\ pushed' = [pushed EXCEPT ![f] = Append(@, psp[f])]
  /\ UNCHANGED <<psp, subs, calling>>

\* EXTEND, XPUSHs.
PushArg ==
  /\ InSub
  /\ psp[Sub.f] + 1 < MaxStack
  /\ psp' = [psp EXCEPT ![Sub.f] = @ + 1]
  /\ UNCHANGED <<marks, markidx, markPtr, subs, calling, pushed>>

\* ++PL_markstack_ptr: the mark that dXSARGS popped is there again, for an XSUB that is
\* called next by pointer with the same arguments.
Unpop ==
  /\ InSub /\ ~OwnMark
  /\ LET f == Sub.f
         i == markidx[f] IN
     /\ markPtr # [owner |-> f, idx |-> i + 1] /\ i + 1 < MaxMarks
     /\ marks[f][i + 1] = Sub.mark
     /\ markPtr' = [owner |-> f, idx |-> i + 1]
     /\ pushed' = [pushed EXCEPT ![f] = Append(@, Sub.mark)]
  /\ UNCHANGED <<marks, markidx, psp, subs, calling>>

\* call_sv, call_method: the arguments above the mark, then the guest runs.
CallSv ==
  /\ InSub /\ OwnMark
  /\ LET f == Sub.f
         popped == Popped(f, markidx[f], marks[f]) IN
     /\ Publish(f, popped.idx)
     /\ psp' = [psp EXCEPT ![f] = popped.mark]
     /\ pushed' = Unpush(f)
  /\ calling' = TRUE
  /\ UNCHANGED <<marks, subs>>

\* eval_sv, and other operations in which Perl code runs: no mark, no arguments.  An
\* assignment to PL_markstack_ptr is followed by a mark operation first.
EvalSv ==
  /\ InSub
  /\ markPtr.owner = Sub.f => markPtr.idx = markidx[Sub.f]
  /\ calling' = TRUE
  /\ UNCHANGED <<marks, markidx, psp, markPtr, subs, pushed>>

\* The results are pushed; if they do not fit, or the code died, a croak (CroakOut).
GuestReturns(count) ==
  /\ subs # << >> /\ calling
  /\ psp[Sub.f] + count < MaxStack
  /\ psp' = [psp EXCEPT ![Sub.f] = @ + count]
  /\ calling' = FALSE
  /\ UNCHANGED <<marks, markidx, markPtr, subs, pushed>>

StackNext ==
  \/ \E f \in StackFrames, n \in 0..1 : EnterXsub(f, n)
  \/ \E n \in 0..1 : LeaveWith(n) \/ GuestReturns(n)
  \/ EnterDirect \/ CroakOut \/ PushMark \/ PushArg \/ Unpop \/ CallSv \/ EvalSv

StackSpec == StackInit /\ [][StackNext]_stackVars
-------------------------------------------------------------------------------
(* Properties.                                                             *)

StackTypeOK ==
  /\ \A f \in StackFrames :
       /\ markidx[f] \in (-1)..(MaxMarks - 1) /\ psp[f] \in 0..(MaxStack - 1)
       /\ \A i \in 0..(MaxMarks - 1) : marks[f][i] \in 0..(MaxStack - 1)
  /\ markPtr.owner \in StackFrames \cup {Nobody}
  /\ markPtr.idx \in (-1)..(MaxMarks - 1)
  /\ \A i \in DOMAIN subs : subs[i].mark \in 0..(MaxStack - 1)
  /\ calling \in BOOLEAN

\* A mark operation finds the marks that the XSUBs on its frame have pushed and not popped,
\* the latest on top, whatever nested calls did to their own in between: no call takes
\* the arguments of another.
MarksAreThere ==
  InSub =>
    LET f == Sub.f
        top == Adopted(f, markidx[f]) IN
    /\ top >= Len(pushed[f]) - 1
    /\ \A i \in DOMAIN pushed[f] : marks[f][top - Len(pushed[f]) + i] = pushed[f][i]

\* The arguments of an XSUB begin at the bottom of a fresh frame, and those of a direct
\* call above the caller's: results never overwrite arguments of a call that goes on.
ArgumentsAreNested ==
  \A i \in DOMAIN subs :
    /\ ~subs[i].direct => subs[i].mark = 0
    /\ subs[i].direct => subs[i].mark >= subs[i - 1].mark
===============================================================================
