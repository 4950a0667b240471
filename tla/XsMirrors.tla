------------------------------- MODULE XsMirrors -------------------------------
(***************************************************************************)
(* Host copies of guest data (xs/sdk/include/perl.h).  Native code         *)
(* assigns to SvIVX(sv), SvCUR(sv), AvARRAY(av)[i], PL_hints,              *)
(* PL_diehook, PL_perldb...  as if they were C variables.  They are: each  *)
(* macro copies the guest's value into a host slot, and goperl_flush       *)
(* writes slots back before the next guest operation.  The kinds of slots  *)
(* differ in what makes a slot pending, whether the macro fetches anew and *)
(* how long the slot is remembered.  PL_curstackinfo is a copy that is     *)
(* only read: it is good until goperl_do_op advances a generation.         *)
(*                                                                         *)
(* Guest code runs only inside an operation or when no native code runs.   *)
(* An object that is freed and whose address is used again is, here, a     *)
(* guest write to the cells of that address.                               *)
(***************************************************************************)
EXTENDS Integers, Sequences, FiniteSets

CONSTANTS
  Counters,     \* SVs used with SvIVX: ivmirrors
  Strings,      \* SVs used with SvCUR: the one svcur slot
  Arrays,       \* AVs used with AvARRAY: avmirrors
  Vars,         \* PL_perldb and so on: plshadow
  Hooks,        \* PL_diehook, PL_warnhook: hook_val of the frame
  Hints,        \* PL_hints (at most one element)
  Contexts,     \* PL_curstackinfo (at most one element)
  Vals,         \* what a scalar cell may hold
  MaxLen,       \* bound: elements of an array
  MaxMirrors,   \* GOPERL_IVMIRROR_MAX, GOPERL_AVMIRROR_MAX
  MaxActs,      \* bound: nested activations
  NoCell

VARIABLES
  guest,        \* the cells in guest memory
  slot,         \* the host's copies
  shadow,       \* what they held when they were read or written back
  live,         \* the slots that are in use (registered, dirty or of svcur_sv)
  lvalue,       \* the cell whose macro native code has just evaluated
  acts,         \* open native activations: XSUBs and hooks, innermost last
  phase,        \* who executes: Perl code or native code
  meant         \* the last value assigned to each cell, by either side

mirrorVars == <<guest, slot, shadow, live, lvalue, acts, phase, meant>>

Cells ==
  ({"iv"} \X Counters) \cup ({"cur"} \X Strings) \cup ({"av"} \X Arrays)
    \cup ({"var"} \X Vars) \cup ({"hook"} \X Hooks) \cup ({"hints"} \X Hints)
    \cup ({"context"} \X Contexts)

ASSUME MirrorAssumption == NoCell \notin Cells /\ MaxLen \in Nat \ {0}

\* A cell holds a sequence, of one element if it is not an array.
CellDomain(c) ==
  IF c[1] = "av" THEN UNION {[1..n -> Vals] : n \in 0..MaxLen} ELSE [1..1 -> Vals]

XsubDepth == Cardinality({i \in DOMAIN acts : acts[i] = "xsub"})       \* xs_depth

MirrorInit ==
  /\ guest \in [Cells -> [1..1 -> Vals]]
  /\ slot = guest /\ shadow = guest /\ meant = guest
  /\ live = {}
  /\ lvalue = NoCell
  /\ acts = << >>
  /\ phase = "perl"

-------------------------------------------------------------------------------
(* goperl_flush.                                                           *)

\* Interpreter variables are written back even when nobody assigned to them.
PendingCells == {c \in live : c[1] \in {"var", "hook"} \/ slot[c] # shadow[c]}

\* An array element is stored only if the host changed that element.
Merged(c) ==
  [i \in DOMAIN slot[c] |->
     IF /\ c[1] \notin {"var", "hook"}
        /\ i \in DOMAIN guest[c] \cap DOMAIN shadow[c]
        /\ slot[c][i] = shadow[c][i]
     THEN guest[c][i] ELSE slot[c][i]]

Flushed == [c \in Cells |-> IF c \in PendingCells THEN Merged(c) ELSE guest[c]]

\* What is in use after goperl_do_op: svcur_sv and the dirty marks are cleared, and
\* the generation has advanced.  A flush alone does not advance it: Cached.
Lasting == {c \in live : c[1] \in {"iv", "av", "hints"}}
Cached == {c \in live : c[1] = "context"}

Settled(m) ==
  /\ guest' = Flushed
  /\ live' = Lasting \cup m

\* The slots are written back, then the cells of m are fetched; those of kept stay.
Refreshed(m, kept) ==
  /\ slot' = [c \in Cells |-> IF c \in m THEN Flushed[c] ELSE slot[c]]
  /\ shadow' = [c \in Cells |-> IF c \in m THEN Flushed[c]
                                ELSE IF c \in PendingCells THEN slot[c] ELSE shadow[c]]
  /\ Settled(m \cup kept)

-------------------------------------------------------------------------------
(* Native code: one macro, and perhaps an assignment through it.           *)

Native == phase = "native"

Registered(c, kind) ==
  c \in live \/ Cardinality({d \in live : d[1] = kind}) < MaxMirrors

\* SvIVX, AvARRAY.  With the table full they croak: the activation ends (LeaveXsub).
FetchMirror(c) ==
  /\ Native
  /\ c[1] \in {"iv", "av"} /\ Registered(c, c[1])
  /\ Refreshed({c}, Cached)
  /\ lvalue' = c
  /\ UNCHANGED <<acts, phase, meant>>

\* PL_hints.
FetchHints(c) ==
  /\ Native
  /\ c[1] = "hints"
  /\ Refreshed({c}, {})
  /\ lvalue' = c
  /\ UNCHANGED <<acts, phase, meant>>

\* mutant of FetchCur: the slot passes to another string without writing back
FetchCurOnly(c) ==
  /\ Native
  /\ c[1] = "cur"
  /\ lvalue' = c
  /\ slot' = IF c \in live THEN slot ELSE [slot EXCEPT ![c] = guest[c]]
  /\ shadow' = IF c \in live THEN shadow ELSE [shadow EXCEPT ![c] = guest[c]]
  /\ live' = {d \in live : d[1] # "cur"} \cup {c}
  /\ UNCHANGED <<guest, acts, phase, meant>>

\* SvCUR: the slot as it is when it is this string's, else another one's is written
\* back and the operation that fetches flushes the rest.
FetchCur(c) ==
  /\ Native
  /\ c[1] = "cur"
  /\ \/ c \in live /\ UNCHANGED <<guest, slot, shadow, live>>
     \/ c \notin live /\ Refreshed({c}, {})
  /\ lvalue' = c
  /\ UNCHANGED <<acts, phase, meant>>

\* PL_curstackinfo, cxstack: the copy, if it is of this generation.
FetchContext(c) ==
  /\ Native
  /\ c[1] = "context"
  /\ \/ c \in live /\ UNCHANGED <<guest, slot, shadow, live>>
     \/ c \notin live /\ Refreshed({c}, {})
  /\ lvalue' = c
  /\ UNCHANGED <<acts, phase, meant>>

\* PL_perldb, PL_diehook...: read past the funnel, unless a value is pending.
FetchVar(c) ==
  /\ Native
  /\ c[1] \in {"var", "hook"}
  /\ slot' = IF c \in live THEN slot ELSE [slot EXCEPT ![c] = guest[c]]
  /\ live' = live \cup {c}
  /\ lvalue' = c
  /\ UNCHANGED <<guest, shadow, acts, phase, meant>>

\* The assignment that the macro is the left side of.  An array may be assigned to as
\* long as nothing else is done; its length is the guest's.
AssignCell(v) ==
  /\ Native
  /\ lvalue # NoCell /\ lvalue[1] # "context"
  /\ v \in CellDomain(lvalue)
  /\ DOMAIN v = DOMAIN slot[lvalue]
  /\ slot' = [slot EXCEPT ![lvalue] = v]
  /\ meant' = [meant EXCEPT ![lvalue] = v]
  /\ UNCHANGED <<guest, shadow, live, lvalue, acts, phase>>

\* Operations that leave the cells alone: goperl_do_op, or a flush and a direct call.
Untouched(kept) ==
  /\ Native
  /\ Refreshed({}, kept)
  /\ lvalue' = NoCell
  /\ UNCHANGED <<acts, phase, meant>>

\* newSV, newSVnv, newSV_type...; directly: newSViv, newSVpvn, sv_2mortal.
NewValue == Untouched({}) \/ Untouched(Cached)

\* SvNV, SvPVX; directly: SvIV, SvPV.
ReadValue == Untouched({}) \/ Untouched(Cached)

\* SvFLAGS, SvTRUE, SvRV, sv_len, SvREFCNT_inc...
Inspect == Untouched({})

\* hv_fetch, hv_iterinit, gv_stashpv, get_sv, sv_isa...
LookUp == Untouched({})

\* Writes: the slots are written back and then the guest's value is replaced.  The
\* slot of the cell itself stays as it is.
Replaced(c, v) ==
  /\ guest' = [Flushed EXCEPT ![c] = v]
  /\ live' = Lasting
  /\ shadow' = [d \in Cells |-> IF d \in PendingCells THEN slot[d] ELSE shadow[d]]
  /\ meant' = [meant EXCEPT ![c] = v]
  /\ lvalue' = NoCell
  /\ UNCHANGED <<slot, acts, phase>>

\* sv_setiv, sv_setsv, sv_setpvn, sv_catpvn, SvCUR_set...
SetScalar(c, v) == Native /\ c[1] \in {"iv", "cur"} /\ Replaced(c, v)

\* av_push, av_store, av_fill...
SetArray(c, v) == Native /\ c[1] = "av" /\ Replaced(c, v)

\* Operations in which Perl code may run: calls, overloading, MAGIC, the last reference.
\* The generation advances when they return, not before the code runs, and so modules
\* are taken to make another operation between PL_curstackinfo and one of these.
GuestOp ==
  /\ Native /\ Cached = {}
  /\ Refreshed({}, {})
  /\ lvalue' = NoCell
  /\ phase' = "perl"
  /\ UNCHANGED <<acts, meant>>

\* mutant of GuestOpReturn: native code without an activation
GuestOpReturnAlways ==
  /\ phase = "perl"
  /\ phase' = "native"
  /\ UNCHANGED <<guest, slot, shadow, live, lvalue, acts, meant>>

GuestOpReturn ==
  /\ phase = "perl"
  /\ acts # << >>
  /\ phase' = "native"
  /\ UNCHANGED <<guest, slot, shadow, live, lvalue, acts, meant>>

-------------------------------------------------------------------------------
(* Perl code and the calls it makes.                                       *)

GuestWrite(c, v) ==
  /\ phase = "perl"
  /\ guest' = [guest EXCEPT ![c] = v]
  /\ meant' = [meant EXCEPT ![c] = v]
  /\ UNCHANGED <<slot, shadow, live, lvalue, acts, phase>>

\* An XSUB (or pp hook), or a MAGIC hook or destructor.  The hook variables belong to
\* the frame, and the calling operation has flushed those of the frame it leaves.
EnterNative(kind) ==
  /\ phase = "perl"
  /\ Len(acts) < MaxActs
  /\ acts' = Append(acts, kind)
  /\ phase' = "native"
  /\ UNCHANGED <<guest, slot, shadow, live, lvalue, meant>>

OuterActs == SubSeq(acts, 1, Len(acts) - 1)

\* mutant of LeaveXsub: goperl_xs_leave without its flush
LeaveXsubUnflushed ==
  /\ Native
  /\ acts[Len(acts)] = "xsub"
  /\ live' = IF XsubDepth = 1 THEN {c \in live : c[1] = "hints"} ELSE live
  /\ lvalue' = NoCell
  /\ acts' = OuterActs
  /\ phase' = "perl"
  /\ UNCHANGED <<guest, slot, shadow, meant>>

\* goperl_xs_leave, after a return or a croak: the outermost one forgets the mirrors and
\* PL_curstackinfo; the others are taken not to leave that behind.
LeaveXsub ==
  /\ Native
  /\ acts[Len(acts)] = "xsub" /\ (XsubDepth > 1 => Cached = {})
  /\ guest' = Flushed
  /\ shadow' = [c \in Cells |-> IF c \in PendingCells THEN slot[c] ELSE shadow[c]]
  /\ live' = {c \in Lasting : XsubDepth = 1 => c[1] = "hints"}
  /\ lvalue' = NoCell
  /\ acts' = OuterActs
  /\ phase' = "perl"
  /\ UNCHANGED <<slot, meant>>

\* The end of a MAGIC hook or destructor does not flush, and takes the hook variables of
\* its frame with it.  Hooks are taken to end with no slot in use: an operation follows
\* the last SvCUR or PL_perldb of theirs, even if they only read it.
LeaveHook ==
  /\ Native
  /\ acts[Len(acts)] = "hook"
  /\ PendingCells = {} /\ live = Lasting
  /\ lvalue' = NoCell
  /\ acts' = OuterActs
  /\ phase' = "perl"
  /\ UNCHANGED <<guest, slot, shadow, live, meant>>

MirrorNext ==
  \/ \E c \in Cells :
       FetchMirror(c) \/ FetchHints(c) \/ FetchCur(c) \/ FetchContext(c) \/ FetchVar(c)
  \/ lvalue # NoCell /\ \E v \in CellDomain(lvalue) : AssignCell(v)
  \/ NewValue \/ ReadValue \/ Inspect \/ LookUp \/ GuestOp \/ GuestOpReturn
  \/ \E c \in Cells : \E v \in CellDomain(c) : SetScalar(c, v) \/ SetArray(c, v)
  \/ \E c \in Cells : \E v \in CellDomain(c) : GuestWrite(c, v)
  \/ \E kind \in {"xsub", "hook"} : EnterNative(kind)
  \/ LeaveXsub \/ LeaveHook

MirrorSpec == MirrorInit /\ [][MirrorNext]_mirrorVars
-------------------------------------------------------------------------------
(* Properties.                                                             *)

MirrorTypeOK ==
  /\ \A m \in {guest, slot, shadow, meant} :
       DOMAIN m = Cells /\ \A c \in Cells : m[c] \in CellDomain(c)
  /\ live \subseteq Cells
  /\ lvalue \in Cells \cup {NoCell}
  /\ \A i \in DOMAIN acts : acts[i] \in {"xsub", "hook"}
  /\ phase \in {"perl", "native"}
  /\ phase = "native" => acts # << >>

\* Whenever Perl code can run, every cell holds what was last assigned to it, by native
\* code through whichever macro or by Perl: no assignment is lost, none is undone by a
\* slot that was read before it ("every operation flushes host state first").
PerlSeesWrites == phase = "perl" => guest = meant

\* A macro that native code evaluates gives what was last assigned to the cell, by an
\* operation, by a nested activation or through another macro.
ReadsAreCurrent == Native /\ lvalue # NoCell => slot[lvalue] = meant[lvalue]
===============================================================================
