------------------------------- MODULE XsFrames -------------------------------
(***************************************************************************)
(* Activations of native XS code (xs/sdk/include/perl.h and the dispatch   *)
(* of xs/xs.go).  The guest interpreter calls host C functions: an XSUB on *)
(* a frame of its own, an XSUB called by C pointer on the frame of its     *)
(* caller, an op hook, a MAGIC hook, a save-stack destructor, a keyword    *)
(* hook.  A frame keeps where a croak jumps (jb), whose activation it      *)
(* interrupts (prev) and how much of the host save stack was there before  *)
(* (base); nested entries park these three on the save stack itself.       *)
(* A croak is a longjmp: the C functions above the jump buffer vanish.     *)
(*                                                                         *)
(* One interpreter, so one thread: the table of current frames by thread   *)
(* is module FrameTable.  What runs in the guest between two activations   *)
(* has no state here.                                                      *)
(***************************************************************************)
EXTENDS Integers, Sequences, FiniteSets, FiniteSetsExt

CONSTANTS
  Frames,          \* goperl_frame_t blocks (the loader makes one per call)
  NoFrame,         \* the NULL frame: no native code is running
  Locs,            \* host variables that module code saves
  Values,          \* what they may hold
  Ints,            \* those that are 4 bytes wide (SAVEI32, SAVEINT)
  Beside,          \* per such variable: the one in the next 4 bytes
  MaxSaves,        \* GOPERL_HOSTSAVE_MAX
  MaxRegions,      \* bound: C activations and scopes open at once
  Careful          \* whether the modules keep to the habits under which the
                   \* protocol is right: see Sheltered and Expected

ASSUME FrameAssumption ==
  /\ NoFrame \notin Frames
  /\ Values \subseteq Nat /\ 0 \in Values
  /\ Ints \subseteq Locs /\ Beside \in [Ints -> Locs]
  /\ MaxSaves \in Nat /\ MaxRegions \in Nat
  /\ Careful \in BOOLEAN

VARIABLES
  cur,        \* the thread's current frame (goperl_cur_frame_v)
  mem,        \* jb, prev and base of each frame; the saved variables
  saves,      \* goperl_hostsave_v, bottom first
  depth,      \* goperl_xs_depth_v
  scope,      \* goperl_scope_v
  regions,    \* what is open on the C stack, innermost last
  aborted     \* abort() was called

vars == <<cur, mem, saves, depth, scope, regions, aborted>>

\* A jump buffer is named by the position of its region; 0 is the null pointer.  back
\* and jb0 are what the C function of the region keeps in its locals (prev_frame,
\* prev_jb).  The other fields record how the region found the host variables, the
\* fields of its frame, the save stack and the scopes: no action reads them, they
\* serve to state properties and invariants.
\* A hook is the svt function of a MAGIC or a save-stack destructor.
Kinds == {"xsub", "bare", "direct", "pp", "hook", "keyword", "try", "scope"}
Counted == {"xsub", "direct", "pp", "keyword"}       \* those that count in depth

Slots == ({"jb", "prev", "base"} \X Frames) \cup ({"host"} \X Locs)
Host  == [x \in Locs |-> mem[<<"host", x>>]]

Top == regions[Len(regions)]
Below(j) == SubSeq(regions, 1, j - 1)
Epiloguing == regions # << >> /\ Top.kind = "bare"
Awake   == ~aborted /\ ~Epiloguing          \* the guest or native code may act
Running == Awake /\ regions # << >>

\* The loader allocates a zeroed frame for a call, and drops it when the call is over.
Zero(l) == IF l[1] = "prev" THEN NoFrame ELSE 0
Settle(m, open) ==
  /\ regions' = open
  /\ mem' = [l \in Slots |->
               IF l[1] # "host" /\ \A i \in DOMAIN open : open[i].f # l[2]
               THEN Zero(l) ELSE m[l]]

Init ==
  /\ cur = NoFrame
  /\ mem = [l \in Slots |-> Zero(l)]
  /\ saves = << >>
  /\ depth = 0 /\ scope = 0
  /\ regions = << >>
  /\ aborted = FALSE

-------------------------------------------------------------------------------
(* The host save stack.                                                    *)

Saved(l, w) == [loc |-> l, val |-> mem[l], scope |-> scope, width |-> w]

\* The goperl_hostsave_* entries above base that write l when they are popped.
\* wide: every entry is written back as a pointer, as goperl_leave does.
Writers(s, l, base, wide) ==
  {i \in (base + 1)..Len(s) :
     \/ s[i].loc = l
     \/ /\ wide /\ s[i].width = 4 /\ s[i].loc[1] = "host"
        /\ l = <<"host", Beside[s[i].loc[2]]>>}

\* They are popped from the top, so that the lowest one writes last.
Unwound(m, s, base, wide) ==
  [l \in Slots |->
     LET w == Writers(s, l, base, wide) IN
     IF w = {} THEN m[l]
     ELSE IF s[Min(w)].loc = l THEN s[Min(w)].val ELSE 0]

Cut(s, base) == IF base < Len(s) THEN SubSeq(s, 1, base) ELSE s

-------------------------------------------------------------------------------
(* Entering native code.                                                   *)

Fresh(f) == f # cur /\ \A i \in DOMAIN regions : regions[i].f # f

Region(kind, f) ==
  [kind |-> kind, f |-> f, was |-> Host, back |-> cur,
   jb0 |-> IF f = cur THEN mem[<<"jb", f>>] ELSE 0,
   prev0 |-> mem[<<"prev", f>>], base0 |-> mem[<<"base", f>>],
   start |-> Len(saves), scope |-> scope]

Push(kind, f) ==
  /\ Len(regions) < MaxRegions
  /\ regions' = Append(regions, Region(kind, f))

\* dXSARGS: current frame first, then the three fields are parked, then armed.
EntryProtocol(kind, f) ==
  /\ Push(kind, f)
  /\ cur' = f
  /\ saves' = saves \o << Saved(<<"base", f>>, 4), Saved(<<"prev", f>>, 0),
                          Saved(<<"jb", f>>, 0) >>
  /\ mem' = [mem EXCEPT ![<<"prev", f>>] = cur, ![<<"base", f>>] = Len(saves),
                        ![<<"jb", f>>] = Len(regions) + 1]
  /\ depth' = depth + 1
  /\ UNCHANGED <<scope, aborted>>

\* A hook that interrupts no activation is not counted in depth: the return of a
\* native call that it makes takes scope to 0 under the scopes it has open.  Careful
\* hooks make such calls with no scope open.
Sheltered == Careful => depth > 0 \/ scope = 0

RoomToParkOne == Len(saves) < MaxSaves            \* mutant of RoomToPark
RoomToPark == Len(saves) + 3 <= MaxSaves

\* The guest calls an XSUB: from Perl code, or from an operation of the native
\* code that is running.
Dispatch(f) ==
  /\ Awake
  /\ Fresh(f)
  /\ Sheltered /\ RoomToPark
  /\ EntryProtocol("xsub", f)

\* The save stack is full before the new frame has a jump buffer: the overflow
\* croak finds jb null (goperl_raise).
DispatchOverflow(f) ==
  /\ Awake
  /\ Fresh(f)
  /\ ~RoomToPark
  /\ cur' = f
  /\ aborted' = TRUE
  /\ UNCHANGED <<mem, saves, depth, scope, regions>>

\* (*CvXSUB(cv))(aTHX_ cv): another XSUB on the frame of the caller.
CallDirect ==
  /\ Running
  /\ Sheltered /\ RoomToPark
  /\ EntryProtocol("direct", cur)

PpInvoke(f) ==
  /\ Awake
  /\ Fresh(f)
  /\ Sheltered
  /\ Push("pp", f)
  /\ cur' = f
  /\ mem' = [mem EXCEPT ![<<"jb", f>>] = Len(regions) + 1,
               ![<<"prev", f>>] = cur, ![<<"base", f>>] = Len(saves)]
  /\ depth' = depth + 1
  /\ UNCHANGED <<saves, scope, aborted>>

KeywordInvoke(f) ==
  /\ Awake
  /\ Fresh(f)
  /\ Push("keyword", f)
  /\ cur' = f
  /\ mem' = [mem EXCEPT ![<<"jb", f>>] = Len(regions) + 1,
               ![<<"prev", f>>] = cur, ![<<"base", f>>] = Len(saves)]
  /\ depth' = depth + 1
  /\ UNCHANGED <<saves, scope, aborted>>

\* A MAGIC hook or a save-stack destructor: only jb and the current frame.
HookInvoke(f) ==
  /\ Awake
  /\ Fresh(f)
  /\ Push("hook", f)
  /\ cur' = f
  /\ mem' = [mem EXCEPT ![<<"jb", f>>] = Len(regions) + 1]
  /\ UNCHANGED <<saves, depth, scope, aborted>>

-------------------------------------------------------------------------------
(* What native code does.                                                  *)

\* SAVEVPTR, save_hptr, SAVESPTR of a host variable; SAVEI32: then an assignment.
\* Hooks that the loader calls open a scope of their own before they save.
Save(x, v) ==
  /\ Running
  /\ Top.kind \in {"xsub", "direct", "pp", "scope"}
  /\ Len(saves) < MaxSaves
  /\ saves' = Append(saves, Saved(<<"host", x>>, IF x \in Ints THEN 4 ELSE 0))
  /\ mem' = [mem EXCEPT ![<<"host", x>>] = v]
  /\ UNCHANGED <<cur, depth, scope, regions, aborted>>

EnterScope ==
  /\ Running
  /\ Push("scope", cur)
  /\ scope' = scope + 1
  /\ UNCHANGED <<cur, mem, saves, depth, aborted>>

\* mutant of LeaveBase: this scope's own entries stay
LeaveBaseOffByOne == Max({0} \cup {i \in DOMAIN saves : saves[i].scope <= scope})

\* LEAVE pops the entries made at this scope or deeper.
LeaveBase == Max({0} \cup {i \in DOMAIN saves : saves[i].scope < scope})

LeaveScope ==
  /\ Running
  /\ Top.kind = "scope"
  /\ mem' = Unwound(mem, saves, LeaveBase, TRUE)
  /\ saves' = Cut(saves, LeaveBase)
  /\ scope' = scope - 1
  /\ regions' = Below(Len(regions))
  /\ UNCHANGED <<cur, depth, aborted>>

TryStart ==
  /\ Running
  /\ Push("try", cur)
  /\ mem' = [mem EXCEPT ![<<"jb", cur>>] = Len(regions) + 1]
  /\ UNCHANGED <<cur, saves, depth, scope, aborted>>

\* mutant of TryEnd: the buffer of the try block stays armed
TryEndArmed ==
  /\ Running
  /\ Top.kind = "try"
  /\ regions' = Below(Len(regions))
  /\ UNCHANGED <<cur, mem, saves, depth, scope, aborted>>

TryEnd ==
  /\ Running
  /\ Top.kind = "try"
  /\ mem' = [mem EXCEPT ![<<"jb", cur>>] = Top.jb0]
  /\ regions' = Below(Len(regions))
  /\ UNCHANGED <<cur, saves, depth, scope, aborted>>

-------------------------------------------------------------------------------
(* Leaving native code.                                                    *)

\* mutants of Leave: prev_frame read after the unwind restored it; the entries kept
LeaveReadingLate(m, st, f, open) ==
  LET base == m[<<"base", f>>] IN
  /\ Settle(Unwound(m, st, base, FALSE), open)
  /\ saves' = Cut(st, base)
  /\ depth' = IF depth > 1 THEN depth - 1 ELSE 0
  /\ scope' = IF depth > 1 THEN scope ELSE 0
  /\ cur' = Unwound(m, st, base, FALSE)[<<"prev", f>>]

LeaveKeepingSaves(m, st, f, open) ==
  /\ Settle(Unwound(m, st, m[<<"base", f>>], FALSE), open)
  /\ saves' = st
  /\ depth' = IF depth > 1 THEN depth - 1 ELSE 0
  /\ scope' = IF depth > 1 THEN scope ELSE 0
  /\ cur' = m[<<"prev", f>>]

\* goperl_xs_leave, on memory m and save stack st; open is what stays open.
Leave(m, st, f, open) ==
  LET base == m[<<"base", f>>] IN
  /\ Settle(Unwound(m, st, base, FALSE), open)
  /\ saves' = Cut(st, base)
  /\ depth' = IF depth > 1 THEN depth - 1 ELSE 0
  /\ scope' = IF depth > 1 THEN scope ELSE 0
  /\ cur' = m[<<"prev", f>>]

\* XSRETURN, the end of boot, the end of a pp hook.
Return ==
  /\ Running
  /\ Top.kind \in {"xsub", "direct", "pp"}
  /\ Leave(mem, saves, cur, Below(Len(regions)))
  /\ UNCHANGED aborted

\* PPCODE ends with a bare return; the loader then calls __goperl_xs_epilogue.
BareReturn ==
  /\ Running
  /\ Top.kind = "xsub"
  /\ regions' = [regions EXCEPT ![Len(regions)].kind = "bare"]
  /\ UNCHANGED <<cur, mem, saves, depth, scope, aborted>>

\* One turn of its loop; the last one closes a level that is not nested in its own
\* frame, or finds that frame not current.
Epilogue ==
  /\ Epiloguing /\ ~aborted
  /\ \/ /\ cur = Top.f /\ depth > 0
        /\ Leave(mem, saves, Top.f, IF mem[<<"prev", Top.f>>] = Top.f THEN regions
                                    ELSE Below(Len(regions)))
     \/ /\ ~(cur = Top.f /\ depth > 0)
        /\ Settle(mem, Below(Len(regions)))
        /\ UNCHANGED <<cur, saves, depth, scope>>
  /\ UNCHANGED aborted

\* The tail of svt_invoke and dtor_invoke, after the hook or its croak: the save
\* stack stays as it is.
HookTail(j) ==
  /\ Settle([mem EXCEPT ![<<"jb", cur>>] = regions[j].jb0], Below(j))
  /\ cur' = regions[j].back
  /\ UNCHANGED <<saves, depth, scope>>

HookReturn ==
  /\ Running
  /\ Top.kind = "hook"
  /\ HookTail(Len(regions))
  /\ UNCHANGED aborted

\* mutant of KeywordTail: the hook stays counted
KeywordTailCounted(j, m) ==
  /\ Settle([m EXCEPT ![<<"jb", cur>>] = regions[j].jb0], Below(j))
  /\ cur' = regions[j].back
  /\ UNCHANGED <<depth, scope>>

\* The tail of keyword_invoke.
KeywordTail(j, m) ==
  /\ Settle([m EXCEPT ![<<"jb", cur>>] = regions[j].jb0], Below(j))
  /\ cur' = regions[j].back
  /\ depth' = depth - 1
  /\ UNCHANGED scope

KeywordReturn ==
  /\ Running
  /\ Top.kind = "keyword"
  /\ KeywordTail(Len(regions), mem)
  /\ UNCHANGED <<saves, aborted>>

-------------------------------------------------------------------------------
(* croak: goperl_raise jumps to the buffer of the current frame.           *)

\* Where the croaks of the checked programs happen, when they are Careful: out of an
\* XSUB that Perl called at rest, or out of a hook or TRY block with no scope open.
Expected(j) ==
  \/ ~Careful
  \/ regions[j].kind = "xsub" /\ j = 1
  \/ regions[j].kind \notin {"xsub", "direct"} /\ j = Len(regions)

Target == mem[<<"jb", cur>>]

Jump(kinds) ==
  /\ Running /\ cur # NoFrame
  /\ Target \in DOMAIN regions
  /\ Expected(Target)
  /\ regions[Target].kind \in kinds
  /\ UNCHANGED aborted

\* The handlers of dXSARGS and of pp_invoke unwind, and then call goperl_xs_leave.
CroakFromXsub ==
  /\ Jump({"xsub", "direct", "pp"})
  /\ LET base == mem[<<"base", cur>>] IN
     Leave(Unwound(mem, saves, base, FALSE), Cut(saves, base), cur, Below(Target))

CroakFromHook ==
  /\ Jump({"hook"})
  /\ HookTail(Target)

CroakFromKeyword ==
  /\ Jump({"keyword"})
  /\ LET base == mem[<<"base", cur>>] IN
     /\ KeywordTail(Target, Unwound(mem, saves, base, FALSE))
     /\ saves' = Cut(saves, base)

\* XCPT_TRY: the function that armed the buffer goes on.
CroakFromTry ==
  /\ Jump({"try"})
  /\ Settle([mem EXCEPT ![<<"jb", cur>>] = regions[Target].jb0], Below(Target))
  /\ UNCHANGED <<cur, saves, depth, scope>>

\* A null jump buffer.
CroakOutside ==
  /\ Running /\ cur # NoFrame
  /\ mem[<<"jb", cur>>] = 0
  /\ aborted' = TRUE
  /\ UNCHANGED <<cur, mem, saves, depth, scope, regions>>

Enter(f) ==
  \/ Dispatch(f) \/ DispatchOverflow(f) \/ PpInvoke(f) \/ KeywordInvoke(f)
  \/ HookInvoke(f)

Croak ==
  \/ CroakFromXsub \/ CroakFromHook \/ CroakFromKeyword
  \/ CroakFromTry \/ CroakOutside

Next ==
  \/ \E f \in Frames : Enter(f)
  \/ CallDirect
  \/ \E x \in Locs, v \in Values : Save(x, v)
  \/ EnterScope \/ LeaveScope \/ TryStart \/ TryEnd
  \/ Return \/ BareReturn \/ Epilogue \/ HookReturn \/ KeywordReturn
  \/ Croak

Spec == Init /\ [][Next]_vars
-------------------------------------------------------------------------------
(* Properties.                                                             *)

TypeOK ==
  /\ cur \in Frames \cup {NoFrame}
  /\ DOMAIN mem = Slots
  /\ \A f \in Frames : /\ mem[<<"jb", f>>] \in 0..MaxRegions
                       /\ mem[<<"base", f>>] \in 0..MaxSaves
                       /\ mem[<<"prev", f>>] \in Frames \cup {NoFrame}
  /\ \A x \in Locs : mem[<<"host", x>>] \in Values
  /\ Len(saves) <= MaxSaves
  /\ \A i \in DOMAIN saves : saves[i].loc \in Slots
  /\ depth \in Nat /\ scope \in Int
  /\ Len(regions) <= MaxRegions
  /\ \A i \in DOMAIN regions : regions[i].kind \in Kinds /\ regions[i].f \in Frames
  /\ aborted \in BOOLEAN

\* The current frame is the frame of the C function that is executing, and NULL when
\* the interpreter's thread runs no native code: what an activation interrupts
\* becomes current again when it ends (the comments above dXSARGS and in goperl_xs_leave).
CurrentIsTop ==
  Awake
     => cur = IF regions = << >> THEN NoFrame ELSE Top.f

\* While native code runs, a croak jumps into the innermost C function that armed a
\* buffer: never through a null buffer, never into a function that has returned.
CroakHasTarget ==
  Running /\ cur # NoFrame =>
    LET armed == {i \in DOMAIN regions : regions[i].kind # "scope"} IN
    mem[<<"jb", cur>>] = Max(armed)

\* xs_depth counts the open activations that the loader made through dXSARGS, pp and
\* keyword hooks: the mirrors of guest state are dropped exactly when it is back at 0.
DepthCounts ==
  Awake
     => depth = Cardinality({i \in DOMAIN regions : regions[i].kind \in Counted})

\* The save stack never keeps the address of a field of a frame whose call is over:
\* unwinding it would write into memory that is no longer a frame.
SavedFieldsLive ==
  \A i \in DOMAIN saves :
    saves[i].loc[1] = "host"
      \/ \E r \in DOMAIN regions : regions[r].f = saves[i].loc[2]

\* Saved variables get their values back when the scope or activation that saved them
\* ends, normally or by a croak, and only then.  A hook, a keyword hook or a TRY block
\* is a scope too: it ends with the variables as it found them.
OuterValues == [i \in DOMAIN regions |-> regions[i].was]

Scopes == INSTANCE DynamicScope WITH env <- Host, outer <- OuterValues
ImplementsScopes == Scopes!Spec
===============================================================================
