---------------------------- MODULE InstanceEntry ----------------------------
(***************************************************************************)
(* The monitor around one Perl instance (internal/perl.go, Module; and     *)
(* internal/instance.go, Perl): goroutines enter the single-threaded guest *)
(* under the mutex mu; while the guest calls a bound Go function, mu is    *)
(* released so that other entries can run nested; Close destroys the guest *)
(* interpreter and unmaps its memory; finalizers queue handle releases     *)
(* that the next operation sends to the guest in one call of its own.      *)
(*                                                                         *)
(* All calls share the guest's one C stack.  The wasm code lowers the      *)
(* stack pointer on entry and, on return, sets it back to the value it had *)
(* on entry, whatever ran in between; sp counts the frames below it.       *)
(***************************************************************************)
EXTENDS Naturals, Sequences

CONSTANTS
  Goroutines,       \* goroutines that use the instance
  Callers,          \* those whose Perl code calls bound Go functions
  Binders,          \* those that call Bind
  NoOne,            \* owner of a free mutex
  MaxDepth,         \* bound: frames one goroutine has in the guest
  MaxPending,       \* bound: handle releases waiting in the queue
  QuietClose,       \* the program closes only when no call is in progress
  BindAfterClose    \* the program still calls Bind after Close

ASSUME EntryAssumption ==
  /\ Callers \subseteq Goroutines
  /\ Binders \subseteq Goroutines
  /\ NoOne \notin Goroutines
  /\ MaxDepth \in Nat \ {0}
  /\ MaxPending \in Nat
  /\ QuietClose \in BOOLEAN
  /\ BindAfterClose \in BOOLEAN

(***************************************************************************)
(* What an entry into the guest is for: a value operation, the batched     *)
(* release that precedes it, the finalization by Close, the registration   *)
(* of the callback dispatcher by Bind.  pc[g] \in Jobs says that g waits   *)
(* for mu to make that entry.                                              *)
(***************************************************************************)
Jobs == {"op", "release", "close", "bind"}

VARIABLES
  pc,        \* per goroutine: host, checked, a job, guest, resume or unmap
  frames,    \* per goroutine: its frames on the guest stack, innermost last
  sp,        \* guest stack pointer, as the number of frames below it
  mu,        \* owner of Module.mu
  closed,    \* Perl.closed
  life,      \* guest memory: live, destroyed (Close ran in it) or unmapped
  pending    \* length of Perl.pendingRel

vars == <<pc, frames, sp, mu, closed, life, pending>>

Frame == [at : Nat, job : Jobs]

InGuest(g) == pc[g] = "guest"

\* g is not using the instance at all: not even in a callback of its own.
Away(g) == pc[g] = "host" /\ frames[g] = << >>

Moves(g, from, to) ==
  /\ pc[g] = from
  /\ pc' = [pc EXCEPT ![g] = to]

Init ==
  /\ pc = [g \in Goroutines |-> "host"]
  /\ frames = [g \in Goroutines |-> << >>]
  /\ sp = 0
  /\ mu = NoOne
  /\ closed = FALSE
  /\ life = "live"
  /\ pending = 0

-------------------------------------------------------------------------------
(***************************************************************************)
(* Host side: starting an operation, a Bind or a Close.                    *)
(***************************************************************************)

\* Variant: valueOp without its closed check.
StartOpUnchecked(g) ==
  /\ Len(frames[g]) < MaxDepth
  /\ Moves(g, "host", "checked")
  /\ UNCHANGED <<frames, sp, mu, closed, life, pending>>

\* valueOp: refuse when closed, and from here on trust that answer.
StartOp(g) ==
  /\ Len(frames[g]) < MaxDepth
  /\ Moves(g, "host", IF closed THEN "host" ELSE "checked")
  /\ UNCHANGED <<frames, sp, mu, closed, life, pending>>

\* Variant: drainReleases takes one id without looking whether there is one.
DrainOne(g) ==
  /\ Moves(g, "checked", "release")
  /\ pending' = pending - 1
  /\ UNCHANGED <<frames, sp, mu, closed, life>>

\* drainReleases: take the queue; skip the guest call when it was empty or the
\* instance has been closed since.
Drain(g) ==
  /\ Moves(g, "checked", IF pending = 0 \/ closed THEN "op" ELSE "release")
  /\ pending' = 0
  /\ UNCHANGED <<frames, sp, mu, closed, life>>

\* EnsureDispatcher: the first Bind enters the guest without asking closed.
StartBind(g) ==
  /\ g \in Binders
  /\ Len(frames[g]) < MaxDepth
  /\ closed => BindAfterClose
  /\ Moves(g, "host", "bind")
  /\ UNCHANGED <<frames, sp, mu, closed, life, pending>>

\* Close: flip closed once; only the goroutine that flipped it goes on.
StartClose(g) ==
  /\ Len(frames[g]) < MaxDepth
  /\ ~closed
  /\ QuietClose => \A h \in Goroutines : Away(h)
  /\ Moves(g, "host", "close")
  /\ closed' = TRUE
  /\ UNCHANGED <<frames, sp, mu, life, pending>>

\* releaseMapping: after the guest call, outside mu.
Unmap(g) ==
  /\ Moves(g, "unmap", "host")
  /\ life' = "unmapped"
  /\ UNCHANGED <<frames, sp, mu, closed, pending>>

\* The finalizer of a collected handle only appends to the queue.
QueueRelease ==
  /\ pending < MaxPending
  /\ pending' = pending + 1
  /\ UNCHANGED <<pc, frames, sp, mu, closed, life>>

-------------------------------------------------------------------------------
(***************************************************************************)
(* Crossing into the guest and back.                                       *)
(***************************************************************************)

\* Variant: an entry that bypasses invoke's lock.
EnterWithoutLock(g) ==
  /\ pc[g] \in Jobs
  /\ mu' = g
  /\ sp' = sp + 1
  /\ frames' = [frames EXCEPT ![g] = Append(@, [at |-> sp + 1, job |-> pc[g]])]
  /\ pc' = [pc EXCEPT ![g] = "guest"]
  /\ UNCHANGED <<closed, life, pending>>

\* invoke: take mu, push a frame.
Enter(g) ==
  /\ pc[g] \in Jobs
  /\ mu = NoOne
  /\ mu' = g
  /\ sp' = sp + 1
  /\ frames' = [frames EXCEPT ![g] = Append(@, [at |-> sp + 1, job |-> pc[g]])]
  /\ pc' = [pc EXCEPT ![g] = "guest"]
  /\ UNCHANGED <<closed, life, pending>>

\* What g does once the entry made for job is over.
After(job) == CASE job = "release" -> "op"
                [] job = "close"   -> "unmap"
                [] OTHER           -> "host"

\* invoke returns, normally or by a trap: the stack pointer goes back to its
\* value on entry and mu is released.
Exit(g) ==
  LET top == frames[g][Len(frames[g])] IN
  /\ Moves(g, "guest", After(top.job))
  /\ frames' = [frames EXCEPT ![g] = SubSeq(@, 1, Len(@) - 1)]
  /\ sp' = top.at - 1
  /\ mu' = NoOne
  /\ life' = IF top.job = "close" THEN "destroyed" ELSE life
  /\ UNCHANGED <<closed, pending>>

\* Variant: handleCallback keeps mu while the Go function runs.
CallbackKeepingLock(g) ==
  /\ g \in Callers
  /\ Moves(g, "guest", "host")
  /\ frames[g][Len(frames[g])].job # "bind"
  /\ UNCHANGED <<frames, sp, mu, closed, life, pending>>

\* handleCallback: release mu and run the Go function; the frame stays.  The
\* guest side of a Bind registration runs no Perl code.
Callback(g) ==
  /\ g \in Callers
  /\ Moves(g, "guest", "host")
  /\ frames[g][Len(frames[g])].job # "bind"
  /\ mu' = NoOne
  /\ UNCHANGED <<frames, sp, closed, life, pending>>

\* The Go function returns (or panics) ...
HandlerReturn(g) ==
  /\ frames[g] # << >>
  /\ Moves(g, "host", "resume")
  /\ UNCHANGED <<frames, sp, mu, closed, life, pending>>

\* Variant: the guest goes on without taking mu back.
ResumeWithoutLock(g) ==
  /\ Moves(g, "resume", "guest")
  /\ mu' = g
  /\ UNCHANGED <<frames, sp, closed, life, pending>>

\* ... and mu is taken back before the guest goes on.
Resume(g) ==
  /\ mu = NoOne
  /\ Moves(g, "resume", "guest")
  /\ mu' = g
  /\ UNCHANGED <<frames, sp, closed, life, pending>>

-------------------------------------------------------------------------------
Step(g) ==
  \/ StartOp(g) \/ Drain(g) \/ StartBind(g) \/ StartClose(g) \/ Unmap(g)
  \/ Enter(g) \/ Exit(g) \/ Callback(g) \/ HandlerReturn(g) \/ Resume(g)

Next == (\E g \in Goroutines : Step(g)) \/ QueueRelease

Spec == Init /\ [][Next]_vars

(***************************************************************************)
(* Guest code does not sit still: it returns or calls back.  A goroutine   *)
(* that waits for mu gets it if mu is free again and again: sync.Mutex     *)
(* hands over to a starving waiter.  Nothing is assumed of Go callbacks.   *)
(***************************************************************************)
LockFairness ==
  \A g \in Goroutines :
    /\ WF_vars(Exit(g) \/ Callback(g))
    /\ WF_vars(Drain(g))
    /\ SF_vars(Enter(g))
    /\ SF_vars(Resume(g))

FairSpec == Spec /\ LockFairness

-------------------------------------------------------------------------------
TypeOK ==
  /\ pc \in [Goroutines -> Jobs \cup {"host", "checked", "guest", "resume", "unmap"}]
  /\ frames \in [Goroutines -> Seq(Frame)]
  /\ sp \in Nat
  /\ mu \in Goroutines \cup {NoOne}
  /\ closed \in BOOLEAN
  /\ life \in {"live", "destroyed", "unmapped"}
  /\ pending \in 0..MaxPending

(***************************************************************************)
(* The guest is single-threaded: whoever executes guest code owns mu, and  *)
(* whoever owns mu executes guest code (internal/perl.go, invoke and       *)
(* handleCallback hand it over without a gap).                             *)
(***************************************************************************)
MutualExclusion ==
  \A g \in Goroutines : InGuest(g) <=> mu = g

(***************************************************************************)
(* The executing call is the innermost one on the shared C stack: every    *)
(* call entered after it has returned (internal/perl.go 500-506).  If not, *)
(* its next C function call overwrites live frames of another call.        *)
(***************************************************************************)
StackDiscipline ==
  \A g \in Goroutines : InGuest(g) => frames[g][Len(frames[g])].at = sp

(***************************************************************************)
(* No goroutine executes in an instance that Close has destroyed or        *)
(* unmapped (internal/instance.go 125-127, the comment on closed).         *)
(***************************************************************************)
NoStragglers ==
  \A g \in Goroutines : InGuest(g) => life = "live"

(***************************************************************************)
(* A goroutine that waits to enter gets in even if the Go callbacks of     *)
(* other calls never return: the mutex is not held across a callback       *)
(* (TestCallbackDoesNotDeadlockOtherGoroutines, bridge_test.go).           *)
(***************************************************************************)
EntryNotBlockedByCallbacks ==
  \A g \in Goroutines : pc[g] \in Jobs ~> InGuest(g)

-------------------------------------------------------------------------------
(***************************************************************************)
(* Refinement: the calls in progress, seen through the stack positions     *)
(* their frames occupy, are the stack of NestedEntry.                      *)
(***************************************************************************)
OwnerAt(i) ==
  CHOOSE g \in Goroutines : \E k \in 1..Len(frames[g]) : frames[g][k].at = i

Nested == INSTANCE NestedEntry WITH
            stack <- [i \in 1..sp |-> OwnerAt(i)],
            running <- mu # NoOne

(***************************************************************************)
(* With one goroutine making callbacks, the monitor implements the nested  *)
(* entries that the comment on type Module promises.                       *)
(***************************************************************************)
ImplementsNested == Nested!Spec
===============================================================================
