------------------------------ MODULE HandlePins ------------------------------
(***************************************************************************)
(* References to Perl values held by Go (value.go, refHandle; wire.go; and *)
(* the release queue of internal/instance.go).  The guest keeps a registry *)
(* of pins: every reference that crosses to Go adds one pin to its object  *)
(* and makes one host handle.  When the garbage collector finds a handle   *)
(* unreachable its finalizer queues the id; the next operation takes the   *)
(* whole queue and gives the pins back in one guest call of its own,       *)
(* before the guest call it was made for.  Clones copy the registry, and   *)
(* Adopt makes handles for the copied pins.                                *)
(*                                                                         *)
(* A guest call is one step: the mutex of InstanceEntry sees to that.      *)
(***************************************************************************)
EXTENDS Naturals, FiniteSets

CONSTANTS
  Objects,         \* Perl values that references designate
  Handles,         \* host handles (a collected one is made anew)
  Goroutines,      \* goroutines that use the instances
  Proto,           \* the instance that clones are taken from
  Clones,          \* its clones
  NoInstance,      \* where a handle that does not exist belongs
  MaxUses,         \* bound: handles one operation is passed
  HeldDuringCall   \* the program keeps what it passes to a call reachable
                   \* until the call returns

Instances == {Proto} \cup Clones

ASSUME HandleAssumption ==
  /\ IsFiniteSet(Handles) /\ Objects # {}
  /\ Proto \notin Clones
  /\ NoInstance \notin Instances
  /\ MaxUses \in Nat
  /\ HeldDuringCall \in BOOLEAN

VARIABLES
  handle,    \* per handle: its instance, object and state, and the clones that
             \* may adopt it
  pins,      \* registry of each instance: pins per object
  life,      \* per instance: none (a clone to be), open or closed
  image,     \* the registry in the clone image, once that has been built
  op         \* per goroutine: the operation it is making

vars == <<handle, pins, life, image, op>>

\* held: the program can reach it.  queued: the collector found that it cannot,
\* and the id is in pendingRel.  draining: the id was taken from there.
States == {"none", "held", "queued", "draining"}

NoHandle == [at |-> NoInstance, obj |-> NoInstance, st |-> "none", adoptable |-> {}]
NoOp     == [pc |-> "idle", at |-> NoInstance, uses |-> {}, ids |-> {}, taken |-> {}]
NoImage  == <<>>

In(i, st) == {h \in Handles : handle[h].at = i /\ handle[h].st = st}

\* The handles of the prototype that its first Clone finds can be adopted.
Marked == [h \in Handles |-> IF handle[h].st = "held" /\ handle[h].at = Proto
                              THEN [handle[h] EXCEPT !.adoptable = Clones]
                              ELSE handle[h]]

Unpinned == [o \in Objects |-> 0]

Init ==
  /\ handle = [h \in Handles |-> NoHandle]
  /\ pins = [i \in Instances |-> Unpinned]
  /\ life = [i \in Instances |-> IF i = Proto THEN "open" ELSE "none"]
  /\ image = NoImage
  /\ op = [g \in Goroutines |-> NoOp]

-------------------------------------------------------------------------------
(***************************************************************************)
(* The garbage collector.                                                  *)
(***************************************************************************)

\* The last view of a handle is out of reach: the finalizer flips released and
\* appends the id to pendingRel.
Collect(h) ==
  /\ handle[h].st = "held"
  /\ HeldDuringCall => \A g \in Goroutines : h \notin op[g].uses
  /\ handle' = [handle EXCEPT ![h].st = "queued"]
  /\ UNCHANGED <<pins, life, image, op>>

-------------------------------------------------------------------------------
(***************************************************************************)
(* An operation: encode, check closed, drain, the guest call, decode.      *)
(***************************************************************************)

\* encodeHandle, and reading the receiver's id: from here on the operation has
\* the ids only.  Handles of another instance are refused.
Encode(g, i, hs) ==
  /\ op[g].pc = "idle"
  /\ hs \subseteq In(i, "held")
  /\ Cardinality(hs) <= MaxUses
  /\ op' = [op EXCEPT ![g] = [pc |-> "encoded", at |-> i, uses |-> hs,
                              ids |-> {handle[h].obj : h \in hs}, taken |-> {}]]
  /\ UNCHANGED <<handle, pins, life, image>>

\* valueOp on a closed instance.
Refuse(g) ==
  /\ op[g].pc = "encoded"
  /\ life[op[g].at] # "open"
  /\ op' = [op EXCEPT ![g] = NoOp]
  /\ UNCHANGED <<handle, pins, life, image>>

\* Variant: the ids stay in the queue until the guest call has been made.
TakeLeaving(g) ==
  /\ op[g].pc = "encoded"
  /\ life[op[g].at] = "open"
  /\ op' = [op EXCEPT ![g].pc = "releasing", ![g].taken = In(op[g].at, "queued")]
  /\ UNCHANGED <<handle, pins, life, image>>

\* drainReleases: take the queue.
Take(g) ==
  LET ids == In(op[g].at, "queued") IN
  /\ op[g].pc = "encoded"
  /\ life[op[g].at] = "open"
  /\ op' = [op EXCEPT ![g].pc = IF ids = {} THEN "ready" ELSE "releasing", ![g].taken = ids]
  /\ handle' = [h \in Handles |-> IF h \in ids THEN [handle[h] EXCEPT !.st = "draining"]
                                               ELSE handle[h]]
  /\ UNCHANGED <<pins, life, image>>

\* Variant: the release frees the registry entry, whatever pins it has left.
ReleaseEntries(g) ==
  LET i == op[g].at
      gone == {handle[h].obj : h \in op[g].taken} IN
  /\ op[g].pc = "releasing"
  /\ op' = [op EXCEPT ![g].pc = "ready", ![g].taken = {}]
  /\ pins' = [pins EXCEPT ![i] = [o \in Objects |-> IF o \in gone THEN 0 ELSE @[o]]]
  /\ handle' = [h \in Handles |-> IF h \in op[g].taken THEN NoHandle ELSE handle[h]]
  /\ UNCHANGED <<life, image>>

\* drainReleases: the guest gives up one pin per id.  (What becomes of a call
\* that has been overtaken by Close is the subject of InstanceEntry.)
Release(g) ==
  LET i == op[g].at
      given(o) == Cardinality({h \in op[g].taken : handle[h].obj = o}) IN
  /\ op[g].pc = "releasing"
  /\ op' = [op EXCEPT ![g].pc = "ready", ![g].taken = {}]
  /\ pins' = IF life[i] = "open" THEN [pins EXCEPT ![i] = [o \in Objects |-> @[o] - given(o)]]
                           ELSE pins
  /\ handle' = [h \in Handles |-> IF h \in op[g].taken THEN NoHandle ELSE handle[h]]
  /\ UNCHANGED <<life, image>>

\* The guest call returns no reference, or invoke fails.
Run(g) ==
  /\ op[g].pc = "ready"
  /\ op' = [op EXCEPT ![g] = NoOp]
  /\ UNCHANGED <<handle, pins, life, image>>

\* The guest call returns a reference to o: the guest pins it and decodeNode
\* makes its handle.
RunReturning(g, h, o) ==
  LET i == op[g].at IN
  /\ op[g].pc = "ready"
  /\ life[i] = "open"
  /\ handle[h].st = "none"
  /\ op' = [op EXCEPT ![g] = NoOp]
  /\ pins' = [pins EXCEPT ![i][o] = @ + 1]
  /\ handle' = [handle EXCEPT ![h] = [at |-> i, obj |-> o, st |-> "held", adoptable |-> {}]]
  /\ UNCHANGED <<life, image>>

-------------------------------------------------------------------------------
(***************************************************************************)
(* Clones.                                                                 *)
(***************************************************************************)

\* Variant: a clone starts with an empty registry.
CloneEmpty(c) ==
  LET img == IF image = NoImage THEN pins[Proto] ELSE image IN
  /\ life[Proto] = "open"
  /\ life[c] = "none"
  /\ \A g \in Goroutines : op[g].at # Proto
  /\ image' = img
  /\ pins' = [pins EXCEPT ![c] = Unpinned]
  /\ life' = [life EXCEPT ![c] = "open"]
  /\ handle' = IF image = NoImage THEN Marked ELSE handle
  /\ UNCHANGED op

\* Clone, taken at rest: the first one builds the image, every one maps it.
\* The handles there are at that moment are the ones that clones can adopt.
Clone(c) ==
  LET img == IF image = NoImage THEN pins[Proto] ELSE image IN
  /\ life[Proto] = "open"
  /\ life[c] = "none"
  /\ \A g \in Goroutines : op[g].at # Proto
  /\ image' = img
  /\ pins' = [pins EXCEPT ![c] = img]
  /\ life' = [life EXCEPT ![c] = "open"]
  /\ handle' = IF image = NoImage THEN Marked ELSE handle
  /\ UNCHANGED op

\* Adopt: a handle for the copied pin.  The program adopts handles obtained
\* before the first Clone, as documented, and each at most once per clone.
Adopt(h, c, new) ==
  /\ handle[h].st = "held" /\ c \in handle[h].adoptable
  /\ life[c] = "open"
  /\ handle[new].st = "none"
  /\ handle' = [handle EXCEPT
       ![h].adoptable = @ \ {c},
       ![new] = [at |-> c, obj |-> handle[h].obj, st |-> "held", adoptable |-> {}]]
  /\ UNCHANGED <<pins, life, image, op>>

\* Close: the registry goes with the instance, the host handles stay.
Close(i) ==
  /\ life[i] = "open"
  /\ life' = [life EXCEPT ![i] = "closed"]
  /\ pins' = [pins EXCEPT ![i] = Unpinned]
  /\ UNCHANGED <<handle, image, op>>

-------------------------------------------------------------------------------
Encodes(g) ==
  \E i \in Instances : \E hs \in SUBSET In(i, "held") : life[i] # "none" /\ Encode(g, i, hs)

Returns(g) ==
  Run(g) \/ \E h \in Handles, o \in Objects : RunReturning(g, h, o)

Next ==
  \/ \E h \in Handles : Collect(h)
  \/ \E g \in Goroutines : Encodes(g) \/ Refuse(g) \/ Take(g) \/ Release(g) \/ Returns(g)
  \/ \E c \in Clones : Clone(c) \/ \E h, new \in Handles : Adopt(h, c, new)
  \/ \E i \in Instances : Close(i)

Spec == Init /\ [][Next]_vars

-------------------------------------------------------------------------------
TypeOK ==
  /\ handle \in [Handles -> [at : Instances \cup {NoInstance}, obj : Objects \cup {NoInstance},
                             st : States, adoptable : SUBSET Clones]]
  /\ pins \in [Instances -> [Objects -> Nat]]
  /\ life \in [Instances -> {"none", "open", "closed"}]
  /\ image = NoImage \/ image \in [Objects -> Nat]
  /\ op \in [Goroutines -> [pc : {"idle", "encoded", "releasing", "ready"},
                            at : Instances \cup {NoInstance}, uses : SUBSET Handles,
                            ids : SUBSET Objects, taken : SUBSET Handles]]

Owners(i, o) == {h \in Handles : handle[h].at = i /\ handle[h].obj = o}

(***************************************************************************)
(* Pins are neither lost nor leaked: while an instance is open, an object  *)
(* of the prototype has as many pins as there are handles to it that have  *)
(* not been given back (wire.go, decodeNode: every handle owns one pin).   *)
(***************************************************************************)
PinsMatchHandles ==
  \A o \in Objects :
    life[Proto] = "open" => pins[Proto][o] = Cardinality(Owners(Proto, o))

(***************************************************************************)
(* While Go holds a reference the object is not freed under it, in the     *)
(* instance it came from and in the clones it was adopted by               *)
(* (TestHandleKeepsPerlValueAlive, bridge_test.go; Adopt, value.go).       *)
(***************************************************************************)
HeldObjectsAlive ==
  \A h \in Handles :
    handle[h].st = "held" /\ life[handle[h].at] = "open"
      => pins[handle[h].at][handle[h].obj] > 0

(***************************************************************************)
(* An operation finds the objects it was called with: no pin it relies on  *)
(* is given back between the encoding of its arguments and its guest call. *)
(***************************************************************************)
CallsFindTheirObjects ==
  \A g \in Goroutines :
    op[g].pc = "ready" /\ life[op[g].at] = "open"
      => \A o \in op[g].ids : pins[op[g].at][o] > 0
===============================================================================
