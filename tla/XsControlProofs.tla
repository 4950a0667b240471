---------------------------- MODULE XsControlProofs ----------------------------
(***************************************************************************)
(* Proofs about XsFrames, for any frames, host variables, save stack and   *)
(* nesting of regions, in programs that are Careful; and at the end, of    *)
(* the run in which it stands beside FrameTable and XsStack.               *)
(*                                                                         *)
(* The invariant Inv has three parts.  Chain speaks of the open regions    *)
(* alone: what each keeps in its locals is what the region below it has    *)
(* (Adjacent, OnFrames), the parts of the save stack that regions use lie  *)
(* one above the other (Ordered), and the buffer of the last region that   *)
(* armed one is the current one (Armed).  Globals ties cur, scope and      *)
(* depth to the top region.  FieldsHeld and FieldsParked say where the     *)
(* three fields of a frame are: those of the last region on a frame in the *)
(* frame itself, those of the others on the save stack, in the places that *)
(* the region above has parked them.  So every end of a region, however    *)
(* deep a croak cuts, finds the fields of the region it goes back to.      *)
(*                                                                         *)
(* AtRest and UnderShelter are what Careful buys: without them a croak or  *)
(* a leave may read a field after the unwind that restores it.             *)
(*                                                                         *)
(* For the refinement of DynamicScope, Restorable adds that popping the    *)
(* save stack down to where a region began gives each host variable the    *)
(* value it had then; here all of them have the width of a pointer.        *)
(***************************************************************************)
EXTENDS MCXsControl, FrameStateProofs, FiniteSetTheorems, WellFoundedInduction

\* The kinds of region that run on the frame of the region below.
Nested == {"direct", "try", "scope"}

\* The kinds whose entry leaves prev and base of the frame as they are.
Keeping == {"hook", "try", "scope"}

\* The kinds that have parked the three fields on the save stack.
Parking == {"xsub", "bare", "direct"}

\* The kinds counted in depth, a PPCODE body that has returned included.
Levels == Counted \cup {"bare"}

\* What the frame of region r, the i-th, holds while it is the top one on that frame.
JbOf(r, i) == IF r.kind = "scope" THEN r.jb0 ELSE i
PrevOf(r)  == IF r.kind \in Keeping THEN r.prev0 ELSE r.back
BaseOf(r)  == IF r.kind \in Keeping THEN r.base0 ELSE r.start
Parked(r)  == IF r.kind \in Parking THEN 3 ELSE 0
ScopeOf(r) == IF r.kind = "scope" THEN r.scope + 1 ELSE r.scope

MaybeFrame == Frames \cup {NoFrame}
Regions ==
  [kind : Kinds, f : Frames, was : [Locs -> Values], back : MaybeFrame,
   jb0 : 0..MaxRegions, prev0 : MaybeFrame, base0 : 0..MaxSaves, start : 0..MaxSaves,
   scope : Nat]
Entries ==
  [loc : Slots, val : Nat \cup MaybeFrame, scope : Nat, width : {0, 4}]

Jb(f)   == <<"jb", f>>
Prev(f) == <<"prev", f>>
Base(f) == <<"base", f>>
Var(x)  == <<"host", x>>
Fields(f) == {Jb(f), Prev(f), Base(f)}

LEMMA SlotNames ==
  /\ \A f \in Frames : Jb(f) \in Slots /\ Prev(f) \in Slots /\ Base(f) \in Slots
  /\ \A x \in Locs : Var(x) \in Slots
  /\ \A f, g \in Frames : /\ Jb(f) # Prev(g) /\ Jb(f) # Base(g) /\ Prev(f) # Base(g)
                          /\ f # g => Jb(f) # Jb(g) /\ Prev(f) # Prev(g) /\ Base(f) # Base(g)
  /\ \A f \in Frames, x \in Locs : Var(x) # Jb(f) /\ Var(x) # Prev(f) /\ Var(x) # Base(f)
  /\ \A x, y \in Locs : Var(x) = Var(y) => x = y
  /\ \A l \in Slots : \/ \E f \in Frames : l \in Fields(f)
                      \/ \E x \in Locs : l = Var(x)
  /\ \A f \in Frames : Zero(Jb(f)) = 0 /\ Zero(Prev(f)) = NoFrame /\ Zero(Base(f)) = 0
  /\ \A x \in Locs : Zero(Var(x)) = 0 /\ Var(x)[1] = "host" /\ Var(x)[2] = x
  /\ \A f \in Frames : \A l \in Fields(f) : l[1] # "host" /\ l[2] = f
BY DEF Slots, Jb, Prev, Base, Var, Fields, Zero

\* Every nonempty set of naturals has a least element, which Min chooses.
LEMMA MinIsLeast ==
  ASSUME NEW S, S \subseteq Nat, S # {}
  PROVE  Min(S) \in S /\ \A y \in S : Min(S) <= y
<1>1. PICK x \in S : \A y \in S : ~(<<y, x>> \in OpToRel(<, Nat))
  BY NatLessThanWellFounded, WFMin
<1>2. \A y \in S : x <= y
  <2> SUFFICES ASSUME NEW y \in S PROVE x <= y
    OBVIOUS
  <2>1. <<y, x>> \in Nat \X Nat /\ <<y, x>>[1] = y /\ <<y, x>>[2] = x
    OBVIOUS
  <2>2. ~(y < x)
    BY <1>1, <2>1 DEF OpToRel
  <2> QED
    BY <2>2
<1> QED
  BY <1>2 DEF Min

LEMMA MinIs ==
  ASSUME NEW S, S \subseteq Nat, NEW k \in S, \A y \in S : k <= y
  PROVE  Min(S) = k
<1>1. Min(S) \in S /\ Min(S) <= k
  BY MinIsLeast, S # {}
<1>2. k <= Min(S) /\ Min(S) \in Nat /\ k \in Nat
  BY <1>1
<1> QED
  BY <1>1, <1>2

LEMMA MaxIs ==
  ASSUME NEW S, S \subseteq Int, NEW k \in S, \A y \in S : k >= y
  PROVE  Max(S) = k
<1>1. \E x \in S : \A y \in S : x >= y
  OBVIOUS
<1>2. Max(S) \in S /\ \A y \in S : Max(S) >= y
  BY <1>1 DEF Max
<1>3. Max(S) >= k /\ k >= Max(S) /\ Max(S) \in Int /\ k \in Int
  BY <1>2
<1> QED
  BY <1>3
-------------------------------------------------------------------------------
(* What is open on the C stack, as a property of the sequence R of regions alone:  *)
(* every part of it holds of the regions below one when it holds of all.           *)

\* The last one that armed a buffer at or below i is the one whose buffer is current.
Armed(R) == \A i \in 1..Len(R) :
  /\ JbOf(R[i], i) \in 1..i
  /\ R[JbOf(R[i], i)].kind # "scope"
  /\ \A k \in 1..Len(R) : JbOf(R[i], i) < k /\ k <= i => R[k].kind = "scope"

\* A region finds what is below it as it is left there.
Adjacent(R) == \A i \in 1..Len(R) :
  /\ i = 1 => R[i].back = NoFrame /\ R[i].start = 0 /\ R[i].scope = 0
  /\ i > 1 => /\ R[i].back = R[i-1].f
              /\ R[i].scope = ScopeOf(R[i-1])
              /\ R[i-1].kind \in {"hook", "keyword", "try"} => R[i].start = R[i-1].start
              /\ R[i-1].kind # "bare"

\* The save stack below a region holds all that the regions below it have parked, and
\* scopes are nested.
Ordered(R) == \A i, k \in 1..Len(R) :
  k < i => /\ R[k].start + Parked(R[k]) <= R[i].start
           /\ ScopeOf(R[k]) <= R[i].scope

\* A region is on the frame of the one below it, or on a frame of its own.
OnFrames(R) == \A i \in 1..Len(R) :
  /\ R[i].kind \in Nested =>
       /\ i > 1 /\ R[i].f = R[i-1].f
       /\ R[i].jb0 = JbOf(R[i-1], i-1)
       /\ R[i].prev0 = PrevOf(R[i-1])
       /\ R[i].base0 = BaseOf(R[i-1])
  /\ R[i].kind \notin Nested =>
       /\ \A k \in 1..Len(R) : k < i => R[k].f # R[i].f
       /\ R[i].jb0 = 0 /\ R[i].prev0 = NoFrame /\ R[i].base0 = 0

\* Under scopes alone, the frame is that of the first region, which began at rest.
AtRest(R) == \A i \in 1..Len(R) :
  (\A k \in 1..Len(R) : 1 < k /\ k <= i => R[k].kind = "scope")
     => BaseOf(R[i]) = 0 /\ PrevOf(R[i]) = NoFrame /\ R[i].f = R[1].f

\* An activation begins under no scope, or above another that is counted.
UnderShelter(R) == \A i \in 1..Len(R) :
  R[i].kind \in {"xsub", "bare", "direct", "pp"} =>
    R[i].scope = 0 \/ \E k \in 1..Len(R) : k < i /\ R[k].kind \in Levels

Chain(R) ==
  /\ Armed(R) /\ Adjacent(R) /\ Ordered(R) /\ OnFrames(R) /\ AtRest(R)
  /\ UnderShelter(R)

LEMMA CutLast ==
  ASSUME NEW S, NEW s \in Seq(S), NEW n \in 0..Len(s), NEW t, t = SubSeq(s, 1, n)
  PROVE  t \in Seq(S) /\ Len(t) = n /\ \A i \in 1..n : t[i] = s[i]
<1>1. n \in Int /\ \A i \in 1..n : s[i] \in S
  BY ElementOfSeq, LenProperties
<1>2. /\ t \in Seq(S)
      /\ Len(t) = IF 1 <= n THEN n - 1 + 1 ELSE 0
      /\ \A i \in 1..(n - 1 + 1) : t[i] = s[1 + i - 1]
  BY <1>1, SubSeqProperties
<1> QED
  BY <1>1, <1>2

LEMMA RegionFacts ==
  \A r \in Regions :
    /\ r.f \in Frames /\ r.kind \in Kinds /\ r.back \in MaybeFrame
    /\ r.start \in Nat /\ r.start <= MaxSaves /\ r.scope \in Nat
    /\ Parked(r) \in {0, 3} /\ ScopeOf(r) \in Nat /\ r.scope <= ScopeOf(r)
<1> SUFFICES ASSUME NEW r \in Regions
             PROVE  /\ r.f \in Frames /\ r.kind \in Kinds /\ r.back \in MaybeFrame
                    /\ r.start \in Nat /\ r.start <= MaxSaves /\ r.scope \in Nat
                    /\ Parked(r) \in {0, 3} /\ ScopeOf(r) \in Nat /\ r.scope <= ScopeOf(r)
  OBVIOUS
<1>1. /\ r.f \in Frames /\ r.kind \in Kinds /\ r.back \in MaybeFrame
      /\ r.start \in 0..MaxSaves /\ r.scope \in Nat
  BY DEF Regions
<1> QED
  BY <1>1, FrameAssumption DEF Parked, ScopeOf

LEMMA ChainBelow ==
  ASSUME NEW R \in Seq(Regions), NEW B \in Seq(Regions), Chain(R),
         Len(B) <= Len(R), \A i \in 1..Len(B) : B[i] = R[i]
  PROVE  Chain(B)
<1>1. Len(B) \in Nat /\ Len(R) \in Nat
  BY LenProperties
<1>2. \A i \in 1..Len(B) : i \in 1..Len(R) /\ B[i] = R[i] /\ (i > 1 => B[i-1] = R[i-1])
  BY <1>1
<1>3. Armed(B)
  <2> SUFFICES ASSUME NEW i \in 1..Len(B)
               PROVE  /\ JbOf(B[i], i) \in 1..i
                      /\ B[JbOf(B[i], i)].kind # "scope"
                      /\ \A k \in 1..Len(B) : JbOf(B[i], i) < k /\ k <= i => B[k].kind = "scope"
    BY DEF Armed
  <2> DEFINE t == JbOf(R[i], i)
  <2>1. /\ t \in 1..i /\ R[t].kind # "scope"
        /\ \A k \in 1..Len(R) : t < k /\ k <= i => R[k].kind = "scope"
    BY <1>2 DEF Chain, Armed
  <2>2. JbOf(B[i], i) = t
    BY <1>2
  <2> HIDE DEF t
  <2>3. t \in 1..Len(B)
    BY <1>1, <2>1
  <2> QED
    BY <1>1, <1>2, <2>1, <2>2, <2>3
<1>4. Adjacent(B)
  BY <1>1, <1>2 DEF Chain, Adjacent
<1>5. Ordered(B)
  BY <1>1, <1>2 DEF Chain, Ordered
<1>6. OnFrames(B)
  <2> SUFFICES ASSUME NEW i \in 1..Len(B)
               PROVE  /\ B[i].kind \in Nested =>
                           /\ i > 1 /\ B[i].f = B[i-1].f
                           /\ B[i].jb0 = JbOf(B[i-1], i-1)
                           /\ B[i].prev0 = PrevOf(B[i-1])
                           /\ B[i].base0 = BaseOf(B[i-1])
                      /\ B[i].kind \notin Nested =>
                           /\ \A k \in 1..Len(B) : k < i => B[k].f # B[i].f
                           /\ B[i].jb0 = 0 /\ B[i].prev0 = NoFrame /\ B[i].base0 = 0
    BY DEF OnFrames
  <2> QED
    BY SMTT(30), <1>1, <1>2 DEF Chain, OnFrames
<1>7. AtRest(B)
  <2> SUFFICES ASSUME NEW i \in 1..Len(B),
                      \A k \in 1..Len(B) : 1 < k /\ k <= i => B[k].kind = "scope"
               PROVE  BaseOf(B[i]) = 0 /\ PrevOf(B[i]) = NoFrame /\ B[i].f = B[1].f
    BY DEF AtRest
  <2>1. \A k \in 1..Len(R) : 1 < k /\ k <= i => R[k].kind = "scope"
    BY <1>1, <1>2
  <2>2. BaseOf(R[i]) = 0 /\ PrevOf(R[i]) = NoFrame /\ R[i].f = R[1].f
    BY <1>2, <2>1 DEF Chain, AtRest
  <2> QED
    BY <1>1, <1>2, <2>2
<1>8. UnderShelter(B)
  <2> SUFFICES ASSUME NEW i \in 1..Len(B), B[i].kind \in {"xsub", "bare", "direct", "pp"},
                      B[i].scope # 0
               PROVE  \E k \in 1..Len(B) : k < i /\ B[k].kind \in Levels
    BY DEF UnderShelter
  <2>1. PICK k \in 1..Len(R) : k < i /\ R[k].kind \in Levels
    BY <1>2 DEF Chain, UnderShelter
  <2> QED
    BY SMTT(30), <1>1, <1>2, <2>1
<1> QED
  BY <1>3, <1>4, <1>5, <1>6, <1>7, <1>8 DEF Chain

\* How a region r finds the regions R when it is opened.
Begun(R, r) ==
  /\ r.kind # "bare"
  /\ R = << >> =>
       r.kind \notin Nested /\ r.back = NoFrame /\ r.start = 0 /\ r.scope = 0
  /\ R # << >> =>
       LET top == R[Len(R)] IN
       /\ top.kind # "bare"
       /\ r.back = top.f
       /\ r.scope = ScopeOf(top)
       /\ top.kind \in {"hook", "keyword", "try"} => r.start = top.start
       /\ r.kind \in Nested =>
            /\ r.f = top.f
            /\ r.jb0 = JbOf(top, Len(R))
            /\ r.prev0 = PrevOf(top)
            /\ r.base0 = BaseOf(top)
  /\ r.kind \notin Nested =>
       /\ \A k \in 1..Len(R) : R[k].f # r.f
       /\ r.jb0 = 0 /\ r.prev0 = NoFrame /\ r.base0 = 0
  /\ \A k \in 1..Len(R) : R[k].start + Parked(R[k]) <= r.start
  /\ r.kind \in {"xsub", "direct", "pp"} =>
       r.scope = 0 \/ \E k \in 1..Len(R) : R[k].kind \in Levels

LEMMA ChainAppend ==
  ASSUME NEW R \in Seq(Regions), Chain(R), NEW r \in Regions, Begun(R, r),
         NEW A \in Seq(Regions), Len(A) = Len(R) + 1, A[Len(R) + 1] = r,
         \A i \in 1..Len(R) : A[i] = R[i]
  PROVE  Chain(A)
<1> DEFINE n == Len(R)
<1>1. /\ n \in Nat /\ Len(A) = n + 1 /\ A[n + 1] = r
      /\ \A i \in 1..n : A[i] = R[i] /\ R[i] \in Regions
      /\ R = << >> <=> n = 0
  BY LenProperties, ElementOfSeq, EmptySeq
<1>2. n > 0 =>
        /\ R[n].kind # "bare"
        /\ r.back = R[n].f
        /\ r.scope = ScopeOf(R[n])
        /\ R[n].kind \in {"hook", "keyword", "try"} => r.start = R[n].start
        /\ r.kind \in Nested => /\ r.f = R[n].f /\ r.jb0 = JbOf(R[n], n)
                                /\ r.prev0 = PrevOf(R[n]) /\ r.base0 = BaseOf(R[n])
  BY <1>1 DEF Begun
<1>3. n = 0 => r.kind \notin Nested /\ r.back = NoFrame /\ r.start = 0 /\ r.scope = 0
  BY <1>1 DEF Begun
<1> HIDE DEF n
<1>4. \A i \in 1..Len(A) :
        \/ /\ i \in 1..n /\ i # n + 1 /\ A[i] = R[i]
           /\ i > 1 => i - 1 \in 1..n /\ A[i-1] = R[i-1]
        \/ /\ i = n + 1 /\ A[i] = r
           /\ i > 1 => n > 0 /\ n \in 1..n /\ i - 1 = n /\ A[i-1] = R[n]
  BY <1>1
<1>5. Armed(A)
  <2> SUFFICES ASSUME NEW i \in 1..Len(A)
               PROVE  /\ JbOf(A[i], i) \in 1..i
                      /\ A[JbOf(A[i], i)].kind # "scope"
                      /\ \A k \in 1..Len(A) : JbOf(A[i], i) < k /\ k <= i => A[k].kind = "scope"
    BY DEF Armed
  <2>1. CASE i \in 1..n
    <3> DEFINE t == JbOf(R[i], i)
    <3>1. /\ t \in 1..i /\ R[t].kind # "scope"
          /\ \A k \in 1..n : t < k /\ k <= i => R[k].kind = "scope"
      BY <2>1 DEF Chain, Armed, n
    <3>2. JbOf(A[i], i) = t
      BY <1>1, <2>1
    <3> HIDE DEF t
    <3> QED
      BY <1>1, <2>1, <3>1, <3>2
  <2>2. CASE i = n + 1 /\ r.kind # "scope"
    <3>1. JbOf(A[i], i) = n + 1
      BY <1>1, <2>2 DEF JbOf
    <3> QED
      BY <1>1, <2>2, <3>1
  <2>3. CASE i = n + 1 /\ r.kind = "scope"
    <3> DEFINE t == JbOf(R[n], n)
    <3>1. n > 0 /\ JbOf(A[i], i) = t
      BY <1>1, <1>2, <1>3, <2>3 DEF JbOf, Nested
    <3>2. /\ t \in 1..n /\ R[t].kind # "scope"
          /\ \A k \in 1..n : t < k /\ k <= n => R[k].kind = "scope"
      BY <1>1, <3>1 DEF Chain, Armed, n
    <3> HIDE DEF t
    <3> QED
      BY <1>1, <2>3, <3>1, <3>2
  <2> QED
    BY <1>1, <1>4, <2>1, <2>2, <2>3
<1>6. Adjacent(A)
  <2> SUFFICES ASSUME NEW i \in 1..Len(A)
               PROVE  /\ i = 1 => A[i].back = NoFrame /\ A[i].start = 0 /\ A[i].scope = 0
                      /\ i > 1 => /\ A[i].back = A[i-1].f
                                  /\ A[i].scope = ScopeOf(A[i-1])
                                  /\ A[i-1].kind \in {"hook", "keyword", "try"}
                                       => A[i].start = A[i-1].start
                                  /\ A[i-1].kind # "bare"
    BY DEF Adjacent
  <2>1. CASE i \in 1..n
    BY <1>4, <2>1 DEF Chain, Adjacent, n
  <2>2. CASE i = n + 1
    BY <1>1, <1>2, <1>3, <1>4, <2>2
  <2> QED
    BY <1>1, <2>1, <2>2
<1>7. Ordered(A)
  <2>1. \A k \in 1..n : R[k].start + Parked(R[k]) <= r.start
    BY DEF Begun, n
  <2>2. \A k \in 1..n : ScopeOf(R[k]) <= r.scope
    <3> SUFFICES ASSUME NEW k \in 1..n
                 PROVE  ScopeOf(R[k]) <= r.scope
      OBVIOUS
    <3>1. r.scope = ScopeOf(R[n]) /\ n \in 1..n /\ n > 0
      BY <1>1, <1>2
    <3>2. k < n => ScopeOf(R[k]) <= R[n].scope
      BY <3>1 DEF Chain, Ordered, n
    <3>3. /\ R[n].scope \in Nat /\ ScopeOf(R[n]) \in Nat /\ ScopeOf(R[k]) \in Nat
          /\ R[n].scope <= ScopeOf(R[n])
      BY <1>1, <3>1, RegionFacts
    <3> QED
      BY <1>1, <3>1, <3>2, <3>3
  <2> QED
    <3> SUFFICES ASSUME NEW i \in 1..Len(A), NEW k \in 1..Len(A), k < i
                 PROVE  /\ A[k].start + Parked(A[k]) <= A[i].start
                        /\ ScopeOf(A[k]) <= A[i].scope
      BY DEF Ordered
    <3>1. k \in 1..n /\ A[k] = R[k] /\ (i = n + 1 \/ i \in 1..n)
      BY <1>1
    <3>2. CASE i = n + 1
      BY <1>1, <2>1, <2>2, <3>1, <3>2
    <3>3. CASE i \in 1..n
      BY <1>1, <3>1, <3>3 DEF Chain, Ordered, n
    <3> QED
      BY <3>1, <3>2, <3>3
<1>8. OnFrames(A)
  <2> SUFFICES ASSUME NEW i \in 1..Len(A)
               PROVE  /\ A[i].kind \in Nested =>
                           /\ i > 1 /\ A[i].f = A[i-1].f
                           /\ A[i].jb0 = JbOf(A[i-1], i-1)
                           /\ A[i].prev0 = PrevOf(A[i-1])
                           /\ A[i].base0 = BaseOf(A[i-1])
                      /\ A[i].kind \notin Nested =>
                           /\ \A k \in 1..Len(A) : k < i => A[k].f # A[i].f
                           /\ A[i].jb0 = 0 /\ A[i].prev0 = NoFrame /\ A[i].base0 = 0
    BY DEF OnFrames
  <2>1. CASE i \in 1..n
    <3>1. /\ R[i].kind \in Nested =>
               /\ i > 1 /\ R[i].f = R[i-1].f
               /\ R[i].jb0 = JbOf(R[i-1], i-1)
               /\ R[i].prev0 = PrevOf(R[i-1])
               /\ R[i].base0 = BaseOf(R[i-1])
          /\ R[i].kind \notin Nested =>
               /\ \A k \in 1..n : k < i => R[k].f # R[i].f
               /\ R[i].jb0 = 0 /\ R[i].prev0 = NoFrame /\ R[i].base0 = 0
      BY <2>1 DEF Chain, OnFrames, n
    <3>2. A[i] = R[i] /\ (i > 1 => A[i-1] = R[i-1])
      BY <1>1, <1>4, <2>1
    <3>3. \A k \in 1..Len(A) : k < i => k \in 1..n /\ A[k] = R[k]
      BY <1>1, <2>1
    <3> QED
      BY <3>1, <3>2, <3>3
  <2>2. CASE i = n + 1 /\ r.kind \in Nested
    BY <1>1, <1>2, <1>3, <1>4, <2>2
  <2>3. CASE i = n + 1 /\ r.kind \notin Nested
    <3>1. /\ \A k \in 1..n : R[k].f # r.f
          /\ r.jb0 = 0 /\ r.prev0 = NoFrame /\ r.base0 = 0
      BY <2>3 DEF Begun, n
    <3> QED
      BY <1>1, <1>4, <2>3, <3>1
  <2> QED
    BY <1>1, <2>1, <2>2, <2>3
<1>9. AtRest(A)
  <2> SUFFICES ASSUME NEW i \in 1..Len(A),
                      \A k \in 1..Len(A) : 1 < k /\ k <= i => A[k].kind = "scope"
               PROVE  BaseOf(A[i]) = 0 /\ PrevOf(A[i]) = NoFrame /\ A[i].f = A[1].f
    BY DEF AtRest
  <2>1. CASE i \in 1..n
    <3>1. \A k \in 1..n : 1 < k /\ k <= i => R[k].kind = "scope"
      BY <1>1, <2>1
    <3> QED
      BY <1>1, <2>1, <3>1 DEF Chain, AtRest, n
  <2>2. CASE i = n + 1 /\ n > 0
    <3>1. r.kind = "scope" /\ \A k \in 1..n : 1 < k /\ k <= n => R[k].kind = "scope"
      BY <1>1, <2>2
    <3>2. BaseOf(R[n]) = 0 /\ PrevOf(R[n]) = NoFrame /\ R[n].f = R[1].f
      BY <1>1, <2>2, <3>1 DEF Chain, AtRest, n
    <3>3. r.f = R[n].f /\ r.prev0 = PrevOf(R[n]) /\ r.base0 = BaseOf(R[n])
      BY <1>2, <2>2, <3>1 DEF Nested
    <3> QED
      BY <1>1, <2>2, <3>1, <3>2, <3>3 DEF BaseOf, PrevOf, Keeping
  <2>3. CASE i = 1 /\ n = 0
    <3>1. r.prev0 = NoFrame /\ r.base0 = 0 /\ r.back = NoFrame /\ r.start = 0
      BY <1>3, <2>3 DEF Begun
    <3> QED
      BY <1>1, <2>3, <3>1 DEF BaseOf, PrevOf
  <2> QED
    BY <1>1, <2>1, <2>2, <2>3
<1>10. UnderShelter(A)
  <2> SUFFICES ASSUME NEW i \in 1..Len(A), A[i].kind \in {"xsub", "bare", "direct", "pp"},
                      A[i].scope # 0
               PROVE  \E k \in 1..Len(A) : k < i /\ A[k].kind \in Levels
    BY DEF UnderShelter
  <2>1. CASE i \in 1..n
    <3>1. PICK k \in 1..n : k < i /\ R[k].kind \in Levels
      BY <1>4, <2>1 DEF Chain, UnderShelter, n
    <3> QED
      BY <1>1, <3>1
  <2>2. CASE i = n + 1
    <3>1. r.kind \in {"xsub", "direct", "pp"} /\ r.scope # 0
      BY <1>1, <2>2 DEF Begun
    <3>2. PICK k \in 1..n : R[k].kind \in Levels
      BY <3>1 DEF Begun, n
    <3> QED
      BY <1>1, <2>2, <3>2
  <2> QED
    BY <1>1, <2>1, <2>2
<1> QED
  BY <1>5, <1>6, <1>7, <1>8, <1>9, <1>10 DEF Chain

LEMMA ChainBare ==
  ASSUME NEW R \in Seq(Regions), R # << >>, Chain(R), R[Len(R)].kind = "xsub",
         NEW A \in Seq(Regions), Len(A) = Len(R),
         A[Len(R)] = [R[Len(R)] EXCEPT !.kind = "bare"],
         \A i \in 1..Len(R) : i < Len(R) => A[i] = R[i]
  PROVE  Chain(A)
<1> DEFINE n == Len(R)
<1>1. /\ n \in Nat \ {0} /\ n \in 1..n /\ Len(A) = n
      /\ \A i \in 1..n : R[i] \in Regions /\ A[i] \in Regions
  BY LenProperties, ElementOfSeq, EmptySeq
<1>2. /\ R[n].kind = "xsub" /\ A[n].kind = "bare"
      /\ A[n].f = R[n].f /\ A[n].back = R[n].back /\ A[n].jb0 = R[n].jb0
      /\ A[n].prev0 = R[n].prev0 /\ A[n].base0 = R[n].base0 /\ A[n].start = R[n].start
      /\ A[n].scope = R[n].scope
  BY <1>1 DEF Regions
<1> HIDE DEF n
<1>3. \A i \in 1..n : i # n => A[i] = R[i]
  BY <1>1 DEF n
<1>4. \A i \in 1..n :
        /\ A[i].f = R[i].f /\ A[i].back = R[i].back /\ A[i].jb0 = R[i].jb0
        /\ A[i].prev0 = R[i].prev0 /\ A[i].base0 = R[i].base0 /\ A[i].start = R[i].start
        /\ A[i].scope = R[i].scope
        /\ (A[i].kind \in Nested <=> R[i].kind \in Nested)
        /\ (A[i].kind \in Levels <=> R[i].kind \in Levels)
        /\ (A[i].kind = "scope" <=> R[i].kind = "scope")
        /\ (A[i].kind \in {"xsub", "bare", "direct", "pp"}
             <=> R[i].kind \in {"xsub", "bare", "direct", "pp"})
        /\ (A[i].kind \in {"hook", "keyword", "try"} <=> R[i].kind \in {"hook", "keyword", "try"})
        /\ JbOf(A[i], i) = JbOf(R[i], i) /\ PrevOf(A[i]) = PrevOf(R[i])
        /\ BaseOf(A[i]) = BaseOf(R[i]) /\ Parked(A[i]) = Parked(R[i])
        /\ ScopeOf(A[i]) = ScopeOf(R[i])
  <2> SUFFICES ASSUME NEW i \in 1..n
               PROVE  i = n => /\ (A[i].kind \in Nested <=> R[i].kind \in Nested)
                               /\ (A[i].kind \in Levels <=> R[i].kind \in Levels)
                               /\ JbOf(A[i], i) = JbOf(R[i], i) /\ PrevOf(A[i]) = PrevOf(R[i])
                               /\ BaseOf(A[i]) = BaseOf(R[i]) /\ Parked(A[i]) = Parked(R[i])
                               /\ ScopeOf(A[i]) = ScopeOf(R[i])
    BY <1>2, <1>3
  <2> QED
    BY <1>2 DEF Nested, Levels, Counted, JbOf, PrevOf, BaseOf, Parked, Parking, Keeping, ScopeOf
<1>5. \A i \in 1..n : i > 1 => i - 1 \in 1..n /\ i - 1 # n
  BY <1>1
<1>6. Armed(A)
  <2> SUFFICES ASSUME NEW i \in 1..n
               PROVE  /\ JbOf(A[i], i) \in 1..i
                      /\ A[JbOf(A[i], i)].kind # "scope"
                      /\ \A k \in 1..n : JbOf(A[i], i) < k /\ k <= i => A[k].kind = "scope"
    BY <1>1 DEF Armed
  <2>1. /\ JbOf(R[i], i) \in 1..i
        /\ R[JbOf(R[i], i)].kind # "scope"
        /\ \A k \in 1..n : JbOf(R[i], i) < k /\ k <= i => R[k].kind = "scope"
    BY DEF Chain, Armed, n
  <2>2. JbOf(R[i], i) \in 1..n
    BY <1>1, <2>1
  <2> QED
    BY <1>4, <2>1, <2>2
<1>7. Adjacent(A)
  <2> SUFFICES ASSUME NEW i \in 1..n
               PROVE  /\ i = 1 => A[i].back = NoFrame /\ A[i].start = 0 /\ A[i].scope = 0
                      /\ i > 1 => /\ A[i].back = A[i-1].f
                                  /\ A[i].scope = ScopeOf(A[i-1])
                                  /\ A[i-1].kind \in {"hook", "keyword", "try"}
                                       => A[i].start = A[i-1].start
                                  /\ A[i-1].kind # "bare"
    BY <1>1 DEF Adjacent
  <2>1. /\ i = 1 => R[i].back = NoFrame /\ R[i].start = 0 /\ R[i].scope = 0
        /\ i > 1 => /\ R[i].back = R[i-1].f
                    /\ R[i].scope = ScopeOf(R[i-1])
                    /\ R[i-1].kind \in {"hook", "keyword", "try"} => R[i].start = R[i-1].start
                    /\ R[i-1].kind # "bare"
    BY DEF Chain, Adjacent, n
  <2> QED
    BY <1>3, <1>4, <1>5, <2>1
<1>8. Ordered(A)
  BY <1>1, <1>4 DEF Chain, Ordered, n
<1>9. OnFrames(A)
  <2> SUFFICES ASSUME NEW i \in 1..n
               PROVE  /\ A[i].kind \in Nested =>
                           /\ i > 1 /\ A[i].f = A[i-1].f
                           /\ A[i].jb0 = JbOf(A[i-1], i-1)
                           /\ A[i].prev0 = PrevOf(A[i-1])
                           /\ A[i].base0 = BaseOf(A[i-1])
                      /\ A[i].kind \notin Nested =>
                           /\ \A k \in 1..n : k < i => A[k].f # A[i].f
                           /\ A[i].jb0 = 0 /\ A[i].prev0 = NoFrame /\ A[i].base0 = 0
    BY <1>1 DEF OnFrames
  <2>1. /\ R[i].kind \in Nested =>
             /\ i > 1 /\ R[i].f = R[i-1].f
             /\ R[i].jb0 = JbOf(R[i-1], i-1)
             /\ R[i].prev0 = PrevOf(R[i-1])
             /\ R[i].base0 = BaseOf(R[i-1])
        /\ R[i].kind \notin Nested =>
             /\ \A k \in 1..n : k < i => R[k].f # R[i].f
             /\ R[i].jb0 = 0 /\ R[i].prev0 = NoFrame /\ R[i].base0 = 0
    BY DEF Chain, OnFrames, n
  <2>2. i > 1 => A[i-1] = R[i-1]
    BY <1>3, <1>5
  <2> QED
    BY <1>4, <2>1, <2>2
<1>10. AtRest(A)
  <2> SUFFICES ASSUME NEW i \in 1..n,
                      \A k \in 1..n : 1 < k /\ k <= i => A[k].kind = "scope"
               PROVE  BaseOf(A[i]) = 0 /\ PrevOf(A[i]) = NoFrame /\ A[i].f = A[1].f
    BY <1>1 DEF AtRest
  <2>1. BaseOf(R[i]) = 0 /\ PrevOf(R[i]) = NoFrame /\ R[i].f = R[1].f
    BY <1>1, <1>4 DEF Chain, AtRest, n
  <2> QED
    BY <1>1, <1>4, <2>1
<1>11. UnderShelter(A)
  <2> SUFFICES ASSUME NEW i \in 1..n, A[i].kind \in {"xsub", "bare", "direct", "pp"},
                      A[i].scope # 0
               PROVE  \E k \in 1..n : k < i /\ A[k].kind \in Levels
    BY <1>1 DEF UnderShelter
  <2>1. PICK k \in 1..n : k < i /\ R[k].kind \in Levels
    BY <1>4 DEF Chain, UnderShelter, n
  <2> QED
    BY <1>4, <2>1
<1> QED
  BY <1>6, <1>7, <1>8, <1>9, <1>10, <1>11 DEF Chain

-------------------------------------------------------------------------------
(* The invariant.                                                          *)

Types ==
  /\ cur \in MaybeFrame
  /\ DOMAIN mem = Slots
  /\ \A g \in Frames : /\ mem[Jb(g)] \in 0..MaxRegions /\ mem[Prev(g)] \in MaybeFrame
                       /\ mem[Base(g)] \in 0..MaxSaves
  /\ \A x \in Locs : mem[Var(x)] \in Values
  /\ regions \in Seq(Regions) /\ Len(regions) <= MaxRegions
  /\ saves \in Seq(Entries) /\ Len(saves) <= MaxSaves
  /\ depth \in Nat /\ scope \in Nat /\ aborted \in BOOLEAN

\* The globals agree with the region on top.
Deep(R) == {i \in 1..Len(R) : R[i].kind \in Levels}
Globals ==
  /\ ~aborted => cur = IF regions = << >> THEN NoFrame ELSE Top.f
  /\ scope = IF regions = << >> THEN 0 ELSE ScopeOf(Top)
  /\ depth = Cardinality(Deep(regions))
  /\ regions = << >> => saves = << >>
  /\ regions # << >> /\ Top.kind \in {"hook", "keyword", "try"} => Len(saves) = Top.start

\* A frame holds the fields of the last region on it; without regions it is zeroed.
HeldBy(r, i) ==
  /\ mem[Jb(r.f)] = JbOf(r, i) /\ mem[Prev(r.f)] = PrevOf(r) /\ mem[Base(r.f)] = BaseOf(r)
FieldsHeld ==
  /\ \A i \in 1..Len(regions) :
       (\A k \in 1..Len(regions) : i < k => regions[k].f # regions[i].f)
          => HeldBy(regions[i], i)
  /\ \A g \in Frames :
       (\A i \in 1..Len(regions) : regions[i].f # g)
          => mem[Jb(g)] = 0 /\ mem[Prev(g)] = NoFrame /\ mem[Base(g)] = 0

\* What a region has parked is on the save stack, with the values that it found, and
\* nothing else there is an address in a frame.
ParkedBy(i, p) ==
  Parked(regions[i]) = 3 /\ regions[i].start < p /\ p <= regions[i].start + 3
FieldsParked ==
  /\ \A i \in 1..Len(regions) :
       /\ regions[i].start + Parked(regions[i]) <= Len(saves)
       /\ Parked(regions[i]) = 3 =>
            LET r == regions[i] IN
            /\ saves[r.start + 1].loc = Base(r.f) /\ saves[r.start + 1].val = r.base0
            /\ saves[r.start + 2].loc = Prev(r.f) /\ saves[r.start + 2].val = r.prev0
            /\ saves[r.start + 3].loc = Jb(r.f)   /\ saves[r.start + 3].val = r.jb0
  /\ \A p \in 1..Len(saves) :
       \/ saves[p].val \in Values /\ \E x \in Locs : saves[p].loc = Var(x)
       \/ \E i \in 1..Len(regions) : ParkedBy(i, p)

\* The entries above the start of a region are those made in its scope or deeper.
Tagged ==
  \A p \in 1..Len(saves) :
    /\ saves[p].scope <= scope
    /\ \A j \in 1..Len(regions) :
         IF p <= regions[j].start THEN saves[p].scope <= regions[j].scope
         ELSE saves[p].scope >= ScopeOf(regions[j])

Inv ==
  /\ Types /\ Chain(regions) /\ Globals /\ FieldsHeld /\ FieldsParked /\ Tagged

-------------------------------------------------------------------------------
(* What the actions that open a region do, in terms of the region r.       *)

Opened(r) ==
  /\ r \in Regions /\ Begun(regions, r) /\ Len(regions) < MaxRegions
  /\ ~aborted /\ aborted' = FALSE
  /\ r.start = Len(saves)
  /\ regions = << >> => r.scope = 0
  /\ regions' = Append(regions, r)
  /\ cur' = r.f
  /\ scope' = ScopeOf(r)
  /\ depth' = IF r.kind \in Counted THEN depth + 1 ELSE depth
  /\ DOMAIN mem' = Slots
  /\ \A x \in Locs : mem'[Var(x)] = mem[Var(x)]
  /\ \A g \in Frames : g # r.f =>
       mem'[Jb(g)] = mem[Jb(g)] /\ mem'[Prev(g)] = mem[Prev(g)] /\ mem'[Base(g)] = mem[Base(g)]
  /\ mem'[Jb(r.f)] = JbOf(r, Len(regions) + 1)
  /\ mem'[Prev(r.f)] = PrevOf(r) /\ mem'[Base(r.f)] = BaseOf(r)
  /\ saves' \in Seq(Entries) /\ Len(saves') = Len(saves) + Parked(r) /\ Len(saves') <= MaxSaves
  /\ \A p \in 1..Len(saves) : saves'[p] = saves[p]
  /\ Parked(r) = 3 =>
       /\ saves'[r.start + 1].loc = Base(r.f) /\ saves'[r.start + 1].val = r.base0
       /\ saves'[r.start + 2].loc = Prev(r.f) /\ saves'[r.start + 2].val = r.prev0
       /\ saves'[r.start + 3].loc = Jb(r.f)   /\ saves'[r.start + 3].val = r.jb0
       /\ \A p \in 1..Len(saves') : p > Len(saves) => saves'[p].scope = scope

\* The regions after an opening.
LEMMA OpenedRegions ==
  ASSUME Types, NEW r, Opened(r), NEW n, n = Len(regions)
  PROVE  /\ n \in Nat /\ n < MaxRegions /\ MaxRegions \in Nat /\ MaxSaves \in Nat
         /\ regions' \in Seq(Regions) /\ Len(regions') = n + 1 /\ regions'[n + 1] = r
         /\ \A i \in 1..n : regions'[i] = regions[i] /\ regions[i] \in Regions
         /\ (n = 0 <=> regions = << >>) /\ regions' # << >>
         /\ r \in Regions
<1>1. r \in Regions /\ regions' = Append(regions, r) /\ regions \in Seq(Regions)
  BY DEF Opened, Types
<1>2. n \in Nat /\ n < MaxRegions /\ (n = 0 <=> regions = << >>)
  BY EmptySeq, LenProperties DEF Types, Opened
<1>3. \A i \in 1..n : regions[i] \in Regions
  BY <1>1, ElementOfSeq
<1> QED
  BY <1>1, <1>2, <1>3, AppendProperties, FrameAssumption

LEMMA JbOfTyped ==
  ASSUME NEW r \in Regions, NEW i \in 1..MaxRegions
  PROVE  /\ JbOf(r, i) \in 0..MaxRegions /\ PrevOf(r) \in MaybeFrame
         /\ BaseOf(r) \in 0..MaxSaves /\ Parked(r) \in {0, 3} /\ ScopeOf(r) \in Nat
BY FrameAssumption DEF JbOf, PrevOf, BaseOf, Parked, ScopeOf, Regions, MaybeFrame

LEMMA OpenedTypes ==
  ASSUME Types, NEW r, Opened(r)
  PROVE  Types'
<1> DEFINE n == Len(regions)
<1>1. /\ n \in Nat /\ n < MaxRegions /\ MaxRegions \in Nat
      /\ regions' \in Seq(Regions) /\ Len(regions') = n + 1 /\ r \in Regions
  BY OpenedRegions
<1>2. /\ JbOf(r, n + 1) \in 0..MaxRegions /\ PrevOf(r) \in MaybeFrame
      /\ BaseOf(r) \in 0..MaxSaves /\ ScopeOf(r) \in Nat
  BY <1>1, JbOfTyped
<1>3. r.f \in Frames
  BY <1>1 DEF Regions
<1> HIDE DEF n
<1>4. cur' \in MaybeFrame /\ DOMAIN mem' = Slots
  BY <1>3 DEF Opened, MaybeFrame
<1>5. \A g \in Frames : /\ mem'[Jb(g)] \in 0..MaxRegions /\ mem'[Prev(g)] \in MaybeFrame
                        /\ mem'[Base(g)] \in 0..MaxSaves
  <2> SUFFICES ASSUME NEW g \in Frames
               PROVE  /\ mem'[Jb(g)] \in 0..MaxRegions /\ mem'[Prev(g)] \in MaybeFrame
                      /\ mem'[Base(g)] \in 0..MaxSaves
    OBVIOUS
  <2>1. CASE g = r.f
    BY <1>2, <2>1 DEF Opened, n
  <2>2. CASE g # r.f
    BY <2>2 DEF Opened, Types
  <2> QED
    BY <2>1, <2>2
<1>6. \A x \in Locs : mem'[Var(x)] \in Values
  BY DEF Opened, Types
<1>7. saves' \in Seq(Entries) /\ Len(saves') <= MaxSaves
  BY DEF Opened
<1>8. depth' \in Nat /\ scope' \in Nat /\ aborted' \in BOOLEAN
  <2>1. depth \in Nat /\ depth' = IF r.kind \in Counted THEN depth + 1 ELSE depth
    BY DEF Opened, Types
  <2>2. aborted' \in BOOLEAN /\ scope' \in Nat
    BY <1>2 DEF Opened
  <2>3. depth' \in Nat
    BY <2>1
  <2> QED
    BY <2>2, <2>3
<1> QED
  BY <1>1, <1>4, <1>5, <1>6, <1>7, <1>8 DEF Types

LEMMA OpenedChain ==
  ASSUME Types, Chain(regions), NEW r, Opened(r)
  PROVE  Chain(regions')
<1> DEFINE n == Len(regions)
           A == regions'
<1>1. /\ A \in Seq(Regions) /\ Len(A) = Len(regions) + 1 /\ A[Len(regions) + 1] = r
      /\ \A i \in 1..Len(regions) : A[i] = regions[i]
      /\ r \in Regions
  BY OpenedRegions
<1>2. regions \in Seq(Regions) /\ Begun(regions, r)
  BY DEF Types, Opened
<1> HIDE DEF A
<1>3. Chain(A)
  BY <1>1, <1>2, ChainAppend
<1> QED
  BY <1>3 DEF A

\* One more region, one more level.
LEMMA OneMore ==
  ASSUME NEW R \in Seq(Regions), NEW A \in Seq(Regions), Len(A) = Len(R) + 1,
         \A i \in 1..Len(R) : A[i] = R[i]
  PROVE  /\ IsFiniteSet(Deep(R)) /\ Cardinality(Deep(R)) \in Nat
         /\ Cardinality(Deep(A))
              = Cardinality(Deep(R)) + (IF A[Len(R) + 1].kind \in Levels THEN 1 ELSE 0)
<1> DEFINE n == Len(R)
<1>1. n \in Nat /\ Len(A) = n + 1
  BY LenProperties
<1>2. IsFiniteSet(1..n)
  BY <1>1, FS_Interval
<1>3. IsFiniteSet(Deep(R)) /\ Cardinality(Deep(R)) \in Nat
  BY <1>2, FS_Subset, FS_CardinalityType DEF Deep
<1>4. n + 1 \notin Deep(R)
  BY <1>1 DEF Deep
<1>5. Deep(A) = IF A[n + 1].kind \in Levels THEN Deep(R) \cup {n + 1} ELSE Deep(R)
  <2>1. \A i \in 1..(n + 1) : i \in 1..n \/ i = n + 1
    BY <1>1
  <2>2. \A i \in 1..n : i \in 1..(n + 1) /\ A[i] = R[i]
    BY <1>1
  <2> QED
    BY <1>1, <2>1, <2>2 DEF Deep
<1>6. Cardinality(Deep(R) \cup {n + 1}) = Cardinality(Deep(R)) + 1
  BY <1>3, <1>4, FS_AddElement
<1> QED
  BY <1>3, <1>5, <1>6

LEMMA OpenedGlobals ==
  ASSUME Inv, NEW r, Opened(r)
  PROVE  Globals'
<1> DEFINE n == Len(regions)
           A == regions'
<1>1. /\ n \in Nat /\ A \in Seq(Regions) /\ Len(A) = n + 1 /\ A[n + 1] = r /\ A # << >>
      /\ \A i \in 1..n : A[i] = regions[i]
      /\ r \in Regions
  BY OpenedRegions DEF Inv
<1>2. Top' = r
  BY <1>1 DEF Top
<1>3. Cardinality(Deep(A)) = Cardinality(Deep(regions)) + (IF r.kind \in Levels THEN 1 ELSE 0)
  <2>1. regions \in Seq(Regions)
    BY DEF Inv, Types
  <2> HIDE DEF A
  <2> QED
    BY <1>1, <2>1, OneMore
<1>4. r.kind \in Levels <=> r.kind \in Counted
  BY DEF Opened, Begun, Levels
<1>5. depth' = Cardinality(Deep(A))
  <2>1. depth \in Nat /\ depth = Cardinality(Deep(regions))
    BY DEF Inv, Types, Globals
  <2> QED
    BY <1>3, <1>4, <2>1 DEF Opened
<1>6. r.kind \in {"hook", "keyword", "try"} => Len(saves') = r.start
  <2>1. r.kind \in {"hook", "keyword", "try"} => Parked(r) = 0
    BY DEF Parked, Parking
  <2>2. Len(saves) \in Nat
    BY LenProperties DEF Inv, Types
  <2> QED
    BY <2>1, <2>2 DEF Opened
<1> QED
  BY <1>1, <1>2, <1>5, <1>6 DEF Globals, Opened

LEMMA OpenedFields ==
  ASSUME Inv, NEW r, Opened(r)
  PROVE  FieldsHeld'
<1> DEFINE n == Len(regions)
           A == regions'
<1>1. /\ n \in Nat /\ A \in Seq(Regions) /\ Len(A) = n + 1 /\ A[n + 1] = r
      /\ \A i \in 1..n : A[i] = regions[i] /\ regions[i] \in Regions
      /\ r \in Regions
  BY OpenedRegions DEF Inv
<1>2. r.f \in Frames /\ \A i \in 1..n : regions[i].f \in Frames
  BY <1>1 DEF Regions
<1> HIDE DEF n, A
<1>3. ASSUME NEW i \in 1..(n + 1), \A k \in 1..(n + 1) : i < k => A[k].f # A[i].f
      PROVE  /\ mem'[Jb(A[i].f)] = JbOf(A[i], i) /\ mem'[Prev(A[i].f)] = PrevOf(A[i])
             /\ mem'[Base(A[i].f)] = BaseOf(A[i])
  <2>1. CASE i = n + 1
    BY <1>1, <2>1 DEF Opened, n
  <2>2. CASE i \in 1..n
    <3>1. A[i] = regions[i] /\ regions[i].f # r.f
      BY <1>1, <1>3, <2>2
    <3>2. \A k \in 1..n : i < k => regions[k].f # regions[i].f
      BY <1>1, <1>3, <2>2
    <3>3. HeldBy(regions[i], i)
      BY <2>2, <3>2 DEF Inv, FieldsHeld, n
    <3> QED
      BY <1>2, <2>2, <3>1, <3>3 DEF HeldBy, Opened
  <2> QED
    BY <1>1, <2>1, <2>2
<1>4. ASSUME NEW g \in Frames, \A i \in 1..(n + 1) : A[i].f # g
      PROVE  mem'[Jb(g)] = 0 /\ mem'[Prev(g)] = NoFrame /\ mem'[Base(g)] = 0
  <2>1. g # r.f /\ \A i \in 1..n : regions[i].f # g
    BY <1>1, <1>4
  <2>2. mem[Jb(g)] = 0 /\ mem[Prev(g)] = NoFrame /\ mem[Base(g)] = 0
    BY <2>1 DEF Inv, FieldsHeld, n
  <2> QED
    BY <2>1, <2>2 DEF Opened
<1> QED
  BY <1>1, <1>3, <1>4 DEF FieldsHeld, HeldBy, A

LEMMA OpenedParked ==
  ASSUME Inv, NEW r, Opened(r)
  PROVE  FieldsParked'
<1> DEFINE n == Len(regions)
           A == regions'
           m == Len(saves)
<1>1. /\ n \in Nat /\ A \in Seq(Regions) /\ Len(A) = n + 1 /\ A[n + 1] = r
      /\ \A i \in 1..n : A[i] = regions[i] /\ regions[i] \in Regions
      /\ r \in Regions
  BY OpenedRegions DEF Inv
<1>2. /\ m \in Nat /\ r.start = m /\ Len(saves') = m + Parked(r)
      /\ \A p \in 1..m : saves'[p] = saves[p]
  BY LenProperties DEF Opened, Inv, Types
<1>3. /\ Parked(r) \in {0, 3}
      /\ \A i \in 1..n : Parked(regions[i]) \in {0, 3} /\ regions[i].start \in Nat
  BY <1>1, RegionFacts
<1> HIDE DEF n, A, m
<1>4. ASSUME NEW i \in 1..(n + 1)
      PROVE  /\ A[i].start + Parked(A[i]) <= Len(saves')
             /\ Parked(A[i]) = 3 =>
                  /\ saves'[A[i].start + 1].loc = Base(A[i].f)
                  /\ saves'[A[i].start + 1].val = A[i].base0
                  /\ saves'[A[i].start + 2].loc = Prev(A[i].f)
                  /\ saves'[A[i].start + 2].val = A[i].prev0
                  /\ saves'[A[i].start + 3].loc = Jb(A[i].f)
                  /\ saves'[A[i].start + 3].val = A[i].jb0
  <2>1. CASE i = n + 1
    BY SMTT(30), <1>1, <1>2, <1>3, <2>1 DEF Opened
  <2>2. CASE i \in 1..n
    <3> DEFINE b == regions[i]
    <3>1. /\ b.start + Parked(b) <= m
          /\ Parked(b) = 3 =>
               /\ saves[b.start + 1].loc = Base(b.f) /\ saves[b.start + 1].val = b.base0
               /\ saves[b.start + 2].loc = Prev(b.f) /\ saves[b.start + 2].val = b.prev0
               /\ saves[b.start + 3].loc = Jb(b.f)   /\ saves[b.start + 3].val = b.jb0
      BY <2>2 DEF Inv, FieldsParked, n, m
    <3>2. A[i] = b /\ b.start \in Nat /\ Parked(b) \in {0, 3}
      BY <1>1, <1>3, <2>2
    <3> HIDE DEF b
    <3>3. Parked(b) = 3 => /\ b.start + 1 \in 1..m /\ b.start + 2 \in 1..m
                           /\ b.start + 3 \in 1..m
      BY <1>2, <3>1, <3>2
    <3> QED
      BY SMTT(30), <1>2, <1>3, <3>1, <3>2, <3>3
  <2> QED
    BY <1>1, <2>1, <2>2
<1>5. ASSUME NEW p \in 1..Len(saves')
      PROVE  \/ saves'[p].val \in Values /\ \E x \in Locs : saves'[p].loc = Var(x)
             \/ \E i \in 1..(n + 1) : /\ Parked(A[i]) = 3 /\ A[i].start < p
                                      /\ p <= A[i].start + 3
  <2>1. CASE p \in 1..m
    <3>1. \/ saves[p].val \in Values /\ \E x \in Locs : saves[p].loc = Var(x)
          \/ \E i \in 1..n : ParkedBy(i, p)
      BY <2>1 DEF Inv, FieldsParked, n, m
    <3> QED
      BY <1>1, <1>2, <2>1, <3>1 DEF ParkedBy
  <2>2. CASE p > m
    BY <1>1, <1>2, <1>3, <2>2
  <2> QED
    BY <1>2, <2>1, <2>2
<1> QED
  BY <1>1, <1>4, <1>5 DEF FieldsParked, ParkedBy, A

LEMMA OpenedTags ==
  ASSUME Inv, NEW r, Opened(r)
  PROVE  Tagged'
<1> DEFINE n == Len(regions)
           A == regions'
           m == Len(saves)
<1>1. /\ n \in Nat /\ A \in Seq(Regions) /\ Len(A) = n + 1 /\ A[n + 1] = r
      /\ \A i \in 1..n : A[i] = regions[i] /\ regions[i] \in Regions
      /\ r \in Regions /\ (n = 0 <=> regions = << >>)
  BY OpenedRegions DEF Inv
<1>2. /\ m \in Nat /\ r.start = m /\ Len(saves') = m + Parked(r)
      /\ \A p \in 1..m : saves'[p] = saves[p] /\ saves[p].scope \in Nat
  <2>1. \A p \in 1..m : saves[p] \in Entries
    BY ElementOfSeq DEF Inv, Types
  <2> QED
    BY <2>1, LenProperties DEF Opened, Inv, Types, Entries
<1>3. Parked(r) \in {0, 3} /\ \A p \in 1..Len(saves') : p > m => saves'[p].scope = scope
  BY <1>2 DEF Opened, Parked
<1>4. \A i \in 1..n : /\ regions[i].start \in Nat /\ regions[i].start <= m
                      /\ ScopeOf(regions[i]) \in Nat
  <2>1. \A i \in 1..n : regions[i].start + Parked(regions[i]) <= m
    BY DEF Inv, FieldsParked
  <2>2. \A i \in 1..n : /\ regions[i].start \in Nat /\ Parked(regions[i]) \in {0, 3}
                        /\ ScopeOf(regions[i]) \in Nat
    BY <1>1, RegionFacts
  <2> QED
    BY <1>2, <2>1, <2>2
<1>5. r.scope = scope /\ scope \in Nat /\ r.scope <= scope' /\ scope' = ScopeOf(r)
  <2>1. r.scope = scope
    BY <1>1 DEF Opened, Begun, Inv, Globals, Top
  <2> QED
    BY <1>1, <2>1, RegionFacts DEF Opened
<1>6. \A i \in 1..n : ScopeOf(regions[i]) <= scope
  <2>1. Chain(A)
    BY OpenedChain DEF Inv
  <2> HIDE DEF n, A
  <2>2. \A i \in 1..n : i \in 1..Len(A) /\ n + 1 \in 1..Len(A) /\ i < n + 1
    BY <1>1
  <2> QED
    BY <1>1, <1>5, <2>1, <2>2 DEF Chain, Ordered
<1> HIDE DEF n, A, m
<1>7. ASSUME NEW p \in 1..Len(saves')
      PROVE  /\ saves'[p].scope <= scope'
             /\ \A j \in 1..(n + 1) :
                  IF p <= A[j].start THEN saves'[p].scope <= A[j].scope
                  ELSE saves'[p].scope >= ScopeOf(A[j])
  <2>1. CASE p \in 1..m
    <3>1. /\ saves[p].scope <= scope
          /\ \A j \in 1..n : IF p <= regions[j].start THEN saves[p].scope <= regions[j].scope
                             ELSE saves[p].scope >= ScopeOf(regions[j])
      BY <2>1 DEF Inv, Tagged, n, m
    <3>2. p <= r.start /\ saves'[p] = saves[p] /\ saves[p].scope \in Nat
      BY <1>2, <2>1
    <3>3. saves'[p].scope <= scope'
      BY <1>1, <1>5, <3>1, <3>2, RegionFacts
    <3> QED
      BY <1>1, <1>5, <3>1, <3>2, <3>3
  <2>2. CASE p > m
    <3>1. saves'[p].scope = scope /\ p > r.start
      BY <1>2, <1>3, <2>2
    <3>2. r.kind # "scope"
      BY <1>2, <2>2 DEF Parked, Parking
    <3>3. ScopeOf(r) = scope
      BY <1>5, <3>2 DEF ScopeOf
    <3>4. \A j \in 1..n : ~(p <= regions[j].start)
      BY <1>2, <1>4, <2>2
    <3> QED
      BY <1>1, <1>4, <1>5, <1>6, <3>1, <3>3, <3>4
  <2> QED
    BY <1>2, <2>1, <2>2
<1> QED
  BY <1>1, <1>7 DEF Tagged, A

LEMMA OpenedInv ==
  ASSUME Inv, NEW r, Opened(r)
  PROVE  Inv'
BY OpenedTypes, OpenedChain, OpenedGlobals, OpenedFields, OpenedParked, OpenedTags DEF Inv

-------------------------------------------------------------------------------
(* The actions that open a region.                                         *)

LEMMA Levelled ==
  ASSUME Inv
  PROVE  /\ IsFiniteSet(Deep(regions)) /\ depth = Cardinality(Deep(regions))
         /\ depth > 0 <=> \E k \in 1..Len(regions) : regions[k].kind \in Levels
<1>1. /\ Len(regions) \in Nat /\ depth = Cardinality(Deep(regions)) /\ depth \in Nat
  BY LenProperties DEF Inv, Types, Globals
<1>2. IsFiniteSet(Deep(regions))
  <2>1. IsFiniteSet(1..Len(regions)) /\ Deep(regions) \subseteq 1..Len(regions)
    BY <1>1, FS_Interval DEF Deep
  <2> QED
    BY <2>1, FS_Subset
<1>3. depth = 0 <=> Deep(regions) = {}
  BY <1>1, <1>2, FS_EmptySet
<1>4. Deep(regions) # {} <=> \E k \in 1..Len(regions) : regions[k].kind \in Levels
  BY DEF Deep
<1> QED
  BY <1>1, <1>2, <1>3, <1>4

\* The facts about the region on top that the actions need.
LEMMA TopFacts ==
  ASSUME Inv, regions # << >>, NEW n, n = Len(regions)
  PROVE  /\ n \in Nat /\ n > 0 /\ n \in 1..n /\ n <= MaxRegions
         /\ Top = regions[n] /\ Top \in Regions
         /\ HeldBy(Top, n)
         /\ Len(saves) \in Nat /\ Top.start + Parked(Top) <= Len(saves)
         /\ scope = ScopeOf(Top)
         /\ ~aborted => cur = Top.f
         /\ Top.kind \in {"hook", "keyword", "try"} => Len(saves) = Top.start
<1>1. n \in Nat /\ n > 0 /\ n \in 1..n /\ n <= MaxRegions /\ Len(saves) \in Nat
  BY EmptySeq, LenProperties DEF Inv, Types
<1>2. Top = regions[n] /\ Top \in Regions
  BY <1>1, ElementOfSeq DEF Inv, Types, Top
<1>3. HeldBy(Top, n)
  <2>1. \A k \in 1..n : ~(n < k)
    BY <1>1
  <2> QED
    BY <1>1, <1>2, <2>1 DEF Inv, FieldsHeld
<1>4. Top.start + Parked(Top) <= Len(saves)
  BY <1>1, <1>2 DEF Inv, FieldsParked
<1> QED
  BY <1>1, <1>2, <1>3, <1>4 DEF Inv, Globals

LEMMA RegionBegins ==
  ASSUME Inv, Awake, NEW kind \in Kinds, kind # "bare", NEW f \in Frames,
         kind \in Nested => regions # << >> /\ f = cur,
         kind \notin Nested => Fresh(f),
         kind \in {"xsub", "direct", "pp"} => depth > 0 \/ scope = 0
  PROVE  LET r == Region(kind, f) IN
         /\ r \in Regions /\ Begun(regions, r)
         /\ r.kind = kind /\ r.f = f /\ r.start = Len(saves) /\ r.scope = scope
         /\ r.back = cur /\ r.jb0 = mem[Jb(f)] /\ r.prev0 = mem[Prev(f)]
         /\ r.base0 = mem[Base(f)]
         /\ regions = << >> => r.scope = 0
<1> DEFINE r == Region(kind, f)
           n == Len(regions)
<1>1. n \in Nat /\ Len(saves) \in 0..MaxSaves /\ (n = 0 <=> regions = << >>)
  BY EmptySeq, LenProperties DEF Inv, Types
<1>2. ~aborted /\ (regions # << >> => Top.kind # "bare")
  BY DEF Awake, Epiloguing
<1>3. /\ cur = IF regions = << >> THEN NoFrame ELSE Top.f
      /\ scope = IF regions = << >> THEN 0 ELSE ScopeOf(Top)
      /\ regions = << >> => Len(saves) = 0
  BY <1>2, EmptySeq DEF Inv, Globals
<1>4. Fresh(f) => mem[Jb(f)] = 0 /\ mem[Prev(f)] = NoFrame /\ mem[Base(f)] = 0
  <2> SUFFICES ASSUME Fresh(f)
               PROVE  mem[Jb(f)] = 0 /\ mem[Prev(f)] = NoFrame /\ mem[Base(f)] = 0
    OBVIOUS
  <2>1. \A i \in 1..n : regions[i].f # f
    <3>1. DOMAIN regions = 1..n
      BY LenProperties DEF Inv, Types
    <3> QED
      BY <3>1 DEF Fresh
  <2> QED
    BY <2>1 DEF Inv, FieldsHeld
<1>5. /\ r.kind = kind /\ r.f = f /\ r.start = Len(saves) /\ r.scope = scope
      /\ r.back = cur /\ r.was = Host /\ r.prev0 = mem[Prev(f)] /\ r.base0 = mem[Base(f)]
      /\ r.jb0 = IF f = cur THEN mem[Jb(f)] ELSE 0
  BY DEF Region, Jb, Prev, Base
<1>6. r.jb0 = mem[Jb(f)]
  BY <1>4, <1>5 DEF Fresh
<1>7. Host \in [Locs -> Values]
  BY DEF Inv, Types, Host, Var
<1>8. r \in Regions
  <2>1. /\ mem[Jb(f)] \in 0..MaxRegions /\ mem[Prev(f)] \in MaybeFrame
        /\ mem[Base(f)] \in 0..MaxSaves /\ scope \in Nat /\ cur \in MaybeFrame
    BY DEF Inv, Types
  <2>2. /\ mem[<<"prev", f>>] \in MaybeFrame /\ mem[<<"base", f>>] \in 0..MaxSaves
        /\ (IF f = cur THEN mem[<<"jb", f>>] ELSE 0) \in 0..MaxRegions
    BY <2>1, FrameAssumption DEF Jb, Prev, Base
  <2> QED
    BY <1>1, <1>7, <2>1, <2>2 DEF Region, Regions
<1> HIDE DEF r
<1>9. regions # << >> =>
        /\ Top = regions[n] /\ HeldBy(Top, n)
        /\ Top.kind \in {"hook", "keyword", "try"} => Len(saves) = Top.start
  BY TopFacts
<1>10. kind \in Nested => /\ r.f = Top.f /\ r.jb0 = JbOf(Top, n)
                          /\ r.prev0 = PrevOf(Top) /\ r.base0 = BaseOf(Top)
  BY <1>3, <1>5, <1>6, <1>9 DEF HeldBy
<1>11. kind \notin Nested => /\ \A k \in 1..n : regions[k].f # f
                             /\ r.jb0 = 0 /\ r.prev0 = NoFrame /\ r.base0 = 0
  <2>1. DOMAIN regions = 1..n
    BY LenProperties DEF Inv, Types
  <2> QED
    BY <1>4, <1>5, <1>6, <2>1 DEF Fresh
<1>12. \A k \in 1..n : regions[k].start + Parked(regions[k]) <= r.start
  BY <1>5 DEF Inv, FieldsParked
<1>13. kind \in {"xsub", "direct", "pp"} =>
         r.scope = 0 \/ \E k \in 1..n : regions[k].kind \in Levels
  BY <1>5, Levelled
<1>14. Begun(regions, r)
  <2>1. regions = << >> => r.kind \notin Nested /\ r.back = NoFrame /\ r.start = 0 /\ r.scope = 0
    BY <1>3, <1>5
  <2>2. regions # << >> =>
          /\ regions[n].kind # "bare"
          /\ r.back = regions[n].f
          /\ r.scope = ScopeOf(regions[n])
          /\ regions[n].kind \in {"hook", "keyword", "try"} => r.start = regions[n].start
          /\ r.kind \in Nested => /\ r.f = regions[n].f /\ r.jb0 = JbOf(regions[n], n)
                                  /\ r.prev0 = PrevOf(regions[n])
                                  /\ r.base0 = BaseOf(regions[n])
    BY <1>2, <1>3, <1>5, <1>9, <1>10
  <2> QED
    BY <1>5, <1>11, <1>12, <1>13, <2>1, <2>2 DEF Begun
<1> QED
  BY <1>3, <1>5, <1>6, <1>8, <1>14 DEF r

LEMMA ThreeMore ==
  ASSUME NEW S, NEW s \in Seq(S), NEW a \in S, NEW b \in S, NEW c \in S, NEW t,
         t = s \o <<a, b, c>>
  PROVE  /\ t \in Seq(S) /\ Len(t) = Len(s) + 3
         /\ \A p \in 1..Len(s) : t[p] = s[p]
         /\ t[Len(s) + 1] = a /\ t[Len(s) + 2] = b /\ t[Len(s) + 3] = c
<1> DEFINE u == <<a, b, c>>
           m == Len(s)
<1>1. /\ u \in Seq(S) /\ Len(u) = 3 /\ u[1] = a /\ u[2] = b /\ u[3] = c
      /\ m \in Nat
  BY LenProperties
<1> HIDE DEF u
<1>2. /\ t \in Seq(S) /\ Len(t) = m + Len(u)
      /\ \A p \in 1..(m + Len(u)) : t[p] = IF p <= m THEN s[p] ELSE u[p - m]
  BY <1>1, ConcatProperties DEF u
<1> HIDE DEF m
<1> QED
  BY <1>1, <1>2 DEF m

LEMMA SavedTyped ==
  ASSUME Inv
  PROVE  /\ \A f \in Frames :
              /\ Saved(<<"base", f>>, 4) \in Entries /\ Saved(<<"prev", f>>, 0) \in Entries
              /\ Saved(<<"jb", f>>, 0) \in Entries
              /\ Saved(<<"base", f>>, 4).loc = Base(f)
              /\ Saved(<<"prev", f>>, 0).loc = Prev(f)
              /\ Saved(<<"jb", f>>, 0).loc = Jb(f)
         /\ \A x \in Locs, w \in {0, 4} :
              /\ Saved(<<"host", x>>, w) \in Entries
              /\ Saved(<<"host", x>>, w).loc = Var(x)
         /\ \A l, w : /\ Saved(l, w).val = mem[l] /\ Saved(l, w).scope = scope
<1>1. /\ scope \in Nat
      /\ \A g \in Frames : /\ mem[Jb(g)] \in Nat /\ mem[Prev(g)] \in MaybeFrame
                           /\ mem[Base(g)] \in Nat
      /\ \A x \in Locs : mem[Var(x)] \in Nat
  <2>1. 0..MaxRegions \subseteq Nat /\ 0..MaxSaves \subseteq Nat /\ Values \subseteq Nat
    BY FrameAssumption
  <2> QED
    BY <2>1 DEF Inv, Types
<1>2. \A l \in Slots, w \in {0, 4} : mem[l] \in Nat \cup MaybeFrame => Saved(l, w) \in Entries
  BY <1>1 DEF Saved, Entries
<1> QED
  BY <1>1, <1>2, SlotNames DEF Saved, Jb, Prev, Base, Var

LEMMA EntryOpens ==
  ASSUME Inv, Awake, NEW kind \in {"xsub", "direct"}, NEW f \in Frames,
         kind = "direct" => regions # << >> /\ f = cur,
         kind = "xsub" => Fresh(f),
         depth > 0 \/ scope = 0, RoomToPark, EntryProtocol(kind, f)
  PROVE  Opened(Region(kind, f))
<1> DEFINE r == Region(kind, f)
           n == Len(regions)
           m == Len(saves)
           a == Saved(<<"base", f>>, 4)
           b == Saved(<<"prev", f>>, 0)
           c == Saved(<<"jb", f>>, 0)
<1>1. /\ r \in Regions /\ Begun(regions, r)
      /\ r.kind = kind /\ r.f = f /\ r.start = m /\ r.scope = scope
      /\ r.back = cur /\ r.jb0 = mem[Jb(f)] /\ r.prev0 = mem[Prev(f)] /\ r.base0 = mem[Base(f)]
      /\ regions = << >> => r.scope = 0
  <2>1. kind \in Kinds /\ kind # "bare" /\ (kind \in Nested <=> kind = "direct")
    BY DEF Kinds, Nested
  <2> HIDE DEF r
  <2> QED
    BY <2>1, RegionBegins DEF r
<1>2. m \in Nat /\ n \in Nat
  BY LenProperties DEF Inv, Types
<1>3. /\ JbOf(r, n + 1) = n + 1 /\ PrevOf(r) = cur /\ BaseOf(r) = m /\ Parked(r) = 3
      /\ ScopeOf(r) = scope /\ r.kind \in Counted
  BY <1>1 DEF JbOf, PrevOf, BaseOf, Parked, Parking, Keeping, ScopeOf, Counted
<1>4. a \in Entries /\ b \in Entries /\ c \in Entries
  BY SavedTyped
<1>5. /\ a.loc = Base(f) /\ a.val = mem[Base(f)] /\ a.scope = scope
      /\ b.loc = Prev(f) /\ b.val = mem[Prev(f)] /\ b.scope = scope
      /\ c.loc = Jb(f) /\ c.val = mem[Jb(f)] /\ c.scope = scope
  BY SavedTyped DEF Base, Prev, Jb
<1>6. /\ Len(regions) < MaxRegions /\ regions' = Append(regions, r)
      /\ cur' = f /\ saves' = saves \o <<a, b, c>>
      /\ mem' = [mem EXCEPT ![<<"prev", f>>] = cur, ![<<"base", f>>] = Len(saves),
                            ![<<"jb", f>>] = Len(regions) + 1]
      /\ depth' = depth + 1 /\ scope' = scope /\ aborted' = aborted
  BY DEF EntryProtocol, Push
<1> HIDE DEF r, n, m, a, b, c
<1>7. /\ saves' \in Seq(Entries) /\ Len(saves') = m + 3
      /\ \A p \in 1..m : saves'[p] = saves[p]
      /\ saves'[m + 1] = a /\ saves'[m + 2] = b /\ saves'[m + 3] = c
  <2>1. saves \in Seq(Entries)
    BY DEF Inv, Types
  <2> QED
    BY <1>4, <1>6, <2>1, ThreeMore DEF m
<1>8. \A p \in 1..Len(saves') : p > m => saves'[p].scope = scope
  <2>1. \A p \in 1..Len(saves') : p > m => p = m + 1 \/ p = m + 2 \/ p = m + 3
    BY <1>2, <1>7
  <2> QED
    BY <1>5, <1>7, <2>1
<1>9. /\ DOMAIN mem' = Slots
      /\ mem'[Jb(f)] = n + 1 /\ mem'[Prev(f)] = cur /\ mem'[Base(f)] = m
      /\ \A x \in Locs : mem'[Var(x)] = mem[Var(x)]
      /\ \A g \in Frames : g # f =>
           /\ mem'[Jb(g)] = mem[Jb(g)] /\ mem'[Prev(g)] = mem[Prev(g)]
           /\ mem'[Base(g)] = mem[Base(g)]
  <2>1. DOMAIN mem = Slots
    BY DEF Inv, Types
  <2>2. mem' = [mem EXCEPT ![Prev(f)] = cur, ![Base(f)] = m, ![Jb(f)] = n + 1]
    BY <1>6 DEF Prev, Base, Jb, m, n
  <2> QED
    BY <2>1, <2>2, SlotNames
<1>10. ~aborted /\ aborted' = FALSE
  BY <1>6 DEF Awake, Inv, Types
<1>11. Len(saves') <= MaxSaves
  BY <1>7 DEF RoomToPark, m
<1> QED
  BY <1>1, <1>3, <1>5, <1>6, <1>7, <1>8, <1>9, <1>10, <1>11 DEF Opened, n, m, r

\* The openings that park nothing.
LEMMA PlainOpens ==
  ASSUME Inv, Awake, NEW kind \in {"pp", "keyword", "hook", "try", "scope"}, NEW f \in Frames,
         kind \in Nested => regions # << >> /\ f = cur,
         kind \notin Nested => Fresh(f),
         kind = "pp" => depth > 0 \/ scope = 0,
         Push(kind, f), cur' = f, saves' = saves, aborted' = aborted,
         scope' = IF kind = "scope" THEN scope + 1 ELSE scope,
         depth' = IF kind \in {"pp", "keyword"} THEN depth + 1 ELSE depth,
         kind = "scope" => mem' = mem,
         kind \in {"hook", "try"} => mem' = [mem EXCEPT ![<<"jb", f>>] = Len(regions) + 1],
         kind \in {"pp", "keyword"} =>
           mem' = [mem EXCEPT ![<<"jb", f>>] = Len(regions) + 1, ![<<"prev", f>>] = cur,
                              ![<<"base", f>>] = Len(saves)]
  PROVE  Opened(Region(kind, f))
<1> DEFINE r == Region(kind, f)
           n == Len(regions)
           m == Len(saves)
<1>1. /\ r \in Regions /\ Begun(regions, r)
      /\ r.kind = kind /\ r.f = f /\ r.start = m /\ r.scope = scope
      /\ r.back = cur /\ r.jb0 = mem[Jb(f)] /\ r.prev0 = mem[Prev(f)] /\ r.base0 = mem[Base(f)]
      /\ regions = << >> => r.scope = 0
  <2>1. kind \in Kinds /\ kind # "bare" /\ (kind \in {"xsub", "direct", "pp"} => kind = "pp")
    BY DEF Kinds
  <2> HIDE DEF r
  <2> QED
    BY <2>1, RegionBegins DEF r
<1>2. Len(regions) < MaxRegions /\ regions' = Append(regions, r)
  BY DEF Push
<1> HIDE DEF r
<1>3. /\ JbOf(r, n + 1) = IF kind = "scope" THEN mem[Jb(f)] ELSE n + 1
      /\ PrevOf(r) = IF kind \in {"pp", "keyword"} THEN cur ELSE mem[Prev(f)]
      /\ BaseOf(r) = IF kind \in {"pp", "keyword"} THEN m ELSE mem[Base(f)]
      /\ Parked(r) = 0
      /\ ScopeOf(r) = scope'
      /\ (r.kind \in Counted <=> kind \in {"pp", "keyword"})
  BY <1>1 DEF JbOf, PrevOf, BaseOf, Parked, Parking, Keeping, ScopeOf, Counted
<1>4. /\ DOMAIN mem' = Slots
      /\ \A x \in Locs : mem'[Var(x)] = mem[Var(x)]
      /\ \A g \in Frames : g # f =>
           /\ mem'[Jb(g)] = mem[Jb(g)] /\ mem'[Prev(g)] = mem[Prev(g)]
           /\ mem'[Base(g)] = mem[Base(g)]
      /\ mem'[Jb(f)] = JbOf(r, n + 1) /\ mem'[Prev(f)] = PrevOf(r) /\ mem'[Base(f)] = BaseOf(r)
  <2>1. DOMAIN mem = Slots
    BY DEF Inv, Types
  <2>2. CASE kind = "scope"
    BY <1>3, <2>1, <2>2
  <2>3. CASE kind \in {"hook", "try"}
    <3>1. mem' = [mem EXCEPT ![Jb(f)] = n + 1]
      BY <2>3 DEF Jb
    <3> HIDE DEF n
    <3> QED
      BY <1>3, <2>1, <2>3, <3>1, SlotNames
  <2>4. CASE kind \in {"pp", "keyword"}
    <3>1. mem' = [mem EXCEPT ![Jb(f)] = n + 1, ![Prev(f)] = cur, ![Base(f)] = m]
      BY <2>4 DEF Jb, Prev, Base
    <3> HIDE DEF n, m
    <3> QED
      BY <1>3, <2>1, <2>4, <3>1, SlotNames
  <2> QED
    BY <2>2, <2>3, <2>4
<1>5. saves \in Seq(Entries) /\ m \in Nat /\ m <= MaxSaves
  BY LenProperties DEF Inv, Types
<1>6. ~aborted /\ aborted' = FALSE
  BY DEF Awake, Inv, Types
<1>7. /\ saves' \in Seq(Entries) /\ Len(saves') = m + Parked(r) /\ Len(saves') <= MaxSaves
      /\ \A p \in 1..m : saves'[p] = saves[p]
      /\ Parked(r) # 3
  BY <1>3, <1>5
<1>8. depth' = IF r.kind \in Counted THEN depth + 1 ELSE depth
  BY <1>3
<1>9. Opened(r)
  BY <1>1, <1>2, <1>3, <1>4, <1>6, <1>7, <1>8 DEF Opened
<1> QED
  BY <1>9 DEF r

LEMMA DispatchOpens ==
  ASSUME Inv, Careful, NEW f \in Frames, Dispatch(f)
  PROVE  Opened(Region("xsub", f))
BY EntryOpens DEF Dispatch, Sheltered

LEMMA CallDirectOpens ==
  ASSUME Inv, Careful, CallDirect
  PROVE  Opened(Region("direct", cur))
<1>1. Awake /\ regions # << >> /\ ~aborted
  BY DEF CallDirect, Running, Awake
<1>2. cur \in Frames
  BY <1>1, TopFacts, RegionFacts
<1> QED
  BY <1>1, <1>2, EntryOpens DEF CallDirect, Sheltered

LEMMA PpOpens ==
  ASSUME Inv, Careful, NEW f \in Frames, PpInvoke(f)
  PROVE  Opened(Region("pp", f))
BY PlainOpens DEF PpInvoke, Sheltered, Nested

LEMMA KeywordOpens ==
  ASSUME Inv, NEW f \in Frames, KeywordInvoke(f)
  PROVE  Opened(Region("keyword", f))
BY PlainOpens DEF KeywordInvoke, Nested

LEMMA HookOpens ==
  ASSUME Inv, NEW f \in Frames, HookInvoke(f)
  PROVE  Opened(Region("hook", f))
BY PlainOpens DEF HookInvoke, Nested

LEMMA ScopeOpens ==
  ASSUME Inv, EnterScope
  PROVE  Opened(Region("scope", cur))
<1>1. Awake /\ regions # << >> /\ ~aborted
  BY DEF EnterScope, Running, Awake
<1>2. cur \in Frames
  BY <1>1, TopFacts, RegionFacts
<1> QED
  BY <1>1, <1>2, PlainOpens DEF EnterScope, Nested

LEMMA TryOpens ==
  ASSUME Inv, TryStart
  PROVE  Opened(Region("try", cur))
<1>1. Awake /\ regions # << >> /\ ~aborted
  BY DEF TryStart, Running, Awake
<1>2. cur \in Frames
  BY <1>1, TopFacts, RegionFacts
<1> QED
  BY <1>1, <1>2, PlainOpens DEF TryStart, Nested

-------------------------------------------------------------------------------
(* What the actions that close the region on top do.                       *)

Closed ==
  /\ regions # << >>
  /\ ~aborted /\ aborted' = FALSE
  /\ regions' = SubSeq(regions, 1, Len(regions) - 1)
  /\ saves' = SubSeq(saves, 1, Top.start)
  /\ cur' = Top.back
  /\ scope' = Top.scope
  /\ depth' = IF Top.kind \in Levels THEN depth - 1 ELSE depth
  /\ DOMAIN mem' = Slots
  /\ \A x \in Locs : mem'[Var(x)] \in Values
  /\ \A g \in Frames : g # Top.f =>
       mem'[Jb(g)] = mem[Jb(g)] /\ mem'[Prev(g)] = mem[Prev(g)] /\ mem'[Base(g)] = mem[Base(g)]
  /\ mem'[Jb(Top.f)] = Top.jb0
  /\ mem'[Prev(Top.f)] = Top.prev0 /\ mem'[Base(Top.f)] = Top.base0

\* The host variables are those that unwinding down to b gives.
HostUnwound(b) == \E wide \in BOOLEAN : \A x \in Locs :
  mem'[Var(x)] = Unwound(mem, saves, b, wide)[Var(x)]

\* The regions and the save stack after a closing.
LEMMA ClosedStacks ==
  ASSUME Inv, Closed, NEW n, n = Len(regions)
  PROVE  /\ n \in Nat /\ n > 0 /\ n \in 1..n /\ n <= MaxRegions
         /\ Top = regions[n] /\ Top \in Regions
         /\ regions' \in Seq(Regions) /\ Len(regions') = n - 1
         /\ \A i \in 1..(n - 1) : regions'[i] = regions[i] /\ i \in 1..n /\ i # n
         /\ n = 1 <=> regions' = << >>
         /\ saves' \in Seq(Entries) /\ Len(saves') = Top.start /\ Top.start \in Nat
         /\ Len(saves) \in Nat /\ Top.start <= Len(saves)
         /\ \A p \in 1..Top.start : saves'[p] = saves[p] /\ p \in 1..Len(saves)
<1>1. /\ n \in Nat /\ n > 0 /\ n \in 1..n /\ n <= MaxRegions
      /\ Top = regions[n] /\ Top \in Regions
      /\ Len(saves) \in Nat /\ Top.start + Parked(Top) <= Len(saves)
  BY TopFacts DEF Closed
<1>2. Top.start \in Nat /\ Parked(Top) \in {0, 3}
  BY <1>1, RegionFacts
<1>3. Top.start \in 0..Len(saves) /\ n - 1 \in 0..n
  BY <1>1, <1>2
<1>4. /\ saves' \in Seq(Entries) /\ Len(saves') = Top.start
      /\ \A p \in 1..Top.start : saves'[p] = saves[p]
  BY <1>3, CutLast DEF Closed, Inv, Types
<1>5. /\ regions' \in Seq(Regions) /\ Len(regions') = n - 1
      /\ \A i \in 1..(n - 1) : regions'[i] = regions[i]
  BY <1>3, CutLast DEF Closed, Inv, Types
<1>6. n = 1 <=> regions' = << >>
  BY <1>1, <1>5, EmptySeq
<1> QED
  BY <1>1, <1>2, <1>3, <1>4, <1>5, <1>6

LEMMA ClosedTypes ==
  ASSUME Inv, Closed
  PROVE  Types'
<1> DEFINE n == Len(regions)
<1>1. /\ n \in Nat /\ n > 0 /\ n <= MaxRegions /\ Top \in Regions
      /\ regions' \in Seq(Regions) /\ Len(regions') = n - 1
      /\ saves' \in Seq(Entries) /\ Len(saves') = Top.start
  BY ClosedStacks
<1>2. Len(saves') <= MaxSaves /\ Len(regions') <= MaxRegions
  BY <1>1, RegionFacts, FrameAssumption
<1>3. /\ Top.back \in MaybeFrame /\ Top.scope \in Nat /\ Top.jb0 \in 0..MaxRegions
      /\ Top.prev0 \in MaybeFrame /\ Top.base0 \in 0..MaxSaves
  BY <1>1 DEF Regions
<1>4. \A g \in Frames : /\ mem'[Jb(g)] \in 0..MaxRegions /\ mem'[Prev(g)] \in MaybeFrame
                        /\ mem'[Base(g)] \in 0..MaxSaves
  <2> SUFFICES ASSUME NEW g \in Frames
               PROVE  /\ mem'[Jb(g)] \in 0..MaxRegions /\ mem'[Prev(g)] \in MaybeFrame
                      /\ mem'[Base(g)] \in 0..MaxSaves
    OBVIOUS
  <2>1. CASE g = Top.f
    BY <1>3, <2>1 DEF Closed
  <2>2. CASE g # Top.f
    BY <2>2 DEF Closed, Inv, Types
  <2> QED
    BY <2>1, <2>2
<1>5. depth' \in Nat
  <2>1. Top.kind \in Levels => depth > 0
    <3>1. Top = regions[n] /\ n \in 1..n
      BY ClosedStacks
    <3> QED
      BY <3>1, Levelled
  <2>2. depth \in Nat /\ depth' = IF Top.kind \in Levels THEN depth - 1 ELSE depth
    BY DEF Closed, Inv, Types
  <2> QED
    BY <2>1, <2>2
<1>6. cur' \in MaybeFrame /\ scope' \in Nat /\ aborted' \in BOOLEAN /\ DOMAIN mem' = Slots
  BY <1>3 DEF Closed
<1>7. \A x \in Locs : mem'[Var(x)] \in Values
  BY DEF Closed
<1> QED
  BY <1>1, <1>2, <1>4, <1>5, <1>6, <1>7 DEF Types

LEMMA ClosedChain ==
  ASSUME Inv, Closed
  PROVE  Chain(regions')
<1> DEFINE n == Len(regions)
           B == regions'
<1>1. /\ n \in Nat /\ n > 0 /\ B \in Seq(Regions) /\ Len(B) = n - 1
      /\ \A i \in 1..(n - 1) : B[i] = regions[i]
  BY ClosedStacks
<1>2. regions \in Seq(Regions) /\ Chain(regions)
  BY DEF Inv, Types
<1> HIDE DEF B
<1>3. Len(B) <= n /\ \A i \in 1..Len(B) : B[i] = regions[i]
  BY <1>1
<1>4. Chain(B)
  BY <1>1, <1>2, <1>3, ChainBelow
<1> QED
  BY <1>4 DEF B

LEMMA ClosedGlobals ==
  ASSUME Inv, Closed
  PROVE  Globals'
<1> DEFINE n == Len(regions)
           B == regions'
<1>1. /\ n \in Nat /\ n > 0 /\ n \in 1..n /\ Top = regions[n]
      /\ B \in Seq(Regions) /\ Len(B) = n - 1
      /\ \A i \in 1..(n - 1) : B[i] = regions[i]
      /\ n = 1 <=> B = << >>
      /\ saves' \in Seq(Entries) /\ Len(saves') = Top.start
  BY ClosedStacks
<1>2. /\ n = 1 => Top.back = NoFrame /\ Top.start = 0 /\ Top.scope = 0
      /\ n > 1 => /\ Top.back = regions[n-1].f
                  /\ Top.scope = ScopeOf(regions[n-1])
                  /\ regions[n-1].kind \in {"hook", "keyword", "try"}
                       => Top.start = regions[n-1].start
  BY <1>1 DEF Inv, Chain, Adjacent
<1>3. n > 1 => Top' = regions[n-1]
  BY <1>1 DEF Top
<1>4. depth' = Cardinality(Deep(B))
  <2>1. regions \in Seq(Regions)
    BY DEF Inv, Types
  <2> HIDE DEF B, n
  <2>2. /\ Cardinality(Deep(B)) \in Nat
        /\ Cardinality(Deep(regions))
             = Cardinality(Deep(B)) + (IF regions[Len(B) + 1].kind \in Levels THEN 1 ELSE 0)
    BY <1>1, <2>1, OneMore DEF n
  <2>3. Len(B) + 1 = n
    BY <1>1
  <2>4. depth = Cardinality(Deep(regions))
    BY DEF Inv, Globals
  <2> QED
    BY <1>1, <2>2, <2>3, <2>4 DEF Closed
<1>5. B = << >> => saves' = << >>
  BY <1>1, <1>2, EmptySeq
<1> HIDE DEF B, n
<1>6. cur' = IF B = << >> THEN NoFrame ELSE Top'.f
  BY <1>1, <1>2, <1>3 DEF Closed
<1>7. scope' = IF B = << >> THEN 0 ELSE ScopeOf(Top')
  BY <1>1, <1>2, <1>3 DEF Closed
<1>8. B # << >> /\ Top'.kind \in {"hook", "keyword", "try"} => Len(saves') = Top'.start
  BY <1>1, <1>2, <1>3
<1> QED
  BY <1>4, <1>5, <1>6, <1>7, <1>8 DEF Globals, B

LEMMA ClosedFields ==
  ASSUME Inv, Closed
  PROVE  FieldsHeld'
<1> DEFINE n == Len(regions)
           B == regions'
<1>1. /\ n \in Nat /\ n > 0 /\ n \in 1..n /\ Top = regions[n]
      /\ Len(B) = n - 1
      /\ \A i \in 1..(n - 1) : B[i] = regions[i] /\ i \in 1..n /\ i # n
  BY ClosedStacks
<1>2. \A i \in 1..n : regions[i].f \in Frames
  <2>1. \A i \in 1..n : regions[i] \in Regions
    BY ElementOfSeq DEF Inv, Types
  <2> QED
    BY <2>1, RegionFacts
<1>3. /\ Top.kind \in Nested =>
           /\ n > 1 /\ Top.f = regions[n-1].f
           /\ Top.jb0 = JbOf(regions[n-1], n-1)
           /\ Top.prev0 = PrevOf(regions[n-1])
           /\ Top.base0 = BaseOf(regions[n-1])
      /\ Top.kind \notin Nested =>
           /\ \A k \in 1..n : k < n => regions[k].f # Top.f
           /\ Top.jb0 = 0 /\ Top.prev0 = NoFrame /\ Top.base0 = 0
  BY <1>1 DEF Inv, Chain, OnFrames
<1> HIDE DEF n, B
<1>4. ASSUME NEW i \in 1..(n - 1), \A k \in 1..(n - 1) : i < k => B[k].f # B[i].f
      PROVE  /\ mem'[Jb(B[i].f)] = JbOf(B[i], i) /\ mem'[Prev(B[i].f)] = PrevOf(B[i])
             /\ mem'[Base(B[i].f)] = BaseOf(B[i])
  <2>1. B[i] = regions[i] /\ \A k \in 1..(n - 1) : i < k => regions[k].f # regions[i].f
    BY <1>1, <1>4
  <2>2. CASE regions[i].f = Top.f
    <3>1. Top.kind \in Nested
      BY <1>1, <1>3, <2>2
    <3>2. i = n - 1
      <4>1. n - 1 \in 1..(n - 1) /\ regions[n-1].f = regions[i].f
        BY <1>1, <1>3, <2>2, <3>1
      <4> QED
        BY <1>1, <2>1, <4>1
    <3> QED
      BY <1>3, <2>1, <2>2, <3>1, <3>2 DEF Closed
  <2>3. CASE regions[i].f # Top.f
    <3>1. \A k \in 1..n : i < k => regions[k].f # regions[i].f
      BY <1>1, <2>1, <2>3
    <3>2. HeldBy(regions[i], i)
      BY <1>1, <3>1 DEF Inv, FieldsHeld, n
    <3> QED
      BY <1>1, <1>2, <2>1, <2>3, <3>2 DEF HeldBy, Closed
  <2> QED
    BY <2>2, <2>3
<1>5. ASSUME NEW g \in Frames, \A i \in 1..(n - 1) : B[i].f # g
      PROVE  mem'[Jb(g)] = 0 /\ mem'[Prev(g)] = NoFrame /\ mem'[Base(g)] = 0
  <2>1. \A i \in 1..(n - 1) : regions[i].f # g
    BY <1>1, <1>5
  <2>2. CASE g = Top.f
    <3>1. Top.kind \notin Nested
      <4>1. n > 1 => n - 1 \in 1..(n - 1)
        BY <1>1
      <4> QED
        BY <1>3, <2>1, <2>2, <4>1
    <3> QED
      BY <1>3, <2>2, <3>1 DEF Closed
  <2>3. CASE g # Top.f
    <3>1. \A i \in 1..n : regions[i].f # g
      BY <1>1, <2>1, <2>3
    <3>2. mem[Jb(g)] = 0 /\ mem[Prev(g)] = NoFrame /\ mem[Base(g)] = 0
      BY <3>1 DEF Inv, FieldsHeld, n
    <3> QED
      BY <2>3, <3>2 DEF Closed
  <2> QED
    BY <2>2, <2>3
<1> QED
  BY <1>1, <1>4, <1>5 DEF FieldsHeld, HeldBy, B

LEMMA ClosedParked ==
  ASSUME Inv, Closed
  PROVE  FieldsParked'
<1> DEFINE n == Len(regions)
           B == regions'
           s == Top.start
<1>1. /\ n \in Nat /\ n > 0 /\ n \in 1..n /\ Top = regions[n]
      /\ Len(B) = n - 1
      /\ \A i \in 1..(n - 1) : B[i] = regions[i] /\ i \in 1..n /\ i # n
      /\ Len(saves') = s /\ s \in Nat
      /\ \A p \in 1..s : saves'[p] = saves[p] /\ p \in 1..Len(saves)
  BY ClosedStacks
<1>2. \A i \in 1..n : Parked(regions[i]) \in {0, 3} /\ regions[i].start \in Nat
  <2>1. \A i \in 1..n : regions[i] \in Regions
    BY ElementOfSeq DEF Inv, Types
  <2> QED
    BY <2>1, RegionFacts
<1>3. \A i \in 1..(n - 1) : regions[i].start + Parked(regions[i]) <= s
  <2>1. \A i \in 1..(n - 1) : i < n
    BY <1>1
  <2> QED
    BY <1>1, <2>1 DEF Inv, Chain, Ordered
<1> HIDE DEF n, B, s
<1>4. ASSUME NEW i \in 1..(n - 1)
      PROVE  /\ B[i].start + Parked(B[i]) <= s
             /\ Parked(B[i]) = 3 =>
                  /\ saves'[B[i].start + 1].loc = Base(B[i].f)
                  /\ saves'[B[i].start + 1].val = B[i].base0
                  /\ saves'[B[i].start + 2].loc = Prev(B[i].f)
                  /\ saves'[B[i].start + 2].val = B[i].prev0
                  /\ saves'[B[i].start + 3].loc = Jb(B[i].f)
                  /\ saves'[B[i].start + 3].val = B[i].jb0
  <2> DEFINE b == regions[i]
  <2>1. Parked(b) = 3 =>
          /\ saves[b.start + 1].loc = Base(b.f) /\ saves[b.start + 1].val = b.base0
          /\ saves[b.start + 2].loc = Prev(b.f) /\ saves[b.start + 2].val = b.prev0
          /\ saves[b.start + 3].loc = Jb(b.f)   /\ saves[b.start + 3].val = b.jb0
    BY <1>1 DEF Inv, FieldsParked, n
  <2>2. B[i] = b /\ b.start \in Nat /\ Parked(b) \in {0, 3} /\ b.start + Parked(b) <= s
    BY <1>1, <1>2, <1>3
  <2> HIDE DEF b
  <2>3. Parked(b) = 3 => b.start + 1 \in 1..s /\ b.start + 2 \in 1..s /\ b.start + 3 \in 1..s
    BY SMTT(30), <1>1, <2>2
  <2> QED
    BY <1>1, <2>1, <2>2, <2>3
<1>5. ASSUME NEW p \in 1..s
      PROVE  \/ saves'[p].val \in Values /\ \E x \in Locs : saves'[p].loc = Var(x)
             \/ \E i \in 1..(n - 1) : /\ Parked(B[i]) = 3 /\ B[i].start < p
                                      /\ p <= B[i].start + 3
  <2>1. \/ saves[p].val \in Values /\ \E x \in Locs : saves[p].loc = Var(x)
        \/ \E i \in 1..n : ParkedBy(i, p)
    BY <1>1 DEF Inv, FieldsParked, n
  <2>2. ~ParkedBy(n, p)
    BY <1>1 DEF ParkedBy, s
  <2>3. \A i \in 1..n : i # n => i \in 1..(n - 1)
    BY <1>1
  <2> QED
    BY <1>1, <2>1, <2>2, <2>3 DEF ParkedBy
<1> QED
  BY <1>1, <1>4, <1>5 DEF FieldsParked, ParkedBy, B

LEMMA ClosedTags ==
  ASSUME Inv, Closed
  PROVE  Tagged'
<1> DEFINE n == Len(regions)
           B == regions'
           s == Top.start
<1>1. /\ n \in 1..n /\ Top = regions[n]
      /\ Len(B) = n - 1
      /\ \A i \in 1..(n - 1) : B[i] = regions[i] /\ i \in 1..n /\ i # n
      /\ Len(saves') = s /\ s \in Nat
      /\ \A p \in 1..s : saves'[p] = saves[p] /\ p \in 1..Len(saves)
  BY ClosedStacks
<1>2. \A p \in 1..s : /\ saves'[p].scope <= Top.scope
                      /\ \A j \in 1..n :
                           IF p <= regions[j].start THEN saves'[p].scope <= regions[j].scope
                           ELSE saves'[p].scope >= ScopeOf(regions[j])
  <2> SUFFICES ASSUME NEW p \in 1..s
               PROVE  /\ saves[p].scope <= Top.scope
                      /\ \A j \in 1..n :
                           IF p <= regions[j].start THEN saves[p].scope <= regions[j].scope
                           ELSE saves[p].scope >= ScopeOf(regions[j])
    BY <1>1
  <2>1. \A j \in 1..n : IF p <= regions[j].start THEN saves[p].scope <= regions[j].scope
                        ELSE saves[p].scope >= ScopeOf(regions[j])
    BY <1>1 DEF Inv, Tagged
  <2>2. p <= regions[n].start
    BY <1>1
  <2> QED
    BY <1>1, <2>1, <2>2
<1>3. scope' = Top.scope
  BY DEF Closed
<1> HIDE DEF n, B, s
<1>4. \A p \in 1..s :
        /\ saves'[p].scope <= scope'
        /\ \A j \in 1..(n - 1) : IF p <= B[j].start THEN saves'[p].scope <= B[j].scope
                                ELSE saves'[p].scope >= ScopeOf(B[j])
  BY <1>1, <1>2, <1>3
<1> QED
  BY <1>1, <1>4 DEF Tagged, B

LEMMA ClosedInv ==
  ASSUME Inv, Closed
  PROVE  Inv'
BY ClosedTypes, ClosedChain, ClosedGlobals, ClosedFields, ClosedParked, ClosedTags DEF Inv

-------------------------------------------------------------------------------
(* Unwinding the save stack down to where region j began, when no region above j *)
(* has parked anything.                                                    *)

LEMMA HostEntries ==
  ASSUME Inv
  PROVE  /\ \A p \in 1..Len(saves), x \in Locs : saves[p].loc = Var(x) => saves[p].val \in Values
         /\ \A i \in 1..Len(regions), p \in 1..Len(saves) :
              ParkedBy(i, p) => \A x \in Locs : saves[p].loc # Var(x)
<1>1. \A i \in 1..Len(regions) : regions[i].f \in Frames /\ regions[i].start \in Nat
  <2>1. \A i \in 1..Len(regions) : regions[i] \in Regions
    BY ElementOfSeq DEF Inv, Types
  <2> QED
    BY <2>1, RegionFacts
<1>2. ASSUME NEW i \in 1..Len(regions), NEW p \in 1..Len(saves), ParkedBy(i, p), NEW x \in Locs
      PROVE  saves[p].loc # Var(x)
  <2> DEFINE b == regions[i]
  <2>1. /\ saves[b.start + 1].loc = Base(b.f) /\ saves[b.start + 2].loc = Prev(b.f)
        /\ saves[b.start + 3].loc = Jb(b.f)
    BY <1>2 DEF Inv, FieldsParked, ParkedBy
  <2>2. p = b.start + 1 \/ p = b.start + 2 \/ p = b.start + 3
    <3>1. PICK n \in Nat : n = b.start
      BY <1>1
    <3>2. p \in Nat /\ n < p /\ p <= n + 3
      BY <1>2, <3>1 DEF ParkedBy
    <3>3. p = n + 1 \/ p = n + 2 \/ p = n + 3
      BY <3>2
    <3> QED
      BY <3>1, <3>3
  <2>3. b.f \in Frames
    BY <1>1
  <2> HIDE DEF b
  <2> QED
    BY <2>1, <2>2, <2>3, SlotNames
<1>3. \A p \in 1..Len(saves) : \/ saves[p].val \in Values
                               \/ \E i \in 1..Len(regions) : ParkedBy(i, p)
  BY DEF Inv, FieldsParked
<1> QED
  BY <1>2, <1>3

LEMMA EntriesAbove ==
  ASSUME Inv, NEW j \in 1..Len(regions),
         \A k \in 1..Len(regions) : j < k => Parked(regions[k]) = 0,
         NEW p \in 1..Len(saves), p > regions[j].start
  PROVE  \/ \E x \in Locs : saves[p].loc = Var(x)
         \/ /\ Parked(regions[j]) = 3
            /\ \/ p = regions[j].start + 1 /\ saves[p].loc = Base(regions[j].f)
               \/ p = regions[j].start + 2 /\ saves[p].loc = Prev(regions[j].f)
               \/ p = regions[j].start + 3 /\ saves[p].loc = Jb(regions[j].f)
<1>1. Len(regions) \in Nat /\ Len(saves) \in Nat
  BY LenProperties DEF Inv, Types
<1>2. \A i \in 1..Len(regions) : regions[i].start \in Nat /\ Parked(regions[i]) \in {0, 3}
  <2>1. \A i \in 1..Len(regions) : regions[i] \in Regions
    BY ElementOfSeq DEF Inv, Types
  <2> QED
    BY <2>1, RegionFacts
<1>3. ASSUME NEW i \in 1..Len(regions), ParkedBy(i, p)
      PROVE  i = j
  <2>1. ~(j < i)
    BY <1>3 DEF ParkedBy
  <2>2. i < j => regions[i].start + 3 <= regions[j].start
    BY <1>3 DEF ParkedBy, Inv, Chain, Ordered
  <2> QED
    BY <1>1, <1>2, <1>3, <2>1, <2>2 DEF ParkedBy
<1>4. ASSUME ParkedBy(j, p)
      PROVE  /\ Parked(regions[j]) = 3
             /\ \/ p = regions[j].start + 1 /\ saves[p].loc = Base(regions[j].f)
                \/ p = regions[j].start + 2 /\ saves[p].loc = Prev(regions[j].f)
                \/ p = regions[j].start + 3 /\ saves[p].loc = Jb(regions[j].f)
  <2>1. p = regions[j].start + 1 \/ p = regions[j].start + 2 \/ p = regions[j].start + 3
    BY <1>1, <1>2, <1>4 DEF ParkedBy
  <2>2. /\ saves[regions[j].start + 1].loc = Base(regions[j].f)
        /\ saves[regions[j].start + 2].loc = Prev(regions[j].f)
        /\ saves[regions[j].start + 3].loc = Jb(regions[j].f)
    BY <1>4 DEF Inv, FieldsParked, ParkedBy
  <2> QED
    BY <1>4, <2>1, <2>2 DEF ParkedBy
<1>5. \/ \E x \in Locs : saves[p].loc = Var(x)
      \/ \E i \in 1..Len(regions) : ParkedBy(i, p)
  BY DEF Inv, FieldsParked
<1> QED
  BY <1>3, <1>4, <1>5

\* The value that Unwound gives a slot that has one writer, or none.
LEMMA UnwoundOne ==
  ASSUME NEW m, NEW s, NEW base, NEW wide, NEW l \in Slots
  PROVE  /\ Writers(s, l, base, wide) = {} => Unwound(m, s, base, wide)[l] = m[l]
         /\ \A k \in Nat : Writers(s, l, base, wide) = {k} /\ s[k].loc = l
                             => Unwound(m, s, base, wide)[l] = s[k].val
<1>1. Unwound(m, s, base, wide)[l]
        = LET w == Writers(s, l, base, wide) IN
          IF w = {} THEN m[l] ELSE IF s[Min(w)].loc = l THEN s[Min(w)].val ELSE 0
  BY DEF Unwound
<1>2. \A k \in Nat : Min({k}) = k
  <2> SUFFICES ASSUME NEW k \in Nat PROVE Min({k}) = k
    OBVIOUS
  <2>1. {k} \subseteq Nat /\ k \in {k} /\ \A y \in {k} : k <= y
    OBVIOUS
  <2> QED
    BY <2>1, MinIs
<1> QED
  BY <1>1, <1>2

LEMMA UnwoundTo ==
  ASSUME Inv, NEW j \in 1..Len(regions),
         \A k \in 1..Len(regions) : j < k => Parked(regions[k]) = 0,
         NEW wide \in BOOLEAN, NEW M, M = Unwound(mem, saves, regions[j].start, wide)
  PROVE  LET r == regions[j] IN
         /\ DOMAIN M = Slots
         /\ \A x \in Locs : M[Var(x)] \in Values
         /\ \A g \in Frames : g # r.f \/ Parked(r) = 0 =>
              M[Jb(g)] = mem[Jb(g)] /\ M[Prev(g)] = mem[Prev(g)] /\ M[Base(g)] = mem[Base(g)]
         /\ Parked(r) = 3 =>
              M[Jb(r.f)] = r.jb0 /\ M[Prev(r.f)] = r.prev0 /\ M[Base(r.f)] = r.base0
<1> DEFINE r == regions[j]
           b == r.start
           W(l) == Writers(saves, l, b, wide)
<1>1. /\ r \in Regions /\ r.f \in Frames /\ b \in Nat /\ Parked(r) \in {0, 3}
      /\ Len(saves) \in Nat /\ b + Parked(r) <= Len(saves)
  <2>1. r \in Regions
    BY ElementOfSeq DEF Inv, Types
  <2>2. Len(saves) \in Nat /\ b + Parked(r) <= Len(saves)
    BY LenProperties DEF Inv, Types, FieldsParked
  <2> QED
    BY <2>1, <2>2, RegionFacts
<1>2. \A l \in Slots : l[1] # "host" =>
        W(l) = {p \in (b + 1)..Len(saves) : saves[p].loc = l}
  <2> SUFFICES ASSUME NEW l \in Slots, l[1] # "host"
               PROVE  W(l) = {p \in (b + 1)..Len(saves) : saves[p].loc = l}
    OBVIOUS
  <2>1. \A y : l # <<"host", y>>
    OBVIOUS
  <2> QED
    BY <2>1 DEF Writers
<1>3. \A p \in (b + 1)..Len(saves) :
        \/ \E x \in Locs : saves[p].loc = Var(x)
        \/ /\ Parked(r) = 3
           /\ \/ p = b + 1 /\ saves[p].loc = Base(r.f)
              \/ p = b + 2 /\ saves[p].loc = Prev(r.f)
              \/ p = b + 3 /\ saves[p].loc = Jb(r.f)
  <2> SUFFICES ASSUME NEW p \in (b + 1)..Len(saves)
               PROVE  \/ \E x \in Locs : saves[p].loc = Var(x)
                      \/ /\ Parked(r) = 3
                         /\ \/ p = b + 1 /\ saves[p].loc = Base(r.f)
                            \/ p = b + 2 /\ saves[p].loc = Prev(r.f)
                            \/ p = b + 3 /\ saves[p].loc = Jb(r.f)
    OBVIOUS
  <2>1. p \in 1..Len(saves) /\ p > regions[j].start
    BY <1>1
  <2> QED
    BY <2>1, EntriesAbove
<1>4. \A l \in Slots : M[l] = Unwound(mem, saves, b, wide)[l]
  OBVIOUS
<1>5. DOMAIN M = Slots
  BY DEF Unwound
<1> HIDE DEF r, b, W
<1>6. ASSUME NEW g \in Frames, g # r.f \/ Parked(r) = 0,
             NEW l \in {Jb(g), Prev(g), Base(g)}
      PROVE  M[l] = mem[l]
  <2>1. l \in Slots /\ l[1] # "host"
    BY SlotNames DEF Fields
  <2>2. W(l) = {}
    <3> SUFFICES ASSUME NEW p \in (b + 1)..Len(saves), saves[p].loc = l
                 PROVE  FALSE
      BY <1>2, <2>1
    <3> QED
      BY <1>1, <1>3, <1>6, SlotNames
  <2> QED
    BY <1>4, <2>1, <2>2, UnwoundOne DEF W
<1>7. ASSUME Parked(r) = 3
      PROVE  M[Jb(r.f)] = r.jb0 /\ M[Prev(r.f)] = r.prev0 /\ M[Base(r.f)] = r.base0
  <2>1. /\ saves[b + 1].loc = Base(r.f) /\ saves[b + 1].val = r.base0
        /\ saves[b + 2].loc = Prev(r.f) /\ saves[b + 2].val = r.prev0
        /\ saves[b + 3].loc = Jb(r.f)   /\ saves[b + 3].val = r.jb0
    BY <1>7 DEF Inv, FieldsParked, r, b
  <2>2. /\ b + 1 \in (b + 1)..Len(saves) /\ b + 2 \in (b + 1)..Len(saves)
        /\ b + 3 \in (b + 1)..Len(saves)
        /\ b + 1 \in Nat /\ b + 2 \in Nat /\ b + 3 \in Nat
    BY <1>1, <1>7
  <2>3. /\ Jb(r.f) \in Slots /\ Prev(r.f) \in Slots /\ Base(r.f) \in Slots
        /\ Jb(r.f)[1] # "host" /\ Prev(r.f)[1] # "host" /\ Base(r.f)[1] # "host"
        /\ Jb(r.f) # Prev(r.f) /\ Jb(r.f) # Base(r.f) /\ Prev(r.f) # Base(r.f)
        /\ \A x \in Locs : Var(x) # Jb(r.f) /\ Var(x) # Prev(r.f) /\ Var(x) # Base(r.f)
    BY <1>1, SlotNames DEF Fields
  <2>4. W(Base(r.f)) = {b + 1}
    BY SMTT(30), <1>2, <1>3, <2>1, <2>2, <2>3
  <2>5. W(Prev(r.f)) = {b + 2}
    BY SMTT(30), <1>2, <1>3, <2>1, <2>2, <2>3
  <2>6. W(Jb(r.f)) = {b + 3}
    BY SMTT(30), <1>2, <1>3, <2>1, <2>2, <2>3
  <2> QED
    BY SMTT(30), <1>4, <2>1, <2>2, <2>3, <2>4, <2>5, <2>6, UnwoundOne DEF W
<1>8. ASSUME NEW x \in Locs
      PROVE  M[Var(x)] \in Values
  <2> DEFINE l == Var(x)
             w == W(l)
  <2>1. l \in Slots
    BY SlotNames
  <2>2. M[l] = IF w = {} THEN mem[l] ELSE IF saves[Min(w)].loc = l THEN saves[Min(w)].val ELSE 0
    BY <1>4, <2>1 DEF Unwound, W
  <2>3. w \subseteq 1..Len(saves) /\ w \subseteq Nat
    BY <1>1 DEF W, Writers
  <2> HIDE DEF l, w
  <2>4. w # {} => Min(w) \in 1..Len(saves)
    BY <2>3, MinIsLeast
  <2>5. mem[l] \in Values /\ 0 \in Values
    BY FrameAssumption DEF l, Inv, Types
  <2>6. \A p \in 1..Len(saves) : saves[p].loc = l => saves[p].val \in Values
    BY HostEntries DEF l
  <2> QED
    BY <2>2, <2>4, <2>5, <2>6 DEF l
<1> QED
  BY <1>5, <1>6, <1>7, <1>8 DEF r

-------------------------------------------------------------------------------
(* The actions that close the region on top.                               *)

LEMMA CutIs ==
  ASSUME NEW S, NEW s \in Seq(S), NEW b \in 0..Len(s)
  PROVE  Cut(s, b) = SubSeq(s, 1, b)
<1>1. SubSeq(s, 1, Len(s)) = s
  BY SubSeqFull
<1>2. Len(s) \in Nat
  BY LenProperties
<1>3. b < Len(s) \/ b = Len(s)
  BY <1>2
<1> QED
  BY <1>1, <1>3 DEF Cut

\* Above what has been cut there is nothing to unwind.
LEMMA UnwoundNothing ==
  ASSUME NEW m, NEW s, Len(s) \in Nat, NEW base \in Nat, Len(s) <= base, NEW wide \in BOOLEAN
  PROVE  \A l \in Slots : Unwound(m, s, base, wide)[l] = m[l]
<1>1. (base + 1)..Len(s) = {}
  OBVIOUS
<1>2. \A l \in Slots : Writers(s, l, base, wide) = {}
  BY <1>1 DEF Writers
<1> QED
  BY <1>2, UnwoundOne

\* The region on top is the only one that a drop of its frame can concern.
LEMMA SettleCloses ==
  ASSUME Inv, regions # << >>, ~aborted, aborted' = FALSE,
         NEW m, DOMAIN m = Slots,
         \A x \in Locs : m[Var(x)] \in Values,
         \A g \in Frames : g # Top.f =>
           m[Jb(g)] = mem[Jb(g)] /\ m[Prev(g)] = mem[Prev(g)] /\ m[Base(g)] = mem[Base(g)],
         Top.kind \in Nested =>
           m[Jb(Top.f)] = Top.jb0 /\ m[Prev(Top.f)] = Top.prev0 /\ m[Base(Top.f)] = Top.base0,
         Settle(m, Below(Len(regions))), saves' = SubSeq(saves, 1, Top.start),
         cur' = Top.back, scope' = Top.scope,
         depth' = IF Top.kind \in Levels THEN depth - 1 ELSE depth
  PROVE  Closed /\ \A x \in Locs : mem'[Var(x)] = m[Var(x)]
<1> DEFINE n == Len(regions)
           B == Below(n)
           Gone(g) == \A i \in DOMAIN B : B[i].f # g
<1>1. /\ n \in Nat /\ n > 0 /\ n \in 1..n /\ Top = regions[n] /\ Top \in Regions
  BY TopFacts
<1>2. B = SubSeq(regions, 1, n - 1) /\ regions' = B
  BY DEF Below, Settle
<1>3. Len(B) = n - 1 /\ DOMAIN B = 1..(n - 1) /\ \A i \in 1..(n - 1) : B[i] = regions[i]
  <2>1. n - 1 \in 0..n /\ regions \in Seq(Regions)
    BY <1>1 DEF Inv, Types
  <2> HIDE DEF B
  <2>2. B \in Seq(Regions) /\ Len(B) = n - 1 /\ \A i \in 1..(n - 1) : B[i] = regions[i]
    BY ZenonT(30), <1>2, <2>1, CutLast DEF B
  <2>3. DOMAIN B = 1..Len(B)
    BY <2>2, LenProperties
  <2> QED
    BY <2>2, <2>3
<1>4. /\ Top.kind \in Nested => n > 1 /\ Top.f = regions[n-1].f
      /\ Top.kind \notin Nested =>
           /\ \A k \in 1..n : k < n => regions[k].f # Top.f
           /\ Top.jb0 = 0 /\ Top.prev0 = NoFrame /\ Top.base0 = 0
  BY <1>1 DEF Inv, Chain, OnFrames
<1> HIDE DEF n, B
<1>5. DOMAIN mem' = Slots
  BY DEF Settle
<1>6. \A x \in Locs : mem'[Var(x)] = m[Var(x)]
  <2> SUFFICES ASSUME NEW x \in Locs PROVE mem'[Var(x)] = m[Var(x)]
    OBVIOUS
  <2>1. Var(x) \in Slots /\ Var(x)[1] = "host"
    BY SlotNames
  <2> QED
    BY <2>1 DEF Settle
<1>7. \A g \in Frames : \A l \in Fields(g) : mem'[l] = IF Gone(g) THEN Zero(l) ELSE m[l]
  <2> SUFFICES ASSUME NEW g \in Frames, NEW l \in Fields(g)
               PROVE  mem'[l] = IF Gone(g) THEN Zero(l) ELSE m[l]
    OBVIOUS
  <2>1. l \in Slots /\ l[1] # "host" /\ l[2] = g
    BY SlotNames DEF Fields
  <2> QED
    BY <2>1 DEF Settle, B, n
<1>8. \A g \in Frames :
        /\ Zero(Jb(g)) = 0 /\ Zero(Prev(g)) = NoFrame /\ Zero(Base(g)) = 0
        /\ Jb(g) \in Fields(g) /\ Prev(g) \in Fields(g) /\ Base(g) \in Fields(g)
  BY SlotNames DEF Fields
<1>9. ASSUME NEW g \in Frames, g # Top.f
      PROVE  mem'[Jb(g)] = mem[Jb(g)] /\ mem'[Prev(g)] = mem[Prev(g)] /\ mem'[Base(g)] = mem[Base(g)]
  <2>1. CASE ~Gone(g)
    BY <1>7, <1>8, <1>9, <2>1
  <2>2. CASE Gone(g)
    <3>1. \A i \in 1..(n - 1) : regions[i].f # g
      BY <1>3, <2>2
    <3>2. \A i \in 1..n : regions[i].f # g
      BY <1>1, <1>9, <3>1
    <3>3. mem[Jb(g)] = 0 /\ mem[Prev(g)] = NoFrame /\ mem[Base(g)] = 0
      BY <3>2 DEF Inv, FieldsHeld, n
    <3> QED
      BY <1>7, <1>8, <2>2, <3>3
  <2> QED
    BY <2>1, <2>2
<1>10. mem'[Jb(Top.f)] = Top.jb0 /\ mem'[Prev(Top.f)] = Top.prev0 /\ mem'[Base(Top.f)] = Top.base0
  <2>1. Top.f \in Frames
    BY <1>1, RegionFacts
  <2>2. CASE Top.kind \in Nested
    <3>1. ~Gone(Top.f)
      <4>1. n - 1 \in 1..(n - 1)
        BY <1>1, <1>4, <2>2
      <4> QED
        BY <1>3, <1>4, <2>2, <4>1
    <3> QED
      BY <1>7, <1>8, <2>1, <2>2, <3>1
  <2>3. CASE Top.kind \notin Nested
    <3>1. Gone(Top.f)
      BY <1>1, <1>3, <1>4, <2>3
    <3> QED
      BY <1>4, <1>7, <1>8, <2>1, <2>3, <3>1
  <2> QED
    BY <2>2, <2>3
<1> QED
  BY <1>2, <1>5, <1>6, <1>9, <1>10 DEF Closed, n

\* goperl_xs_leave takes one off depth, and scope to 0 under the last level.
LEMMA LevelEnds ==
  ASSUME Inv, regions # << >>, Top.kind \in {"xsub", "bare", "direct", "pp"}
  PROVE  /\ depth > 0
         /\ (IF depth > 1 THEN depth - 1 ELSE 0) = depth - 1
         /\ (IF depth > 1 THEN scope ELSE 0) = Top.scope
<1> DEFINE n == Len(regions)
           B == SubSeq(regions, 1, n - 1)
<1>1. /\ n \in Nat /\ n > 0 /\ n \in 1..n /\ Top = regions[n] /\ Top \in Regions
      /\ scope = ScopeOf(Top)
  BY TopFacts
<1>2. Top.kind \in Levels /\ Top.kind # "scope"
  BY DEF Levels, Counted
<1>3. regions \in Seq(Regions) /\ n - 1 \in 0..n
  BY <1>1 DEF Inv, Types
<1>4. B \in Seq(Regions) /\ Len(B) = n - 1 /\ \A i \in 1..(n - 1) : B[i] = regions[i]
  <2> HIDE DEF B
  <2> QED
    BY ZenonT(30), <1>3, CutLast DEF B
<1> HIDE DEF B, n
<1>5. /\ IsFiniteSet(Deep(B)) /\ Cardinality(Deep(B)) \in Nat
      /\ depth = Cardinality(Deep(B)) + 1
  <2>1. /\ Len(regions) = Len(B) + 1 /\ \A i \in 1..Len(B) : regions[i] = B[i]
        /\ regions[Len(B) + 1].kind \in Levels
    BY <1>1, <1>2, <1>4 DEF n
  <2> QED
    BY <1>3, <1>4, <2>1, OneMore DEF Inv, Globals
<1>6. scope = Top.scope
  BY <1>1, <1>2 DEF ScopeOf
<1>7. Top.scope # 0 => depth > 1
  <2> SUFFICES ASSUME Top.scope # 0 PROVE depth > 1
    OBVIOUS
  <2>1. PICK k \in 1..n : k < n /\ regions[k].kind \in Levels
    BY <1>1 DEF Inv, Chain, UnderShelter, n
  <2>2. k \in Deep(B)
    BY <1>1, <1>4, <2>1 DEF Deep
  <2>3. Cardinality(Deep(B)) # 0
    BY <1>5, <2>2, FS_EmptySet
  <2> QED
    BY <1>5, <2>3
<1> QED
  BY <1>5, <1>6, <1>7

\* goperl_xs_leave closes the region on top when it finds its fields, as it does at
\* once or after a handler has already unwound.
LEMMA LeaveCloses ==
  ASSUME Inv, regions # << >>, ~aborted, aborted' = FALSE,
         Top.kind \in {"xsub", "bare", "direct", "pp"},
         Leave(mem, saves, Top.f, Below(Len(regions)))
  PROVE  Closed /\ HostUnwound(Top.start)
<1> DEFINE n == Len(regions)
           M == Unwound(mem, saves, Top.start, FALSE)
<1>1. /\ n \in Nat /\ n \in 1..n /\ Top = regions[n] /\ Top \in Regions
      /\ HeldBy(Top, n) /\ Len(saves) \in Nat /\ Top.start + Parked(Top) <= Len(saves)
  BY TopFacts
<1>2. mem[Base(Top.f)] = Top.start /\ mem[Prev(Top.f)] = Top.back
  BY <1>1 DEF HeldBy, BaseOf, PrevOf, Keeping
<1>3. /\ DOMAIN M = Slots
      /\ \A x \in Locs : M[Var(x)] \in Values
      /\ \A g \in Frames : g # Top.f \/ Parked(Top) = 0 =>
           M[Jb(g)] = mem[Jb(g)] /\ M[Prev(g)] = mem[Prev(g)] /\ M[Base(g)] = mem[Base(g)]
      /\ Parked(Top) = 3 =>
           M[Jb(Top.f)] = Top.jb0 /\ M[Prev(Top.f)] = Top.prev0 /\ M[Base(Top.f)] = Top.base0
  <2>1. \A k \in 1..n : ~(n < k)
    BY <1>1
  <2> HIDE DEF M
  <2>2. M = Unwound(mem, saves, regions[n].start, FALSE)
    BY <1>1 DEF M
  <2> QED
    BY ZenonT(30), <1>1, <2>1, <2>2, UnwoundTo
<1>4. /\ Settle(M, Below(n)) /\ saves' = Cut(saves, Top.start)
      /\ depth' = (IF depth > 1 THEN depth - 1 ELSE 0)
      /\ scope' = (IF depth > 1 THEN scope ELSE 0)
      /\ cur' = Top.back
  BY <1>2 DEF Leave, Base, Prev
<1>5. Top.kind \in Nested => Parked(Top) = 3
  BY DEF Nested, Parked, Parking
<1>6. saves' = SubSeq(saves, 1, Top.start)
  <2>1. Top.start \in Nat /\ Parked(Top) \in {0, 3}
    BY <1>1, RegionFacts
  <2>2. Top.start \in 0..Len(saves) /\ saves \in Seq(Entries)
    BY <1>1, <2>1 DEF Inv, Types
  <2> QED
    BY <1>4, <2>2, CutIs
<1>7. Top.kind \in Levels
  BY DEF Levels, Counted
<1>8. depth' = depth - 1 /\ scope' = Top.scope
  BY <1>4, LevelEnds
<1> HIDE DEF M
<1>9. Closed /\ \A x \in Locs : mem'[Var(x)] = M[Var(x)]
  BY <1>3, <1>4, <1>5, <1>6, <1>7, <1>8, SettleCloses
<1> QED
  BY <1>9 DEF M, HostUnwound

LEMMA ReturnCloses ==
  ASSUME Inv, Return
  PROVE  Closed /\ HostUnwound(Top.start)
<1>1. regions # << >> /\ ~aborted /\ aborted' = FALSE
  BY DEF Return, Running, Awake, Inv, Types
<1>2. cur = Top.f
  BY <1>1, TopFacts
<1> QED
  BY <1>1, <1>2, LeaveCloses DEF Return

\* The epilogue's loop has one turn: the frame of a body that has returned is its own.
LEMMA EpilogueCloses ==
  ASSUME Inv, Epilogue
  PROVE  Closed /\ HostUnwound(Top.start)
<1> DEFINE n == Len(regions)
<1>1. regions # << >> /\ Top.kind = "bare" /\ ~aborted /\ aborted' = FALSE
  BY DEF Epilogue, Epiloguing, Inv, Types
<1>2. /\ cur = Top.f /\ n \in Nat /\ n \in 1..n /\ n > 0 /\ Top = regions[n] /\ Top \in Regions
      /\ HeldBy(Top, n)
  BY <1>1, TopFacts
<1>3. depth > 0
  BY <1>1, LevelEnds
<1>4. mem[Prev(Top.f)] = Top.back
  BY <1>1, <1>2 DEF HeldBy, PrevOf, Keeping
<1>5. Top.back # Top.f
  <2>1. Top.f \in Frames /\ NoFrame \notin Frames
    BY <1>2, RegionFacts, FrameAssumption
  <2>2. n = 1 => Top.back = NoFrame
    BY <1>2 DEF Inv, Chain, Adjacent
  <2>3. n > 1 => Top.back = regions[n-1].f
    BY <1>2 DEF Inv, Chain, Adjacent
  <2>4. Top.kind \notin Nested
    BY <1>1 DEF Nested
  <2>5. \A k \in 1..n : k < n => regions[k].f # Top.f
    BY <1>2, <2>4 DEF Inv, Chain, OnFrames
  <2>6. n > 1 => n - 1 \in 1..n /\ n - 1 < n
    BY <1>2
  <2> HIDE DEF n
  <2> QED
    BY <1>2, <2>1, <2>2, <2>3, <2>5, <2>6
<1>6. Leave(mem, saves, Top.f, Below(n))
  BY <1>2, <1>3, <1>4, <1>5 DEF Epilogue, Prev
<1> QED
  BY <1>1, <1>6, LeaveCloses

\* A region on the frame of the one below began with that frame current.
LEMMA NestedBack ==
  ASSUME Inv, regions # << >>, Top.kind \in Nested
  PROVE  Top.back = Top.f
<1> DEFINE n == Len(regions)
<1>1. n \in 1..n /\ Top = regions[n]
  BY TopFacts
<1>2. n > 1 /\ Top.f = regions[n-1].f
  BY <1>1 DEF Inv, Chain, OnFrames
<1> QED
  BY <1>1, <1>2 DEF Inv, Chain, Adjacent

\* Nothing is unwound where the save stack has not grown.
LEMMA NothingSaved ==
  ASSUME Inv, regions # << >>, Len(saves) = Top.start
  PROVE  /\ saves = SubSeq(saves, 1, Top.start)
         /\ Cut(saves, Top.start) = saves
         /\ \A l \in Slots : Unwound(mem, saves, Top.start, FALSE)[l] = mem[l]
<1>1. saves \in Seq(Entries) /\ Len(saves) \in Nat
  BY LenProperties DEF Inv, Types
<1>2. saves = SubSeq(saves, 1, Top.start)
  BY <1>1, SubSeqFull
<1>3. \A l \in Slots : Unwound(mem, saves, Top.start, FALSE)[l] = mem[l]
  <2> DEFINE b == Top.start
  <2>1. b \in Nat /\ Len(saves) <= b
    BY <1>1
  <2> HIDE DEF b
  <2>2. \A l \in Slots : Unwound(mem, saves, b, FALSE)[l] = mem[l]
    BY <1>1, <2>1, FALSE \in BOOLEAN, UnwoundNothing
  <2> QED
    BY <2>2 DEF b
<1> QED
  BY <1>1, <1>2, <1>3 DEF Cut

LEMMA TryEndCloses ==
  ASSUME Inv, TryEnd
  PROVE  Closed /\ HostUnwound(Top.start)
<1> DEFINE n == Len(regions)
<1>1. regions # << >> /\ Top.kind = "try" /\ ~aborted /\ aborted' = FALSE
  BY DEF TryEnd, Running, Awake, Inv, Types
<1>2. /\ cur = Top.f /\ n \in 1..n /\ Top \in Regions /\ HeldBy(Top, n)
      /\ Len(saves) = Top.start /\ scope = ScopeOf(Top)
  BY <1>1, TopFacts
<1>3. Top.f \in Frames
  BY <1>2, RegionFacts
<1>4. Top.back = Top.f
  BY <1>1, NestedBack DEF Nested
<1>5. mem' = [mem EXCEPT ![Jb(Top.f)] = Top.jb0] /\ DOMAIN mem = Slots
  BY <1>2 DEF TryEnd, Jb, Inv, Types
<1>6. /\ DOMAIN mem' = Slots
      /\ \A x \in Locs : mem'[Var(x)] = mem[Var(x)]
      /\ \A g \in Frames : g # Top.f =>
           mem'[Jb(g)] = mem[Jb(g)] /\ mem'[Prev(g)] = mem[Prev(g)] /\ mem'[Base(g)] = mem[Base(g)]
      /\ mem'[Jb(Top.f)] = Top.jb0
      /\ mem'[Prev(Top.f)] = mem[Prev(Top.f)] /\ mem'[Base(Top.f)] = mem[Base(Top.f)]
  BY <1>3, <1>5, SlotNames
<1>7. mem[Prev(Top.f)] = Top.prev0 /\ mem[Base(Top.f)] = Top.base0
  BY <1>1, <1>2 DEF HeldBy, PrevOf, BaseOf, Keeping
<1>8. /\ regions' = SubSeq(regions, 1, n - 1) /\ saves' = saves /\ cur' = cur
      /\ scope' = scope /\ depth' = depth
  BY DEF TryEnd, Below
<1>9. Top.kind \notin Levels /\ ScopeOf(Top) = Top.scope
  BY <1>1 DEF Levels, Counted, ScopeOf
<1>10. \A x \in Locs : mem[Var(x)] \in Values
  BY DEF Inv, Types
<1>11. saves' = SubSeq(saves, 1, Top.start)
  BY <1>1, <1>2, <1>8, NothingSaved
<1>12. HostUnwound(Top.start)
  <2>1. \A x \in Locs : mem'[Var(x)] = Unwound(mem, saves, Top.start, FALSE)[Var(x)]
    BY <1>1, <1>2, <1>6, NothingSaved, SlotNames
  <2> QED
    BY <2>1 DEF HostUnwound
<1> QED
  BY <1>1, <1>2, <1>4, <1>6, <1>7, <1>8, <1>9, <1>10, <1>11, <1>12 DEF Closed

\* The tails of the invokers and the catch of a TRY block: jb is put back, the frame is
\* dropped unless it goes on.
LEMMA TailCloses ==
  ASSUME Inv, regions # << >>, ~aborted, aborted' = FALSE,
         Top.kind \in {"hook", "keyword", "try"},
         NEW m, DOMAIN m = Slots, \A l \in Slots : m[l] = mem[l],
         Settle([m EXCEPT ![<<"jb", cur>>] = Top.jb0], Below(Len(regions))),
         cur' = Top.back, saves' = saves, scope' = scope,
         depth' = IF Top.kind = "keyword" THEN depth - 1 ELSE depth
  PROVE  Closed /\ HostUnwound(Top.start)
<1> DEFINE n == Len(regions)
           M == [m EXCEPT ![Jb(Top.f)] = Top.jb0]
<1>1. /\ cur = Top.f /\ Top \in Regions /\ HeldBy(Top, n)
      /\ Len(saves) = Top.start /\ scope = ScopeOf(Top)
  BY TopFacts
<1>2. Top.f \in Frames
  BY <1>1, RegionFacts
<1>3. Settle(M, Below(n))
  BY <1>1 DEF Jb
<1>4. \A x \in Locs : Var(x) \in Slots /\ mem[Var(x)] \in Values
  BY SlotNames DEF Inv, Types
<1>5. /\ DOMAIN M = Slots
      /\ \A x \in Locs : M[Var(x)] = mem[Var(x)]
      /\ \A g \in Frames : g # Top.f =>
           M[Jb(g)] = mem[Jb(g)] /\ M[Prev(g)] = mem[Prev(g)] /\ M[Base(g)] = mem[Base(g)]
      /\ M[Jb(Top.f)] = Top.jb0
      /\ M[Prev(Top.f)] = mem[Prev(Top.f)] /\ M[Base(Top.f)] = mem[Base(Top.f)]
  BY <1>2, SlotNames
<1>6. Top.kind = "try" => mem[Prev(Top.f)] = Top.prev0 /\ mem[Base(Top.f)] = Top.base0
  BY <1>1 DEF HeldBy, PrevOf, BaseOf, Keeping
<1>7. /\ Top.kind \in Nested => Top.kind = "try"
      /\ Top.kind \in Levels <=> Top.kind = "keyword"
      /\ ScopeOf(Top) = Top.scope
  BY DEF Nested, Levels, Counted, ScopeOf
<1>8. saves' = SubSeq(saves, 1, Top.start)
  BY <1>1, NothingSaved
<1> HIDE DEF M
<1>9. Closed /\ \A x \in Locs : mem'[Var(x)] = M[Var(x)]
  BY ZenonT(30), <1>1, <1>3, <1>4, <1>5, <1>6, <1>7, <1>8, SettleCloses
<1>10. HostUnwound(Top.start)
  <2>1. \A x \in Locs : mem'[Var(x)] = Unwound(mem, saves, Top.start, FALSE)[Var(x)]
    BY <1>1, <1>4, <1>5, <1>9, NothingSaved
  <2> QED
    BY <2>1 DEF HostUnwound
<1> QED
  BY <1>9, <1>10

LEMMA HookReturnCloses ==
  ASSUME Inv, HookReturn
  PROVE  Closed /\ HostUnwound(Top.start)
<1>1. regions # << >> /\ ~aborted /\ aborted' = FALSE /\ Top.kind = "hook"
  BY DEF HookReturn, Running, Awake, Inv, Types
<1>2. DOMAIN mem = Slots
  BY DEF Inv, Types
<1> QED
  BY <1>1, <1>2, TailCloses DEF HookReturn, HookTail, Top

LEMMA KeywordReturnCloses ==
  ASSUME Inv, KeywordReturn
  PROVE  Closed /\ HostUnwound(Top.start)
<1>1. regions # << >> /\ ~aborted /\ aborted' = FALSE /\ Top.kind = "keyword"
  BY DEF KeywordReturn, Running, Awake, Inv, Types
<1>2. DOMAIN mem = Slots
  BY DEF Inv, Types
<1> QED
  BY <1>1, <1>2, TailCloses DEF KeywordReturn, KeywordTail, Top

LEMMA LeaveBaseIs ==
  ASSUME Inv, regions # << >>, Top.kind = "scope"
  PROVE  LeaveBase = Top.start
<1> DEFINE n == Len(regions)
           b == Top.start
           S == {0} \cup {i \in DOMAIN saves : saves[i].scope < scope}
<1>1. /\ n \in 1..n /\ Top = regions[n] /\ Top \in Regions /\ scope = ScopeOf(Top)
      /\ Len(saves) \in Nat /\ b + Parked(Top) <= Len(saves)
  BY TopFacts
<1>2. /\ b \in Nat /\ Top.scope \in Nat /\ scope = Top.scope + 1 /\ b <= Len(saves)
      /\ ScopeOf(Top) = Top.scope + 1
  BY <1>1, RegionFacts DEF ScopeOf
<1>3. saves \in Seq(Entries) /\ DOMAIN saves = 1..Len(saves)
  BY LenProperties DEF Inv, Types
<1>4. \A p \in 1..Len(saves) : saves[p].scope \in Nat
  <2>1. \A p \in 1..Len(saves) : saves[p] \in Entries
    BY <1>3, ElementOfSeq
  <2> QED
    BY <2>1 DEF Entries
<1>5. \A p \in 1..Len(saves) : IF p <= b THEN saves[p].scope <= Top.scope
                               ELSE saves[p].scope >= Top.scope + 1
  BY <1>1, <1>2 DEF Inv, Tagged
<1> HIDE DEF n, b
<1>6. b \in S
  BY <1>2, <1>3, <1>4, <1>5
<1>7. S \subseteq Int /\ \A y \in S : b >= y
  BY <1>1, <1>2, <1>3, <1>4, <1>5
<1> HIDE DEF S
<1>8. Max(S) = b
  BY <1>6, <1>7, MaxIs
<1> QED
  BY <1>8 DEF LeaveBase, S, b

LEMMA LeaveScopeCloses ==
  ASSUME Inv, LeaveScope
  PROVE  Closed /\ HostUnwound(Top.start)
<1> DEFINE n == Len(regions)
           M == Unwound(mem, saves, Top.start, TRUE)
<1>1. regions # << >> /\ Top.kind = "scope" /\ ~aborted /\ aborted' = FALSE
  BY DEF LeaveScope, Running, Awake, Inv, Types
<1>2. /\ cur = Top.f /\ n \in Nat /\ n \in 1..n /\ Top = regions[n] /\ Top \in Regions
      /\ HeldBy(Top, n) /\ Len(saves) \in Nat /\ Top.start + Parked(Top) <= Len(saves)
      /\ scope = ScopeOf(Top)
  BY <1>1, TopFacts
<1>3. /\ Top.back = Top.f
      /\ mem[Jb(Top.f)] = Top.jb0 /\ mem[Prev(Top.f)] = Top.prev0 /\ mem[Base(Top.f)] = Top.base0
  BY <1>1, <1>2, NestedBack DEF Nested, HeldBy, JbOf, PrevOf, BaseOf, Keeping
<1>4. /\ Top.f \in Frames /\ Top.start \in Nat /\ Top.scope \in Nat /\ Parked(Top) = 0
      /\ scope = Top.scope + 1 /\ Top.kind \notin Levels
  BY <1>1, <1>2, RegionFacts DEF Parked, Parking, ScopeOf, Levels, Counted
<1>5. /\ DOMAIN M = Slots
      /\ \A x \in Locs : M[Var(x)] \in Values
      /\ \A g \in Frames :
           M[Jb(g)] = mem[Jb(g)] /\ M[Prev(g)] = mem[Prev(g)] /\ M[Base(g)] = mem[Base(g)]
  <2>1. \A k \in 1..n : ~(n < k)
    BY <1>2
  <2> HIDE DEF M
  <2>2. M = Unwound(mem, saves, regions[n].start, TRUE)
    BY <1>2 DEF M
  <2>3. /\ DOMAIN M = Slots
        /\ \A x \in Locs : M[Var(x)] \in Values
        /\ \A g \in Frames : g # Top.f \/ Parked(Top) = 0 =>
             M[Jb(g)] = mem[Jb(g)] /\ M[Prev(g)] = mem[Prev(g)] /\ M[Base(g)] = mem[Base(g)]
    BY ZenonT(30), <1>2, <2>1, <2>2, UnwoundTo
  <2> QED
    BY <1>4, <2>3
<1>6. mem' = M /\ saves' = Cut(saves, Top.start)
  BY <1>1, LeaveBaseIs DEF LeaveScope
<1>7. saves' = SubSeq(saves, 1, Top.start)
  <2>1. Top.start \in 0..Len(saves) /\ saves \in Seq(Entries)
    BY <1>2, <1>4 DEF Inv, Types
  <2> QED
    BY <1>6, <2>1, CutIs
<1>8. /\ regions' = SubSeq(regions, 1, n - 1) /\ cur' = Top.back
      /\ scope' = Top.scope /\ depth' = depth
  BY <1>2, <1>3, <1>4 DEF LeaveScope, Below
<1>9. HostUnwound(Top.start)
  BY <1>6 DEF HostUnwound
<1> HIDE DEF M
<1> QED
  BY <1>1, <1>3, <1>4, <1>5, <1>6, <1>7, <1>8, <1>9 DEF Closed

-------------------------------------------------------------------------------
(* Croaks.                                                                 *)

\* A croak finds a buffer: that of the last region that armed one.
LEMMA TargetIs ==
  ASSUME Inv, Running
  PROVE  /\ Target \in 1..Len(regions) /\ regions[Target].kind # "scope"
         /\ \A k \in 1..Len(regions) : Target < k => regions[k].kind = "scope"
         /\ Target # 0 /\ cur = Top.f /\ cur \in Frames
<1> DEFINE n == Len(regions)
<1>1. regions # << >> /\ ~aborted
  BY DEF Running, Awake
<1>2. /\ cur = Top.f /\ n \in Nat /\ n \in 1..n /\ Top = regions[n] /\ Top \in Regions
      /\ HeldBy(Top, n)
  BY <1>1, TopFacts
<1>3. Target = JbOf(regions[n], n)
  BY <1>2 DEF HeldBy, Target, Jb
<1>4. /\ Target \in 1..n /\ regions[Target].kind # "scope"
      /\ \A k \in 1..n : Target < k /\ k <= n => regions[k].kind = "scope"
  BY <1>2, <1>3 DEF Inv, Chain, Armed
<1>5. Top.f \in Frames
  BY <1>2, RegionFacts
<1> QED
  BY <1>2, <1>4, <1>5

LEMMA CroakFromHookCloses ==
  ASSUME Inv, Careful, CroakFromHook
  PROVE  Closed /\ HostUnwound(Top.start)
<1>1. /\ Running /\ regions # << >> /\ ~aborted /\ aborted' = FALSE
      /\ regions[Target].kind = "hook"
      /\ Target = Len(regions)
  BY DEF CroakFromHook, Jump, Expected, Running, Awake, Inv, Types
<1>2. DOMAIN mem = Slots
  BY DEF Inv, Types
<1> QED
  BY <1>1, <1>2, TailCloses DEF CroakFromHook, HookTail, Top

LEMMA CroakFromTryCloses ==
  ASSUME Inv, Careful, CroakFromTry
  PROVE  Closed /\ HostUnwound(Top.start)
<1>1. /\ Running /\ regions # << >> /\ ~aborted /\ aborted' = FALSE
      /\ regions[Target].kind = "try"
      /\ Target = Len(regions) /\ Top.kind = "try"
  BY DEF CroakFromTry, Jump, Expected, Running, Awake, Inv, Types, Top
<1>2. DOMAIN mem = Slots
  BY DEF Inv, Types
<1>3. Top.back = cur
  BY <1>1, NestedBack, TopFacts DEF Nested
<1> QED
  BY <1>1, <1>2, <1>3, TailCloses DEF CroakFromTry, Top

LEMMA CroakFromKeywordCloses ==
  ASSUME Inv, Careful, CroakFromKeyword
  PROVE  Closed /\ HostUnwound(Top.start)
<1> DEFINE M == Unwound(mem, saves, Top.start, FALSE)
<1>1. /\ Running /\ regions # << >> /\ ~aborted /\ aborted' = FALSE
      /\ regions[Target].kind = "keyword"
      /\ Target = Len(regions) /\ Top.kind = "keyword"
  BY DEF CroakFromKeyword, Jump, Expected, Running, Awake, Inv, Types, Top
<1>2. /\ cur = Top.f /\ HeldBy(Top, Len(regions)) /\ Len(saves) = Top.start
  BY <1>1, TopFacts
<1>3. mem[<<"base", cur>>] = Top.start
  BY <1>1, <1>2 DEF HeldBy, BaseOf, Keeping, Base
<1>4. DOMAIN M = Slots /\ \A l \in Slots : M[l] = mem[l]
  <2>1. DOMAIN M = Slots
    BY DEF Unwound
  <2> QED
    BY <1>1, <1>2, <2>1, NothingSaved
<1>5. Cut(saves, Top.start) = saves
  BY <1>1, <1>2, NothingSaved
<1>6. /\ Settle([M EXCEPT ![<<"jb", cur>>] = Top.jb0], Below(Len(regions)))
      /\ cur' = Top.back /\ depth' = depth - 1 /\ scope' = scope /\ saves' = saves
  BY <1>1, <1>3, <1>5 DEF CroakFromKeyword, KeywordTail, Top
<1> HIDE DEF M
<1> QED
  BY <1>1, <1>4, <1>6, TailCloses

\* What the croak of an XSUB that was called at rest leaves: no native code runs.
Rested ==
  /\ regions # << >> /\ ~aborted /\ aborted' = FALSE
  /\ regions' = << >> /\ saves' = << >> /\ cur' = NoFrame
  /\ scope' = 0 /\ depth' = 0
  /\ DOMAIN mem' = Slots
  /\ \A g \in Frames : mem'[Jb(g)] = 0 /\ mem'[Prev(g)] = NoFrame /\ mem'[Base(g)] = 0
  /\ \A x \in Locs : mem'[Var(x)] \in Values

LEMMA RestedInv ==
  ASSUME Inv, Rested
  PROVE  Inv'
<1>1. /\ regions' \in Seq(Regions) /\ saves' \in Seq(Entries)
      /\ Len(regions') = 0 /\ Len(saves') = 0
      /\ 1..Len(regions') = {} /\ 1..Len(saves') = {}
  BY EmptySeq DEF Rested
<1>2. Types'
  <2>1. cur' \in MaybeFrame /\ scope' \in Nat /\ depth' \in Nat /\ aborted' \in BOOLEAN
    BY DEF Rested, MaybeFrame
  <2>2. \A g \in Frames : /\ mem'[Jb(g)] \in 0..MaxRegions /\ mem'[Prev(g)] \in MaybeFrame
                          /\ mem'[Base(g)] \in 0..MaxSaves
    BY FrameAssumption DEF Rested, MaybeFrame
  <2> QED
    BY <1>1, <2>1, <2>2, FrameAssumption DEF Types, Rested
<1>3. Chain(regions')
  BY <1>1 DEF Chain, Armed, Adjacent, Ordered, OnFrames, AtRest, UnderShelter
<1>4. Globals'
  <2>1. Deep(regions') = {}
    BY <1>1 DEF Deep
  <2>2. Cardinality(Deep(regions')) = 0
    BY <2>1, FS_EmptySet
  <2> QED
    BY <2>2 DEF Globals, Rested
<1>5. FieldsHeld'
  BY <1>1 DEF FieldsHeld, Rested
<1>6. FieldsParked' /\ Tagged'
  BY <1>1 DEF FieldsParked, Tagged
<1> QED
  BY <1>2, <1>3, <1>4, <1>5, <1>6 DEF Inv

LEMMA CroakAtRest ==
  ASSUME Inv, CroakFromXsub, regions[Target].kind = "xsub", Target = 1
  PROVE  Rested /\ HostUnwound(0)
<1> DEFINE n == Len(regions)
           M == Unwound(mem, saves, 0, FALSE)
           r == regions[1]
<1>1. Running /\ regions # << >> /\ ~aborted /\ aborted' = FALSE
  BY DEF CroakFromXsub, Jump, Running, Awake, Inv, Types
<1>2. /\ cur = Top.f /\ n \in Nat /\ n \in 1..n /\ Top = regions[n] /\ Top \in Regions
      /\ HeldBy(Top, n)
      /\ Len(saves) \in Nat /\ saves \in Seq(Entries) /\ regions \in Seq(Regions)
  BY <1>1, TopFacts DEF Inv, Types
<1>3. \A k \in 1..n : 1 < k => regions[k].kind = "scope"
  BY <1>1, TargetIs
<1>4. 1 \in 1..n /\ r \in Regions
  <2>1. 1 \in 1..n
    BY <1>2
  <2> QED
    BY <1>2, <2>1, ElementOfSeq
<1>5. BaseOf(Top) = 0 /\ PrevOf(Top) = NoFrame /\ Top.f = r.f
  BY <1>2, <1>3 DEF Inv, Chain, AtRest
<1>6. mem[<<"base", cur>>] = 0
  BY <1>2, <1>5 DEF HeldBy, Base
<1>7. r.kind = "xsub" /\ r.start = 0 /\ r.prev0 = NoFrame /\ r.base0 = 0 /\ Parked(r) = 3
  <2>1. r.kind = "xsub"
    OBVIOUS
  <2>2. r.start = 0
    BY <1>4 DEF Inv, Chain, Adjacent
  <2>3. r.kind \notin Nested
    BY <2>1 DEF Nested
  <2>4. r.prev0 = NoFrame /\ r.base0 = 0
    BY <1>4, <2>3 DEF Inv, Chain, OnFrames
  <2> HIDE DEF r
  <2> QED
    BY <2>1, <2>2, <2>4 DEF Parked, Parking
<1>8. /\ DOMAIN M = Slots /\ \A x \in Locs : M[Var(x)] \in Values
      /\ M[Prev(cur)] = NoFrame /\ M[Base(cur)] = 0
  <2>1. \A k \in 1..n : 1 < k => Parked(regions[k]) = 0
    BY <1>3 DEF Parked, Parking
  <2> HIDE DEF M
  <2>2. M = Unwound(mem, saves, regions[1].start, FALSE)
    BY <1>7 DEF M
  <2>3. /\ DOMAIN M = Slots
        /\ \A x \in Locs : M[Var(x)] \in Values
        /\ Parked(r) = 3 =>
             M[Jb(r.f)] = r.jb0 /\ M[Prev(r.f)] = r.prev0 /\ M[Base(r.f)] = r.base0
    BY ZenonT(30), <1>4, <2>1, <2>2, UnwoundTo
  <2> QED
    BY <1>2, <1>5, <1>7, <2>3
<1>9. Cut(saves, 0) = << >> /\ Cut(<< >>, 0) = << >> /\ Below(1) = << >>
  <2>1. Cut(saves, 0) = SubSeq(saves, 1, 0)
    BY <1>2, CutIs
  <2>2. SubSeq(saves, 1, 0) = << >> /\ SubSeq(regions, 1, 1 - 1) = << >>
    BY SubSeqEmpty
  <2>3. Len(<< >>) = 0
    BY EmptySeq
  <2> QED
    BY <2>1, <2>2, <2>3 DEF Cut, Below
<1> DEFINE N == Unwound(M, << >>, 0, FALSE)
<1>10. DOMAIN N = Slots /\ \A l \in Slots : N[l] = M[l]
  <2>1. DOMAIN N = Slots
    BY DEF Unwound
  <2>2. Len(<< >>) \in Nat /\ Len(<< >>) <= 0 /\ 0 \in Nat
    BY EmptySeq
  <2> HIDE DEF M
  <2>3. \A l \in Slots : Unwound(M, << >>, 0, FALSE)[l] = M[l]
    BY <2>2, FALSE \in BOOLEAN, UnwoundNothing
  <2> QED
    BY <2>1, <2>3
<1>11. /\ Settle(N, << >>) /\ saves' = << >> /\ cur' = NoFrame
       /\ depth' = (IF depth > 1 THEN depth - 1 ELSE 0)
       /\ scope' = (IF depth > 1 THEN scope ELSE 0)
  <2> HIDE DEF M
  <2>1. Leave(M, << >>, cur, << >>)
    BY <1>6, <1>9 DEF CroakFromXsub, M
  <2> QED
    BY <1>8, <1>9, <2>1 DEF Leave, Base, Prev
<1>12. depth = 1
  <2>1. Deep(regions) = {1}
    BY <1>3, <1>4, <1>7 DEF Deep, Levels, Counted
  <2> QED
    BY <2>1, FS_Singleton DEF Inv, Globals
<1> HIDE DEF M, N
<1>13. DOMAIN << >> = {}
  OBVIOUS
<1>14. /\ DOMAIN mem' = Slots /\ regions' = << >>
       /\ \A l \in Slots : mem'[l] = IF l[1] # "host" THEN Zero(l) ELSE N[l]
  BY <1>11, <1>13 DEF Settle
<1>15. \A g \in Frames : mem'[Jb(g)] = 0 /\ mem'[Prev(g)] = NoFrame /\ mem'[Base(g)] = 0
  BY <1>14, SlotNames DEF Fields
<1>16. \A x \in Locs : mem'[Var(x)] = M[Var(x)]
  BY <1>10, <1>14, SlotNames
<1>17. HostUnwound(0)
  BY <1>16 DEF HostUnwound, M
<1> QED
  BY <1>1, <1>8, <1>11, <1>12, <1>14, <1>15, <1>16, <1>17 DEF Rested

LEMMA CroakFromPpCloses ==
  ASSUME Inv, CroakFromXsub, regions[Target].kind = "pp", Target = Len(regions)
  PROVE  Closed /\ HostUnwound(Top.start)
<1> DEFINE n == Len(regions)
           b == Top.start
           M == Unwound(mem, saves, b, FALSE)
           s == SubSeq(saves, 1, b)
           N == Unwound(M, s, b, FALSE)
<1>1. /\ Running /\ regions # << >> /\ ~aborted /\ aborted' = FALSE /\ Top.kind = "pp"
  BY DEF CroakFromXsub, Jump, Running, Awake, Inv, Types, Top
<1>2. /\ cur = Top.f /\ n \in Nat /\ n \in 1..n /\ Top = regions[n] /\ Top \in Regions
      /\ HeldBy(Top, n)
      /\ Len(saves) \in Nat /\ b + Parked(Top) <= Len(saves)
      /\ saves \in Seq(Entries)
  BY <1>1, TopFacts DEF Inv, Types
<1>3. /\ mem[Base(cur)] = b /\ mem[Prev(cur)] = Top.back /\ Parked(Top) = 0
      /\ Top.kind \notin Nested /\ Top.kind \in Levels
  BY <1>1, <1>2 DEF HeldBy, BaseOf, PrevOf, Keeping, Parked, Parking, Nested, Levels, Counted
<1>4. b \in Nat /\ b \in 0..Len(saves) /\ cur \in Frames
  BY <1>2, <1>3, RegionFacts
<1>5. /\ DOMAIN M = Slots
      /\ \A x \in Locs : M[Var(x)] \in Values
      /\ \A g \in Frames : g # Top.f \/ Parked(Top) = 0 =>
           M[Jb(g)] = mem[Jb(g)] /\ M[Prev(g)] = mem[Prev(g)] /\ M[Base(g)] = mem[Base(g)]
  <2>1. \A k \in 1..n : ~(n < k)
    BY <1>2
  <2> HIDE DEF M
  <2>2. M = Unwound(mem, saves, regions[n].start, FALSE)
    BY <1>2 DEF M
  <2> QED
    BY ZenonT(30), <1>2, <2>1, <2>2, UnwoundTo
<1>6. M[Base(cur)] = b /\ M[Prev(cur)] = Top.back
  BY <1>3, <1>4, <1>5
<1>7. Cut(saves, b) = s /\ s \in Seq(Entries) /\ Len(s) = b /\ Cut(s, b) = s
  <2>1. Cut(saves, b) = s
    BY <1>2, <1>4, CutIs
  <2>2. s \in Seq(Entries) /\ Len(s) = b
    BY <1>2, <1>4, CutLast
  <2> HIDE DEF s, b
  <2> QED
    BY <1>4, <2>1, <2>2 DEF Cut
<1>8. DOMAIN N = Slots /\ \A l \in Slots : N[l] = M[l]
  <2>1. DOMAIN N = Slots
    BY DEF Unwound
  <2> HIDE DEF M, s, b
  <2>2. Len(s) \in Nat /\ Len(s) <= b /\ b \in Nat
    BY <1>4, <1>7
  <2>3. \A l \in Slots : Unwound(M, s, b, FALSE)[l] = M[l]
    BY <2>2, FALSE \in BOOLEAN, UnwoundNothing
  <2> QED
    BY <2>1, <2>3
<1>9. /\ Settle(N, Below(n)) /\ saves' = s /\ cur' = Top.back
      /\ depth' = (IF depth > 1 THEN depth - 1 ELSE 0)
      /\ scope' = (IF depth > 1 THEN scope ELSE 0)
  <2>1. Leave(M, s, cur, Below(n))
    BY <1>3, <1>7 DEF CroakFromXsub, Base
  <2> HIDE DEF M, s, b
  <2>2. LET base == M[Base(cur)] IN
        /\ Settle(Unwound(M, s, base, FALSE), Below(n)) /\ saves' = Cut(s, base)
        /\ cur' = M[Prev(cur)]
    BY <2>1 DEF Leave, Base, Prev
  <2> QED
    BY <1>6, <1>7, <2>1, <2>2 DEF Leave
<1>10. depth' = depth - 1 /\ scope' = Top.scope
  BY <1>1, <1>9, LevelEnds
<1>11. \A x \in Locs : Var(x) \in Slots
  BY SlotNames
<1>12. \A g \in Frames : Jb(g) \in Slots /\ Prev(g) \in Slots /\ Base(g) \in Slots
  BY SlotNames
<1> HIDE DEF M, N
<1>13. Closed /\ \A x \in Locs : mem'[Var(x)] = N[Var(x)]
  BY <1>1, <1>3, <1>5, <1>8, <1>9, <1>10, <1>11, <1>12, SettleCloses
<1>14. \A x \in Locs : mem'[Var(x)] = M[Var(x)]
  BY <1>8, <1>11, <1>13
<1> QED
  BY <1>13, <1>14 DEF HostUnwound, M

-------------------------------------------------------------------------------
(* The other actions, and the invariant.                                   *)

LEMMA SaveInv ==
  ASSUME Inv, NEW x \in Locs, NEW v \in Values, Save(x, v)
  PROVE  Inv'
<1> DEFINE n == Len(regions)
           m == Len(saves)
           w == IF x \in Ints THEN 4 ELSE 0
           e == Saved(<<"host", x>>, w)
<1>1. /\ regions # << >> /\ ~aborted /\ Top.kind \in {"xsub", "direct", "pp", "scope"}
      /\ m < MaxSaves /\ saves' = Append(saves, e)
      /\ mem' = [mem EXCEPT ![Var(x)] = v]
      /\ cur' = cur /\ depth' = depth /\ scope' = scope /\ regions' = regions
      /\ aborted' = aborted
  BY DEF Save, Running, Awake, Var
<1>2. /\ n \in Nat /\ n \in 1..n /\ Top = regions[n] /\ Top \in Regions /\ m \in Nat
      /\ scope = ScopeOf(Top)
  BY <1>1, TopFacts
<1>3. saves \in Seq(Entries) /\ regions \in Seq(Regions) /\ DOMAIN mem = Slots
  BY DEF Inv, Types
<1>4. e \in Entries /\ e.loc = Var(x) /\ e.val = mem[Var(x)] /\ e.scope = scope
  <2>1. w \in {0, 4}
    OBVIOUS
  <2> HIDE DEF w
  <2> QED
    BY <2>1, SavedTyped DEF Var
<1> HIDE DEF e
<1>5. /\ saves' \in Seq(Entries) /\ Len(saves') = m + 1 /\ saves'[m + 1] = e
      /\ \A p \in 1..m : saves'[p] = saves[p]
  BY <1>1, <1>3, <1>4, AppendProperties
<1>6. /\ DOMAIN mem' = Slots /\ mem'[Var(x)] = v
      /\ \A y \in Locs : y # x => mem'[Var(y)] = mem[Var(y)]
      /\ \A g \in Frames : mem'[Jb(g)] = mem[Jb(g)] /\ mem'[Prev(g)] = mem[Prev(g)]
                           /\ mem'[Base(g)] = mem[Base(g)]
  BY <1>1, <1>3, SlotNames
<1>7. \A i \in 1..n : /\ regions[i] \in Regions /\ regions[i].f \in Frames
                      /\ regions[i].start \in Nat
                      /\ Parked(regions[i]) \in {0, 3} /\ ScopeOf(regions[i]) \in Nat
                      /\ regions[i].scope \in Nat /\ regions[i].scope <= ScopeOf(regions[i])
  BY <1>3, ElementOfSeq, RegionFacts
<1>8. \A i \in 1..n : regions[i].start + Parked(regions[i]) <= m
  BY DEF Inv, FieldsParked
<1> HIDE DEF n, m
<1>9. Types'
  <2>1. \A y \in Locs : mem'[Var(y)] \in Values
    BY <1>6 DEF Inv, Types
  <2>2. Len(saves') <= MaxSaves
    BY <1>1, <1>2, <1>5, FrameAssumption
  <2>3. \A g \in Frames : /\ mem'[Jb(g)] \in 0..MaxRegions /\ mem'[Prev(g)] \in MaybeFrame
                          /\ mem'[Base(g)] \in 0..MaxSaves
    BY <1>6 DEF Inv, Types
  <2> QED
    BY <1>1, <1>5, <1>6, <2>1, <2>2, <2>3 DEF Inv, Types
<1>10. Chain(regions')
  BY <1>1 DEF Inv
<1>11. Globals'
  <2>1. Top' = Top
    BY <1>1 DEF Top
  <2> QED
    BY <1>1, <2>1 DEF Inv, Globals
<1>12. FieldsHeld'
  <2>1. \A i \in 1..n : HeldBy(regions[i], i) => HeldBy(regions[i], i)'
    BY <1>1, <1>6, <1>7 DEF HeldBy
  <2> QED
    BY <1>1, <1>6, <2>1 DEF Inv, FieldsHeld, n
<1>13. FieldsParked'
  <2>1. ASSUME NEW i \in 1..n, Parked(regions[i]) = 3
        PROVE  LET r == regions[i] IN
               /\ saves'[r.start + 1].loc = Base(r.f) /\ saves'[r.start + 1].val = r.base0
               /\ saves'[r.start + 2].loc = Prev(r.f) /\ saves'[r.start + 2].val = r.prev0
               /\ saves'[r.start + 3].loc = Jb(r.f)   /\ saves'[r.start + 3].val = r.jb0
    <3>1. /\ regions[i].start + 1 \in 1..m /\ regions[i].start + 2 \in 1..m
          /\ regions[i].start + 3 \in 1..m
      BY <1>2, <1>7, <1>8, <2>1
    <3> QED
      BY <1>5, <2>1, <3>1 DEF Inv, FieldsParked, n
  <2>2. \A i \in 1..n : regions[i].start + Parked(regions[i]) <= Len(saves')
    BY SMTT(30), <1>2, <1>5, <1>7, <1>8
  <2>3. ASSUME NEW p \in 1..(m + 1)
        PROVE  \/ saves'[p].val \in Values /\ \E y \in Locs : saves'[p].loc = Var(y)
               \/ \E i \in 1..n : ParkedBy(i, p)
    <3>1. CASE p = m + 1
      <4>1. mem[Var(x)] \in Values
        BY DEF Inv, Types
      <4> QED
        BY <1>4, <1>5, <3>1, <4>1
    <3>2. CASE p \in 1..m
      BY <1>5, <3>2 DEF Inv, FieldsParked, n, m
    <3> QED
      BY <1>2, <3>1, <3>2
  <2>4. \A i \in 1..n : \A p \in 1..(m + 1) : ParkedBy(i, p) => ParkedBy(i, p)'
    BY <1>1 DEF ParkedBy
  <2> QED
    BY <1>1, <1>5, <2>1, <2>2, <2>3, <2>4 DEF FieldsParked, n
<1>14. Tagged'
  <2>1. \A k \in 1..n : ScopeOf(regions[k]) <= scope
    <3> SUFFICES ASSUME NEW k \in 1..n PROVE ScopeOf(regions[k]) <= scope
      OBVIOUS
    <3>1. CASE k = n
      BY <1>2, <1>7, <3>1
    <3>2. CASE k < n
      <4>1. ScopeOf(regions[k]) <= regions[n].scope
        BY <1>2, <3>2 DEF Inv, Chain, Ordered, n
      <4>2. regions[n].scope \in Nat /\ ScopeOf(regions[n]) \in Nat
            /\ ScopeOf(regions[k]) \in Nat /\ regions[n].scope <= ScopeOf(regions[n])
        BY <1>2, <1>7
      <4> QED
        BY <1>2, <4>1, <4>2
    <3> QED
      BY <1>2, <3>1, <3>2
  <2>2. ASSUME NEW p \in 1..(m + 1)
        PROVE  /\ saves'[p].scope <= scope
               /\ \A j \in 1..n : IF p <= regions[j].start THEN saves'[p].scope <= regions[j].scope
                                  ELSE saves'[p].scope >= ScopeOf(regions[j])
    <3>1. CASE p = m + 1
      <4>1. \A j \in 1..n : ~(p <= regions[j].start)
        BY <1>2, <1>7, <1>8, <3>1
      <4>2. saves'[p].scope = scope /\ scope \in Nat
        BY <1>4, <1>5, <3>1 DEF Inv, Types
      <4> QED
        BY <1>7, <2>1, <4>1, <4>2
    <3>2. CASE p \in 1..m
      BY <1>5, <3>2 DEF Inv, Tagged, n, m
    <3> QED
      BY <1>2, <3>1, <3>2
  <2> QED
    BY <1>1, <1>5, <2>2 DEF Tagged, n
<1> QED
  BY <1>9, <1>10, <1>11, <1>12, <1>13, <1>14 DEF Inv

LEMMA BareRegions ==
  ASSUME Inv, BareReturn, NEW n, n = Len(regions)
  PROVE  /\ regions # << >> /\ ~aborted /\ n \in Nat /\ n \in 1..n
         /\ regions' \in Seq(Regions) /\ Len(regions') = n /\ regions' # << >>
         /\ regions[n].kind = "xsub"
         /\ regions'[n] = [regions[n] EXCEPT !.kind = "bare"]
         /\ \A i \in 1..n : i < n => regions'[i] = regions[i]
         /\ \A i \in 1..n :
              /\ regions'[i].f = regions[i].f /\ regions'[i].start = regions[i].start
              /\ regions'[i].scope = regions[i].scope /\ regions'[i].was = regions[i].was
              /\ regions'[i].jb0 = regions[i].jb0 /\ regions'[i].prev0 = regions[i].prev0
              /\ regions'[i].base0 = regions[i].base0
              /\ Parked(regions'[i]) = Parked(regions[i])
              /\ ScopeOf(regions'[i]) = ScopeOf(regions[i])
              /\ JbOf(regions'[i], i) = JbOf(regions[i], i)
              /\ PrevOf(regions'[i]) = PrevOf(regions[i])
              /\ BaseOf(regions'[i]) = BaseOf(regions[i])
              /\ regions'[i].kind \in Levels <=> regions[i].kind \in Levels
<1>1. regions # << >> /\ ~aborted /\ Top.kind = "xsub"
  BY DEF BareReturn, Running, Awake
<1>2. n \in Nat /\ n > 0 /\ n \in 1..n /\ Top = regions[n] /\ Top \in Regions
  BY <1>1, TopFacts
<1> DEFINE e == [regions[n] EXCEPT !.kind = "bare"]
<1>3. /\ e \in Regions /\ e.kind = "bare" /\ e.f = Top.f /\ e.start = Top.start
      /\ e.scope = Top.scope /\ e.was = Top.was /\ e.back = Top.back /\ e.jb0 = Top.jb0
      /\ e.prev0 = Top.prev0 /\ e.base0 = Top.base0
  BY <1>2 DEF Regions, Kinds
<1>4. regions' = [regions EXCEPT ![n] = e]
  <2>1. regions' = [regions EXCEPT ![n].kind = "bare"]
    BY DEF BareReturn
  <2> QED
    BY <2>1
<1> HIDE DEF e
<1>5. regions \in Seq(Regions)
  BY DEF Inv, Types
<1>6. /\ regions' \in Seq(Regions) /\ Len(regions') = n
      /\ \A i \in 1..n : regions'[i] = IF i = n THEN e ELSE regions[i]
  BY <1>2, <1>3, <1>4, <1>5, ExceptSeq, LenProperties
<1>7. regions' # << >>
  BY <1>2, <1>6, EmptySeq
<1>8. /\ Parked(e) = Parked(Top) /\ ScopeOf(e) = ScopeOf(Top) /\ PrevOf(e) = PrevOf(Top)
      /\ BaseOf(e) = BaseOf(Top) /\ JbOf(e, n) = JbOf(Top, n)
      /\ e.kind \in Levels /\ Top.kind \in Levels
  BY <1>1, <1>3 DEF Parked, Parking, ScopeOf, PrevOf, BaseOf, Keeping, JbOf, Levels, Counted
<1>9. regions'[n] = e
  BY <1>2, <1>6
<1>10. ASSUME NEW i \in 1..n
       PROVE  /\ regions'[i].f = regions[i].f /\ regions'[i].start = regions[i].start
              /\ regions'[i].scope = regions[i].scope /\ regions'[i].was = regions[i].was
              /\ regions'[i].jb0 = regions[i].jb0 /\ regions'[i].prev0 = regions[i].prev0
              /\ regions'[i].base0 = regions[i].base0
              /\ Parked(regions'[i]) = Parked(regions[i])
              /\ ScopeOf(regions'[i]) = ScopeOf(regions[i])
              /\ JbOf(regions'[i], i) = JbOf(regions[i], i)
              /\ PrevOf(regions'[i]) = PrevOf(regions[i])
              /\ BaseOf(regions'[i]) = BaseOf(regions[i])
              /\ regions'[i].kind \in Levels <=> regions[i].kind \in Levels
  <2>1. CASE i = n
    BY <1>2, <1>3, <1>8, <1>9, <2>1
  <2>2. CASE i # n
    BY <1>6, <2>2
  <2> QED
    BY <2>1, <2>2
<1>11. \A i \in 1..n : i < n => regions'[i] = regions[i]
  BY <1>2, <1>6
<1>12. regions'[n] = [regions[n] EXCEPT !.kind = "bare"]
  BY <1>9 DEF e
<1>13. regions[n].kind = "xsub"
  BY <1>1, <1>2
<1> QED
  BY <1>1, <1>2, <1>6, <1>7, <1>10, <1>11, <1>12, <1>13

LEMMA BareInv ==
  ASSUME Inv, BareReturn
  PROVE  Inv'
<1> DEFINE n == Len(regions)
           A == regions'
<1>1. /\ regions # << >> /\ ~aborted /\ n \in Nat /\ n \in 1..n
      /\ A \in Seq(Regions) /\ Len(A) = n /\ A # << >>
      /\ regions[n].kind = "xsub"
      /\ A[n] = [regions[n] EXCEPT !.kind = "bare"]
      /\ \A i \in 1..n : i < n => A[i] = regions[i]
      /\ \A i \in 1..n :
           /\ A[i].f = regions[i].f /\ A[i].start = regions[i].start
           /\ A[i].scope = regions[i].scope
           /\ A[i].jb0 = regions[i].jb0 /\ A[i].prev0 = regions[i].prev0
           /\ A[i].base0 = regions[i].base0
           /\ Parked(A[i]) = Parked(regions[i])
           /\ ScopeOf(A[i]) = ScopeOf(regions[i])
           /\ JbOf(A[i], i) = JbOf(regions[i], i)
           /\ PrevOf(A[i]) = PrevOf(regions[i])
           /\ BaseOf(A[i]) = BaseOf(regions[i])
           /\ A[i].kind \in Levels <=> regions[i].kind \in Levels
  BY BareRegions
<1>2. /\ cur' = cur /\ mem' = mem /\ saves' = saves /\ depth' = depth /\ scope' = scope
      /\ aborted' = aborted
  BY DEF BareReturn
<1>3. regions \in Seq(Regions) /\ Chain(regions)
  BY DEF Inv, Types
<1> HIDE DEF A
<1>4. Chain(A)
  BY <1>1, <1>3, ChainBare
<1> HIDE DEF n
<1>5. Types'
  BY <1>1, <1>2 DEF Inv, Types, A, n
<1>6. Globals'
  <2>1. Top = regions[n] /\ Top' = A[n]
    BY <1>1 DEF Top, A, n
  <2>2. Deep(A) = Deep(regions)
    BY <1>1 DEF Deep, n
  <2>3. A[n].kind = "bare"
    <3>1. regions[n] \in Regions
      BY <1>1, <1>3, ElementOfSeq DEF n
    <3> QED
      BY <1>1, <3>1 DEF Regions
  <2>4. A[n].f = regions[n].f /\ ScopeOf(A[n]) = ScopeOf(regions[n])
    BY <1>1
  <2> QED
    BY <1>1, <1>2, <2>1, <2>2, <2>3, <2>4 DEF Inv, Globals, A
<1>7. FieldsHeld'
  BY <1>1, <1>2 DEF Inv, FieldsHeld, HeldBy, A, n
<1>8. FieldsParked'
  <2>1. ASSUME NEW i \in 1..n
        PROVE  /\ A[i].start + Parked(A[i]) <= Len(saves')
               /\ Parked(A[i]) = 3 =>
                    /\ saves'[A[i].start + 1].loc = Base(A[i].f)
                    /\ saves'[A[i].start + 1].val = A[i].base0
                    /\ saves'[A[i].start + 2].loc = Prev(A[i].f)
                    /\ saves'[A[i].start + 2].val = A[i].prev0
                    /\ saves'[A[i].start + 3].loc = Jb(A[i].f)
                    /\ saves'[A[i].start + 3].val = A[i].jb0
    <3>1. /\ regions[i].start + Parked(regions[i]) <= Len(saves)
          /\ Parked(regions[i]) = 3 =>
               LET r == regions[i] IN
               /\ saves[r.start + 1].loc = Base(r.f) /\ saves[r.start + 1].val = r.base0
               /\ saves[r.start + 2].loc = Prev(r.f) /\ saves[r.start + 2].val = r.prev0
               /\ saves[r.start + 3].loc = Jb(r.f)   /\ saves[r.start + 3].val = r.jb0
      BY DEF Inv, FieldsParked, n
    <3> QED
      BY <1>1, <1>2, <3>1
  <2>2. \A p \in 1..Len(saves) :
          \/ saves[p].val \in Values /\ \E x \in Locs : saves[p].loc = Var(x)
          \/ \E i \in 1..n : Parked(A[i]) = 3 /\ A[i].start < p /\ p <= A[i].start + 3
    <3>1. \A p \in 1..Len(saves) :
            \/ saves[p].val \in Values /\ \E x \in Locs : saves[p].loc = Var(x)
            \/ \E i \in 1..n : ParkedBy(i, p)
      BY DEF Inv, FieldsParked, n
    <3> QED
      BY <1>1, <3>1 DEF ParkedBy
  <2> QED
    BY <1>1, <1>2, <2>1, <2>2 DEF FieldsParked, ParkedBy, A
<1>9. Tagged'
  BY <1>1, <1>2 DEF Inv, Tagged, A, n
<1> QED
  BY <1>4, <1>5, <1>6, <1>7, <1>8, <1>9 DEF Inv, A

LEMMA OverflowInv ==
  ASSUME Inv, NEW f \in Frames, DispatchOverflow(f)
  PROVE  Inv'
<1>1. /\ cur' = f /\ aborted' = TRUE /\ mem' = mem /\ saves' = saves /\ depth' = depth
      /\ scope' = scope /\ regions' = regions
  BY DEF DispatchOverflow
<1>2. Types'
  BY <1>1 DEF Inv, Types, MaybeFrame
<1>3. Chain(regions') /\ FieldsHeld' /\ FieldsParked' /\ Tagged'
  BY <1>1 DEF Inv, FieldsHeld, HeldBy, FieldsParked, ParkedBy, Tagged
<1>4. Globals'
  BY <1>1 DEF Inv, Globals, Top
<1> QED
  BY <1>2, <1>3, <1>4 DEF Inv

LEMMA InitInv ==
  ASSUME Init
  PROVE  Inv
<1>1. /\ Len(regions) = 0 /\ 1..Len(regions) = {} /\ regions = << >> /\ regions \in Seq(Regions)
      /\ Len(saves) = 0 /\ 1..Len(saves) = {} /\ saves = << >> /\ saves \in Seq(Entries)
  BY EmptySeq DEF Init
<1>2. /\ DOMAIN mem = Slots
      /\ \A g \in Frames : mem[Jb(g)] = 0 /\ mem[Prev(g)] = NoFrame /\ mem[Base(g)] = 0
      /\ \A x \in Locs : mem[Var(x)] = 0
  BY SlotNames DEF Init
<1>3. Types
  <2>1. cur \in MaybeFrame /\ scope \in Nat /\ depth \in Nat /\ aborted \in BOOLEAN
    BY DEF Init, MaybeFrame
  <2>2. \A g \in Frames : /\ mem[Jb(g)] \in 0..MaxRegions /\ mem[Prev(g)] \in MaybeFrame
                          /\ mem[Base(g)] \in 0..MaxSaves
    BY <1>2, FrameAssumption DEF MaybeFrame
  <2> QED
    BY <1>1, <1>2, <2>1, <2>2, FrameAssumption DEF Types
<1>4. Chain(regions)
  BY <1>1 DEF Chain, Armed, Adjacent, Ordered, OnFrames, AtRest, UnderShelter
<1>5. Globals
  <2>1. Deep(regions) = {}
    BY <1>1 DEF Deep
  <2>2. Cardinality(Deep(regions)) = 0
    BY <2>1, FS_EmptySet
  <2> QED
    BY <1>1, <2>2 DEF Globals, Init
<1>6. FieldsHeld /\ FieldsParked /\ Tagged
  BY <1>1, <1>2 DEF FieldsHeld, FieldsParked, Tagged
<1> QED
  BY <1>3, <1>4, <1>5, <1>6 DEF Inv

LEMMA NextInv ==
  ASSUME Careful, Inv, [Next]_vars
  PROVE  Inv'
<1>1. CASE UNCHANGED vars
  <2>1. /\ cur' = cur /\ mem' = mem /\ saves' = saves /\ depth' = depth /\ scope' = scope
        /\ regions' = regions /\ aborted' = aborted
    BY <1>1 DEF vars
  <2> QED
    BY SMTT(30), <2>1 DEF Inv, Types, Globals, Top, FieldsHeld, HeldBy, FieldsParked, ParkedBy, Tagged
<1>2. ASSUME NEW f \in Frames, Enter(f) PROVE Inv'
  <2>1. CASE Dispatch(f)
    BY <2>1, DispatchOpens, OpenedInv
  <2>2. CASE DispatchOverflow(f)
    BY <2>2, OverflowInv
  <2>3. CASE PpInvoke(f)
    BY <2>3, PpOpens, OpenedInv
  <2>4. CASE KeywordInvoke(f)
    BY <2>4, KeywordOpens, OpenedInv
  <2>5. CASE HookInvoke(f)
    BY <2>5, HookOpens, OpenedInv
  <2> QED
    BY <1>2, <2>1, <2>2, <2>3, <2>4, <2>5 DEF Enter
<1>3. CASE CallDirect
  BY <1>3, CallDirectOpens, OpenedInv
<1>4. ASSUME NEW x \in Locs, NEW v \in Values, Save(x, v) PROVE Inv'
  BY <1>4, SaveInv
<1>5. CASE EnterScope
  BY <1>5, ScopeOpens, OpenedInv
<1>6. CASE LeaveScope
  BY <1>6, LeaveScopeCloses, ClosedInv
<1>7. CASE TryStart
  BY <1>7, TryOpens, OpenedInv
<1>8. CASE TryEnd
  BY <1>8, TryEndCloses, ClosedInv
<1>9. CASE Return
  BY <1>9, ReturnCloses, ClosedInv
<1>10. CASE BareReturn
  BY <1>10, BareInv
<1>11. CASE Epilogue
  BY <1>11, EpilogueCloses, ClosedInv
<1>12. CASE HookReturn
  BY <1>12, HookReturnCloses, ClosedInv
<1>13. CASE KeywordReturn
  BY <1>13, KeywordReturnCloses, ClosedInv
<1>14. CASE Croak
  <2>1. CASE CroakFromXsub
    <3>1. \/ regions[Target].kind = "xsub" /\ Target = 1
          \/ regions[Target].kind = "pp" /\ Target = Len(regions)
      BY <2>1 DEF CroakFromXsub, Jump, Expected
    <3> QED
      BY <2>1, <3>1, CroakAtRest, RestedInv, CroakFromPpCloses, ClosedInv
  <2>2. CASE CroakFromHook
    BY <2>2, CroakFromHookCloses, ClosedInv
  <2>3. CASE CroakFromKeyword
    BY <2>3, CroakFromKeywordCloses, ClosedInv
  <2>4. CASE CroakFromTry
    BY <2>4, CroakFromTryCloses, ClosedInv
  <2>5. CASE CroakOutside
    BY <2>5, TargetIs DEF CroakOutside, Target
  <2> QED
    BY <1>14, <2>1, <2>2, <2>3, <2>4, <2>5 DEF Croak
<1> QED
  BY <1>1, <1>2, <1>3, <1>4, <1>5, <1>6, <1>7, <1>8, <1>9, <1>10, <1>11, <1>12, <1>13, <1>14
  DEF Next

THEOREM Invariant ==
  ASSUME Careful
  PROVE  Spec => []Inv
<1>1. Init => Inv
  BY InitInv
<1>2. Inv /\ [Next]_vars => Inv'
  BY NextInv
<1> QED
  BY <1>1, <1>2, PTL DEF Spec

-------------------------------------------------------------------------------
(* The properties of XsFrames.                                             *)

\* The types of every variable are kept by the protocol: no index into the save stack
\* or the regions leaves its bounds (GOPERL_HOSTSAVE_MAX in perl.h).
THEOREM FramesTyped ==
  ASSUME Careful
  PROVE  Spec => []TypeOK
<1>1. Inv => TypeOK
  <2> SUFFICES ASSUME Inv PROVE TypeOK
    OBVIOUS
  <2>1. \A i \in 1..Len(saves) : saves[i].loc \in Slots
    <3>1. \A i \in 1..Len(saves) : saves[i] \in Entries
      BY ElementOfSeq DEF Inv, Types
    <3> QED
      BY <3>1 DEF Entries
  <2>2. \A i \in 1..Len(regions) : regions[i].kind \in Kinds /\ regions[i].f \in Frames
    <3>1. \A i \in 1..Len(regions) : regions[i] \in Regions
      BY ElementOfSeq DEF Inv, Types
    <3> QED
      BY <3>1, RegionFacts
  <2>3. DOMAIN saves = 1..Len(saves) /\ DOMAIN regions = 1..Len(regions)
    BY LenProperties DEF Inv, Types
  <2>4. \A f \in Frames : /\ mem[<<"jb", f>>] \in 0..MaxRegions
                          /\ mem[<<"base", f>>] \in 0..MaxSaves
                          /\ mem[<<"prev", f>>] \in Frames \cup {NoFrame}
    BY DEF Inv, Types, Jb, Base, Prev, MaybeFrame
  <2>5. \A x \in Locs : mem[<<"host", x>>] \in Values
    BY DEF Inv, Types, Var
  <2>6. scope \in Int
    BY DEF Inv, Types
  <2>7. cur \in Frames \cup {NoFrame} /\ DOMAIN mem = Slots /\ Len(saves) <= MaxSaves
        /\ depth \in Nat /\ Len(regions) <= MaxRegions /\ aborted \in BOOLEAN
    BY DEF Inv, Types, MaybeFrame
  <2> QED
    BY <2>1, <2>2, <2>3, <2>4, <2>5, <2>6, <2>7 DEF TypeOK
<1> QED
  BY <1>1, Invariant, PTL

\* Whatever ends an activation, a return, a croak or the epilogue of a PPCODE body, the
\* frame that it interrupted is the current one again (goperl_xs_leave, svt_invoke,
\* keyword_invoke), and none is when the interpreter is back in Perl.
THEOREM CurrentFrame ==
  ASSUME Careful
  PROVE  Spec => []CurrentIsTop
<1>1. Inv => CurrentIsTop
  BY DEF Inv, Globals, CurrentIsTop, Awake
<1> QED
  BY <1>1, Invariant, PTL

\* Native code never croaks through a null jump buffer or into a C function that has
\* returned: goperl_raise finds the innermost buffer that is armed.
THEOREM CroakLands ==
  ASSUME Careful
  PROVE  Spec => []CroakHasTarget
<1>1. Inv => CroakHasTarget
  <2> SUFFICES ASSUME Inv, Running PROVE
        mem[<<"jb", cur>>] = Max({i \in DOMAIN regions : regions[i].kind # "scope"})
    BY DEF CroakHasTarget
  <2> DEFINE armed == {i \in DOMAIN regions : regions[i].kind # "scope"}
  <2>1. /\ Target \in 1..Len(regions) /\ regions[Target].kind # "scope"
        /\ \A k \in 1..Len(regions) : Target < k => regions[k].kind = "scope"
    BY TargetIs
  <2>2. DOMAIN regions = 1..Len(regions) /\ Len(regions) \in Nat
    BY LenProperties DEF Inv, Types
  <2>3. armed \subseteq Int /\ Target \in armed
    BY <2>1, <2>2
  <2>4. \A k \in armed : Target >= k
    BY <2>1, <2>2
  <2> HIDE DEF armed
  <2>5. Max(armed) = Target
    BY <2>3, <2>4, MaxIs
  <2> QED
    BY <2>5 DEF Target, armed
<1> QED
  BY <1>1, Invariant, PTL

\* goperl_xs_depth_v counts the levels that are open, so that it is 0, and the mirrors of
\* guest state are dropped, exactly when the outermost one has ended.
THEOREM DepthIsRight ==
  ASSUME Careful
  PROVE  Spec => []DepthCounts
<1>1. Inv => DepthCounts
  <2> SUFFICES ASSUME Inv, Awake PROVE
        depth = Cardinality({i \in DOMAIN regions : regions[i].kind \in Counted})
    BY DEF DepthCounts
  <2>1. DOMAIN regions = 1..Len(regions) /\ Len(regions) \in Nat
    BY LenProperties DEF Inv, Types
  <2>2. ASSUME NEW i \in 1..Len(regions) PROVE regions[i].kind # "bare"
    <3>1. CASE i = Len(regions)
      <4>1. regions # << >>
        BY <2>1, EmptySeq
      <4> QED
        BY <3>1, <4>1 DEF Awake, Epiloguing, Top
    <3>2. CASE i < Len(regions)
      <4>1. i + 1 \in 1..Len(regions) /\ i + 1 > 1 /\ (i + 1) - 1 = i
        BY <2>1, <3>2
      <4>2. \A k \in 1..Len(regions) : k > 1 => regions[k - 1].kind # "bare"
        BY DEF Inv, Chain, Adjacent
      <4> QED
        BY <4>1, <4>2
    <3>3. Len(regions) \in Nat
      BY <2>1
    <3>4. i = Len(regions) \/ i < Len(regions)
      BY <3>3
    <3> QED
      BY <3>1, <3>2, <3>4
  <2>3. {i \in DOMAIN regions : regions[i].kind \in Counted} = Deep(regions)
    BY <2>1, <2>2 DEF Deep, Levels
  <2> QED
    BY <2>3 DEF Inv, Globals
<1> QED
  BY <1>1, Invariant, PTL

\* An unwind of the save stack never writes into a frame whose call is over: what an
\* activation has parked there (dXSARGS in perl.h) goes when the activation goes.
THEOREM FieldsAreLive ==
  ASSUME Careful
  PROVE  Spec => []SavedFieldsLive
<1>1. Inv => SavedFieldsLive
  <2> SUFFICES ASSUME Inv PROVE SavedFieldsLive
    OBVIOUS
  <2>1. /\ DOMAIN regions = 1..Len(regions) /\ DOMAIN saves = 1..Len(saves)
        /\ Len(saves) \in Nat
        /\ \A i \in 1..Len(regions) : regions[i].start \in Nat /\ regions[i].f \in Frames
    <3>1. \A i \in 1..Len(regions) : regions[i] \in Regions
      BY ElementOfSeq DEF Inv, Types
    <3> QED
      BY <3>1, RegionFacts, LenProperties DEF Inv, Types
  <2>2. ASSUME NEW p \in 1..Len(saves), NEW x \in Locs, saves[p].loc = Var(x)
        PROVE  saves[p].loc[1] = "host"
    BY <2>2, SlotNames
  <2>3. ASSUME NEW p \in 1..Len(saves), NEW i \in 1..Len(regions), ParkedBy(i, p)
        PROVE  regions[i].f = saves[p].loc[2]
    <3> DEFINE b == regions[i]
    <3>1. /\ saves[b.start + 1].loc = Base(b.f) /\ saves[b.start + 2].loc = Prev(b.f)
          /\ saves[b.start + 3].loc = Jb(b.f)
      BY <2>3 DEF Inv, FieldsParked, ParkedBy
    <3>2. p = b.start + 1 \/ p = b.start + 2 \/ p = b.start + 3
      <4>1. b.start < p /\ p <= b.start + 3
        BY <2>3 DEF ParkedBy
      <4>2. b.start \in Nat /\ p \in Nat
        BY <2>1
      <4> HIDE DEF b
      <4> QED
        BY <4>1, <4>2
    <3>3. saves[p].loc \in Fields(b.f) /\ b.f \in Frames
      BY <2>1, <3>1, <3>2 DEF Fields
    <3> QED
      BY <3>3, SlotNames
  <2>4. \A p \in 1..Len(saves) : \/ \E x \in Locs : saves[p].loc = Var(x)
                                 \/ \E i \in 1..Len(regions) : ParkedBy(i, p)
    BY DEF Inv, FieldsParked
  <2> QED
    BY <2>1, <2>2, <2>3, <2>4 DEF SavedFieldsLive
<1> QED
  BY <1>1, Invariant, PTL

-------------------------------------------------------------------------------
(* The refinement of DynamicScope: a region is a scope, and what the host       *)
(* variables were when it began can be had from the save stack until it ends.   *)

\* Popping the save stack s down to b leaves v in variable x: its lowest entry there
\* keeps v, or it has none and holds v.
PopsTo(m, s, x, b, v) ==
  \/ /\ m[Var(x)] = v
     /\ \A p \in 1..Len(s) : p > b => s[p].loc # Var(x)
  \/ \E p \in 1..Len(s) :
       /\ p > b /\ s[p].loc = Var(x) /\ s[p].val = v
       /\ \A q \in 1..Len(s) : b < q /\ q < p => s[q].loc # Var(x)

Restorable == \A i \in 1..Len(regions) : \A x \in Locs :
  PopsTo(mem, saves, x, regions[i].start, regions[i].was[x])

\* Only entries of 4-byte variables are 4 bytes wide.
IntsOnly == \A p \in 1..Len(saves) : \A x \in Locs :
  saves[p].loc = Var(x) /\ saves[p].width = 4 => x \in Ints

RInv == Inv /\ Restorable /\ IntsOnly

\* When every variable has the width of a pointer, popping them all as pointers writes
\* each entry back where it belongs.
LEMMA PoppedTo ==
  ASSUME Inv, IntsOnly, Ints = {}, NEW x \in Locs, NEW b \in Nat, NEW v, NEW wide \in BOOLEAN,
         PopsTo(mem, saves, x, b, v)
  PROVE  Unwound(mem, saves, b, wide)[Var(x)] = v
<1> DEFINE W == Writers(saves, Var(x), b, wide)
<1>1. Len(saves) \in Nat /\ saves \in Seq(Entries) /\ Var(x) \in Slots
  BY LenProperties, SlotNames DEF Inv, Types
<1>2. \A p \in 1..Len(saves) : saves[p].loc \in Slots
  <2>1. \A p \in 1..Len(saves) : saves[p] \in Entries
    BY <1>1, ElementOfSeq
  <2> QED
    BY <2>1 DEF Entries
<1>3. ASSUME NEW p \in 1..Len(saves), saves[p].width = 4
      PROVE  saves[p].loc[1] # "host"
  <2>1. \A y \in Locs : saves[p].loc # Var(y)
    BY <1>3 DEF IntsOnly
  <2> QED
    BY <1>2, <2>1, SlotNames
<1>4. W = {p \in (b + 1)..Len(saves) : saves[p].loc = Var(x)}
  <2>1. \A p \in (b + 1)..Len(saves) : p \in 1..Len(saves)
    BY <1>1
  <2> QED
    BY <1>3, <2>1 DEF Writers
<1>5. Unwound(mem, saves, b, wide)[Var(x)]
        = IF W = {} THEN mem[Var(x)]
          ELSE IF saves[Min(W)].loc = Var(x) THEN saves[Min(W)].val ELSE 0
  BY <1>1 DEF Unwound
<1> HIDE DEF W
<1>6. CASE /\ mem[Var(x)] = v
           /\ \A p \in 1..Len(saves) : p > b => saves[p].loc # Var(x)
  <2>1. W = {}
    BY <1>1, <1>4, <1>6
  <2> QED
    BY <1>5, <1>6, <2>1
<1>7. ASSUME NEW p \in 1..Len(saves), p > b, saves[p].loc = Var(x), saves[p].val = v,
             \A q \in 1..Len(saves) : b < q /\ q < p => saves[q].loc # Var(x)
      PROVE  Unwound(mem, saves, b, wide)[Var(x)] = v
  <2>1. p \in W /\ W \subseteq Nat
    BY <1>1, <1>4, <1>7
  <2>2. \A q \in W : p <= q
    BY <1>1, <1>4, <1>7
  <2>3. Min(W) = p
    BY <2>1, <2>2, MinIs
  <2> QED
    BY <1>5, <1>7, <2>1, <2>3
<1> QED
  BY <1>6, <1>7 DEF PopsTo

LEMMA OpenedRestorable ==
  ASSUME RInv, NEW r, Opened(r), r.was = Host
  PROVE  (Restorable /\ IntsOnly)'
<1> DEFINE n == Len(regions)
           m == Len(saves)
<1>1. /\ n \in Nat /\ Len(regions') = n + 1 /\ regions'[n + 1] = r
      /\ \A i \in 1..n : regions'[i] = regions[i] /\ regions[i] \in Regions
      /\ r \in Regions
  BY OpenedRegions DEF RInv, Inv
<1>2. /\ m \in Nat /\ r.start = m /\ Parked(r) \in {0, 3} /\ Len(saves') = m + Parked(r)
      /\ \A p \in 1..m : saves'[p] = saves[p]
      /\ \A x \in Locs : mem'[Var(x)] = mem[Var(x)]
  BY <1>1, RegionFacts, LenProperties DEF Opened, RInv, Inv, Types
<1>3. \A p \in 1..Len(saves') : p > m => \A x \in Locs : saves'[p].loc # Var(x)
  <2>1. Parked(r) = 3 => /\ saves'[m + 1].loc = Base(r.f) /\ saves'[m + 2].loc = Prev(r.f)
                         /\ saves'[m + 3].loc = Jb(r.f)
    BY <1>2 DEF Opened
  <2>2. r.f \in Frames
    BY <1>1, RegionFacts
  <2>3. ASSUME NEW p \in 1..Len(saves'), p > m
        PROVE  Parked(r) = 3 /\ (p = m + 1 \/ p = m + 2 \/ p = m + 3)
    BY <1>2, <2>3
  <2> HIDE DEF m
  <2> QED
    BY <2>1, <2>2, <2>3, SlotNames
<1>4. \A i \in 1..n : regions[i].start \in Nat /\ regions[i].start <= m
  <2>1. \A i \in 1..n : /\ regions[i].start \in Nat /\ Parked(regions[i]) \in {0, 3}
                        /\ regions[i].start + Parked(regions[i]) <= m
    BY <1>1, RegionFacts DEF RInv, Inv, FieldsParked
  <2> HIDE DEF m
  <2> QED
    BY <1>2, <2>1
<1> HIDE DEF n, m
<1>5. ASSUME NEW b \in Nat, b <= m, NEW x \in Locs, NEW v, PopsTo(mem, saves, x, b, v)
      PROVE  PopsTo(mem', saves', x, b, v)
  <2>1. CASE /\ mem[Var(x)] = v
             /\ \A p \in 1..m : p > b => saves[p].loc # Var(x)
    <3>1. \A p \in 1..Len(saves') : p \in 1..m \/ p > m
      BY <1>2
    <3>2. \A p \in 1..Len(saves') : p > b => saves'[p].loc # Var(x)
      BY <1>2, <1>3, <2>1, <3>1
    <3> QED
      BY <1>2, <2>1, <3>2 DEF PopsTo
  <2>2. ASSUME NEW p \in 1..m, p > b, saves[p].loc = Var(x), saves[p].val = v,
               \A q \in 1..m : b < q /\ q < p => saves[q].loc # Var(x)
        PROVE  PopsTo(mem', saves', x, b, v)
    <3>1. p \in 1..Len(saves') /\ \A q \in 1..Len(saves') : q < p => q \in 1..m
      BY <1>2
    <3> QED
      BY <1>2, <2>2, <3>1 DEF PopsTo
  <2> QED
    BY <1>5, <2>1, <2>2 DEF PopsTo, m
<1>6. Restorable'
  <2> SUFFICES ASSUME NEW i \in 1..(n + 1), NEW x \in Locs
               PROVE  PopsTo(mem', saves', x, regions'[i].start, regions'[i].was[x])
    BY <1>1 DEF Restorable
  <2>1. CASE i \in 1..n
    <3>1. PopsTo(mem, saves, x, regions[i].start, regions[i].was[x])
      BY <2>1 DEF RInv, Restorable, n
    <3> QED
      BY <1>1, <1>4, <1>5, <2>1, <3>1
  <2>2. CASE i = n + 1
    <3>1. r.was[x] = mem[Var(x)]
      BY DEF Host, Var
    <3>2. PopsTo(mem', saves', x, m, r.was[x])
      BY <1>2, <1>3, <3>1 DEF PopsTo
    <3> QED
      BY <1>1, <1>2, <2>2, <3>2
  <2> QED
    BY <1>1, <2>1, <2>2
<1>7. IntsOnly'
  <2> SUFFICES ASSUME NEW p \in 1..Len(saves'), NEW x \in Locs,
                      saves'[p].loc = Var(x), saves'[p].width = 4
               PROVE  x \in Ints
    BY DEF IntsOnly
  <2>1. p \in 1..m
    BY <1>2, <1>3
  <2> QED
    BY <1>2, <2>1 DEF RInv, IntsOnly, m
<1> QED
  BY <1>6, <1>7

LEMMA ClosedRestorable ==
  ASSUME RInv, Ints = {}, Closed, HostUnwound(Top.start)
  PROVE  (Restorable /\ IntsOnly)'
<1> DEFINE n == Len(regions)
           b == Top.start
<1>1. /\ n \in Nat /\ n \in 1..n /\ Top = regions[n]
      /\ regions' \in Seq(Regions) /\ Len(regions') = n - 1
      /\ \A i \in 1..(n - 1) : regions'[i] = regions[i] /\ i \in 1..n /\ i # n
      /\ Len(saves') = b /\ b \in Nat
      /\ Len(saves) \in Nat /\ b <= Len(saves)
      /\ \A p \in 1..b : saves'[p] = saves[p] /\ p \in 1..Len(saves)
  BY ClosedStacks DEF RInv
<1>2. \A i \in 1..(n - 1) : regions[i].start \in Nat /\ regions[i].start <= b
  <2>1. \A i \in 1..(n - 1) : regions[i].start + Parked(regions[i]) <= b
    <3>1. \A i \in 1..(n - 1) : i < n
      BY <1>1
    <3> QED
      BY <1>1, <3>1 DEF RInv, Inv, Chain, Ordered
  <2>2. \A i \in 1..(n - 1) : regions[i].start \in Nat /\ Parked(regions[i]) \in {0, 3}
    <3>1. \A i \in 1..(n - 1) : regions[i] \in Regions
      BY <1>1, ElementOfSeq DEF RInv, Inv, Types
    <3> QED
      BY <3>1, RegionFacts
  <2> HIDE DEF b, n
  <2> SUFFICES ASSUME NEW i \in 1..(n - 1)
               PROVE  regions[i].start \in Nat /\ regions[i].start <= b
    OBVIOUS
  <2>3. /\ regions[i].start + Parked(regions[i]) <= b /\ b \in Nat
        /\ regions[i].start \in Nat /\ Parked(regions[i]) \in {0, 3}
    BY <1>1, <2>1, <2>2
  <2> QED
    BY <2>3
<1>3. \A x \in Locs : \A v : PopsTo(mem, saves, x, b, v) => mem'[Var(x)] = v
  <2> SUFFICES ASSUME NEW x \in Locs, NEW v, PopsTo(mem, saves, x, b, v)
               PROVE  mem'[Var(x)] = v
    OBVIOUS
  <2>1. PICK wide \in BOOLEAN : \A y \in Locs :
          mem'[Var(y)] = Unwound(mem, saves, b, wide)[Var(y)]
    BY DEF HostUnwound
  <2> HIDE DEF b
  <2>2. Unwound(mem, saves, b, wide)[Var(x)] = v
    BY <1>1, PoppedTo DEF RInv
  <2> QED
    BY <2>1, <2>2
<1> HIDE DEF n, b
<1>4. ASSUME NEW i \in 1..(n - 1), NEW x \in Locs,
             PopsTo(mem, saves, x, regions[i].start, regions[i].was[x])
      PROVE  PopsTo(mem', saves', x, regions[i].start, regions[i].was[x])
  <2> DEFINE a == regions[i].start
             v == regions[i].was[x]
  <2>1. a \in Nat /\ a <= b
    BY <1>2
  <2> HIDE DEF a, v
  <2>2. CASE mem[Var(x)] = v /\ \A p \in 1..Len(saves) : p > a => saves[p].loc # Var(x)
    <3>1. PopsTo(mem, saves, x, b, v)
      BY <1>1, <2>1, <2>2 DEF PopsTo
    <3>2. \A p \in 1..Len(saves') : p > a => saves'[p].loc # Var(x)
      BY <1>1, <2>2
    <3> QED
      BY <1>3, <3>1, <3>2 DEF PopsTo, a, v
  <2>3. ASSUME NEW p \in 1..Len(saves), p > a, saves[p].loc = Var(x), saves[p].val = v,
               \A q \in 1..Len(saves) : a < q /\ q < p => saves[q].loc # Var(x)
        PROVE  PopsTo(mem', saves', x, a, v)
    <3>1. CASE p <= b
      <4>1. p \in 1..Len(saves') /\ \A q \in 1..Len(saves') : q < p => q \in 1..b
        BY <1>1, <3>1
      <4> QED
        BY <1>1, <2>3, <3>1, <4>1 DEF PopsTo
    <3>2. CASE p > b
      <4>1. \A q \in 1..Len(saves) : b < q /\ q < p => saves[q].loc # Var(x)
        BY <1>1, <2>1, <2>3
      <4>2. PopsTo(mem, saves, x, b, v)
        BY <2>3, <3>2, <4>1 DEF PopsTo
      <4>3. \A q \in 1..Len(saves') : q > a => saves'[q].loc # Var(x)
        <5> SUFFICES ASSUME NEW q \in 1..Len(saves'), q > a
                     PROVE  saves'[q].loc # Var(x)
          OBVIOUS
        <5>1. q \in 1..Len(saves) /\ q < p /\ saves'[q] = saves[q]
          BY <1>1, <3>2
        <5> QED
          BY <2>3, <5>1
      <4> QED
        BY <1>3, <4>2, <4>3 DEF PopsTo
    <3> QED
      BY <1>1, <3>1, <3>2
  <2> QED
    BY <1>4, <2>2, <2>3 DEF PopsTo, a, v
<1>5. Restorable'
  <2> SUFFICES ASSUME NEW i \in 1..(n - 1), NEW x \in Locs
               PROVE  PopsTo(mem', saves', x, regions'[i].start, regions'[i].was[x])
    BY <1>1 DEF Restorable
  <2>1. i \in 1..n /\ regions'[i] = regions[i]
    BY <1>1
  <2>2. PopsTo(mem, saves, x, regions[i].start, regions[i].was[x])
    BY <2>1 DEF RInv, Restorable, n
  <2> QED
    BY <1>4, <2>1, <2>2
<1>6. IntsOnly'
  BY <1>1 DEF RInv, IntsOnly
<1> QED
  BY <1>5, <1>6

LEMMA RestedRestorable ==
  ASSUME Rested
  PROVE  (Restorable /\ IntsOnly)'
<1>1. 1..Len(regions') = {} /\ 1..Len(saves') = {}
  BY EmptySeq DEF Rested
<1> QED
  BY <1>1 DEF Restorable, IntsOnly

LEMMA SaveRestorable ==
  ASSUME RInv, NEW x \in Locs, NEW v \in Values, Save(x, v)
  PROVE  (Restorable /\ IntsOnly)'
<1> DEFINE n == Len(regions)
           m == Len(saves)
           e == Saved(<<"host", x>>, IF x \in Ints THEN 4 ELSE 0)
<1>1. /\ saves' = Append(saves, e) /\ mem' = [mem EXCEPT ![Var(x)] = v]
      /\ regions' = regions /\ regions \in Seq(Regions) /\ saves \in Seq(Entries)
      /\ n \in Nat /\ m \in Nat /\ DOMAIN mem = Slots
  BY LenProperties DEF Save, Var, RInv, Inv, Types
<1>2. e \in Entries /\ e.loc = Var(x) /\ e.val = mem[Var(x)]
  BY SavedTyped DEF RInv, Var
<1>3. e.width = 4 => x \in Ints
  BY DEF Saved
<1> HIDE DEF e
<1>4. /\ Len(saves') = m + 1 /\ saves'[m + 1] = e /\ \A p \in 1..m : saves'[p] = saves[p]
  BY <1>1, <1>2, AppendProperties
<1>5. \A y \in Locs : y # x => mem'[Var(y)] = mem[Var(y)]
  BY <1>1, SlotNames
<1>6. \A i \in 1..n : regions[i].start \in Nat /\ regions[i].start <= m
  <2>1. \A i \in 1..n : /\ regions[i].start \in Nat /\ Parked(regions[i]) \in {0, 3}
                        /\ regions[i].start + Parked(regions[i]) <= m
    BY <1>1, ElementOfSeq, RegionFacts DEF RInv, Inv, FieldsParked
  <2> HIDE DEF m
  <2> QED
    BY <1>1, <2>1
<1> HIDE DEF n, m
<1>7. ASSUME NEW b \in Nat, b <= m, NEW y \in Locs, NEW u, PopsTo(mem, saves, y, b, u)
      PROVE  PopsTo(mem', saves', y, b, u)
  <2>1. CASE /\ mem[Var(y)] = u /\ \A p \in 1..m : p > b => saves[p].loc # Var(y)
    <3>1. CASE y = x
      <4>1. m + 1 \in 1..Len(saves') /\ m + 1 > b
        BY <1>1, <1>4, <1>7
      <4>2. \A q \in 1..Len(saves') : b < q /\ q < m + 1 => saves'[q].loc # Var(y)
        BY <1>1, <1>4, <2>1
      <4> QED
        BY <1>2, <1>4, <2>1, <3>1, <4>1, <4>2 DEF PopsTo
    <3>2. CASE y # x
      <4>1. e.loc # Var(y)
        BY <1>2, <3>2, SlotNames
      <4>2. \A p \in 1..Len(saves') : p > b => saves'[p].loc # Var(y)
        BY <1>1, <1>4, <2>1, <4>1
      <4> QED
        BY <1>5, <2>1, <3>2, <4>2 DEF PopsTo
    <3> QED
      BY <3>1, <3>2
  <2>2. ASSUME NEW p \in 1..m, p > b, saves[p].loc = Var(y), saves[p].val = u,
               \A q \in 1..m : b < q /\ q < p => saves[q].loc # Var(y)
        PROVE  PopsTo(mem', saves', y, b, u)
    <3>1. p \in 1..Len(saves') /\ \A q \in 1..Len(saves') : q < p => q \in 1..m
      BY <1>1, <1>4
    <3> QED
      BY <1>4, <2>2, <3>1 DEF PopsTo
  <2> QED
    BY <1>7, <2>1, <2>2 DEF PopsTo, m
<1>8. Restorable'
  <2> SUFFICES ASSUME NEW i \in 1..n, NEW y \in Locs
               PROVE  PopsTo(mem', saves', y, regions[i].start, regions[i].was[y])
    BY <1>1 DEF Restorable, n
  <2>1. PopsTo(mem, saves, y, regions[i].start, regions[i].was[y])
    BY DEF RInv, Restorable, n
  <2> QED
    BY <1>6, <1>7, <2>1
<1>9. IntsOnly'
  <2> SUFFICES ASSUME NEW p \in 1..Len(saves'), NEW y \in Locs,
                      saves'[p].loc = Var(y), saves'[p].width = 4
               PROVE  y \in Ints
    BY DEF IntsOnly
  <2>1. CASE p = m + 1
    BY <1>2, <1>3, <1>4, <2>1, SlotNames
  <2>2. CASE p \in 1..m
    BY <1>4, <2>2 DEF RInv, IntsOnly, m
  <2> QED
    BY <1>1, <1>4, <2>1, <2>2
<1> QED
  BY <1>8, <1>9

LEMMA BareRestorable ==
  ASSUME RInv, BareReturn
  PROVE  /\ (Restorable /\ IntsOnly)'
         /\ Len(regions') = Len(regions)
         /\ \A i \in 1..Len(regions) : regions'[i].was = regions[i].was
<1> DEFINE n == Len(regions)
<1>1. /\ n \in Nat /\ n \in 1..n /\ Len(regions') = n
      /\ regions'[n] = [regions[n] EXCEPT !.kind = "bare"]
      /\ \A i \in 1..n : i < n => regions'[i] = regions[i]
      /\ regions \in Seq(Regions)
  BY BareRegions DEF RInv, Inv, Types
<1>2. mem' = mem /\ saves' = saves
  BY DEF BareReturn
<1>3. \A i \in 1..n : /\ regions'[i].was = regions[i].was
                      /\ regions'[i].start = regions[i].start
  <2>1. regions[n] \in Regions
    BY <1>1, ElementOfSeq
  <2>2. regions'[n].was = regions[n].was /\ regions'[n].start = regions[n].start
    BY <1>1, <2>1 DEF Regions
  <2> SUFFICES ASSUME NEW i \in 1..n
               PROVE  /\ regions'[i].was = regions[i].was
                      /\ regions'[i].start = regions[i].start
    OBVIOUS
  <2> HIDE DEF n
  <2>3. i = n \/ i < n
    BY <1>1
  <2> QED
    BY <1>1, <2>2, <2>3
<1> QED
  BY <1>1, <1>2, <1>3 DEF RInv, Restorable, IntsOnly

Outers(R) == [i \in DOMAIN R |-> R[i].was]

LEMMA OutersAre ==
  ASSUME NEW R \in Seq(Regions)
  PROVE  /\ Outers(R) \in Seq([Locs -> Values]) /\ Len(Outers(R)) = Len(R)
         /\ DOMAIN Outers(R) = 1..Len(R)
         /\ \A i \in 1..Len(R) : Outers(R)[i] = R[i].was /\ R[i].was \in [Locs -> Values]
<1>1. DOMAIN R = 1..Len(R) /\ Len(R) \in Nat
  BY LenProperties
<1>2. \A i \in 1..Len(R) : R[i].was \in [Locs -> Values]
  <2>1. \A i \in 1..Len(R) : R[i] \in Regions
    BY ElementOfSeq
  <2> QED
    BY <2>1 DEF Regions
<1>3. Outers(R) = [i \in 1..Len(R) |-> R[i].was]
  BY <1>1 DEF Outers
<1>4. Outers(R) \in Seq([Locs -> Values])
  BY <1>1, <1>2, <1>3, IsASeq
<1> QED
  BY <1>1, <1>2, <1>3, <1>4, LenProperties

\* An opening opens a scope.
LEMMA OpenMaps ==
  ASSUME Inv, NEW r, Opened(r), r.was = Host
  PROVE  Scopes!Open
<1> DEFINE n == Len(regions)
           O == Outers(regions)
           P == Outers(regions')
<1>1. /\ n \in Nat /\ regions' \in Seq(Regions) /\ Len(regions') = n + 1
      /\ regions'[n + 1] = r /\ \A i \in 1..n : regions'[i] = regions[i]
      /\ regions \in Seq(Regions)
  BY OpenedRegions DEF Inv, Types
<1>2. /\ O \in Seq([Locs -> Values]) /\ Len(O) = n
      /\ \A i \in 1..n : O[i] = regions[i].was
  BY <1>1, OutersAre
<1>3. /\ P \in Seq([Locs -> Values]) /\ Len(P) = n + 1
      /\ \A i \in 1..(n + 1) : P[i] = regions'[i].was
  BY <1>1, OutersAre
<1>4. Host \in [Locs -> Values] /\ Host' = Host
  BY DEF Host, Inv, Types, Opened, Var
<1> HIDE DEF n, O, P
<1>5. /\ Append(O, Host) \in Seq([Locs -> Values]) /\ Len(Append(O, Host)) = n + 1
      /\ \A i \in 1..n : Append(O, Host)[i] = O[i]
      /\ Append(O, Host)[n + 1] = Host
  BY <1>2, <1>4, AppendProperties
<1>6. P = Append(O, Host)
  <2>1. \A i \in 1..(n + 1) : P[i] = Append(O, Host)[i]
    <3> SUFFICES ASSUME NEW i \in 1..(n + 1) PROVE P[i] = Append(O, Host)[i]
      OBVIOUS
    <3>1. CASE i = n + 1
      BY <1>1, <1>3, <1>5, <3>1
    <3>2. CASE i \in 1..n
      BY ZenonT(30), <1>1, <1>2, <1>3, <1>5, <3>2
    <3>3. n \in Nat
      BY <1>1
    <3>4. i = n + 1 \/ i \in 1..n
      BY <3>3
    <3> QED
      BY <3>1, <3>2, <3>4
  <2> QED
    BY <1>3, <1>5, <2>1, SeqEqual
<1> QED
  BY <1>4, <1>6 DEF Scopes!Open, OuterValues, Outers, O, P

\* An end of the regions from the k-th on closes these scopes.
LEMMA CloseMaps ==
  ASSUME RInv, Ints = {}, NEW k \in 1..Len(regions), HostUnwound(regions[k].start),
         DOMAIN mem' = Slots,
         regions' \in Seq(Regions), Len(regions') = k - 1,
         \A i \in 1..(k - 1) : regions'[i] = regions[i]
  PROVE  Scopes!Close
<1> DEFINE n == Len(regions)
           b == regions[k].start
           O == Outers(regions)
           P == Outers(regions')
<1>1. n \in Nat /\ regions \in Seq(Regions) /\ b \in Nat
  <2>1. regions \in Seq(Regions) /\ n \in Nat
    BY LenProperties DEF RInv, Inv, Types
  <2> QED
    BY <2>1, ElementOfSeq, RegionFacts
<1>2. /\ O \in Seq([Locs -> Values]) /\ Len(O) = n /\ DOMAIN O = 1..n
      /\ \A i \in 1..n : O[i] = regions[i].was /\ regions[i].was \in [Locs -> Values]
  BY <1>1, OutersAre
<1>3. /\ P \in Seq([Locs -> Values]) /\ Len(P) = k - 1
      /\ \A i \in 1..(k - 1) : P[i] = regions'[i].was
  BY <1>1, OutersAre
<1>4. Host' = O[k]
  <2>1. PICK wide \in BOOLEAN : \A y \in Locs :
          mem'[Var(y)] = Unwound(mem, saves, b, wide)[Var(y)]
    BY DEF HostUnwound
  <2>2. ASSUME NEW x \in Locs PROVE mem'[Var(x)] = regions[k].was[x]
    <3>1. PopsTo(mem, saves, x, b, regions[k].was[x])
      BY DEF RInv, Restorable
    <3> HIDE DEF b
    <3>2. Unwound(mem, saves, b, wide)[Var(x)] = regions[k].was[x]
      BY <1>1, <3>1, PoppedTo DEF RInv
    <3> QED
      BY <2>1, <3>2
  <2>3. regions[k].was \in [Locs -> Values] /\ O[k] = regions[k].was
    BY <1>2
  <2>4. Host' = [x \in Locs |-> mem'[Var(x)]]
    BY DEF Host, Var
  <2> QED
    BY <2>2, <2>3, <2>4
<1> HIDE DEF n, O, P, b
<1>5. k - 1 \in 0..Len(O) /\ k \in DOMAIN O
  BY <1>1, <1>2 DEF n
<1>6. /\ SubSeq(O, 1, k - 1) \in Seq([Locs -> Values]) /\ Len(SubSeq(O, 1, k - 1)) = k - 1
      /\ \A i \in 1..(k - 1) : SubSeq(O, 1, k - 1)[i] = O[i]
  BY <1>2, <1>5, CutLast
<1>7. P = SubSeq(O, 1, k - 1)
  <2>1. \A i \in 1..(k - 1) : P[i] = SubSeq(O, 1, k - 1)[i]
    <3>1. \A i \in 1..(k - 1) : i \in 1..n
      BY <1>1 DEF n
    <3> QED
      BY <1>2, <1>3, <1>6, <3>1
  <2> QED
    BY <1>3, <1>6, <2>1, SeqEqual
<1> QED
  BY <1>4, <1>5, <1>7 DEF Scopes!Close, OuterValues, Outers, O, P

LEMMA ClosedMaps ==
  ASSUME RInv, Ints = {}, Closed, HostUnwound(Top.start)
  PROVE  Scopes!Close
<1> DEFINE n == Len(regions)
<1>1. /\ n \in 1..n /\ Top = regions[n]
      /\ regions' \in Seq(Regions) /\ Len(regions') = n - 1
      /\ \A i \in 1..(n - 1) : regions'[i] = regions[i]
  BY ClosedStacks DEF RInv
<1> QED
  BY <1>1, CloseMaps DEF Closed

LEMMA RestedMaps ==
  ASSUME RInv, Ints = {}, Rested, HostUnwound(0)
  PROVE  Scopes!Close
<1>1. 1 \in 1..Len(regions)
  BY LenProperties, EmptySeq DEF RInv, Inv, Types, Rested
<1>2. regions[1].start = 0
  BY <1>1 DEF RInv, Inv, Chain, Adjacent
<1>3. regions' \in Seq(Regions) /\ Len(regions') = 0 /\ DOMAIN mem' = Slots
  BY EmptySeq DEF Rested
<1> QED
  BY <1>1, <1>2, <1>3, CloseMaps

\* Saving a variable and assigning it binds it in the innermost scope.
LEMMA SaveMaps ==
  ASSUME Inv, NEW x \in Locs, NEW v \in Values, Save(x, v)
  PROVE  Scopes!Bind
<1>1. /\ regions # << >> /\ regions' = regions /\ regions \in Seq(Regions)
      /\ mem' = [mem EXCEPT ![Var(x)] = v] /\ DOMAIN mem = Slots
  BY DEF Save, Running, Var, Inv, Types
<1>2. Host' = [Host EXCEPT ![x] = v]
  <2>1. \A y \in Locs : mem'[Var(y)] = IF y = x THEN v ELSE mem[Var(y)]
    BY <1>1, SlotNames
  <2> QED
    BY <2>1 DEF Host, Var
<1>3. OuterValues # << >>
  <2>1. Outers(regions) \in Seq([Locs -> Values]) /\ Len(Outers(regions)) = Len(regions)
    BY <1>1, OutersAre
  <2> QED
    BY <1>1, <2>1, EmptySeq DEF OuterValues, Outers
<1>4. OuterValues' = OuterValues
  BY <1>1 DEF OuterValues
<1> QED
  BY <1>2, <1>3, <1>4 DEF Scopes!Bind

LEMMA BareMaps ==
  ASSUME RInv, BareReturn
  PROVE  UNCHANGED Scopes!vars
<1>1. mem' = mem /\ regions \in Seq(Regions) /\ regions' \in Seq(Regions)
  BY BareRegions DEF BareReturn, RInv, Inv, Types
<1>2. /\ Len(regions') = Len(regions)
      /\ \A i \in 1..Len(regions) : regions'[i].was = regions[i].was
  BY BareRestorable
<1>3. Outers(regions') = Outers(regions)
  <2>1. /\ DOMAIN regions = 1..Len(regions) /\ DOMAIN regions' = 1..Len(regions)
    BY <1>1, <1>2, LenProperties
  <2> QED
    BY <1>2, <2>1 DEF Outers
<1> QED
  BY <1>1, <1>3 DEF Scopes!vars, Host, OuterValues, Outers

LEMMA StillMaps ==
  ASSUME Inv, mem' = mem, regions' = regions
  PROVE  UNCHANGED Scopes!vars
BY DEF Scopes!vars, Host, OuterValues

\* Every step of the frames is a step of the abstract scopes, or none.
LEMMA StepMaps ==
  ASSUME Careful, Ints = {}, RInv, [Next]_vars
  PROVE  (Restorable /\ IntsOnly)' /\ [Scopes!Next]_Scopes!vars
<1> USE DEF Scopes!Next
<1>0. Inv
  BY DEF RInv
<1>1. ASSUME NEW r, Opened(r), r.was = Host
      PROVE  (Restorable /\ IntsOnly)' /\ [Scopes!Next]_Scopes!vars
  BY <1>0, <1>1, OpenedRestorable, OpenMaps
<1>2. ASSUME Closed /\ HostUnwound(Top.start)
      PROVE  (Restorable /\ IntsOnly)' /\ [Scopes!Next]_Scopes!vars
  BY <1>2, ClosedRestorable, ClosedMaps
<1>3. ASSUME mem' = mem, regions' = regions, saves' = saves
      PROVE  (Restorable /\ IntsOnly)' /\ [Scopes!Next]_Scopes!vars
  <2>1. (Restorable /\ IntsOnly)'
    BY <1>3 DEF RInv, Restorable, IntsOnly
  <2> QED
    BY <1>0, <1>3, <2>1, StillMaps
<1>4. \A kind, f : Region(kind, f).was = Host
  BY DEF Region
<1>5. CASE UNCHANGED vars
  BY <1>3, <1>5 DEF vars
<1>6. ASSUME NEW f \in Frames, Enter(f)
      PROVE  (Restorable /\ IntsOnly)' /\ [Scopes!Next]_Scopes!vars
  <2>1. CASE Dispatch(f)
    BY <1>0, <1>1, <1>4, <2>1, DispatchOpens
  <2>2. CASE DispatchOverflow(f)
    BY <1>3, <2>2 DEF DispatchOverflow
  <2>3. CASE PpInvoke(f)
    BY <1>0, <1>1, <1>4, <2>3, PpOpens
  <2>4. CASE KeywordInvoke(f)
    BY <1>0, <1>1, <1>4, <2>4, KeywordOpens
  <2>5. CASE HookInvoke(f)
    BY <1>0, <1>1, <1>4, <2>5, HookOpens
  <2> QED
    BY <1>6, <2>1, <2>2, <2>3, <2>4, <2>5 DEF Enter
<1>7. CASE CallDirect
  BY <1>0, <1>1, <1>4, <1>7, CallDirectOpens
<1>8. ASSUME NEW x \in Locs, NEW v \in Values, Save(x, v)
      PROVE  (Restorable /\ IntsOnly)' /\ [Scopes!Next]_Scopes!vars
  BY <1>0, <1>8, SaveRestorable, SaveMaps
<1>9. CASE EnterScope
  BY <1>0, <1>1, <1>4, <1>9, ScopeOpens
<1>10. CASE LeaveScope
  BY <1>0, <1>2, <1>10, LeaveScopeCloses
<1>11. CASE TryStart
  BY <1>0, <1>1, <1>4, <1>11, TryOpens
<1>12. CASE TryEnd
  BY <1>0, <1>2, <1>12, TryEndCloses
<1>13. CASE Return
  BY <1>0, <1>2, <1>13, ReturnCloses
<1>14. CASE BareReturn
  BY <1>14, BareRestorable, BareMaps
<1>15. CASE Epilogue
  BY <1>0, <1>2, <1>15, EpilogueCloses
<1>16. CASE HookReturn
  BY <1>0, <1>2, <1>16, HookReturnCloses
<1>17. CASE KeywordReturn
  BY <1>0, <1>2, <1>17, KeywordReturnCloses
<1>18. CASE Croak
  <2>1. CASE CroakFromXsub
    <3>1. \/ regions[Target].kind = "xsub" /\ Target = 1
          \/ regions[Target].kind = "pp" /\ Target = Len(regions)
      BY <2>1 DEF CroakFromXsub, Jump, Expected
    <3>2. CASE regions[Target].kind = "xsub" /\ Target = 1
      BY <1>0, <2>1, <3>2, CroakAtRest, RestedRestorable, RestedMaps
    <3>3. CASE regions[Target].kind = "pp" /\ Target = Len(regions)
      BY <1>0, <1>2, <2>1, <3>3, CroakFromPpCloses
    <3> QED
      BY <3>1, <3>2, <3>3
  <2>2. CASE CroakFromHook
    BY <1>0, <1>2, <2>2, CroakFromHookCloses
  <2>3. CASE CroakFromKeyword
    BY <1>0, <1>2, <2>3, CroakFromKeywordCloses
  <2>4. CASE CroakFromTry
    BY <1>0, <1>2, <2>4, CroakFromTryCloses
  <2>5. CASE CroakOutside
    BY <1>3, <2>5 DEF CroakOutside
  <2> QED
    BY <1>18, <2>1, <2>2, <2>3, <2>4, <2>5 DEF Croak
<1> QED
  BY <1>5, <1>6, <1>7, <1>8, <1>9, <1>10, <1>11, <1>12, <1>13, <1>14, <1>15, <1>16, <1>17,
     <1>18 DEF Next

\* Whatever nesting of scopes, native calls, op hooks, MAGIC hooks, keyword hooks and TRY
\* blocks a module and the interpreter make, and wherever a croak leaves them, each ends
\* with the host variables of pointer width as it found them (goperl_leave,
\* goperl_xs_leave, goperl_hostsave_* in perl.h): the save stack implements dynamic
\* scoping.
THEOREM SavesImplementScopes ==
  ASSUME Careful, Ints = {}
  PROVE  Spec => ImplementsScopes
<1>1. Init => RInv
  <2>1. ASSUME Init PROVE Restorable /\ IntsOnly
    <3>1. 1..Len(regions) = {} /\ 1..Len(saves) = {}
      BY <2>1, EmptySeq DEF Init
    <3> QED
      BY <3>1 DEF Restorable, IntsOnly
  <2> QED
    BY <2>1, InitInv DEF RInv
<1>2. RInv /\ [Next]_vars => RInv'
  <2>1. ASSUME RInv, [Next]_vars PROVE RInv'
    <3>1. Inv' /\ (Restorable /\ IntsOnly)'
      BY <2>1, NextInv, StepMaps DEF RInv
    <3> QED
      BY <3>1 DEF RInv
  <2> QED
    BY <2>1
<1>3. Init => Scopes!Init
  <2> SUFFICES ASSUME Init PROVE Scopes!Init
    OBVIOUS
  <2>1. regions = << >> /\ regions \in Seq(Regions) /\ Len(regions) = 0
    BY EmptySeq DEF Init
  <2>2. Outers(regions) = << >>
    <3>1. Outers(regions) \in Seq([Locs -> Values]) /\ Len(Outers(regions)) = 0
      BY <2>1, OutersAre
    <3> QED
      BY <3>1, EmptySeq
  <2>3. Host \in [Locs -> Values]
    <3>1. \A x \in Locs : mem[Var(x)] \in Values
      BY InitInv DEF Inv, Types
    <3> QED
      BY <3>1 DEF Host, Var
  <2> QED
    BY <2>2, <2>3 DEF Scopes!Init, OuterValues, Outers
<1>4. RInv /\ [Next]_vars => [Scopes!Next]_Scopes!vars
  BY StepMaps
<1>5. Spec => Scopes!Spec
  BY <1>1, <1>2, <1>3, <1>4, PTL DEF Spec, Scopes!Spec
<1> QED
  BY <1>5 DEF ImplementsScopes

-------------------------------------------------------------------------------
(* The parts of native code's activations in one run (MCXsControl).        *)

\* In a run of all parts each part behaves as specified: what is proved of XsFrames,
\* FrameTable and XsStack holds of the run.
THEOREM ControlParts == ControlSpec => Spec /\ TableSpec /\ StackSpec
<1>1. ControlInit => Init /\ TableInit /\ StackInit
  BY DEF ControlInit
<1>2. [ControlNext]_<<part, vars, tableVars, stackVars>> =>
        [Next]_vars /\ [TableNext]_tableVars /\ [StackNext]_stackVars
  BY DEF ControlNext
<1> QED
  BY <1>1, <1>2, PTL DEF ControlSpec, Spec, TableSpec, StackSpec

\* The type invariant of the run: frames and regions, the table of threads, marks and
\* arguments are well typed together.
THEOREM ControlTyped ==
  ASSUME Careful
  PROVE  ControlSpec => []ControlTypeOK
<1>1. TypeOK /\ TableTypeOK /\ StackTypeOK => ControlTypeOK
  BY DEF ControlTypeOK
<1> QED
  BY <1>1, ControlParts, FramesTyped, TableTypeCorrect, StackTyped, PTL
===============================================================================
