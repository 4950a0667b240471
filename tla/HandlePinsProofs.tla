---------------------------- MODULE HandlePinsProofs ----------------------------
(***************************************************************************)
(* Proofs about handles and pins, for any objects, handles, goroutines and *)
(* clones.                                                                 *)
(***************************************************************************)
EXTENDS HandlePins, FiniteSetTheorems, TLAPS

\* The handles that may need a pin of object o in instance i: its own, and those that i
\* may still adopt.
Claims(i, o) ==
  {h \in Handles : handle[h].obj = o /\ (handle[h].at = i \/ i \in handle[h].adoptable)}

HandleShape ==
  \A h \in Handles :
    /\ handle[h].st = "none" => handle[h] = NoHandle
    /\ handle[h].st # "none" => /\ handle[h].at \in Instances /\ handle[h].obj \in Objects
                                /\ life[handle[h].at] # "none"
    /\ handle[h].adoptable # {} => handle[h].at = Proto

ImageShape ==
  image = NoImage => /\ \A h \in Handles : handle[h].adoptable = {}
                     /\ \A c \in Clones : life[c] = "none"

OpShape ==
  \A g \in Goroutines :
    /\ op[g].pc # "idle" => op[g].at \in Instances /\ life[op[g].at] # "none"
    /\ op[g].pc # "releasing" => op[g].taken = {}
    /\ \A h \in op[g].taken : handle[h].st = "draining" /\ handle[h].at = op[g].at

\* No id is given back twice.
TakenOnce ==
  \A g1, g2 \in Goroutines : g1 # g2 => op[g1].taken \cap op[g2].taken = {}

\* There is a pin for every claim, in the registries and in the one that clones will
\* start with; the prototype has no others.
PinsCover ==
  \A i \in Instances, o \in Objects :
    life[i] = "open" => /\ Cardinality(Claims(i, o)) <= pins[i][o]
                        /\ i = Proto => Cardinality(Claims(i, o)) = pins[i][o]

ImageCovers ==
  \A c \in Clones, o \in Objects :
    image # NoImage /\ life[c] = "none" => Cardinality(Claims(c, o)) <= image[o]

PinInv ==
  /\ TypeOK /\ HandleShape /\ ImageShape /\ OpShape /\ TakenOnce
  /\ PinsCover /\ ImageCovers

\* Sets of claims are finite: they can be counted and compared.
LEMMA CountType ==
  ASSUME NEW S \in SUBSET Handles
  PROVE  IsFiniteSet(S) /\ Cardinality(S) \in Nat
BY FS_Subset, FS_CardinalityType, HandleAssumption

LEMMA CountLess ==
  ASSUME NEW S \in SUBSET Handles, NEW T \in SUBSET S
  PROVE  Cardinality(T) <= Cardinality(S)
BY FS_Subset, CountType

LEMMA CountAdd ==
  ASSUME NEW S \in SUBSET Handles, NEW h \in Handles, h \notin S
  PROVE  Cardinality(S \cup {h}) = Cardinality(S) + 1
BY FS_AddElement, CountType

LEMMA CountRemove ==
  ASSUME NEW S \in SUBSET Handles, NEW T \in SUBSET S
  PROVE  Cardinality(S \ T) = Cardinality(S) - Cardinality(T)
<1>1. IsFiniteSet(S \ T) /\ IsFiniteSet(T) /\ S \cup T = S
  BY CountType
<1>2. Cardinality((S \ T) \cup T)
        = Cardinality(S \ T) + Cardinality(T) - Cardinality((S \ T) \cap T)
  BY <1>1, FS_Union
<1>3. (S \ T) \cup T = S /\ (S \ T) \cap T = {}
  OBVIOUS
<1>4. Cardinality(S \ T) \in Nat /\ Cardinality(T) \in Nat /\ Cardinality({}) = 0
  BY CountType, FS_EmptySet
<1> QED
  BY <1>2, <1>3, <1>4

LEMMA ClaimsType ==
  ASSUME NEW i, NEW o
  PROVE  Claims(i, o) \in SUBSET Handles
BY DEF Claims

\* Of the prototype, handles are all that claims pins.
LEMMA ClaimsOfProto ==
  ASSUME TypeOK, NEW o
  PROVE  Claims(Proto, o) = Owners(Proto, o)
BY HandleAssumption DEF Claims, Owners, TypeOK

LEMMA PinsInit == Init => PinInv
<1> SUFFICES ASSUME Init PROVE PinInv
  OBVIOUS
<1>1. TypeOK
  BY HandleAssumption DEF Init, TypeOK, NoHandle, NoOp, NoImage, Unpinned, States, Instances
<1>2. \A i \in Instances : \A o : Claims(i, o) = {}
  BY HandleAssumption DEF Init, Claims, NoHandle
<1>3. PinsCover
  BY <1>2, FS_EmptySet DEF Init, PinsCover, Unpinned
<1>4. ImageCovers
  BY DEF Init, ImageCovers
<1> QED
  BY <1>1, <1>3, <1>4, HandleAssumption
  DEF Init, PinInv, HandleShape, ImageShape, OpShape, TakenOnce, NoHandle, NoOp, NoImage,
      Instances

-------------------------------------------------------------------------------
(* Steps that only move handles on and keep what they claim.               *)

\* Nothing but the states of handles and the operations changes.
SameClaims ==
  /\ UNCHANGED <<pins, life, image>>
  /\ \A h \in Handles : /\ handle'[h].obj = handle[h].obj /\ handle'[h].at = handle[h].at
                        /\ handle'[h].adoptable = handle[h].adoptable

LEMMA KeepCounts ==
  ASSUME PinInv, SameClaims
  PROVE  PinsCover' /\ ImageCovers'
<1>1. \A i, o : Claims(i, o)' = Claims(i, o)
  BY DEF SameClaims, Claims
<1> QED
  BY <1>1 DEF SameClaims, PinInv, PinsCover, ImageCovers

LEMMA CollectKeeps == ASSUME PinInv, NEW h \in Handles, Collect(h) PROVE PinInv'
<1>1. /\ handle[h].st = "held"
      /\ handle' = [handle EXCEPT ![h].st = "queued"]
      /\ UNCHANGED <<pins, life, image, op>>
  BY DEF Collect
<1>2. TypeOK'
  <2>1. "queued" \in States
    BY DEF States
  <2> QED
    BY <2>1, <1>1 DEF PinInv, TypeOK
<1>3. SameClaims
  BY <1>1 DEF SameClaims, PinInv, TypeOK
<1>4. HandleShape' /\ ImageShape' /\ OpShape' /\ TakenOnce'
  BY <1>1 DEF PinInv, TypeOK, HandleShape, ImageShape, OpShape, TakenOnce, NoHandle
<1> QED
  BY <1>2, <1>3, <1>4, KeepCounts DEF PinInv

LEMMA EncodeKeeps ==
  ASSUME PinInv, NEW g \in Goroutines, NEW i \in Instances, NEW hs \in SUBSET In(i, "held"),
         life[i] # "none", Encode(g, i, hs)
  PROVE  PinInv'
<1>1. /\ op' = [op EXCEPT ![g] = [pc |-> "encoded", at |-> i, uses |-> hs,
                                  ids |-> {handle[h].obj : h \in hs}, taken |-> {}]]
      /\ UNCHANGED <<handle, pins, life, image>>
  BY DEF Encode
<1>2. hs \subseteq Handles /\ {handle[h].obj : h \in hs} \subseteq Objects
  BY DEF In, PinInv, HandleShape
<1>3. TypeOK'
  BY <1>1, <1>2 DEF PinInv, TypeOK
<1>4. SameClaims
  BY <1>1 DEF SameClaims
<1>5. HandleShape' /\ ImageShape' /\ OpShape' /\ TakenOnce'
  BY <1>1 DEF PinInv, TypeOK, HandleShape, ImageShape, OpShape, TakenOnce
<1> QED
  BY <1>3, <1>4, <1>5, KeepCounts DEF PinInv

\* Refuse, and Run: the operation is over.
LEMMA EndKeeps ==
  ASSUME PinInv, NEW g \in Goroutines, op' = [op EXCEPT ![g] = NoOp],
         UNCHANGED <<handle, pins, life, image>>
  PROVE  PinInv'
<1>1. TypeOK'
  BY DEF PinInv, TypeOK, NoOp
<1>2. SameClaims
  BY DEF SameClaims
<1>3. HandleShape' /\ ImageShape' /\ OpShape' /\ TakenOnce'
  BY DEF PinInv, TypeOK, HandleShape, ImageShape, OpShape, TakenOnce, NoOp
<1> QED
  BY <1>1, <1>2, <1>3, KeepCounts DEF PinInv

LEMMA TakeKeeps == ASSUME PinInv, NEW g \in Goroutines, Take(g) PROVE PinInv'
<1> DEFINE ids == In(op[g].at, "queued")
<1>1. /\ op[g].pc = "encoded"
      /\ op' = [op EXCEPT ![g].pc = IF ids = {} THEN "ready" ELSE "releasing", ![g].taken = ids]
      /\ handle' = [h \in Handles |-> IF h \in ids THEN [handle[h] EXCEPT !.st = "draining"]
                                      ELSE handle[h]]
      /\ UNCHANGED <<pins, life, image>>
  BY DEF Take
<1>2. ids \subseteq Handles
      /\ \A h \in ids : handle[h].st = "queued" /\ handle[h].at = op[g].at
  BY DEF In
<1> HIDE DEF ids
<1>3. TypeOK'
  <2>1. "draining" \in States
    BY DEF States
  <2>2. handle' \in [Handles -> [at : Instances \cup {NoInstance}, obj : Objects \cup {NoInstance},
                                 st : States, adoptable : SUBSET Clones]]
    <3> SUFFICES ASSUME NEW h \in Handles
                 PROVE  (IF h \in ids THEN [handle[h] EXCEPT !.st = "draining"] ELSE handle[h])
                          \in [at : Instances \cup {NoInstance}, obj : Objects \cup {NoInstance},
                              st : States, adoptable : SUBSET Clones]
      BY <1>1
    <3>1. handle[h] \in [at : Instances \cup {NoInstance}, obj : Objects \cup {NoInstance},
                         st : States, adoptable : SUBSET Clones]
      BY DEF PinInv, TypeOK
    <3> QED
      BY <2>1, <3>1
  <2>3. op' \in [Goroutines -> [pc : {"idle", "encoded", "releasing", "ready"},
                                at : Instances \cup {NoInstance}, uses : SUBSET Handles,
                                ids : SUBSET Objects, taken : SUBSET Handles]]
    <3>1. op[g] \in [pc : {"idle", "encoded", "releasing", "ready"},
                                 at : Instances \cup {NoInstance}, uses : SUBSET Handles,
                                 ids : SUBSET Objects, taken : SUBSET Handles]
      BY DEF PinInv, TypeOK
    <3>2. [op[g] EXCEPT !.pc = IF ids = {} THEN "ready" ELSE "releasing", !.taken = ids]
            \in [pc : {"idle", "encoded", "releasing", "ready"},
                                 at : Instances \cup {NoInstance}, uses : SUBSET Handles,
                                 ids : SUBSET Objects, taken : SUBSET Handles]
      BY <1>2, <3>1
    <3> QED
      BY <1>1, <3>2 DEF PinInv, TypeOK
  <2> QED
    BY <2>2, <2>3, <1>1 DEF PinInv, TypeOK
<1>4. \A h \in Handles :
        /\ handle'[h].obj = handle[h].obj /\ handle'[h].at = handle[h].at
        /\ handle'[h].adoptable = handle[h].adoptable
        /\ handle'[h].st = IF h \in ids THEN "draining" ELSE handle[h].st
        /\ h \notin ids => handle'[h] = handle[h]
  BY <1>1 DEF PinInv, TypeOK
<1>5. SameClaims
  BY <1>1, <1>4 DEF SameClaims
<1>6. HandleShape' /\ ImageShape'
  BY <1>1, <1>2, <1>4 DEF PinInv, HandleShape, ImageShape
<1>7. /\ op'[g].taken = ids /\ op'[g].at = op[g].at
      /\ op'[g].pc = IF ids = {} THEN "ready" ELSE "releasing"
      /\ \A k \in Goroutines : k # g => op'[k] = op[k]
  BY <1>1 DEF PinInv, TypeOK
<1>8. \A k \in Goroutines : op[k].taken \cap ids = {}
  BY <1>2 DEF PinInv, OpShape
<1>9. TakenOnce'
  BY <1>7, <1>8 DEF PinInv, TakenOnce
<1>10. OpShape'
  <2> SUFFICES ASSUME NEW k \in Goroutines
               PROVE  /\ op'[k].pc # "idle" => op'[k].at \in Instances /\ life'[op'[k].at] # "none"
                      /\ op'[k].pc # "releasing" => op'[k].taken = {}
                      /\ \A h \in op'[k].taken : handle'[h].st = "draining"
                                                 /\ handle'[h].at = op'[k].at
    BY DEF OpShape
  <2>1. CASE k = g
    <3>1. op[g].at \in Instances /\ life[op[g].at] # "none"
      BY <1>1 DEF PinInv, OpShape
    <3>2. \A h \in ids : handle'[h].st = "draining" /\ handle'[h].at = op[g].at
      BY <1>2, <1>4
    <3> QED
      BY <2>1, <3>1, <3>2, <1>1, <1>7
  <2>2. CASE k # g
    BY <2>2, <1>1, <1>4, <1>7 DEF PinInv, OpShape, TypeOK
  <2> QED
    BY <2>1, <2>2
<1> QED
  BY <1>3, <1>5, <1>6, <1>9, <1>10, KeepCounts DEF PinInv

-------------------------------------------------------------------------------
(* Steps that make or give up claims.                                      *)

\* The pins that are given back are those of the ids taken, each of which is a claim.
LEMMA ReleaseKeeps == ASSUME PinInv, NEW g \in Goroutines, Release(g) PROVE PinInv'
<1>0. PICK i \in Instances : i = op[g].at
  BY DEF Release, PinInv, OpShape
<1> DEFINE T == op[g].taken
           given(o) == Cardinality({h \in T : handle[h].obj = o})
<1>1. /\ op[g].pc = "releasing"
      /\ op' = [op EXCEPT ![g].pc = "ready", ![g].taken = {}]
      /\ pins' = IF life[i] = "open" THEN [pins EXCEPT ![i] = [o \in Objects |-> @[o] - given(o)]]
                 ELSE pins
      /\ handle' = [h \in Handles |-> IF h \in T THEN NoHandle ELSE handle[h]]
      /\ UNCHANGED <<life, image>>
  BY <1>0 DEF Release
<1>2. /\ T \subseteq Handles /\ i \in Instances /\ life[i] # "none"
      /\ \A h \in T : handle[h].st = "draining" /\ handle[h].at = i
  BY <1>0, <1>1 DEF PinInv, TypeOK, OpShape
<1>3. \A h \in Handles : h \notin T => handle'[h] = handle[h]
  BY <1>1
<1>4. \A h \in T : handle'[h] = NoHandle
  BY <1>1, <1>2
<1>5. ASSUME NEW o \in Objects
      PROVE  /\ {h \in T : handle[h].obj = o} \subseteq Claims(i, o)
             /\ Claims(i, o)' = Claims(i, o) \ {h \in T : handle[h].obj = o}
  <2>1. {h \in T : handle[h].obj = o} \subseteq Claims(i, o)
    <3>1. \A h \in T : h \in Handles /\ handle[h].at = i
      BY <1>2
    <3> HIDE DEF T
    <3> QED
      BY <3>1 DEF Claims
  <2>2. \A h \in T : h \notin Claims(i, o)'
    <3>1. \A h \in T : handle'[h].at = NoInstance /\ handle'[h].adoptable = {}
      BY <1>4 DEF NoHandle
    <3>2. i # NoInstance
      BY <1>2, HandleAssumption
    <3> HIDE DEF T
    <3> QED
      BY <3>1, <3>2 DEF Claims
  <2>3. \A h \in Handles \ T : h \in Claims(i, o)' <=> h \in Claims(i, o)
    BY <1>3 DEF Claims
  <2>4. Claims(i, o)' \subseteq Handles /\ Claims(i, o) \subseteq Handles
    BY DEF Claims
  <2>5. \A h \in T : h \in Claims(i, o) => handle[h].obj = o
    BY DEF Claims
  <2> QED
    BY <2>1, <2>2, <2>3, <2>4, <2>5
<1>6. ASSUME NEW o \in Objects
      PROVE  /\ Cardinality(Claims(i, o)') = Cardinality(Claims(i, o)) - given(o)
             /\ given(o) \in Nat /\ given(o) <= Cardinality(Claims(i, o))
             /\ Cardinality(Claims(i, o)) \in Nat
  BY <1>2, <1>5, ClaimsType, CountRemove, CountLess, CountType
<1>7. ASSUME NEW j, NEW o \in Objects, j # NoInstance
      PROVE  Claims(j, o)' \subseteq Claims(j, o)
  BY <1>7, <1>2, <1>3, <1>4 DEF Claims, NoHandle
<1> HIDE DEF T, given
<1>8. \A j \in Instances, o \in Objects :
        pins'[j][o] = IF j = i /\ life[i] = "open" THEN pins[j][o] - given(o) ELSE pins[j][o]
  BY <1>1 DEF PinInv, TypeOK
<1>9. pins' \in [Instances -> [Objects -> Nat]]
  <2>1. ASSUME life[i] = "open", NEW o \in Objects PROVE pins[i][o] - given(o) \in Nat
    BY <2>1, <1>2, <1>6 DEF PinInv, PinsCover, TypeOK
  <2> QED
    BY <2>1, <1>1, <1>2 DEF PinInv, TypeOK
<1>10. op' \in [Goroutines -> [pc : {"idle", "encoded", "releasing", "ready"},
                               at : Instances \cup {NoInstance}, uses : SUBSET Handles,
                               ids : SUBSET Objects, taken : SUBSET Handles]]
  <2>1. op[g] \in [pc : {"idle", "encoded", "releasing", "ready"},
                                 at : Instances \cup {NoInstance}, uses : SUBSET Handles,
                                 ids : SUBSET Objects, taken : SUBSET Handles]
    BY DEF PinInv, TypeOK
  <2>2. [op[g] EXCEPT !.pc = "ready", !.taken = {}]
          \in [pc : {"idle", "encoded", "releasing", "ready"},
                                 at : Instances \cup {NoInstance}, uses : SUBSET Handles,
                                 ids : SUBSET Objects, taken : SUBSET Handles]
    BY <2>1
  <2> QED
    BY <1>1, <2>2 DEF PinInv, TypeOK
<1>11. TypeOK'
  BY <1>1, <1>9, <1>10 DEF PinInv, TypeOK, NoHandle, States
<1>12. HandleShape' /\ ImageShape'
  BY <1>1, <1>2, <1>3, <1>4 DEF PinInv, HandleShape, ImageShape, NoHandle
<1>13. /\ op'[g].taken = {} /\ op'[g].at = i /\ op'[g].pc = "ready"
       /\ \A k \in Goroutines : k # g => op'[k] = op[k] /\ op[k].taken \cap T = {}
  BY <1>0, <1>1 DEF PinInv, TypeOK, TakenOnce, T
<1>14. OpShape' /\ TakenOnce'
  BY <1>1, <1>2, <1>3, <1>13 DEF PinInv, OpShape, TakenOnce, TypeOK
<1>15. PinsCover'
  <2> SUFFICES ASSUME NEW j \in Instances, NEW o \in Objects, life[j] = "open"
               PROVE  /\ Cardinality(Claims(j, o)') <= pins'[j][o]
                      /\ j = Proto => Cardinality(Claims(j, o)') = pins'[j][o]
    BY <1>1 DEF PinsCover
  <2>1. CASE j = i
    <3>1. pins[i][o] \in Nat /\ pins'[j][o] = pins[i][o] - given(o)
      BY <2>1, <1>2, <1>8 DEF PinInv, TypeOK
    <3>2. /\ Cardinality(Claims(i, o)) <= pins[i][o]
          /\ i = Proto => Cardinality(Claims(i, o)) = pins[i][o]
      BY <2>1, <1>2 DEF PinInv, PinsCover
    <3> QED
      <4>1. Cardinality(Claims(j, o)') = Cardinality(Claims(i, o)) - given(o)
            /\ given(o) \in Nat /\ Cardinality(Claims(i, o)) \in Nat
        BY <2>1, <1>6
      <4> QED
        BY <2>1, <3>1, <3>2, <4>1
  <2>2. CASE j # i
    <3>1. pins'[j][o] = pins[j][o] /\ pins[j][o] \in Nat
      BY <2>2, <1>8 DEF PinInv, TypeOK
    <3>2. Cardinality(Claims(j, o)') <= Cardinality(Claims(j, o))
      BY <1>7, ClaimsType, CountLess, HandleAssumption
    <3>3. Cardinality(Claims(j, o)') \in Nat /\ Cardinality(Claims(j, o)) \in Nat
      BY <1>7, ClaimsType, CountType, HandleAssumption
    <3>4. j = Proto => Claims(j, o)' = Claims(j, o)
      <4> SUFFICES ASSUME j = Proto PROVE Claims(j, o) \subseteq Claims(j, o)'
        BY <1>7, HandleAssumption
      <4>1. \A h \in T : h \notin Claims(j, o)
        BY <2>2, <1>2, ClaimsOfProto DEF Owners, PinInv
      <4> QED
        BY <4>1, <1>3 DEF Claims
    <3> QED
      BY <3>1, <3>2, <3>3, <3>4 DEF PinInv, PinsCover
  <2> QED
    BY <2>1, <2>2
<1>16. ImageCovers'
  <2> SUFFICES ASSUME NEW c \in Clones, NEW o \in Objects, image # NoImage, life[c] = "none"
               PROVE  Cardinality(Claims(c, o)') <= image[o]
    BY <1>1 DEF ImageCovers
  <2>1. c # NoInstance
    BY HandleAssumption DEF Instances
  <2>2. Cardinality(Claims(c, o)') <= Cardinality(Claims(c, o))
    BY <2>1, <1>7, ClaimsType, CountLess
  <2>3. Cardinality(Claims(c, o)') \in Nat /\ Cardinality(Claims(c, o)) \in Nat
        /\ image[o] \in Nat
    BY <2>1, <1>7, ClaimsType, CountType DEF PinInv, TypeOK
  <2> QED
    BY <2>2, <2>3 DEF PinInv, ImageCovers
<1> QED
  BY <1>11, <1>12, <1>14, <1>15, <1>16 DEF PinInv

\* A returned reference comes with a pin of its own.
LEMMA RunReturningKeeps ==
  ASSUME PinInv, NEW g \in Goroutines, NEW h \in Handles, NEW o \in Objects,
         RunReturning(g, h, o)
  PROVE  PinInv'
<1> DEFINE i == op[g].at
<1>1. /\ op[g].pc = "ready" /\ life[i] = "open" /\ handle[h].st = "none"
      /\ op' = [op EXCEPT ![g] = NoOp]
      /\ pins' = [pins EXCEPT ![i][o] = @ + 1]
      /\ handle' = [handle EXCEPT ![h] = [at |-> i, obj |-> o, st |-> "held", adoptable |-> {}]]
      /\ UNCHANGED <<life, image>>
  BY DEF RunReturning
<1>2. i \in Instances /\ handle[h] = NoHandle
  BY <1>1 DEF PinInv, OpShape, HandleShape
<1> HIDE DEF i
<1>3. TypeOK'
  <2>1. pins' \in [Instances -> [Objects -> Nat]]
    BY <1>1, <1>2 DEF PinInv, TypeOK
  <2>2. handle' \in [Handles -> [at : Instances \cup {NoInstance}, obj : Objects \cup {NoInstance},
                                 st : States, adoptable : SUBSET Clones]]
    BY <1>1, <1>2 DEF PinInv, TypeOK, States
  <2> QED
    BY <2>1, <2>2, <1>1 DEF PinInv, TypeOK, NoOp
<1>4. /\ handle'[h] = [at |-> i, obj |-> o, st |-> "held", adoptable |-> {}]
      /\ \A k \in Handles : k # h => handle'[k] = handle[k]
  BY <1>1 DEF PinInv, TypeOK
<1>5. ASSUME NEW j \in Instances, NEW p \in Objects
      PROVE  /\ h \notin Claims(j, p)
             /\ Claims(j, p)' = IF j = i /\ p = o THEN Claims(j, p) \cup {h} ELSE Claims(j, p)
  <2>1. h \notin Claims(j, p)
    BY <1>2, HandleAssumption DEF Claims, NoHandle
  <2> QED
    BY <2>1, <1>4 DEF Claims
<1>6. \A j \in Instances, p \in Objects :
        pins'[j][p] = IF j = i /\ p = o THEN pins[j][p] + 1 ELSE pins[j][p]
  BY <1>1, <1>2 DEF PinInv, TypeOK
<1>7. PinsCover'
  <2> SUFFICES ASSUME NEW j \in Instances, NEW p \in Objects, life[j] = "open"
               PROVE  /\ Cardinality(Claims(j, p)') <= pins'[j][p]
                      /\ j = Proto => Cardinality(Claims(j, p)') = pins'[j][p]
    BY <1>1 DEF PinsCover
  <2>1. /\ Cardinality(Claims(j, p)) \in Nat /\ pins[j][p] \in Nat
        /\ Cardinality(Claims(j, p) \cup {h}) = Cardinality(Claims(j, p)) + 1
    BY <1>5, ClaimsType, CountType, CountAdd DEF PinInv, TypeOK
  <2> QED
    <3>1. /\ Cardinality(Claims(j, p)) <= pins[j][p]
          /\ j = Proto => Cardinality(Claims(j, p)) = pins[j][p]
      BY DEF PinInv, PinsCover
    <3>2. CASE j = i /\ p = o
      <4>1. Claims(j, p)' = Claims(j, p) \cup {h}
        BY <3>2, <1>5
      <4>2. pins'[j][p] = pins[j][p] + 1
        BY <3>2, <1>6
      <4> QED
        BY <3>1, <4>1, <4>2, <2>1
    <3>3. CASE ~(j = i /\ p = o)
      BY <3>1, <3>3, <1>5, <1>6
    <3> QED
      BY <3>2, <3>3
<1>8. ImageCovers'
  <2> SUFFICES ASSUME NEW c \in Clones, NEW p \in Objects, image # NoImage, life[c] = "none"
               PROVE  Cardinality(Claims(c, p)') <= image[p]
    BY <1>1 DEF ImageCovers
  <2>1. c # i /\ c \in Instances
    BY <1>1 DEF Instances
  <2> QED
    BY <2>1, <1>5 DEF PinInv, ImageCovers
<1>9. HandleShape' /\ ImageShape' /\ OpShape' /\ TakenOnce'
  <2>1. HandleShape' /\ ImageShape'
    BY <1>1, <1>2, <1>4 DEF PinInv, HandleShape, ImageShape
  <2>2. /\ op'[g] = NoOp /\ \A k \in Goroutines : k # g => op'[k] = op[k]
        /\ \A k \in Goroutines : h \notin op[k].taken
    BY <1>1 DEF PinInv, TypeOK, OpShape
  <2>3. OpShape'
    BY <2>2, <1>1, <1>4 DEF PinInv, OpShape, TypeOK, NoOp
  <2>4. TakenOnce'
    BY <2>2 DEF PinInv, TakenOnce, NoOp
  <2> QED
    BY <2>1, <2>3, <2>4
<1> QED
  BY <1>3, <1>7, <1>8, <1>9 DEF PinInv

-------------------------------------------------------------------------------
(* Clones, and the end of an instance.                                     *)

\* What an instance that starts, or the image, needs: pins for the claims.
LEMMA CloneKeeps == ASSUME PinInv, NEW c \in Clones, Clone(c) PROVE PinInv'
<1> DEFINE img == IF image = NoImage THEN pins[Proto] ELSE image
<1>1. /\ life[Proto] = "open" /\ life[c] = "none"
      /\ image' = img
      /\ pins' = [pins EXCEPT ![c] = img]
      /\ life' = [life EXCEPT ![c] = "open"]
      /\ handle' = IF image = NoImage THEN Marked ELSE handle
      /\ UNCHANGED op
  BY DEF Clone
<1>2. Proto \in Instances /\ c \in Instances /\ c # Proto /\ Clones \subseteq Instances
  BY HandleAssumption DEF Instances
<1>3. img \in [Objects -> Nat]
  BY <1>2 DEF PinInv, TypeOK
<1>4. img # NoImage
  <2>1. pins[Proto] \in [Objects -> Nat]
    BY <1>2 DEF PinInv, TypeOK
  <2>2. DOMAIN NoImage = {}
    BY DEF NoImage
  <2> QED
    BY <2>1, <2>2, HandleAssumption
<1>5. \A h \in Handles :
        /\ handle'[h].obj = handle[h].obj /\ handle'[h].at = handle[h].at
        /\ handle'[h].st = handle[h].st
        /\ handle'[h].adoptable =
             IF image = NoImage /\ handle[h].st = "held" /\ handle[h].at = Proto
             THEN Clones ELSE handle[h].adoptable
  BY <1>1 DEF PinInv, TypeOK, Marked
<1>6. TypeOK'
  <2>1. handle' \in [Handles -> [at : Instances \cup {NoInstance}, obj : Objects \cup {NoInstance},
                                 st : States, adoptable : SUBSET Clones]]
    BY <1>1 DEF PinInv, TypeOK, Marked
  <2> QED
    BY <2>1, <1>1, <1>2, <1>3 DEF PinInv, TypeOK
<1> HIDE DEF img
<1>7. \A o : Claims(Proto, o)' = Claims(Proto, o)
  BY <1>5, HandleAssumption DEF Claims, PinInv, TypeOK
<1>8. ASSUME NEW d \in Clones, NEW o \in Objects, life[d] = "none"
      PROVE  Cardinality(Claims(d, o)') <= img[o]
  <2>1. CASE image = NoImage
    <3>1. Claims(d, o)' \subseteq Claims(Proto, o)
      <4> SUFFICES ASSUME NEW h \in Handles, h \in Claims(d, o)'
                   PROVE  h \in Claims(Proto, o)
        BY DEF Claims
      <4>1. handle[h].at # d
        BY <1>8, <1>2, HandleAssumption DEF PinInv, HandleShape, NoHandle, Instances
      <4>2. handle[h].adoptable = {}
        BY <2>1 DEF PinInv, ImageShape
      <4> QED
        BY <4>1, <4>2, <2>1, <1>5 DEF Claims
    <3>2. Cardinality(Claims(d, o)') <= Cardinality(Claims(Proto, o))
      BY <3>1, ClaimsType, CountLess
    <3> QED
      BY <3>2, <2>1, <1>1, <1>2 DEF img, PinInv, PinsCover
  <2>2. CASE image # NoImage
    <3>1. Claims(d, o)' = Claims(d, o)
      BY <2>2, <1>1 DEF Claims
    <3> QED
      BY <3>1, <2>2, <1>8 DEF img, PinInv, ImageCovers
  <2> QED
    BY <2>1, <2>2
<1>9. /\ life'[c] = "open" /\ \A j \in Instances : j # c => life'[j] = life[j]
      /\ pins'[c] = img /\ \A j \in Instances : j # c => pins'[j] = pins[j]
  BY <1>1, <1>2 DEF PinInv, TypeOK
<1>10. PinsCover'
  <2> SUFFICES ASSUME NEW j \in Instances, NEW o \in Objects, life'[j] = "open"
               PROVE  /\ Cardinality(Claims(j, o)') <= pins'[j][o]
                      /\ j = Proto => Cardinality(Claims(j, o)') = pins'[j][o]
    BY DEF PinsCover
  <2>1. CASE j = c
    BY <2>1, <1>1, <1>2, <1>8, <1>9
  <2>2. CASE j = Proto
    BY <2>2, <1>1, <1>2, <1>7, <1>9 DEF PinInv, PinsCover
  <2>3. CASE j # c /\ j # Proto
    <3>1. image # NoImage
      BY <2>3, <1>9 DEF PinInv, ImageShape, Instances
    <3>2. Claims(j, o)' = Claims(j, o)
      BY <3>1, <1>1 DEF Claims
    <3> QED
      BY <3>2, <2>3, <1>9 DEF PinInv, PinsCover
  <2> QED
    BY <2>1, <2>2, <2>3
<1>11. ImageCovers'
  BY <1>1, <1>2, <1>8, <1>9 DEF ImageCovers
<1>12. HandleShape'
  <2>1. \A h \in Handles : handle[h].st # "held" => handle'[h] = handle[h]
    BY <1>1 DEF PinInv, TypeOK, Marked
  <2> QED
    BY <2>1, <1>1, <1>2, <1>5, <1>9 DEF PinInv, HandleShape, ImageShape, TypeOK
<1>13. ImageShape'
  BY <1>1, <1>4 DEF ImageShape
<1>14. OpShape' /\ TakenOnce'
  BY <1>1, <1>2, <1>5, <1>9 DEF PinInv, OpShape, TakenOnce, TypeOK
<1> QED
  BY <1>6, <1>10, <1>11, <1>12, <1>13, <1>14 DEF PinInv

\* Adopting turns one claim of the clone into another.
LEMMA AdoptKeeps ==
  ASSUME PinInv, NEW h \in Handles, NEW new \in Handles, NEW c \in Clones, Adopt(h, c, new)
  PROVE  PinInv'
<1> DEFINE o0 == handle[h].obj
<1>1. /\ handle[h].st = "held" /\ c \in handle[h].adoptable /\ life[c] = "open"
      /\ handle[new].st = "none"
      /\ handle' = [handle EXCEPT ![h].adoptable = @ \ {c},
                      ![new] = [at |-> c, obj |-> o0, st |-> "held", adoptable |-> {}]]
      /\ UNCHANGED <<pins, life, image, op>>
  BY DEF Adopt
<1>2. /\ handle[new] = NoHandle /\ h # new /\ handle[h].at = Proto /\ o0 \in Objects
      /\ c \in Instances /\ c # Proto
  BY <1>1, HandleAssumption DEF PinInv, HandleShape, Instances
<1>3. /\ handle'[h] = [handle[h] EXCEPT !.adoptable = @ \ {c}]
      /\ handle'[new] = [at |-> c, obj |-> o0, st |-> "held", adoptable |-> {}]
      /\ \A k \in Handles : k # h /\ k # new => handle'[k] = handle[k]
  BY <1>1, <1>2 DEF PinInv, TypeOK
<1>4. TypeOK'
  <2>1. "held" \in States
    BY DEF States
  <2>2. handle' \in [Handles -> [at : Instances \cup {NoInstance}, obj : Objects \cup {NoInstance},
                                 st : States, adoptable : SUBSET Clones]]
    <3>1. \A k \in Handles :
            handle[k] \in [at : Instances \cup {NoInstance}, obj : Objects \cup {NoInstance},
                          st : States, adoptable : SUBSET Clones]
      BY DEF PinInv, TypeOK
    <3>2. [handle[h] EXCEPT !.adoptable = @ \ {c}]
            \in [at : Instances \cup {NoInstance}, obj : Objects \cup {NoInstance},
                st : States, adoptable : SUBSET Clones]
      BY <3>1
    <3>3. [at |-> c, obj |-> o0, st |-> "held", adoptable |-> {}]
            \in [at : Instances \cup {NoInstance}, obj : Objects \cup {NoInstance},
                st : States, adoptable : SUBSET Clones]
      BY <2>1, <1>2
    <3>4. handle' \in [Handles -> [at : Instances \cup {NoInstance}, obj : Objects \cup {NoInstance},
                                   st : States, adoptable : SUBSET Clones]]
      <4>1. \A k \in Handles :
              handle'[k] \in [at : Instances \cup {NoInstance}, obj : Objects \cup {NoInstance},
                              st : States, adoptable : SUBSET Clones]
        BY <1>3, <3>1, <3>2, <3>3
      <4>2. handle' = [k \in Handles |-> handle'[k]]
        BY <1>1 DEF PinInv, TypeOK
      <4> QED
        BY <4>1, <4>2
    <3> QED
      BY <3>4
  <2> QED
    BY <2>2, <1>1 DEF PinInv, TypeOK
<1>5. /\ handle'[h].obj = o0 /\ handle'[h].at = Proto /\ handle'[h].st = "held"
      /\ handle'[h].adoptable = handle[h].adoptable \ {c}
  BY <1>1, <1>2, <1>3 DEF PinInv, TypeOK
<1>6. ASSUME NEW j \in Instances, NEW o \in Objects
      PROVE  /\ Cardinality(Claims(j, o)') = Cardinality(Claims(j, o))
             /\ j # c => Claims(j, o)' = Claims(j, o)
  <2>1. new \notin Claims(j, o)
    BY <1>2, HandleAssumption DEF Claims, NoHandle
  <2>2. ~(j = c /\ o = o0) => Claims(j, o)' = Claims(j, o)
    <3> SUFFICES ASSUME ~(j = c /\ o = o0), NEW k \in Handles
                 PROVE  k \in Claims(j, o)' <=> k \in Claims(j, o)
      BY DEF Claims
    <3>1. CASE k = h
      BY <3>1, <1>2, <1>5 DEF Claims
    <3>2. CASE k = new
      BY <3>2, <2>1, <1>2, <1>3 DEF Claims
    <3>3. CASE k # h /\ k # new
      BY <3>3, <1>3 DEF Claims
    <3> QED
      BY <3>1, <3>2, <3>3
  <2>3. CASE j = c /\ o = o0
    <3>1. h \in Claims(j, o)
      BY <2>3, <1>1 DEF Claims
    <3>2. Claims(j, o)' = (Claims(j, o) \ {h}) \cup {new}
      <4>1. h \notin Claims(j, o)'
        BY <2>3, <1>2, <1>5 DEF Claims
      <4>2. new \in Claims(j, o)'
        BY <2>3, <1>3 DEF Claims
      <4>3. \A k \in Handles : k # h /\ k # new => (k \in Claims(j, o)' <=> k \in Claims(j, o))
        BY <1>3 DEF Claims
      <4>4. Claims(j, o)' \subseteq Handles /\ Claims(j, o) \subseteq Handles
        BY DEF Claims
      <4> QED
        BY <1>2, <4>1, <4>2, <4>3, <4>4
    <3>3. Cardinality(Claims(j, o)') = Cardinality(Claims(j, o) \ {h}) + 1
      BY <2>1, <3>2, ClaimsType, CountAdd
    <3>4. Cardinality(Claims(j, o) \ {h}) = Cardinality(Claims(j, o)) - 1
      BY <3>1, ClaimsType, CountType, FS_RemoveElement
    <3>5. Cardinality(Claims(j, o)) \in Nat
      BY ClaimsType, CountType
    <3> QED
      BY <2>3, <3>3, <3>4, <3>5
  <2> QED
    BY <2>2, <2>3
<1>7. PinsCover' /\ ImageCovers'
  <2>1. PinsCover'
    BY <1>1, <1>6 DEF PinInv, PinsCover
  <2>2. ImageCovers'
    BY <1>1, <1>6 DEF PinInv, ImageCovers, Instances
  <2> QED
    BY <2>1, <2>2
<1>8. HandleShape'
  <2> SUFFICES ASSUME NEW k \in Handles
               PROVE  /\ handle'[k].st = "none" => handle'[k] = NoHandle
                      /\ handle'[k].st # "none" => /\ handle'[k].at \in Instances
                                                   /\ handle'[k].obj \in Objects
                                                   /\ life'[handle'[k].at] # "none"
                      /\ handle'[k].adoptable # {} => handle'[k].at = Proto
    BY DEF HandleShape
  <2>1. CASE k = h
    BY <2>1, <1>1, <1>2, <1>5 DEF PinInv, HandleShape
  <2>2. CASE k = new
    <3>1. handle'[k].st = "held" /\ handle'[k].at = c /\ handle'[k].obj = o0
          /\ handle'[k].adoptable = {}
      BY <2>2, <1>3
    <3> QED
      BY <3>1, <1>1, <1>2
  <2>3. CASE k # h /\ k # new
    BY <2>3, <1>1, <1>3 DEF PinInv, HandleShape
  <2> QED
    BY <2>1, <2>2, <2>3
<1>9. ImageShape'
  BY <1>1 DEF PinInv, ImageShape
<1>10. OpShape' /\ TakenOnce'
  <2>1. \A g \in Goroutines : /\ op[g].taken \subseteq Handles
                              /\ h \notin op[g].taken /\ new \notin op[g].taken
    BY <1>1 DEF PinInv, OpShape, TypeOK
  <2>2. \A g \in Goroutines : \A k \in op[g].taken : handle'[k] = handle[k]
    BY <2>1, <1>3
  <2>3. TakenOnce'
    BY <1>1 DEF PinInv, TakenOnce
  <2>4. OpShape'
    <3>1. UNCHANGED <<op, life>>
      BY <1>1
    <3> QED
      BY <2>2, <3>1 DEF PinInv, OpShape
  <2> QED
    BY <2>3, <2>4
<1> QED
  BY <1>4, <1>7, <1>8, <1>9, <1>10 DEF PinInv

LEMMA CloseKeeps == ASSUME PinInv, NEW i \in Instances, Close(i) PROVE PinInv'
<1>1. /\ life[i] = "open" /\ life' = [life EXCEPT ![i] = "closed"]
      /\ pins' = [pins EXCEPT ![i] = Unpinned]
      /\ UNCHANGED <<handle, image, op>>
  BY DEF Close
<1>2. /\ life'[i] = "closed" /\ \A j \in Instances : j # i => life'[j] = life[j]
      /\ \A j \in Instances : j # i => pins'[j] = pins[j]
  BY <1>1 DEF PinInv, TypeOK
<1>3. TypeOK'
  BY <1>1 DEF PinInv, TypeOK, Unpinned
<1>4. \A j, o : Claims(j, o)' = Claims(j, o)
  BY <1>1 DEF Claims
<1>5. PinsCover' /\ ImageCovers'
  BY <1>1, <1>2, <1>4 DEF PinInv, PinsCover, ImageCovers, Instances
<1>6. HandleShape' /\ ImageShape' /\ OpShape' /\ TakenOnce'
  BY <1>1, <1>2 DEF PinInv, HandleShape, ImageShape, OpShape, TakenOnce, Instances
<1> QED
  BY <1>3, <1>5, <1>6 DEF PinInv

LEMMA PinsNext == ASSUME PinInv, [Next]_vars PROVE PinInv'
<1>1. CASE \E h \in Handles : Collect(h)
  BY <1>1, CollectKeeps
<1>2. CASE \E g \in Goroutines : Encodes(g)
  BY <1>2, EncodeKeeps DEF Encodes
<1>3. CASE \E g \in Goroutines : Refuse(g) \/ Run(g)
  BY <1>3, EndKeeps DEF Refuse, Run
<1>4. CASE \E g \in Goroutines : Take(g)
  BY <1>4, TakeKeeps
<1>5. CASE \E g \in Goroutines : Release(g)
  BY <1>5, ReleaseKeeps
<1>6. CASE \E g \in Goroutines, h \in Handles, o \in Objects : RunReturning(g, h, o)
  BY <1>6, RunReturningKeeps
<1>7. CASE \E c \in Clones : Clone(c)
  BY <1>7, CloneKeeps
<1>8. CASE \E c \in Clones, h, new \in Handles : Adopt(h, c, new)
  BY <1>8, AdoptKeeps
<1>9. CASE \E i \in Instances : Close(i)
  BY <1>9, CloseKeeps
<1>10. CASE UNCHANGED vars
  <2>1. SameClaims
    BY <1>10 DEF vars, SameClaims
  <2> QED
    BY <1>10, <2>1, KeepCounts
    DEF vars, PinInv, TypeOK, HandleShape, ImageShape, OpShape, TakenOnce
<1> QED
  BY <1>1, <1>2, <1>3, <1>4, <1>5, <1>6, <1>7, <1>8, <1>9, <1>10 DEF Next, Returns

-------------------------------------------------------------------------------
(* Theorems.                                                               *)

LEMMA PinsAlways == Spec => []PinInv
<1>1. PinInv /\ [Next]_vars => PinInv'
  BY PinsNext
<1> QED
  BY <1>1, PinsInit, PTL DEF Spec

\* The registries, the queue and the operations are of the types that the module gives;
\* in particular no pin count becomes negative.
THEOREM HandlesTyped == Spec => []TypeOK
<1>1. PinInv => TypeOK
  BY DEF PinInv
<1> QED
  BY <1>1, PinsAlways, PTL

\* decodeNode, finalizers and drainReleases keep pins and handles in step: an object of
\* the prototype has as many pins as there are handles that have not given theirs back.
THEOREM PinsInStep == Spec => []PinsMatchHandles
<1>1. PinInv => PinsMatchHandles
  BY ClaimsOfProto, HandleAssumption DEF PinInv, PinsCover, PinsMatchHandles, Instances
<1> QED
  BY <1>1, PinsAlways, PTL

LEMMA HeldArePinned ==
  ASSUME PinInv, NEW h \in Handles, handle[h].st # "none", life[handle[h].at] = "open"
  PROVE  pins[handle[h].at][handle[h].obj] > 0
<1> DEFINE i == handle[h].at
           o == handle[h].obj
<1>1. i \in Instances /\ o \in Objects /\ pins[i][o] \in Nat
  BY DEF PinInv, HandleShape, TypeOK
<1>2. {h} \subseteq Claims(i, o)
  BY DEF Claims
<1>3. Cardinality({h}) = 1 /\ Cardinality({h}) <= Cardinality(Claims(i, o))
  BY <1>2, ClaimsType, CountLess, FS_Singleton
<1>4. Cardinality(Claims(i, o)) \in Nat /\ Cardinality(Claims(i, o)) <= pins[i][o]
  BY <1>1, ClaimsType, CountType DEF PinInv, PinsCover
<1> QED
  BY <1>1, <1>3, <1>4

\* A reference that Go holds keeps its object, in its own instance and in the clones
\* that adopted it.
THEOREM HeldStayAlive == Spec => []HeldObjectsAlive
<1>1. PinInv => HeldObjectsAlive
  BY HeldArePinned DEF HeldObjectsAlive
<1> QED
  BY <1>1, PinsAlways, PTL

\* What an operation was passed is held until it returns.
PassedHeld ==
  \A g \in Goroutines :
    op[g].pc # "idle" =>
      /\ op[g].ids = {handle[h].obj : h \in op[g].uses}
      /\ \A h \in op[g].uses : handle[h].st = "held" /\ handle[h].at = op[g].at

LEMMA PassedNext ==
  ASSUME HeldDuringCall, PinInv, PassedHeld, [Next]_vars
  PROVE  PassedHeld'
<1>0. \A g \in Goroutines : op[g].uses \subseteq Handles
  BY DEF PinInv, TypeOK
<1>1. ASSUME NEW h \in Handles, Collect(h) PROVE PassedHeld'
  <2>1. /\ \A g \in Goroutines : h \notin op[g].uses
        /\ UNCHANGED op /\ \A k \in Handles : k # h => handle'[k] = handle[k]
    BY <1>1 DEF Collect, PinInv, TypeOK
  <2> QED
    BY <2>1, <1>0 DEF PassedHeld
<1>2. ASSUME NEW g \in Goroutines, Encodes(g) PROVE PassedHeld'
  <2>1. PICK i \in Instances : \E hs \in SUBSET In(i, "held") : Encode(g, i, hs)
    BY <1>2 DEF Encodes
  <2>1a. PICK hs \in SUBSET In(i, "held") : Encode(g, i, hs)
    BY <2>1
  <2>2. /\ op'[g].uses = hs /\ op'[g].at = i /\ op'[g].ids = {handle[h].obj : h \in hs}
        /\ \A k \in Goroutines : k # g => op'[k] = op[k]
        /\ UNCHANGED handle
    BY <2>1a DEF Encode, PinInv, TypeOK
  <2>3. \A h \in hs : handle[h].st = "held" /\ handle[h].at = i
    BY DEF In
  <2> QED
    BY <2>2, <2>3 DEF PassedHeld
<1>3. ASSUME NEW g \in Goroutines, Refuse(g) \/ Run(g) PROVE PassedHeld'
  <2>1. /\ op'[g] = NoOp /\ \A k \in Goroutines : k # g => op'[k] = op[k]
        /\ UNCHANGED handle
    BY <1>3 DEF Refuse, Run, PinInv, TypeOK
  <2> QED
    BY <2>1 DEF PassedHeld, NoOp
<1>4. ASSUME NEW g \in Goroutines, Take(g) PROVE PassedHeld'
  <2>1. /\ op'[g].uses = op[g].uses /\ op'[g].at = op[g].at /\ op'[g].ids = op[g].ids
        /\ op[g].pc # "idle"
        /\ \A k \in Goroutines : k # g => op'[k] = op[k]
        /\ \A h \in Handles : handle[h].st = "held" => handle'[h] = handle[h]
    BY <1>4 DEF Take, PinInv, TypeOK, In
  <2> QED
    BY <2>1, <1>0 DEF PassedHeld
<1>5. ASSUME NEW g \in Goroutines, Release(g) PROVE PassedHeld'
  <2>1. /\ op'[g].uses = op[g].uses /\ op'[g].at = op[g].at /\ op'[g].ids = op[g].ids
        /\ op[g].pc # "idle"
        /\ \A k \in Goroutines : k # g => op'[k] = op[k]
        /\ \A h \in Handles : handle[h].st = "held" => handle'[h] = handle[h]
    BY <1>5 DEF Release, PinInv, TypeOK, OpShape
  <2> QED
    BY <2>1, <1>0 DEF PassedHeld
<1>6. ASSUME NEW g \in Goroutines, NEW h \in Handles, NEW o \in Objects, RunReturning(g, h, o)
      PROVE  PassedHeld'
  <2>1. /\ op'[g] = NoOp /\ \A k \in Goroutines : k # g => op'[k] = op[k]
        /\ handle[h].st = "none" /\ \A k \in Handles : k # h => handle'[k] = handle[k]
    BY <1>6 DEF RunReturning, PinInv, TypeOK
  <2> QED
    BY <2>1, <1>0 DEF PassedHeld, NoOp
<1>7. ASSUME NEW c \in Clones, Clone(c) PROVE PassedHeld'
  <2>1. /\ UNCHANGED op
        /\ \A h \in Handles : /\ handle'[h].obj = handle[h].obj /\ handle'[h].at = handle[h].at
                              /\ handle'[h].st = handle[h].st
    BY <1>7 DEF Clone, Marked, PinInv, TypeOK
  <2> QED
    BY <2>1, <1>0 DEF PassedHeld
<1>8. ASSUME NEW c \in Clones, NEW h \in Handles, NEW new \in Handles, Adopt(h, c, new)
      PROVE  PassedHeld'
  <2>1. /\ UNCHANGED op /\ handle[new].st = "none" /\ h # new
        /\ \A k \in Handles : k # new => /\ handle'[k].obj = handle[k].obj
                                         /\ handle'[k].at = handle[k].at
                                         /\ handle'[k].st = handle[k].st
    BY <1>8 DEF Adopt, PinInv, TypeOK
  <2> QED
    BY <2>1, <1>0 DEF PassedHeld
<1>9. ASSUME NEW i \in Instances, Close(i) PROVE PassedHeld'
  BY <1>9 DEF Close, PassedHeld
<1>10. CASE UNCHANGED vars
  BY <1>10 DEF vars, PassedHeld
<1> QED
  BY <1>1, <1>2, <1>3, <1>4, <1>5, <1>6, <1>7, <1>8, <1>9, <1>10 DEF Next, Returns

\* A program that keeps what it passes reachable finds it in the call: the drain that
\* goes before the guest call takes no pin that the call relies on.
THEOREM CallsSafe == HeldDuringCall /\ Spec => []CallsFindTheirObjects
<1> SUFFICES ASSUME HeldDuringCall PROVE Spec => []CallsFindTheirObjects
  OBVIOUS
<1>1. Init => PassedHeld
  BY DEF Init, PassedHeld, NoOp
<1>2. PinInv /\ PassedHeld /\ [Next]_vars => PassedHeld'
  BY PassedNext
<1>3. PinInv /\ PassedHeld => CallsFindTheirObjects
  <2> SUFFICES ASSUME PinInv, PassedHeld, NEW g \in Goroutines, op[g].pc = "ready",
                      life[op[g].at] = "open", NEW o \in op[g].ids
               PROVE  pins[op[g].at][o] > 0
    BY DEF CallsFindTheirObjects
  <2>1. PICK h \in op[g].uses : handle[h].obj = o
    BY DEF PassedHeld
  <2>2. h \in Handles /\ handle[h].st = "held" /\ handle[h].at = op[g].at
    BY <2>1 DEF PassedHeld, PinInv, TypeOK
  <2> QED
    BY <2>1, <2>2, HeldArePinned
<1> QED
  BY <1>1, <1>2, <1>3, PinsAlways, PTL DEF Spec
===============================================================================
