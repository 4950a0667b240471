-------------------------- MODULE InstanceEntryProofs --------------------------
(***************************************************************************)
(* Theorems about InstanceEntry, for any number of goroutines, nesting     *)
(* depth and queue length.                                                 *)
(***************************************************************************)
EXTENDS InstanceEntry, SequenceTheorems, TLAPS

(***************************************************************************)
(* Sequence facts about the frames of one goroutine.                       *)
(***************************************************************************)

\* Pushing a frame keeps the frames below it.
LEMMA PushFrame ==
  ASSUME NEW s \in Seq(Frame), NEW f \in Frame
  PROVE  /\ Append(s, f) \in Seq(Frame)
         /\ Len(Append(s, f)) = Len(s) + 1
         /\ Append(s, f)[Len(s) + 1] = f
         /\ \A k \in 1..Len(s) : Append(s, f)[k] = s[k]
         /\ Append(s, f) # << >>
  OBVIOUS

\* Popping the innermost frame keeps the others.
LEMMA PopFrame ==
  ASSUME NEW s \in Seq(Frame), s # << >>
  PROVE  /\ s[Len(s)] \in Frame
         /\ SubSeq(s, 1, Len(s) - 1) \in Seq(Frame)
         /\ Len(SubSeq(s, 1, Len(s) - 1)) = Len(s) - 1
         /\ \A k \in 1..(Len(s) - 1) : SubSeq(s, 1, Len(s) - 1)[k] = s[k]
  <1> DEFINE n == Len(s)
             r == SubSeq(s, 1, n - 1)
  <1>1. n \in Nat /\ n >= 1
    BY EmptySeq
  <1>2. \A i \in 1..n : s[i] \in Frame
    BY ElementOfSeq
  <1> HIDE DEF n
  <1>3. /\ r \in Seq(Frame)
        /\ Len(r) = IF 1 <= n - 1 THEN (n - 1) - 1 + 1 ELSE 0
        /\ \A k \in 1..((n - 1) - 1 + 1) : r[k] = s[1 + k - 1]
    <2>1. n - 1 \in Int /\ \A i \in 1..(n - 1) : s[i] \in Frame
      BY <1>1, <1>2
    <2>2. QED
      BY <2>1, SubSeqProperties
  <1> HIDE DEF r
  <1>4. Len(r) = n - 1 /\ \A k \in 1..(n - 1) : r[k] = s[k]
    BY <1>1, <1>3
  <1>5. s[n] \in Frame
    BY <1>1, <1>2
  <1>6. QED
    BY <1>3, <1>4, <1>5 DEF r, n

-------------------------------------------------------------------------------
(***************************************************************************)
(* A goroutine executing in the guest, or returning to it, has a frame.    *)
(***************************************************************************)
HasFrame ==
  \A g \in Goroutines : pc[g] \in {"guest", "resume"} => frames[g] # << >>

\* A frame lies at a real stack position.
FramesAboveZero ==
  \A g \in Goroutines : \A k \in 1..Len(frames[g]) : frames[g][k].at >= 1

Typed == TypeOK /\ HasFrame /\ FramesAboveZero

\* What Enter does to the frames: one more for g, at the new stack top.
LEMMA EnterEffect ==
  ASSUME Typed, NEW g \in Goroutines, Enter(g)
  PROVE  /\ frames' \in [Goroutines -> Seq(Frame)]
         /\ frames'[g] # << >>
         /\ Len(frames'[g]) = Len(frames[g]) + 1
         /\ frames'[g][Len(frames[g]) + 1].at = sp + 1
         /\ frames'[g][Len(frames[g]) + 1].job = pc[g]
         /\ \A k \in 1..Len(frames[g]) : frames'[g][k] = frames[g][k]
         /\ \A h \in Goroutines \ {g} : frames'[h] = frames[h]
  <1> DEFINE f == [at |-> sp + 1, job |-> pc[g]]
  <1>1. f \in Frame /\ frames[g] \in Seq(Frame)
    <2>1. sp + 1 \in Nat /\ pc[g] \in Jobs
      BY DEF Enter, Typed, TypeOK
    <2>2. frames[g] \in Seq(Frame)
      BY DEF Typed, TypeOK
    <2>3. QED
      BY <2>1, <2>2 DEF Frame
  <1>2. frames' = [frames EXCEPT ![g] = Append(frames[g], f)]
    BY DEF Enter
  <1>3. frames \in [Goroutines -> Seq(Frame)]
    BY DEF Typed, TypeOK
  <1>4. f.at = sp + 1 /\ f.job = pc[g]
    OBVIOUS
  <1> HIDE DEF f
  <1>5. frames'[g] = Append(frames[g], f) /\ \A h \in Goroutines \ {g} : frames'[h] = frames[h]
    BY <1>2, <1>3
  <1>6. frames' \in [Goroutines -> Seq(Frame)]
    BY <1>1, <1>2, <1>3, PushFrame
  <1>7. QED
    BY SMTT(30), <1>1, <1>4, <1>5, <1>6, PushFrame

\* What Exit does: the innermost frame of g is gone, and the stack pointer is
\* back below it.
LEMMA ExitEffect ==
  ASSUME Typed, NEW g \in Goroutines, Exit(g)
  PROVE  LET n == Len(frames[g]) IN
         /\ n \in Nat /\ n >= 1
         /\ frames[g][n].at \in Nat \ {0}
         /\ frames[g][n].job \in Jobs
         /\ sp' = frames[g][n].at - 1
         /\ pc' = [pc EXCEPT ![g] = After(frames[g][n].job)]
         /\ pc[g] = "guest"
         /\ mu' = NoOne
         /\ life' = IF frames[g][n].job = "close" THEN "destroyed" ELSE life
         /\ UNCHANGED <<closed, pending>>
         /\ frames' \in [Goroutines -> Seq(Frame)]
         /\ Len(frames'[g]) = n - 1
         /\ \A k \in 1..(n - 1) : frames'[g][k] = frames[g][k]
         /\ \A h \in Goroutines \ {g} : frames'[h] = frames[h]
  <1> DEFINE s == frames[g]
             n == Len(s)
             rest == SubSeq(s, 1, n - 1)
  <1>1. s \in Seq(Frame) /\ s # << >>
    BY DEF Exit, Moves, Typed, TypeOK, HasFrame
  <1>2. n \in Nat /\ n >= 1
    BY <1>1, EmptySeq
  <1>3. frames' = [frames EXCEPT ![g] = rest] /\ frames \in [Goroutines -> Seq(Frame)]
    BY DEF Exit, Typed, TypeOK
  <1>4. /\ sp' = s[n].at - 1
        /\ pc' = [pc EXCEPT ![g] = After(s[n].job)]
        /\ pc[g] = "guest"
        /\ mu' = NoOne
        /\ life' = IF s[n].job = "close" THEN "destroyed" ELSE life
        /\ UNCHANGED <<closed, pending>>
    BY DEF Exit, Moves
  <1>5. /\ rest \in Seq(Frame)
        /\ Len(rest) = n - 1
        /\ \A k \in 1..(n - 1) : rest[k] = s[k]
        /\ s[n] \in Frame
    BY <1>1, PopFrame
  <1>6. s[n].at >= 1
    <2>1. \A k \in 1..n : s[k].at >= 1
      BY DEF Typed, FramesAboveZero
    <2>2. QED
      BY <1>2, <2>1
  <1>7. s[n].at \in Nat \ {0} /\ s[n].job \in Jobs
    BY <1>5, <1>6 DEF Frame
  <1>8. frames'[g] = rest /\ \A h \in Goroutines \ {g} : frames'[h] = frames[h]
    BY <1>3
  <1>9. frames' \in [Goroutines -> Seq(Frame)]
    BY <1>3, <1>5
  <1> HIDE DEF rest
  <1>10. Len(frames'[g]) = n - 1 /\ \A k \in 1..(n - 1) : frames'[g][k] = s[k]
    BY <1>5, <1>8
  <1>11. QED
    BY <1>2, <1>4, <1>7, <1>8, <1>9, <1>10

LEMMA TypedInit == Init => Typed
  <1> SUFFICES ASSUME Init
               PROVE  Typed
    OBVIOUS
  <1>1. frames \in [Goroutines -> Seq(Frame)] /\ \A g \in Goroutines : Len(frames[g]) = 0
    BY EmptySeq DEF Init
  <1>2. TypeOK
    <2>1. pending \in 0..MaxPending
      BY EntryAssumption DEF EntryAssumption, Init
    <2>2. closed \in BOOLEAN
      BY DEF Init
    <2>3. QED
      BY <1>1, <2>1, <2>2 DEF Init, TypeOK
  <1>3. HasFrame
    BY DEF Init, HasFrame
  <1>4. FramesAboveZero
    BY <1>1 DEF FramesAboveZero
  <1>5. QED
    BY <1>2, <1>3, <1>4 DEF Typed

LEMMA TypedNext == Typed /\ [Next]_vars => Typed'
  <1> USE EntryAssumption DEF EntryAssumption, Jobs
  <1> SUFFICES ASSUME Typed, [Next]_vars
               PROVE  Typed'
    OBVIOUS
  <1>1. ASSUME NEW g \in Goroutines, StartOp(g)
        PROVE  Typed'
    BY <1>1 DEF Typed, TypeOK, HasFrame, FramesAboveZero, StartOp, Moves
  <1>2. ASSUME NEW g \in Goroutines, Drain(g)
        PROVE  Typed'
    BY <1>2 DEF Typed, TypeOK, HasFrame, FramesAboveZero, Drain, Moves
  <1>3. ASSUME NEW g \in Goroutines, StartBind(g)
        PROVE  Typed'
    BY <1>3 DEF Typed, TypeOK, HasFrame, FramesAboveZero, StartBind, Moves
  <1>4. ASSUME NEW g \in Goroutines, StartClose(g)
        PROVE  Typed'
    BY <1>4 DEF Typed, TypeOK, HasFrame, FramesAboveZero, StartClose, Moves
  <1>5. ASSUME NEW g \in Goroutines, Unmap(g)
        PROVE  Typed'
    BY <1>5 DEF Typed, TypeOK, HasFrame, FramesAboveZero, Unmap, Moves
  <1>6. ASSUME NEW g \in Goroutines, Enter(g)
        PROVE  Typed'
    <2>1. TypeOK'
      <3>1. frames' \in [Goroutines -> Seq(Frame)]
        BY <1>6, EnterEffect
      <3>2. QED
        BY <1>6, <3>1 DEF Enter, Typed, TypeOK
    <2>2. HasFrame'
      BY <1>6, EnterEffect DEF Enter, Typed, TypeOK, HasFrame
    <2>3. FramesAboveZero'
      <3>1. Len(frames[g]) \in Nat /\ sp \in Nat
        BY EmptySeq DEF Typed, TypeOK
      <3>2. /\ Len(frames'[g]) = Len(frames[g]) + 1
            /\ frames'[g][Len(frames[g]) + 1].at = sp + 1
            /\ \A k \in 1..Len(frames[g]) : frames'[g][k] = frames[g][k]
            /\ \A h \in Goroutines \ {g} : frames'[h] = frames[h]
        BY <1>6, EnterEffect
      <3>3. \A k \in 1..Len(frames[g]) : frames[g][k].at >= 1
        BY DEF Typed, FramesAboveZero
      <3>4. \A k \in 1..Len(frames'[g]) : frames'[g][k].at >= 1
        BY <3>1, <3>2, <3>3
      <3>5. \A h \in Goroutines \ {g} : \A k \in 1..Len(frames[h]) : frames[h][k].at >= 1
        BY DEF Typed, FramesAboveZero
      <3>6. QED
        BY <3>2, <3>4, <3>5 DEF FramesAboveZero
    <2>4. QED
      BY <2>1, <2>2, <2>3 DEF Typed
  <1>7. ASSUME NEW g \in Goroutines, Exit(g)
        PROVE  Typed'
    <2> DEFINE n == Len(frames[g])
    <2>1. TypeOK'
      <3>1. /\ After(frames[g][n].job) \in {"op", "unmap", "host"}
            /\ pc' = [pc EXCEPT ![g] = After(frames[g][n].job)]
        BY <1>7, ExitEffect DEF After
      <3>2. pc' \in [Goroutines -> Jobs \cup {"host", "checked", "guest", "resume", "unmap"}]
        BY <3>1 DEF Typed, TypeOK
      <3>3. sp' \in Nat
        BY <1>7, ExitEffect
      <3>4. mu' \in Goroutines \cup {NoOne} /\ life' \in {"live", "destroyed", "unmapped"}
        BY <1>7, ExitEffect DEF Typed, TypeOK
      <3>5. closed' \in BOOLEAN /\ pending' \in 0..MaxPending
        BY <1>7, ExitEffect DEF Typed, TypeOK
      <3>6. QED
        BY <1>7, <3>2, <3>3, <3>4, <3>5, ExitEffect DEF TypeOK
    <2>2. HasFrame'
      <3>1. /\ After(frames[g][n].job) \in {"op", "unmap", "host"}
            /\ pc' = [pc EXCEPT ![g] = After(frames[g][n].job)]
        BY <1>7, ExitEffect DEF After
      <3>2. pc'[g] \notin {"guest", "resume"} /\ \A h \in Goroutines \ {g} : pc'[h] = pc[h]
        BY <3>1 DEF Typed, TypeOK
      <3>3. QED
        BY <1>7, <3>2, ExitEffect DEF Typed, HasFrame
    <2>3. FramesAboveZero'
      <3>1. \A k \in 1..Len(frames'[g]) : frames'[g][k].at >= 1
        BY <1>7, ExitEffect DEF Typed, FramesAboveZero
      <3>2. QED
        BY <1>7, <3>1, ExitEffect DEF Typed, FramesAboveZero
    <2>4. QED
      BY <2>1, <2>2, <2>3 DEF Typed
  <1>8. ASSUME NEW g \in Goroutines, Callback(g)
        PROVE  Typed'
    BY <1>8 DEF Typed, TypeOK, HasFrame, FramesAboveZero, Callback, Moves
  <1>9. ASSUME NEW g \in Goroutines, HandlerReturn(g)
        PROVE  Typed'
    BY <1>9 DEF Typed, TypeOK, HasFrame, FramesAboveZero, HandlerReturn, Moves
  <1>10. ASSUME NEW g \in Goroutines, Resume(g)
         PROVE  Typed'
    BY <1>10 DEF Typed, TypeOK, HasFrame, FramesAboveZero, Resume, Moves
  <1>11. CASE QueueRelease
    BY <1>11 DEF Typed, TypeOK, HasFrame, FramesAboveZero, QueueRelease
  <1>12. CASE UNCHANGED vars
    BY <1>12 DEF Typed, TypeOK, HasFrame, FramesAboveZero, vars
  <1>13. QED
    BY <1>1, <1>2, <1>3, <1>4, <1>5, <1>6, <1>7, <1>8, <1>9, <1>10, <1>11, <1>12
       DEF Next, Step

(***************************************************************************)
(* Every variable keeps its type, in every configuration: the entry        *)
(* functions of internal/perl.go never pop below the bottom of the stack.  *)
(***************************************************************************)
THEOREM TypeCorrect == Spec => []TypeOK
  <1>1. Typed => TypeOK
    BY DEF Typed
  <1>2. QED
    BY TypedInit, TypedNext, <1>1, PTL DEF Spec
-------------------------------------------------------------------------------
LEMMA ExclusiveInit == Init => MutualExclusion
  BY EntryAssumption DEF EntryAssumption, Init, MutualExclusion, InGuest

LEMMA ExclusiveNext == Typed /\ MutualExclusion /\ [Next]_vars => MutualExclusion'
  <1> USE EntryAssumption DEF EntryAssumption, MutualExclusion, InGuest, Typed, TypeOK, Jobs
  <1> SUFFICES ASSUME Typed, MutualExclusion, [Next]_vars
               PROVE  MutualExclusion'
    OBVIOUS
  <1>1. ASSUME NEW g \in Goroutines,
               StartOp(g) \/ Drain(g) \/ StartBind(g) \/ StartClose(g) \/ Unmap(g)
                 \/ HandlerReturn(g)
        PROVE  MutualExclusion'
    BY <1>1 DEF StartOp, Drain, StartBind, StartClose, Unmap, HandlerReturn, Moves
  <1>2. ASSUME NEW g \in Goroutines, Enter(g)
        PROVE  MutualExclusion'
    BY <1>2 DEF Enter
  <1>3. ASSUME NEW g \in Goroutines, Exit(g)
        PROVE  MutualExclusion'
    <2>1. /\ mu' = NoOne
          /\ pc[g] = "guest"
          /\ pc' = [pc EXCEPT ![g] = After(frames[g][Len(frames[g])].job)]
      BY <1>3, ExitEffect
    <2>2. After(frames[g][Len(frames[g])].job) # "guest"
      BY DEF After
    <2>3. QED
      BY <2>1, <2>2
  <1>4. ASSUME NEW g \in Goroutines, Callback(g)
        PROVE  MutualExclusion'
    BY <1>4 DEF Callback, Moves
  <1>5. ASSUME NEW g \in Goroutines, Resume(g)
        PROVE  MutualExclusion'
    BY <1>5 DEF Resume, Moves
  <1>6. CASE QueueRelease
    BY <1>6 DEF QueueRelease
  <1>7. CASE UNCHANGED vars
    BY <1>7 DEF vars
  <1>8. QED
    BY <1>1, <1>2, <1>3, <1>4, <1>5, <1>6, <1>7 DEF Next, Step

(***************************************************************************)
(* In every configuration, whoever executes guest code owns mu and whoever *)
(* owns mu executes guest code: invoke and handleCallback never leave the  *)
(* guest running unprotected, nor keep the lock across a Go callback.      *)
(***************************************************************************)
THEOREM ExclusiveGuest == Spec => []MutualExclusion
  BY ExclusiveInit, ExclusiveNext, TypedInit, TypedNext, PTL DEF Spec

-------------------------------------------------------------------------------
(***************************************************************************)
(* StackDiscipline is not inductive: that the innermost frame of the       *)
(* executing goroutine is at sp on Resume depends on how every frame below *)
(* it got there.  When at most one goroutine makes callbacks, only its     *)
(* frames can be suspended, so they fill the stack from the bottom without *)
(* a gap, and any other goroutine has at most one frame, on top, and only  *)
(* while it executes.                                                      *)
(***************************************************************************)
SingleCaller == \A g, h \in Callers : g = h

Plain == Goroutines \ Callers

OnTop == IF mu \in Plain THEN 1 ELSE 0

PlainOnTop ==
  \A g \in Plain :
    /\ Len(frames[g]) = IF InGuest(g) THEN 1 ELSE 0
    /\ InGuest(g) => frames[g][1].at = sp

CallerBelow ==
  \A g \in Callers :
    /\ \A k \in 1..Len(frames[g]) : frames[g][k].at = k
    /\ sp = Len(frames[g]) + OnTop

EmptyBelow == Callers = {} => sp = OnTop

StackInv ==
  /\ Typed
  /\ MutualExclusion
  /\ PlainOnTop
  /\ CallerBelow
  /\ EmptyBelow

LEMMA StackInit == Init => StackInv
  <1> SUFFICES ASSUME Init
               PROVE  StackInv
    OBVIOUS
  <1>1. \A g \in Goroutines : Len(frames[g]) = 0 /\ ~InGuest(g)
    BY EmptySeq DEF Init, InGuest
  <1>2. OnTop = 0 /\ sp = 0
    BY EntryAssumption DEF EntryAssumption, Init, OnTop, Plain
  <1>3. QED
    BY <1>1, <1>2, TypedInit, ExclusiveInit, EntryAssumption
       DEF EntryAssumption, StackInv, PlainOnTop, CallerBelow, EmptyBelow, Plain

\* Steps that leave the stack and the mutex alone keep the invariant.
LEMMA StackUntouched ==
  ASSUME StackInv, Typed', MutualExclusion', UNCHANGED <<frames, sp, mu>>
  PROVE  StackInv'
  <1>1. \A g \in Goroutines : InGuest(g)' <=> InGuest(g)
    BY DEF StackInv, MutualExclusion
  <1>2. QED
    BY <1>1 DEF StackInv, PlainOnTop, CallerBelow, EmptyBelow, OnTop, Plain

LEMMA StackNext == SingleCaller /\ StackInv /\ [Next]_vars => StackInv'
  <1> SUFFICES ASSUME SingleCaller, StackInv, [Next]_vars
               PROVE  StackInv'
    OBVIOUS
  <1>1. Typed' /\ MutualExclusion'
    BY TypedNext, ExclusiveNext DEF StackInv
  <1>2. ASSUME NEW g \in Goroutines,
               StartOp(g) \/ Drain(g) \/ StartBind(g) \/ StartClose(g) \/ Unmap(g)
                 \/ HandlerReturn(g)
        PROVE  StackInv'
    BY <1>1, <1>2, StackUntouched
       DEF StartOp, Drain, StartBind, StartClose, Unmap, HandlerReturn
  <1>3. CASE QueueRelease \/ UNCHANGED vars
    BY <1>1, <1>3, StackUntouched DEF QueueRelease, vars
  <1>4. \A g \in Goroutines : Len(frames[g]) \in Nat
    BY EmptySeq DEF StackInv, Typed, TypeOK
  <1>5. sp \in Nat
    BY DEF StackInv, Typed, TypeOK
  <1>6. ASSUME NEW g \in Goroutines, Enter(g)
        PROVE  StackInv'
    <2>1. /\ mu = NoOne /\ mu' = g /\ sp' = sp + 1
          /\ pc[g] # "guest"
          /\ pc' = [pc EXCEPT ![g] = "guest"]
      BY <1>6 DEF Enter, Jobs
    <2>2. /\ frames'[g] # << >>
          /\ Len(frames'[g]) = Len(frames[g]) + 1
          /\ frames'[g][Len(frames[g]) + 1].at = sp + 1
          /\ \A k \in 1..Len(frames[g]) : frames'[g][k] = frames[g][k]
          /\ \A h \in Goroutines \ {g} : frames'[h] = frames[h]
      BY <1>6, EnterEffect DEF StackInv
    <2>3. \A h \in Goroutines : ~InGuest(h) /\ (InGuest(h)' <=> h = g)
      BY <1>1, <2>1, EntryAssumption DEF EntryAssumption, StackInv, MutualExclusion
    <2>4. OnTop = 0
      BY <2>1, EntryAssumption DEF EntryAssumption, OnTop, Plain
    <2>5. CASE g \in Plain
      <3>1. OnTop' = 1
        BY <2>1, <2>5 DEF OnTop, Plain
      <3>2. Len(frames[g]) = 0
        BY <2>3, <2>5 DEF StackInv, PlainOnTop
      <3>3. Len(frames'[g]) = 1 /\ frames'[g][1].at = sp'
        BY <2>1, <2>2, <3>2
      <3>4. PlainOnTop'
        BY <2>2, <2>3, <3>3 DEF StackInv, PlainOnTop, Plain
      <3>5. CallerBelow'
        BY <1>4, <2>1, <2>2, <2>4, <2>5, <3>1, EntryAssumption
           DEF EntryAssumption, StackInv, CallerBelow, Plain
      <3>6. EmptyBelow'
        BY <2>1, <2>4, <3>1 DEF StackInv, EmptyBelow
      <3>7. QED
        BY <1>1, <3>4, <3>5, <3>6 DEF StackInv
    <2>6. CASE g \in Callers
      <3>1. OnTop' = 0
        BY <2>1, <2>6 DEF OnTop, Plain
      <3>2. sp = Len(frames[g]) /\ \A k \in 1..Len(frames[g]) : frames[g][k].at = k
        BY <1>4, <2>4, <2>6 DEF StackInv, CallerBelow
      <3>3. /\ sp' = Len(frames'[g]) + OnTop'
            /\ \A k \in 1..Len(frames'[g]) : frames'[g][k].at = k
        BY SMTT(30), <1>4, <2>1, <2>2, <3>1, <3>2
      <3>4. PlainOnTop'
        BY <2>2, <2>3, <2>6 DEF StackInv, PlainOnTop, Plain
      <3>5. CallerBelow'
        BY <2>6, <3>3 DEF SingleCaller, CallerBelow
      <3>6. EmptyBelow'
        BY <2>6 DEF EmptyBelow
      <3>7. QED
        BY <1>1, <3>4, <3>5, <3>6 DEF StackInv
    <2>7. QED
      BY <2>5, <2>6 DEF Plain
  <1>7. ASSUME NEW g \in Goroutines, Exit(g)
        PROVE  StackInv'
    <2> DEFINE n == Len(frames[g])
    <2>1. /\ n \in Nat /\ n >= 1
          /\ sp' = frames[g][n].at - 1
          /\ pc[g] = "guest" /\ mu' = NoOne
          /\ Len(frames'[g]) = n - 1
          /\ \A k \in 1..(n - 1) : frames'[g][k] = frames[g][k]
          /\ \A h \in Goroutines \ {g} : frames'[h] = frames[h]
      BY <1>7, ExitEffect DEF StackInv
    <2>2. mu = g
      BY <2>1 DEF StackInv, MutualExclusion, InGuest
    <2>3. \A h \in Goroutines : ~InGuest(h)' /\ (InGuest(h) <=> h = g)
      BY <1>1, <2>1, <2>2, EntryAssumption DEF EntryAssumption, StackInv, MutualExclusion
    <2>4. OnTop' = 0
      BY <2>1, EntryAssumption DEF EntryAssumption, OnTop, Plain
    <2>5. CASE g \in Plain
      <3>1. OnTop = 1
        BY <2>2, <2>5 DEF OnTop, Plain
      <3>2. n = 1 /\ sp' = sp - 1
        BY <1>5, <2>1, <2>3, <2>5 DEF StackInv, PlainOnTop
      <3>3. PlainOnTop'
        BY <2>1, <2>3, <3>2 DEF StackInv, PlainOnTop, Plain
      <3>4. CallerBelow'
        <4>1. ASSUME NEW h \in Callers
              PROVE  /\ \A k \in 1..Len(frames'[h]) : frames'[h][k].at = k
                     /\ sp' = Len(frames'[h]) + OnTop'
          <5>1. frames'[h] = frames[h] /\ Len(frames[h]) \in Nat
            BY <1>4, <2>1, <2>5, EntryAssumption DEF EntryAssumption, Plain
          <5>2. /\ \A k \in 1..Len(frames[h]) : frames[h][k].at = k
                /\ sp = Len(frames[h]) + 1
            BY <3>1 DEF StackInv, CallerBelow
          <5>3. QED
            BY <2>4, <3>2, <5>1, <5>2
        <4>2. QED
          BY <4>1 DEF CallerBelow
      <3>5. EmptyBelow'
        BY <2>4, <3>1, <3>2 DEF StackInv, EmptyBelow
      <3>6. QED
        BY <1>1, <3>3, <3>4, <3>5 DEF StackInv
    <2>6. CASE g \in Callers
      <3>1. /\ sp' = Len(frames'[g]) + OnTop'
            /\ \A k \in 1..Len(frames'[g]) : frames'[g][k].at = k
        <4>1. \A k \in 1..n : frames[g][k].at = k
          BY <2>6 DEF StackInv, CallerBelow
        <4> HIDE DEF n
        <4>2. frames[g][n].at = n
          BY <2>1, <4>1
        <4>3. \A k \in 1..(n - 1) : frames'[g][k].at = k
          BY <2>1, <4>1
        <4>4. QED
          BY <2>1, <2>4, <4>2, <4>3
      <3>2. PlainOnTop'
        BY <2>1, <2>3, <2>6 DEF StackInv, PlainOnTop, Plain
      <3>3. CallerBelow'
        BY <2>6, <3>1 DEF SingleCaller, CallerBelow
      <3>4. EmptyBelow'
        BY <2>6 DEF EmptyBelow
      <3>5. QED
        BY <1>1, <3>2, <3>3, <3>4 DEF StackInv
    <2>7. QED
      BY <2>5, <2>6 DEF Plain
  <1>8. ASSUME NEW g \in Goroutines, Callback(g) \/ Resume(g)
        PROVE  StackInv'
    <2>1. g \in Callers
      <3>1. CASE Resume(g)
        <4>1. frames[g] # << >> /\ ~InGuest(g)
          BY <3>1 DEF Resume, Moves, InGuest, StackInv, Typed, HasFrame
        <4>2. Len(frames[g]) # 0
          BY <4>1, EmptySeq DEF StackInv, Typed, TypeOK
        <4>3. QED
          BY <4>1, <4>2 DEF StackInv, PlainOnTop, Plain
      <3>2. QED
        BY <1>8, <3>1 DEF Callback
    <2>2. UNCHANGED <<frames, sp>> /\ {mu, mu'} = {g, NoOne}
      BY <1>8 DEF Callback, Resume, Moves, StackInv, MutualExclusion, InGuest
    <2>3. OnTop = 0 /\ OnTop' = 0
      BY <2>1, <2>2, EntryAssumption DEF EntryAssumption, OnTop, Plain
    <2>4. \A h \in Plain : ~InGuest(h) /\ ~InGuest(h)'
      BY <1>1, <2>1, <2>2, EntryAssumption
         DEF EntryAssumption, StackInv, MutualExclusion, Plain
    <2>5. QED
      BY <1>1, <2>1, <2>2, <2>3, <2>4 DEF StackInv, PlainOnTop, CallerBelow, EmptyBelow
  <1>9. QED
    BY <1>2, <1>3, <1>6, <1>7, <1>8 DEF Next, Step

LEMMA StackInvDiscipline == StackInv => StackDiscipline
  <1> SUFFICES ASSUME StackInv, NEW g \in Goroutines, InGuest(g)
               PROVE  frames[g][Len(frames[g])].at = sp
    BY DEF StackDiscipline
  <1>1. mu = g /\ Len(frames[g]) \in Nat /\ Len(frames[g]) # 0
    BY EmptySeq DEF StackInv, MutualExclusion, Typed, TypeOK, HasFrame, InGuest
  <1>2. CASE g \in Plain
    BY <1>2 DEF StackInv, PlainOnTop
  <1>3. CASE g \in Callers
    BY <1>1, <1>3 DEF StackInv, CallerBelow, OnTop, Plain
  <1>4. QED
    BY <1>2, <1>3 DEF Plain

(***************************************************************************)
(* If all Go callbacks are made by the Perl code of one goroutine, then    *)
(* however other goroutines enter meanwhile, the executing call is always  *)
(* innermost on the guest's C stack, as the comment on type Module claims. *)
(***************************************************************************)
THEOREM SingleCallerStacks ==
  ASSUME SingleCaller
  PROVE  Spec => []StackDiscipline
  BY StackInit, StackNext, StackInvDiscipline, SingleCaller, PTL DEF Spec

-------------------------------------------------------------------------------
(***************************************************************************)
(* Refinement of NestedEntry.  With a single caller, every position of the *)
(* C stack below sp is that of one frame, so that OwnerAt means something; *)
(* and steps change the owners only at the top.                            *)
(***************************************************************************)
Owned(f, g, i) == \E k \in 1..Len(f[g]) : f[g][k].at = i
OwnerIn(f, i) == CHOOSE g \in Goroutines : Owned(f, g, i)

LEMMA ChosenOwner ==
  ASSUME NEW f, NEW i, NEW o \in Goroutines, \A h \in Goroutines : Owned(f, h, i) <=> h = o
  PROVE  OwnerIn(f, i) = o
  BY DEF OwnerIn

LEMMA OneOwner ==
  ASSUME SingleCaller, StackInv, NEW i \in 1..sp
  PROVE  /\ OwnerIn(frames, i) \in Goroutines
         /\ \A h \in Goroutines : Owned(frames, h, i) <=> h = OwnerIn(frames, i)
  <1>1. sp \in Nat /\ (\A g \in Goroutines : Len(frames[g]) \in Nat) /\ Callers \subseteq Goroutines
        /\ Plain \subseteq Goroutines
    BY EmptySeq, EntryAssumption DEF StackInv, Typed, TypeOK, EntryAssumption, Plain
  <1>2. ASSUME NEW h \in Plain PROVE Owned(frames, h, i) <=> mu = h /\ i = sp
    <2>1. Len(frames[h]) = (IF InGuest(h) THEN 1 ELSE 0) /\ (InGuest(h) => frames[h][1].at = sp)
      BY DEF StackInv, PlainOnTop
    <2>2. InGuest(h) <=> mu = h
      BY <1>1 DEF StackInv, MutualExclusion
    <2>3. CASE mu = h
      <3>1. Len(frames[h]) = 1 /\ frames[h][1].at = sp
        BY <2>1, <2>2, <2>3
      <3>2. \A k \in 1..1 : k = 1
        OBVIOUS
      <3>3. QED
        BY <2>3, <3>1, <3>2 DEF Owned
    <2>4. CASE mu # h
      <3>1. Len(frames[h]) = 0
        BY <2>1, <2>2, <2>4
      <3>2. QED
        BY <2>4, <3>1 DEF Owned
    <2>5. QED
      BY <2>3, <2>4
  <1>3. ASSUME NEW h \in Callers PROVE Owned(frames, h, i) <=> i <= Len(frames[h])
    <2>1. \A k \in 1..Len(frames[h]) : frames[h][k].at = k
      BY DEF StackInv, CallerBelow
    <2>2. Len(frames[h]) \in Nat
      BY <1>1
    <2>3. i <= Len(frames[h]) => i \in 1..Len(frames[h])
      BY <1>1, <2>2
    <2>4. \A k \in 1..Len(frames[h]) : k <= Len(frames[h])
      BY <2>2
    <2>5. QED
      BY <2>1, <2>3, <2>4 DEF Owned
  <1>4. PICK o \in Goroutines : \A h \in Goroutines : Owned(frames, h, i) <=> h = o
    <2>1. CASE mu \in Plain /\ i = sp
      <3>1. ASSUME NEW h \in Callers PROVE ~Owned(frames, h, i)
        <4>1. sp = Len(frames[h]) + 1 /\ Len(frames[h]) \in Nat
          BY <1>1, <2>1 DEF StackInv, CallerBelow, OnTop
        <4>2. QED
          BY <1>3, <2>1, <4>1
      <3>2. QED
        BY <1>1, <1>2, <2>1, <3>1 DEF Plain
    <2>2. CASE ~(mu \in Plain /\ i = sp)
      <3>1. Callers # {}
        BY <1>1, <2>2 DEF StackInv, EmptyBelow, OnTop
      <3>2. PICK c \in Callers : \A h \in Callers : h = c
        BY <3>1 DEF SingleCaller
      <3>3. Owned(frames, c, i)
        <4>1. sp = Len(frames[c]) + OnTop /\ Len(frames[c]) \in Nat
          BY <1>1, <3>2 DEF StackInv, CallerBelow
        <4>2. ASSUME mu \in Plain PROVE i <= Len(frames[c])
          <5>1. sp = Len(frames[c]) + 1 /\ i # sp
            BY <2>2, <4>1, <4>2 DEF OnTop
          <5>2. QED
            BY <1>1, <4>1, <5>1
        <4>3. ASSUME mu \notin Plain PROVE i <= Len(frames[c])
          <5>1. sp = Len(frames[c])
            BY <4>1, <4>3 DEF OnTop
          <5>2. QED
            BY <1>1, <5>1
        <4>4. i <= Len(frames[c])
          BY <4>2, <4>3
        <4>5. QED
          BY <1>3, <4>4
      <3>4. QED
        BY <1>1, <1>2, <2>2, <3>2, <3>3 DEF Plain
    <2>3. QED
      BY <2>1, <2>2
  <1>5. OwnerIn(frames, i) = o
    BY <1>4, ChosenOwner
  <1>6. QED
    BY <1>4, <1>5

\* A row of owners, longer by one or shorter by one.
LEMMA LongerRow ==
  ASSUME NEW S, NEW n \in Nat, NEW s \in [1..n -> S], NEW t \in [1..(n + 1) -> S],
         \A i \in 1..n : t[i] = s[i]
  PROVE  t = Append(s, t[n + 1])
  <1>1. s \in Seq(S) /\ Len(s) = n /\ t \in Seq(S) /\ Len(t) = n + 1
    BY SeqDef, LenProperties
  <1>2. t[n + 1] \in S
    OBVIOUS
  <1>3. PICK u : u = Append(s, t[n + 1])
    OBVIOUS
  <1>4. u \in Seq(S) /\ Len(u) = n + 1 /\ u[n + 1] = t[n + 1] /\ \A i \in 1..n : u[i] = s[i]
    BY <1>1, <1>2, <1>3, AppendProperties
  <1>5. \A i \in 1..(n + 1) : u[i] = t[i]
    <2>1. \A i \in 1..(n + 1) : i = n + 1 \/ i \in 1..n
      OBVIOUS
    <2>2. QED
      BY <1>4, <2>1
  <1>6. u = t
    BY <1>1, <1>4, <1>5, SeqEqual
  <1>7. QED
    BY <1>3, <1>6

LEMMA ShorterRow ==
  ASSUME NEW S, NEW n \in Nat, n >= 1, NEW s \in [1..n -> S], NEW t \in [1..(n - 1) -> S],
         \A i \in 1..(n - 1) : t[i] = s[i]
  PROVE  t = SubSeq(s, 1, Len(s) - 1)
  <1>1. s \in Seq(S) /\ Len(s) = n /\ t \in Seq(S) /\ Len(t) = n - 1
    BY SeqDef, LenProperties
  <1>2. PICK u : u = SubSeq(s, 1, n - 1)
    OBVIOUS
  <1>3. /\ u \in Seq(S) /\ Len(u) = (IF 1 <= n - 1 THEN n - 1 - 1 + 1 ELSE 0)
        /\ \A i \in 1..(n - 1 - 1 + 1) : u[i] = s[1 + i - 1]
    <2>1. n - 1 \in Int /\ \A i \in 1..(n - 1) : s[i] \in S
      OBVIOUS
    <2>2. QED
      BY <1>1, <1>2, <2>1, SubSeqProperties
  <1>4. Len(u) = n - 1 /\ \A i \in 1..(n - 1) : u[i] = t[i]
    BY <1>3
  <1>5. u = t
    BY <1>1, <1>3, <1>4, SeqEqual
  <1>6. QED
    BY <1>1, <1>2, <1>5

LEMMA EmptyRow ==
  ASSUME NEW S, NEW s \in [1..0 -> S]
  PROVE  s = << >>
  <1>1. s \in Seq(S) /\ Len(s) = 0
    BY SeqDef, LenProperties
  <1>2. QED
    BY <1>1, EmptySeq

\* No frame lies above the stack pointer.
LEMMA BelowTop ==
  ASSUME StackInv, NEW h \in Goroutines, NEW k \in 1..Len(frames[h])
  PROVE  frames[h][k].at <= sp
  <1>1. sp \in Nat /\ Len(frames[h]) \in Nat
    BY EmptySeq DEF StackInv, Typed, TypeOK
  <1>2. CASE h \in Callers
    <2>1. frames[h][k].at = k /\ sp = Len(frames[h]) + OnTop
      BY <1>2 DEF StackInv, CallerBelow
    <2>2. OnTop = 0 \/ OnTop = 1
      BY DEF OnTop
    <2>3. QED
      BY <1>1, <2>1, <2>2
  <1>3. CASE h \in Plain
    <2>1. Len(frames[h]) = (IF InGuest(h) THEN 1 ELSE 0) /\ (InGuest(h) => frames[h][1].at = sp)
      BY <1>3 DEF StackInv, PlainOnTop
    <2>2. InGuest(h) /\ k = 1
      BY <1>1, <2>1
    <2>3. QED
      BY <1>1, <2>1, <2>2
  <1>4. QED
    BY <1>2, <1>3 DEF Plain

\* The owners of the lowest n positions.
Owners(f, n) == [i \in 1..n |-> OwnerIn(f, i)]

LEMMA OwnersTyped ==
  ASSUME SingleCaller, StackInv
  PROVE  Owners(frames, sp) \in [1..sp -> Goroutines]
  BY OneOwner DEF Owners

LEMMA EnterOwners ==
  ASSUME SingleCaller, StackInv, NEW g \in Goroutines, Enter(g)
  PROVE  Owners(frames', sp') = Append(Owners(frames, sp), g)
  <1>1. sp \in Nat /\ sp' = sp + 1 /\ \A h \in Goroutines : Len(frames[h]) \in Nat
    BY EmptySeq DEF Enter, StackInv, Typed, TypeOK
  <1>2. /\ Len(frames'[g]) = Len(frames[g]) + 1
        /\ frames'[g][Len(frames[g]) + 1].at = sp + 1
        /\ \A k \in 1..Len(frames[g]) : frames'[g][k] = frames[g][k]
        /\ \A h \in Goroutines \ {g} : frames'[h] = frames[h]
    BY EnterEffect DEF StackInv
  <1>3. ASSUME NEW i \in 1..(sp + 1), NEW h \in Goroutines
        PROVE  Owned(frames', h, i) <=> (IF i = sp + 1 THEN h = g ELSE Owned(frames, h, i))
    <2>1. CASE h = g
      <3>1. PICK n \in Nat : n = Len(frames[g])
        BY <1>1
      <3>2. \A k \in 1..(n + 1) : k \in 1..n \/ k = n + 1
        BY <3>1
      <3>3. n + 1 \in 1..(n + 1) /\ \A k \in 1..n : k \in 1..(n + 1)
        BY <3>1
      <3>4. Owned(frames', h, i) <=> (i = sp + 1 \/ Owned(frames, h, i))
        BY <1>2, <2>1, <3>1, <3>2, <3>3 DEF Owned
      <3>5. QED
        BY <2>1, <3>4
    <2>2. CASE h # g
      <3>1. Owned(frames', h, i) <=> Owned(frames, h, i)
        BY <1>2, <2>2 DEF Owned
      <3>2. ASSUME i = sp + 1 PROVE ~Owned(frames, h, i)
        <4>1. \A k \in 1..Len(frames[h]) : frames[h][k].at <= sp
          BY BelowTop
        <4>2. ~(sp + 1 <= sp)
          BY <1>1
        <4>3. QED
          BY <3>2, <4>1, <4>2 DEF Owned
      <3>3. QED
        BY <2>2, <3>1, <3>2
    <2>3. QED
      BY <2>1, <2>2
  <1>4. \A i \in 1..sp : i \in 1..(sp + 1) /\ i # sp + 1
    BY <1>1
  <1>5. ASSUME NEW i \in 1..sp PROVE OwnerIn(frames', i) = OwnerIn(frames, i)
    <2>1. PICK o \in Goroutines : o = OwnerIn(frames, i) /\ \A h \in Goroutines : Owned(frames, h, i) <=> h = o
      BY OneOwner
    <2>2. \A h \in Goroutines : Owned(frames', h, i) <=> h = o
      BY <1>3, <1>4, <2>1
    <2>3. QED
      BY <2>1, <2>2, ChosenOwner
  <1>6. OwnerIn(frames', sp + 1) = g
    <2>1. sp + 1 \in 1..(sp + 1)
      BY <1>1
    <2>2. \A h \in Goroutines : Owned(frames', h, sp + 1) <=> h = g
      BY <1>3, <2>1
    <2>3. QED
      BY <2>2, ChosenOwner
  <1>7. PICK s \in [1..sp -> Goroutines] : s = Owners(frames, sp)
    BY OwnersTyped
  <1>8. PICK t : t = Owners(frames', sp + 1)
    OBVIOUS
  <1>9. t \in [1..(sp + 1) -> Goroutines] /\ t[sp + 1] = g /\ \A i \in 1..sp : t[i] = s[i]
    <2>1. \A i \in 1..(sp + 1) : i = sp + 1 \/ i \in 1..sp
      BY <1>1
    <2>2. \A i \in 1..sp : s[i] = OwnerIn(frames, i) /\ s[i] \in Goroutines
      BY <1>7 DEF Owners
    <2>3. sp + 1 \in 1..(sp + 1)
      BY <1>1
    <2>4. t = [i \in 1..(sp + 1) |-> OwnerIn(frames', i)]
      BY <1>8 DEF Owners
    <2>5. \A i \in 1..(sp + 1) : OwnerIn(frames', i) \in Goroutines
      BY <1>5, <1>6, <2>1, <2>2
    <2>6. QED
      BY <1>4, <1>5, <1>6, <2>2, <2>3, <2>4, <2>5
  <1>10. t = Append(s, t[sp + 1])
    BY <1>1, <1>7, <1>9, LongerRow
  <1>11. QED
    BY <1>1, <1>7, <1>8, <1>9, <1>10

LEMMA ExitOwners ==
  ASSUME SingleCaller, StackInv, NEW g \in Goroutines, Exit(g)
  PROVE  /\ sp >= 1
         /\ Owners(frames', sp') = SubSeq(Owners(frames, sp), 1, Len(Owners(frames, sp)) - 1)
  <1>1. PICK n \in Nat :
          /\ n = Len(frames[g]) /\ n >= 1
          /\ frames[g][n].at \in Nat \ {0}
          /\ sp' = frames[g][n].at - 1
          /\ pc[g] = "guest"
          /\ Len(frames'[g]) = n - 1
          /\ \A k \in 1..(n - 1) : frames'[g][k] = frames[g][k]
          /\ \A h \in Goroutines \ {g} : frames'[h] = frames[h]
    BY ExitEffect DEF StackInv
  <1>2. sp \in Nat /\ frames[g][n].at = sp
    BY <1>1, StackInvDiscipline DEF StackDiscipline, InGuest, StackInv, Typed, TypeOK
  <1>3. sp >= 1 /\ sp' = sp - 1
    BY <1>1, <1>2
  <1>4. ASSUME NEW i \in 1..(sp - 1), NEW h \in Goroutines
        PROVE  Owned(frames', h, i) <=> Owned(frames, h, i)
    <2>1. CASE h = g
      <3>1. i # sp
        BY <1>2
      <3>2. \A k \in 1..n : k \in 1..(n - 1) \/ k = n
        BY <1>1
      <3>3. \A k \in 1..(n - 1) : k \in 1..n
        BY <1>1
      <3>4. QED
        BY <1>1, <1>2, <2>1, <3>1, <3>2, <3>3 DEF Owned
    <2>2. CASE h # g
      BY <1>1, <2>2 DEF Owned
    <2>3. QED
      BY <2>1, <2>2
  <1>5. \A i \in 1..(sp - 1) : i \in 1..sp
    BY <1>2
  <1>6. ASSUME NEW i \in 1..(sp - 1) PROVE OwnerIn(frames', i) = OwnerIn(frames, i)
    <2>1. PICK o \in Goroutines : o = OwnerIn(frames, i) /\ \A h \in Goroutines : Owned(frames, h, i) <=> h = o
      BY <1>5, OneOwner
    <2>2. \A h \in Goroutines : Owned(frames', h, i) <=> h = o
      BY <1>4, <2>1
    <2>3. QED
      BY <2>1, <2>2, ChosenOwner
  <1>7. PICK s \in [1..sp -> Goroutines] : s = Owners(frames, sp)
    BY OwnersTyped
  <1>8. PICK t : t = Owners(frames', sp - 1)
    OBVIOUS
  <1>9. t \in [1..(sp - 1) -> Goroutines] /\ \A i \in 1..(sp - 1) : t[i] = s[i]
    BY <1>5, <1>6, <1>7, <1>8 DEF Owners
  <1>10. t = SubSeq(s, 1, Len(s) - 1)
    BY <1>2, <1>3, <1>7, <1>9, ShorterRow
  <1>11. QED
    BY <1>3, <1>7, <1>8, <1>10

-------------------------------------------------------------------------------
\* The refinement mapping, in terms of Owners.
LEMMA NestedStack ==
  /\ [i \in 1..sp |-> OwnerAt(i)] = Owners(frames, sp)
  /\ [i \in 1..sp |-> OwnerAt(i)]' = Owners(frames', sp')
  BY DEF OwnerAt, Owners, OwnerIn, Owned

LEMMA NestedInit == Init => Nested!Init
  <1> SUFFICES ASSUME Init
               PROVE  Nested!Init
    OBVIOUS
  <1>1. [i \in 1..sp |-> OwnerAt(i)] = << >>
    <2>1. PICK s : s = [i \in 1..0 |-> OwnerAt(i)]
      OBVIOUS
    <2>2. s \in [1..0 -> {OwnerAt(i) : i \in 1..0}]
      BY <2>1
    <2>3. QED
      BY <2>1, <2>2, EmptyRow DEF Init
  <1>2. QED
    BY <1>1 DEF Nested!Init, Init

LEMMA NestedNext ==
  ASSUME SingleCaller, StackInv, [Next]_vars
  PROVE  [Nested!Next]_(Nested!vars)
  <1> USE DEF Nested!vars
  <1>0. NoOne \notin Goroutines
    BY EntryAssumption DEF EntryAssumption
  <1>1. ASSUME UNCHANGED <<frames, sp, mu>>
        PROVE  UNCHANGED Nested!vars
    BY <1>1 DEF OwnerAt
  <1>2. ASSUME NEW g \in Goroutines,
               StartOp(g) \/ Drain(g) \/ StartBind(g) \/ StartClose(g) \/ Unmap(g)
                 \/ HandlerReturn(g)
        PROVE  UNCHANGED Nested!vars
    BY <1>1, <1>2 DEF StartOp, Drain, StartBind, StartClose, Unmap, HandlerReturn
  <1>3. CASE QueueRelease \/ UNCHANGED vars
    BY <1>1, <1>3 DEF QueueRelease, vars
  <1>4. ASSUME NEW g \in Goroutines, Enter(g)
        PROVE  Nested!Next
    <2>1. mu = NoOne /\ mu' = g
      BY <1>4 DEF Enter
    <2>2. [i \in 1..sp |-> OwnerAt(i)]' = Append([i \in 1..sp |-> OwnerAt(i)], g)
      BY <1>4, EnterOwners, NestedStack
    <2>3. Nested!Begin(g)
      BY <1>0, <2>1, <2>2 DEF Nested!Begin
    <2>4. QED
      BY <2>3 DEF Nested!Next
  <1>5. ASSUME NEW g \in Goroutines, Exit(g)
        PROVE  Nested!Next
    <2>1. mu = g /\ mu' = NoOne
      BY <1>5, ExitEffect DEF StackInv, MutualExclusion, InGuest
    <2>2. [i \in 1..sp |-> OwnerAt(i)]'
            = SubSeq([i \in 1..sp |-> OwnerAt(i)], 1, Len([i \in 1..sp |-> OwnerAt(i)]) - 1)
      BY <1>5, ExitOwners, NestedStack
    <2>3. Nested!End
      BY <1>0, <2>1, <2>2 DEF Nested!End
    <2>4. QED
      BY <2>3 DEF Nested!Next
  <1>6. ASSUME NEW g \in Goroutines, Callback(g)
        PROVE  Nested!Next
    <2>1. mu = g /\ mu' = NoOne /\ UNCHANGED <<frames, sp>>
      BY <1>6 DEF Callback, Moves, StackInv, MutualExclusion, InGuest
    <2>2. UNCHANGED [i \in 1..sp |-> OwnerAt(i)]
      BY <2>1 DEF OwnerAt
    <2>3. Nested!Suspend
      BY <1>0, <2>1, <2>2 DEF Nested!Suspend
    <2>4. QED
      BY <2>3 DEF Nested!Next
  <1>7. ASSUME NEW g \in Goroutines, Resume(g)
        PROVE  Nested!Next
    <2>1. mu = NoOne /\ mu' = g /\ UNCHANGED <<frames, sp>>
      BY <1>7 DEF Resume
    <2>2. UNCHANGED [i \in 1..sp |-> OwnerAt(i)]
      BY <2>1 DEF OwnerAt
    <2>3. [i \in 1..sp |-> OwnerAt(i)] # << >>
      <3>1. sp \in Nat /\ frames[g] \in Seq(Frame) /\ frames[g] # << >>
        BY <1>7 DEF Resume, Moves, StackInv, Typed, TypeOK, HasFrame
      <3>2. Len(frames[g]) \in Nat /\ Len(frames[g]) # 0
        BY <3>1, EmptySeq
      <3>3. 1 \in 1..Len(frames[g])
        BY <3>2
      <3>4. frames[g][1].at >= 1 /\ frames[g][1].at <= sp /\ frames[g][1].at \in Nat
        <4>1. frames[g][1].at <= sp
          BY <3>3, BelowTop
        <4>2. frames[g][1].at >= 1
          BY <3>3 DEF StackInv, Typed, FramesAboveZero
        <4>3. frames[g][1] \in Frame
          BY <3>1, <3>3, ElementOfSeq
        <4>4. QED
          BY <4>1, <4>2, <4>3 DEF Frame
      <3>5. sp >= 1
        BY <3>1, <3>4
      <3>6. PICK s \in [1..sp -> Goroutines] : s = [i \in 1..sp |-> OwnerAt(i)]
        BY OwnersTyped, NestedStack
      <3>7. Len(s) = sp
        BY <3>1, <3>6, LenProperties, SeqDef
      <3>8. s # << >>
        BY <3>5, <3>7, <3>1, EmptySeq
      <3>9. QED
        BY <3>6, <3>8
    <2>4. Nested!Continue
      BY <1>0, <2>1, <2>2, <2>3 DEF Nested!Continue
    <2>5. QED
      BY <2>4 DEF Nested!Next
  <1>8. QED
    BY <1>2, <1>3, <1>4, <1>5, <1>6, <1>7 DEF Next, Step

(***************************************************************************)
(* If all Go callbacks are made by the Perl code of one goroutine, the     *)
(* calls of any number of goroutines, nested to any depth, behave as the   *)
(* stack of calls that the comment on type Module describes: a call starts *)
(* on top of the suspended ones, and a suspended call goes on only when    *)
(* the ones above it have returned.                                        *)
(***************************************************************************)
THEOREM CallsNest ==
  ASSUME SingleCaller
  PROVE  Spec => ImplementsNested
  <1>1. StackInv /\ [Next]_vars => [Nested!Next]_(Nested!vars)
    BY NestedNext
  <1>2. StackInv /\ [Next]_vars => StackInv'
    BY StackNext, SingleCaller
  <1>3. QED
    BY NestedInit, StackInit, <1>1, <1>2, PTL DEF Spec, ImplementsNested, Nested!Spec

-------------------------------------------------------------------------------
(***************************************************************************)
(* NoStragglers needs to know who may still be on the way in when the      *)
(* guest is destroyed.  If Close is called while nobody uses the instance, *)
(* the closed flag keeps everybody else out: from then on only the closing *)
(* goroutine has business with the instance, with one frame at most, and   *)
(* that frame is gone when the interpreter is.                             *)
(***************************************************************************)
NotClosing ==
  /\ life = "live"
  /\ \A g \in Goroutines :
       /\ pc[g] \notin {"close", "unmap"}
       /\ \A k \in 1..Len(frames[g]) : frames[g][k].job # "close"

OneCloser ==
  /\ \A g, h \in Goroutines : ~Away(g) /\ ~Away(h) => g = h
  /\ \A g \in Goroutines :
       /\ pc[g] \in {"host", "close", "guest", "resume", "unmap"}
       /\ Len(frames[g]) <= 1
       /\ \A k \in 1..Len(frames[g]) : frames[g][k].job = "close"
       /\ pc[g] \in {"close", "unmap"} => frames[g] = << >>
       /\ pc[g] = "unmap" => life # "live"
       /\ life # "live" => pc[g] \in {"host", "unmap"} /\ frames[g] = << >>

LifeInv ==
  /\ Typed
  /\ ~closed => NotClosing
  /\ closed => OneCloser

LEMMA LifeInit == Init => LifeInv
  <1> SUFFICES ASSUME Init
               PROVE  LifeInv
    OBVIOUS
  <1>1. \A g \in Goroutines : pc[g] = "host" /\ Len(frames[g]) = 0
    BY EmptySeq DEF Init
  <1>2. life = "live" /\ closed = FALSE
    BY DEF Init
  <1>3. QED
    BY <1>1, <1>2, TypedInit DEF LifeInv, NotClosing

\* While nobody has called Close, no step but Close changes that.
LEMMA NotClosingNext ==
  ASSUME Typed, Typed', NotClosing, ~closed, ~closed', [Next]_vars
  PROVE  NotClosing'
  <1> USE DEF NotClosing, Typed, TypeOK, Jobs
  <1>1. ASSUME NEW g \in Goroutines,
               StartOp(g) \/ Drain(g) \/ StartBind(g) \/ StartClose(g) \/ Unmap(g)
                 \/ Callback(g) \/ HandlerReturn(g) \/ Resume(g)
        PROVE  NotClosing'
    BY <1>1 DEF StartOp, Drain, StartBind, StartClose, Unmap, Callback, HandlerReturn,
                Resume, Moves
  <1>2. ASSUME NEW g \in Goroutines, Enter(g)
        PROVE  NotClosing'
    <2>1. /\ pc[g] # "close" /\ life' = life
          /\ pc' = [pc EXCEPT ![g] = "guest"]
          /\ Len(frames[g]) \in Nat
      BY <1>2, EmptySeq DEF Enter
    <2>2. /\ Len(frames'[g]) = Len(frames[g]) + 1
          /\ frames'[g][Len(frames[g]) + 1].job = pc[g]
          /\ \A k \in 1..Len(frames[g]) : frames'[g][k] = frames[g][k]
          /\ \A h \in Goroutines \ {g} : frames'[h] = frames[h]
      BY <1>2, EnterEffect
    <2>3. \A k \in 1..Len(frames[g]) : frames[g][k].job # "close"
      OBVIOUS
    <2>4. ASSUME NEW k \in 1..Len(frames'[g])
          PROVE  frames'[g][k].job # "close"
      <3>1. k \in 1..Len(frames[g]) \/ k = Len(frames[g]) + 1
        BY <2>1, <2>2
      <3>2. QED
        BY <2>1, <2>2, <2>3, <3>1
    <2>5. QED
      BY <2>1, <2>2, <2>4
  <1>3. ASSUME NEW g \in Goroutines, Exit(g)
        PROVE  NotClosing'
    <2> DEFINE n == Len(frames[g])
    <2>1. /\ n \in Nat /\ n >= 1
          /\ pc' = [pc EXCEPT ![g] = After(frames[g][n].job)]
          /\ life' = IF frames[g][n].job = "close" THEN "destroyed" ELSE life
          /\ Len(frames'[g]) = n - 1
          /\ \A k \in 1..(n - 1) : frames'[g][k] = frames[g][k]
          /\ \A h \in Goroutines \ {g} : frames'[h] = frames[h]
      BY <1>3, ExitEffect
    <2>2. \A k \in 1..n : frames[g][k].job # "close"
      OBVIOUS
    <2> HIDE DEF n
    <2>3. frames[g][n].job # "close"
      BY <2>1, <2>2
    <2>4. After(frames[g][n].job) \in {"op", "host"} /\ life' = life
      BY <2>1, <2>3 DEF After
    <2>5. \A k \in 1..Len(frames'[g]) : frames'[g][k].job # "close"
      BY <2>1, <2>2
    <2>6. QED
      BY <2>1, <2>4, <2>5
  <1>4. CASE QueueRelease \/ UNCHANGED vars
    BY <1>4 DEF QueueRelease, vars
  <1>5. QED
    BY <1>1, <1>2, <1>3, <1>4 DEF Next, Step

\* A Close that starts while everybody is away leaves exactly one closer.
LEMMA CloseStarts ==
  ASSUME QuietClose, Typed, NotClosing, ~closed, closed', [Next]_vars
  PROVE  OneCloser'
  <1>1. PICK g \in Goroutines : StartClose(g)
    BY DEF Next, Step, StartOp, Drain, StartBind, Unmap, Enter, Exit, Callback,
           HandlerReturn, Resume, QueueRelease, vars
  <1>2. /\ \A h \in Goroutines : pc[h] = "host" /\ frames[h] = << >>
        /\ pc' = [pc EXCEPT ![g] = "close"]
        /\ UNCHANGED <<frames, life>>
        /\ life = "live"
    BY <1>1 DEF StartClose, Moves, Away, NotClosing
  <1>3. \A h \in Goroutines : frames'[h] = << >> /\ Len(frames'[h]) = 0
    BY <1>2, EmptySeq
  <1>4. \A h \in Goroutines : pc'[h] = IF h = g THEN "close" ELSE "host"
    BY <1>2 DEF Typed, TypeOK
  <1>5. life' = "live"
    BY <1>2
  <1>6. QED
    BY <1>3, <1>4, <1>5 DEF OneCloser, Away

\* A step that leaves every goroutine, its frames and the memory alone keeps it.
LEMMA OneCloserKept ==
  ASSUME OneCloser, life' = life,
         \A h \in Goroutines : pc'[h] = pc[h] /\ frames'[h] = frames[h]
  PROVE  OneCloser'
  <1>1. \A h \in Goroutines : Away(h)' <=> Away(h)
    BY DEF Away
  <1>2. \A g, h \in Goroutines : ~Away(g)' /\ ~Away(h)' => g = h
    BY <1>1 DEF OneCloser
  <1>3. QED
    BY <1>2 DEF OneCloser

\* Once closed, nobody but the closer gets past the closed flag.
LEMMA OneCloserNext ==
  ASSUME ~BindAfterClose, Typed, Typed', OneCloser, closed, [Next]_vars
  PROVE  OneCloser'
  <1> USE DEF Away, Typed, TypeOK, Jobs
  <1>1. ASSUME NEW g \in Goroutines,
               StartOp(g) \/ Drain(g) \/ StartBind(g) \/ StartClose(g)
        PROVE  OneCloser'
    <2>1. pc[g] # "checked"
      BY DEF OneCloser
    <2>2. StartOp(g)
      BY <1>1, <2>1 DEF Drain, StartBind, StartClose, Moves
    <2>3. /\ \A h \in Goroutines : pc'[h] = pc[h]
          /\ UNCHANGED <<frames, life>>
      BY <2>2 DEF StartOp, Moves
    <2>4. QED
      BY <2>3, OneCloserKept
  <1>2. ASSUME NEW g \in Goroutines, Unmap(g)
        PROVE  OneCloser'
    <2>1. \A h \in Goroutines : pc[h] \in {"host", "unmap"} /\ frames[h] = << >>
      BY <1>2 DEF Unmap, Moves, OneCloser
    <2>2. /\ pc'[g] = "host" /\ \A h \in Goroutines \ {g} : pc'[h] = pc[h]
          /\ life' = "unmapped" /\ UNCHANGED frames
      BY <1>2 DEF Unmap, Moves
    <2>3. \A h \in Goroutines : Len(frames'[h]) = 0 /\ frames'[h] = << >>
      BY <2>1, <2>2, EmptySeq
    <2>4. \A h, i \in Goroutines : ~Away(h)' /\ ~Away(i)' => h = i
      BY <2>1, <2>2 DEF OneCloser
    <2>5. QED
      BY <2>1, <2>2, <2>3, <2>4 DEF OneCloser
  <1>3. ASSUME NEW g \in Goroutines, Callback(g) \/ HandlerReturn(g) \/ Resume(g)
        PROVE  OneCloser'
    <2>1. frames[g] # << >> /\ life = "live"
      BY <1>3 DEF Callback, HandlerReturn, Resume, Moves, HasFrame, OneCloser
    <2>2. UNCHANGED <<frames, life>>
      BY <1>3 DEF Callback, HandlerReturn, Resume
    <2>3. /\ pc'[g] \in {"host", "guest", "resume"}
          /\ \A h \in Goroutines \ {g} : pc'[h] = pc[h]
      BY <1>3 DEF Callback, HandlerReturn, Resume, Moves
    <2>4. QED
      BY <2>1, <2>2, <2>3 DEF OneCloser
  <1>4. ASSUME NEW g \in Goroutines, Enter(g)
        PROVE  OneCloser'
    <2>1. pc[g] = "close" /\ frames[g] = << >> /\ life = "live"
      BY <1>4 DEF Enter, OneCloser
    <2>2. /\ pc'[g] = "guest" /\ \A h \in Goroutines \ {g} : pc'[h] = pc[h]
          /\ life' = life
      BY <1>4 DEF Enter
    <2>3. Len(frames[g]) = 0
      BY <2>1, EmptySeq
    <2>4. /\ Len(frames'[g]) = Len(frames[g]) + 1
          /\ frames'[g][Len(frames[g]) + 1].job = pc[g]
          /\ \A h \in Goroutines \ {g} : frames'[h] = frames[h]
      BY <1>4, EnterEffect
    <2>5. Len(frames'[g]) = 1 /\ frames'[g][1].job = "close"
      BY <2>1, <2>3, <2>4
    <2>6. \A h \in Goroutines \ {g} : pc[h] = "host" /\ frames[h] = << >>
      BY <2>1 DEF OneCloser
    <2>7. \A h \in Goroutines \ {g} : pc'[h] = "host" /\ frames'[h] = << >> /\ Len(frames'[h]) = 0
      BY <2>2, <2>4, <2>6, EmptySeq
    <2>8. \A h, i \in Goroutines : ~Away(h)' /\ ~Away(i)' => h = i
      BY <2>7
    <2>9. \A k \in 1..Len(frames'[g]) : frames'[g][k].job = "close"
      BY <2>5
    <2>10. life' = "live"
      BY <2>1, <2>2
    <2>11. ASSUME NEW h \in Goroutines
           PROVE  /\ pc'[h] \in {"host", "guest"}
                  /\ Len(frames'[h]) <= 1
                  /\ \A k \in 1..Len(frames'[h]) : frames'[h][k].job = "close"
      <3>1. CASE h = g
        BY <3>1, <2>2, <2>5, <2>9
      <3>2. CASE h # g
        BY <3>2, <2>7
      <3>3. QED
        BY <3>1, <3>2
    <2>12. QED
      BY <2>8, <2>10, <2>11 DEF OneCloser
  <1>5. ASSUME NEW g \in Goroutines, Exit(g)
        PROVE  OneCloser'
    <2>1. /\ Len(frames[g]) \in Nat /\ Len(frames[g]) >= 1
          /\ pc' = [pc EXCEPT ![g] = After(frames[g][Len(frames[g])].job)]
          /\ pc[g] = "guest"
          /\ life' = IF frames[g][Len(frames[g])].job = "close" THEN "destroyed" ELSE life
          /\ frames' \in [Goroutines -> Seq(Frame)]
          /\ Len(frames'[g]) = Len(frames[g]) - 1
          /\ \A h \in Goroutines \ {g} : frames'[h] = frames[h]
      BY <1>5, ExitEffect
    <2>2. Len(frames[g]) = 1 /\ frames[g][1].job = "close"
      <3>1. Len(frames[g]) <= 1 /\ \A k \in 1..Len(frames[g]) : frames[g][k].job = "close"
        BY DEF OneCloser
      <3>2. QED
        BY <2>1, <3>1
    <2>3. /\ pc'[g] = "unmap" /\ \A h \in Goroutines \ {g} : pc'[h] = pc[h]
          /\ life' = "destroyed"
      BY <2>1, <2>2 DEF After
    <2>4. frames'[g] = << >> /\ Len(frames'[g]) = 0
      BY <2>1, <2>2, EmptySeq
    <2>5. \A h \in Goroutines \ {g} : Away(h)
      BY <2>1 DEF OneCloser
    <2>6. \A h \in Goroutines \ {g} : pc'[h] = "host" /\ frames'[h] = << >> /\ Len(frames'[h]) = 0
      BY <2>1, <2>3, <2>5, EmptySeq
    <2>7. QED
      BY <2>3, <2>4, <2>6 DEF OneCloser
  <1>6. CASE QueueRelease \/ UNCHANGED vars
    BY <1>6, OneCloserKept DEF QueueRelease, vars
  <1>7. QED
    BY <1>1, <1>2, <1>3, <1>4, <1>5, <1>6 DEF Next, Step

LEMMA LifeNext == QuietClose /\ ~BindAfterClose /\ LifeInv /\ [Next]_vars => LifeInv'
  <1> SUFFICES ASSUME QuietClose, ~BindAfterClose, LifeInv, [Next]_vars
               PROVE  LifeInv'
    OBVIOUS
  <1>1. Typed'
    BY TypedNext DEF LifeInv
  <1>2. closed => closed'
    BY DEF Next, Step, StartOp, Drain, StartBind, StartClose, Unmap, Enter, Exit, Callback,
           HandlerReturn, Resume, QueueRelease, vars
  <1>3. CASE ~closed'
    BY <1>1, <1>2, <1>3, NotClosingNext DEF LifeInv
  <1>4. CASE ~closed /\ closed'
    BY <1>1, <1>4, CloseStarts DEF LifeInv
  <1>5. CASE closed /\ closed'
    BY <1>1, <1>5, OneCloserNext DEF LifeInv
  <1>6. QED
    BY <1>2, <1>3, <1>4, <1>5

LEMMA LifeInvSafe == LifeInv => NoStragglers
  <1> SUFFICES ASSUME LifeInv, NEW g \in Goroutines, InGuest(g)
               PROVE  life = "live"
    BY DEF NoStragglers
  <1>1. CASE closed
    BY <1>1 DEF LifeInv, OneCloser, InGuest
  <1>2. CASE ~closed
    BY <1>2 DEF LifeInv, NotClosing
  <1>3. QED
    BY <1>1, <1>2

(***************************************************************************)
(* If the program closes an instance only while nobody uses it, and binds  *)
(* nothing afterwards, then no call ever executes in destroyed or unmapped *)
(* memory: not an operation, not a queued release, not a callback made by  *)
(* the destructors that Close runs.                                        *)
(***************************************************************************)
THEOREM QuietCloseSafe ==
  ASSUME QuietClose, ~BindAfterClose
  PROVE  Spec => []NoStragglers
  BY LifeInit, LifeNext, LifeInvSafe, QuietClose, ~BindAfterClose, PTL DEF Spec
===============================================================================
