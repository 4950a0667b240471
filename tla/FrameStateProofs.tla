--------------------------- MODULE FrameStateProofs ---------------------------
(***************************************************************************)
(* Proofs about the state that frames share: the table of current frames   *)
(* (FrameTable), for any threads, hash and size of the table, and the      *)
(* stacks of marks and arguments (XsStack), for any frames, sizes and      *)
(* nesting.  The two have no variable in common.                           *)
(*                                                                         *)
(* The table: slots that a search has passed belong to others and are      *)
(* never given back, so a thread that comes to a free slot owns none.      *)
(*                                                                         *)
(* The stacks: the marks that a frame's XSUBs have pushed lie on top of    *)
(* its mark stack, at rising positions of the argument stack; each XSUB    *)
(* has put its own above those of the XSUBs that called it directly, and   *)
(* an assignment to PL_markstack_ptr that no mark operation has taken over *)
(* yet can only be the running XSUB's.                                     *)
(***************************************************************************)
EXTENDS FrameTable, XsStack, SequenceTheorems, TLAPS

-------------------------------------------------------------------------------
(* The table of current frames.                                            *)

\* The slots a thread has passed in its search, and those before the slot it owns, are
\* other threads': so whoever reaches a free slot owns none elsewhere.
Passed(t, n) ==
  \A k \in 0..(n - 1) : owner[Around(Hash[t], k)] \notin {t, Free}

SearchInv == \A t \in Threads : Passed(t, probe[t])

FirstInv ==
  \A t \in Threads, n \in Positions :
    owner[Around(Hash[t], n)] = t => Passed(t, n)

\* A slot holds what its thread stored last; a thread without a slot stored nothing.
ContentInv ==
  \A s \in Positions :
    current[s] = IF owner[s] = Free THEN NullPointer ELSE written[owner[s]]

UnownedInv ==
  \A t \in Threads :
    (\A s \in Positions : owner[s] # t) => written[t] = NullPointer

FoundInv ==
  \A t \in Threads :
    /\ at[t] = "found" => owner[Slot(t)] = t
    /\ at[t] = "abort" => Passed(t, TableSize)

TableInv ==
  TableTypeOK /\ SearchInv /\ FirstInv /\ ContentInv /\ UnownedInv /\ FoundInv

\* The search visits slots of the table, and would visit each of them.
LEMMA AroundRange ==
  ASSUME NEW h \in Positions, NEW k \in Positions
  PROVE  Around(h, k) \in Positions
BY TableAssumption DEF Positions, Around

LEMMA AroundCovers ==
  ASSUME NEW h \in Positions, NEW s \in Positions
  PROVE  \E k \in Positions : Around(h, k) = s
<1>1. CASE h <= s
  <2>1. s - h \in Positions /\ Around(h, s - h) = s
    BY <1>1, TableAssumption DEF Positions, Around
  <2> QED BY <2>1
<1>2. CASE s < h
  <2>1. s - h + TableSize \in Positions /\ Around(h, s - h + TableSize) = s
    BY <1>2, TableAssumption DEF Positions, Around
  <2> QED BY <2>1
<1> QED BY <1>1, <1>2, TableAssumption DEF Positions

LEMMA TableInitInv == TableInit => TableInv
BY TableAssumption
DEF TableInit, TableInv, TableTypeOK, SearchInv, FirstInv, ContentInv, UnownedInv,
    FoundInv, Passed, Positions, Places, Around

\* A thread that finds a free slot owns none.
LEMMA FreeMeansNone ==
  ASSUME TableInv, NEW t \in Threads, owner[Slot(t)] = Free
  PROVE  \A s \in Positions : owner[s] # t
<1> SUFFICES ASSUME NEW s \in Positions, owner[s] = t
             PROVE  FALSE
  OBVIOUS
<1>1. Hash[t] \in Positions /\ probe[t] \in Positions
  BY TableAssumption DEF TableInv, TableTypeOK, Positions
<1>2. PICK k \in Positions : Around(Hash[t], k) = s
  BY <1>1, AroundCovers
<1>3. Passed(t, k) /\ Passed(t, probe[t])
  BY <1>2 DEF TableInv, FirstInv, SearchInv
<1>4. CASE k < probe[t]
  <2>1. k \in 0..(probe[t] - 1)
    BY <1>1, <1>4 DEF Positions
  <2> QED BY <1>2, <1>3, <2>1 DEF Passed
<1>5. CASE k > probe[t]
  <2>1. probe[t] \in 0..(k - 1)
    BY <1>1, <1>5 DEF Positions
  <2> QED BY <1>3, <2>1 DEF Passed, Slot
<1>6. CASE k = probe[t]
  BY <1>2, <1>6, TableAssumption DEF Slot
<1> QED BY <1>1, <1>4, <1>5, <1>6, TableAssumption DEF Positions

\* The typing part, and the steps of a search that leave the table alone.
LEMMA TableTypeStep ==
  ASSUME TableInv, [TableNext]_tableVars
  PROVE  TableTypeOK'
<1>1. \A t \in Threads : Slot(t) \in Positions
  BY AroundRange, TableAssumption DEF TableInv, TableTypeOK, Slot, Positions
<1>a. ASSUME NEW t \in Threads, Advance(t)
      PROVE  at' \in [Threads -> Places] /\ probe' \in [Threads -> Positions]
  <2>1. CASE probe[t] + 1 < TableSize
    <3>1. probe[t] + 1 \in Positions
      BY <2>1, TableAssumption DEF TableInv, TableTypeOK, Positions
    <3> QED BY <1>a, <2>1, <3>1 DEF Advance, TableInv, TableTypeOK, Places
  <2>2. CASE ~(probe[t] + 1 < TableSize)
    BY <1>a, <2>2 DEF Advance, TableInv, TableTypeOK, Places
  <2> QED BY <2>1, <2>2
<1> USE DEF TableInv, TableTypeOK
<1>2. ASSUME NEW t \in Threads, Lookup(t) PROVE TableTypeOK'
  BY <1>2, TableAssumption DEF Lookup, Positions, Places
<1>3. ASSUME NEW t \in Threads, Look(t) PROVE TableTypeOK'
  <2>1. CASE Advance(t)
    BY <1>3, <2>1, <1>a DEF Look
  <2>2. CASE UNCHANGED probe /\ \E p \in Places : at' = [at EXCEPT ![t] = p]
    BY <1>3, <2>2 DEF Look
  <2> QED BY <1>3, <2>1, <2>2 DEF Look, Places
<1>4. ASSUME NEW t \in Threads, Claim(t) PROVE TableTypeOK'
  <2>1. CASE Advance(t) /\ UNCHANGED owner
    BY <1>4, <2>1, <1>a DEF Claim
  <2>2. CASE /\ UNCHANGED probe
             /\ at' = [at EXCEPT ![t] = "found"]
             /\ owner' = [owner EXCEPT ![Slot(t)] = t]
    BY <1>4, <2>2 DEF Claim, Places
  <2> QED BY <1>4, <2>1, <2>2 DEF Claim
<1>5. ASSUME NEW t \in Threads, Read(t) PROVE TableTypeOK'
  BY <1>5 DEF Read, Places
<1>6. ASSUME NEW t \in Threads, NEW p \in Pointers, Store(t, p) PROVE TableTypeOK'
  BY <1>1, <1>6 DEF Store, Places
<1>7. CASE UNCHANGED tableVars
  BY <1>7 DEF tableVars
<1> QED BY <1>2, <1>3, <1>4, <1>5, <1>6, <1>7 DEF TableNext

\* Slots only go from free to owned, so what was passed stays passed.
LEMMA PassedStays ==
  ASSUME TableInv, [TableNext]_tableVars, NEW t \in Threads, NEW n \in Nat,
         n <= TableSize, Passed(t, n)
  PROVE  \A k \in 0..(n - 1) : owner'[Around(Hash[t], k)] \notin {t, Free}
<1> TAKE k \in 0..(n - 1)
<1>1. Around(Hash[t], k) \in Positions /\ owner[Around(Hash[t], k)] \notin {t, Free}
  BY AroundRange, TableAssumption DEF Passed, Positions
<1>2. ASSUME NEW u \in Threads, Claim(u)
      PROVE  owner'[Around(Hash[t], k)] = owner[Around(Hash[t], k)]
  BY <1>1, <1>2 DEF Claim, TableInv, TableTypeOK
<1>3. CASE owner' = owner
  BY <1>1, <1>3
<1>4. owner' = owner \/ \E u \in Threads : Claim(u)
  BY DEF TableNext, tableVars, Lookup, Look, Read, Store
<1> QED BY <1>1, <1>2, <1>3, <1>4

\* The new probe is 0, the old one, or one past a slot that is another thread's.
LEMMA ProbeStep ==
  ASSUME TableInv, [TableNext]_tableVars, NEW t \in Threads
  PROVE  \/ probe'[t] \in {0, probe[t]}
         \/ /\ probe'[t] = probe[t] + 1
            /\ owner[Slot(t)] \notin {t, Free}
            /\ owner' = owner
<1> USE DEF TableInv, TableTypeOK
<1>1. ASSUME NEW u \in Threads, Lookup(u) PROVE probe'[t] \in {0, probe[t]}
  BY <1>1 DEF Lookup
<1>2. ASSUME NEW u \in Threads, Look(u) \/ Claim(u), u # t PROVE probe'[t] = probe[t]
  BY <1>2 DEF Look, Claim, Advance
<1>3. CASE Look(t)
  BY <1>3 DEF Look, Advance
<1>4. CASE Claim(t)
  BY <1>4 DEF Claim, Advance
<1>5. CASE UNCHANGED probe
  BY <1>5
<1> QED BY <1>1, <1>2, <1>3, <1>4, <1>5 DEF TableNext, tableVars, Read, Store

LEMMA SearchStep ==
  ASSUME TableInv, [TableNext]_tableVars
  PROVE  SearchInv'
<1> SUFFICES ASSUME NEW t \in Threads, NEW k \in 0..(probe'[t] - 1)
             PROVE  owner'[Around(Hash[t], k)] \notin {t, Free}
  BY DEF SearchInv, Passed
<1>1. probe[t] \in Positions /\ probe'[t] \in Positions
  BY TableTypeStep DEF TableInv, TableTypeOK
<1>2. \A j \in 0..(probe[t] - 1) : owner'[Around(Hash[t], j)] \notin {t, Free}
  <2>1. PICK n \in Nat : n = probe[t]
    BY <1>1 DEF Positions
  <2>2. Passed(t, n) /\ n <= TableSize
    BY <1>1, <2>1, TableAssumption DEF TableInv, SearchInv, Positions
  <2>3. \A j \in 0..(n - 1) : owner'[Around(Hash[t], j)] \notin {t, Free}
    BY <2>2, PassedStays
  <2> QED BY <2>1, <2>3
<1>3. CASE probe'[t] = 0
  BY <1>3
<1>4. CASE probe'[t] = probe[t]
  BY <1>2, <1>4
<1>5. CASE /\ probe'[t] = probe[t] + 1
           /\ owner[Slot(t)] \notin {t, Free}
           /\ owner' = owner
  <2>1. CASE k = probe[t]
    BY <1>5, <2>1 DEF Slot
  <2>2. CASE k # probe[t]
    <3>1. k \in 0..(probe[t] - 1)
      BY <1>1, <1>5, <2>2 DEF Positions
    <3> QED BY <1>2, <3>1
  <2> QED BY <2>1, <2>2
<1> QED BY <1>3, <1>4, <1>5, ProbeStep

LEMMA FirstStep ==
  ASSUME TableInv, [TableNext]_tableVars
  PROVE  FirstInv'
<1> SUFFICES ASSUME NEW t \in Threads, NEW n \in Positions,
                    owner'[Around(Hash[t], n)] = t
             PROVE  \A j \in 0..(n - 1) : owner'[Around(Hash[t], j)] \notin {t, Free}
  BY DEF FirstInv, Passed
<1>1. n \in Nat /\ n <= TableSize /\ Around(Hash[t], n) \in Positions
  <2>1. Hash[t] \in Positions
    BY TableAssumption DEF Positions
  <2>2. Around(Hash[t], n) \in Positions
    BY <2>1, AroundRange
  <2> QED BY <2>2, TableAssumption DEF Positions
<1>2. CASE owner[Around(Hash[t], n)] = t
  <2>1. Passed(t, n)
    BY <1>2 DEF TableInv, FirstInv
  <2> QED BY <1>1, <2>1, PassedStays
<1>3. CASE owner[Around(Hash[t], n)] # t
  <2>1. PICK u \in Threads : Claim(u) /\ owner' # owner
    BY <1>3 DEF TableNext, tableVars, Lookup, Look, Read, Store
  <2>2. Slot(u) \in Positions
    BY AroundRange, TableAssumption DEF TableInv, TableTypeOK, Slot, Positions
  <2>3. owner[Slot(u)] = Free /\ owner' = [owner EXCEPT ![Slot(u)] = u]
    BY <2>1, <2>2 DEF Claim, TableInv, TableTypeOK
  <2>4. u = t /\ Around(Hash[t], n) = Slot(t)
    BY <1>1, <1>3, <2>2, <2>3 DEF TableInv, TableTypeOK
  <2>5. n = probe[t]
    BY <2>4, TableAssumption DEF Slot, Around, Positions, TableInv, TableTypeOK
  <2>6. Passed(t, n)
    BY <2>5 DEF TableInv, SearchInv
  <2> QED BY <1>1, <2>6, PassedStays
<1> QED BY <1>2, <1>3

LEMMA ContentStep ==
  ASSUME TableInv, [TableNext]_tableVars
  PROVE  ContentInv' /\ UnownedInv'
<1>1. \A t \in Threads : Slot(t) \in Positions
  BY AroundRange, TableAssumption DEF TableInv, TableTypeOK, Slot, Positions
<1> USE DEF TableInv, TableTypeOK, ContentInv, UnownedInv
<1>2. ASSUME NEW t \in Threads, Claim(t), owner' # owner
      PROVE  ContentInv' /\ UnownedInv'
  <2>1. owner[Slot(t)] = Free /\ owner' = [owner EXCEPT ![Slot(t)] = t]
    BY <1>1, <1>2 DEF Claim
  <2>2. written[t] = NullPointer
    BY <2>1, FreeMeansNone
  <2>3. UNCHANGED <<current, written>>
    BY <1>2 DEF Claim
  <2>4. ContentInv'
    BY <1>1, <2>1, <2>2, <2>3, TableAssumption
  <2>5. UnownedInv'
    BY <1>1, <2>1, <2>2, <2>3, TableAssumption
  <2> QED BY <2>4, <2>5
<1>3. ASSUME NEW t \in Threads, NEW p \in Pointers, Store(t, p)
      PROVE  ContentInv' /\ UnownedInv'
  <2>1. owner[Slot(t)] = t /\ Slot(t) \in Positions
    BY <1>1, <1>3 DEF Store, FoundInv
  <2>2. \A s \in Positions : owner[s] = t => s = Slot(t)
    <3> SUFFICES ASSUME NEW s \in Positions, owner[s] = t
                 PROVE  s = Slot(t)
      OBVIOUS
    <3>1. Hash[t] \in Positions /\ probe[t] \in Positions
      BY TableAssumption DEF Positions
    <3>2. PICK k \in Positions : Around(Hash[t], k) = s
      BY <3>1, AroundCovers
    <3>3. Passed(t, k) /\ Passed(t, probe[t])
      BY <3>2 DEF FirstInv, SearchInv
    <3>4. ~(k < probe[t])
      BY SMTT(30), <3>1, <3>2, <3>3 DEF Passed, Positions
    <3>5. ~(probe[t] < k)
      BY <2>1, <3>1, <3>2, <3>3 DEF Passed, Positions, Slot
    <3>6. k = probe[t]
      BY <3>1, <3>4, <3>5, TableAssumption DEF Positions
    <3> QED BY <3>2, <3>6 DEF Slot
  <2>3. /\ owner' = owner
        /\ current' = [current EXCEPT ![Slot(t)] = p]
        /\ written' = [written EXCEPT ![t] = p]
    BY <1>3 DEF Store
  <2>4. ContentInv'
    BY <2>1, <2>2, <2>3, TableAssumption
  <2>5. UnownedInv'
    BY <2>1, <2>3
  <2> QED BY <2>4, <2>5
<1>4. CASE UNCHANGED <<owner, current, written>>
  BY <1>4
<1>5. \/ UNCHANGED <<owner, current, written>>
      \/ \E t \in Threads : Claim(t) /\ owner' # owner
      \/ \E t \in Threads, p \in Pointers : Store(t, p)
  BY DEF TableNext, tableVars, Lookup, Look, Claim, Read
<1> QED BY <1>2, <1>3, <1>4, <1>5

LEMMA FoundStep ==
  ASSUME TableInv, [TableNext]_tableVars
  PROVE  FoundInv'
<1> SUFFICES ASSUME NEW t \in Threads
             PROVE  /\ at'[t] = "found" => owner'[Slot(t)'] = t
                    /\ at'[t] = "abort" => Passed(t, TableSize)'
  BY DEF FoundInv
<1>1. \A u \in Threads : Slot(u) \in Positions
  BY AroundRange, TableAssumption DEF TableInv, TableTypeOK, Slot, Positions
<1>2. TableSize \in Nat /\ TableSize <= TableSize
  BY TableAssumption
<1> DEFINE Old == at'[t] = at[t] /\ probe'[t] = probe[t]
<1>3. Old => (at'[t] = "found" => owner'[Slot(t)'] = t)
  <2> SUFFICES ASSUME Old, at'[t] = "found"
               PROVE  owner'[Slot(t)'] = t
    OBVIOUS
  <2>1. Slot(t)' = Slot(t) /\ owner[Slot(t)] = t
    BY DEF Slot, TableInv, FoundInv
  <2>2. ASSUME NEW u \in Threads, Claim(u) PROVE owner'[Slot(t)] = t
    BY <1>1, <2>1, <2>2, TableAssumption DEF Claim, TableInv, TableTypeOK
  <2>3. CASE owner' = owner
    BY <2>1, <2>3
  <2> QED BY <2>1, <2>2, <2>3 DEF TableNext, tableVars, Lookup, Look, Read, Store
<1>4. Passed(t, TableSize) => Passed(t, TableSize)'
  <2>1. Passed(t, TableSize) =>
          \A k \in 0..(TableSize - 1) : owner'[Around(Hash[t], k)] \notin {t, Free}
    BY <1>2, PassedStays
  <2> QED BY <2>1 DEF Passed
<1>5. Old => (at'[t] = "abort" => Passed(t, TableSize)')
  BY <1>4 DEF TableInv, FoundInv
<1>6. Old \/ Lookup(t) \/ Look(t) \/ Claim(t) \/ Read(t) \/ \E p \in Pointers : Store(t, p)
  <2>1. ASSUME NEW u \in Threads, u # t, Lookup(u) \/ Look(u) \/ Claim(u) PROVE Old
    BY <2>1 DEF Lookup, Look, Claim, Advance, TableInv, TableTypeOK
  <2>2. ASSUME NEW u \in Threads, u # t, Read(u) PROVE Old
    BY <2>2 DEF Read, TableInv, TableTypeOK
  <2>3. ASSUME NEW u \in Threads, NEW p \in Pointers, u # t, Store(u, p) PROVE Old
    BY <2>3 DEF Store, TableInv, TableTypeOK
  <2>4. CASE UNCHANGED tableVars
    BY <2>4 DEF tableVars
  <2> QED BY <2>1, <2>2, <2>3, <2>4 DEF TableNext
<1>7. CASE Lookup(t)
  BY <1>7 DEF Lookup, TableInv, TableTypeOK
<1>8. CASE Read(t)
  BY <1>8 DEF Read, TableInv, TableTypeOK
<1>9. ASSUME NEW p \in Pointers, Store(t, p)
      PROVE  at'[t] = "out"
  BY <1>9 DEF Store, TableInv, TableTypeOK
<1>10. CASE Look(t) \/ Claim(t)
  <2>1. CASE Advance(t) /\ owner[Slot(t)] \notin {t, Free} /\ owner' = owner
    <3>1. CASE probe[t] + 1 < TableSize
      BY <2>1, <3>1 DEF Advance, TableInv, TableTypeOK
    <3>2. CASE ~(probe[t] + 1 < TableSize)
      <4>1. TableSize = probe[t] + 1 /\ probe[t] \in Nat
        BY <3>2, TableAssumption DEF TableInv, TableTypeOK, Positions
      <4>2. Passed(t, probe[t])
        BY DEF TableInv, SearchInv
      <4>3. \A k \in 0..(TableSize - 1) : owner[Around(Hash[t], k)] \notin {t, Free}
        <5> TAKE k \in 0..(TableSize - 1)
        <5>1. CASE k = probe[t]
          BY <2>1, <5>1 DEF Slot
        <5>2. CASE k # probe[t]
          <6>1. k \in 0..(probe[t] - 1)
            BY <4>1, <5>2
          <6> QED BY <4>2, <6>1 DEF Passed
        <5> QED BY <5>1, <5>2
      <4>4. Passed(t, TableSize)'
        BY <2>1, <4>3 DEF Passed
      <4>5. at'[t] = "abort"
        BY <2>1, <3>2 DEF Advance, TableInv, TableTypeOK
      <4> QED BY <4>4, <4>5
    <3> QED BY <3>1, <3>2
  <2>2. CASE Look(t) /\ owner[Slot(t)] = t /\ at' = [at EXCEPT ![t] = "found"] /\ probe' = probe
    <3>1. Slot(t)' = Slot(t) /\ owner' = owner /\ at'[t] = "found"
      BY <2>2 DEF Look, Slot, TableInv, TableTypeOK
    <3> QED BY <2>2, <3>1
  <2>3. CASE at' = [at EXCEPT ![t] = "claim"]
    BY <2>3 DEF TableInv, TableTypeOK
  <2>4. CASE /\ owner' = [owner EXCEPT ![Slot(t)] = t] /\ probe' = probe
             /\ at' = [at EXCEPT ![t] = "found"]
    <3>1. Slot(t)' = Slot(t) /\ at'[t] = "found" /\ owner'[Slot(t)] = t
      BY <1>1, <2>4 DEF Slot, TableInv, TableTypeOK
    <3> QED BY <3>1
  <2> QED BY <1>10, <2>1, <2>2, <2>3, <2>4 DEF Look, Claim
<1> QED BY <1>3, <1>5, <1>6, <1>7, <1>8, <1>9, <1>10

THEOREM TableInvariant == TableSpec => []TableInv
<1>1. TableInv /\ [TableNext]_tableVars => TableInv'
  BY TableTypeStep, SearchStep, FirstStep, ContentStep, FoundStep DEF TableInv
<1> QED BY TableInitInv, <1>1, PTL DEF TableSpec

\* Typing (the struct goperl_tframe and the locals of goperl_curframe_slot).
THEOREM TableTypeCorrect == TableSpec => []TableTypeOK
<1>1. TableInv => TableTypeOK
  BY DEF TableInv
<1> QED BY TableInvariant, <1>1, PTL

\* For any threads, hash and size: each thread finds its own current frame, whatever
\* races for slots it takes part in.
THEOREM OwnFrameFound == TableSpec => []OwnFrame
<1>1. TableInv => OwnFrame
  <2> SUFFICES ASSUME TableInv, NEW t \in Threads, at[t] = "found"
               PROVE  owner[Slot(t)] = t /\ current[Slot(t)] = written[t]
    BY DEF OwnFrame
  <2>1. owner[Slot(t)] = t
    BY DEF TableInv, FoundInv
  <2>2. Slot(t) \in Positions
    BY AroundRange, TableAssumption DEF TableInv, TableTypeOK, Slot, Positions
  <2> QED BY <2>1, <2>2, TableAssumption DEF TableInv, ContentInv
<1> QED BY TableInvariant, <1>1, PTL

\* The abort() at the end of goperl_curframe_slot happens only with every slot taken.
THEOREM AbortsOnlyFull == TableSpec => []AbortOnlyWhenFull
<1>1. TableInv => AbortOnlyWhenFull
  <2> SUFFICES ASSUME TableInv, NEW t \in Threads, at[t] = "abort", NEW s \in Positions
               PROVE  owner[s] \notin {t, Free}
    BY DEF AbortOnlyWhenFull
  <2>1. Hash[t] \in Positions
    BY TableAssumption DEF Positions
  <2>2. PICK k \in Positions : Around(Hash[t], k) = s
    BY <2>1, AroundCovers
  <2>3. Passed(t, TableSize)
    BY DEF TableInv, FoundInv
  <2> QED BY <2>2, <2>3 DEF Passed, Positions
<1> QED BY TableInvariant, <1>1, PTL

-------------------------------------------------------------------------------
(* The Perl stacks of a frame.                                             *)

Marks == 0..(MaxStack - 1)
Indices == (-1)..(MaxMarks - 1)
Subs == [f : StackFrames, mark : Marks, direct : BOOLEAN, below : Nat]

StackTypes ==
  /\ marks \in [StackFrames -> [0..(MaxMarks - 1) -> Marks]]
  /\ markidx \in [StackFrames -> Indices]
  /\ psp \in [StackFrames -> Marks]
  /\ markPtr \in [owner : StackFrames \cup {Nobody}, idx : Indices]
  /\ subs \in Seq(Subs)
  /\ calling \in BOOLEAN
  /\ pushed \in [StackFrames -> Seq(Marks)]

\* A frame without an XSUB has no marks of one.
IdleEmpty == \A f \in StackFrames :
  (\A i \in 1..Len(subs) : subs[i].f # f) => pushed[f] = << >>

\* On top of a frame's marks are those that its XSUBs have pushed.
Holding(ms, idx, p) ==
  /\ idx >= Len(p) - 1
  /\ \A j \in 1..Len(p) : ms[idx - Len(p) + j] = p[j]
MarksHeld == \A f \in StackFrames :
  Holding(marks[f], Adopted(f, markidx[f]), pushed[f])

\* Marks were pushed at rising positions of the stack, which has not shrunk below them.
Rising(p, top) ==
  /\ \A j, k \in 1..Len(p) : j < k => p[j] <= p[k]
  /\ \A j \in 1..Len(p) : p[j] <= top
MarksRise == \A f \in StackFrames : Rising(pushed[f], psp[f])

\* What was done to PL_markstack_ptr and not taken over yet is the running XSUB's doing.
Unadopted == \A i \in 1..Len(subs) :
  markPtr.owner = subs[i].f /\ markPtr.idx # markidx[subs[i].f] =>
    InSub /\ subs[i].f = Sub.f /\ OwnMark

\* XSUBs on one frame follow each other, the first alone not called directly.
SubsOnFrames == \A i \in 1..Len(subs) :
  /\ subs[i].direct => i > 1 /\ subs[i - 1].f = subs[i].f
  /\ ~subs[i].direct => subs[i].mark = 0 /\ \A k \in 1..Len(subs) : k < i => subs[k].f # subs[i].f

\* The marks p of a frame, and its stack up to top, as an XSUB s on it has left those of
\* its callers and put its own above them.
Above(s, p, top) ==
  /\ s.mark <= top /\ s.below <= Len(p)
  /\ \A j \in 1..Len(p) : IF j > s.below THEN s.mark <= p[j] ELSE p[j] <= s.mark
Layered == \A i \in 1..Len(subs) :
  /\ Above(subs[i], pushed[subs[i].f], psp[subs[i].f])
  /\ \A k \in 1..Len(subs) : k < i /\ subs[k].f = subs[i].f =>
       subs[k].mark <= subs[i].mark /\ subs[k].below <= subs[i].below

StackInv ==
  /\ StackTypes /\ IdleEmpty /\ MarksHeld /\ MarksRise /\ Unadopted /\ SubsOnFrames
  /\ Layered

LEMMA StackInit0 == StackInit => StackInv
<1> SUFFICES ASSUME StackInit PROVE StackInv
  OBVIOUS
<1>1. /\ 1..Len(subs) = {} /\ subs \in Seq(Subs) /\ << >> \in Seq(Marks) /\ Len(<< >>) = 0
      /\ 0 \in Marks /\ 0 \in Indices
  BY StackAssumption, EmptySeq DEF StackInit, Marks, Indices
<1>2. StackTypes
  BY <1>1 DEF StackInit, StackTypes, Zeroed
<1>3. \A f \in StackFrames : /\ pushed[f] = << >> /\ Len(pushed[f]) = 0 /\ psp[f] = 0
                             /\ 1..Len(pushed[f]) = {}
                             /\ Adopted(f, markidx[f]) = 0
  BY <1>1 DEF StackInit, Adopted
<1>4. IdleEmpty /\ MarksHeld /\ MarksRise
  BY <1>3 DEF IdleEmpty, MarksHeld, Holding, MarksRise, Rising
<1>5. Unadopted /\ SubsOnFrames /\ Layered
  BY <1>1 DEF Unadopted, SubsOnFrames, Layered
<1> QED
  BY <1>2, <1>4, <1>5 DEF StackInv

LEMMA SubFacts ==
  ASSUME StackInv
  PROVE  /\ Len(subs) \in Nat /\ (subs = << >> <=> Len(subs) = 0)
         /\ \A i \in 1..Len(subs) :
              /\ subs[i] \in Subs /\ subs[i].f \in StackFrames /\ subs[i].mark \in Marks
              /\ subs[i].direct \in BOOLEAN /\ subs[i].below \in Nat
         /\ subs # << >> => /\ Len(subs) \in 1..Len(subs) /\ Sub = subs[Len(subs)]
                            /\ Sub.f \in StackFrames /\ Sub.mark \in Marks /\ Sub.below \in Nat
         /\ \A f \in StackFrames :
              /\ Len(pushed[f]) \in Nat /\ pushed[f] \in Seq(Marks)
              /\ \A j \in 1..Len(pushed[f]) : pushed[f][j] \in Marks
              /\ markidx[f] \in Indices /\ psp[f] \in Marks
              /\ Adopted(f, markidx[f]) \in Indices
<1>1. subs \in Seq(Subs)
  BY DEF StackInv, StackTypes
<1>2. /\ Len(subs) \in Nat /\ (subs = << >> <=> Len(subs) = 0)
      /\ \A i \in 1..Len(subs) : subs[i] \in Subs
  BY <1>1, EmptySeq, LenProperties, ElementOfSeq
<1>3. \A i \in 1..Len(subs) :
        /\ subs[i] \in Subs /\ subs[i].f \in StackFrames /\ subs[i].mark \in Marks
        /\ subs[i].direct \in BOOLEAN /\ subs[i].below \in Nat
  BY <1>2 DEF Subs
<1>4. subs # << >> => Len(subs) \in 1..Len(subs)
  BY <1>2
<1>5. \A f \in StackFrames :
        /\ pushed[f] \in Seq(Marks) /\ markidx[f] \in Indices /\ psp[f] \in Marks
        /\ Adopted(f, markidx[f]) \in Indices
  BY DEF StackInv, StackTypes, Adopted
<1>6. \A f \in StackFrames :
        Len(pushed[f]) \in Nat /\ \A j \in 1..Len(pushed[f]) : pushed[f][j] \in Marks
  BY <1>5, LenProperties, ElementOfSeq
<1> QED
  BY <1>2, <1>3, <1>4, <1>5, <1>6 DEF Sub

\* The marks of a frame on which the step does nothing.
LEMMA Elsewhere ==
  ASSUME StackInv, StackTypes', NEW g \in StackFrames, InSub => Sub.f # g,
         marks'[g] = marks[g], markidx'[g] = markidx[g], pushed'[g] = pushed[g],
         markPtr' = markPtr \/ markPtr'.owner # g
  PROVE  Holding(marks'[g], Adopted(g, markidx[g])', pushed'[g])
<1>1. Holding(marks[g], Adopted(g, markidx[g]), pushed[g])
  BY DEF StackInv, MarksHeld
<1>2. CASE \E i \in 1..Len(subs) : subs[i].f = g
  <2>1. markPtr.owner = g => markPtr.idx = markidx[g]
    BY <1>2 DEF StackInv, Unadopted
  <2>2. Adopted(g, markidx[g])' = Adopted(g, markidx[g])
    BY <2>1 DEF Adopted
  <2> QED
    BY <1>1, <2>2
<1>3. CASE \A i \in 1..Len(subs) : subs[i].f # g
  <2>1. pushed'[g] = << >> /\ Len(pushed'[g]) = 0
    BY <1>3, EmptySeq DEF StackInv, IdleEmpty
  <2>2. Adopted(g, markidx[g])' \in Indices
    BY DEF StackTypes, Adopted
  <2> QED
    BY <2>1, <2>2 DEF Holding, Indices
<1> QED
  BY <1>2, <1>3

\* A step on frame f alone.
LEMMA OneFrame ==
  ASSUME StackInv, StackTypes', NEW f \in StackFrames, InSub => Sub.f = f,
         \A g \in StackFrames : g # f =>
           /\ marks'[g] = marks[g] /\ markidx'[g] = markidx[g] /\ pushed'[g] = pushed[g]
           /\ psp'[g] = psp[g],
         markPtr' = markPtr \/ markPtr'.owner = f,
         Holding(marks'[f], Adopted(f, markidx[f])', pushed'[f]),
         Rising(pushed'[f], psp'[f])
  PROVE  MarksHeld' /\ MarksRise'
<1>1. ASSUME NEW g \in StackFrames
      PROVE  Holding(marks'[g], Adopted(g, markidx[g])', pushed'[g])
  <2>1. CASE g = f
    BY <2>1
  <2>2. CASE g # f
    BY <2>2, Elsewhere
  <2> QED
    BY <2>1, <2>2
<1>2. ASSUME NEW g \in StackFrames
      PROVE  Rising(pushed'[g], psp'[g])
  BY DEF StackInv, MarksRise
<1> QED
  BY <1>1, <1>2 DEF MarksHeld, MarksRise

\* What the XSUB on top does to its frame f.
LEMMA WorkInv ==
  ASSUME StackInv, StackTypes', subs # << >>, subs' = subs, NEW f, f = Sub.f,
         \A g \in StackFrames : g # f =>
           /\ marks'[g] = marks[g] /\ markidx'[g] = markidx[g] /\ pushed'[g] = pushed[g]
           /\ psp'[g] = psp[g],
         markPtr' = markPtr \/ markPtr'.owner = f,
         Holding(marks'[f], Adopted(f, markidx[f])', pushed'[f]),
         Rising(pushed'[f], psp'[f]),
         markPtr'.owner = f /\ markPtr'.idx # markidx'[f] =>
           ~calling' /\ Len(pushed'[f]) > Sub.below,
         \A k \in 1..Len(subs) : subs[k].f = f => Above(subs[k], pushed'[f], psp'[f])
  PROVE  StackInv'
<1>1. /\ f \in StackFrames /\ Len(subs) \in 1..Len(subs) /\ Sub = subs[Len(subs)]
      /\ Sub' = Sub
      /\ \A i \in 1..Len(subs) : subs[i].f \in StackFrames
  BY SubFacts DEF Sub
<1>2. MarksHeld' /\ MarksRise'
  BY <1>1, OneFrame
<1>3. IdleEmpty'
  <2>1. \A g \in StackFrames : (\A i \in 1..Len(subs) : subs[i].f # g) => g # f
    BY <1>1
  <2> QED
    BY <2>1 DEF StackInv, IdleEmpty
<1>4. Unadopted'
  <2> SUFFICES ASSUME NEW i \in 1..Len(subs), markPtr'.owner = subs[i].f,
                      markPtr'.idx # markidx'[subs[i].f]
               PROVE  (InSub /\ subs[i].f = Sub.f /\ OwnMark)'
    BY DEF Unadopted
  <2>1. CASE subs[i].f = f
    BY <1>1, <2>1 DEF InSub, OwnMark
  <2>2. CASE subs[i].f # f
    BY <1>1, <2>2 DEF StackInv, Unadopted
  <2> QED
    BY <2>1, <2>2
<1>5. SubsOnFrames'
  BY DEF StackInv, SubsOnFrames
<1>6. Layered'
  <2>1. ASSUME NEW i \in 1..Len(subs)
        PROVE  Above(subs[i], pushed'[subs[i].f], psp'[subs[i].f])
    <3>1. CASE subs[i].f = f
      BY <3>1
    <3>2. CASE subs[i].f # f
      BY <1>1, <3>2 DEF StackInv, Layered
    <3> QED
      BY <3>1, <3>2
  <2> QED
    BY <2>1 DEF StackInv, Layered
<1> QED
  BY <1>2, <1>3, <1>4, <1>5, <1>6 DEF StackInv

\* The running XSUB's own frame.
LEMMA OwnFacts ==
  ASSUME StackInv, subs # << >>, NEW f, f = Sub.f
  PROVE  /\ f \in StackFrames
         /\ Holding(marks[f], Adopted(f, markidx[f]), pushed[f])
         /\ Rising(pushed[f], psp[f])
         /\ \A k \in 1..Len(subs) : subs[k].f = f =>
              /\ Above(subs[k], pushed[f], psp[f])
              /\ subs[k].mark <= Sub.mark /\ subs[k].below <= Sub.below
         /\ Above(Sub, pushed[f], psp[f])
         /\ markPtr.owner = f /\ markPtr.idx # markidx[f] => ~calling /\ OwnMark
<1>1. /\ Len(subs) \in Nat /\ Len(subs) \in 1..Len(subs) /\ Sub = subs[Len(subs)]
      /\ f \in StackFrames
      /\ Sub.mark \in Marks /\ Sub.below \in Nat
  BY SubFacts
<1>2. ASSUME NEW k \in 1..Len(subs), subs[k].f = f
      PROVE  /\ Above(subs[k], pushed[f], psp[f])
             /\ subs[k].mark <= Sub.mark /\ subs[k].below <= Sub.below
  <2>1. Above(subs[k], pushed[f], psp[f])
    BY <1>2 DEF StackInv, Layered
  <2>2. CASE k = Len(subs)
    BY <1>1, <2>1, <2>2 DEF Marks
  <2>3. CASE k < Len(subs)
    BY <1>1, <1>2, <2>1, <2>3 DEF StackInv, Layered
  <2>4. Len(subs) \in Nat
    BY <1>1
  <2>5. k = Len(subs) \/ k < Len(subs)
    BY <2>4
  <2> QED
    BY <2>2, <2>3, <2>5
<1>3. markPtr.owner = f /\ markPtr.idx # markidx[f] => ~calling /\ OwnMark
  BY <1>1 DEF StackInv, Unadopted, InSub
<1> QED
  BY <1>1, <1>2, <1>3 DEF StackInv, MarksHeld, MarksRise

\* An operation that pops the mark of its own that the XSUB pushed last.
LEMMA PopFacts ==
  ASSUME StackInv, InSub, OwnMark, NEW f, f = Sub.f,
         NEW p, p = pushed[f], NEW q, q = Front(p), NEW top, top = Adopted(f, markidx[f])
  PROVE  /\ Len(p) \in Nat /\ Len(p) > 0 /\ Len(p) > Sub.below /\ p[Len(p)] \in Marks
         /\ top \in Nat /\ top < MaxMarks
         /\ Popped(f, markidx[f], marks[f]) = [mark |-> p[Len(p)], idx |-> top - 1]
         /\ Unpush(f) = [pushed EXCEPT ![f] = q]
         /\ q \in Seq(Marks) /\ Len(q) = Len(p) - 1
         /\ \A j \in 1..Len(q) : q[j] = p[j] /\ j \in 1..Len(p)
         /\ Holding(marks[f], top - 1, q) /\ Rising(q, p[Len(p)])
<1>1. /\ f \in StackFrames /\ Holding(marks[f], top, p) /\ Rising(p, psp[f])
      /\ Sub.below \in Nat
  BY OwnFacts, SubFacts DEF InSub
<1>2. /\ Len(p) \in Nat /\ p \in Seq(Marks) /\ top \in Indices
      /\ \A j \in 1..Len(p) : p[j] \in Marks
  BY <1>1, SubFacts
<1>3. Len(p) > Sub.below
  BY DEF OwnMark
<1>4. Len(p) > 0 /\ Len(p) \in 1..Len(p) /\ p # << >>
  BY <1>1, <1>2, <1>3, EmptySeq
<1>5. top \in Nat /\ top < MaxMarks /\ top - Len(p) + Len(p) = top
  BY <1>1, <1>2, <1>4, StackAssumption DEF Holding, Indices
<1>6. marks[f][top] = p[Len(p)]
  BY ZenonT(30), <1>1, <1>4, <1>5 DEF Holding
<1>7. Popped(f, markidx[f], marks[f]) = [mark |-> p[Len(p)], idx |-> top - 1]
  BY <1>5, <1>6 DEF Popped
<1>8. Unpush(f) = [pushed EXCEPT ![f] = q]
  BY <1>4 DEF Unpush
<1>9. Len(p) - 1 \in 0..Len(p)
  BY <1>2, <1>4
<1>10. /\ q \in Seq(Marks) /\ Len(q) = Len(p) - 1
       /\ \A j \in 1..(Len(p) - 1) : q[j] = p[j]
  <2>1. \A j \in 1..(Len(p) - 1) : p[j] \in Marks /\ 1 + j - 1 = j
    BY <1>2
  <2> QED
    BY <1>2, <1>9, <2>1, SubSeqProperties DEF Front
<1>11. \A j \in 1..Len(q) : q[j] = p[j] /\ j \in 1..Len(p) /\ j < Len(p)
  BY <1>2, <1>9, <1>10
<1>12. Holding(marks[f], top - 1, q)
  <2>1. top - 1 >= Len(q) - 1
    BY SMTT(30), <1>1, <1>2, <1>5, <1>10 DEF Holding
  <2>2. top - 1 - Len(q) = top - Len(p)
    BY SMTT(30), <1>2, <1>5, <1>10
  <2>3. \A j \in 1..Len(q) : marks[f][top - 1 - Len(q) + j] = q[j]
    BY <1>1, <1>11, <2>2 DEF Holding
  <2> QED
    BY <2>1, <2>3 DEF Holding
<1>13. Rising(q, p[Len(p)])
  BY <1>1, <1>4, <1>11 DEF Rising
<1> QED
  BY <1>2, <1>3, <1>4, <1>5, <1>7, <1>8, <1>10, <1>11, <1>12, <1>13

LEMMA PushMarkInv ==
  ASSUME StackInv, PushMark, NEW f, f = Sub.f
  PROVE  StackInv'
<1> DEFINE p == pushed[f]
           i == Adopted(f, markidx[f])
           v == psp[f]
           q == Append(p, v)
<1>1. /\ subs # << >> /\ ~calling /\ i + 1 < MaxMarks
      /\ marks' = [marks EXCEPT ![f][i + 1] = v]
      /\ markidx' = [markidx EXCEPT ![f] = i + 1]
      /\ markPtr' = [owner |-> f, idx |-> i + 1]
      /\ pushed' = [pushed EXCEPT ![f] = q]
      /\ psp' = psp /\ subs' = subs /\ calling' = calling
  BY DEF PushMark, InSub, Publish
<1>2. /\ f \in StackFrames /\ Holding(marks[f], i, p) /\ Rising(p, v)
      /\ \A k \in 1..Len(subs) : subs[k].f = f => Above(subs[k], p, v)
  BY <1>1, OwnFacts
<1>3. /\ Len(p) \in Nat /\ p \in Seq(Marks) /\ i \in Indices /\ v \in Marks
      /\ \A j \in 1..Len(p) : p[j] \in Marks
      /\ \A k \in 1..Len(subs) : subs[k].mark \in Marks /\ subs[k].below \in Nat
  BY <1>2, SubFacts
<1> HIDE DEF p, i, v
<1>4. /\ q \in Seq(Marks) /\ Len(q) = Len(p) + 1
      /\ \A j \in 1..Len(p) : q[j] = p[j]
      /\ q[Len(p) + 1] = v
  BY <1>3, AppendProperties DEF q
<1> HIDE DEF q
<1>5. i + 1 \in 0..(MaxMarks - 1) /\ i + 1 \in Indices
  BY <1>1, <1>3, StackAssumption DEF Indices
<1>6. StackTypes'
  <2>1. marks' \in [StackFrames -> [0..(MaxMarks - 1) -> Marks]]
    BY <1>1, <1>2, <1>3, <1>5 DEF StackInv, StackTypes
  <2>2. markidx' \in [StackFrames -> Indices] /\ pushed' \in [StackFrames -> Seq(Marks)]
    BY <1>1, <1>2, <1>4, <1>5 DEF StackInv, StackTypes
  <2>3. markPtr' \in [owner : StackFrames \cup {Nobody}, idx : Indices]
    BY <1>1, <1>2, <1>5
  <2> QED
    BY <1>1, <2>1, <2>2, <2>3 DEF StackInv, StackTypes
<1>7. /\ markidx'[f] = i + 1 /\ pushed'[f] = q /\ psp'[f] = v
      /\ Adopted(f, markidx[f])' = i + 1
      /\ \A j \in 0..(MaxMarks - 1) : marks'[f][j] = IF j = i + 1 THEN v ELSE marks[f][j]
      /\ \A g \in StackFrames : g # f =>
           /\ marks'[g] = marks[g] /\ markidx'[g] = markidx[g] /\ pushed'[g] = pushed[g]
           /\ psp'[g] = psp[g]
  <2>1. /\ marks \in [StackFrames -> [0..(MaxMarks - 1) -> Marks]]
        /\ markidx \in [StackFrames -> Indices] /\ pushed \in [StackFrames -> Seq(Marks)]
    BY DEF StackInv, StackTypes
  <2>2. psp'[f] = v
    BY <1>1 DEF v
  <2>3. markidx'[f] = i + 1 /\ pushed'[f] = q
    BY <1>1, <1>2, <2>1
  <2>4. Adopted(f, markidx[f])' = i + 1
    BY <1>1, <2>3 DEF Adopted
  <2>5. \A j \in 0..(MaxMarks - 1) : marks'[f][j] = IF j = i + 1 THEN v ELSE marks[f][j]
    BY <1>1, <1>2, <1>5, <2>1
  <2> QED
    BY <1>1, <2>1, <2>2, <2>3, <2>4, <2>5
<1>8. Holding(marks'[f], i + 1, q)
  <2>0. Len(q) = Len(p) + 1
    BY <1>4
  <2>1. i + 1 >= Len(q) - 1
    BY <1>2, <1>3, <1>4 DEF Holding, Indices
  <2>2. ASSUME NEW j \in 1..(Len(p) + 1)
        PROVE  marks'[f][(i + 1) - (Len(p) + 1) + j] = q[j]
    <3> DEFINE a == (i + 1) - (Len(p) + 1) + j
    <3>1. i \in Int /\ Len(p) \in Nat /\ i >= Len(p) - 1
      BY <1>2, <1>3 DEF Holding, Indices
    <3>2. CASE j = Len(p) + 1
      <4>1. a = i + 1
        BY <3>1, <3>2
      <4> QED
        BY <1>4, <1>5, <1>7, <3>2, <4>1
    <3>3. CASE j \in 1..Len(p)
      <4>1. a = i - Len(p) + j /\ a \in 0..(MaxMarks - 1) /\ a # i + 1
        BY <1>5, <3>1, <3>3, StackAssumption
      <4> HIDE DEF a
      <4>2. marks'[f][a] = marks[f][i - Len(p) + j]
        BY <1>7, <4>1
      <4> QED
        BY <1>2, <1>4, <3>3, <4>2 DEF Holding, a
    <3>4. j = Len(p) + 1 \/ j \in 1..Len(p)
      BY <3>1
    <3> QED
      BY <3>2, <3>3, <3>4
  <2>3. \A j \in 1..Len(q) :
          marks'[f][(i + 1) - Len(q) + j] = q[j]
    BY <2>0, <2>2
  <2> QED
    BY <2>1, <2>3 DEF Holding
<1>9. Rising(q, v)
  <2>1. \A j \in 1..Len(q) : j \in 1..Len(p) \/ j = Len(p) + 1
    BY <1>3, <1>4
  <2>2. v <= v /\ \A j \in 1..Len(q) : q[j] <= v
    BY <1>2, <1>3, <1>4, <2>1 DEF Rising, Marks
  <2>3. \A j, k \in 1..Len(q) : j < k => j \in 1..Len(p)
    BY <1>3, <1>4
  <2>4. \A j, k \in 1..Len(q) : j < k => q[j] <= q[k]
    BY <1>2, <1>4, <2>1, <2>2, <2>3 DEF Rising
  <2> QED
    BY <2>2, <2>4 DEF Rising
<1>10. \A k \in 1..Len(subs) : subs[k].f = f => Above(subs[k], q, v)
  <2> SUFFICES ASSUME NEW k \in 1..Len(subs), subs[k].f = f PROVE Above(subs[k], q, v)
    OBVIOUS
  <2>1. Above(subs[k], p, v) /\ subs[k].below \in Nat /\ subs[k].mark \in Marks
    BY <1>2, <1>3
  <2>2. \A j \in 1..Len(q) : j \in 1..Len(p) \/ (j = Len(p) + 1 /\ j > subs[k].below)
    BY <1>3, <1>4, <2>1 DEF Above
  <2>3. subs[k].below <= Len(q)
    BY <1>3, <1>4, <2>1 DEF Above
  <2> QED
    BY <1>4, <2>1, <2>2, <2>3 DEF Above
<1>11. markPtr'.owner = f /\ markPtr'.idx = markidx'[f]
  BY <1>1, <1>7
<1> QED
  BY <1>1, <1>6, <1>7, <1>8, <1>9, <1>10, <1>11, WorkInv

\* The stack of the running XSUB's frame grows, or nothing but calling changes.
LEMMA GrowInv ==
  ASSUME StackInv, subs # << >>, NEW f, f = Sub.f, NEW v \in Marks, psp[f] <= v,
         psp' = [psp EXCEPT ![f] = v], calling' \in BOOLEAN,
         marks' = marks, markidx' = markidx, markPtr' = markPtr, subs' = subs, pushed' = pushed,
         calling' => (markPtr.owner = f => markPtr.idx = markidx[f])
  PROVE  StackInv'
<1>1. /\ f \in StackFrames /\ Holding(marks[f], Adopted(f, markidx[f]), pushed[f])
      /\ Rising(pushed[f], psp[f])
      /\ \A k \in 1..Len(subs) : subs[k].f = f => Above(subs[k], pushed[f], psp[f])
      /\ markPtr.owner = f /\ markPtr.idx # markidx[f] => ~calling /\ OwnMark
  BY OwnFacts
<1>2. /\ \A j \in 1..Len(pushed[f]) : pushed[f][j] \in Marks
      /\ psp[f] \in Marks
      /\ \A k \in 1..Len(subs) : subs[k].mark \in Marks
  BY <1>1, SubFacts
<1>3. StackTypes'
  BY <1>1 DEF StackInv, StackTypes
<1>4. /\ psp'[f] = v /\ \A g \in StackFrames : g # f => psp'[g] = psp[g]
  BY <1>1 DEF StackInv, StackTypes
<1>5. Adopted(f, markidx[f])' = Adopted(f, markidx[f])
  BY DEF Adopted
<1>6. Rising(pushed[f], v)
  BY <1>1, <1>2 DEF Rising, Marks
<1>7. \A k \in 1..Len(subs) : subs[k].f = f => Above(subs[k], pushed[f], v)
  BY <1>1, <1>2 DEF Above, Marks
<1>8. markPtr.owner = f /\ markPtr.idx # markidx[f] => ~calling' /\ Len(pushed[f]) > Sub.below
  BY <1>1 DEF OwnMark
<1> QED
  BY <1>1, <1>3, <1>4, <1>5, <1>6, <1>7, <1>8, WorkInv

LEMMA PushArgInv ==
  ASSUME StackInv, PushArg, NEW f, f = Sub.f
  PROVE  StackInv'
<1>1. /\ subs # << >> /\ ~calling /\ psp[f] + 1 < MaxStack
      /\ psp' = [psp EXCEPT ![f] = psp[f] + 1]
      /\ marks' = marks /\ markidx' = markidx /\ markPtr' = markPtr /\ subs' = subs
      /\ pushed' = pushed /\ calling' = calling
  BY DEF PushArg, InSub
<1>2. psp[f] \in Marks /\ calling' \in BOOLEAN
  BY <1>1, SubFacts DEF StackInv, StackTypes
<1>3. psp[f] + 1 \in Marks /\ psp[f] <= psp[f] + 1
  BY <1>1, <1>2, StackAssumption DEF Marks
<1> QED
  BY <1>1, <1>2, <1>3, GrowInv

LEMMA GuestReturnsInv ==
  ASSUME StackInv, NEW count \in 0..1, GuestReturns(count), NEW f, f = Sub.f
  PROVE  StackInv'
<1>1. /\ subs # << >> /\ calling /\ psp[f] + count < MaxStack
      /\ psp' = [psp EXCEPT ![f] = psp[f] + count]
      /\ marks' = marks /\ markidx' = markidx /\ markPtr' = markPtr /\ subs' = subs
      /\ pushed' = pushed /\ calling' = FALSE
  BY DEF GuestReturns
<1>2. psp[f] \in Marks
  BY <1>1, SubFacts
<1>3. psp[f] + count \in Marks /\ psp[f] <= psp[f] + count
  BY <1>1, <1>2, StackAssumption DEF Marks
<1>4. calling' \in BOOLEAN
  BY <1>1
<1> QED
  BY <1>1, <1>3, <1>4, GrowInv

LEMMA EvalSvInv ==
  ASSUME StackInv, EvalSv, NEW f, f = Sub.f
  PROVE  StackInv'
<1>1. /\ subs # << >>
      /\ markPtr.owner = f => markPtr.idx = markidx[f]
      /\ psp' = psp
      /\ marks' = marks /\ markidx' = markidx /\ markPtr' = markPtr /\ subs' = subs
      /\ pushed' = pushed /\ calling' = TRUE
  BY DEF EvalSv, InSub
<1>2. psp[f] \in Marks /\ psp[f] <= psp[f]
  BY <1>1, SubFacts DEF Marks
<1>3. psp' = [psp EXCEPT ![f] = psp[f]]
  BY <1>1 DEF StackInv, StackTypes
<1>4. calling' \in BOOLEAN
  BY <1>1
<1> QED
  BY <1>1, <1>2, <1>3, <1>4, GrowInv

LEMMA CallSvInv ==
  ASSUME StackInv, CallSv, NEW f, f = Sub.f
  PROVE  StackInv'
<1> DEFINE p == pushed[f]
           q == Front(p)
           top == Adopted(f, markidx[f])
           v == p[Len(p)]
<1>1. InSub /\ OwnMark /\ subs # << >>
  BY DEF CallSv, InSub
<1>2. /\ Len(p) \in Nat /\ Len(p) > 0 /\ Len(p) > Sub.below /\ v \in Marks
      /\ top \in Nat /\ top < MaxMarks
      /\ Popped(f, markidx[f], marks[f]) = [mark |-> v, idx |-> top - 1]
      /\ Unpush(f) = [pushed EXCEPT ![f] = q]
      /\ q \in Seq(Marks) /\ Len(q) = Len(p) - 1
      /\ \A j \in 1..Len(q) : q[j] = p[j] /\ j \in 1..Len(p)
      /\ Holding(marks[f], top - 1, q) /\ Rising(q, v)
  BY <1>1, PopFacts
<1>3. /\ f \in StackFrames
      /\ \A k \in 1..Len(subs) : subs[k].f = f =>
           /\ Above(subs[k], p, psp[f]) /\ subs[k].below <= Sub.below
      /\ Sub.below \in Nat /\ \A k \in 1..Len(subs) : subs[k].below \in Nat
  BY <1>1, OwnFacts, SubFacts
<1>4. /\ markidx' = [markidx EXCEPT ![f] = top - 1]
      /\ markPtr' = [owner |-> f, idx |-> top - 1]
      /\ psp' = [psp EXCEPT ![f] = v] /\ pushed' = [pushed EXCEPT ![f] = q]
      /\ calling' = TRUE /\ marks' = marks /\ subs' = subs
  BY <1>2 DEF CallSv, Publish
<1> HIDE DEF p, q, top, v
<1>5. top - 1 \in Indices
  BY <1>2, StackAssumption DEF Indices
<1>6. StackTypes'
  <2>1. markPtr' \in [owner : StackFrames \cup {Nobody}, idx : Indices] /\ calling' \in BOOLEAN
    BY <1>3, <1>4, <1>5
  <2> QED
    BY <1>2, <1>3, <1>4, <1>5, <2>1 DEF StackInv, StackTypes
<1>7. /\ markidx'[f] = top - 1 /\ pushed'[f] = q /\ psp'[f] = v
      /\ Adopted(f, markidx[f])' = top - 1
      /\ markPtr'.owner = f /\ markPtr'.idx = markidx'[f]
      /\ \A g \in StackFrames : g # f =>
           /\ marks'[g] = marks[g] /\ markidx'[g] = markidx[g] /\ pushed'[g] = pushed[g]
           /\ psp'[g] = psp[g]
  <2>1. /\ markidx'[f] = top - 1 /\ pushed'[f] = q /\ psp'[f] = v
        /\ \A g \in StackFrames : g # f =>
             /\ marks'[g] = marks[g] /\ markidx'[g] = markidx[g] /\ pushed'[g] = pushed[g]
             /\ psp'[g] = psp[g]
    BY <1>3, <1>4 DEF StackInv, StackTypes
  <2> QED
    BY <1>4, <2>1 DEF Adopted
<1>8. \A k \in 1..Len(subs) : subs[k].f = f => Above(subs[k], q, v)
  <2> SUFFICES ASSUME NEW k \in 1..Len(subs), subs[k].f = f PROVE Above(subs[k], q, v)
    OBVIOUS
  <2>1. /\ Above(subs[k], p, psp[f]) /\ subs[k].below \in Nat
        /\ subs[k].below <= Sub.below /\ Sub.below \in Nat
    BY <1>3
  <2>2. Len(p) \in 1..Len(p) /\ Len(p) > subs[k].below /\ subs[k].below <= Len(q)
    BY <1>2, <2>1
  <2>3. subs[k].mark <= v
    BY <2>1, <2>2 DEF Above, v
  <2> QED
    BY <1>2, <2>1, <2>2, <2>3 DEF Above
<1> QED
  BY <1>1, <1>2, <1>4, <1>6, <1>7, <1>8, WorkInv

LEMMA UnpopInv ==
  ASSUME StackInv, Unpop, NEW f, f = Sub.f
  PROVE  StackInv'
<1> DEFINE p == pushed[f]
           i == markidx[f]
           v == Sub.mark
           q == Append(p, v)
<1>1. /\ subs # << >> /\ ~calling /\ ~OwnMark /\ i + 1 < MaxMarks
      /\ marks[f][i + 1] = v
      /\ markPtr' = [owner |-> f, idx |-> i + 1]
      /\ pushed' = [pushed EXCEPT ![f] = q]
      /\ marks' = marks /\ markidx' = markidx /\ psp' = psp /\ subs' = subs
      /\ calling' = calling
  BY DEF Unpop, InSub
<1>2. /\ f \in StackFrames /\ Holding(marks[f], Adopted(f, markidx[f]), p)
      /\ Rising(p, psp[f])
      /\ \A k \in 1..Len(subs) : subs[k].f = f =>
           Above(subs[k], p, psp[f]) /\ subs[k].mark <= v
      /\ Above(Sub, p, psp[f])
      /\ markPtr.owner = f /\ markPtr.idx # i => OwnMark
  BY <1>1, OwnFacts
<1>3. /\ Len(p) \in Nat /\ p \in Seq(Marks) /\ i \in Indices /\ psp[f] \in Marks
      /\ \A j \in 1..Len(p) : p[j] \in Marks
      /\ v \in Marks /\ Sub.below \in Nat
      /\ \A k \in 1..Len(subs) : subs[k].mark \in Marks /\ subs[k].below \in Nat
  BY <1>1, <1>2, SubFacts
<1>4. Adopted(f, markidx[f]) = i
  BY <1>1, <1>2 DEF Adopted
<1>5. Len(p) = Sub.below
  <2>1. ~(Len(p) > Sub.below)
    BY <1>1 DEF OwnMark
  <2>2. Sub.below <= Len(p)
    BY <1>2 DEF Above
  <2> HIDE DEF p
  <2> QED
    BY <1>3, <2>1, <2>2
<1>6. \A j \in 1..Len(p) : p[j] <= v
  BY <1>2, <1>3, <1>5 DEF Above
<1>7. v <= psp[f]
  BY <1>2 DEF Above
<1> HIDE DEF p, i, v
<1>8. /\ q \in Seq(Marks) /\ Len(q) = Len(p) + 1 /\ q[Len(p) + 1] = v
      /\ \A j \in 1..Len(p) : q[j] = p[j]
  BY <1>3, AppendProperties
<1> HIDE DEF q
<1>9. i + 1 \in Indices
  BY <1>1, <1>3, StackAssumption DEF Indices
<1>10. StackTypes'
  <2>1. markPtr' \in [owner : StackFrames \cup {Nobody}, idx : Indices]
    BY <1>1, <1>2, <1>9
  <2> QED
    BY <1>1, <1>2, <1>8, <2>1 DEF StackInv, StackTypes
<1>11. /\ pushed'[f] = q /\ \A g \in StackFrames : g # f => pushed'[g] = pushed[g]
       /\ Adopted(f, markidx[f])' = i + 1
  <2>1. Adopted(f, markidx[f])' = i + 1
    BY <1>1 DEF Adopted
  <2> QED
    BY <1>1, <1>2, <2>1 DEF StackInv, StackTypes
<1>12. Holding(marks'[f], i + 1, q)
  <2>1. i + 1 >= Len(q) - 1
    BY <1>2, <1>3, <1>4, <1>8 DEF Holding, Indices
  <2>2. ASSUME NEW j \in 1..(Len(p) + 1)
        PROVE  marks[f][(i + 1) - (Len(p) + 1) + j] = q[j]
    <3> DEFINE a == (i + 1) - (Len(p) + 1) + j
    <3>1. i \in Int /\ Len(p) \in Nat
      BY <1>3 DEF Indices
    <3>2. CASE j = Len(p) + 1
      <4>1. a = i + 1
        BY <3>1, <3>2
      <4> QED
        BY <1>1, <1>8, <3>2, <4>1
    <3>3. CASE j \in 1..Len(p)
      <4>1. a = i - Len(p) + j
        BY <3>1, <3>3
      <4> QED
        BY <1>2, <1>4, <1>8, <3>3, <4>1 DEF Holding
    <3>4. j = Len(p) + 1 \/ j \in 1..Len(p)
      BY <3>1
    <3> QED
      BY <3>2, <3>3, <3>4
  <2>3. \A j \in 1..Len(q) : marks'[f][(i + 1) - Len(q) + j] = q[j]
    BY <1>1, <1>8, <2>2
  <2> QED
    BY <2>1, <2>3 DEF Holding
<1>13. \A j \in 1..Len(q) : j \in 1..Len(p) \/ j = Len(p) + 1
  BY <1>3, <1>8
<1>14. Rising(q, psp[f])
  <2>1. \A j \in 1..Len(q) : q[j] <= psp[f]
    BY <1>2, <1>7, <1>8, <1>13 DEF Rising
  <2>2. v <= v
    BY <1>3 DEF Marks
  <2>3. \A j, k \in 1..Len(q) : j < k => j \in 1..Len(p)
    BY <1>3, <1>8
  <2>4. \A j, k \in 1..Len(q) : j < k => q[j] <= q[k]
    BY <1>2, <1>6, <1>8, <1>13, <2>2, <2>3 DEF Rising
  <2> QED
    BY <2>1, <2>4 DEF Rising
<1>15. \A k \in 1..Len(subs) : subs[k].f = f => Above(subs[k], q, psp[f])
  <2> SUFFICES ASSUME NEW k \in 1..Len(subs), subs[k].f = f PROVE Above(subs[k], q, psp[f])
    OBVIOUS
  <2>1. Above(subs[k], p, psp[f]) /\ subs[k].below \in Nat /\ subs[k].mark <= v
    BY <1>2, <1>3
  <2>2. \A j \in 1..Len(q) : j \in 1..Len(p) \/ (j = Len(p) + 1 /\ j > subs[k].below)
    BY <1>3, <1>13, <2>1 DEF Above
  <2>3. subs[k].below <= Len(q)
    BY <1>3, <1>8, <2>1 DEF Above
  <2> QED
    BY <1>8, <2>1, <2>2, <2>3 DEF Above
<1>16. Len(pushed'[f]) > Sub.below
  BY <1>3, <1>5, <1>8, <1>11
<1> QED
  BY <1>1, <1>2, <1>10, <1>11, <1>12, <1>14, <1>15, <1>16, WorkInv

\* An XSUB s begins on frame f.
LEMMA BeginInv ==
  ASSUME StackInv, StackTypes', NEW s \in Subs, NEW f, f = s.f, subs' = Append(subs, s),
         InSub => Sub.f = f,
         \A g \in StackFrames : g # f =>
           /\ marks'[g] = marks[g] /\ markidx'[g] = markidx[g] /\ pushed'[g] = pushed[g]
           /\ psp'[g] = psp[g],
         markPtr'.owner = f, markPtr'.idx = markidx'[f],
         Holding(marks'[f], markidx'[f], pushed'[f]), Rising(pushed'[f], psp'[f]),
         s.direct => subs # << >> /\ Sub.f = f,
         ~s.direct => s.mark = 0 /\ \A k \in 1..Len(subs) : subs[k].f # f,
         Above(s, pushed'[f], psp'[f]),
         \A k \in 1..Len(subs) : subs[k].f = f =>
           /\ Above(subs[k], pushed'[f], psp'[f])
           /\ subs[k].mark <= s.mark /\ subs[k].below <= s.below
  PROVE  StackInv'
<1> DEFINE n == Len(subs)
<1>1. /\ n \in Nat /\ f \in StackFrames
      /\ subs # << >> => n \in 1..n /\ Sub = subs[n]
      /\ subs = << >> <=> n = 0
  BY SubFacts DEF Subs
<1>2. /\ Len(subs') = n + 1 /\ subs'[n + 1] = s
      /\ \A i \in 1..n : subs'[i] = subs[i]
  BY AppendProperties DEF StackInv, StackTypes
<1> HIDE DEF n
<1>3. \A i \in 1..(n + 1) : i \in 1..n \/ i = n + 1
  BY <1>1
<1>4. \A i \in 1..n : i \in 1..(n + 1) /\ i < n + 1 /\ i # n + 1
  BY <1>1
<1>5. MarksHeld' /\ MarksRise'
  <2>1. Adopted(f, markidx[f])' = markidx'[f]
    BY DEF Adopted
  <2> QED
    BY <1>1, <2>1, OneFrame
<1>6. IdleEmpty'
  <2> SUFFICES ASSUME NEW g \in StackFrames, \A i \in 1..(n + 1) : subs'[i].f # g
               PROVE  pushed'[g] = << >>
    BY <1>2 DEF IdleEmpty
  <2>1. g # f
    BY <1>1, <1>2
  <2>2. \A i \in 1..n : subs[i].f # g
    BY <1>2, <1>4
  <2> QED
    BY <2>1, <2>2 DEF StackInv, IdleEmpty, n
<1>7. Unadopted'
  BY DEF Unadopted
<1>8. SubsOnFrames'
  <2> SUFFICES ASSUME NEW i \in 1..(n + 1)
               PROVE  /\ subs'[i].direct => i > 1 /\ subs'[i - 1].f = subs'[i].f
                      /\ ~subs'[i].direct =>
                           /\ subs'[i].mark = 0
                           /\ \A k \in 1..(n + 1) : k < i => subs'[k].f # subs'[i].f
    BY SMTT(30), <1>2 DEF SubsOnFrames
  <2>1. CASE i \in 1..n
    <3>1. i > 1 => i - 1 \in 1..n
      BY <1>1, <2>1
    <3>2. \A k \in 1..(n + 1) : k < i => k \in 1..n
      BY <1>1, <2>1
    <3>3. /\ subs[i].direct => i > 1 /\ subs[i - 1].f = subs[i].f
          /\ ~subs[i].direct =>
               subs[i].mark = 0 /\ \A k \in 1..n : k < i => subs[k].f # subs[i].f
      BY <2>1 DEF StackInv, SubsOnFrames, n
    <3> QED
      BY <1>2, <2>1, <3>1, <3>2, <3>3
  <2>2. CASE i = n + 1
    <3>1. s.direct => i > 1 /\ i - 1 = n /\ subs[n].f = f /\ n \in 1..n
      BY <1>1, <2>2
    <3>2. ~s.direct => s.mark = 0 /\ \A k \in 1..n : subs[k].f # f
      BY DEF n
    <3>3. \A k \in 1..(n + 1) : k < i => k \in 1..n
      BY <1>1, <2>2
    <3> QED
      BY <1>2, <2>2, <3>1, <3>2, <3>3
  <2> QED
    BY <1>3, <2>1, <2>2
<1>9. Layered'
  <2> SUFFICES ASSUME NEW i \in 1..(n + 1)
               PROVE  /\ Above(subs'[i], pushed'[subs'[i].f], psp'[subs'[i].f])
                      /\ \A k \in 1..(n + 1) : k < i /\ subs'[k].f = subs'[i].f =>
                           subs'[k].mark <= subs'[i].mark /\ subs'[k].below <= subs'[i].below
    BY <1>2 DEF Layered
  <2>1. CASE i \in 1..n
    <3>1. /\ Above(subs[i], pushed[subs[i].f], psp[subs[i].f])
          /\ \A k \in 1..n : k < i /\ subs[k].f = subs[i].f =>
               subs[k].mark <= subs[i].mark /\ subs[k].below <= subs[i].below
      BY <2>1 DEF StackInv, Layered, n
    <3>2. \A k \in 1..(n + 1) : k < i => k \in 1..n
      BY <1>1, <2>1
    <3>3. subs[i].f \in StackFrames
      BY <2>1, SubFacts DEF n
    <3>4. Above(subs[i], pushed'[subs[i].f], psp'[subs[i].f])
      BY <2>1, <3>1, <3>3 DEF n
    <3> QED
      BY <1>2, <2>1, <3>1, <3>2, <3>4
  <2>2. CASE i = n + 1
    <3>1. \A k \in 1..(n + 1) : k < i => k \in 1..n
      BY <1>1, <2>2
    <3>2. \A k \in 1..n : subs[k].f = f => subs[k].mark <= s.mark /\ subs[k].below <= s.below
      BY DEF n
    <3> QED
      BY <1>2, <2>2, <3>1, <3>2
  <2> QED
    BY <1>3, <2>1, <2>2
<1> QED
  BY <1>5, <1>6, <1>7, <1>8, <1>9 DEF StackInv

LEMMA EnterXsubInv ==
  ASSUME StackInv, NEW f \in StackFrames, NEW items \in 0..1, EnterXsub(f, items)
  PROVE  StackInv'
<1> DEFINE a == Adopted(f, 0)
           i == IF a >= 0 THEN a - 1 ELSE a
           s == [f |-> f, mark |-> 0, direct |-> FALSE, below |-> 0]
<1>1. /\ DOMAIN subs = 1..Len(subs)
      /\ 0 \in Marks /\ 0 \in Indices /\ items \in Marks /\ s \in Subs
  <2>1. DOMAIN subs = 1..Len(subs)
    BY LenProperties DEF StackInv, StackTypes
  <2>2. 0 \in Marks /\ 0 \in Indices /\ items \in Marks
    BY StackAssumption DEF EnterXsub, Marks, Indices
  <2> QED
    BY <2>1, <2>2 DEF Subs
<1>2. a \in Indices
  BY <1>1 DEF Adopted, StackInv, StackTypes
<1>3. i \in Indices /\ Popped(f, 0, Zeroed) = [mark |-> 0, idx |-> i]
  <2>1. a >= 0 => Zeroed[a] = 0
    BY <1>2 DEF Zeroed, Indices
  <2>2. Popped(f, 0, Zeroed) = [mark |-> 0, idx |-> i]
    BY <2>1 DEF Popped
  <2> HIDE DEF a
  <2>3. CASE a >= 0
    <3>1. a - 1 \in Indices
      BY <1>2, <2>3, StackAssumption DEF Indices
    <3> QED
      BY <2>2, <2>3, <3>1
  <2>4. CASE ~(a >= 0)
    BY <1>2, <2>2, <2>4
  <2> QED
    BY <2>3, <2>4
<1>4. /\ subs # << >> => calling
      /\ \A k \in 1..Len(subs) : subs[k].f # f
      /\ markidx' = [markidx EXCEPT ![f] = i]
      /\ markPtr' = [owner |-> f, idx |-> i]
      /\ subs' = Append(subs, s)
      /\ psp' = [psp EXCEPT ![f] = items]
      /\ calling' = FALSE /\ marks' = marks /\ pushed' = pushed
  <2>1. \A k \in 1..Len(subs) : subs[k].f # f
    BY <1>1 DEF EnterXsub
  <2>2. Popped(f, 0, Zeroed).idx = i /\ Popped(f, 0, Zeroed).mark = 0
    BY <1>3
  <2> HIDE DEF i
  <2>3. markidx' = [markidx EXCEPT ![f] = i] /\ markPtr' = [owner |-> f, idx |-> i]
    BY <2>2 DEF EnterXsub, Publish
  <2>4. subs' = Append(subs, s)
    BY <2>2 DEF EnterXsub
  <2> QED
    BY <2>1, <2>3, <2>4 DEF EnterXsub
<1> HIDE DEF a, i
<1>5. StackTypes'
  <2>1. subs' \in Seq(Subs)
    BY <1>1, <1>4, AppendProperties DEF StackInv, StackTypes
  <2>2. markPtr' \in [owner : StackFrames \cup {Nobody}, idx : Indices] /\ calling' \in BOOLEAN
    BY <1>3, <1>4
  <2> HIDE DEF s
  <2> QED
    BY <1>1, <1>3, <1>4, <2>1, <2>2 DEF StackInv, StackTypes
<1>6. pushed'[f] = << >> /\ Len(pushed'[f]) = 0
  BY <1>4, EmptySeq DEF StackInv, IdleEmpty
<1>7. /\ markidx'[f] = i /\ psp'[f] = items
      /\ markPtr'.owner = f /\ markPtr'.idx = i
      /\ \A g \in StackFrames : g # f => markidx'[g] = markidx[g] /\ psp'[g] = psp[g]
  BY <1>4 DEF StackInv, StackTypes
<1>8. Holding(marks'[f], i, pushed'[f]) /\ Rising(pushed'[f], items)
  BY <1>3, <1>6 DEF Holding, Rising, Indices
<1>9. Above(s, pushed'[f], items)
  BY <1>6 DEF Above
<1>10. ~InSub
  BY <1>4 DEF InSub
<1>11. /\ s.f = f /\ ~s.direct /\ s.mark = 0
  OBVIOUS
<1> HIDE DEF s
<1> QED
  BY <1>1, <1>4, <1>5, <1>7, <1>8, <1>9, <1>10, <1>11, BeginInv

LEMMA EnterDirectInv ==
  ASSUME StackInv, EnterDirect, NEW f, f = Sub.f
  PROVE  StackInv'
<1> DEFINE p == pushed[f]
           q == Front(p)
           top == Adopted(f, markidx[f])
           v == p[Len(p)]
           s == [f |-> f, mark |-> v, direct |-> TRUE, below |-> Len(p) - 1]
<1>1. InSub /\ OwnMark /\ subs # << >>
  BY DEF EnterDirect, InSub
<1>2. /\ Len(p) \in Nat /\ Len(p) > 0 /\ Len(p) > Sub.below /\ v \in Marks
      /\ top \in Nat /\ top < MaxMarks
      /\ Popped(f, markidx[f], marks[f]) = [mark |-> v, idx |-> top - 1]
      /\ Unpush(f) = [pushed EXCEPT ![f] = q]
      /\ q \in Seq(Marks) /\ Len(q) = Len(p) - 1
      /\ \A j \in 1..Len(q) : q[j] = p[j] /\ j \in 1..Len(p)
      /\ Holding(marks[f], top - 1, q) /\ Rising(q, v)
  BY <1>1, PopFacts
<1>3. /\ f \in StackFrames
      /\ \A k \in 1..Len(subs) : subs[k].f = f =>
           /\ Above(subs[k], p, psp[f]) /\ subs[k].below <= Sub.below
      /\ Rising(p, psp[f])
      /\ Sub.below \in Nat /\ \A k \in 1..Len(subs) : subs[k].below \in Nat
      /\ psp[f] \in Marks
  BY <1>1, OwnFacts, SubFacts
<1>4. /\ markidx' = [markidx EXCEPT ![f] = top - 1]
      /\ markPtr' = [owner |-> f, idx |-> top - 1]
      /\ pushed' = [pushed EXCEPT ![f] = q]
      /\ subs' = Append(subs, s)
      /\ psp' = psp /\ calling' = calling /\ marks' = marks
  BY <1>2 DEF EnterDirect, Publish
<1>5. s \in Subs /\ s.f = f /\ s.direct /\ s.mark = v /\ s.below = Len(p) - 1
  <2>1. Len(p) - 1 \in Nat
    BY <1>2
  <2> HIDE DEF p, v
  <2> QED
    BY <1>2, <1>3, <2>1 DEF Subs
<1> HIDE DEF p, q, top, v, s
<1>6. top - 1 \in Indices
  BY <1>2, StackAssumption DEF Indices
<1>7. StackTypes'
  <2>1. subs' \in Seq(Subs)
    BY <1>4, <1>5, AppendProperties DEF StackInv, StackTypes
  <2>2. markPtr' \in [owner : StackFrames \cup {Nobody}, idx : Indices]
    BY <1>3, <1>4, <1>6
  <2> QED
    BY <1>2, <1>3, <1>4, <1>6, <2>1, <2>2 DEF StackInv, StackTypes
<1>8. /\ markidx'[f] = top - 1 /\ pushed'[f] = q
      /\ markPtr'.owner = f /\ markPtr'.idx = markidx'[f]
      /\ \A g \in StackFrames : g # f =>
           /\ marks'[g] = marks[g] /\ markidx'[g] = markidx[g] /\ pushed'[g] = pushed[g]
           /\ psp'[g] = psp[g]
  BY <1>3, <1>4 DEF StackInv, StackTypes
<1>9. v <= psp[f] /\ Rising(q, psp[f])
  <2>1. Len(p) \in 1..Len(p)
    BY <1>2
  <2>2. v <= psp[f]
    BY <1>3, <2>1 DEF Rising, v
  <2>3. \A j \in 1..Len(q) : q[j] <= psp[f]
    BY <1>2, <1>3 DEF Rising
  <2> QED
    BY <1>2, <2>2, <2>3 DEF Rising
<1>10. Above(s, q, psp[f])
  <2>1. \A j \in 1..Len(q) : ~(j > s.below) /\ q[j] <= v
    BY <1>2, <1>5 DEF Rising
  <2> QED
    BY <1>2, <1>5, <1>9, <2>1 DEF Above
<1>11. ASSUME NEW k \in 1..Len(subs), subs[k].f = f
       PROVE  /\ Above(subs[k], q, psp[f])
              /\ subs[k].mark <= s.mark /\ subs[k].below <= s.below
  <2>1. /\ Above(subs[k], p, psp[f]) /\ subs[k].below \in Nat
        /\ subs[k].below <= Sub.below /\ Sub.below \in Nat
    BY <1>3, <1>11
  <2>2. /\ Len(p) \in 1..Len(p) /\ Len(p) > subs[k].below /\ subs[k].below <= Len(q)
        /\ subs[k].below <= Len(p) - 1
    BY <1>2, <2>1
  <2>3. subs[k].mark <= v
    BY <2>1, <2>2 DEF Above, v
  <2>4. Above(subs[k], q, psp[f])
    BY <1>2, <2>1, <2>2 DEF Above
  <2> QED
    BY <1>5, <2>2, <2>3, <2>4
<1> QED
  BY <1>1, <1>2, <1>4, <1>5, <1>7, <1>8, <1>9, <1>10, <1>11, BeginInv

\* The XSUB on top ends.
LEMMA FrontFacts ==
  ASSUME StackInv, subs # << >>, NEW n, n = Len(subs), subs' = Front(subs)
  PROVE  /\ n \in Nat /\ n >= 1 /\ n \in 1..n /\ Sub = subs[n]
         /\ subs' \in Seq(Subs) /\ Len(subs') = n - 1
         /\ \A i \in 1..(n - 1) : subs'[i] = subs[i] /\ i \in 1..n /\ i < n
<1>1. /\ n \in Nat /\ n >= 1 /\ n \in 1..n /\ Sub = subs[n]
      /\ \A i \in 1..n : subs[i] \in Subs
  BY SubFacts
<1>2. n - 1 \in 0..n
  BY <1>1
<1>3. \A i \in 1..(n - 1) : i \in 1..n /\ i < n /\ 1 + i - 1 = i
  BY <1>1
<1>4. /\ subs' \in Seq(Subs) /\ Len(subs') = n - 1
      /\ \A i \in 1..(n - 1) : subs'[i] = subs[i]
  BY <1>1, <1>2, <1>3, SubSeqProperties DEF Front
<1> QED
  BY <1>1, <1>3, <1>4

LEMMA FewerSubs ==
  ASSUME StackInv, subs # << >>, subs' = Front(subs)
  PROVE  /\ SubsOnFrames'
         /\ \A i, k \in 1..(Len(subs) - 1) : k < i /\ subs[k].f = subs[i].f =>
              subs[k].mark <= subs[i].mark /\ subs[k].below <= subs[i].below
<1> DEFINE n == Len(subs)
<1>1. /\ n \in Nat /\ n >= 1 /\ Len(subs') = n - 1
      /\ \A i \in 1..(n - 1) : subs'[i] = subs[i] /\ i \in 1..n /\ i < n
  BY FrontFacts
<1>2. SubsOnFrames /\ Layered
  BY DEF StackInv
<1> HIDE DEF n
<1>3. SubsOnFrames'
  <2> SUFFICES ASSUME NEW i \in 1..(n - 1)
               PROVE  /\ subs'[i].direct => i > 1 /\ subs'[i - 1].f = subs'[i].f
                      /\ ~subs'[i].direct =>
                           /\ subs'[i].mark = 0
                           /\ \A k \in 1..(n - 1) : k < i => subs'[k].f # subs'[i].f
    BY <1>1 DEF SubsOnFrames
  <2>1. i > 1 => i - 1 \in 1..(n - 1)
    BY <1>1
  <2>2. /\ subs[i].direct => i > 1 /\ subs[i - 1].f = subs[i].f
        /\ ~subs[i].direct =>
             subs[i].mark = 0 /\ \A k \in 1..n : k < i => subs[k].f # subs[i].f
    BY <1>1, <1>2 DEF SubsOnFrames, n
  <2> QED
    BY <1>1, <2>1, <2>2
<1>4. \A i, k \in 1..(n - 1) : k < i /\ subs[k].f = subs[i].f =>
        subs[k].mark <= subs[i].mark /\ subs[k].below <= subs[i].below
  BY <1>1, <1>2 DEF Layered, n
<1> QED
  BY <1>3, <1>4 DEF n

\* Its frame is dropped with it.
LEMMA DropInv ==
  ASSUME StackInv, InSub, ~Sub.direct, NEW f, f = Sub.f, subs' = Front(subs),
         calling' \in BOOLEAN, Drop(f), markPtr' = markPtr
  PROVE  StackInv'
<1> DEFINE n == Len(subs)
<1>1. /\ subs # << >>
      /\ n \in Nat /\ n >= 1 /\ n \in 1..n /\ Sub = subs[n]
      /\ subs' \in Seq(Subs) /\ Len(subs') = n - 1
      /\ \A i \in 1..(n - 1) : subs'[i] = subs[i] /\ i \in 1..n /\ i < n
  BY FrontFacts DEF InSub
<1>2. f \in StackFrames /\ \A i \in 1..n : subs[i].f \in StackFrames
  BY <1>1, SubFacts
<1>3. \A i \in 1..(n - 1) : subs[i].f # f
  BY <1>1 DEF StackInv, SubsOnFrames, n
<1>4. /\ 0 \in Marks /\ 0 \in Indices /\ << >> \in Seq(Marks) /\ Len(<< >>) = 0
      /\ Zeroed \in [0..(MaxMarks - 1) -> Marks]
  BY StackAssumption, EmptySeq DEF Marks, Indices, Zeroed
<1> HIDE DEF n
<1>5. StackTypes'
  BY <1>1, <1>2, <1>4 DEF StackInv, StackTypes, Drop
<1>6. /\ pushed'[f] = << >> /\ Len(pushed'[f]) = 0 /\ psp'[f] = 0
      /\ \A g \in StackFrames : g # f =>
           /\ marks'[g] = marks[g] /\ markidx'[g] = markidx[g] /\ pushed'[g] = pushed[g]
           /\ psp'[g] = psp[g]
  BY <1>2, <1>4 DEF StackInv, StackTypes, Drop
<1>7. MarksHeld'
  <2> SUFFICES ASSUME NEW g \in StackFrames
               PROVE  Holding(marks'[g], Adopted(g, markidx[g])', pushed'[g])
    BY DEF MarksHeld
  <2>1. CASE g = f
    <3>1. Adopted(g, markidx[g])' \in Indices
      BY <1>5 DEF StackTypes, Adopted
    <3> QED
      BY <1>6, <2>1, <3>1 DEF Holding, Indices
  <2>2. CASE g # f
    BY <1>5, <1>6, <2>2, Elsewhere
  <2> QED
    BY <2>1, <2>2
<1>8. MarksRise'
  BY <1>6 DEF StackInv, MarksRise, Rising
<1>9. IdleEmpty'
  <2> SUFFICES ASSUME NEW g \in StackFrames, \A i \in 1..(n - 1) : subs'[i].f # g
               PROVE  pushed'[g] = << >>
    BY <1>1 DEF IdleEmpty
  <2>1. CASE g = f
    BY <1>6, <2>1
  <2>2. CASE g # f
    <3>1. \A i \in 1..n : i = n \/ i \in 1..(n - 1)
      BY <1>1
    <3>2. \A i \in 1..n : subs[i].f # g
      BY <1>1, <2>2, <3>1
    <3> QED
      BY <1>6, <2>2, <3>2 DEF StackInv, IdleEmpty, n
  <2> QED
    BY <2>1, <2>2
<1>10. Unadopted'
  <2> SUFFICES ASSUME NEW i \in 1..(n - 1), markPtr.owner = subs[i].f,
                      markPtr.idx # markidx[subs[i].f]
               PROVE  FALSE
    BY <1>1, <1>2, <1>3, <1>6 DEF Unadopted
  <2> QED
    BY <1>1, <1>3 DEF StackInv, Unadopted, n
<1>11. SubsOnFrames'
  BY <1>1, FewerSubs
<1>12. Layered'
  <2>1. \A i, k \in 1..(n - 1) : k < i /\ subs'[k].f = subs'[i].f =>
          subs'[k].mark <= subs'[i].mark /\ subs'[k].below <= subs'[i].below
    BY <1>1, FewerSubs DEF n
  <2>2. ASSUME NEW i \in 1..(n - 1)
        PROVE  Above(subs'[i], pushed'[subs'[i].f], psp'[subs'[i].f])
    <3>1. Above(subs[i], pushed[subs[i].f], psp[subs[i].f])
      BY <1>1 DEF StackInv, Layered, n
    <3> QED
      BY <1>1, <1>2, <1>3, <1>6, <3>1
  <2> QED
    BY <1>1, <2>1, <2>2 DEF Layered
<1> QED
  BY <1>5, <1>7, <1>8, <1>9, <1>10, <1>11, <1>12 DEF StackInv

\* It leaves its caller, which called it directly, with r results on their frame.
LEMMA LeaveDirectInv ==
  ASSUME StackInv, InSub, Sub.direct, ~OwnMark, NEW f, f = Sub.f, NEW r \in 0..1,
         Sub.mark + r < MaxStack, subs' = Front(subs), calling' \in BOOLEAN,
         psp' = [psp EXCEPT ![f] = Sub.mark + r],
         marks' = marks, markidx' = markidx, pushed' = pushed, markPtr' = markPtr
  PROVE  StackInv'
<1> DEFINE n == Len(subs)
           p == pushed[f]
           v == Sub.mark + r
<1>1. /\ subs # << >>
      /\ n \in Nat /\ n >= 1 /\ n \in 1..n /\ Sub = subs[n]
      /\ subs' \in Seq(Subs) /\ Len(subs') = n - 1
      /\ \A i \in 1..(n - 1) : subs'[i] = subs[i] /\ i \in 1..n /\ i < n
  BY FrontFacts DEF InSub
<1>2. /\ f \in StackFrames /\ \A i \in 1..n : subs[i].f \in StackFrames /\ subs[i].mark \in Marks
      /\ Rising(p, psp[f])
      /\ Above(Sub, p, psp[f])
      /\ Len(p) \in Nat /\ \A j \in 1..Len(p) : p[j] \in Marks
      /\ Sub.mark \in Marks /\ Sub.below \in Nat
  BY <1>1, OwnFacts, SubFacts
<1>3. n > 1 /\ subs[n - 1].f = f
  BY <1>1 DEF StackInv, SubsOnFrames, n
<1>4. v \in Marks /\ Sub.mark <= v
  BY <1>2, StackAssumption DEF Marks
<1>5. \A j \in 1..Len(p) : p[j] <= v
  <2>1. \A j \in 1..Len(p) : ~(j > Sub.below)
    BY <1>2 DEF OwnMark
  <2>2. \A j \in 1..Len(p) : p[j] <= Sub.mark
    BY <1>2, <2>1 DEF Above
  <2> QED
    BY <1>2, <1>4, <2>2 DEF Marks
<1> HIDE DEF n, v
<1>6. StackTypes'
  BY <1>1, <1>2, <1>4 DEF StackInv, StackTypes, v
<1>7. /\ psp'[f] = v
      /\ \A g \in StackFrames : g # f => psp'[g] = psp[g]
  BY <1>2 DEF StackInv, StackTypes, v
<1>8. MarksHeld'
  BY DEF StackInv, MarksHeld, Adopted
<1>9. MarksRise'
  <2> SUFFICES ASSUME NEW g \in StackFrames PROVE Rising(pushed[g], psp'[g])
    BY DEF MarksRise
  <2>1. CASE g = f
    BY <1>2, <1>5, <1>7, <2>1 DEF Rising
  <2>2. CASE g # f
    BY <1>7, <2>2 DEF StackInv, MarksRise
  <2> QED
    BY <2>1, <2>2
<1>10. IdleEmpty'
  <2> SUFFICES ASSUME NEW g \in StackFrames, \A i \in 1..(n - 1) : subs'[i].f # g
               PROVE  pushed[g] = << >>
    BY <1>1 DEF IdleEmpty
  <2>1. n - 1 \in 1..(n - 1)
    BY <1>1, <1>3
  <2>2. \A i \in 1..n : i = n \/ i \in 1..(n - 1)
    BY <1>1
  <2>3. g # f
    BY <1>1, <1>3, <2>1
  <2>4. \A i \in 1..n : subs[i].f # g
    BY <1>1, <2>2, <2>3
  <2> QED
    BY <2>4 DEF StackInv, IdleEmpty, n
<1>11. Unadopted'
  <2> SUFFICES ASSUME NEW i \in 1..(n - 1), markPtr.owner = subs[i].f,
                      markPtr.idx # markidx[subs[i].f]
               PROVE  FALSE
    BY <1>1 DEF Unadopted
  <2> QED
    BY <1>1 DEF StackInv, Unadopted, n
<1>12. SubsOnFrames'
  BY <1>1, FewerSubs
<1>13. Layered'
  <2>1. \A i, k \in 1..(n - 1) : k < i /\ subs'[k].f = subs'[i].f =>
          subs'[k].mark <= subs'[i].mark /\ subs'[k].below <= subs'[i].below
    BY <1>1, FewerSubs DEF n
  <2>2. ASSUME NEW i \in 1..(n - 1)
        PROVE  Above(subs'[i], pushed[subs'[i].f], psp'[subs'[i].f])
    <3>1. Above(subs[i], pushed[subs[i].f], psp[subs[i].f])
      BY <1>1 DEF StackInv, Layered, n
    <3>2. CASE subs[i].f = f
      <4>1. subs[i].mark <= Sub.mark /\ subs[i].mark \in Marks
        BY <1>1, <1>2, <3>2 DEF StackInv, Layered, n
      <4>2. subs[i].mark <= v
        BY <1>2, <1>4, <4>1 DEF Marks
      <4> QED
        BY <1>1, <1>7, <3>1, <3>2, <4>2 DEF Above
    <3>3. CASE subs[i].f # f
      BY <1>1, <1>2, <1>7, <3>1, <3>3
    <3> QED
      BY <3>2, <3>3
  <2> QED
    BY <1>1, <2>1, <2>2 DEF Layered
<1> QED
  BY <1>6, <1>8, <1>9, <1>10, <1>11, <1>12, <1>13 DEF StackInv

LEMMA LeaveWithInv ==
  ASSUME StackInv, NEW r \in 0..1, LeaveWith(r)
  PROVE  StackInv'
<1> DEFINE f == Sub.f
<1>1. /\ InSub /\ ~OwnMark /\ Sub.mark + r < MaxStack
      /\ subs' = Front(subs) /\ calling' \in BOOLEAN /\ markPtr' = markPtr
  BY DEF LeaveWith
<1>2. CASE Sub.direct
  BY <1>1, <1>2, LeaveDirectInv DEF LeaveWith
<1>3. CASE ~Sub.direct
  BY <1>1, <1>3, DropInv DEF LeaveWith
<1> QED
  BY <1>2, <1>3

LEMMA CroakOutInv ==
  ASSUME StackInv, CroakOut
  PROVE  StackInv'
<1>1. /\ InSub /\ ~Sub.direct /\ subs' = Front(subs) /\ calling' \in BOOLEAN
      /\ Drop(Sub.f) /\ markPtr' = markPtr
  BY DEF CroakOut
<1> QED
  BY <1>1, DropInv

LEMMA StackStepInv ==
  ASSUME StackInv, [StackNext]_stackVars
  PROVE  StackInv'
<1>1. ASSUME NEW f \in StackFrames, NEW n \in 0..1, EnterXsub(f, n)
      PROVE  StackInv'
  BY <1>1, EnterXsubInv
<1>2. ASSUME NEW n \in 0..1, LeaveWith(n)
      PROVE  StackInv'
  BY <1>2, LeaveWithInv
<1>3. ASSUME NEW n \in 0..1, GuestReturns(n)
      PROVE  StackInv'
  BY <1>3, GuestReturnsInv
<1>4. CASE EnterDirect
  BY <1>4, EnterDirectInv
<1>5. CASE CroakOut
  BY <1>5, CroakOutInv
<1>6. CASE PushMark
  BY <1>6, PushMarkInv
<1>7. CASE PushArg
  BY <1>7, PushArgInv
<1>8. CASE Unpop
  BY <1>8, UnpopInv
<1>9. CASE CallSv
  BY <1>9, CallSvInv
<1>10. CASE EvalSv
  BY <1>10, EvalSvInv
<1>11. CASE UNCHANGED stackVars
  <2>1. /\ marks' = marks /\ markidx' = markidx /\ psp' = psp /\ markPtr' = markPtr
        /\ subs' = subs /\ calling' = calling /\ pushed' = pushed
    BY <1>11 DEF stackVars
  <2>2. StackTypes' /\ IdleEmpty' /\ MarksHeld' /\ MarksRise'
    BY <2>1 DEF StackInv, StackTypes, IdleEmpty, MarksHeld, MarksRise, Adopted
  <2>3. Unadopted' /\ SubsOnFrames' /\ Layered'
    BY <2>1 DEF StackInv, Unadopted, SubsOnFrames, Layered, InSub, OwnMark, Sub
  <2> QED
    BY <2>2, <2>3 DEF StackInv
<1> QED
  BY <1>1, <1>2, <1>3, <1>4, <1>5, <1>6, <1>7, <1>8, <1>9, <1>10, <1>11 DEF StackNext

\* What the XSUBs of a thread rely on, in every state they reach.
THEOREM StackInvariant == StackSpec => []StackInv
<1>1. StackInit => StackInv
  BY StackInit0
<1>2. StackInv /\ [StackNext]_stackVars => StackInv'
  BY StackStepInv
<1> QED
  BY <1>1, <1>2, PTL DEF StackSpec

\* The stacks and their tops stay within their arrays, and PL_markstack_ptr within the
\* marks of the frame it was published for (goperl_popmark never reads below index 0).
THEOREM StackTyped == StackSpec => []StackTypeOK
<1>1. StackInv => StackTypeOK
  <2> SUFFICES ASSUME StackInv PROVE StackTypeOK
    OBVIOUS
  <2>1. DOMAIN subs = 1..Len(subs)
    BY LenProperties DEF StackInv, StackTypes
  <2>2. \A f \in StackFrames :
          /\ markidx[f] \in (-1)..(MaxMarks - 1) /\ psp[f] \in 0..(MaxStack - 1)
          /\ \A i \in 0..(MaxMarks - 1) : marks[f][i] \in 0..(MaxStack - 1)
    BY DEF StackInv, StackTypes, Marks, Indices
  <2>3. /\ markPtr.owner \in StackFrames \cup {Nobody}
        /\ markPtr.idx \in (-1)..(MaxMarks - 1) /\ calling \in BOOLEAN
    BY DEF StackInv, StackTypes, Indices
  <2>4. \A i \in DOMAIN subs : subs[i].mark \in 0..(MaxStack - 1)
    BY <2>1, SubFacts DEF Marks
  <2> QED
    BY <2>2, <2>3, <2>4 DEF StackTypeOK
<1> QED
  BY <1>1, StackInvariant, PTL

\* goperl_marks_adopt and goperl_popmark: a mark operation of the running XSUB finds the
\* marks of its frame that were pushed and not popped, the latest on top, whatever nested
\* calls and assignments to PL_markstack_ptr came in between.
THEOREM MarksSurvive == StackSpec => []MarksAreThere
<1>1. StackInv => MarksAreThere
  <2> SUFFICES ASSUME StackInv, InSub PROVE MarksAreThere
    BY DEF MarksAreThere
  <2> DEFINE f == Sub.f
             top == Adopted(f, markidx[f])
             p == pushed[f]
  <2>1. f \in StackFrames /\ Holding(marks[f], top, p)
    BY OwnFacts DEF InSub
  <2>2. DOMAIN p = 1..Len(p)
    BY <2>1, SubFacts, LenProperties
  <2> QED
    BY <2>1, <2>2 DEF MarksAreThere, Holding
<1> QED
  BY <1>1, StackInvariant, PTL

\* The arguments of an XSUB that the guest calls begin at the bottom of a frame of its own,
\* those of one called by pointer above its caller's: neither overwrites the other's.
THEOREM ArgumentsNest == StackSpec => []ArgumentsAreNested
<1>1. StackInv => ArgumentsAreNested
  <2> SUFFICES ASSUME StackInv, NEW i \in 1..Len(subs)
               PROVE  /\ ~subs[i].direct => subs[i].mark = 0
                      /\ subs[i].direct => subs[i].mark >= subs[i - 1].mark
    BY LenProperties DEF ArgumentsAreNested, StackInv, StackTypes
  <2>1. ~subs[i].direct => subs[i].mark = 0
    BY DEF StackInv, SubsOnFrames
  <2>2. ASSUME subs[i].direct PROVE subs[i].mark >= subs[i - 1].mark
    <3>1. i > 1 /\ subs[i - 1].f = subs[i].f
      BY <2>2 DEF StackInv, SubsOnFrames
    <3>2. i - 1 \in 1..Len(subs) /\ i - 1 < i
      BY <3>1, SubFacts
    <3>3. subs[i - 1].mark <= subs[i].mark
      BY <3>1, <3>2 DEF StackInv, Layered
    <3>4. subs[i].mark \in Marks /\ subs[i - 1].mark \in Marks
      BY <3>2, SubFacts
    <3> QED
      BY <3>3, <3>4 DEF Marks
  <2> QED
    BY <2>1, <2>2
<1> QED
  BY <1>1, StackInvariant, PTL
===============================================================================
