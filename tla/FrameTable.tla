------------------------------ MODULE FrameTable ------------------------------
(***************************************************************************)
(* The table of current frames by thread (goperl_curframe_slot in          *)
(* xs/sdk/include/perl.h).  Instances run native code on several threads   *)
(* at once; the table lives in the block that every loaded shared object   *)
(* sees, and a thread finds the pointer to its own current frame there by  *)
(* open addressing.  The only synchronisation is the compare-and-swap with *)
(* which a thread claims a free slot; slots are never given back.          *)
(*                                                                         *)
(* What a thread keeps in its slot, and when, is module XsFrames.          *)
(***************************************************************************)
EXTENDS Integers

CONSTANTS
  Threads,          \* the values of pthread_self()
  Hash,             \* where each begins to look
  TableSize,        \* GOPERL_TFRAME_SLOTS
  Pointers,         \* frames a slot may point to
  NullPointer,      \* no native code runs on the thread
  Free              \* tid 0: the slot is nobody's

ASSUME TableAssumption ==
  /\ TableSize \in Nat \ {0}
  /\ Hash \in [Threads -> 0..(TableSize - 1)]
  /\ Free \notin Threads
  /\ NullPointer \in Pointers

VARIABLES
  owner,            \* e->tid of each slot
  current,          \* e->f of each slot
  at,               \* where each thread is in goperl_curframe_slot
  probe,            \* its loop counter i
  written           \* what it last stored as its current frame (to state OwnFrame)

tableVars == <<owner, current, at, probe, written>>

Positions == 0..(TableSize - 1)
Places == {"out", "look", "claim", "found", "abort"}

\* &tf[(h + i) % GOPERL_TFRAME_SLOTS], for h and i below the size
Around(h, i) == IF h + i < TableSize THEN h + i ELSE h + i - TableSize
Slot(t) == Around(Hash[t], probe[t])

TableInit ==
  /\ owner = [s \in Positions |-> Free]
  /\ current = [s \in Positions |-> NullPointer]
  /\ at = [t \in Threads |-> "out"]
  /\ probe = [t \in Threads |-> 0]
  /\ written = [t \in Threads |-> NullPointer]

Lookup(t) ==
  /\ at[t] = "out"
  /\ at' = [at EXCEPT ![t] = "look"]
  /\ probe' = [probe EXCEPT ![t] = 0]
  /\ UNCHANGED <<owner, current, written>>

\* To the next slot, or out of the loop: the table is full.
Advance(t) ==
  IF probe[t] + 1 < TableSize
  THEN /\ probe' = [probe EXCEPT ![t] = probe[t] + 1]
       /\ at' = [at EXCEPT ![t] = "look"]
  ELSE /\ at' = [at EXCEPT ![t] = "abort"]
       /\ UNCHANGED probe

Look(t) ==
  /\ at[t] = "look"
  /\ \/ /\ owner[Slot(t)] = t
        /\ at' = [at EXCEPT ![t] = "found"]
        /\ UNCHANGED probe
     \/ /\ owner[Slot(t)] = Free
        /\ at' = [at EXCEPT ![t] = "claim"]
        /\ UNCHANGED probe
     \/ /\ owner[Slot(t)] \notin {t, Free}
        /\ Advance(t)
  /\ UNCHANGED <<owner, current, written>>

\* mutant of Claim: the slot is taken without looking again
ClaimBlindly(t) ==
  /\ at[t] = "claim"
  /\ owner' = [owner EXCEPT ![Slot(t)] = t]
  /\ at' = [at EXCEPT ![t] = "found"]
  /\ UNCHANGED <<current, probe, written>>

\* mutant of Claim: a lost race ends the search
ClaimOnce(t) ==
  /\ at[t] = "claim"
  /\ \/ /\ owner[Slot(t)] = Free
        /\ owner' = [owner EXCEPT ![Slot(t)] = t]
        /\ at' = [at EXCEPT ![t] = "found"]
     \/ /\ owner[Slot(t)] # Free
        /\ at' = [at EXCEPT ![t] = "abort"]
        /\ UNCHANGED owner
  /\ UNCHANGED <<current, probe, written>>

\* The compare-and-swap: it fails when another thread was faster.
Claim(t) ==
  /\ at[t] = "claim"
  /\ \/ /\ owner[Slot(t)] \in {Free, t}
        /\ owner' = [owner EXCEPT ![Slot(t)] = t]
        /\ at' = [at EXCEPT ![t] = "found"]
        /\ UNCHANGED probe
     \/ /\ owner[Slot(t)] \notin {Free, t}
        /\ Advance(t)
        /\ UNCHANGED owner
  /\ UNCHANGED <<current, written>>

\* goperl_cur_frame_v as an lvalue: read, or assigned.
Read(t) ==
  /\ at[t] = "found"
  /\ at' = [at EXCEPT ![t] = "out"]
  /\ UNCHANGED <<owner, current, probe, written>>

Store(t, p) ==
  /\ at[t] = "found"
  /\ current' = [current EXCEPT ![Slot(t)] = p]
  /\ written' = [written EXCEPT ![t] = p]
  /\ at' = [at EXCEPT ![t] = "out"]
  /\ UNCHANGED <<owner, probe>>

TableNext ==
  \E t \in Threads :
    \/ Lookup(t) \/ Look(t) \/ Claim(t) \/ Read(t)
    \/ \E p \in Pointers : Store(t, p)

TableSpec == TableInit /\ [][TableNext]_tableVars
-------------------------------------------------------------------------------
(* Properties.                                                             *)

TableTypeOK ==
  /\ owner \in [Positions -> Threads \cup {Free}]
  /\ current \in [Positions -> Pointers]
  /\ at \in [Threads -> Places]
  /\ probe \in [Threads -> Positions]
  /\ written \in [Threads -> Pointers]

\* Every lookup of a thread, in whichever shared object it is compiled, finds what that
\* thread last stored, and no other thread's frame: races for slots cost nobody theirs.
OwnFrame ==
  \A t \in Threads :
    at[t] = "found" => owner[Slot(t)] = t /\ current[Slot(t)] = written[t]

\* The process is aborted only when the table has no slot for the thread.
AbortOnlyWhenFull ==
  \A t \in Threads :
    at[t] = "abort" => \A s \in Positions : owner[s] \notin {t, Free}
===============================================================================
