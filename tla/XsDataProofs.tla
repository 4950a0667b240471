------------------------------ MODULE XsDataProofs -----------------------------
(***************************************************************************)
(* Proofs about what the host has copies of: guest values (XsMirrors),     *)
(* layers of file handles (PerlioLayer) and OPs (XsOps), for any values of *)
(* the constants; and at the end, of the run in which they stand beside    *)
(* the parser (XsParser).                                                  *)
(*                                                                         *)
(* Copies: the invariant MirrorInv says that a flush would leave in every  *)
(* cell what was last assigned to it, whichever side assigned it           *)
(* (FlushIsRight), that while Perl code runs nothing is left to flush and  *)
(* no slot but those that last is in use (PerlAtRest), and that a slot     *)
(* that can be read without a fetch was fetched since Perl code last ran   *)
(* (SlotsFetched).  FlushIsRight is what makes the order of a flush and a  *)
(* fetch right at each boundary; the other two make sure that a flush      *)
(* takes nothing stale with it.                                            *)
(*                                                                         *)
(* Layers: LayerShape says which layers are being filled (those from the   *)
(* top of the handle down), that the window is where the host sees guest   *)
(* memory, and that shadows are those of the layers on the handle.         *)
(* TextIsCut cuts the text into what was received, what each layer has,    *)
(* and what the source has left; a layer has it in its buffer and kept     *)
(* back, or, while it is being filled, in guest memory.  Every step moves  *)
(* one cut, or moves a layer from one of these two forms to the other.     *)
(*                                                                         *)
(* OPs: Sound says how the lists of shadows fit the guest's OPs: one       *)
(* shadow of an address in the registry, none there of an OP that is gone, *)
(* and for a hooked OP its kept shadow, which no other can hide.           *)
(* FieldsSettled says that a field has in the guest what was wanted of it  *)
(* last, or is pending in a shadow that has it; CleanOutside that only     *)
(* keyword hooks have fields pending.  Where addresses are recycled, what  *)
(* these two and Sound say of old shadows and pending fields is dropped,   *)
(* and the rest is still inductive.  The operations are compositions of    *)
(* functions on the host's structures, so their proofs are too: a lemma    *)
(* for each function says that it keeps Sound and what it does to pending  *)
(* fields (OpShadowSound, PullSound, ShadowFullSound, RefreshSound,        *)
(* WrittenBackSound, ForgetSound), and an action cites those it composes.  *)
(***************************************************************************)
EXTENDS MCXsData, XsParserProofs

-------------------------------------------------------------------------------
(* Copies of guest values (XsMirrors).                                     *)

\* m has a value for each cell.
Row(m) == m = [c \in Cells |-> m[c]] /\ \A c \in Cells : m[c] \in CellDomain(c)

MirrorTypes ==
  /\ Row(guest) /\ Row(slot) /\ Row(shadow) /\ Row(meant)
  /\ live \subseteq Cells
  /\ lvalue \in Cells \cup {NoCell}
  /\ acts \in Seq({"xsub", "hook"})
  /\ phase \in {"perl", "native"}
  /\ phase = "native" => acts # << >>

Variables == {"var", "hook"}

\* What the guest will have after a flush is what was last assigned.
FlushIsRight == Flushed = meant

\* While Perl code runs nothing is pending, and of the slots only mirrors are in use.
PerlAtRest == phase = "perl" => PendingCells = {} /\ live = Lasting /\ lvalue = NoCell

\* A slot that is read or assigned without a fetch has the guest's value in its shadow.
SlotsFetched ==
  /\ lvalue # NoCell => lvalue \in live
  /\ \A c \in live : c[1] \notin Variables /\ (c[1] \in {"cur", "context"} \/ c = lvalue) =>
       shadow[c] = guest[c]
  /\ \A c \in live : c[1] = "context" => slot[c] = shadow[c]

MirrorInv == MirrorTypes /\ FlushIsRight /\ PerlAtRest /\ SlotsFetched

LEMMA DomainFacts ==
  ASSUME NEW c \in Cells, NEW v \in CellDomain(c)
  PROVE  /\ v = [i \in DOMAIN v |-> v[i]] /\ \A i \in DOMAIN v : v[i] \in Vals
         /\ [DOMAIN v -> Vals] \subseteq CellDomain(c)
<1>1. CASE c[1] = "av"
  <2>1. CellDomain(c) = UNION {[1..n -> Vals] : n \in 0..MaxLen}
    BY <1>1 DEF CellDomain
  <2>2. PICK n \in 0..MaxLen : v \in [1..n -> Vals]
    BY <2>1
  <2>3. DOMAIN v = 1..n /\ [1..n -> Vals] \subseteq CellDomain(c)
    BY <2>1, <2>2
  <2> QED
    BY <2>2, <2>3
<1>2. CASE c[1] # "av"
  BY <1>2 DEF CellDomain
<1> QED
  BY <1>1, <1>2

\* What goperl_flush makes of a cell.
LEMMA FlushFacts ==
  ASSUME MirrorTypes
  PROVE  /\ Row(Flushed)
         /\ \A c \in Cells : c \notin PendingCells => Flushed[c] = guest[c]
         /\ \A c \in live : c[1] \in Variables \/ shadow[c] = guest[c] => Flushed[c] = slot[c]
<1>1. ASSUME NEW c \in Cells
      PROVE  Merged(c) \in CellDomain(c)
  <2> DEFINE s == slot[c]
             g == guest[c]
  <2>1. s \in CellDomain(c) /\ g \in CellDomain(c)
    BY DEF MirrorTypes, Row
  <2>2. /\ \A i \in DOMAIN s : s[i] \in Vals
        /\ \A i \in DOMAIN g : g[i] \in Vals
        /\ [DOMAIN s -> Vals] \subseteq CellDomain(c)
    BY <2>1, DomainFacts
  <2>3. Merged(c) \in [DOMAIN s -> Vals]
    BY <2>2 DEF Merged
  <2> QED
    BY <2>2, <2>3
<1>2. ASSUME NEW c \in Cells, c[1] \in Variables \/ shadow[c] = guest[c]
      PROVE  Merged(c) = slot[c]
  <2>1. slot[c] = [i \in DOMAIN slot[c] |-> slot[c][i]]
    BY DomainFacts DEF MirrorTypes, Row
  <2>2. Merged(c) = [i \in DOMAIN slot[c] |-> slot[c][i]]
    BY <1>2 DEF Merged, Variables
  <2> QED
    BY <2>1, <2>2
<1>3. /\ \A c \in Cells : Flushed[c] = IF c \in PendingCells THEN Merged(c) ELSE guest[c]
      /\ Flushed = [c \in Cells |-> Flushed[c]]
  BY DEF Flushed
<1>4. Row(Flushed)
  BY <1>1, <1>3 DEF MirrorTypes, Row
<1>5. ASSUME NEW c \in live, c[1] \in Variables \/ shadow[c] = guest[c]
      PROVE  Flushed[c] = slot[c]
  <2>1. c \in Cells
    BY DEF MirrorTypes
  <2>2. CASE c \in PendingCells
    BY <1>2, <1>3, <1>5, <2>1, <2>2
  <2>3. CASE c \notin PendingCells
    <3>1. shadow[c] = guest[c] /\ slot[c] = shadow[c]
      BY <1>5, <2>3 DEF PendingCells, Variables
    <3> QED
      BY <1>3, <2>1, <2>3, <3>1
  <2> QED
    BY <2>2, <2>3
<1> QED
  BY <1>3, <1>4, <1>5

\* With nothing pending, a flush changes nothing.
LEMMA NothingPending ==
  ASSUME Row(guest)', PendingCells' = {}
  PROVE  Flushed' = guest'
<1>1. Flushed' = [c \in Cells |-> guest'[c]]
  BY DEF Flushed
<1> QED
  BY <1>1 DEF Row

\* An operation that fetches the cells of m and keeps the slots of kept.
LEMMA RefreshFacts ==
  ASSUME MirrorInv, NEW m \in SUBSET Cells, NEW kept, kept \in {{}, Cached},
         Refreshed(m, kept), \A c \in m : c[1] \notin Variables
  PROVE  /\ guest' = meant /\ Row(guest') /\ Row(slot') /\ Row(shadow')
         /\ live' = Lasting \cup m \cup kept /\ live' \subseteq Cells
         /\ PendingCells' = {}
         /\ \A c \in m : slot'[c] = meant[c] /\ shadow'[c] = guest'[c] /\ slot'[c] = shadow'[c]
         /\ \A c \in kept : slot'[c] = shadow'[c] /\ shadow'[c] = guest'[c]
<1>1. MirrorTypes /\ Flushed = meant /\ Row(Flushed)
  BY FlushFacts DEF MirrorInv, FlushIsRight
<1>2. /\ guest' = Flushed
      /\ live' = Lasting \cup m \cup kept
      /\ slot' = [c \in Cells |-> IF c \in m THEN Flushed[c] ELSE slot[c]]
      /\ shadow' = [c \in Cells |-> IF c \in m THEN Flushed[c]
                                    ELSE IF c \in PendingCells THEN slot[c] ELSE shadow[c]]
  BY DEF Refreshed, Settled
<1>3. \A c \in kept : /\ c \in live /\ c \in Cells /\ c[1] = "context"
                      /\ slot[c] = shadow[c] /\ shadow[c] = guest[c]
                      /\ c \notin PendingCells
  BY <1>1 DEF Cached, MirrorInv, SlotsFetched, MirrorTypes, PendingCells, Variables
<1>4. \A c \in kept : Flushed[c] = guest[c]
  BY <1>1, <1>3, FlushFacts
<1>5. Row(slot') /\ Row(shadow')
  BY <1>1, <1>2 DEF MirrorTypes, Row
<1>6. live' \subseteq Cells
  BY <1>1, <1>2, <1>3 DEF MirrorTypes, Lasting
<1>7. \A c \in live' : c[1] \notin Variables /\ slot'[c] = shadow'[c]
  <2> SUFFICES ASSUME NEW c \in live' PROVE c[1] \notin Variables /\ slot'[c] = shadow'[c]
    OBVIOUS
  <2>1. c \in Cells
    BY <1>6
  <2>2. CASE c \in m
    BY <1>2, <2>1, <2>2
  <2>3. CASE c \in kept /\ c \notin m
    BY <1>2, <1>3, <2>1, <2>3 DEF Variables
  <2>4. CASE c \in Lasting /\ c \notin m
    <3>1. c \in live /\ c[1] \notin Variables
      BY <2>4 DEF Lasting, Variables
    <3>2. c \notin PendingCells => slot[c] = shadow[c]
      BY <3>1 DEF PendingCells
    <3> QED
      BY <1>2, <2>1, <2>4, <3>1, <3>2
  <2> QED
    BY <1>2, <2>2, <2>3, <2>4
<1>8. PendingCells' = {}
  BY <1>7 DEF PendingCells, Variables
<1>9. \A c \in kept : slot'[c] = shadow'[c] /\ shadow'[c] = guest'[c]
  BY <1>2, <1>3, <1>4
<1> QED
  BY <1>1, <1>2, <1>5, <1>6, <1>8, <1>9

\* The operation is over, with the cell of lvalue' fetched or none.
LEMMA Fetched ==
  ASSUME MirrorInv, NEW m \in SUBSET Cells, NEW kept, kept \in {{}, Cached},
         Refreshed(m, kept), \A c \in m : c[1] \notin Variables,
         lvalue' = NoCell \/ lvalue' \in m, meant' = meant,
         acts' = acts, phase' \in {"perl", "native"},
         phase' = "perl" => m = {} /\ kept = {} /\ lvalue' = NoCell,
         phase' = "native" => phase = "native"
  PROVE  MirrorInv'
<1>1. /\ guest' = meant /\ Row(guest') /\ Row(slot') /\ Row(shadow')
      /\ live' = Lasting \cup m \cup kept /\ live' \subseteq Cells
      /\ PendingCells' = {}
      /\ \A c \in m : slot'[c] = meant[c] /\ shadow'[c] = guest'[c] /\ slot'[c] = shadow'[c]
      /\ \A c \in kept : slot'[c] = shadow'[c] /\ shadow'[c] = guest'[c]
  BY RefreshFacts
<1>2. Flushed' = guest'
  BY <1>1, NothingPending
<1>3. MirrorTypes'
  BY <1>1 DEF MirrorInv, MirrorTypes
<1>4. \A c \in Lasting : c[1] \in {"iv", "av", "hints"}
  BY DEF Lasting
<1>5. SlotsFetched'
  <2>1. lvalue' # NoCell => lvalue' \in live'
    BY <1>1
  <2>2. ASSUME NEW c \in live', c[1] \in {"cur", "context"} \/ c = lvalue'
        PROVE  c \in m \/ c \in kept
    BY <1>1, <1>4, <2>2, MirrorAssumption
  <2>3. ASSUME NEW c \in live', c[1] \in {"cur", "context"} \/ c = lvalue'
        PROVE  shadow'[c] = guest'[c]
    BY <1>1, <2>2, <2>3
  <2>4. ASSUME NEW c \in live', c[1] = "context"
        PROVE  slot'[c] = shadow'[c]
    BY <1>1, <2>2, <2>4
  <2> QED
    BY <2>1, <2>3, <2>4 DEF SlotsFetched
<1>6. PerlAtRest'
  <2>1. phase' = "perl" => live' = Lasting
    BY <1>1
  <2>2. phase' = "perl" => Lasting' = live'
    BY <1>1, <1>4, <2>1 DEF Lasting
  <2> QED
    BY <1>1, <2>1, <2>2 DEF PerlAtRest
<1> QED
  BY <1>1, <1>2, <1>3, <1>5, <1>6 DEF MirrorInv, FlushIsRight

LEMMA FetchInv ==
  ASSUME MirrorInv, NEW c \in Cells,
         FetchMirror(c) \/ FetchHints(c) \/ ((FetchCur(c) \/ FetchContext(c)) /\ c \notin live)
  PROVE  MirrorInv'
<1>1. PICK kept \in {{}, Cached} : Refreshed({c}, kept)
  BY DEF FetchMirror, FetchHints, FetchCur, FetchContext
<1>2. /\ c[1] \notin Variables /\ lvalue' = c /\ meant' = meant /\ acts' = acts
      /\ phase' = "native" /\ phase = "native"
  BY DEF FetchMirror, FetchHints, FetchCur, FetchContext, Native, Variables
<1>3. {c} \in SUBSET Cells /\ c \in {c} /\ \A d \in {c} : d[1] \notin Variables
  BY <1>2
<1> HIDE DEF Variables
<1> QED
  BY <1>1, <1>2, <1>3, Fetched

\* SvCUR or PL_curstackinfo of the slot that is in use: nothing is fetched.
LEMMA FoundInv ==
  ASSUME MirrorInv, NEW c \in live, FetchCur(c) \/ FetchContext(c)
  PROVE  MirrorInv'
<1>1. /\ guest' = guest /\ slot' = slot /\ shadow' = shadow /\ live' = live /\ lvalue' = c
      /\ acts' = acts /\ phase' = phase /\ meant' = meant /\ phase = "native"
      /\ c[1] \in {"cur", "context"}
  BY DEF FetchCur, FetchContext, Refreshed, Settled, Native
<1>2. c \in Cells
  BY DEF MirrorInv, MirrorTypes
<1>3. Flushed' = Flushed
  BY <1>1 DEF Flushed, PendingCells, Merged
<1>4. MirrorTypes' /\ PerlAtRest'
  BY <1>1, <1>2 DEF MirrorInv, MirrorTypes, PerlAtRest
<1>5. SlotsFetched'
  BY <1>1, <1>2 DEF MirrorInv, SlotsFetched
<1> QED
  BY <1>1, <1>3, <1>4, <1>5 DEF MirrorInv, FlushIsRight

LEMMA FetchVarInv ==
  ASSUME MirrorInv, NEW c \in Cells, FetchVar(c)
  PROVE  MirrorInv'
<1>1. /\ guest' = guest /\ shadow' = shadow /\ live' = live \cup {c} /\ lvalue' = c
      /\ slot' = IF c \in live THEN slot ELSE [slot EXCEPT ![c] = guest[c]]
      /\ acts' = acts /\ phase' = phase /\ meant' = meant /\ phase = "native"
      /\ c[1] \in Variables
  BY DEF FetchVar, Native, Variables
<1>2. /\ Row(slot') /\ \A d \in Cells : d # c => slot'[d] = slot[d]
      /\ c \notin live => slot'[c] = guest[c]
      /\ c \in live => slot' = slot
  BY <1>1 DEF MirrorInv, MirrorTypes, Row
<1>3. MirrorTypes'
  BY <1>1, <1>2 DEF MirrorInv, MirrorTypes
<1>4. ASSUME NEW d \in Cells, d # c
      PROVE  Flushed'[d] = Flushed[d]
  <2>1. slot'[d] = slot[d] /\ (d \in live' <=> d \in live)
    BY <1>1, <1>2, <1>4
  <2>2. d \in PendingCells' <=> d \in PendingCells
    BY <1>1, <2>1 DEF PendingCells
  <2>3. Merged(d)' = Merged(d)
    BY <1>1, <2>1 DEF Merged
  <2> QED
    BY <1>1, <2>2, <2>3 DEF Flushed
<1>5. Flushed'[c] = Flushed[c]
  <2>1. c \in live' /\ c \in PendingCells'
    BY <1>1 DEF PendingCells, Variables
  <2>2. slot'[c] = [i \in DOMAIN slot'[c] |-> slot'[c][i]]
    BY <1>2, DomainFacts DEF Row
  <2>3. Flushed'[c] = slot'[c]
    BY <1>1, <2>1, <2>2 DEF Flushed, Merged, Variables
  <2>4. CASE c \in live
    BY <1>1, <1>2, <2>3, <2>4, FlushFacts DEF MirrorInv
  <2>5. CASE c \notin live
    <3>1. c \notin PendingCells
      BY <2>5 DEF PendingCells
    <3> QED
      BY <1>2, <2>3, <2>5, <3>1, FlushFacts DEF MirrorInv
  <2> QED
    BY <2>4, <2>5
<1>6. Flushed' = Flushed
  <2>1. Flushed' = [d \in Cells |-> Flushed'[d]] /\ Flushed = [d \in Cells |-> Flushed[d]]
    BY DEF Flushed
  <2> QED
    BY <1>4, <1>5, <2>1
<1>7. PerlAtRest'
  BY <1>1 DEF PerlAtRest
<1>8. SlotsFetched'
  <2>1. \A d \in live' : d[1] \notin Variables => d \in live /\ d # c /\ slot'[d] = slot[d]
    BY <1>1, <1>2 DEF MirrorInv, MirrorTypes
  <2> QED
    BY <1>1, <2>1 DEF MirrorInv, SlotsFetched, Variables
<1> QED
  BY <1>1, <1>3, <1>6, <1>7, <1>8 DEF MirrorInv, FlushIsRight

LEMMA AssignCellInv ==
  ASSUME MirrorInv, NEW v, AssignCell(v), NEW c, c = lvalue
  PROVE  MirrorInv'
<1>1. /\ c # NoCell /\ c[1] # "context" /\ v \in CellDomain(c)
      /\ slot' = [slot EXCEPT ![c] = v] /\ meant' = [meant EXCEPT ![c] = v]
      /\ guest' = guest /\ shadow' = shadow /\ live' = live /\ lvalue' = lvalue
      /\ acts' = acts /\ phase' = phase /\ phase = "native"
  BY DEF AssignCell, Native
<1>2. c \in live /\ c \in Cells
  BY <1>1 DEF MirrorInv, SlotsFetched, MirrorTypes
<1>3. /\ Row(slot') /\ slot'[c] = v /\ \A d \in Cells : d # c => slot'[d] = slot[d]
      /\ Row(meant') /\ meant'[c] = v /\ \A d \in Cells : d # c => meant'[d] = meant[d]
  BY <1>1, <1>2 DEF MirrorInv, MirrorTypes, Row
<1>4. MirrorTypes'
  BY <1>1, <1>3 DEF MirrorInv, MirrorTypes
<1>5. ASSUME NEW d \in Cells, d # c
      PROVE  Flushed'[d] = Flushed[d]
  <2>1. slot'[d] = slot[d]
    BY <1>3, <1>5
  <2>2. d \in PendingCells' <=> d \in PendingCells
    BY <1>1, <2>1 DEF PendingCells
  <2>3. Merged(d)' = Merged(d)
    BY <1>1, <2>1 DEF Merged
  <2> QED
    BY <1>1, <2>2, <2>3 DEF Flushed
<1>6. Flushed'[c] = v
  <2>1. v = [i \in DOMAIN v |-> v[i]]
    BY <1>1, <1>2, DomainFacts
  <2>2. c[1] \in Variables \/ shadow[c] = guest[c]
    BY <1>2 DEF MirrorInv, SlotsFetched
  <2>3. Merged(c)' = [i \in DOMAIN v |-> v[i]]
    BY <1>1, <1>3, <2>2 DEF Merged, Variables
  <2>4. CASE c \in PendingCells'
    BY <1>2, <2>1, <2>3, <2>4 DEF Flushed
  <2>5. CASE c \notin PendingCells'
    <3>1. v = shadow[c] /\ c[1] \notin Variables
      BY <1>1, <1>2, <1>3, <2>5 DEF PendingCells, Variables
    <3>2. Flushed'[c] = guest[c]
      BY <1>1, <1>2, <2>5 DEF Flushed
    <3> QED
      BY <2>2, <3>1, <3>2
  <2> QED
    BY <2>4, <2>5
<1>7. Flushed' = meant'
  <2>1. Flushed' = [d \in Cells |-> Flushed'[d]] /\ meant' = [d \in Cells |-> meant'[d]]
    BY <1>3 DEF Flushed, Row
  <2>2. \A d \in Cells : Flushed'[d] = meant'[d]
    BY <1>3, <1>5, <1>6 DEF MirrorInv, FlushIsRight
  <2> QED
    BY <2>1, <2>2
<1>8. PerlAtRest'
  BY <1>1 DEF PerlAtRest
<1>9. SlotsFetched'
  <2>1. \A d \in live : d[1] = "context" => slot'[d] = slot[d]
    BY <1>1, <1>3 DEF MirrorInv, MirrorTypes
  <2> QED
    BY <1>1, <2>1 DEF MirrorInv, SlotsFetched
<1> QED
  BY <1>4, <1>7, <1>8, <1>9 DEF MirrorInv, FlushIsRight

LEMMA OperationInv ==
  ASSUME MirrorInv, Untouched({}) \/ Untouched(Cached) \/ GuestOp
  PROVE  MirrorInv'
<1>1. PICK kept \in {{}, Cached} : Refreshed({}, kept) /\ (phase' = "perl" => kept = {})
  BY DEF Untouched, GuestOp, Native
<1>2. /\ lvalue' = NoCell /\ meant' = meant /\ acts' = acts
      /\ phase' \in {"perl", "native"} /\ phase = "native"
  BY DEF Untouched, GuestOp, Native
<1>3. {} \in SUBSET Cells /\ \A d \in {} : d[1] \notin Variables
  OBVIOUS
<1> QED
  BY <1>1, <1>2, <1>3, Fetched

LEMMA ReturnsInv ==
  ASSUME MirrorInv, GuestOpReturn \/ (\E kind \in {"xsub", "hook"} : EnterNative(kind))
  PROVE  MirrorInv'
<1>1. /\ guest' = guest /\ slot' = slot /\ shadow' = shadow /\ live' = live
      /\ lvalue' = lvalue /\ meant' = meant /\ phase = "perl" /\ phase' = "native"
  BY DEF GuestOpReturn, EnterNative
<1>2. acts' \in Seq({"xsub", "hook"}) /\ acts' # << >>
  <2>1. CASE GuestOpReturn
    BY <2>1 DEF GuestOpReturn, MirrorInv, MirrorTypes
  <2>2. CASE \E kind \in {"xsub", "hook"} : EnterNative(kind)
    BY <2>2, AppendProperties DEF EnterNative, MirrorInv, MirrorTypes
  <2> QED
    BY <2>1, <2>2
<1>3. Flushed' = Flushed
  BY <1>1 DEF Flushed, PendingCells, Merged
<1>4. MirrorTypes'
  BY <1>1, <1>2 DEF MirrorInv, MirrorTypes
<1>5. PerlAtRest' /\ SlotsFetched'
  BY <1>1 DEF MirrorInv, PerlAtRest, SlotsFetched
<1> QED
  BY <1>1, <1>3, <1>4, <1>5 DEF MirrorInv, FlushIsRight

\* The slots are written back and none is fetched.
LEMMA WrittenBackSlots ==
  ASSUME MirrorInv, slot' = slot, live' \subseteq Lasting,
         shadow' = [c \in Cells |-> IF c \in PendingCells THEN slot[c] ELSE shadow[c]]
  PROVE  /\ Row(shadow') /\ live' \subseteq Cells /\ PendingCells' = {} /\ Lasting' = live'
         /\ \A c \in live' : c[1] \in {"iv", "av", "hints"}
<1>1. \A c \in Lasting : c \in live /\ c \in Cells /\ c[1] \in {"iv", "av", "hints"}
  BY DEF Lasting, MirrorInv, MirrorTypes
<1>2. Row(shadow')
  BY DEF MirrorInv, MirrorTypes, Row
<1>3. \A c \in live' : c[1] \notin {"var", "hook"} /\ slot'[c] = shadow'[c]
  <2>1. \A c \in Lasting : c \notin PendingCells => slot[c] = shadow[c]
    BY <1>1 DEF PendingCells
  <2> QED
    BY <1>1, <2>1
<1>4. PendingCells' = {}
  BY <1>3 DEF PendingCells
<1>5. Lasting' = live'
  BY <1>1 DEF Lasting
<1> QED
  BY <1>1, <1>2, <1>4, <1>5

LEMMA SetInv ==
  ASSUME MirrorInv, NEW c \in Cells, NEW v \in CellDomain(c), SetScalar(c, v) \/ SetArray(c, v)
  PROVE  MirrorInv'
<1>1. /\ guest' = [Flushed EXCEPT ![c] = v] /\ meant' = [meant EXCEPT ![c] = v]
      /\ live' = Lasting /\ slot' = slot /\ lvalue' = NoCell
      /\ shadow' = [d \in Cells |-> IF d \in PendingCells THEN slot[d] ELSE shadow[d]]
      /\ acts' = acts /\ phase' = phase /\ phase = "native"
  BY DEF SetScalar, SetArray, Replaced, Native
<1>2. /\ Row(shadow') /\ live' \subseteq Cells /\ PendingCells' = {}
      /\ \A d \in live' : d[1] \in {"iv", "av", "hints"}
  BY <1>1, WrittenBackSlots
<1>3. guest' = meant' /\ Row(guest') /\ Row(meant')
  BY <1>1 DEF MirrorInv, MirrorTypes, FlushIsRight, Row
<1>4. Flushed' = guest'
  BY <1>2, <1>3, NothingPending
<1>5. MirrorTypes'
  BY <1>1, <1>2, <1>3 DEF MirrorInv, MirrorTypes
<1>6. PerlAtRest' /\ SlotsFetched'
  BY <1>1, <1>2, MirrorAssumption DEF PerlAtRest, SlotsFetched
<1> QED
  BY <1>3, <1>4, <1>5, <1>6 DEF MirrorInv, FlushIsRight

LEMMA GuestWriteInv ==
  ASSUME MirrorInv, NEW c \in Cells, NEW v \in CellDomain(c), GuestWrite(c, v)
  PROVE  MirrorInv'
<1>1. /\ guest' = [guest EXCEPT ![c] = v] /\ meant' = [meant EXCEPT ![c] = v]
      /\ slot' = slot /\ shadow' = shadow /\ live' = live /\ lvalue' = lvalue
      /\ acts' = acts /\ phase' = phase /\ phase = "perl"
  BY DEF GuestWrite
<1>2. PendingCells = {} /\ live = Lasting /\ lvalue = NoCell
  BY <1>1 DEF MirrorInv, PerlAtRest
<1>3. guest = meant
  <2>1. Flushed = [d \in Cells |-> guest[d]]
    BY <1>2 DEF Flushed
  <2> QED
    BY <2>1 DEF MirrorInv, MirrorTypes, FlushIsRight, Row
<1>4. PendingCells' = {} /\ Lasting' = live'
  BY <1>1, <1>2 DEF PendingCells, Lasting
<1>5. guest' = meant' /\ Row(guest') /\ Row(meant')
  BY <1>1, <1>3 DEF MirrorInv, MirrorTypes, Row
<1>6. Flushed' = guest'
  BY <1>4, <1>5, NothingPending
<1>7. MirrorTypes'
  BY <1>1, <1>5 DEF MirrorInv, MirrorTypes
<1>8. \A d \in live' : d[1] \in {"iv", "av", "hints"} /\ d \in Cells
  BY <1>1, <1>2 DEF Lasting, MirrorInv, MirrorTypes
<1>9. PerlAtRest' /\ SlotsFetched'
  BY <1>1, <1>2, <1>4, <1>8, MirrorAssumption DEF PerlAtRest, SlotsFetched
<1> QED
  BY <1>5, <1>6, <1>7, <1>9 DEF MirrorInv, FlushIsRight

LEMMA OuterActsTyped ==
  ASSUME MirrorInv, acts # << >>
  PROVE  OuterActs \in Seq({"xsub", "hook"})
<1>1. Len(acts) \in Nat /\ Len(acts) > 0 /\ \A i \in 1..Len(acts) : acts[i] \in {"xsub", "hook"}
  BY LenProperties, EmptySeq, ElementOfSeq DEF MirrorInv, MirrorTypes
<1>2. \A i \in 1..(Len(acts) - 1) : acts[i] \in {"xsub", "hook"}
  BY <1>1
<1> QED
  BY <1>1, <1>2, SubSeqProperties DEF OuterActs

LEMMA LeaveInv ==
  ASSUME MirrorInv, LeaveXsub \/ LeaveHook
  PROVE  MirrorInv'
<1>1. /\ phase = "native" /\ acts' = OuterActs /\ phase' = "perl" /\ lvalue' = NoCell
      /\ slot' = slot /\ meant' = meant
  BY DEF LeaveXsub, LeaveHook, Native
<1>2. acts' \in Seq({"xsub", "hook"})
  BY <1>1, OuterActsTyped DEF MirrorInv, MirrorTypes
<1>3. /\ guest' = Flushed /\ live' \subseteq Lasting
      /\ shadow' = [c \in Cells |-> IF c \in PendingCells THEN slot[c] ELSE shadow[c]]
  <2>1. CASE LeaveXsub
    BY <2>1 DEF LeaveXsub
  <2>2. CASE LeaveHook
    <3>1. PendingCells = {} /\ live = Lasting /\ guest' = guest /\ shadow' = shadow /\ live' = live
      BY <2>2 DEF LeaveHook
    <3>2. guest = [c \in Cells |-> guest[c]] /\ shadow = [c \in Cells |-> shadow[c]]
      BY DEF MirrorInv, MirrorTypes, Row
    <3> QED
      BY <3>1, <3>2 DEF Flushed
  <2> QED
    BY <2>1, <2>2
<1>4. /\ Row(shadow') /\ live' \subseteq Cells /\ PendingCells' = {} /\ Lasting' = live'
      /\ \A d \in live' : d[1] \in {"iv", "av", "hints"}
  BY <1>1, <1>3, WrittenBackSlots
<1>5. guest' = meant' /\ Row(guest')
  BY <1>1, <1>3, FlushFacts DEF MirrorInv, FlushIsRight
<1>6. Flushed' = guest'
  BY <1>4, <1>5, NothingPending
<1>7. MirrorTypes'
  BY <1>1, <1>2, <1>4, <1>5 DEF MirrorInv, MirrorTypes
<1>8. PerlAtRest' /\ SlotsFetched'
  BY <1>1, <1>4, MirrorAssumption DEF PerlAtRest, SlotsFetched
<1> QED
  BY <1>5, <1>6, <1>7, <1>8 DEF MirrorInv, FlushIsRight

LEMMA MirrorInitInv == MirrorInit => MirrorInv
<1> SUFFICES ASSUME MirrorInit PROVE MirrorInv
  OBVIOUS
<1>1. /\ guest \in [Cells -> [1..1 -> Vals]]
      /\ slot = guest /\ shadow = guest /\ meant = guest
      /\ live = {} /\ lvalue = NoCell /\ acts = << >> /\ phase = "perl"
  BY DEF MirrorInit
<1>2. ASSUME NEW c \in Cells PROVE [1..1 -> Vals] \subseteq CellDomain(c)
  <2>1. 1 \in 0..MaxLen
    BY MirrorAssumption
  <2>2. [1..1 -> Vals] \subseteq UNION {[1..n -> Vals] : n \in 0..MaxLen}
    BY <2>1, Zenon
  <2> QED
    BY <2>2 DEF CellDomain
<1>3. Row(guest)
  BY <1>1, <1>2 DEF Row
<1>4. << >> \in Seq({"xsub", "hook"})
  BY EmptySeq
<1>5. MirrorTypes
  BY <1>1, <1>3, <1>4 DEF MirrorTypes
<1>6. PendingCells = {} /\ Lasting = {}
  BY <1>1 DEF PendingCells, Lasting
<1>7. Flushed = meant
  <2>1. Flushed = [c \in Cells |-> guest[c]]
    BY <1>6 DEF Flushed
  <2> QED
    BY <1>1, <1>3, <2>1 DEF Row
<1>8. PerlAtRest /\ SlotsFetched
  BY <1>1, <1>6 DEF PerlAtRest, SlotsFetched
<1> QED
  BY <1>5, <1>7, <1>8 DEF MirrorInv, FlushIsRight

LEMMA MirrorStepInv ==
  ASSUME MirrorInv, [MirrorNext]_mirrorVars
  PROVE  MirrorInv'
<1>1. ASSUME NEW c \in Cells, FetchMirror(c) \/ FetchHints(c)
      PROVE  MirrorInv'
  BY <1>1, FetchInv
<1>2. ASSUME NEW c \in Cells, FetchCur(c) \/ FetchContext(c)
      PROVE  MirrorInv'
  BY <1>2, FetchInv, FoundInv
<1>3. ASSUME NEW c \in Cells, FetchVar(c)
      PROVE  MirrorInv'
  BY <1>3, FetchVarInv
<1>4. ASSUME NEW v \in CellDomain(lvalue), AssignCell(v)
      PROVE  MirrorInv'
  BY <1>4, AssignCellInv
<1>5. CASE NewValue \/ ReadValue \/ Inspect \/ LookUp \/ GuestOp
  BY <1>5, OperationInv DEF NewValue, ReadValue, Inspect, LookUp
<1>6. CASE GuestOpReturn \/ \E kind \in {"xsub", "hook"} : EnterNative(kind)
  BY <1>6, ReturnsInv
<1>7. ASSUME NEW c \in Cells, NEW v \in CellDomain(c), SetScalar(c, v) \/ SetArray(c, v)
      PROVE  MirrorInv'
  BY <1>7, SetInv
<1>8. ASSUME NEW c \in Cells, NEW v \in CellDomain(c), GuestWrite(c, v)
      PROVE  MirrorInv'
  BY <1>8, GuestWriteInv
<1>9. CASE LeaveXsub \/ LeaveHook
  BY <1>9, LeaveInv
<1>10. CASE UNCHANGED mirrorVars
  <2>1. /\ guest' = guest /\ slot' = slot /\ shadow' = shadow /\ live' = live
        /\ lvalue' = lvalue /\ acts' = acts /\ phase' = phase /\ meant' = meant
    BY <1>10 DEF mirrorVars
  <2>2. Flushed' = Flushed /\ PendingCells' = PendingCells /\ Lasting' = Lasting
    BY <2>1 DEF Flushed, PendingCells, Merged, Lasting
  <2> QED
    BY <2>1, <2>2
    DEF MirrorInv, MirrorTypes, Row, FlushIsRight, PerlAtRest, SlotsFetched
<1> QED
  BY <1>1, <1>2, <1>3, <1>4, <1>5, <1>6, <1>7, <1>8, <1>9, <1>10 DEF MirrorNext

THEOREM MirrorInvariant == MirrorSpec => []MirrorInv
<1>1. MirrorInit => MirrorInv
  BY MirrorInitInv
<1>2. MirrorInv /\ [MirrorNext]_mirrorVars => MirrorInv'
  BY MirrorStepInv
<1> QED
  BY <1>1, <1>2, PTL DEF MirrorSpec

\* Cells, their slots and shadows hold what cells of their kind may hold, and native code
\* runs only in an activation.
THEOREM MirrorsTyped == MirrorSpec => []MirrorTypeOK
<1>1. MirrorInv => MirrorTypeOK
  <2> SUFFICES ASSUME MirrorInv PROVE MirrorTypeOK
    OBVIOUS
  <2>1. \A m \in {guest, slot, shadow, meant} : Row(m)
    BY DEF MirrorInv, MirrorTypes
  <2>2. \A m \in {guest, slot, shadow, meant} :
          DOMAIN m = Cells /\ \A c \in Cells : m[c] \in CellDomain(c)
    BY <2>1 DEF Row
  <2>3. \A i \in DOMAIN acts : acts[i] \in {"xsub", "hook"}
    BY LenProperties, ElementOfSeq DEF MirrorInv, MirrorTypes
  <2> QED
    BY <2>2, <2>3 DEF MirrorInv, MirrorTypes, MirrorTypeOK
<1> QED
  BY <1>1, MirrorInvariant, PTL

\* goperl_flush: for any cells, values and nesting of activations, and through all the kinds
\* of slots, Perl code finds in every cell what was last assigned to it by either side.
THEOREM WritesReachPerl == MirrorSpec => []PerlSeesWrites
<1>1. MirrorInv => PerlSeesWrites
  <2> SUFFICES ASSUME MirrorInv, phase = "perl" PROVE guest = meant
    BY DEF PerlSeesWrites
  <2>1. Flushed = [c \in Cells |-> guest[c]]
    BY DEF MirrorInv, PerlAtRest, Flushed
  <2> QED
    BY <2>1 DEF MirrorInv, MirrorTypes, FlushIsRight, Row
<1> QED
  BY <1>1, MirrorInvariant, PTL

\* SvIVX, SvCUR, AvARRAY, PL_hints, PL_curstackinfo, PL_diehook and the others: the slot that
\* a macro gives out holds what was last assigned to the cell.
THEOREM SlotsAreCurrent == MirrorSpec => []ReadsAreCurrent
<1>1. MirrorInv => ReadsAreCurrent
  <2> SUFFICES ASSUME MirrorInv, lvalue # NoCell PROVE slot[lvalue] = meant[lvalue]
    BY DEF ReadsAreCurrent
  <2>1. lvalue \in live /\ (lvalue[1] \in Variables \/ shadow[lvalue] = guest[lvalue])
    BY DEF MirrorInv, SlotsFetched
  <2>2. Flushed[lvalue] = slot[lvalue]
    BY <2>1, FlushFacts DEF MirrorInv
  <2> QED
    BY <2>2 DEF MirrorInv, FlushIsRight
<1> QED
  BY <1>1, MirrorInvariant, PTL

-------------------------------------------------------------------------------
(* Layers of file handles (PerlioLayer).                                   *)

Memory == UNION {Cell(l) : l \in Ltoks}
Iols == [tab : Tabs \cup {NoLayer}, kept : Seq(Nat)]
Fills == [l : Ltoks, buf : Nat, count : 0..BufLen]

LayerTypes ==
  /\ defined \subseteq Tabs
  /\ handle \in Seq(Ltoks)
  /\ layerTab \in [Ltoks -> Tabs \cup {NoLayer}]
  /\ buffered \in [Ltoks -> Seq(Nat)]
  /\ atEnd \in [Ltoks -> BOOLEAN]
  /\ source \in Seq(Nat) /\ received \in Seq(Nat)
  /\ bytes \in [Memory -> Nat]
  /\ iols \in [Ltoks -> Iols]
  /\ window \in [g : Nat, h : Nat]
  /\ filling \in Seq(Fills)
  /\ failed \in BOOLEAN
  /\ \A l \in Ltoks : Len(buffered[l]) <= BufLen /\ Len(iols[l].kept) <= 1

\* A layer is on the handle once.
Stacked == \A i, k \in 1..Len(handle) : handle[i] = handle[k] => i = k

OnHandle(l) == \E i \in 1..Len(handle) : handle[i] = l
ShadowsFit == \A l \in Ltoks :
  /\ OnHandle(l) => layerTab[l] \in Tabs /\ iols[l].tab = layerTab[l]
  /\ ~OnHandle(l) => iols[l] = NoIol /\ buffered[l] = << >>

\* The layers that are being filled are those from the top down, and the host sees guest
\* memory where it is.
FillsFromTop ==
  /\ Len(filling) <= Len(handle)
  /\ filling # << >> => window.h = HostBase + window.g
  /\ \A j \in 1..Len(filling) :
       /\ filling[j].l = handle[Len(handle) + 1 - j]
       /\ filling[j].buf = HostBase + BufAt[filling[j].l]
       /\ buffered[filling[j].l] = << >> /\ iols[filling[j].l].kept = << >>

LayerShape == LayerTypes /\ Stacked /\ ShadowsFit /\ FillsFromTop

\* Sequence s is the text from the unit after a to b.
Carries(s, a, b) == Len(s) = b - a /\ \A k \in 1..Len(s) : s[k] = a + k

\* The same of a layer at rest, and of the buffer that the j-th Fill has filled so far.
Rests(l, a, b) ==
  /\ Carries(buffered[l], a, a + Len(buffered[l]))
  /\ Carries(iols[l].kept, a + Len(buffered[l]), b)
Filled(j, a, b) ==
  /\ filling[j].count = b - a
  /\ \A k \in 1..filling[j].count : bytes[BufAt[filling[j].l] + k - 1] = a + k

CutsText(cut) ==
  /\ cut \in [0..Len(handle) -> 0..TextLen]
  /\ Carries(source, cut[0], TextLen) /\ Carries(received, 0, cut[Len(handle)])
  /\ \A j \in 1..Len(filling) : Filled(j, cut[Len(handle) + 1 - j], cut[Len(handle) - j])
  /\ \A i \in 1..(Len(handle) - Len(filling)) : Rests(handle[i], cut[i], cut[i - 1])

TextIsCut == ~failed => \E cut : CutsText(cut)

\* Units s go to the buffer of l after the first n; these, and all other buffers, keep theirs.
Written(l, n, s) ==
  /\ \A k \in 1..n : bytes'[BufAt[l] + k - 1] = bytes[BufAt[l] + k - 1]
  /\ \A k \in 1..Len(s) : bytes'[BufAt[l] + (n + k) - 1] = s[k]
  /\ \A x \in Ltoks : x # l =>
       \A k \in 1..BufLen : bytes'[BufAt[x] + k - 1] = bytes[BufAt[x] + k - 1]

LEMMA LayerFacts ==
  ASSUME LayerShape
  PROVE  /\ Len(handle) \in Nat /\ DOMAIN handle = 1..Len(handle)
         /\ \A i \in 1..Len(handle) : handle[i] \in Ltoks
         /\ handle # << >> => Len(handle) \in 1..Len(handle) /\ Last(handle) = handle[Len(handle)]
         /\ Len(filling) \in Nat /\ DOMAIN filling = 1..Len(filling)
         /\ filling = << >> <=> Len(filling) = 0
         /\ \A j \in 1..Len(filling) :
              filling[j] \in Fills /\ filling[j].l \in Ltoks /\ filling[j].count \in 0..BufLen
         /\ filling # << >> => Len(filling) \in 1..Len(filling) /\ Fill = filling[Len(filling)]
         /\ \A l \in Ltoks :
              /\ BufAt[l] \in Nat
              /\ buffered[l] \in Seq(Nat) /\ Len(buffered[l]) \in Nat /\ Len(buffered[l]) <= BufLen
              /\ iols[l] \in Iols /\ iols[l].kept \in Seq(Nat) /\ Len(iols[l].kept) \in 0..1
<1>1. /\ handle \in Seq(Ltoks) /\ filling \in Seq(Fills)
      /\ buffered \in [Ltoks -> Seq(Nat)] /\ iols \in [Ltoks -> Iols]
      /\ \A l \in Ltoks : Len(buffered[l]) <= BufLen /\ Len(iols[l].kept) <= 1
  BY DEF LayerShape, LayerTypes
<1>2. /\ Len(handle) \in Nat /\ DOMAIN handle = 1..Len(handle)
      /\ Len(filling) \in Nat /\ DOMAIN filling = 1..Len(filling)
      /\ \A i \in 1..Len(handle) : handle[i] \in Ltoks
      /\ \A j \in 1..Len(filling) : filling[j] \in Fills
      /\ filling = << >> <=> Len(filling) = 0
      /\ handle = << >> <=> Len(handle) = 0
  BY <1>1, LenProperties, ElementOfSeq, EmptySeq
<1>3. \A j \in 1..Len(filling) : filling[j].l \in Ltoks /\ filling[j].count \in 0..BufLen
  BY <1>2 DEF Fills
<1>4. \A l \in Ltoks : /\ BufAt[l] \in Nat /\ buffered[l] \in Seq(Nat)
                       /\ iols[l] \in Iols /\ iols[l].kept \in Seq(Nat)
  BY <1>1, LayerAssumption DEF Iols
<1>5. \A l \in Ltoks : Len(buffered[l]) \in Nat /\ Len(iols[l].kept) \in Nat
  BY <1>4, LenProperties
<1>6. ASSUME NEW l \in Ltoks PROVE Len(iols[l].kept) \in 0..1
  <2>1. Len(iols[l].kept) \in Nat /\ Len(iols[l].kept) <= 1
    BY <1>1, <1>5
  <2>2. \A k \in Nat : k <= 1 => k \in 0..1
    OBVIOUS
  <2> QED
    BY <2>1, <2>2, Zenon
<1>7. handle # << >> => Len(handle) \in 1..Len(handle) /\ Last(handle) = handle[Len(handle)]
  BY <1>2 DEF Last
<1>8. filling # << >> => Len(filling) \in 1..Len(filling) /\ Fill = filling[Len(filling)]
  BY <1>2 DEF Fill
<1> QED
  BY <1>1, <1>2, <1>3, <1>4, <1>5, <1>6, <1>7, <1>8

LEMMA LayerInitInv == LayerInit => LayerShape /\ TextIsCut
<1> SUFFICES ASSUME LayerInit PROVE LayerShape /\ TextIsCut
  OBVIOUS
<1>1. /\ handle = << >> /\ filling = << >> /\ received = << >>
      /\ Len(handle) = 0 /\ Len(filling) = 0 /\ Len(<< >>) = 0
      /\ << >> \in Seq(Nat) /\ << >> \in Seq(Ltoks) /\ << >> \in Seq(Fills)
  BY EmptySeq DEF LayerInit
<1>2. source \in [1..TextLen -> Nat] /\ \A i \in 1..TextLen : source[i] = i
  BY DEF LayerInit
<1>3. source \in Seq(Nat) /\ Len(source) = TextLen
  <2>1. source \in Seq(Nat)
    BY <1>2, LayerAssumption, SeqDef
  <2> QED
    BY <1>2, <2>1, LayerAssumption, LenProperties
<1>4. NoIol \in Iols
  BY <1>1 DEF NoIol, Iols
<1>5. LayerTypes
  <2>1. bytes \in [Memory -> Nat] /\ iols \in [Ltoks -> Iols] /\ window \in [g : Nat, h : Nat]
    BY <1>4 DEF LayerInit, Memory
  <2>2. \A l \in Ltoks : Len(buffered[l]) <= BufLen /\ Len(iols[l].kept) <= 1
    BY <1>1, LayerAssumption DEF LayerInit, NoIol
  <2> QED
    BY <1>1, <1>3, <2>1, <2>2 DEF LayerInit, LayerTypes
<1>6. Stacked /\ ShadowsFit /\ FillsFromTop
  BY <1>1 DEF LayerInit, Stacked, ShadowsFit, OnHandle, FillsFromTop
<1>7. TextIsCut
  <2> DEFINE cut == [i \in 0..0 |-> 0]
  <2>1. cut \in [0..Len(handle) -> 0..TextLen] /\ cut[0] = 0
    BY <1>1, LayerAssumption
  <2>2. /\ Carries(source, cut[0], TextLen) /\ Carries(received, 0, cut[Len(handle)])
        /\ 1..Len(filling) = {} /\ 1..(Len(handle) - Len(filling)) = {}
    BY <1>1, <1>2, <1>3, <2>1, LayerAssumption DEF Carries
  <2>3. CutsText(cut)
    BY <2>1, <2>2 DEF CutsText
  <2> QED
    BY <2>3 DEF TextIsCut
<1> QED
  BY <1>5, <1>6, <1>7 DEF LayerShape

LEMMA Places ==
  ASSUME LayerShape
  PROVE  /\ \A j \in 1..Len(filling) :
              /\ Len(handle) + 1 - j \in 1..Len(handle)
              /\ filling[j].l = handle[Len(handle) + 1 - j]
              /\ filling[j].buf = HostBase + BufAt[filling[j].l]
              /\ buffered[filling[j].l] = << >> /\ iols[filling[j].l].kept = << >>
         /\ \A i, k \in 1..Len(handle) : handle[i] = handle[k] => i = k
         /\ \A i \in 1..Len(handle) :
              /\ layerTab[handle[i]] \in Tabs /\ iols[handle[i]].tab = layerTab[handle[i]]
<1>1. Len(handle) \in Nat /\ Len(filling) \in Nat /\ Len(filling) <= Len(handle)
  BY LayerFacts DEF LayerShape, FillsFromTop
<1>2. \A j \in 1..Len(filling) : Len(handle) + 1 - j \in 1..Len(handle)
  BY <1>1
<1>3. \A i \in 1..Len(handle) : handle[i] \in Ltoks /\ OnHandle(handle[i])
  BY LayerFacts DEF OnHandle
<1> QED
  BY <1>2, <1>3 DEF LayerShape, FillsFromTop, Stacked, ShadowsFit

\* The layer of the innermost Fill is the lowest of those being filled.
LEMMA BelowFacts ==
  ASSUME LayerShape, filling # << >>, NEW p, p = Len(handle) + 1 - Len(filling)
  PROVE  /\ p \in 1..Len(handle) /\ Len(filling) \in 1..Len(filling)
         /\ Fill = filling[Len(filling)] /\ Fill \in Fills
         /\ Fill.l \in Ltoks /\ handle[p] = Fill.l /\ Fill.buf = HostBase + BufAt[Fill.l]
         /\ Fill.count \in 0..BufLen
         /\ LayerBelow(Fill.l) = (IF p = 1 THEN NoLayer ELSE handle[p - 1])
         /\ p # 1 => p - 1 \in 1..Len(handle) /\ handle[p - 1] \in Ltoks /\ handle[p - 1] # NoLayer
<1>1. Len(handle) \in Nat /\ Len(filling) \in 1..Len(filling) /\ Fill = filling[Len(filling)]
  BY LayerFacts
<1>2. /\ p \in 1..Len(handle) /\ handle[p] = Fill.l /\ Fill \in Fills
      /\ Fill.buf = HostBase + BufAt[Fill.l]
  BY <1>1, LayerFacts, Places
<1>3. DOMAIN handle = 1..Len(handle) /\ \A i \in 1..Len(handle) : handle[i] = Fill.l => i = p
  BY <1>2, LayerFacts, Places
<1>4. (CHOOSE i \in DOMAIN handle : handle[i] = Fill.l) = p
  BY <1>2, <1>3
<1>5. LayerBelow(Fill.l) = (IF p = 1 THEN NoLayer ELSE handle[p - 1])
  <2> DEFINE c == CHOOSE i \in DOMAIN handle : handle[i] = Fill.l
  <2>1. LayerBelow(Fill.l) = (IF c = 1 THEN NoLayer ELSE handle[c - 1])
    BY DEF LayerBelow
  <2>2. c = p
    BY <1>4
  <2> HIDE DEF c
  <2> QED
    BY <2>1, <2>2
<1>6. p # 1 => p - 1 \in 1..Len(handle)
  BY <1>1, <1>2
<1>7. p # 1 => handle[p - 1] \in Ltoks /\ handle[p - 1] # NoLayer
  BY <1>6, LayerFacts, LayerAssumption
<1>8. Fill.l \in Ltoks /\ Fill.count \in 0..BufLen
  BY <1>2 DEF Fills
<1> QED
  BY <1>1, <1>2, <1>5, <1>6, <1>7, <1>8

LEMMA WriteFacts ==
  ASSUME bytes \in [Memory -> Nat], NEW l \in Ltoks, NEW s \in Seq(Nat), NEW n \in Nat,
         n + Len(s) <= BufLen, NEW target, target = BufAt[l] + n,
         bytes' = [a \in Memory |-> bytes'[a]],
         \A a \in Memory :
           bytes'[a] = IF a - target \in 0..(Len(s) - 1) THEN s[a - target + 1] ELSE bytes[a]
  PROVE  bytes' \in [Memory -> Nat] /\ Written(l, n, s)
<1>1. Len(s) \in Nat /\ BufLen \in Nat /\ \A x \in Ltoks : BufAt[x] \in Nat
  BY LayerAssumption, LenProperties
<1>2. Memory \subseteq Nat
  BY <1>1 DEF Memory, Cell
<1>3. ASSUME NEW x \in Ltoks, NEW k \in 1..BufLen PROVE BufAt[x] + k - 1 \in Memory
  <2>1. BufAt[x] \in Nat /\ BufLen \in Nat
    BY <1>1
  <2>2. BufAt[x] + k - 1 \in Cell(x)
    BY <2>1 DEF Cell
  <2> QED
    BY <2>2 DEF Memory
<1>4. bytes' \in [Memory -> Nat]
  <2> SUFFICES ASSUME NEW a \in Memory PROVE bytes'[a] \in Nat
    OBVIOUS
  <2>1. CASE a - target \in 0..(Len(s) - 1)
    <3>1. a - target + 1 \in 1..Len(s)
      BY <1>1, <2>1
    <3> QED
      BY <2>1, <3>1, ElementOfSeq
  <2>2. CASE ~(a - target \in 0..(Len(s) - 1))
    BY <2>2
  <2> QED
    BY <2>1, <2>2
<1>5. BufAt[l] \in Nat
  BY <1>1
<1>6. ASSUME NEW k \in 1..n PROVE bytes'[BufAt[l] + k - 1] = bytes[BufAt[l] + k - 1]
  <2> DEFINE a == BufAt[l] + k - 1
  <2>1. k \in 1..BufLen
    BY <1>1
  <2>2. a \in Memory
    BY <1>3, <2>1
  <2>3. ~(a - target \in 0..(Len(s) - 1))
    BY <1>1, <1>5
  <2> HIDE DEF a
  <2>4. bytes'[a] = bytes[a]
    BY <2>2, <2>3
  <2> QED
    BY <2>4 DEF a
<1>7. ASSUME NEW k \in 1..Len(s) PROVE bytes'[BufAt[l] + (n + k) - 1] = s[k]
  <2> DEFINE a == BufAt[l] + (n + k) - 1
  <2>1. n + k \in 1..BufLen
    BY <1>1
  <2>2. a \in Memory
    BY <1>3, <2>1
  <2>3. a - target \in 0..(Len(s) - 1) /\ a - target + 1 = k
    BY SMTT(30), <1>1, <1>5
  <2> HIDE DEF a
  <2>4. bytes'[a] = s[k]
    BY <2>2, <2>3
  <2> QED
    BY <2>4 DEF a
<1>8. ASSUME NEW x \in Ltoks, x # l, NEW k \in 1..BufLen
      PROVE  bytes'[BufAt[x] + k - 1] = bytes[BufAt[x] + k - 1]
  <2> DEFINE a == BufAt[x] + k - 1
             b == BufAt[x]
             c == BufAt[l]
  <2>1. (c + BufLen <= b \/ b + BufLen <= c) /\ b \in Nat /\ c \in Nat /\ target = c + n
    BY <1>1, <1>8, LayerAssumption
  <2>2. a \in Memory /\ a = b + k - 1
    BY <1>3
  <2> HIDE DEF a, b, c
  <2>3. Len(s) \in Nat /\ BufLen \in Nat
    BY <1>1
  <2>4. a - target < 0 \/ Len(s) - 1 < a - target
    <3>1. CASE c + BufLen <= b
      <4>1. Len(s) <= BufLen - n /\ BufLen <= b - c /\ 0 <= k - 1
        BY <2>1, <2>3, <3>1
      <4>2. a - target = (b - c) - n + (k - 1)
        BY <2>1, <2>2
      <4> QED
        BY SMTT(30), <2>1, <2>2, <2>3, <4>1, <4>2
    <3>2. CASE b + BufLen <= c
      BY <2>1, <2>2, <2>3, <3>2
    <3> QED
      BY <2>1, <3>1, <3>2
  <2>5. ~(a - target \in 0..(Len(s) - 1))
    BY <2>1, <2>2, <2>3, <2>4
  <2>6. bytes'[a] = bytes[a]
    BY <2>2, <2>5
  <2> QED
    BY <2>6 DEF a
<1> QED
  BY <1>4, <1>6, <1>7, <1>8 DEF Written

\* What is left of a text when its first n units are taken, and these.
LEMMA TakeFirst ==
  ASSUME NEW s \in Seq(Nat), NEW a \in Nat, NEW b \in Nat, Carries(s, a, b),
         NEW n \in 0..Len(s)
  PROVE  /\ Carries(SubSeq(s, 1, n), a, a + n)
         /\ Carries(SubSeq(s, n + 1, Len(s)), a + n, b)
<1>0. PICK p, q : p = SubSeq(s, 1, n) /\ q = SubSeq(s, n + 1, Len(s))
  OBVIOUS
<1>1. Len(s) \in Nat /\ \A k \in 1..Len(s) : s[k] \in Nat /\ s[k] = a + k
  BY LenProperties, ElementOfSeq DEF Carries
<1>2. (\A k \in 1..n : s[k] \in Nat) /\ \A k \in (n + 1)..Len(s) : s[k] \in Nat
  BY <1>1
<1>3. /\ p \in Seq(Nat) /\ Len(p) = (IF 1 <= n THEN n - 1 + 1 ELSE 0)
      /\ \A k \in 1..(n - 1 + 1) : p[k] = s[1 + k - 1]
  BY <1>0, <1>1, <1>2, SubSeqProperties
<1>4. /\ q \in Seq(Nat)
      /\ Len(q) = (IF n + 1 <= Len(s) THEN Len(s) - (n + 1) + 1 ELSE 0)
      /\ \A k \in 1..(Len(s) - (n + 1) + 1) : q[k] = s[n + 1 + k - 1]
  BY <1>0, <1>1, <1>2, SubSeqProperties
<1>5. Len(p) = n /\ Len(q) = Len(s) - n
  BY <1>1, <1>3, <1>4
<1>6. \A k \in 1..n : p[k] = a + k
  BY <1>1, <1>3
<1>7. ASSUME NEW k \in 1..(Len(s) - n) PROVE q[k] = (a + n) + k
  <2>1. q[k] = s[n + 1 + k - 1] /\ n + 1 + k - 1 = n + k /\ n + k \in 1..Len(s)
    BY <1>1, <1>4
  <2>2. s[n + k] = a + (n + k)
    BY <1>1, <2>1
  <2> QED
    BY <2>1, <2>2
<1>8. Len(s) = b - a
  BY DEF Carries
<1>9. Carries(p, a, a + n)
  BY <1>5, <1>6 DEF Carries
<1>10. Carries(q, a + n, b)
  <2>1. Len(s) - n = b - (a + n)
    BY <1>8
  <2> QED
    BY <1>5, <1>7, <2>1 DEF Carries
<1> QED
  BY <1>0, <1>9, <1>10

-------------------------------------------------------------------------------
(* Fills.                                                                  *)

\* A Fill begins on the highest layer that is not being filled.
\* What the start of a Fill of l does, which keeps s.
Begun(l, s, new) ==
  /\ l \in Ltoks /\ s \in Seq(Nat) /\ Len(s) \in 0..BufLen /\ new \in Fills
  /\ window' \in [g : Nat, h : Nat] /\ window'.h = HostBase + window'.g
  /\ filling' \in Seq(Fills) /\ Len(filling') = Len(filling) + 1
  /\ filling'[Len(filling) + 1] = new
  /\ \A j \in 1..Len(filling) : filling'[j] = filling[j]
  /\ iols' \in [Ltoks -> Iols] /\ iols'[l].kept = << >> /\ iols'[l].tab = layerTab[l]
  /\ \A x \in Ltoks : x # l => iols'[x] = iols[x]
  /\ bytes' \in [Memory -> Nat] /\ Written(l, 0, s)

LEMMA BeginFacts ==
  ASSUME LayerShape, NEW i \in 1..Len(handle), NEW l, l = handle[i],
         NEW s, s = iols[l].kept, NEW new,
         new = [l |-> l, buf |-> HostBase + BufAt[l], count |-> Len(s)], BeginFill(l)
  PROVE  Begun(l, s, new)
<1>1. /\ l \in Ltoks /\ layerTab[l] \in Tabs /\ iols[l].tab = layerTab[l] /\ iols[l] \in Iols
      /\ s \in Seq(Nat) /\ Len(s) \in 0..1
  BY LayerFacts, Places
<1>2. BufLen \in Nat \ {0} /\ HostBase \in Nat /\ BufAt[l] \in Nat
  BY <1>1, LayerAssumption
<1>3. Len(s) \in 0..BufLen /\ HostBase + BufAt[l] \in Nat /\ 0 + Len(s) <= BufLen
  <2>1. \A k \in 0..1, b \in Nat \ {0} : k \in 0..b /\ 0 + k <= b
    OBVIOUS
  <2>2. HostBase + BufAt[l] \in Nat
    BY <1>2
  <2> QED
    BY <1>1, <1>2, <2>1, <2>2, Zenon
<1>4. new \in Fills
  BY <1>1, <1>3 DEF Fills
<1>5. iols[l] # NoIol
  BY <1>1, LayerAssumption DEF NoIol
<1>6. /\ window' = [g |-> BufAt[l], h |-> HostBase + BufAt[l]]
      /\ filling' = Append(filling, new)
      /\ iols' = [iols EXCEPT ![l].kept = << >>]
      /\ bytes' = [a \in DOMAIN bytes |->
                     IF a - BufAt[l] \in 0..(Len(s) - 1) THEN s[a - BufAt[l] + 1] ELSE bytes[a]]
  BY <1>5 DEF BeginFill, IolShadow
<1>7. /\ filling' \in Seq(Fills) /\ Len(filling') = Len(filling) + 1
      /\ filling'[Len(filling) + 1] = new
      /\ \A j \in 1..Len(filling) : filling'[j] = filling[j]
  <2>1. filling \in Seq(Fills)
    BY DEF LayerShape, LayerTypes
  <2> QED
    BY <1>4, <1>6, <2>1, AppendProperties
<1>8. /\ iols' \in [Ltoks -> Iols] /\ iols'[l].kept = << >> /\ iols'[l].tab = layerTab[l]
      /\ \A x \in Ltoks : x # l => iols'[x] = iols[x]
  <2>1. iols \in [Ltoks -> Iols]
    BY DEF LayerShape, LayerTypes
  <2>2. PICK r \in Iols : r = iols[l]
    BY <1>1
  <2>3. /\ [r EXCEPT !.kept = << >>] \in Iols
        /\ [r EXCEPT !.kept = << >>].tab = r.tab /\ [r EXCEPT !.kept = << >>].kept = << >>
    BY EmptySeq DEF Iols
  <2>4. iols' = [iols EXCEPT ![l] = [r EXCEPT !.kept = << >>]]
    BY <1>6, <2>2
  <2> QED
    BY <1>1, <2>1, <2>2, <2>3, <2>4
<1>9. bytes' \in [Memory -> Nat] /\ Written(l, 0, s)
  <2>1. bytes \in [Memory -> Nat]
    BY DEF LayerShape, LayerTypes
  <2>2. PICK target : target = BufAt[l]
    OBVIOUS
  <2>3. target = BufAt[l] + 0
    BY <1>2, <2>2
  <2>4. bytes' = [a \in Memory |->
                    IF a - target \in 0..(Len(s) - 1) THEN s[a - target + 1] ELSE bytes[a]]
    BY <1>6, <2>1, <2>2
  <2>5. /\ bytes' = [a \in Memory |-> bytes'[a]]
        /\ \A a \in Memory :
             bytes'[a] = IF a - target \in 0..(Len(s) - 1) THEN s[a - target + 1] ELSE bytes[a]
    BY <2>4
  <2>6. 0 \in Nat
    OBVIOUS
  <2> QED
    BY <1>1, <1>3, <2>1, <2>3, <2>5, <2>6, WriteFacts
<1>10. window' \in [g : Nat, h : Nat] /\ window'.h = HostBase + window'.g
  BY <1>2, <1>3, <1>6
<1> QED
  BY <1>1, <1>3, <1>4, <1>6, <1>7, <1>8, <1>9, <1>10 DEF Begun

LEMMA BeginInv ==
  ASSUME LayerShape, NEW i \in 1..Len(handle), i = Len(handle) - Len(filling),
         NEW l, l = handle[i], buffered[l] = << >>, BeginFill(l),
         UNCHANGED <<defined, handle, layerTab, buffered, atEnd, source, received, failed>>
  PROVE  LayerShape' /\ (TextIsCut => TextIsCut')
<1>0. PICK m, h : m = Len(filling) /\ h = Len(handle)
  OBVIOUS
<1> USE <1>0
<1>1. PICK s : s = iols[l].kept
  OBVIOUS
<1>2. PICK new : new = [l |-> l, buf |-> HostBase + BufAt[l], count |-> Len(s)]
  OBVIOUS
<1>3. /\ l \in Ltoks /\ s \in Seq(Nat) /\ Len(s) \in 0..BufLen /\ new \in Fills
      /\ window' \in [g : Nat, h : Nat] /\ window'.h = HostBase + window'.g
      /\ filling' \in Seq(Fills) /\ Len(filling') = m + 1 /\ filling'[m + 1] = new
      /\ \A j \in 1..m : filling'[j] = filling[j]
      /\ iols' \in [Ltoks -> Iols] /\ iols'[l].kept = << >> /\ iols'[l].tab = layerTab[l]
      /\ \A x \in Ltoks : x # l => iols'[x] = iols[x]
      /\ bytes' \in [Memory -> Nat] /\ Written(l, 0, s)
  <2>1. Begun(l, s, new)
    BY <1>1, <1>2, BeginFacts
  <2> QED
    BY <2>1 DEF Begun
<1>4. new.l = l /\ new.buf = HostBase + BufAt[l] /\ new.count = Len(s)
  BY <1>2
<1>5. m \in Nat /\ h \in Nat /\ i = h - m /\ i \in 1..h
  BY LayerFacts
<1>6. ASSUME NEW j \in 1..m PROVE filling[j].l # l
  <2> SUFFICES ASSUME filling[j].l = l PROVE FALSE
    OBVIOUS
  <2>0. filling[j].l = handle[h + 1 - j] /\ h + 1 - j \in 1..h
    BY Places
  <2>1. h + 1 - j = i
    BY <2>0, Places
  <2> QED
    BY <1>5, <2>1
<1>7. LayerTypes'
  <2>1. Len(<< >>) <= 1
    BY EmptySeq
  <2>2. \A x \in Ltoks : Len(iols'[x].kept) <= 1
    BY <1>3, <2>1 DEF LayerShape, LayerTypes
  <2> QED
    BY <1>3, <2>2 DEF LayerShape, LayerTypes
<1>8. Stacked' /\ ShadowsFit'
  <2>1. \A x \in Ltoks : OnHandle(x)' <=> OnHandle(x)
    BY DEF OnHandle
  <2>2. OnHandle(l)
    BY DEF OnHandle
  <2>3. ShadowsFit'
    BY <1>3, <2>1, <2>2 DEF LayerShape, ShadowsFit
  <2> QED
    BY <2>3 DEF LayerShape, Stacked
<1>9. FillsFromTop'
  <2>1. ASSUME NEW j \in 1..(m + 1)
        PROVE  /\ filling'[j].l = handle[h + 1 - j]
               /\ filling'[j].buf = HostBase + BufAt[filling'[j].l]
               /\ buffered[filling'[j].l] = << >> /\ iols'[filling'[j].l].kept = << >>
    <3>1. CASE j = m + 1
      <4>1. h + 1 - j = i
        BY <1>5, <3>1
      <4> QED
        BY <1>3, <1>4, <3>1, <4>1
    <3>2. CASE j \in 1..m
      <4>1. /\ filling[j].l = handle[h + 1 - j]
            /\ filling[j].buf = HostBase + BufAt[filling[j].l]
            /\ buffered[filling[j].l] = << >> /\ iols[filling[j].l].kept = << >>
        BY <3>2, Places
      <4>2. filling'[j] = filling[j]
        BY <1>3, <3>2
      <4>3. iols'[filling[j].l] = iols[filling[j].l]
        BY <1>3, <1>6, <3>2, LayerFacts
      <4> QED
        BY <4>1, <4>2, <4>3
    <3>3. j = m + 1 \/ j \in 1..m
      BY <1>5
    <3> QED
      BY <3>1, <3>2, <3>3
  <2>2. m + 1 <= h
    BY <1>5
  <2> QED
    BY <1>3, <2>1, <2>2 DEF FillsFromTop
<1>10. ASSUME NEW cut, CutsText(cut) PROVE CutsText(cut)'
  <2>1. /\ cut \in [0..h -> 0..TextLen]
        /\ Carries(source, cut[0], TextLen) /\ Carries(received, 0, cut[h])
        /\ \A j \in 1..m : Filled(j, cut[h + 1 - j], cut[h - j])
        /\ \A k \in 1..(h - m) : Rests(handle[k], cut[k], cut[k - 1])
    BY <1>10 DEF CutsText
  <2>2. Carries(source', cut[0], TextLen) /\ Carries(received', 0, cut[Len(handle')])
    BY <2>1
  <2>3. ASSUME NEW j \in 1..m PROVE Filled(j, cut[h + 1 - j], cut[h - j])'
    <3>1. /\ filling'[j] = filling[j] /\ filling[j].l # l /\ filling[j].l \in Ltoks
          /\ filling[j].count \in 0..BufLen
      BY <1>3, <1>6, LayerFacts
    <3>2. \A k \in 1..filling[j].count : k \in 1..BufLen
      BY <3>1, LayerAssumption
    <3>3. \A k \in 1..BufLen :
            bytes'[BufAt[filling[j].l] + k - 1] = bytes[BufAt[filling[j].l] + k - 1]
      BY <1>3, <3>1 DEF Written
    <3> QED
      BY <2>1, <3>1, <3>2, <3>3 DEF Filled
  <2>4. Filled(m + 1, cut[h + 1 - (m + 1)], cut[h - (m + 1)])'
    <3>1. h + 1 - (m + 1) = i /\ h - (m + 1) = i - 1 /\ i \in 1..(h - m) /\ i \in 0..h
      BY <1>5
    <3>2. Rests(l, cut[i], cut[i - 1])
      BY <2>1, <3>1
    <3>3. cut[i] \in 0..TextLen /\ TextLen \in Nat
      BY <2>1, <3>1, LayerAssumption
    <3>4. cut[i] + 0 = cut[i] /\ Len(<< >>) = 0
      BY <3>3
    <3>5. Carries(s, cut[i], cut[i - 1])
      BY <1>1, <3>2, <3>4 DEF Rests
    <3>6. \A k \in 1..Len(s) : bytes'[BufAt[l] + k - 1] = s[k]
      <4>1. \A k \in 1..Len(s) : bytes'[BufAt[l] + (0 + k) - 1] = s[k]
        BY <1>3 DEF Written
      <4>2. \A k \in 1..Len(s) : 0 + k = k
        OBVIOUS
      <4> QED
        BY <4>1, <4>2
    <3>7. Filled(m + 1, cut[i], cut[i - 1])'
      BY SMTT(30), <1>3, <1>4, <3>5, <3>6 DEF Filled, Carries
    <3> QED
      BY <3>1, <3>7
  <2>5. ASSUME NEW j \in 1..(m + 1) PROVE Filled(j, cut[h + 1 - j], cut[h - j])'
    <3>1. j = m + 1 \/ j \in 1..m
      BY <1>5
    <3> QED
      BY <2>3, <2>4, <3>1
  <2>6. ASSUME NEW k \in 1..(h - (m + 1)) PROVE Rests(handle[k], cut[k], cut[k - 1])'
    <3>1. k \in 1..(h - m) /\ k # i /\ k \in 1..h
      BY <1>5
    <3>2. handle[k] # l /\ handle[k] \in Ltoks
      BY <3>1, Places, LayerFacts
    <3>3. Rests(handle[k], cut[k], cut[k - 1])
      BY <2>1, <3>1
    <3> QED
      BY <1>3, <3>2, <3>3 DEF Rests
  <2> QED
    BY <1>3, <2>1, <2>2, <2>5, <2>6 DEF CutsText, Carries
<1>11. TextIsCut => TextIsCut'
  BY <1>10 DEF TextIsCut
<1> QED
  BY <1>7, <1>8, <1>9, <1>11 DEF LayerShape

LEMMA FillInv ==
  ASSUME LayerShape, FillHook PROVE LayerShape' /\ (TextIsCut => TextIsCut')
<1>1. /\ handle # << >> /\ filling = << >> /\ buffered[Last(handle)] = << >>
      /\ BeginFill(Last(handle))
      /\ UNCHANGED <<defined, handle, layerTab, buffered, atEnd, source, received, failed>>
  BY DEF FillHook
<1>2. /\ Len(handle) \in 1..Len(handle) /\ Last(handle) = handle[Len(handle)]
      /\ Len(handle) = Len(handle) - Len(filling)
  <2>1. Len(filling) = 0 /\ Len(handle) \in Nat
    BY <1>1, LayerFacts
  <2> QED
    BY <1>1, <2>1, LayerFacts
<1> QED
  BY <1>1, <1>2, BeginInv

LEMMA NestedFillInv ==
  ASSUME LayerShape, NestedFillHook PROVE LayerShape' /\ (TextIsCut => TextIsCut')
<1> DEFINE b == LayerBelow(Fill.l)
           i == Len(handle) + 1 - Len(filling)
<1>1. /\ filling # << >> /\ b # NoLayer /\ buffered[b] = << >> /\ BeginFill(b)
      /\ UNCHANGED <<defined, handle, layerTab, buffered, atEnd, source, received, failed>>
  BY DEF NestedFillHook
<1>2. /\ i # 1 /\ b = handle[i - 1] /\ i - 1 \in 1..Len(handle)
  BY <1>1, BelowFacts
<1>3. i - 1 = Len(handle) - Len(filling)
  BY LayerFacts
<1> HIDE DEF b, i
<1> QED
  BY <1>1, <1>2, <1>3, BeginInv

\* Arithmetic of addresses and of places on the handle.
LEMMA SameOffset ==
  ASSUME NEW g \in Nat, NEW h \in Nat, NEW b \in Nat, NEW n \in Nat
  PROVE  g + ((h + b + n) - (h + g)) = b + n
OBVIOUS

LEMMA PlacesBelow ==
  ASSUME NEW h \in Nat, NEW m \in Nat, NEW k \in 1..(h - m)
  PROVE  k \in 1..h /\ k # h + 1 - m
OBVIOUS

LEMMA Neighbours ==
  ASSUME NEW h \in Nat, NEW m \in Nat, NEW i \in 1..h, i = h + 1 - m
  PROVE  /\ h - m = i - 1 /\ i # i - 1
         /\ i \in 0..h /\ i - 1 \in 0..h
OBVIOUS

\* What a read of units s by the innermost Fill does, the m-th one, of l, which has n.
Placed(m, l, n, s) ==
  /\ bytes' \in [Memory -> Nat] /\ Written(l, n, s)
  /\ filling' \in Seq(Fills) /\ Len(filling') = m
  /\ \A j \in 1..m :
       /\ filling'[j].l = filling[j].l /\ filling'[j].buf = filling[j].buf
       /\ j # m => filling'[j] = filling[j]
  /\ filling'[m].count = n + Len(s)

LEMMA PlaceFacts ==
  ASSUME LayerShape, filling # << >>, NEW m, m = Len(filling), NEW l, l = Fill.l,
         NEW n, n = Fill.count, NEW s \in Seq(Nat), n + Len(s) <= BufLen, Place(s)
  PROVE  Placed(m, l, n, s)
<1>1. PICK f : f = Fill
  OBVIOUS
<1>2. PICK r : r = [f EXCEPT !.count = n + Len(s)]
  OBVIOUS
<1>3. /\ m \in 1..m /\ m \in Nat /\ f = filling[m] /\ f \in Fills /\ filling \in Seq(Fills)
      /\ l \in Ltoks /\ f.l = l /\ f.buf = HostBase + BufAt[l]
      /\ f.count = n /\ n \in 0..BufLen
  BY <1>1, BelowFacts, LayerFacts DEF LayerShape, LayerTypes
<1>4. /\ Len(s) \in Nat /\ BufAt[l] \in Nat /\ HostBase \in Nat /\ BufLen \in Nat
      /\ window.g \in Nat /\ window.h = HostBase + window.g
  BY <1>3, LenProperties, LayerAssumption
  DEF LayerShape, LayerTypes, FillsFromTop
<1>5. n \in Nat /\ n + Len(s) \in 0..BufLen
  BY <1>3, <1>4
<1>6. PICK target : target = BufAt[l] + n
  OBVIOUS
<1>7. TailTarget(f.buf + f.count) = target
  <2>1. PICK g, h, b : g = window.g /\ h = HostBase /\ b = BufAt[l]
    OBVIOUS
  <2>2. g \in Nat /\ h \in Nat /\ b \in Nat /\ n \in Nat
    BY <1>4, <1>5, <2>1
  <2>3. g + ((h + b + n) - (h + g)) = b + n
    BY <2>2, SameOffset
  <2>4. TailTarget(f.buf + f.count) = g + ((h + b + n) - (h + g))
    BY <1>3, <1>4, <2>1, Zenon DEF TailTarget
  <2> QED
    BY <1>6, <2>1, <2>3, <2>4, Zenon
<1>8. r \in Fills /\ r.l = l /\ r.buf = f.buf /\ r.count = n + Len(s)
  BY <1>2, <1>3, <1>5 DEF Fills
<1>9. filling' = [filling EXCEPT ![m] = r]
  BY <1>1, <1>2, <1>3 DEF Place
<1>10. /\ filling' \in Seq(Fills) /\ Len(filling') = m
       /\ \A j \in 1..m : filling'[j] = IF j = m THEN r ELSE filling[j]
  BY <1>3, <1>8, <1>9, ExceptSeq
<1>11. bytes' \in [Memory -> Nat] /\ Written(l, n, s)
  <2>1. bytes \in [Memory -> Nat]
    BY DEF LayerShape, LayerTypes
  <2>2. bytes' = [a \in Memory |->
                    IF a - target \in 0..(Len(s) - 1) THEN s[a - target + 1] ELSE bytes[a]]
    BY <1>1, <1>7, <2>1 DEF Place
  <2>3. /\ bytes' = [a \in Memory |-> bytes'[a]]
        /\ \A a \in Memory :
             bytes'[a] = IF a - target \in 0..(Len(s) - 1) THEN s[a - target + 1] ELSE bytes[a]
    BY <2>2
  <2> QED
    BY <1>3, <1>5, <1>6, <2>1, <2>3, WriteFacts
<1>12. \A j \in 1..m : filling'[j].l = filling[j].l /\ filling'[j].buf = filling[j].buf
  BY <1>3, <1>8, <1>10
<1>13. filling'[m].count = n + Len(s)
  BY <1>3, <1>8, <1>10
<1> QED
  BY <1>10, <1>11, <1>12, <1>13 DEF Placed

\* A layer is in one place of the handle.
LEMMA OtherFills ==
  ASSUME LayerShape, NEW j \in 1..Len(filling), NEW k \in 1..Len(handle),
         k # Len(handle) + 1 - j
  PROVE  filling[j].l # handle[k]
<1>1. PICK p : p = Len(handle) + 1 - j
  OBVIOUS
<1>2. filling[j].l = handle[p] /\ p \in 1..Len(handle) /\ k # p
  BY <1>1, Places
<1>3. handle[p] = handle[k] => p = k
  BY <1>2, Places
<1> QED
  BY <1>2, <1>3

\* What the innermost Fill has filled is the text between two cuts.
LEMMA FilledSoFar ==
  ASSUME LayerShape, filling # << >>, NEW i, i = Len(handle) + 1 - Len(filling),
         NEW cut, CutsText(cut)
  PROVE  /\ cut[i] \in 0..TextLen /\ cut[i - 1] \in 0..TextLen
         /\ Fill.count = cut[i - 1] - cut[i]
         /\ \A k \in 1..Fill.count : bytes[BufAt[Fill.l] + k - 1] = cut[i] + k
<1>1. PICK m, h : m = Len(filling) /\ h = Len(handle)
  OBVIOUS
<1>2. /\ m \in 1..m /\ Fill = filling[m] /\ h \in Nat /\ m \in Nat /\ i = h + 1 - m
      /\ i \in 1..h
  BY <1>1, BelowFacts, LayerFacts
<1>3. h - m = i - 1 /\ i \in 0..h /\ i - 1 \in 0..h
  BY <1>2
<1>4. Filled(m, cut[i], cut[i - 1])
  <2>1. Filled(m, cut[h + 1 - m], cut[h - m])
    BY <1>1, <1>2 DEF CutsText
  <2> QED
    BY <1>2, <1>3, <2>1
<1>5. cut \in [0..h -> 0..TextLen]
  BY <1>1 DEF CutsText
<1> QED
  BY <1>2, <1>3, <1>4, <1>5 DEF Filled

\* When the innermost Fill, of the i-th layer, has read s, the text after what it had, the
\* cut above that moves up by s, and the layers that are being filled have theirs.
Moved(i, cut, new, s) ==
  /\ new \in [0..Len(handle) -> 0..TextLen] /\ new[i - 1] = cut[i - 1] + Len(s)
  /\ \A k \in 0..Len(handle) : k # i - 1 => new[k] = cut[k]
  /\ \A j \in 1..Len(filling) : Filled(j, new[Len(handle) + 1 - j], new[Len(handle) - j])'

LEMMA ReadMovesCut ==
  ASSUME LayerShape, filling # << >>, NEW i, i = Len(handle) + 1 - Len(filling),
         NEW s \in Seq(Nat), Fill.count + Len(s) <= BufLen, Place(s), handle' = handle,
         NEW cut, CutsText(cut), Carries(s, cut[i - 1], cut[i - 1] + Len(s)),
         NEW new, new = [cut EXCEPT ![i - 1] = cut[i - 1] + Len(s)],
         cut[i - 1] + Len(s) <= TextLen
  PROVE  Moved(i, cut, new, s)
<1>1. PICK m, h, n, l : m = Len(filling) /\ h = Len(handle) /\ n = Fill.count /\ l = Fill.l
  OBVIOUS
<1>2. /\ i \in 1..h /\ i = h + 1 - m /\ m \in 1..m /\ Fill = filling[m]
      /\ l \in Ltoks /\ h \in Nat /\ m \in Nat /\ n \in 0..BufLen /\ handle[i] = l
  BY <1>1, BelowFacts, LayerFacts
<1>3. /\ cut[i - 1] \in 0..TextLen /\ cut[i] \in 0..TextLen
      /\ n = cut[i - 1] - cut[i] /\ \A k \in 1..n : bytes[BufAt[l] + k - 1] = cut[i] + k
  BY <1>1, FilledSoFar
<1>4. PICK a, b : a = cut[i] /\ b = cut[i - 1]
  OBVIOUS
<1>5. a \in Nat /\ b \in Nat /\ Len(s) \in Nat /\ TextLen \in Nat /\ n \in Nat /\ n = b - a
  <2>1. Len(s) \in Nat /\ TextLen \in Nat
    BY LenProperties, LayerAssumption
  <2>2. \A t \in Nat : \A x \in 0..t : x \in Nat
    OBVIOUS
  <2>3. a \in Nat /\ b \in Nat
    BY <1>3, <1>4, <2>1, <2>2, Zenon
  <2>4. n \in Nat /\ n = b - a
    <3>1. BufLen \in Nat
      BY LayerAssumption
    <3> QED
      BY <1>2, <1>3, <1>4, <2>2, <3>1, Zenon
  <2> QED
    BY <2>1, <2>3, <2>4
<1>6. /\ new \in [0..h -> 0..TextLen] /\ new[i - 1] = b + Len(s)
      /\ \A k \in 0..h : k # i - 1 => new[k] = cut[k]
  <2>1. cut \in [0..h -> 0..TextLen]
    BY <1>1 DEF CutsText
  <2>2. i - 1 \in 0..h
    BY <1>2
  <2>3. b + Len(s) \in 0..TextLen
    BY <1>4, <1>5
  <2> QED
    BY <1>4, <2>1, <2>2, <2>3
<1>7. Placed(m, l, n, s)
  BY <1>1, PlaceFacts
<1>8. Filled(m, a, b + Len(s))'
  <2>1. filling'[m].l = l /\ filling'[m].count = n + Len(s)
    BY <1>1, <1>2, <1>7 DEF Placed
  <2>2. n + Len(s) = (b + Len(s)) - a
    BY <1>5
  <2>3. ASSUME NEW k \in 1..(n + Len(s)) PROVE bytes'[BufAt[l] + k - 1] = a + k
    <3>1. CASE k \in 1..n
      BY <1>3, <1>4, <1>7, <3>1 DEF Placed, Written
    <3>2. CASE ~(k \in 1..n)
      <4>1. PICK e : e = k - n
        OBVIOUS
      <4>2. e \in 1..Len(s) /\ n + e = k /\ b + e = a + k
        BY <1>5, <3>2, <4>1
      <4>3. bytes'[BufAt[l] + (n + e) - 1] = s[e]
        BY <1>7, <4>2 DEF Placed, Written
      <4>4. s[e] = b + e
        BY <1>4, <4>2 DEF Carries
      <4> QED
        BY <4>2, <4>3, <4>4
    <3> QED
      BY <3>1, <3>2
  <2> QED
    BY <2>1, <2>2, <2>3 DEF Filled
<1>9. ASSUME NEW j \in 1..m PROVE Filled(j, new[h + 1 - j], new[h - j])'
  <2>1. CASE j = m
    <3>0. i = h + 1 - m /\ i \in 1..h /\ h \in Nat /\ m \in Nat
      BY <1>2
    <3>1. h + 1 - j = i /\ h - j = i - 1 /\ i \in 0..h /\ i # i - 1
      <4>1. h - m = i - 1 /\ i \in 0..h /\ i # i - 1
        BY SMTT(30), <3>0, Neighbours
      <4> QED
        BY <2>1, <3>0, <4>1
    <3>2. new[i] = a /\ new[i - 1] = b + Len(s)
      BY <1>4, <1>6, <3>1
    <3> QED
      BY <1>8, <2>1, <3>1, <3>2
  <2>2. CASE j # m
    <3>1. /\ h + 1 - j \in 0..h /\ h - j \in 0..h /\ h + 1 - j # i - 1 /\ h - j # i - 1
          /\ i # h + 1 - j
      <4>1. m \in Nat /\ h \in Nat /\ i \in 1..h /\ i = h + 1 - m
        BY <1>2
      <4>2. j \in 1..m /\ j # m
        BY <2>2
      <4>3. j \in Nat /\ 1 <= j /\ j < m
        BY <4>1, <4>2
      <4>4. m <= h
        BY <4>1
      <4> QED
        BY <4>1, <4>3, <4>4
    <3>2. new[h + 1 - j] = cut[h + 1 - j] /\ new[h - j] = cut[h - j]
      BY <1>6, <3>1
    <3>3. Filled(j, cut[h + 1 - j], cut[h - j])
      BY <1>1 DEF CutsText
    <3>4. filling'[j] = filling[j]
      BY <1>7, <2>2 DEF Placed
    <3>5. filling[j].l # l /\ filling[j].l \in Ltoks /\ filling[j].count \in 0..BufLen
      BY <1>1, <1>2, <3>1, OtherFills, LayerFacts
    <3>6. \A x \in 1..filling[j].count : x \in 1..BufLen
      BY <3>5, LayerAssumption
    <3>7. \A x \in 1..BufLen :
            bytes'[BufAt[filling[j].l] + x - 1] = bytes[BufAt[filling[j].l] + x - 1]
      BY <1>7, <3>5 DEF Placed, Written
    <3>8. Filled(j, cut[h + 1 - j], cut[h - j])'
      BY <3>3, <3>4, <3>6, <3>7 DEF Filled
    <3> QED
      BY <3>2, <3>8
  <2> QED
    BY <2>1, <2>2
<1>10. \A j \in 1..m : Filled(j, new[Len(handle) + 1 - j], new[Len(handle) - j])'
  BY <1>1, <1>9
<1> QED
  BY <1>1, <1>4, <1>6, <1>10 DEF Moved

LEMMA ReadKeepsFills ==
  ASSUME LayerShape, filling # << >>, NEW s \in Seq(Nat), Fill.count + Len(s) <= BufLen,
         Place(s)
  PROVE  /\ bytes' \in [Memory -> Nat] /\ filling' \in Seq(Fills) /\ Len(filling') = Len(filling)
         /\ \A j \in 1..Len(filling) :
              filling'[j].l = filling[j].l /\ filling'[j].buf = filling[j].buf
<1>1. PICK m, l, n : m = Len(filling) /\ l = Fill.l /\ n = Fill.count
  OBVIOUS
<1>2. Placed(m, l, n, s)
  BY <1>1, PlaceFacts
<1> QED
  BY <1>1, <1>2 DEF Placed

\* A read leaves the buffers empty of those being filled.
LEMMA ReadShape ==
  ASSUME LayerShape, filling # << >>, NEW s \in Seq(Nat), Fill.count + Len(s) <= BufLen,
         Place(s), UNCHANGED <<defined, handle, layerTab, atEnd, iols, window, received, failed>>,
         source' \in Seq(Nat), buffered' \in [Ltoks -> Seq(Nat)],
         \A x \in Ltoks : buffered'[x] = buffered[x] \/
           /\ OnHandle(x) /\ Len(buffered'[x]) <= BufLen
           /\ \A j \in 1..Len(filling) : filling[j].l # x
  PROVE  LayerShape'
<1>1. /\ bytes' \in [Memory -> Nat] /\ filling' \in Seq(Fills) /\ Len(filling') = Len(filling)
      /\ \A j \in 1..Len(filling) :
           filling'[j].l = filling[j].l /\ filling'[j].buf = filling[j].buf
  BY ReadKeepsFills
<1>2. LayerTypes'
  <2>1. \A x \in Ltoks : Len(buffered'[x]) <= BufLen /\ Len(iols'[x].kept) <= 1
    BY DEF LayerShape, LayerTypes
  <2> QED
    BY <1>1, <2>1 DEF LayerShape, LayerTypes
<1>3. Stacked' /\ ShadowsFit'
  <2>1. \A x \in Ltoks : OnHandle(x)' <=> OnHandle(x)
    BY DEF OnHandle
  <2>2. ShadowsFit'
    BY <2>1 DEF LayerShape, ShadowsFit
  <2> QED
    BY <2>2 DEF LayerShape, Stacked
<1>4. FillsFromTop'
  <2>1. Len(filling') <= Len(handle') /\ window'.h = HostBase + window'.g
    BY <1>1 DEF LayerShape, FillsFromTop
  <2>2. ASSUME NEW j \in 1..Len(filling)
        PROVE  /\ filling'[j].l = handle'[Len(handle') + 1 - j]
               /\ filling'[j].buf = HostBase + BufAt[filling'[j].l]
               /\ buffered'[filling'[j].l] = << >> /\ iols'[filling'[j].l].kept = << >>
    <3>1. buffered'[filling[j].l] = buffered[filling[j].l]
      BY LayerFacts
    <3> QED
      BY <1>1, <3>1, Places
  <2> QED
    BY <1>1, <2>1, <2>2 DEF FillsFromTop
<1> QED
  BY <1>2, <1>3, <1>4 DEF LayerShape

\* The lowest layer reads from the source.
LEMMA ReadSourceInv ==
  ASSUME LayerShape, filling # << >>, NEW n \in Nat, Fill.count + n <= BufLen,
         n <= Len(source), LayerBelow(Fill.l) = NoLayer, Place(SubSeq(source, 1, n)),
         source' = SubSeq(source, n + 1, Len(source)), buffered' = buffered,
         UNCHANGED <<defined, handle, layerTab, atEnd, iols, window, received, failed>>
  PROVE  LayerShape' /\ (TextIsCut => TextIsCut')
<1> DEFINE s == SubSeq(source, 1, n)
<1>1. /\ source \in Seq(Nat) /\ Len(source) \in Nat /\ n \in 0..Len(source)
      /\ buffered \in [Ltoks -> Seq(Nat)]
  BY LenProperties DEF LayerShape, LayerTypes
<1>2. s \in Seq(Nat) /\ Len(s) = n /\ source' \in Seq(Nat)
  <2>1. (\A k \in 1..n : source[k] \in Nat) /\ \A k \in (n + 1)..Len(source) : source[k] \in Nat
    BY <1>1, ElementOfSeq
  <2>2. s \in Seq(Nat) /\ Len(s) = (IF 1 <= n THEN n - 1 + 1 ELSE 0)
    BY <1>1, <2>1, SubSeqProperties
  <2>3. SubSeq(source, n + 1, Len(source)) \in Seq(Nat)
    BY <1>1, <2>1, SubSeqProperties
  <2> HIDE DEF s
  <2> QED
    BY <1>1, <2>2, <2>3
<1>3. Place(s) /\ Fill.count + Len(s) <= BufLen
  BY <1>2
<1>4. LayerShape'
  <2> HIDE DEF s
  <2> QED
    BY <1>1, <1>2, <1>3, ReadShape
<1>5. PICK i : i = Len(handle) + 1 - Len(filling)
  OBVIOUS
<1>6. /\ i = 1 /\ 1 \in 1..Len(handle) /\ Len(handle) \in Nat /\ Len(filling) \in Nat
      /\ Len(handle) = Len(filling)
  <2>1. Len(handle) \in Nat /\ Len(filling) \in Nat
    BY LayerFacts
  <2>2. i = 1 /\ 1 \in 1..Len(handle)
    BY <1>5, BelowFacts
  <2> QED
    BY <1>5, <2>1, <2>2
<1>7. ASSUME NEW cut, CutsText(cut) PROVE \E new : CutsText(new)'
  <2> DEFINE new == [cut EXCEPT ![0] = cut[0] + n]
  <2>1. cut[0] \in Nat /\ Carries(source, cut[0], TextLen) /\ TextLen \in Nat
    <3>1. cut \in [0..Len(handle) -> 0..TextLen] /\ 0 \in 0..Len(handle)
      BY <1>6, <1>7 DEF CutsText
    <3>2. cut[0] \in 0..TextLen /\ TextLen \in Nat
      BY <3>1, LayerAssumption
    <3> QED
      BY <1>7, <3>2 DEF CutsText
  <2>2. Carries(s, cut[0], cut[0] + n) /\ Carries(source', cut[0] + n, TextLen)
    BY <1>1, <2>1, TakeFirst
  <2>3. cut[0] + n <= TextLen
    BY <1>1, <2>1 DEF Carries
  <2> HIDE DEF s
  <2>4. /\ i - 1 = 0 /\ new = [cut EXCEPT ![i - 1] = cut[i - 1] + Len(s)]
        /\ Carries(s, cut[i - 1], cut[i - 1] + Len(s)) /\ cut[i - 1] + Len(s) <= TextLen
    BY <1>2, <1>6, <2>2, <2>3
  <2> HIDE DEF new
  <2>5. Moved(i, cut, new, s)
    BY <1>2, <1>3, <1>5, <1>7, <2>4, ReadMovesCut
  <2>6. new[0] = cut[0] + n /\ new[Len(handle)] = cut[Len(handle)]
    <3>1. Len(handle) # i - 1 /\ Len(handle) \in 0..Len(handle)
      BY <1>6
    <3> QED
      BY <1>2, <2>4, <2>5, <3>1 DEF Moved
  <2>7. Len(filling') = Len(filling)
    BY <1>2, <1>3, ReadKeepsFills
  <2>8. 1..(Len(handle) - Len(filling)) = {}
    BY <1>6
  <2>9. Carries(received, 0, cut[Len(handle)])
    BY <1>7 DEF CutsText
  <2>10. CutsText(new)'
    BY <2>2, <2>5, <2>6, <2>7, <2>8, <2>9 DEF CutsText, Moved, Carries
  <2> QED
    BY <2>10
<1> QED
  BY <1>4, <1>7 DEF TextIsCut

\* Another layer reads from the one below it.
LEMMA ReadBelowInv ==
  ASSUME LayerShape, filling # << >>, NEW n \in Nat, Fill.count + n <= BufLen,
         NEW b, b = LayerBelow(Fill.l), b # NoLayer, n <= Len(buffered[b]),
         Place(SubSeq(buffered[b], 1, n)), source' = source,
         buffered' = [buffered EXCEPT ![b] = SubSeq(@, n + 1, Len(@))],
         UNCHANGED <<defined, handle, layerTab, atEnd, iols, window, received, failed>>
  PROVE  LayerShape' /\ (TextIsCut => TextIsCut')
<1>0. PICK t, s, q : /\ t = buffered[b] /\ s = SubSeq(t, 1, n)
                     /\ q = SubSeq(t, n + 1, Len(t))
  OBVIOUS
<1>1. PICK i : i = Len(handle) + 1 - Len(filling)
  OBVIOUS
<1>2. /\ i \in 1..Len(handle) /\ i # 1 /\ b = handle[i - 1] /\ i - 1 \in 1..Len(handle)
      /\ b \in Ltoks /\ Len(handle) \in Nat /\ Len(filling) \in Nat /\ Len(handle) + 1 - i = Len(filling)
  BY <1>1, BelowFacts, LayerFacts
<1>3. /\ t \in Seq(Nat) /\ Len(t) \in Nat /\ Len(t) <= BufLen /\ n \in 0..Len(t)
      /\ buffered \in [Ltoks -> Seq(Nat)] /\ BufLen \in Nat /\ source \in Seq(Nat)
  <2>1. t \in Seq(Nat) /\ Len(t) \in Nat /\ Len(t) <= BufLen
    BY <1>0, <1>2, LayerFacts
  <2>2. n \in 0..Len(t)
    BY <1>0, <2>1
  <2>3. buffered \in [Ltoks -> Seq(Nat)] /\ BufLen \in Nat /\ source \in Seq(Nat)
    BY LayerAssumption DEF LayerShape, LayerTypes
  <2> QED
    BY <2>1, <2>2, <2>3
<1>4. s \in Seq(Nat) /\ Len(s) = n /\ q \in Seq(Nat) /\ Len(q) = Len(t) - n
  <2>1. (\A k \in 1..n : t[k] \in Nat) /\ \A k \in (n + 1)..Len(t) : t[k] \in Nat
    BY <1>3, ElementOfSeq
  <2>2. s \in Seq(Nat) /\ Len(s) = (IF 1 <= n THEN n - 1 + 1 ELSE 0)
    BY <1>0, <1>3, <2>1, SubSeqProperties
  <2>3. q \in Seq(Nat) /\ Len(q) = (IF n + 1 <= Len(t) THEN Len(t) - (n + 1) + 1 ELSE 0)
    BY <1>0, <1>3, <2>1, SubSeqProperties
  <2> QED
    BY <1>3, <2>2, <2>3
<1>5. Place(s) /\ Fill.count + Len(s) <= BufLen
  BY <1>0, <1>4
<1>6. /\ buffered' \in [Ltoks -> Seq(Nat)] /\ buffered'[b] = q
      /\ \A x \in Ltoks : x # b => buffered'[x] = buffered[x]
  <2>1. buffered' = [buffered EXCEPT ![b] = q]
    BY <1>0
  <2> QED
    BY <1>2, <1>3, <1>4, <2>1
<1>7. OnHandle(b)
  BY <1>2 DEF OnHandle
<1>8. \A j \in 1..Len(filling) : filling[j].l # b
  <2> SUFFICES ASSUME NEW j \in 1..Len(filling), filling[j].l = b PROVE FALSE
    OBVIOUS
  <2>1. i - 1 # Len(handle) + 1 - j
    BY <1>2
  <2> QED
    BY <1>2, <2>1, OtherFills
<1>9. Len(q) <= BufLen
  BY <1>3, <1>4
<1>10. LayerShape'
  <2>1. \A x \in Ltoks : buffered'[x] = buffered[x] \/
           /\ OnHandle(x) /\ Len(buffered'[x]) <= BufLen
           /\ \A j \in 1..Len(filling) : filling[j].l # x
    BY <1>6, <1>7, <1>8, <1>9
  <2>2. source' \in Seq(Nat)
    BY <1>3
  <2> QED
    BY <1>4, <1>5, <1>6, <2>1, <2>2, ReadShape
<1>11. ASSUME NEW cut, CutsText(cut) PROVE \E new : CutsText(new)'
  <2>0. PICK new, a, u, c :
          /\ new = [cut EXCEPT ![i - 1] = cut[i - 1] + Len(s)]
          /\ a = cut[i - 1] /\ u = cut[i - 2] /\ c = iols[b].kept
    OBVIOUS
  <2>1. /\ a \in Nat /\ u \in 0..TextLen /\ TextLen \in Nat /\ u \in Nat
    <3>1. cut \in [0..Len(handle) -> 0..TextLen] /\ i - 1 \in 0..Len(handle)
          /\ i - 2 \in 0..Len(handle)
      BY <1>2, <1>11 DEF CutsText
    <3>2. cut[i - 1] \in 0..TextLen /\ cut[i - 2] \in 0..TextLen /\ TextLen \in Nat
      BY <3>1, LayerAssumption
    <3> QED
      BY <2>0, <3>2
  <2>2. Carries(t, a, a + Len(t)) /\ Carries(c, a + Len(t), u)
    <3>1. i - 1 \in 1..(Len(handle) - Len(filling)) /\ i - 1 - 1 = i - 2
      BY <1>2
    <3>2. Rests(handle[i - 1], cut[i - 1], cut[i - 1 - 1])
      BY <1>11, <3>1 DEF CutsText
    <3> QED
      BY <1>0, <1>2, <2>0, <3>1, <3>2 DEF Rests
  <2>3. Carries(s, a, a + n) /\ Carries(q, a + n, a + Len(t))
    <3>1. PICK e : e = a + Len(t)
      OBVIOUS
    <3>2. e \in Nat /\ a \in Nat
      BY <1>3, <2>1, <3>1
    <3>3. Carries(t, a, e) /\ s = SubSeq(t, 1, n) /\ q = SubSeq(t, n + 1, Len(t))
      BY <1>0, <2>2, <3>1
    <3>4. Carries(s, a, a + n) /\ Carries(q, a + n, e)
      <4>1. t \in Seq(Nat) /\ n \in 0..Len(t)
        BY <1>3
      <4>2. Carries(SubSeq(t, 1, n), a, a + n) /\ Carries(SubSeq(t, n + 1, Len(t)), a + n, e)
        BY <3>2, <3>3, <4>1, TakeFirst, Zenon
      <4> QED
        BY <3>3, <4>2, Zenon
    <3> QED
      BY <3>1, <3>4
  <2>4. a + n <= TextLen
    <3>1. Len(c) \in Nat /\ Len(c) = u - (a + Len(t))
      BY <1>2, <2>0, <2>2, LayerFacts DEF Carries
    <3> QED
      BY <1>3, <2>1, <3>1
  <2>6. /\ Carries(s, cut[i - 1], cut[i - 1] + Len(s)) /\ cut[i - 1] + Len(s) <= TextLen
        /\ new = [cut EXCEPT ![i - 1] = cut[i - 1] + Len(s)]
    BY <1>4, <2>0, <2>3, <2>4
  <2>7. Moved(i, cut, new, s)
    BY <1>1, <1>4, <1>5, <1>11, <2>6, ReadMovesCut
  <2>8. Len(filling') = Len(filling)
    BY <1>4, <1>5, ReadKeepsFills
  <2>9. new[0] = cut[0] /\ new[Len(handle)] = cut[Len(handle)]
    <3>1. 0 \in 0..Len(handle) /\ 0 # i - 1 /\ Len(handle) \in 0..Len(handle) /\ Len(handle) # i - 1
      BY <1>2
    <3> QED
      BY <2>7, <3>1 DEF Moved
  <2>10. ASSUME NEW k \in 1..(Len(handle) - Len(filling))
         PROVE  Rests(handle[k], new[k], new[k - 1])'
    <3>1. /\ k \in 1..Len(handle) /\ k \in 0..Len(handle) /\ k - 1 \in 0..Len(handle)
          /\ k - 1 # i - 1
      BY <1>2
    <3>2. new[k - 1] = cut[k - 1]
      BY <2>7, <3>1 DEF Moved
    <3>3. CASE k = i - 1
      <4>1. new[k] = a + n /\ new[k - 1] = u
        <5>1. k - 1 = i - 2
          BY <1>2, <3>3
        <5> QED
          BY <1>4, <2>7, <3>2, <3>3, <2>0, <5>1 DEF Moved
      <4>2. a + n + Len(q) = a + Len(t)
        BY <1>3, <1>4, <2>1
      <4>3. Carries(q, a + n, a + n + Len(q)) /\ Carries(c, a + n + Len(q), u)
        BY <2>2, <2>3, <4>2
      <4>4. handle'[k] = b /\ buffered'[b] = q /\ iols'[b].kept = c
        BY <1>2, <1>6, <2>0, <3>3
      <4>5. Rests(b, a + n, u)'
        BY <4>3, <4>4 DEF Rests, Carries
      <4> QED
        BY <1>2, <3>3, <4>1, <4>5
    <3>4. CASE k # i - 1
      <4>1. handle[k] # b /\ handle[k] \in Ltoks
        BY <1>2, <3>1, <3>4, Places, LayerFacts
      <4>2. Rests(handle[k], cut[k], cut[k - 1])
        BY <1>11 DEF CutsText
      <4>3. new[k] = cut[k]
        BY <2>7, <3>1, <3>4 DEF Moved
      <4>4. Rests(handle[k], cut[k], cut[k - 1])'
        BY <1>6, <4>1, <4>2 DEF Rests
      <4> QED
        BY <3>2, <4>3, <4>4
    <3> QED
      BY <3>3, <3>4
  <2>11. Carries(source', new[0], TextLen) /\ Carries(received', 0, new[Len(handle)])
    BY <1>11, <2>9 DEF CutsText, Carries
  <2>12. CutsText(new)'
    BY <2>7, <2>8, <2>10, <2>11 DEF CutsText, Moved, Carries
  <2> QED
    BY <2>12
<1> QED
  BY <1>10, <1>11 DEF TextIsCut

LEMMA ReadInv ==
  ASSUME LayerShape, NEW n \in 1..BufLen, TailRead(n)
  PROVE  LayerShape' /\ (TextIsCut => TextIsCut')
<1> DEFINE b == LayerBelow(Fill.l)
<1>1. /\ filling # << >> /\ n \in Nat /\ Fill.count + n <= BufLen
      /\ UNCHANGED <<defined, handle, layerTab, atEnd, iols, window, received, failed>>
  BY DEF TailRead
<1>2. CASE /\ b = NoLayer /\ n <= Len(source) /\ Place(SubSeq(source, 1, n))
           /\ source' = SubSeq(source, n + 1, Len(source)) /\ buffered' = buffered
  BY <1>1, <1>2, ReadSourceInv
<1>3. CASE /\ b # NoLayer /\ n <= Len(buffered[b]) /\ Place(SubSeq(buffered[b], 1, n))
           /\ buffered' = [buffered EXCEPT ![b] = SubSeq(@, n + 1, Len(@))] /\ source' = source
  <2>1. PICK x : x = b
    OBVIOUS
  <2> HIDE DEF b
  <2> QED
    BY <1>1, <1>3, <2>1, ReadBelowInv DEF b
<1> QED
  BY <1>2, <1>3 DEF TailRead

\* FilledSoFar of natural numbers.
LEMMA CutFacts ==
  ASSUME LayerShape, filling # << >>, NEW i, i = Len(handle) + 1 - Len(filling),
         NEW cut, CutsText(cut)
  PROVE  /\ cut[i] \in Nat /\ cut[i - 1] \in Nat
         /\ Fill.count = cut[i - 1] - cut[i]
         /\ \A k \in 1..Fill.count : bytes[BufAt[Fill.l] + k - 1] = cut[i] + k
<1>1. \A t \in Nat : \A x \in 0..t : x \in Nat
  OBVIOUS
<1>2. TextLen \in Nat
  BY LayerAssumption
<1>3. cut[i] \in 0..TextLen /\ cut[i - 1] \in 0..TextLen
  BY FilledSoFar
<1>4. cut[i] \in Nat /\ cut[i - 1] \in Nat
  BY <1>1, <1>2, <1>3, Zenon
<1> QED
  BY <1>4, FilledSoFar

\* The innermost Fill ends, that of l, the i-th layer.
LEMMA EndsFill ==
  ASSUME LayerShape, filling # << >>, NEW l, l = Fill.l, filling' = Front(filling),
         UNCHANGED <<defined, handle, layerTab, source, bytes, window, received>>,
         buffered' \in [Ltoks -> Seq(Nat)], iols' \in [Ltoks -> Iols],
         atEnd' \in [Ltoks -> BOOLEAN], failed' \in BOOLEAN,
         \A x \in Ltoks : x # l => buffered'[x] = buffered[x] /\ iols'[x] = iols[x],
         iols'[l].tab = iols[l].tab, Len(buffered'[l]) <= BufLen, Len(iols'[l].kept) <= 1
  PROVE  /\ LayerShape'
         /\ \A i, cut :
              /\ i = Len(handle) + 1 - Len(filling) /\ CutsText(cut)
              /\ Rests(l, cut[i], cut[i - 1])'
              => CutsText(cut)'
<1>0. PICK m, h : m = Len(filling) /\ h = Len(handle)
  OBVIOUS
<1>1. /\ m \in 1..m /\ m \in Nat /\ l \in Ltoks /\ l = filling[m].l /\ Len(handle) \in Nat
      /\ filling \in Seq(Fills) /\ m <= Len(handle)
  BY <1>0, LayerFacts, BelowFacts DEF LayerShape, LayerTypes, FillsFromTop
<1>2. /\ filling' \in Seq(Fills) /\ Len(filling') = m - 1
      /\ \A j \in 1..(m - 1) : filling'[j] = filling[j]
  <2>1. filling' = SubSeq(filling, 1, m - 1)
    BY <1>0 DEF Front
  <2>2. m - 1 \in Int /\ 1 \in Int /\ \A j \in 1..(m - 1) : filling[j] \in Fills
    BY <1>0, <1>1, LayerFacts
  <2>3. /\ filling' \in Seq(Fills)
        /\ Len(filling') = (IF 1 <= m - 1 THEN m - 1 - 1 + 1 ELSE 0)
        /\ \A j \in 1..(m - 1 - 1 + 1) : filling'[j] = filling[1 + j - 1]
    BY <2>1, <2>2, SubSeqProperties
  <2>4. Len(filling') = m - 1
    BY <1>1, <2>3
  <2>5. \A j \in 1..(m - 1) : filling'[j] = filling[j]
    BY <1>1, <2>3
  <2> QED
    BY <2>3, <2>4, <2>5
<1>3. ASSUME NEW j \in 1..(m - 1) PROVE j \in 1..m /\ filling[j].l # l /\ filling[j].l \in Ltoks
  <2>1. j \in 1..Len(filling) /\ Len(handle) + 1 - m \in 1..Len(handle)
        /\ Len(handle) + 1 - m # Len(handle) + 1 - j
    BY <1>0, <1>1
  <2>2. l = handle[Len(handle) + 1 - m]
    BY <1>0, <1>1, Places
  <2> QED
    BY <1>0, <2>1, <2>2, OtherFills, LayerFacts
<1>4. LayerTypes'
  <2>1. \A x \in Ltoks : Len(buffered'[x]) <= BufLen /\ Len(iols'[x].kept) <= 1
    BY DEF LayerShape, LayerTypes
  <2> QED
    BY <1>2, <2>1 DEF LayerShape, LayerTypes
<1>5. Stacked' /\ ShadowsFit'
  <2>1. \A x \in Ltoks : OnHandle(x)' <=> OnHandle(x)
    BY DEF OnHandle
  <2>2. OnHandle(l)
    BY <1>0, <1>1, Places DEF OnHandle
  <2>3. ShadowsFit'
    BY <2>1, <2>2 DEF LayerShape, ShadowsFit
  <2> QED
    BY <2>3 DEF LayerShape, Stacked
<1>6. FillsFromTop'
  <2>1. Len(filling') <= Len(handle') /\ window'.h = HostBase + window'.g
    BY <1>0, <1>1, <1>2 DEF LayerShape, FillsFromTop
  <2>2. ASSUME NEW j \in 1..(m - 1)
        PROVE  /\ filling'[j].l = handle'[Len(handle') + 1 - j]
               /\ filling'[j].buf = HostBase + BufAt[filling'[j].l]
               /\ buffered'[filling'[j].l] = << >> /\ iols'[filling'[j].l].kept = << >>
    <3>1. /\ filling'[j] = filling[j] /\ j \in 1..m /\ filling[j].l # l /\ filling[j].l \in Ltoks
      BY <1>2, <1>3
    <3>2. /\ filling[j].l = handle[Len(handle) + 1 - j]
          /\ filling[j].buf = HostBase + BufAt[filling[j].l]
          /\ buffered[filling[j].l] = << >> /\ iols[filling[j].l].kept = << >>
      BY <1>0, <3>1, Places
    <3> QED
      BY <3>1, <3>2
  <2> QED
    BY <1>2, <2>1, <2>2 DEF FillsFromTop
<1>7. ASSUME NEW i, NEW cut, i = Len(handle) + 1 - m, CutsText(cut),
             Rests(l, cut[i], cut[i - 1])'
      PROVE  CutsText(cut)'
  <2>1. /\ i \in 1..h /\ handle[i] = l /\ h \in Nat /\ i = h + 1 - m /\ handle' = handle
        /\ Len(filling') = m - 1
    BY <1>0, <1>1, <1>2, <1>7, BelowFacts
  <2>2. /\ cut \in [0..h -> 0..TextLen]
        /\ Carries(source, cut[0], TextLen) /\ Carries(received, 0, cut[h])
        /\ \A j \in 1..m : Filled(j, cut[h + 1 - j], cut[h - j])
        /\ \A k \in 1..(h - m) : Rests(handle[k], cut[k], cut[k - 1])
    BY <1>0, <1>7 DEF CutsText
  <2>3. ASSUME NEW j \in 1..(m - 1) PROVE Filled(j, cut[h + 1 - j], cut[h - j])'
    <3>1. Filled(j, cut[h + 1 - j], cut[h - j]) /\ filling'[j] = filling[j]
      BY <1>2, <1>3, <2>2
    <3>2. handle' = handle /\ bytes' = bytes
      OBVIOUS
    <3> QED
      BY <3>1, <3>2 DEF Filled
  <2>4. ASSUME NEW k \in 1..(h - (m - 1)) PROVE Rests(handle[k], cut[k], cut[k - 1])'
    <3>1. k = i \/ k \in 1..(h - m)
      BY <1>1, <2>1
    <3>2. CASE k = i
      BY <1>7, <2>1, <3>2
    <3>3. CASE k \in 1..(h - m)
      <4>1. k # i /\ k \in 1..h
        <5>1. h \in Nat /\ m \in Nat /\ i = h + 1 - m
          BY <1>1, <2>1
        <5>2. k \in 1..h /\ k # h + 1 - m
          BY <3>3, <5>1, PlacesBelow
        <5> QED
          BY <5>1, <5>2
      <4>2. handle[k] # l /\ handle[k] \in Ltoks
        <5>1. k \in 1..Len(handle) /\ i \in 1..Len(handle) /\ handle[i] = l
          BY <1>0, <2>1, <4>1
        <5>2. handle[k] \in Ltoks
          BY <5>1, LayerFacts
        <5>3. handle[k] = handle[i] => k = i
          BY <5>1, Places
        <5> QED
          BY <4>1, <5>1, <5>2, <5>3
      <4>3. Rests(handle[k], cut[k], cut[k - 1])
        BY <2>2, <3>3
      <4> QED
        BY <4>2, <4>3 DEF Rests
    <3> QED
      BY <3>1, <3>2, <3>3
  <2>5. Carries(source', cut[0], TextLen) /\ Carries(received', 0, cut[h])
    BY <2>2
  <2> QED
    BY <1>0, <2>1, <2>2, <2>3, <2>4, <2>5 DEF CutsText, Carries
<1>8. \A i, cut :
        /\ i = Len(handle) + 1 - Len(filling) /\ CutsText(cut) /\ Rests(l, cut[i], cut[i - 1])'
        => CutsText(cut)'
  BY <1>0, <1>7
<1> QED
  BY <1>4, <1>5, <1>6, <1>8 DEF LayerShape

LEMMA EndInv ==
  ASSUME LayerShape, NEW keep \in 0..1, EndFill(keep)
  PROVE  LayerShape' /\ (TextIsCut => TextIsCut')
<1> DEFINE l == Fill.l
           n == Fill.count
           got == [k \in 1..n |-> bytes[BufAt[l] + k - 1]]
           first == SubSeq(got, 1, n - keep)
           rest == SubSeq(got, n - keep + 1, n)
<1>1. /\ filling # << >> /\ n > keep /\ filling' = Front(filling)
      /\ buffered' = [buffered EXCEPT ![l] = first]
      /\ iols' = [iols EXCEPT ![l].kept = rest]
      /\ UNCHANGED <<defined, handle, layerTab, atEnd, source, bytes, window, received, failed>>
  BY DEF EndFill
<1>2. /\ l \in Ltoks /\ n \in 0..BufLen /\ BufLen \in Nat /\ BufAt[l] \in Nat
      /\ buffered \in [Ltoks -> Seq(Nat)] /\ iols \in [Ltoks -> Iols]
      /\ bytes \in [Memory -> Nat]
  BY <1>1, BelowFacts, LayerFacts, LayerAssumption DEF LayerShape, LayerTypes
<1>3. got \in Seq(Nat) /\ Len(got) = n
  <2>1. \A k \in 1..n : BufAt[l] + k - 1 \in Memory
    <3> SUFFICES ASSUME NEW k \in 1..n PROVE BufAt[l] + k - 1 \in Cell(l)
      BY <1>2 DEF Memory
    <3> HIDE DEF l, n
    <3> QED
      BY <1>2 DEF Cell
  <2>2. got \in [1..n -> Nat] /\ n \in Nat
    BY <1>2, <2>1
  <2> HIDE DEF got
  <2>3. got \in Seq(Nat)
    BY <2>2, SeqDef
  <2> QED
    BY <2>2, <2>3, LenProperties
<1>4. /\ first \in Seq(Nat) /\ Len(first) = n - keep
      /\ rest \in Seq(Nat) /\ Len(rest) = keep
  <2> HIDE DEF got, n
  <2>1. /\ n - keep \in Int /\ n - keep + 1 \in Int /\ n \in Int
        /\ \A k \in 1..(n - keep) : got[k] \in Nat
        /\ \A k \in (n - keep + 1)..n : got[k] \in Nat
    <3>1. \A k \in 1..n : got[k] \in Nat
      BY <1>3, ElementOfSeq
    <3> QED
      BY <1>1, <1>2, <3>1
  <2>2. first \in Seq(Nat) /\ Len(first) = (IF 1 <= n - keep THEN n - keep - 1 + 1 ELSE 0)
    BY <2>1, SubSeqProperties
  <2>3. /\ rest \in Seq(Nat)
        /\ Len(rest) = (IF n - keep + 1 <= n THEN n - (n - keep + 1) + 1 ELSE 0)
    BY <2>1, SubSeqProperties
  <2> HIDE DEF first, rest
  <2>4. Len(first) = n - keep
    BY <1>1, <1>2, <2>2
  <2>5. Len(rest) = keep
    BY <1>1, <1>2, <2>3
  <2> QED
    BY <2>2, <2>3, <2>4, <2>5
<1> HIDE DEF first, rest
<1>5. /\ buffered' \in [Ltoks -> Seq(Nat)] /\ buffered'[l] = first
      /\ \A x \in Ltoks : x # l => buffered'[x] = buffered[x]
  BY <1>1, <1>2, <1>4
<1>6. /\ iols' \in [Ltoks -> Iols] /\ iols'[l].tab = iols[l].tab /\ iols'[l].kept = rest
      /\ \A x \in Ltoks : x # l => iols'[x] = iols[x]
  <2>1. PICK r \in Iols : r = iols[l]
    BY <1>2
  <2>2. /\ [r EXCEPT !.kept = rest] \in Iols
        /\ [r EXCEPT !.kept = rest].tab = r.tab /\ [r EXCEPT !.kept = rest].kept = rest
    BY <1>4 DEF Iols
  <2>3. iols' = [iols EXCEPT ![l] = [r EXCEPT !.kept = rest]]
    BY <1>1, <2>1
  <2> QED
    BY <1>2, <2>1, <2>2, <2>3
<1>7. /\ Len(buffered'[l]) <= BufLen /\ Len(iols'[l].kept) <= 1
      /\ atEnd' \in [Ltoks -> BOOLEAN] /\ failed' \in BOOLEAN
  <2>1. n - keep <= BufLen /\ keep <= 1
    BY <1>2
  <2> QED
    BY <1>1, <1>4, <1>5, <1>6, <2>1 DEF LayerShape, LayerTypes
<1>8. PICK i : i = Len(handle) + 1 - Len(filling)
  OBVIOUS
<1>9. PICK x : x = l
  OBVIOUS
<1>10. ASSUME NEW cut, CutsText(cut) PROVE Rests(x, cut[i], cut[i - 1])'
  <2>1. /\ cut[i] \in Nat /\ cut[i - 1] \in Nat /\ n = cut[i - 1] - cut[i]
        /\ \A k \in 1..n : bytes[BufAt[l] + k - 1] = cut[i] + k
    BY <1>1, <1>8, <1>10, CutFacts
  <2>2. Carries(got, cut[i], cut[i - 1])
    BY <1>3, <2>1 DEF Carries
  <2>3. n - keep \in 0..Len(got)
    <3> HIDE DEF n, got
    <3> QED
      BY <1>1, <1>2, <1>3
  <2> HIDE DEF got, n
  <2>4. Carries(first, cut[i], cut[i] + (n - keep)) /\ Carries(rest, cut[i] + (n - keep), cut[i - 1])
    <3>1. PICK k, g, u, v : k = n - keep /\ g = got /\ u = cut[i] /\ v = cut[i - 1]
      OBVIOUS
    <3>2. /\ g \in Seq(Nat) /\ Len(g) = n /\ k \in 0..Len(g) /\ Carries(g, u, v)
          /\ u \in Nat /\ v \in Nat
      BY <1>3, <2>1, <2>2, <2>3, <3>1
    <3>3. Carries(SubSeq(g, 1, k), u, u + k) /\ Carries(SubSeq(g, k + 1, Len(g)), u + k, v)
      BY <3>2, TakeFirst, Zenon
    <3>4. first = SubSeq(g, 1, k) /\ rest = SubSeq(g, k + 1, Len(g))
      BY <3>1, <3>2 DEF first, rest
    <3> QED
      BY <3>1, <3>3, <3>4
  <2>5. buffered'[x] = first /\ iols'[x].kept = rest
    BY <1>5, <1>6, <1>9
  <2> QED
    BY <1>4, <2>4, <2>5 DEF Rests, Carries
<1> HIDE DEF l
<1>11. LayerShape' /\ \A cut : CutsText(cut) => CutsText(cut)'
  BY <1>1, <1>5, <1>6, <1>7, <1>8, <1>9, <1>10, EndsFill DEF l
<1> QED
  BY <1>1, <1>11 DEF TextIsCut

LEMMA EndOfFillInv ==
  ASSUME LayerShape, EndOfFill PROVE LayerShape' /\ (TextIsCut => TextIsCut')
<1>1. PICK l : l = Fill.l
  OBVIOUS
<1>2. /\ filling # << >> /\ Fill.count = 0 /\ filling' = Front(filling)
      /\ atEnd' = [atEnd EXCEPT ![l] = TRUE]
      /\ UNCHANGED <<defined, handle, layerTab, buffered, source, bytes, iols, window, received, failed>>
  BY <1>1 DEF EndOfFill
<1>3. /\ l \in Ltoks /\ buffered[l] = << >> /\ iols[l].kept = << >> /\ BufLen \in Nat
      /\ Len(filling) \in 1..Len(filling) /\ l = filling[Len(filling)].l
  BY <1>1, <1>2, BelowFacts, Places, LayerAssumption
<1>4. /\ buffered' \in [Ltoks -> Seq(Nat)] /\ iols' \in [Ltoks -> Iols]
      /\ atEnd' \in [Ltoks -> BOOLEAN] /\ failed' \in BOOLEAN
      /\ Len(buffered'[l]) <= BufLen /\ Len(iols'[l].kept) <= 1
  BY <1>2, <1>3 DEF LayerShape, LayerTypes
<1>5. PICK i : i = Len(handle) + 1 - Len(filling)
  OBVIOUS
<1>6. ASSUME NEW cut, CutsText(cut) PROVE Rests(l, cut[i], cut[i - 1])'
  <2>1. cut[i] \in Nat /\ cut[i - 1] \in Nat /\ 0 = cut[i - 1] - cut[i]
    BY <1>2, <1>5, <1>6, CutFacts
  <2>2. Len(<< >>) = 0 /\ cut[i] + 0 = cut[i] /\ cut[i - 1] = cut[i]
    BY <2>1
  <2> QED
    BY <1>2, <1>3, <2>1, <2>2 DEF Rests, Carries
<1>7. LayerShape' /\ \A cut : CutsText(cut) => CutsText(cut)'
  BY <1>1, <1>2, <1>4, <1>5, <1>6, EndsFill
<1> QED
  BY <1>2, <1>7 DEF TextIsCut

LEMMA CroakInv ==
  ASSUME LayerShape, CroakInFill PROVE LayerShape' /\ (TextIsCut => TextIsCut')
<1>1. PICK l : l = Fill.l
  OBVIOUS
<1>2. /\ filling # << >> /\ filling' = Front(filling) /\ failed' = TRUE
      /\ atEnd' = [atEnd EXCEPT ![l] = TRUE]
      /\ UNCHANGED <<defined, handle, layerTab, buffered, source, bytes, iols, window, received>>
  BY <1>1 DEF CroakInFill
<1>3. l \in Ltoks
  BY <1>1, <1>2, BelowFacts
<1>4. /\ buffered' \in [Ltoks -> Seq(Nat)] /\ iols' \in [Ltoks -> Iols]
      /\ atEnd' \in [Ltoks -> BOOLEAN] /\ failed' \in BOOLEAN
      /\ Len(buffered'[l]) <= BufLen /\ Len(iols'[l].kept) <= 1
  BY <1>2, <1>3 DEF LayerShape, LayerTypes
<1> QED
  BY <1>1, <1>2, <1>4, EndsFill DEF TextIsCut

-------------------------------------------------------------------------------
(* Steps between Fills.                                                    *)

\* When no Fill runs, the cuts are of layers at rest.
LEMMA AtRestCuts ==
  ASSUME Len(filling) = 0, Len(handle) \in Nat, NEW cut
  PROVE  CutsText(cut) <=>
           /\ cut \in [0..Len(handle) -> 0..TextLen]
           /\ Carries(source, cut[0], TextLen) /\ Carries(received, 0, cut[Len(handle)])
           /\ \A i \in 1..Len(handle) : Rests(handle[i], cut[i], cut[i - 1])
<1>1. 1..Len(filling) = {} /\ Len(handle) - Len(filling) = Len(handle)
  OBVIOUS
<1> QED
  BY <1>1 DEF CutsText

LEMMA NextAtRest ==
  ASSUME NEW n \in Nat, Len(handle') = n, Len(filling') = 0, NEW cut,
         cut \in [0..n -> 0..TextLen],
         Carries(source', cut[0], TextLen), Carries(received', 0, cut[n]),
         \A i \in 1..n : Rests(handle[i], cut[i], cut[i - 1])'
  PROVE  CutsText(cut)'
<1>1. 1..Len(filling') = {} /\ n - Len(filling') = n
  OBVIOUS
<1> QED
  BY <1>1 DEF CutsText, Carries

LEMMA PushInv ==
  ASSUME LayerShape, NEW l \in Ltoks, NEW tab \in Tabs, PushLayer(l, tab)
  PROVE  LayerShape' /\ (TextIsCut => TextIsCut')
<1>0. PICK n, r : n = Len(handle) /\ r = [tab |-> tab, kept |-> << >>]
  OBVIOUS
<1>1. /\ filling = << >> /\ handle' = Append(handle, l) /\ layerTab' = [layerTab EXCEPT ![l] = tab]
      /\ atEnd' = [atEnd EXCEPT ![l] = FALSE] /\ iols' = IolShadow(tab, l)
      /\ UNCHANGED <<defined, buffered, source, bytes, window, filling, received, failed>>
      /\ l \notin Range(handle)
  BY DEF PushLayer
<1>2. /\ n \in Nat /\ DOMAIN handle = 1..n /\ handle \in Seq(Ltoks) /\ Len(filling) = 0
      /\ layerTab \in [Ltoks -> Tabs \cup {NoLayer}] /\ iols \in [Ltoks -> Iols]
      /\ \A i \in 1..n : handle[i] \in Ltoks
  BY <1>0, <1>1, LayerFacts DEF LayerShape, LayerTypes
<1>3. \A i \in 1..n : handle[i] # l
  BY <1>1, <1>2 DEF Range
<1>4. iols[l] = NoIol /\ buffered[l] = << >>
  BY <1>0, <1>3 DEF LayerShape, ShadowsFit, OnHandle
<1>5. iols' = [iols EXCEPT ![l] = r]
  BY <1>0, <1>1, <1>4 DEF IolShadow
<1>6. r \in Iols /\ r.tab = tab /\ r.kept = << >>
  BY <1>0, EmptySeq DEF Iols
<1>7. /\ handle' \in Seq(Ltoks) /\ Len(handle') = n + 1 /\ handle'[n + 1] = l
      /\ \A i \in 1..n : handle'[i] = handle[i]
  BY <1>0, <1>1, <1>2, AppendProperties
<1>8. /\ iols' \in [Ltoks -> Iols] /\ iols'[l] = r
      /\ layerTab' \in [Ltoks -> Tabs \cup {NoLayer}] /\ layerTab'[l] = tab
      /\ \A x \in Ltoks : x # l => iols'[x] = iols[x] /\ layerTab'[x] = layerTab[x]
  BY <1>1, <1>2, <1>5, <1>6
<1>9. LayerTypes'
  <2>1. \A x \in Ltoks : Len(buffered'[x]) <= BufLen /\ Len(iols'[x].kept) <= 1
    <3>1. Len(r.kept) <= 1
      BY <1>6, EmptySeq
    <3> QED
      BY <1>1, <1>8, <3>1 DEF LayerShape, LayerTypes
  <2> QED
    BY <1>1, <1>7, <1>8, <2>1 DEF LayerShape, LayerTypes
<1>10. Stacked'
  <2> SUFFICES ASSUME NEW i \in 1..(n + 1), NEW k \in 1..(n + 1), handle'[i] = handle'[k]
               PROVE  i = k
    BY <1>7 DEF Stacked
  <2>1. (i = n + 1 \/ i \in 1..n) /\ (k = n + 1 \/ k \in 1..n)
    BY <1>2
  <2> QED
    BY <1>0, <1>3, <1>7, <2>1 DEF LayerShape, Stacked
<1>11. ShadowsFit'
  <2>1. ASSUME NEW x \in Ltoks PROVE OnHandle(x)' <=> OnHandle(x) \/ x = l
    <3>1. n + 1 \in 1..(n + 1) /\ \A i \in 1..(n + 1) : i = n + 1 \/ i \in 1..n
      BY <1>2
    <3>2. \A i \in 1..n : i \in 1..(n + 1)
      BY <1>2
    <3> QED
      BY <1>0, <1>7, <3>1, <3>2 DEF OnHandle
  <2> QED
    BY <1>1, <1>6, <1>8, <2>1 DEF LayerShape, ShadowsFit
<1>12. FillsFromTop'
  <2>1. 1..Len(filling') = {} /\ Len(filling') <= Len(handle')
    BY <1>1, <1>2, <1>7
  <2> QED
    BY <1>1, <2>1 DEF FillsFromTop
<1>13. ASSUME NEW cut, CutsText(cut) PROVE \E new : CutsText(new)'
  <2> DEFINE new == [i \in 0..(n + 1) |-> IF i = n + 1 THEN cut[n] ELSE cut[i]]
  <2>1. /\ cut \in [0..n -> 0..TextLen]
        /\ Carries(source, cut[0], TextLen) /\ Carries(received, 0, cut[n])
        /\ \A i \in 1..n : Rests(handle[i], cut[i], cut[i - 1])
    BY <1>0, <1>2, <1>13, AtRestCuts
  <2>2. /\ 0 \in 0..n /\ n \in 0..n /\ n + 1 # 0
        /\ \A i \in 0..(n + 1) : i # n + 1 => i \in 0..n
        /\ \A i \in 0..n : i \in 0..(n + 1) /\ i # n + 1
    BY <1>2
  <2>3. new \in [0..(n + 1) -> 0..TextLen]
    BY <2>1, <2>2
  <2>4. new[n + 1] = cut[n] /\ \A i \in 0..n : new[i] = cut[i]
    BY <2>2
  <2> HIDE DEF new
  <2>5. Carries(source', new[0], TextLen) /\ Carries(received', 0, new[n + 1])
    BY <1>1, <2>1, <2>2, <2>4 DEF Carries
  <2>6. ASSUME NEW i \in 1..(n + 1) PROVE Rests(handle[i], new[i], new[i - 1])'
    <3>1. CASE i \in 1..n
      <4>1. i \in 0..n /\ i - 1 \in 0..n
        BY <1>2, <3>1
      <4>2. Rests(handle[i], cut[i], cut[i - 1]) /\ handle[i] # l /\ handle[i] \in Ltoks
        BY <1>2, <1>3, <2>1, <3>1
      <4>3. new[i] = cut[i] /\ new[i - 1] = cut[i - 1] /\ handle'[i] = handle[i]
        BY <1>7, <2>4, <3>1, <4>1
      <4> QED
        <5>1. PICK x \in Ltoks : x = handle[i]
          BY <4>2
        <5>2. x # l /\ handle'[i] = x /\ Rests(x, new[i], new[i - 1])
          BY <4>2, <4>3, <5>1
        <5>3. iols'[x] = iols[x] /\ buffered'[x] = buffered[x]
          BY <1>1, <1>8, <5>2
        <5> QED
          BY <5>2, <5>3 DEF Rests, Carries
    <3>2. CASE i = n + 1
      <4>1. new[i] = cut[n] /\ new[i - 1] = cut[n] /\ cut[n] \in Nat
        <5>1. i - 1 = n
          BY <1>2, <3>2
        <5>2. cut[n] \in 0..TextLen /\ TextLen \in Nat
          BY <2>1, <2>2, LayerAssumption
        <5>3. cut[n] \in Nat
          BY <5>2
        <5> QED
          BY <2>2, <2>4, <3>2, <5>1, <5>3
      <4>2. Len(<< >>) = 0 /\ 0 = cut[n] + 0 - cut[n] /\ cut[n] + 0 = cut[n] /\ 0 = cut[n] - cut[n]
        BY <4>1
      <4>3. handle'[i] = l /\ buffered'[l] = << >> /\ iols'[l].kept = << >>
        BY <1>1, <1>4, <1>6, <1>7, <1>8, <3>2
      <4> QED
        BY <4>1, <4>2, <4>3 DEF Rests, Carries
    <3> QED
      BY <1>2, <3>1, <3>2
  <2>7. Len(handle') = n + 1 /\ Len(filling') = 0 /\ n + 1 \in Nat
    BY <1>1, <1>2, <1>7
  <2>8. CutsText(new)'
    BY <2>3, <2>5, <2>6, <2>7, NextAtRest
  <2> QED
    BY <2>8
<1> QED
  BY <1>1, <1>9, <1>10, <1>11, <1>12, <1>13 DEF LayerShape, TextIsCut

LEMMA PopInv ==
  ASSUME LayerShape, PopLayer PROVE LayerShape' /\ (TextIsCut => TextIsCut')
<1>0. PICK n : n = Len(handle)
  OBVIOUS
<1>1. PICK l : l = Last(handle)
  OBVIOUS
<1>2. /\ filling = << >> /\ handle # << >> /\ buffered[l] = << >> /\ iols[l].kept = << >>
      /\ handle' = Front(handle) /\ layerTab' = [layerTab EXCEPT ![l] = NoLayer]
      /\ iols' = [iols EXCEPT ![l] = NoIol]
      /\ UNCHANGED <<defined, buffered, atEnd, source, bytes, window, filling, received, failed>>
  BY <1>1 DEF PopLayer
<1>3. /\ n \in Nat /\ n \in 1..n /\ l = handle[n] /\ handle \in Seq(Ltoks) /\ Len(filling) = 0
      /\ layerTab \in [Ltoks -> Tabs \cup {NoLayer}] /\ iols \in [Ltoks -> Iols]
      /\ \A i \in 1..n : handle[i] \in Ltoks
  BY <1>0, <1>1, <1>2, LayerFacts DEF LayerShape, LayerTypes
<1>4. /\ handle' \in Seq(Ltoks) /\ Len(handle') = n - 1
      /\ \A i \in 1..(n - 1) : handle'[i] = handle[i]
  <2>1. handle' = SubSeq(handle, 1, n - 1)
    BY <1>0, <1>2 DEF Front
  <2>2. n - 1 \in Int /\ 1 \in Int /\ \A i \in 1..(n - 1) : handle[i] \in Ltoks
    BY <1>3
  <2>3. /\ handle' \in Seq(Ltoks)
        /\ Len(handle') = (IF 1 <= n - 1 THEN n - 1 - 1 + 1 ELSE 0)
        /\ \A i \in 1..(n - 1 - 1 + 1) : handle'[i] = handle[1 + i - 1]
    BY <2>1, <2>2, SubSeqProperties
  <2>4. Len(handle') = n - 1
    BY <1>3, <2>3
  <2>5. \A i \in 1..(n - 1) : handle'[i] = handle[i]
    BY <1>3, <2>3
  <2> QED
    BY <2>3, <2>4, <2>5
<1>5. \A i \in 1..(n - 1) : i \in 1..n /\ i # n /\ handle[i] # l
  <2>1. \A i \in 1..(n - 1) : i \in 1..n /\ i # n
    BY <1>3
  <2> QED
    BY <1>0, <1>3, <2>1 DEF LayerShape, Stacked
<1>6. NoIol \in Iols /\ NoIol.kept = << >>
  BY EmptySeq DEF NoIol, Iols
<1>7. /\ iols' \in [Ltoks -> Iols] /\ iols'[l] = NoIol
      /\ layerTab' \in [Ltoks -> Tabs \cup {NoLayer}]
      /\ \A x \in Ltoks : x # l => iols'[x] = iols[x] /\ layerTab'[x] = layerTab[x]
  BY <1>2, <1>3, <1>6
<1>8. LayerTypes'
  <2>1. \A x \in Ltoks : Len(buffered'[x]) <= BufLen /\ Len(iols'[x].kept) <= 1
    <3>1. Len(NoIol.kept) <= 1
      BY <1>6, EmptySeq
    <3> QED
      BY <1>2, <1>7, <3>1 DEF LayerShape, LayerTypes
  <2> QED
    BY <1>2, <1>4, <1>7, <2>1 DEF LayerShape, LayerTypes
<1>9. Stacked'
  BY <1>0, <1>4, <1>5 DEF LayerShape, Stacked
<1>10. ShadowsFit'
  <2>1. ASSUME NEW x \in Ltoks PROVE OnHandle(x)' <=> OnHandle(x) /\ x # l
    <3>1. \A i \in 1..n : i \in 1..(n - 1) \/ i = n
      BY <1>3
    <3> QED
      BY <1>0, <1>3, <1>4, <1>5, <3>1 DEF OnHandle
  <2> QED
    BY <1>2, <1>7, <2>1 DEF LayerShape, ShadowsFit
<1>11. FillsFromTop'
  <2>1. Len(filling') <= Len(handle')
    BY <1>2, <1>3, <1>4
  <2>2. 1..Len(filling') = {}
    BY <1>2, <1>3
  <2> QED
    BY <1>2, <2>1, <2>2 DEF FillsFromTop
<1>12. ASSUME NEW cut, CutsText(cut) PROVE \E new : CutsText(new)'
  <2> DEFINE new == [i \in 0..(n - 1) |-> cut[i]]
  <2>1. /\ cut \in [0..n -> 0..TextLen]
        /\ Carries(source, cut[0], TextLen) /\ Carries(received, 0, cut[n])
        /\ \A i \in 1..n : Rests(handle[i], cut[i], cut[i - 1])
    BY <1>0, <1>3, <1>12, AtRestCuts
  <2>2. /\ 0 \in 0..(n - 1) /\ n - 1 \in 0..(n - 1) /\ n \in 0..n /\ n - 1 \in 0..n
        /\ \A i \in 0..(n - 1) : i \in 0..n
    BY <1>3
  <2>3. new \in [0..(n - 1) -> 0..TextLen] /\ \A i \in 0..(n - 1) : new[i] = cut[i]
    BY <2>1, <2>2
  <2>4. cut[n - 1] = cut[n]
    <3>1. Rests(l, cut[n], cut[n - 1])
      BY <1>3, <2>1
    <3>2. Len(<< >>) = 0 /\ 0 = cut[n - 1] - (cut[n] + 0)
      BY <1>2, <3>1, EmptySeq DEF Rests, Carries
    <3>3. cut[n] \in 0..TextLen /\ cut[n - 1] \in 0..TextLen /\ TextLen \in Nat
      BY <2>1, <2>2, LayerAssumption
    <3> QED
      BY <3>2, <3>3
  <2> HIDE DEF new
  <2>5. Carries(source', new[0], TextLen) /\ Carries(received', 0, new[n - 1])
    BY <1>2, <2>1, <2>2, <2>3, <2>4 DEF Carries
  <2>6. ASSUME NEW i \in 1..(n - 1) PROVE Rests(handle[i], new[i], new[i - 1])'
    <3>1. i \in 0..(n - 1) /\ i - 1 \in 0..(n - 1) /\ i \in 1..n
      BY <1>3
    <3>2. Rests(handle[i], cut[i], cut[i - 1]) /\ handle[i] # l /\ handle[i] \in Ltoks
      BY <1>3, <1>5, <2>1, <3>1
    <3>3. new[i] = cut[i] /\ new[i - 1] = cut[i - 1] /\ handle'[i] = handle[i]
      BY <1>4, <2>3, <3>1
    <3> QED
      BY <1>2, <1>7, <3>2, <3>3 DEF Rests, Carries
  <2>7. Len(handle') = n - 1 /\ Len(filling') = 0 /\ n - 1 \in Nat
    BY <1>2, <1>3, <1>4
  <2>8. CutsText(new)'
    BY <2>3, <2>5, <2>6, <2>7, NextAtRest
  <2> QED
    BY <2>8
<1> QED
  BY <1>2, <1>8, <1>9, <1>10, <1>11, <1>12 DEF LayerShape, TextIsCut

LEMMA ReaderInv ==
  ASSUME LayerShape, ReadUnit PROVE LayerShape' /\ (TextIsCut => TextIsCut')
<1>0. PICK n : n = Len(handle)
  OBVIOUS
<1>1. PICK l : l = Last(handle)
  OBVIOUS
<1>2. PICK s : s = buffered[l]
  OBVIOUS
<1>3. /\ filling = << >> /\ handle # << >> /\ s # << >>
      /\ received' = Append(received, Head(s)) /\ buffered' = [buffered EXCEPT ![l] = Tail(s)]
      /\ UNCHANGED <<defined, handle, layerTab, atEnd, source, bytes, iols, window, filling, failed>>
  BY <1>1, <1>2 DEF ReadUnit
<1>4. /\ n \in Nat /\ n \in 1..n /\ l = handle[n] /\ l \in Ltoks /\ Len(filling) = 0
      /\ s \in Seq(Nat) /\ Len(s) \in Nat /\ Len(s) <= BufLen /\ received \in Seq(Nat)
      /\ buffered \in [Ltoks -> Seq(Nat)] /\ BufLen \in Nat /\ OnHandle(l)
      /\ \A i \in 1..n : handle[i] \in Ltoks
  <2>1. /\ n \in Nat /\ n \in 1..n /\ l = handle[n] /\ Len(filling) = 0
        /\ \A i \in 1..n : handle[i] \in Ltoks
    BY <1>0, <1>1, <1>3, LayerFacts
  <2>2. l \in Ltoks /\ OnHandle(l)
    BY <1>0, <2>1 DEF OnHandle
  <2>3. s \in Seq(Nat) /\ Len(s) \in Nat /\ Len(s) <= BufLen
    BY <1>2, <2>2, LayerFacts
  <2>4. received \in Seq(Nat) /\ buffered \in [Ltoks -> Seq(Nat)] /\ BufLen \in Nat
    BY LayerAssumption DEF LayerShape, LayerTypes
  <2> QED
    BY <2>1, <2>2, <2>3, <2>4
<1>5. /\ Head(s) = s[1] /\ Head(s) \in Nat /\ Tail(s) \in Seq(Nat)
      /\ Len(Tail(s)) = Len(s) - 1 /\ Len(s) > 0
      /\ \A k \in 1..(Len(s) - 1) : Tail(s)[k] = s[k + 1]
  BY <1>3, <1>4, HeadTailProperties, EmptySeq
<1>6. /\ buffered' \in [Ltoks -> Seq(Nat)] /\ buffered'[l] = Tail(s)
      /\ \A x \in Ltoks : x # l => buffered'[x] = buffered[x]
  BY <1>3, <1>4, <1>5
<1>7. /\ received' \in Seq(Nat) /\ Len(received') = Len(received) + 1 /\ Len(received) \in Nat
      /\ received'[Len(received) + 1] = Head(s)
      /\ \A k \in 1..Len(received) : received'[k] = received[k]
  BY <1>3, <1>4, <1>5, AppendProperties, LenProperties
<1>8. LayerShape'
  <2>1. Len(Tail(s)) <= BufLen
    BY <1>4, <1>5
  <2>2. LayerTypes'
    <3>1. \A x \in Ltoks : Len(buffered'[x]) <= BufLen /\ Len(iols'[x].kept) <= 1
      BY <1>3, <1>6, <2>1 DEF LayerShape, LayerTypes
    <3> QED
      BY <1>3, <1>6, <1>7, <3>1 DEF LayerShape, LayerTypes
  <2>3. \A x \in Ltoks : OnHandle(x)' <=> OnHandle(x)
    BY <1>3 DEF OnHandle
  <2>4. Stacked' /\ ShadowsFit'
    BY <1>3, <1>4, <1>6, <2>3 DEF LayerShape, Stacked, ShadowsFit
  <2>5. FillsFromTop'
    <3>1. 1..Len(filling') = {} /\ Len(filling') <= Len(handle')
      BY <1>3, <1>4
    <3> QED
      BY <1>3, <3>1 DEF FillsFromTop
  <2> QED
    BY <2>2, <2>4, <2>5 DEF LayerShape
<1>9. ASSUME NEW cut, CutsText(cut) PROVE \E new : CutsText(new)'
  <2>0. PICK a, new, c : a = cut[n] /\ new = [cut EXCEPT ![n] = a + 1] /\ c = iols[l].kept
    OBVIOUS
  <2>1. /\ cut \in [0..n -> 0..TextLen]
        /\ Carries(source, cut[0], TextLen) /\ Carries(received, 0, a)
        /\ \A i \in 1..n : Rests(handle[i], cut[i], cut[i - 1])
    BY <1>0, <1>4, <1>9, <2>0, AtRestCuts
  <2>2. 0 \in 0..n /\ 0 # n /\ n \in 0..n /\ n - 1 \in 0..n /\ n - 1 # n
    BY <1>4
  <2>3. a \in 0..TextLen /\ cut[n - 1] \in 0..TextLen /\ TextLen \in Nat /\ a \in Nat
    <3>1. a \in 0..TextLen /\ cut[n - 1] \in 0..TextLen /\ TextLen \in Nat
      BY <2>0, <2>1, <2>2, LayerAssumption
    <3> QED
      BY <3>1
  <2>4. Carries(s, a, a + Len(s)) /\ Carries(c, a + Len(s), cut[n - 1])
    BY <1>2, <1>4, <2>0, <2>1 DEF Rests
  <2>5. a + 1 \in 0..TextLen
    <3>1. Len(c) \in Nat /\ Len(c) = cut[n - 1] - (a + Len(s))
      BY <1>4, <2>0, <2>4, LayerFacts DEF Carries
    <3> QED
      BY <1>4, <1>5, <2>3, <3>1
  <2>6. /\ new \in [0..n -> 0..TextLen] /\ new[n] = a + 1
        /\ \A i \in 0..n : i # n => new[i] = cut[i]
    BY <2>0, <2>1, <2>2, <2>5
  <2>7. Carries(received', 0, a + 1)
    <3>1. Len(received) = a - 0 /\ \A k \in 1..Len(received) : received[k] = 0 + k
      BY <2>1 DEF Carries
    <3>2. Len(received) = a /\ Head(s) = a + 1
      <4>1. 1 \in 1..Len(s)
        BY <1>4, <1>5
      <4>2. s[1] = a + 1
        BY <2>4, <4>1 DEF Carries
      <4> QED
        BY <1>5, <2>3, <3>1, <4>2
    <3>3. ASSUME NEW k \in 1..(a + 1) PROVE received'[k] = 0 + k
      <4>1. CASE k = a + 1
        BY <1>7, <2>3, <3>2, <4>1
      <4>2. CASE k \in 1..a
        BY <1>7, <3>1, <3>2, <4>2
      <4> QED
        BY <2>3, <4>1, <4>2
    <3>4. Len(received') = a + 1 /\ a + 1 = (a + 1) - 0
      BY <1>7, <2>3, <3>2
    <3> QED
      BY <3>3, <3>4 DEF Carries
  <2>8. ASSUME NEW i \in 1..n PROVE Rests(handle[i], new[i], new[i - 1])'
    <3>1. i \in 0..n /\ i - 1 \in 0..n /\ i - 1 # n
      BY <1>4
    <3>2. new[i - 1] = cut[i - 1] /\ Rests(handle[i], cut[i], cut[i - 1])
      BY <2>1, <2>6, <3>1
    <3>3. CASE i = n
      <4>1. a + 1 + Len(Tail(s)) = a + Len(s)
        BY <1>4, <1>5, <2>3
      <4>2. Carries(Tail(s), a + 1, a + Len(s))
        <5>1. PICK t, e : t = Tail(s) /\ e = Len(s)
          OBVIOUS
        <5>4. Len(t) = e - 1 /\ e \in Nat
          BY <1>4, <1>5, <5>1
        <5>2. ASSUME NEW k \in 1..Len(t) PROVE t[k] = a + 1 + k
          <6>0. k \in 1..(Len(s) - 1)
            BY <5>1, <5>4
          <6>1. k + 1 \in 1..Len(s)
            BY <1>4, <6>0
          <6>2. s[k + 1] = a + (k + 1)
            BY <2>4, <6>1 DEF Carries
          <6> QED
            BY <1>5, <2>3, <5>1, <6>0, <6>2
        <5>3. Carries(t, a + 1, a + e)
          <6>1. PICK u, v : u = a + 1 /\ v = a + e
            OBVIOUS
          <6>2. Len(t) = v - u /\ \A k \in 1..Len(t) : t[k] = u + k
            <7>1. Len(t) = v - u
              BY <2>3, <5>4, <6>1
            <7>2. a \in Nat /\ u = a + 1
              BY <2>3, <6>1
            <7> QED
              BY <5>2, <7>1, <7>2
          <6>3. Carries(t, u, v)
            BY <6>2 DEF Carries
          <6> QED
            BY <6>1, <6>3
        <5> QED
          BY <5>1, <5>3
      <4>3. handle[i] = l /\ buffered'[l] = Tail(s) /\ iols'[l].kept = c /\ new[i] = a + 1
        BY <1>3, <1>4, <1>6, <2>0, <2>6, <3>3
      <4>4. Carries(c, a + 1 + Len(Tail(s)), cut[i - 1])
        BY <2>4, <3>3, <4>1
      <4> QED
        BY SMTT(30), <1>3, <3>2, <4>1, <4>2, <4>3, <4>4 DEF Rests, Carries
    <3>4. CASE i # n
      <4>1. handle[i] # l /\ handle[i] \in Ltoks /\ new[i] = cut[i]
        BY <1>4, <2>6, <3>1, <3>4, <1>0, Places
      <4> QED
        BY <1>3, <1>6, <3>2, <4>1 DEF Rests, Carries
    <3> QED
      BY <3>3, <3>4
  <2>9. Carries(source', new[0], TextLen) /\ Carries(received', 0, new[n])
    BY <1>3, <2>1, <2>2, <2>6, <2>7 DEF Carries
  <2>10. Len(handle') = n /\ Len(filling') = 0 /\ n \in Nat
    BY <1>0, <1>3, <1>4
  <2>11. CutsText(new)'
    BY <2>6, <2>8, <2>9, <2>10, NextAtRest
  <2> QED
    BY <2>11
<1> QED
  BY <1>3, <1>8, <1>9 DEF TextIsCut

LEMMA LayerStepInv ==
  ASSUME LayerShape, [LayerNext]_layerVars
  PROVE  LayerShape' /\ (TextIsCut => TextIsCut')
<1>1. ASSUME UNCHANGED <<handle, layerTab, buffered, atEnd, source, bytes, iols, window,
                         filling, received, failed>>,
             defined' \subseteq Tabs
      PROVE  LayerShape' /\ (TextIsCut => TextIsCut')
  <2>1. LayerTypes'
    BY <1>1 DEF LayerShape, LayerTypes
  <2>2. \A x \in Ltoks : OnHandle(x)' <=> OnHandle(x)
    BY <1>1 DEF OnHandle
  <2>3. Stacked' /\ ShadowsFit'
    BY <1>1, <2>2 DEF LayerShape, Stacked, ShadowsFit
  <2>4. FillsFromTop'
    BY <1>1 DEF LayerShape, FillsFromTop
  <2>5. ASSUME NEW cut, CutsText(cut) PROVE CutsText(cut)'
    BY <1>1, <2>5 DEF CutsText, Filled, Rests, Carries
  <2> QED
    BY <1>1, <2>1, <2>3, <2>4, <2>5 DEF LayerShape, TextIsCut
<1>2. CASE UNCHANGED layerVars
  BY <1>1, <1>2 DEF layerVars, LayerShape, LayerTypes
<1>3. ASSUME NEW tab \in Tabs, DefineLayer(tab) PROVE LayerShape' /\ (TextIsCut => TextIsCut')
  BY <1>1, <1>3 DEF DefineLayer, LayerShape, LayerTypes
<1>4. ASSUME NEW tab \in Tabs, NEW l \in Ltoks, PushLayer(l, tab)
      PROVE  LayerShape' /\ (TextIsCut => TextIsCut')
  BY <1>4, PushInv
<1>5. CASE PopLayer
  BY <1>5, PopInv
<1>6. CASE FillHook
  BY <1>6, FillInv
<1>7. CASE NestedFillHook
  BY <1>7, NestedFillInv
<1>8. ASSUME NEW n \in 1..BufLen, TailRead(n) PROVE LayerShape' /\ (TextIsCut => TextIsCut')
  BY <1>8, ReadInv
<1>9. ASSUME NEW keep \in 0..1, EndFill(keep) PROVE LayerShape' /\ (TextIsCut => TextIsCut')
  BY <1>9, EndInv
<1>10. CASE EndOfFill
  BY <1>10, EndOfFillInv
<1>11. CASE CroakInFill
  BY <1>11, CroakInv
<1>12. CASE ReadUnit
  BY <1>12, ReaderInv
<1> QED
  BY <1>2, <1>3, <1>4, <1>5, <1>6, <1>7, <1>8, <1>9, <1>10, <1>11, <1>12 DEF LayerNext

THEOREM LayerInvariant == LayerSpec => [](LayerShape /\ TextIsCut)
<1>1. LayerInit => LayerShape /\ TextIsCut
  BY LayerInitInv
<1>2. LayerShape /\ TextIsCut /\ [LayerNext]_layerVars => (LayerShape /\ TextIsCut)'
  BY LayerStepInv
<1> QED
  BY <1>1, <1>2, PTL DEF LayerSpec

\* Layers, buffers and running Fills are well typed: no Fill writes past its buffer.
THEOREM LayersTyped == LayerSpec => []LayerTypeOK
<1>1. LayerShape => LayerTypeOK
  <2> SUFFICES ASSUME LayerShape PROVE LayerTypeOK
    OBVIOUS
  <2>1. Range(handle) \subseteq Ltoks
    BY LayerFacts DEF Range
  <2>2. \A j \in DOMAIN filling : filling[j].count \in 0..BufLen
    BY LayerFacts
  <2> QED
    BY <2>1, <2>2 DEF LayerShape, LayerTypes, LayerTypeOK
<1> QED
  BY <1>1, LayerInvariant, PTL

\* goperl_iol_shadow and its release at Popped: for any layers and tables, the host has a
\* shadow of every layer on the handle, with the layer's table, and of no other.
THEOREM ShadowsFollowLayers == LayerSpec => []ShadowPerLayer
<1>1. LayerShape => ShadowPerLayer
  <2> SUFFICES ASSUME LayerShape, NEW l \in Ltoks
               PROVE  iols[l].tab = IF l \in Range(handle) THEN layerTab[l] ELSE NoLayer
    BY DEF ShadowPerLayer
  <2>1. l \in Range(handle) <=> OnHandle(l)
    BY LayerFacts DEF Range, OnHandle
  <2> QED
    BY <2>1 DEF LayerShape, ShadowsFit, NoIol
<1> QED
  BY <1>1, LayerInvariant, PTL

\* PerlIO_read in a Fill, goperl_tail_read, PERLIO_F_EOF and the kept end: for any stack of
\* layers and any text, the reader gets the text in order and whole.
THEOREM TextGetsThrough == LayerSpec => []TextArrives
<1>1. ASSUME NEW s \in Seq(Nat), NEW a \in Nat, NEW b \in Nat, Carries(s, a, b)
      PROVE  s = Text(a, b)
  <2>1. s \in [1..Len(s) -> Nat] /\ Len(s) = b - a /\ \A k \in 1..Len(s) : s[k] = a + k
    BY <1>1, LenProperties DEF Carries
  <2> QED
    BY <2>1 DEF Text
<1>2. LayerShape /\ TextIsCut => TextArrives
  <2> SUFFICES ASSUME LayerShape, TextIsCut, filling = << >>, ~failed
               PROVE  \E cut \in [0..Len(handle) -> 0..TextLen] :
                        /\ source = Text(cut[0], TextLen)
                        /\ \A i \in DOMAIN handle :
                             cut[i] <= cut[i - 1] /\ Held(handle[i]) = Text(cut[i], cut[i - 1])
                        /\ received = Text(0, cut[Len(handle)])
    BY DEF TextArrives
  <2>1. /\ Len(filling) = 0 /\ Len(handle) \in Nat /\ DOMAIN handle = 1..Len(handle)
        /\ source \in Seq(Nat) /\ received \in Seq(Nat) /\ TextLen \in Nat
    BY LayerFacts, LayerAssumption DEF LayerShape, LayerTypes
  <2>2. PICK cut : CutsText(cut)
    BY DEF TextIsCut
  <2>3. /\ cut \in [0..Len(handle) -> 0..TextLen]
        /\ Carries(source, cut[0], TextLen) /\ Carries(received, 0, cut[Len(handle)])
        /\ \A i \in 1..Len(handle) : Rests(handle[i], cut[i], cut[i - 1])
    BY <2>1, <2>2, AtRestCuts
  <2>4. \A i \in 0..Len(handle) : cut[i] \in Nat
    <3>1. \A i \in 0..Len(handle) : cut[i] \in 0..TextLen
      BY <2>3
    <3> QED
      BY <2>1, <3>1
  <2>5. 0 \in 0..Len(handle) /\ Len(handle) \in 0..Len(handle)
    BY <2>1
  <2>6. ASSUME NEW i \in 1..Len(handle)
        PROVE  cut[i] <= cut[i - 1] /\ Held(handle[i]) = Text(cut[i], cut[i - 1])
    <3> DEFINE s == buffered[handle[i]]
               c == iols[handle[i]].kept
               a == cut[i]
               b == cut[i - 1]
    <3>1. /\ s \in Seq(Nat) /\ Len(s) \in Nat /\ c \in Seq(Nat) /\ Len(c) \in Nat
          /\ a \in Nat /\ b \in Nat
      <4>1. handle[i] \in Ltoks /\ i \in 0..Len(handle) /\ i - 1 \in 0..Len(handle)
        BY <2>1, LayerFacts
      <4>2. Len(c) \in 0..1
        BY <4>1, LayerFacts
      <4> QED
        BY <2>4, <4>1, <4>2, LayerFacts
    <3>2. Carries(s, a, a + Len(s)) /\ Carries(c, a + Len(s), b)
      BY <2>3 DEF Rests
    <3>3. Held(handle[i]) = s \o c
      BY DEF Held
    <3> HIDE DEF s, c, a, b
    <3>4. /\ s \o c \in Seq(Nat) /\ Len(s \o c) = Len(s) + Len(c)
          /\ \A k \in 1..(Len(s) + Len(c)) :
               (s \o c)[k] = IF k <= Len(s) THEN s[k] ELSE c[k - Len(s)]
      BY <3>1, ConcatProperties
    <3>5. Len(c) = b - (a + Len(s))
      BY <3>2 DEF Carries
    <3>6. Len(s) + Len(c) = b - a /\ a <= b
      BY <3>1, <3>5
    <3>7. ASSUME NEW k \in 1..(Len(s) + Len(c)) PROVE (s \o c)[k] = a + k
      <4>1. CASE k <= Len(s)
        <5>1. k \in 1..Len(s)
          BY <3>1, <4>1
        <5> QED
          BY <3>2, <3>4, <4>1, <5>1 DEF Carries
      <4>2. CASE ~(k <= Len(s))
        <5>1. k - Len(s) \in 1..Len(c)
          BY <3>1, <4>2
        <5>2. c[k - Len(s)] = a + Len(s) + (k - Len(s))
          BY <3>2, <5>1 DEF Carries
        <5>3. a + Len(s) + (k - Len(s)) = a + k
          BY <3>1
        <5> QED
          BY <3>4, <4>2, <5>2, <5>3
      <4> QED
        BY <4>1, <4>2
    <3>8. Carries(s \o c, a, b)
      BY <3>4, <3>6, <3>7 DEF Carries
    <3>9. s \o c = Text(a, b)
      BY <1>1, <3>1, <3>4, <3>8
    <3> QED
      BY <3>3, <3>6, <3>9 DEF a, b
  <2>7. source = Text(cut[0], TextLen) /\ received = Text(0, cut[Len(handle)])
    BY <1>1, <2>1, <2>3, <2>4, <2>5
  <2> QED
    BY <2>1, <2>3, <2>6, <2>7
<1> QED
  BY <1>2, LayerInvariant, PTL

-------------------------------------------------------------------------------
(* Shadows of OPs (XsOps).                                                 *)

ShadowFields ==
  [gop : Addresses \cup {Nil}, full : BOOLEAN, persist : BOOLEAN, based : BOOLEAN,
   link : Shadows \cup {Nil, Scratch}, oldLink : Shadows \cup {Nil},
   pp : BOOLEAN, oldPp : BOOLEAN]

\* A module can set op_ppaddr, and not take it back.
ShadowType == {s \in ShadowFields : s.oldPp => s.pp}

OpType == [alive : BOOLEAN, link : Addresses \cup {Nil}, hooked : BOOLEAN]

HostType == [blocks : [Shadows -> ShadowType], registry : SUBSET Shadows,
             extended : [Addresses -> Shadows \cup {Nil}]]

OpTypes ==
  /\ ops \in [Addresses -> OpType]
  /\ Now \in HostType
  /\ hookOwner \in [Addresses -> Shadows \cup {Nil}]
  /\ wanted \in [Addresses -> [alive : BOOLEAN, link : Addresses \cup {Nil, Scratch},
                               hooked : BOOLEAN]]
  /\ mode \in OpModes
  /\ outdated \subseteq Shadows

InRegistry(H, t) == \E b \in H.registry : b[1] = t

\* Where addresses are recycled while the registry has shadows of them, nothing is said of
\* outdated shadows and of fields that are pending: these parts are then TRUE.
Counted(out) == {b \in out : ~Recycled}

Clean(s) == Recycled \/ ~DirtyShadow(s)

\* Blocks whose OP was freed, as far as they are still in use.
Stale == Counted(outdated \cap InUse(Now))

\* The registry has one shadow of an address, at a block of this address.
Named(H) ==
  /\ \A b \in Shadows : H.blocks[b].gop \in {b[1], Nil}
  /\ \A b \in H.registry : H.blocks[b].gop = b[1]
  /\ \A b, c \in H.registry : b[1] = c[1] => b = c

\* A shadow has a baseline from the moment that its links are there.
Whole(H) == \A b \in Shadows : H.blocks[b].full = H.blocks[b].based

\* A kept shadow is one of its address, and will not be freed.
KeptOnes(H) ==
  \A t \in Addresses : H.extended[t] # Nil =>
    /\ H.extended[t][1] = t
    /\ H.blocks[H.extended[t]].gop = t
    /\ H.blocks[H.extended[t]].persist

\* What the registry has of a live OP was made for it.
FreshOnes(H, G, old) == \A b \in H.registry : G[b[1]].alive => b \notin old

\* The kept shadow of a hooked OP is the one in which it was hooked; no other is found.
HookedOnes(H, G, own, old) ==
  \A t \in Addresses : G[t].alive /\ G[t].hooked =>
    /\ own[t] # Nil /\ H.extended[t] = own[t] /\ own[t] \notin old
    /\ own[t] \in H.registry \/ Clean(H.blocks[own[t]])
    /\ \A b \in H.registry : b[1] = t => b = own[t]

\* The host's structures H fit the OPs G, hooked in the shadows own.
Sound(H, G, own, old) ==
  /\ H \in HostType
  /\ Named(H) /\ KeptOnes(H) /\ FreshOnes(H, G, old) /\ HookedOnes(H, G, own, old)

PendingLink(s) == s.based /\ s.link # s.oldLink
PendingPp(s) == s.based /\ s.pp # s.oldPp

\* A field that no shadow has pending is in the guest as it was wanted last; a pending
\* one is wanted.
FieldsSettled(R, B, G, W) == ~Recycled =>
  /\ \A t \in Addresses : G[t].alive =>
       /\ (\A b \in R : b[1] = t => ~PendingLink(B[b])) => G[t].link = W[t].link
       /\ (\A b \in R : b[1] = t => ~PendingPp(B[b])) => G[t].hooked = W[t].hooked
  /\ \A b \in R : G[b[1]].alive =>
       /\ PendingLink(B[b]) =>
            \/ B[b].link \notin Shadows /\ W[b[1]].link = B[b].link
            \/ B[b].link \in R /\ W[b[1]].link = B[b].link[1]
       /\ PendingPp(B[b]) => W[b[1]].hooked

AllClean(H, G) == \A b \in H.registry : G[b[1]].alive => Clean(H.blocks[b])

\* Only keyword hooks have fields pending.
CleanOutside == mode # "keyword" => AllClean(Now, ops)

OpInv ==
  /\ OpTypes
  /\ Sound(Now, ops, hookOwner, Stale) /\ Whole(Now)
  /\ FieldsSettled(registry, blocks, ops, wanted)
  /\ CleanOutside

-------------------------------------------------------------------------------
LEMMA ShadowNames ==
  /\ Nil \notin Shadows /\ Scratch \notin Shadows /\ Nil # Scratch /\ Nil \notin Addresses
  /\ \A b \in Shadows : b[1] \in Addresses
  /\ \A t \in Addresses : \A b \in {t} \X Blocks : b \in Shadows /\ b[1] = t
  BY OpAssumption DEF OpAssumption, Shadows

LEMMA EntryFacts ==
  ASSUME NEW H, H.registry \subseteq Shadows, Named(H), NEW t \in Addresses \cup {Nil}
  PROVE  /\ EntryOf(H, t) # Nil <=> InRegistry(H, t)
         /\ EntryOf(H, t) # Nil => EntryOf(H, t) \in H.registry /\ EntryOf(H, t)[1] = t /\ t # Nil
         /\ \A b \in H.registry : b[1] = t => EntryOf(H, t) = b
  <1> DEFINE found == {b \in H.registry : H.blocks[b].gop = t}
  <1>1. \A b \in H.registry : b \in found <=> b[1] = t
    BY DEF Named
  <1>2. CASE found = {}
    <2>1. EntryOf(H, t) = Nil
      BY <1>2 DEF EntryOf
    <2>2. QED
      BY <1>1, <1>2, <2>1 DEF InRegistry
  <1>3. CASE found # {}
    <2>1. PICK c \in found : TRUE
      BY <1>3
    <2>2. \A b \in found : b = c
      BY <1>1, <2>1 DEF Named
    <2>3. EntryOf(H, t) = c
      BY <1>3, <2>1, <2>2 DEF EntryOf
    <2>4. c # Nil /\ t # Nil
      BY <1>1, <2>1, ShadowNames
    <2>5. QED
      BY <1>1, <2>1, <2>2, <2>3, <2>4 DEF InRegistry
  <1>4. QED
    BY <1>2, <1>3

\* What a record of host structures is like after one shadow changed.
LEMMA HostFacts ==
  ASSUME NEW H \in HostType
  PROVE  /\ H.blocks \in [Shadows -> ShadowType] /\ H.registry \subseteq Shadows
         /\ H.extended \in [Addresses -> Shadows \cup {Nil}]
  BY DEF HostType

InUseBy(H, x) ==
  \/ x \in H.registry
  \/ \E t \in Addresses : x = H.extended[t]
  \/ \E b \in Shadows : /\ b \in H.registry \/ \E t \in Addresses : b = H.extended[t]
                        /\ x = H.blocks[b].link

LEMMA InUseFacts ==
  ASSUME NEW H, NEW x
  PROVE  x \in InUse(H) <=> InUseBy(H, x)
  BY DEF InUse, InUseBy

\* Nothing is used beyond what H uses and the registry of K has.
Grows(H, K) ==
  /\ H.registry \subseteq K.registry
  /\ InUse(K) \subseteq InUse(H) \cup K.registry \cup {Nil}

\* There is a block for every shadow that is not there.
Roomy(H) == \A t \in Addresses : ~InRegistry(H, t) => FreeBlocks(H, t) # {}

LEMMA RoomKept ==
  ASSUME NEW H, NEW K, Grows(H, K), Roomy(H)
  PROVE  Roomy(K)
  <1> SUFFICES ASSUME NEW t \in Addresses, ~InRegistry(K, t)
               PROVE  FreeBlocks(K, t) # {}
    BY DEF Roomy
  <1>1. ~InRegistry(H, t)
    BY DEF Grows, InRegistry
  <1>2. PICK b : b \in FreeBlocks(H, t)
    BY <1>1 DEF Roomy
  <1>3. b \in {t} \X Blocks /\ b \notin InUse(H) /\ b \notin InUse(Now)
    BY <1>2 DEF FreeBlocks
  <1>4. b[1] = t /\ b # Nil
    BY <1>3, ShadowNames
  <1>5. b \notin K.registry
    BY <1>4 DEF InRegistry
  <1>6. b \notin InUse(K)
    BY <1>3, <1>4, <1>5 DEF Grows
  <1>7. QED
    BY <1>3, <1>6 DEF FreeBlocks

LEMMA GrowsTwice ==
  ASSUME NEW H, NEW K, NEW L, Grows(H, K), Grows(K, L)
  PROVE  Grows(H, L)
  BY DEF Grows

-------------------------------------------------------------------------------
(* Looking a shadow up, pulling it.                                        *)

LEMMA NewEntryFacts ==
  ASSUME NEW t \in Addresses
  PROVE  /\ NewEntry(t) \in ShadowType
         /\ NewEntry(t).gop = t /\ NewEntry(t).link = Nil
         /\ NewEntry(t).full = FALSE /\ NewEntry(t).based = FALSE
         /\ Clean(NewEntry(t))
  BY DEF NewEntry, NoShadow, ShadowType, ShadowFields, DirtyShadow, Clean

LEMMA OpShadowCases ==
  ASSUME NEW H \in HostType, Named(H), Roomy(H), NEW G, NEW t \in Addresses \cup {Nil}
  PROVE  \/ OpShadow(H, G, t) = H /\ (t # Nil => InRegistry(H, t))
         \/ /\ t # Nil /\ ~InRegistry(H, t) /\ H.extended[t] # Nil /\ G[t].hooked
            /\ OpShadow(H, G, t) = [blocks |-> H.blocks, registry |-> H.registry \cup {H.extended[t]},
                                    extended |-> H.extended]
         \/ /\ t # Nil /\ ~InRegistry(H, t) /\ ~(H.extended[t] # Nil /\ G[t].hooked)
            /\ \E b \in FreeBlocks(H, t) :
                 OpShadow(H, G, t) = [blocks |-> [H.blocks EXCEPT ![b] = NewEntry(t)],
                                      registry |-> H.registry \cup {b},
                                      extended |-> [H.extended EXCEPT ![t] = Nil]]
  <1>1. H = [blocks |-> H.blocks, registry |-> H.registry, extended |-> H.extended]
    BY DEF HostType
  <1>2. EntryOf(H, t) # Nil <=> InRegistry(H, t)
    BY EntryFacts, HostFacts
  <1>3. CASE t = Nil \/ InRegistry(H, t)
    BY <1>2, <1>3 DEF OpShadow
  <1>4. CASE t # Nil /\ ~InRegistry(H, t) /\ H.extended[t] # Nil /\ G[t].hooked
    <2>1. OpShadow(H, G, t) = [H EXCEPT !.registry = @ \cup {H.extended[t]}]
      BY <1>2, <1>4 DEF OpShadow
    <2>2. QED
      BY <1>1, <1>4, <2>1
  <1>5. CASE t # Nil /\ ~InRegistry(H, t) /\ ~(H.extended[t] # Nil /\ G[t].hooked)
    <2>1. OpShadow(H, G, t) = RegisterEntry([H EXCEPT !.extended[t] = Nil],
                                (CHOOSE b \in FreeBlocks(H, t) : TRUE), NewEntry(t))
      BY <1>2, <1>5 DEF OpShadow
    <2>2. PICK b \in FreeBlocks(H, t) : b = CHOOSE c \in FreeBlocks(H, t) : TRUE
      BY <1>5 DEF Roomy
    <2>3. [H EXCEPT !.extended[t] = Nil]
            = [blocks |-> H.blocks, registry |-> H.registry, extended |-> [H.extended EXCEPT ![t] = Nil]]
      BY <1>1
    <2>4. PICK M : M = [blocks |-> H.blocks, registry |-> H.registry,
                        extended |-> [H.extended EXCEPT ![t] = Nil]]
      OBVIOUS
    <2>5. RegisterEntry(M, b, NewEntry(t))
            = [blocks |-> [H.blocks EXCEPT ![b] = NewEntry(t)], registry |-> H.registry \cup {b},
               extended |-> [H.extended EXCEPT ![t] = Nil]]
      <3>1. PICK e : e = NewEntry(t)
        OBVIOUS
      <3>2. QED
        BY <2>4, <3>1 DEF RegisterEntry
    <2>6. QED
      BY <1>5, <2>1, <2>2, <2>3, <2>4, <2>5
  <1>6. QED
    BY <1>3, <1>4, <1>5

\* Unless it is there already, a shadow that is new, or kept and known to be right, joins
\* the registry; nothing else changes.
ShadowAdded(H, K, G) ==
  /\ Grows(H, K)
  /\ \A b \in H.registry : K.blocks[b] = H.blocks[b]
  /\ \A b \in Shadows : K.blocks[b] # H.blocks[b] => K.blocks[b].full = K.blocks[b].based
  /\ \A b \in K.registry \ H.registry : G[b[1]].alive => Clean(K.blocks[b])

LEMMA RelinkSound ==
  ASSUME NEW H, NEW G, NEW own, NEW old, NEW K, NEW t \in Addresses,
         Sound(H, G, own, old), ~InRegistry(H, t), H.extended[t] # Nil, G[t].hooked,
         K = [blocks |-> H.blocks, registry |-> H.registry \cup {H.extended[t]},
              extended |-> H.extended]
  PROVE  Sound(K, G, own, old) /\ InRegistry(K, t) /\ ShadowAdded(H, K, G)
  <1>1. /\ H.blocks \in [Shadows -> ShadowType] /\ H.registry \subseteq Shadows
        /\ H.extended \in [Addresses -> Shadows \cup {Nil}]
    BY HostFacts DEF Sound
  <1>2. PICK e \in Shadows : e = H.extended[t]
    BY <1>1
  <1>3. K.blocks = H.blocks /\ K.registry = H.registry \cup {e} /\ K.extended = H.extended
    BY <1>2
  <1>4. e[1] = t /\ H.blocks[e].gop = t
    BY <1>2 DEF Sound, KeptOnes
  <1>5. \A b \in H.registry : b[1] # t
    BY DEF InRegistry
  <1>6. G[t].alive => e = own[t] /\ e \notin old /\ Clean(H.blocks[e])
    <2>1. ASSUME G[t].alive
          PROVE  H.extended[t] = own[t] /\ own[t] \notin old
                 /\ (own[t] \in H.registry \/ Clean(H.blocks[own[t]]))
      BY <2>1 DEF Sound, HookedOnes
    <2>2. e \notin H.registry
      BY <1>4, <1>5
    <2>3. QED
      BY <1>2, <2>1, <2>2
  <1>7. K \in HostType
    BY <1>1, <1>2 DEF HostType
  <1>8. Named(K)
    BY <1>3, <1>4, <1>5 DEF Sound, Named
  <1>9. KeptOnes(K)
    BY <1>3 DEF Sound, KeptOnes
  <1>10. FreshOnes(K, G, old)
    BY <1>3, <1>4, <1>6 DEF Sound, FreshOnes
  <1>11. HookedOnes(K, G, own, old)
    BY <1>3, <1>4, <1>6 DEF Sound, HookedOnes
  <1>12. InRegistry(K, t)
    BY <1>3, <1>4 DEF InRegistry
  <1>13. Grows(H, K)
    <2>1. \A x : InUseBy(K, x) => InUseBy(H, x)
      BY <1>2, <1>3 DEF InUseBy
    <2>2. QED
      BY <1>3, <2>1, InUseFacts DEF Grows
  <1>14. ShadowAdded(H, K, G)
    BY <1>3, <1>4, <1>6, <1>13 DEF ShadowAdded
  <1>15. QED
    BY <1>7, <1>8, <1>9, <1>10, <1>11, <1>12, <1>14 DEF Sound

Unkept(H, t) == [H.extended EXCEPT ![t] = Nil]

\* H with one shadow more.
Entered(H, b, e, x) ==
  [blocks |-> [H.blocks EXCEPT ![b] = e], registry |-> H.registry \cup {b}, extended |-> x]

LEMMA AddSound ==
  ASSUME NEW H, NEW G, NEW own, NEW old, NEW t \in Addresses,
         Sound(H, G, own, old), old \subseteq InUse(Now),
         ~InRegistry(H, t), ~(H.extended[t] # Nil /\ G[t].hooked),
         NEW b \in FreeBlocks(H, t),
         NEW e \in ShadowType, e.gop = t, e.link = Nil, e.full = e.based, Clean(e),
         NEW x \in {H.extended, Unkept(H, t)}
  PROVE  /\ Sound(Entered(H, b, e, x), G, own, old) /\ InRegistry(Entered(H, b, e, x), t)
         /\ ShadowAdded(H, Entered(H, b, e, x), G)
  <1> DEFINE K == Entered(H, b, e, x)
  <1>1. /\ H.blocks \in [Shadows -> ShadowType] /\ H.registry \subseteq Shadows
        /\ H.extended \in [Addresses -> Shadows \cup {Nil}]
    BY HostFacts DEF Sound
  <1>2. b \in Shadows /\ b[1] = t /\ b # Nil /\ b \notin InUse(H) /\ b \notin old
    BY ShadowNames DEF FreeBlocks
  <1>3. b \notin H.registry /\ \A s \in Addresses : H.extended[s] # b
    BY <1>2, InUseFacts DEF InUseBy
  <1>4. /\ x \in [Addresses -> Shadows \cup {Nil}]
        /\ \A s \in Addresses \ {t} : x[s] = H.extended[s]
        /\ x[t] = Nil \/ x[t] = H.extended[t]
    BY <1>1 DEF Unkept
  <1>5. K.blocks = [H.blocks EXCEPT ![b] = e] /\ K.registry = H.registry \cup {b} /\ K.extended = x
    BY DEF Entered
  <1>6. K.blocks[b] = e /\ \A c \in Shadows \ {b} : K.blocks[c] = H.blocks[c]
    BY <1>1, <1>2, <1>5
  <1>7. /\ \A s \in Addresses \ {t} : K.extended[s] = H.extended[s]
        /\ K.extended[t] = Nil \/ K.extended[t] = H.extended[t]
    BY <1>4, <1>5
  <1>8. \A c \in H.registry : c \in Shadows \ {b} /\ c[1] # t
    BY <1>1, <1>3 DEF InRegistry
  <1>9. K \in HostType
    BY <1>1, <1>2, <1>4, <1>5 DEF HostType, Entered
  <1> HIDE DEF K
  <1>10. Named(K)
    BY <1>2, <1>5, <1>6, <1>8 DEF Sound, Named
  <1>11. KeptOnes(K)
    <2>1. \A s \in Addresses : H.extended[s] # Nil => H.extended[s] \in Shadows \ {b}
      BY <1>1, <1>3
    <2>2. QED
      BY <1>6, <1>7, <2>1 DEF Sound, KeptOnes
  <1>12. FreshOnes(K, G, old)
    BY <1>2, <1>5 DEF Sound, FreshOnes
  <1>13. HookedOnes(K, G, own, old)
    <2>1. SUFFICES ASSUME NEW s \in Addresses, G[s].alive, G[s].hooked
                   PROVE  /\ own[s] # Nil /\ K.extended[s] = own[s] /\ own[s] \notin old
                          /\ own[s] \in K.registry \/ Clean(K.blocks[own[s]])
                          /\ \A c \in K.registry : c[1] = s => c = own[s]
      BY DEF HookedOnes
    <2>2. /\ own[s] # Nil /\ H.extended[s] = own[s] /\ own[s] \notin old
          /\ own[s] \in H.registry \/ Clean(H.blocks[own[s]])
          /\ \A c \in H.registry : c[1] = s => c = own[s]
      BY <2>1 DEF Sound, HookedOnes
    <2>3. s # t
      BY <2>1, <2>2
    <2>4. own[s] \in Shadows \ {b}
      BY <1>1, <1>3, <2>2
    <2>5. QED
      BY <1>2, <1>5, <1>6, <1>7, <2>2, <2>3, <2>4
  <1>14. InRegistry(K, t)
    BY <1>2, <1>5 DEF InRegistry
  <1>15. Grows(H, K)
    <2>1. ASSUME NEW y, InUseBy(K, y)
          PROVE  InUseBy(H, y) \/ y = b \/ y = Nil
      <3>1. CASE y \in K.registry
        BY <1>5, <3>1 DEF InUseBy
      <3>2. CASE \E s \in Addresses : y = K.extended[s]
        BY <1>7, <3>2 DEF InUseBy
      <3>3. ASSUME NEW c \in Shadows, c \in K.registry \/ \E s \in Addresses : c = K.extended[s],
                   y = K.blocks[c].link
            PROVE  InUseBy(H, y) \/ y = b \/ y = Nil
        <4>1. CASE c = b
          BY <1>6, <3>3, <4>1
        <4>2. CASE c # b
          <5>1. c \in H.registry \/ \E s \in Addresses : c = H.extended[s]
            BY <1>5, <1>7, <3>3, <4>2, ShadowNames
          <5>2. QED
            BY <1>6, <3>3, <4>2, <5>1 DEF InUseBy
        <4>3. QED
          BY <4>1, <4>2
      <3>4. QED
        BY <2>1, <3>1, <3>2, <3>3 DEF InUseBy
    <2>2. QED
      BY <1>5, <2>1, InUseFacts DEF Grows
  <1>16. ShadowAdded(H, K, G)
    <2>1. \A c \in H.registry : K.blocks[c] = H.blocks[c]
      BY <1>6, <1>8
    <2>2. \A c \in Shadows : K.blocks[c] # H.blocks[c] => K.blocks[c].full = K.blocks[c].based
      BY <1>6
    <2>3. \A c \in K.registry \ H.registry : Clean(K.blocks[c])
      BY <1>5, <1>6
    <2>4. QED
      BY <1>15, <2>1, <2>2, <2>3 DEF ShadowAdded
  <1>17. QED
    BY <1>9, <1>10, <1>11, <1>12, <1>13, <1>14, <1>16 DEF Sound, K

LEMMA OpShadowSound ==
  ASSUME NEW H, NEW G, NEW own, NEW old, NEW t \in Addresses \cup {Nil},
         Sound(H, G, own, old), old \subseteq InUse(Now), Roomy(H)
  PROVE  /\ Sound(OpShadow(H, G, t), G, own, old)
         /\ t # Nil => InRegistry(OpShadow(H, G, t), t)
         /\ ShadowAdded(H, OpShadow(H, G, t), G)
  <1>1. PICK K : K = OpShadow(H, G, t)
    OBVIOUS
  <1>2. CASE K = H /\ (t # Nil => InRegistry(H, t))
    BY <1>1, <1>2 DEF ShadowAdded, Grows
  <1>3. CASE /\ t # Nil /\ ~InRegistry(H, t) /\ H.extended[t] # Nil /\ G[t].hooked
             /\ K = [blocks |-> H.blocks, registry |-> H.registry \cup {H.extended[t]},
                     extended |-> H.extended]
    BY <1>1, <1>3, RelinkSound
  <1>4. CASE /\ t # Nil /\ ~InRegistry(H, t) /\ ~(H.extended[t] # Nil /\ G[t].hooked)
             /\ \E b \in FreeBlocks(H, t) :
                  K = [blocks |-> [H.blocks EXCEPT ![b] = NewEntry(t)],
                       registry |-> H.registry \cup {b},
                       extended |-> [H.extended EXCEPT ![t] = Nil]]
    <2>1. PICK b \in FreeBlocks(H, t) :
            K = [blocks |-> [H.blocks EXCEPT ![b] = NewEntry(t)],
                 registry |-> H.registry \cup {b}, extended |-> [H.extended EXCEPT ![t] = Nil]]
      BY <1>4
    <2>2. PICK e \in ShadowType : /\ e = NewEntry(t) /\ e.gop = t /\ e.link = Nil
                                  /\ e.full = FALSE /\ e.based = FALSE /\ Clean(e)
      BY <1>4, NewEntryFacts
    <2>3. PICK x \in {H.extended, Unkept(H, t)} : x = [H.extended EXCEPT ![t] = Nil]
      BY DEF Unkept
    <2>4. K = Entered(H, b, e, x)
      BY <2>1, <2>2, <2>3 DEF Entered
    <2>5. e.full = e.based /\ t \in Addresses /\ ~InRegistry(H, t) /\ ~(H.extended[t] # Nil /\ G[t].hooked)
      BY <1>4, <2>2
    <2>6. Sound(K, G, own, old) /\ InRegistry(K, t) /\ ShadowAdded(H, K, G)
      BY <2>2, <2>4, <2>5, AddSound
    <2>7. QED
      BY <1>1, <1>4, <2>6
  <1>5. H \in HostType /\ Named(H)
    BY DEF Sound
  <1>6. QED
    BY <1>1, <1>2, <1>3, <1>4, <1>5, OpShadowCases

LEMMA CapturedFacts ==
  ASSUME NEW s \in ShadowType, s.link # Scratch
  PROVE  /\ Captured(s) \in ShadowType
         /\ Captured(s).gop = s.gop /\ Captured(s).full = s.full
         /\ Captured(s).persist = s.persist
         /\ Captured(s).based = TRUE /\ Captured(s).link = s.link /\ Captured(s).pp = s.pp
         /\ Captured(s).oldLink = s.link /\ Captured(s).oldPp = s.pp
         /\ Clean(Captured(s))
  BY DEF Captured, ShadowType, ShadowFields, DirtyShadow, Clean

\* A shadow of the registry is given new fields, without anything left to write.
LEMMA ReplaceSound ==
  ASSUME NEW H, NEW G, NEW own, NEW old, Sound(H, G, own, old),
         NEW b \in H.registry, NEW e \in ShadowType, e.gop = b[1],
         H.blocks[b].persist => e.persist,
         NEW K,
         K = [blocks |-> [H.blocks EXCEPT ![b] = e], registry |-> H.registry,
              extended |-> H.extended]
  PROVE  /\ Sound(K, G, own, old)
         /\ e.link \in H.registry \cup {Nil, H.blocks[b].link} => Grows(H, K)
  <1>1. /\ H.blocks \in [Shadows -> ShadowType] /\ H.registry \subseteq Shadows
        /\ H.extended \in [Addresses -> Shadows \cup {Nil}] /\ b \in Shadows
    BY HostFacts DEF Sound
  <1>2. /\ K.registry = H.registry /\ K.extended = H.extended
        /\ K.blocks[b] = e /\ \A c \in Shadows \ {b} : K.blocks[c] = H.blocks[c]
    BY <1>1
  <1>3. K \in HostType
    BY <1>1 DEF HostType
  <1>4. Named(K)
    BY <1>1, <1>2 DEF Sound, Named
  <1>5. KeptOnes(K)
    <2>1. SUFFICES ASSUME NEW t \in Addresses, H.extended[t] # Nil
                   PROVE  /\ H.extended[t][1] = t
                          /\ K.blocks[H.extended[t]].gop = t /\ K.blocks[H.extended[t]].persist
      BY <1>2 DEF KeptOnes
    <2>2. /\ H.extended[t] \in Shadows /\ H.extended[t][1] = t
          /\ H.blocks[H.extended[t]].gop = t /\ H.blocks[H.extended[t]].persist
      BY <1>1, <2>1 DEF Sound, KeptOnes
    <2>3. QED
      BY <1>2, <2>2
  <1>6. FreshOnes(K, G, old)
    BY <1>2 DEF Sound, FreshOnes
  <1>7. HookedOnes(K, G, own, old)
    <2>1. SUFFICES ASSUME NEW s \in Addresses, G[s].alive, G[s].hooked
                   PROVE  /\ own[s] # Nil /\ H.extended[s] = own[s] /\ own[s] \notin old
                          /\ own[s] \in H.registry \/ Clean(K.blocks[own[s]])
                          /\ \A c \in H.registry : c[1] = s => c = own[s]
      BY <1>2 DEF HookedOnes
    <2>2. /\ own[s] # Nil /\ H.extended[s] = own[s] /\ own[s] \notin old
          /\ own[s] \in H.registry \/ Clean(H.blocks[own[s]])
          /\ \A c \in H.registry : c[1] = s => c = own[s]
      BY <2>1 DEF Sound, HookedOnes
    <2>3. own[s] \in Shadows
      BY <1>1, <2>2
    <2>4. own[s] \in H.registry \/ Clean(K.blocks[own[s]])
      BY <1>2, <2>2, <2>3
    <2>5. QED
      BY <2>2, <2>4
  <1>8. ASSUME e.link \in H.registry \cup {Nil, H.blocks[b].link}
        PROVE  Grows(H, K)
    <2>1. ASSUME NEW x, InUseBy(K, x)
          PROVE  InUseBy(H, x) \/ x = Nil
      <3>1. CASE x \in K.registry \/ \E s \in Addresses : x = K.extended[s]
        BY <1>2, <3>1 DEF InUseBy
      <3>2. ASSUME NEW c \in Shadows, c \in K.registry \/ \E s \in Addresses : c = K.extended[s],
                   x = K.blocks[c].link
            PROVE  InUseBy(H, x) \/ x = Nil
        <4>1. x \in H.registry \/ x = Nil \/ x = H.blocks[c].link
          BY <1>2, <1>8, <3>2
        <4>2. c \in H.registry \/ \E s \in Addresses : c = H.extended[s]
          BY <1>2, <3>2
        <4>3. QED
          BY <4>1, <4>2 DEF InUseBy
      <3>3. QED
        BY <2>1, <3>1, <3>2 DEF InUseBy
    <2>2. QED
      BY <1>2, <2>1, InUseFacts DEF Grows
  <1>9. QED
    BY <1>3, <1>4, <1>5, <1>6, <1>7, <1>8 DEF Sound

\* H was fetched into K: other shadows are as they were, what is new has nothing to write.
Fetched1(H, K, G, b) ==
  /\ Grows(H, K)
  /\ \A c \in H.registry \ {b} : K.blocks[c] = H.blocks[c]
  /\ b \in H.registry => Clean(K.blocks[b])
  /\ \A c \in K.registry \ H.registry : G[c[1]].alive => Clean(K.blocks[c])

LEMMA PullSound ==
  ASSUME NEW H, NEW G \in [Addresses -> OpType], NEW own, NEW old,
         Sound(H, G, own, old), old \subseteq InUse(Now), Roomy(H),
         NEW b \in H.registry, H.blocks[b].full,
         \A c \in Shadows \ {b} : H.blocks[c].full = H.blocks[c].based
  PROVE  /\ Sound(PullOP(H, G, b), G, own, old) /\ Whole(PullOP(H, G, b))
         /\ Fetched1(H, PullOP(H, G, b), G, b)
  <1>1. /\ H.blocks \in [Shadows -> ShadowType] /\ H.registry \subseteq Shadows
        /\ b \in Shadows /\ b[1] \in Addresses /\ H.blocks[b].gop = b[1]
    BY HostFacts, ShadowNames DEF Sound, Named
  <1>2. PICK u \in Addresses \cup {Nil} : u = G[b[1]].link
    BY <1>1 DEF OpType
  <1>3. PICK K : K = OpShadow(H, G, u)
    OBVIOUS
  <1>4. Sound(K, G, own, old) /\ (u # Nil => InRegistry(K, u)) /\ ShadowAdded(H, K, G)
    BY <1>3, OpShadowSound
  <1>5. /\ K \in HostType /\ K.blocks \in [Shadows -> ShadowType] /\ K.registry \subseteq Shadows
        /\ Named(K) /\ b \in K.registry /\ K.blocks[b] = H.blocks[b]
    BY <1>4, HostFacts DEF Sound, ShadowAdded, Grows
  <1>6. PICK l : l = IF u = Nil THEN Nil ELSE EntryOf(K, u)
    OBVIOUS
  <1>7. l \in K.registry \cup {Nil} /\ l # Scratch /\ l \in Shadows \cup {Nil}
    BY <1>4, <1>5, <1>6, EntryFacts, ShadowNames
  <1>8. PICK s : s = [K.blocks[b] EXCEPT !.link = l]
    OBVIOUS
  <1>9. /\ s \in ShadowType /\ s.link = l /\ s.gop = b[1] /\ s.full
        /\ s.persist = K.blocks[b].persist
    BY <1>1, <1>5, <1>7, <1>8 DEF ShadowType, ShadowFields
  <1>10. PICK e \in ShadowType : /\ e = Captured(s) /\ e.gop = b[1] /\ e.full /\ e.based
                                 /\ e.persist = K.blocks[b].persist /\ e.link = l
                                 /\ Clean(e)
    <2>1. s.link # Scratch
      BY <1>7, <1>9
    <2>2. PICK e : e = Captured(s)
      OBVIOUS
    <2>3. /\ e \in ShadowType /\ e.gop = s.gop /\ e.full = s.full /\ e.persist = s.persist
          /\ e.based = TRUE /\ e.link = s.link /\ Clean(e)
      BY <1>9, <2>1, <2>2, CapturedFacts
    <2>4. QED
      BY <1>9, <2>2, <2>3
  <1>11. PICK L : L = [blocks |-> [K.blocks EXCEPT ![b] = e], registry |-> K.registry,
                       extended |-> K.extended]
    OBVIOUS
  <1>12. PullOP(H, G, b) = L
    <2>1. PullOP(H, G, b) = [K EXCEPT !.blocks[b] = Captured([@ EXCEPT !.link = l])]
      BY <1>1, <1>2, <1>3, <1>6 DEF PullOP
    <2>2. PullOP(H, G, b) = [K EXCEPT !.blocks = [K.blocks EXCEPT ![b] = e]]
      BY <1>5, <1>8, <1>10, <2>1 DEF HostType
    <2>3. PICK m : m = [K.blocks EXCEPT ![b] = e]
      OBVIOUS
    <2>4. [K EXCEPT !.blocks = m] = [blocks |-> m, registry |-> K.registry, extended |-> K.extended]
      BY <1>5 DEF HostType
    <2>5. QED
      BY <1>11, <2>2, <2>3, <2>4
  <1>13. Sound(L, G, own, old) /\ Grows(K, L)
    BY <1>4, <1>5, <1>7, <1>10, <1>11, ReplaceSound
  <1>14. L.registry = K.registry /\ L.blocks[b] = e
         /\ \A c \in Shadows \ {b} : L.blocks[c] = K.blocks[c]
    BY <1>1, <1>5, <1>11
  <1>15. Whole(L)
    BY <1>4, <1>10, <1>14 DEF Whole, ShadowAdded, ShadowType, ShadowFields
  <1>16. Fetched1(H, L, G, b)
    <2>1. Grows(H, L)
      BY <1>4, <1>13, GrowsTwice DEF ShadowAdded
    <2>2. \A c \in H.registry \ {b} : L.blocks[c] = H.blocks[c]
      BY <1>1, <1>4, <1>14 DEF ShadowAdded
    <2>3. \A c \in L.registry \ H.registry : G[c[1]].alive => Clean(L.blocks[c])
      <3>1. \A c \in K.registry \ H.registry : c \in Shadows \ {b}
        BY <1>5
      <3>2. QED
        BY <1>4, <1>14, <3>1 DEF ShadowAdded
    <2>4. QED
      BY <1>10, <1>14, <2>1, <2>2, <2>3 DEF Fetched1
  <1>17. QED
    BY <1>12, <1>13, <1>15, <1>16

\* H was looked at: shadows that were full are as they were, and no other has anything to
\* write.
LookedAt(H, K, G) ==
  /\ Grows(H, K)
  /\ \A c \in H.registry : \/ K.blocks[c] = H.blocks[c]
                           \/ ~H.blocks[c].full /\ Clean(K.blocks[c])
  /\ \A c \in K.registry \ H.registry : G[c[1]].alive => Clean(K.blocks[c])

LEMMA ShadowFullSound ==
  ASSUME NEW H, NEW G \in [Addresses -> OpType], NEW own, NEW old,
         NEW t \in Addresses \cup {Nil},
         Sound(H, G, own, old), old \subseteq InUse(Now), Roomy(H), Whole(H)
  PROVE  /\ Sound(ShadowFull(H, G, t), G, own, old) /\ Whole(ShadowFull(H, G, t))
         /\ t # Nil => InRegistry(ShadowFull(H, G, t), t)
         /\ LookedAt(H, ShadowFull(H, G, t), G)
  <1>1. PICK K : K = OpShadow(H, G, t)
    OBVIOUS
  <1>2. Sound(K, G, own, old) /\ (t # Nil => InRegistry(K, t)) /\ ShadowAdded(H, K, G)
    BY <1>1, OpShadowSound
  <1>3. /\ K \in HostType /\ K.blocks \in [Shadows -> ShadowType] /\ K.registry \subseteq Shadows
        /\ Named(K) /\ H.registry \subseteq K.registry /\ H.registry \subseteq Shadows
    BY <1>2, HostFacts DEF Sound, ShadowAdded, Grows
  <1>4. Whole(K)
    BY <1>2 DEF Whole, ShadowAdded
  <1>5. PICK b : b = EntryOf(K, t)
    OBVIOUS
  <1>6. PICK L : L = ShadowFull(H, G, t)
    OBVIOUS
  <1>7. CASE t = Nil \/ K.blocks[b].full
    <2>1. L = K
      BY <1>1, <1>5, <1>6, <1>7 DEF ShadowFull
    <2>2. LookedAt(H, K, G)
      BY <1>2 DEF LookedAt, ShadowAdded
    <2>3. QED
      BY <1>2, <1>4, <1>6, <2>1, <2>2
  <1>8. CASE t # Nil /\ ~K.blocks[b].full
    <2>1. b \in K.registry /\ b \in Shadows /\ K.blocks[b] \in ShadowType /\ K.blocks[b].gop = b[1]
      BY <1>2, <1>3, <1>5, <1>8, EntryFacts DEF Named
    <2>2. PICK e \in ShadowType : /\ e = [K.blocks[b] EXCEPT !.full = TRUE] /\ e.full
                                  /\ e.gop = b[1] /\ e.link = K.blocks[b].link
                                  /\ e.persist = K.blocks[b].persist
      <3>1. PICK s \in ShadowType : s = K.blocks[b] /\ s.gop = b[1]
        BY <2>1
      <3>2. PICK e : e = [s EXCEPT !.full = TRUE]
        OBVIOUS
      <3>3. e \in ShadowType /\ e.full /\ e.gop = s.gop /\ e.link = s.link /\ e.persist = s.persist
        BY <3>2 DEF ShadowType, ShadowFields
      <3>4. QED
        BY <3>1, <3>2, <3>3
    <2>3. PICK M : M = [blocks |-> [K.blocks EXCEPT ![b] = e], registry |-> K.registry,
                        extended |-> K.extended]
      OBVIOUS
    <2>4. L = PullOP(M, G, b)
      <3>1. PICK N : N = [K EXCEPT !.blocks[b].full = TRUE]
        OBVIOUS
      <3>2. L = PullOP(N, G, b)
        BY <1>1, <1>5, <1>6, <1>8, <3>1 DEF ShadowFull
      <3>3. N = [K EXCEPT !.blocks = [K.blocks EXCEPT ![b] = e]]
        BY <1>3, <2>2, <3>1
      <3>4. PICK m : m = [K.blocks EXCEPT ![b] = e]
        OBVIOUS
      <3>5. [K EXCEPT !.blocks = m]
              = [blocks |-> m, registry |-> K.registry, extended |-> K.extended]
        BY <1>3 DEF HostType
      <3>6. N = M
        BY <2>3, <3>3, <3>4, <3>5
      <3>7. QED
        BY <3>2, <3>6
    <2>5. Sound(M, G, own, old) /\ Grows(K, M)
      <3>1. /\ b \in K.registry /\ e.gop = b[1] /\ (K.blocks[b].persist => e.persist)
            /\ e.link \in K.registry \cup {Nil, K.blocks[b].link}
        BY <2>1, <2>2
      <3>2. QED
        BY <1>2, <2>3, <3>1, ReplaceSound
    <2>6. /\ M.registry = K.registry /\ M.blocks[b] = e
          /\ \A c \in Shadows \ {b} : M.blocks[c] = K.blocks[c]
      BY <1>3, <2>1, <2>3
    <2>7. Roomy(M)
      BY <1>2, <2>5, GrowsTwice, RoomKept DEF ShadowAdded
    <2>8. /\ Sound(L, G, own, old) /\ Whole(L) /\ Fetched1(M, L, G, b)
      <3>1. \A c \in Shadows \ {b} : M.blocks[c].full = M.blocks[c].based
        BY <1>4, <2>6 DEF Whole
      <3>2. b \in M.registry /\ M.blocks[b].full
        BY <2>1, <2>2, <2>6
      <3>3. QED
        BY <2>4, <2>5, <2>7, <3>1, <3>2, PullSound
    <2>9. Grows(H, L)
      BY <1>2, <2>5, <2>8, GrowsTwice DEF ShadowAdded, Fetched1
    <2>10. \A c \in H.registry : \/ L.blocks[c] = H.blocks[c]
                                 \/ ~H.blocks[c].full /\ Clean(L.blocks[c])
      <3>1. SUFFICES ASSUME NEW c \in H.registry
                     PROVE  \/ L.blocks[c] = H.blocks[c]
                            \/ ~H.blocks[c].full /\ Clean(L.blocks[c])
        OBVIOUS
      <3>2. c \in M.registry /\ c \in Shadows /\ K.blocks[c] = H.blocks[c]
        BY <1>2, <1>3, <2>6 DEF ShadowAdded
      <3>3. CASE c = b
        BY <1>8, <2>8, <3>2, <3>3 DEF Fetched1
      <3>4. CASE c # b
        BY <2>6, <2>8, <3>2, <3>4 DEF Fetched1
      <3>5. QED
        BY <3>3, <3>4
    <2>11. ASSUME NEW c \in L.registry \ H.registry, G[c[1]].alive
           PROVE  Clean(L.blocks[c])
      <3>1. CASE c \notin M.registry
        BY <2>8, <2>11, <3>1 DEF Fetched1
      <3>2. CASE c = b
        BY <2>1, <2>6, <2>8, <3>2 DEF Fetched1
      <3>3. CASE c \in M.registry /\ c # b
        <4>1. c \in K.registry \ H.registry /\ c \in Shadows
          BY <1>3, <2>6, <2>11, <3>3
        <4>2. L.blocks[c] = K.blocks[c]
          BY <2>6, <2>8, <3>3, <4>1 DEF Fetched1
        <4>3. QED
          BY <1>2, <2>11, <4>1, <4>2 DEF ShadowAdded
      <3>4. QED
        BY <3>1, <3>2, <3>3
    <2>12. InRegistry(L, t)
      <3>1. K.registry \subseteq L.registry
        BY <2>6, <2>8 DEF Fetched1, Grows
      <3>2. QED
        BY <1>2, <1>8, <3>1 DEF InRegistry
    <2>13. LookedAt(H, L, G)
      BY <2>9, <2>10, <2>11 DEF LookedAt
    <2>14. QED
      BY <1>6, <2>8, <2>12, <2>13
  <1>9. QED
    BY <1>7, <1>8

\* As for one shadow, so for all of them when nothing of H was left to write.
LEMMA StaysClean ==
  ASSUME NEW H, NEW K, NEW G, AllClean(H, G), LookedAt(H, K, G)
  PROVE  AllClean(K, G)
  <1>1. ASSUME NEW c \in K.registry, G[c[1]].alive PROVE Clean(K.blocks[c])
    BY <1>1 DEF AllClean, LookedAt
  <1>2. QED
    BY <1>1 DEF AllClean

LEMMA RefreshSound ==
  ASSUME NEW H, NEW G \in [Addresses -> OpType], NEW own, NEW old,
         NEW t \in Addresses \cup {Nil},
         Sound(H, G, own, old), old \subseteq InUse(Now), Roomy(H), Whole(H), AllClean(H, G)
  PROVE  /\ Sound(RefreshOP(H, G, EntryOf(H, t)), G, own, old)
         /\ Whole(RefreshOP(H, G, EntryOf(H, t)))
         /\ Grows(H, RefreshOP(H, G, EntryOf(H, t)))
         /\ AllClean(RefreshOP(H, G, EntryOf(H, t)), G)
  <1>1. H.registry \subseteq Shadows /\ Named(H)
    BY HostFacts DEF Sound
  <1>2. PICK b : b = EntryOf(H, t)
    OBVIOUS
  <1>3. CASE b \in Shadows /\ H.blocks[b].full
    <2>1. b \in H.registry
      BY <1>1, <1>2, <1>3, EntryFacts, ShadowNames
    <2>2. PICK K : K = PullOP(H, G, b)
      OBVIOUS
    <2>3. Sound(K, G, own, old) /\ Whole(K) /\ Fetched1(H, K, G, b)
      BY <1>3, <2>1, <2>2, PullSound DEF Whole
    <2>4. AllClean(K, G)
      BY <2>3 DEF AllClean, Fetched1
    <2>5. RefreshOP(H, G, b) = K
      BY <1>3, <2>2 DEF RefreshOP
    <2>6. QED
      BY <1>2, <2>3, <2>4, <2>5 DEF Fetched1
  <1>4. CASE ~(b \in Shadows /\ H.blocks[b].full)
    <2>1. RefreshOP(H, G, b) = H
      BY <1>4 DEF RefreshOP
    <2>2. QED
      BY <1>2, <2>1 DEF Grows
  <1>5. QED
    BY <1>3, <1>4

-------------------------------------------------------------------------------
(* Writing back.                                                           *)

LEMMA InvFacts ==
  ASSUME OpInv
  PROVE  /\ blocks \in [Shadows -> ShadowType] /\ registry \subseteq Shadows
         /\ extended \in [Addresses -> Shadows \cup {Nil}]
         /\ Now.blocks = blocks /\ Now.registry = registry /\ Now.extended = extended
         /\ \A b \in Shadows : blocks[b].gop \in {b[1], Nil} /\ blocks[b].full = blocks[b].based
         /\ \A b \in registry : blocks[b].gop = b[1] /\ b \in Shadows /\ b[1] \in Addresses
                                /\ b[1] # Nil
         /\ \A b, c \in registry : b[1] = c[1] => b = c
  <1>1. Now.blocks = blocks /\ Now.registry = registry /\ Now.extended = extended
    BY DEF Now
  <1>2. /\ blocks \in [Shadows -> ShadowType] /\ registry \subseteq Shadows
        /\ extended \in [Addresses -> Shadows \cup {Nil}]
    BY <1>1, HostFacts DEF OpInv, OpTypes
  <1>3. Named(Now) /\ Whole(Now)
    BY DEF OpInv, Sound
  <1>4. QED
    BY <1>1, <1>2, <1>3, ShadowNames DEF Named, Whole

\* A shadow of the registry is pending if one of its fields is.
LEMMA PendingFacts ==
  ASSUME OpInv, NEW b \in registry
  PROVE  b \in PendingOps <=> PendingLink(blocks[b]) \/ PendingPp(blocks[b])
  BY InvFacts DEF PendingOps, DirtyShadow, PendingLink, PendingPp

\* What a shadow that can be written back writes to its OP.
LEMMA WrittenOne ==
  ASSUME OpInv, NEW D \in SUBSET (PendingOps \ Unwritable), NEW b \in D
  PROVE  /\ b \in registry /\ b \in Shadows /\ b[1] \in Addresses
         /\ blocks[b].link # Scratch
         /\ TokenOf(blocks[b].link) \in Addresses \cup {Nil}
         /\ WrittenOps(D)[b[1]].alive = ops[b[1]].alive
         /\ WrittenOps(D)[b[1]].link = IF PendingLink(blocks[b]) THEN TokenOf(blocks[b].link)
                                       ELSE ops[b[1]].link
         /\ WrittenOps(D)[b[1]].hooked = (ops[b[1]].hooked \/ PendingPp(blocks[b]))
         /\ WrittenOps(D)[b[1]] \in OpType
  <1>1. b \in registry /\ b \in PendingOps /\ b \in Shadows /\ b[1] \in Addresses /\ b \notin Unwritable
    BY InvFacts DEF PendingOps
  <1>2. PICK s \in ShadowType : s = blocks[b]
    BY <1>1, InvFacts
  <1>3. s.based
    BY <1>1, <1>2 DEF PendingOps, DirtyShadow
  <1>4. s.link # Scratch
    <2>1. s.oldLink # Scratch
      BY <1>2, ShadowNames DEF ShadowType, ShadowFields
    <2>2. QED
      BY <1>1, <1>2, <2>1 DEF Unwritable
  <1>5. TokenOf(s.link) \in Addresses \cup {Nil}
    <2>1. s.link \in Shadows \cup {Nil}
      BY <1>4 DEF ShadowType, ShadowFields
    <2>2. \A c \in Shadows : blocks[c].gop \in Addresses \cup {Nil}
      BY InvFacts DEF ShadowType, ShadowFields
    <2>3. QED
      BY <2>1, <2>2 DEF TokenOf
  <1>6. blocks[b].gop = b[1] /\ \A c \in D : blocks[c].gop = b[1] => c = b
    BY <1>1, InvFacts DEF PendingOps
  <1>7. (CHOOSE c \in D : blocks[c].gop = b[1]) = b
    BY <1>6
  <1>8. PICK o \in OpType : o = ops[b[1]]
    BY <1>1 DEF OpInv, OpTypes
  <1>9. PICK w : w = [o EXCEPT !.link = IF s.link # s.oldLink THEN TokenOf(s.link) ELSE @,
                               !.hooked = @ \/ s.pp # s.oldPp]
    OBVIOUS
  <1>10. WrittenOps(D)[b[1]] = w
    BY <1>1, <1>2, <1>6, <1>7, <1>8, <1>9 DEF WrittenOps
  <1>11. /\ w.alive = o.alive
         /\ w.link = IF s.link # s.oldLink THEN TokenOf(s.link) ELSE o.link
         /\ w.hooked = (o.hooked \/ s.pp # s.oldPp)
         /\ w \in OpType
    BY <1>5, <1>8, <1>9 DEF OpType
  <1>12. QED
    BY <1>1, <1>2, <1>3, <1>4, <1>5, <1>8, <1>10, <1>11 DEF PendingLink, PendingPp

LEMMA WrittenOther ==
  ASSUME OpInv, NEW D \in SUBSET PendingOps, NEW t \in Addresses, \A b \in D : b[1] # t
  PROVE  WrittenOps(D)[t] = ops[t] /\ Owners(D)[t] = hookOwner[t]
         /\ WrittenBack(D).extended[t] = extended[t]
  <1>1. \A b \in D : blocks[b].gop # t
    BY InvFacts DEF PendingOps
  <1>2. QED
    BY <1>1 DEF WrittenOps, Owners, WrittenBack

\* After a write-back the guest's OPs have what was wanted of them.
LEMMA WrittenFacts ==
  ASSUME OpInv, NEW D \in SUBSET (PendingOps \ Unwritable)
  PROVE  /\ WrittenOps(D) \in [Addresses -> OpType]
         /\ \A t \in Addresses : WrittenOps(D)[t].alive = ops[t].alive
         /\ ~Recycled => \A t \in Addresses :
              ops[t].alive /\ (\A b \in PendingOps : b[1] = t => b \in D) =>
              WrittenOps(D)[t].link = wanted[t].link /\ WrittenOps(D)[t].hooked = wanted[t].hooked
  <1>1. ASSUME NEW t \in Addresses
        PROVE  WrittenOps(D)[t] \in OpType /\ WrittenOps(D)[t].alive = ops[t].alive
    <2>1. CASE \E b \in D : b[1] = t
      BY <2>1, WrittenOne
    <2>2. CASE \A b \in D : b[1] # t
      BY <2>2, WrittenOther DEF OpInv, OpTypes
    <2>3. QED
      BY <2>1, <2>2
  <1>2. WrittenOps(D) \in [Addresses -> OpType]
    <2>1. WrittenOps(D) = [t \in Addresses |-> WrittenOps(D)[t]]
      BY DEF WrittenOps
    <2>2. QED
      BY <1>1, <2>1
  <1>3. ASSUME ~Recycled, NEW t \in Addresses, ops[t].alive, \A b \in PendingOps : b[1] = t => b \in D
        PROVE  WrittenOps(D)[t].link = wanted[t].link /\ WrittenOps(D)[t].hooked = wanted[t].hooked
    <2>1. /\ (\A b \in registry : b[1] = t => ~PendingLink(blocks[b])) => ops[t].link = wanted[t].link
          /\ (\A b \in registry : b[1] = t => ~PendingPp(blocks[b])) => ops[t].hooked = wanted[t].hooked
      BY <1>3 DEF OpInv, FieldsSettled
    <2>2. CASE \A b \in D : b[1] # t
      <3>1. \A b \in registry : b[1] = t => ~PendingLink(blocks[b]) /\ ~PendingPp(blocks[b])
        BY <1>3, <2>2, PendingFacts
      <3>2. QED
        BY <2>1, <2>2, <3>1, WrittenOther
    <2>3. CASE \E b \in D : b[1] = t
      <3>1. PICK b \in D : b[1] = t
        BY <2>3
      <3>2. /\ b \in registry /\ blocks[b].link # Scratch
            /\ WrittenOps(D)[t].link = IF PendingLink(blocks[b]) THEN TokenOf(blocks[b].link)
                                       ELSE ops[t].link
            /\ WrittenOps(D)[t].hooked = (ops[t].hooked \/ PendingPp(blocks[b]))
        BY <3>1, WrittenOne
      <3>3. \A c \in registry : c[1] = t => c = b
        BY <3>1, <3>2, InvFacts
      <3>4. /\ PendingLink(blocks[b]) =>
                 \/ blocks[b].link \notin Shadows /\ wanted[t].link = blocks[b].link
                 \/ blocks[b].link \in registry /\ wanted[t].link = blocks[b].link[1]
            /\ PendingPp(blocks[b]) => wanted[t].hooked
        BY <1>3, <3>1, <3>2 DEF OpInv, FieldsSettled
      <3>5. WrittenOps(D)[t].link = wanted[t].link
        <4>1. CASE ~PendingLink(blocks[b])
          BY <2>1, <3>2, <3>3, <4>1
        <4>2. CASE PendingLink(blocks[b]) /\ blocks[b].link \notin Shadows
          <5>1. blocks[b].link = Nil
            BY <3>2, <4>2, InvFacts DEF ShadowType, ShadowFields
          <5>2. wanted[t].link = Nil
            <6>1. blocks[b].link \notin registry
              BY <4>2, InvFacts
            <6>2. QED
              BY <3>4, <4>2, <5>1, <6>1
          <5>3. QED
            BY <3>2, <4>2, <5>1, <5>2 DEF TokenOf
        <4>3. CASE PendingLink(blocks[b]) /\ blocks[b].link \in Shadows
          <5>1. blocks[b].link \in registry /\ wanted[t].link = blocks[b].link[1]
            BY <3>4, <4>3
          <5>2. TokenOf(blocks[b].link) = blocks[b].link[1]
            BY <5>1, <4>3, InvFacts, ShadowNames DEF TokenOf
          <5>3. QED
            BY <3>2, <4>3, <5>1, <5>2
        <4>4. QED
          BY <4>1, <4>2, <4>3
      <3>6. WrittenOps(D)[t].hooked = wanted[t].hooked
        <4>1. wanted[t].hooked \in BOOLEAN /\ ops[t].hooked \in BOOLEAN
          BY DEF OpInv, OpTypes, OpType
        <4>2. CASE ~PendingPp(blocks[b])
          BY <2>1, <3>2, <3>3, <4>1, <4>2
        <4>3. CASE PendingPp(blocks[b])
          BY <3>2, <3>4, <4>1, <4>3
        <4>4. QED
          BY <4>2, <4>3
      <3>7. QED
        BY <3>5, <3>6
    <2>4. QED
      BY <2>2, <2>3
  <1>4. QED
    BY <1>1, <1>2, <1>3

Patched(D) == {b \in D : blocks[b].pp # blocks[b].oldPp}

LEMMA WrittenBackOne ==
  ASSUME OpInv, NEW D \in SUBSET (PendingOps \ Unwritable), NEW b \in D
  PROVE  /\ WrittenBack(D).blocks[b] \in ShadowType
         /\ WrittenBack(D).blocks[b].gop = b[1] /\ WrittenBack(D).blocks[b].full = TRUE
         /\ WrittenBack(D).blocks[b].based = TRUE
         /\ WrittenBack(D).blocks[b].link = blocks[b].link
         /\ blocks[b].persist => WrittenBack(D).blocks[b].persist
         /\ b \in Patched(D) => WrittenBack(D).blocks[b].persist
         /\ Clean(WrittenBack(D).blocks[b])
  <1>1. /\ b \in registry /\ b \in Shadows /\ blocks[b].link # Scratch /\ blocks[b].gop = b[1]
        /\ blocks[b] \in ShadowType /\ blocks[b].full = blocks[b].based /\ blocks[b].based
    <2>1. b \in PendingOps /\ b \in registry /\ b \in Shadows /\ blocks[b].link # Scratch
      BY WrittenOne
    <2>2. blocks[b].based
      BY <2>1 DEF PendingOps, DirtyShadow
    <2>3. QED
      BY <2>1, <2>2, InvFacts
  <1>2. PICK s : s = Captured(blocks[b])
    OBVIOUS
  <1>3. /\ s \in ShadowType /\ s.gop = b[1] /\ s.full = TRUE /\ s.persist = blocks[b].persist
        /\ s.based = TRUE /\ s.link = blocks[b].link /\ s.link = s.oldLink /\ s.pp = s.oldPp
    <2>1. blocks[b].full = TRUE
      BY <1>1 DEF ShadowType, ShadowFields
    <2>2. QED
      BY <1>1, <1>2, <2>1, CapturedFacts
  <1>4. PICK p \in BOOLEAN : p = (s.persist \/ b \in Patched(D))
    BY <1>3
  <1>5. PICK e : e = [s EXCEPT !.persist = p]
    OBVIOUS
  <1>6. WrittenBack(D).blocks[b] = e
    BY <1>1, <1>2, <1>4, <1>5 DEF WrittenBack, Patched
  <1>7. /\ e \in ShadowType /\ e.gop = s.gop /\ e.full = s.full /\ e.based = s.based
        /\ e.link = s.link /\ e.oldLink = s.oldLink /\ e.pp = s.pp /\ e.oldPp = s.oldPp
        /\ e.persist = p
    BY <1>3, <1>4, <1>5 DEF ShadowType, ShadowFields
  <1>8. Clean(e)
    BY <1>3, <1>7 DEF DirtyShadow, Clean
  <1>9. QED
    BY <1>3, <1>4, <1>6, <1>7, <1>8

LEMMA WrittenBackFacts ==
  ASSUME OpInv, NEW D \in SUBSET (PendingOps \ Unwritable)
  PROVE  /\ WrittenBack(D) \in HostType
         /\ WrittenBack(D).registry = registry
         /\ \A b \in Shadows \ D : WrittenBack(D).blocks[b] = blocks[b]
         /\ \A b \in Patched(D) : WrittenBack(D).extended[b[1]] = b /\ Owners(D)[b[1]] = b
         /\ \A t \in Addresses : (\A b \in Patched(D) : b[1] # t) =>
              WrittenBack(D).extended[t] = extended[t] /\ Owners(D)[t] = hookOwner[t]
         /\ Owners(D) \in [Addresses -> Shadows \cup {Nil}]
  <1>1. \A b \in D : b \in registry /\ b \in Shadows /\ b[1] \in Addresses /\ blocks[b].gop = b[1]
    BY InvFacts DEF PendingOps
  <1>2. \A b, c \in D : b[1] = c[1] => b = c
    BY <1>1, InvFacts
  <1>3. \A b \in Shadows \ D : WrittenBack(D).blocks[b] = blocks[b]
    BY DEF WrittenBack
  <1>4. ASSUME NEW b \in Patched(D)
        PROVE  WrittenBack(D).extended[b[1]] = b /\ Owners(D)[b[1]] = b
    <2>1. b \in D /\ b[1] \in Addresses
      BY <1>1 DEF Patched
    <2>2. \A c \in Patched(D) : blocks[c].gop = b[1] <=> c = b
      BY <1>1, <1>2 DEF Patched
    <2>3. (CHOOSE c \in Patched(D) : blocks[c].gop = b[1]) = b
      BY <2>2
    <2>4. WrittenBack(D).extended[b[1]] = b
      BY <2>1, <2>2, <2>3 DEF WrittenBack, Patched
    <2>5. \A c \in D : (blocks[c].gop = b[1] /\ blocks[c].pp # blocks[c].oldPp) <=> c = b
      BY <2>1, <2>2 DEF Patched
    <2>6. Owners(D)[b[1]] = b
      BY <2>1, <2>5 DEF Owners
    <2>7. QED
      BY <2>4, <2>6
  <1>5. ASSUME NEW t \in Addresses, \A b \in Patched(D) : b[1] # t
        PROVE  WrittenBack(D).extended[t] = extended[t] /\ Owners(D)[t] = hookOwner[t]
    <2>1. \A b \in D : ~(blocks[b].gop = t /\ blocks[b].pp # blocks[b].oldPp)
      BY <1>1, <1>5 DEF Patched
    <2>2. QED
      BY <2>1 DEF WrittenBack, Owners
  <1>6. \A t \in Addresses : /\ WrittenBack(D).extended[t] \in Shadows \cup {Nil}
                             /\ Owners(D)[t] \in Shadows \cup {Nil}
    <2>1. SUFFICES ASSUME NEW t \in Addresses
                   PROVE  /\ WrittenBack(D).extended[t] \in Shadows \cup {Nil}
                          /\ Owners(D)[t] \in Shadows \cup {Nil}
      OBVIOUS
    <2>2. CASE \E b \in Patched(D) : b[1] = t
      BY <1>1, <1>4, <2>2 DEF Patched
    <2>3. CASE \A b \in Patched(D) : b[1] # t
      BY <1>5, <2>3, InvFacts DEF OpInv, OpTypes
    <2>4. QED
      BY <2>2, <2>3
  <1>7. Owners(D) \in [Addresses -> Shadows \cup {Nil}]
    <2>1. Owners(D) = [t \in Addresses |-> Owners(D)[t]]
      BY DEF Owners
    <2>2. QED
      BY <1>6, <2>1
  <1>8. WrittenBack(D) \in HostType
    <2>1. WrittenBack(D) = [blocks |-> WrittenBack(D).blocks, registry |-> WrittenBack(D).registry,
                            extended |-> WrittenBack(D).extended]
      BY DEF WrittenBack
    <2>2. WrittenBack(D).blocks = [b \in Shadows |-> WrittenBack(D).blocks[b]]
      BY DEF WrittenBack
    <2>3. WrittenBack(D).extended = [t \in Addresses |-> WrittenBack(D).extended[t]]
      BY DEF WrittenBack
    <2>4. \A b \in Shadows : WrittenBack(D).blocks[b] \in ShadowType
      <3>1. \A b \in D : WrittenBack(D).blocks[b] \in ShadowType
        BY WrittenBackOne
      <3>2. \A b \in Shadows \ D : WrittenBack(D).blocks[b] \in ShadowType
        BY <1>3, InvFacts
      <3>3. QED
        BY <3>1, <3>2
    <2>5. WrittenBack(D).blocks \in [Shadows -> ShadowType]
      BY <2>2, <2>4
    <2>6. WrittenBack(D).extended \in [Addresses -> Shadows \cup {Nil}]
      BY <1>6, <2>3
    <2>7. WrittenBack(D).registry \in SUBSET Shadows
      BY InvFacts DEF WrittenBack
    <2>8. QED
      BY <2>1, <2>5, <2>6, <2>7 DEF HostType
  <1>9. WrittenBack(D).registry = registry
    BY DEF WrittenBack
  <1>10. QED
    BY <1>3, <1>4, <1>5, <1>7, <1>8, <1>9

LEMMA WrittenBackSound ==
  ASSUME OpInv, NEW D \in SUBSET (PendingOps \ Unwritable)
  PROVE  /\ Sound(WrittenBack(D), WrittenOps(D), Owners(D), Stale) /\ Whole(WrittenBack(D))
         /\ Grows(Now, WrittenBack(D))
  <1>1. PICK K \in HostType :
          /\ K = WrittenBack(D) /\ K.registry = registry
          /\ \A b \in Shadows \ D : K.blocks[b] = blocks[b]
          /\ \A b \in Patched(D) : K.extended[b[1]] = b /\ Owners(D)[b[1]] = b
          /\ \A t \in Addresses : (\A b \in Patched(D) : b[1] # t) =>
               K.extended[t] = extended[t] /\ Owners(D)[t] = hookOwner[t]
    BY WrittenBackFacts
  <1>2. \A b \in D : /\ b \in registry /\ b \in Shadows /\ b[1] \in Addresses
                     /\ K.blocks[b].gop = b[1] /\ K.blocks[b].full = K.blocks[b].based
                     /\ K.blocks[b].link = blocks[b].link
                     /\ blocks[b].persist => K.blocks[b].persist
                     /\ b \in Patched(D) => K.blocks[b].persist
                     /\ Clean(K.blocks[b])
    BY <1>1, WrittenBackOne, WrittenOne
  <1>3. PICK W \in [Addresses -> OpType] :
          /\ W = WrittenOps(D) /\ \A t \in Addresses : W[t].alive = ops[t].alive
    BY WrittenFacts
  <1>4. Named(Now) /\ KeptOnes(Now) /\ FreshOnes(Now, ops, Stale)
        /\ HookedOnes(Now, ops, hookOwner, Stale)
    BY DEF OpInv, Sound
  <1>5. Named(K)
    <2>1. \A b \in Shadows : K.blocks[b].gop \in {b[1], Nil}
      BY <1>1, <1>2, InvFacts
    <2>2. \A b \in registry : K.blocks[b].gop = b[1]
      BY <1>1, <1>2, InvFacts
    <2>3. QED
      BY <1>1, <2>1, <2>2, InvFacts DEF Named
  <1>6. Whole(K)
    BY <1>1, <1>2, InvFacts DEF Whole
  <1>7. KeptOnes(K)
    <2>1. SUFFICES ASSUME NEW t \in Addresses, K.extended[t] # Nil
                   PROVE  /\ K.extended[t][1] = t
                          /\ K.blocks[K.extended[t]].gop = t /\ K.blocks[K.extended[t]].persist
      BY DEF KeptOnes
    <2>2. CASE \E b \in Patched(D) : b[1] = t
      BY <1>1, <1>2, <2>2 DEF Patched
    <2>3. CASE \A b \in Patched(D) : b[1] # t
      <3>1. PICK x : x = extended[t]
        OBVIOUS
      <3>2. K.extended[t] = x /\ x # Nil
        BY <1>1, <2>1, <2>3, <3>1
      <3>3. x \in Shadows /\ x[1] = t /\ blocks[x].gop = t /\ blocks[x].persist
        BY <1>4, <3>1, <3>2, InvFacts DEF KeptOnes
      <3>4. K.blocks[x].gop = t /\ K.blocks[x].persist
        BY <1>1, <1>2, <3>3
      <3>5. QED
        BY <3>2, <3>3, <3>4
    <2>4. QED
      BY <2>2, <2>3
  <1>8. FreshOnes(K, W, Stale)
    BY <1>1, <1>3, <1>4, InvFacts DEF FreshOnes
  <1>9. HookedOnes(K, W, Owners(D), Stale)
    <2>1. SUFFICES ASSUME NEW t \in Addresses, W[t].alive, W[t].hooked
                   PROVE  /\ Owners(D)[t] # Nil /\ K.extended[t] = Owners(D)[t]
                          /\ Owners(D)[t] \notin Stale
                          /\ Owners(D)[t] \in K.registry \/ Clean(K.blocks[Owners(D)[t]])
                          /\ \A b \in K.registry : b[1] = t => b = Owners(D)[t]
      BY DEF HookedOnes
    <2>2. ops[t].alive
      BY <1>3, <2>1
    <2>3. CASE \E b \in Patched(D) : b[1] = t
      <3>1. PICK b \in Patched(D) : b[1] = t
        BY <2>3
      <3>2. b \in D /\ K.extended[t] = b /\ Owners(D)[t] = b /\ b \in registry /\ b # Nil
        BY <1>1, <1>2, <3>1, ShadowNames DEF Patched
      <3>3. b \notin Stale
        BY <1>4, <2>2, <3>1, <3>2, InvFacts DEF FreshOnes
      <3>4. \A c \in registry : c[1] = t => c = b
        BY <3>1, <3>2, InvFacts
      <3>5. QED
        BY <1>1, <3>2, <3>3, <3>4
    <2>4. CASE \A b \in Patched(D) : b[1] # t
      <3>1. PICK x : x = hookOwner[t]
        OBVIOUS
      <3>2. K.extended[t] = extended[t] /\ Owners(D)[t] = x
        BY <1>1, <2>4, <3>1
      <3>3. ops[t].hooked
        <4>1. CASE \E b \in D : b[1] = t
          <5>1. PICK b \in D : b[1] = t
            BY <4>1
          <5>2. W[t].hooked = (ops[t].hooked \/ PendingPp(blocks[b]))
            BY <1>3, <5>1, WrittenOne
          <5>3. ~PendingPp(blocks[b])
            BY <2>4, <5>1 DEF PendingPp, Patched
          <5>4. QED
            BY <2>1, <5>2, <5>3
        <4>2. CASE \A b \in D : b[1] # t
          BY <1>3, <2>1, <4>2, WrittenOther
        <4>3. QED
          BY <4>1, <4>2
      <3>4. /\ x # Nil /\ extended[t] = x /\ x \notin Stale
            /\ x \in registry \/ Clean(blocks[x])
            /\ \A b \in registry : b[1] = t => b = x
        BY <1>4, <2>2, <3>1, <3>3, InvFacts DEF HookedOnes
      <3>5. x \in registry \/ Clean(K.blocks[x])
        BY <1>1, <1>2, <3>4, InvFacts
      <3>6. QED
        BY <1>1, <3>2, <3>4, <3>5
    <2>5. QED
      BY <2>3, <2>4
  <1>10. Grows(Now, K)
    <2>1. \A c \in Shadows : K.blocks[c].link = blocks[c].link
      BY <1>1, <1>2
    <2>2. ASSUME NEW t \in Addresses PROVE K.extended[t] \in registry \/ K.extended[t] = extended[t]
      BY <1>1, <1>2 DEF Patched
    <2>3. ASSUME NEW x, InUseBy(K, x) PROVE InUseBy(Now, x)
      BY <1>1, <2>1, <2>2, <2>3, InvFacts DEF InUseBy
    <2>4. QED
      BY <1>1, <2>3, InUseFacts, InvFacts DEF Grows
  <1>11. Sound(K, W, Owners(D), Stale)
    BY <1>5, <1>7, <1>8, <1>9 DEF Sound
  <1>12. QED
    BY <1>1, <1>3, <1>6, <1>10, <1>11

-------------------------------------------------------------------------------
(* Keeping the invariant.                                                  *)

\* What is left of H when blocks that nothing leads to are forgotten.
Remembered(H) ==
  [blocks |-> [b \in Shadows |-> IF b \in InUse(H) THEN H.blocks[b] ELSE NoShadow],
   registry |-> H.registry, extended |-> H.extended]

OutdatedIn(H, dead) ==
  {b \in InUse(H) \cap Shadows : b \in outdated \cap InUse(Now) \/ H.blocks[b].gop \in dead}

LEMMA ForgetSound ==
  ASSUME NEW H, NEW G, NEW own, NEW dead, NEW old, old \subseteq Counted(OutdatedIn(H, dead)),
         Sound(H, G, own, Stale), Whole(H),
         \A t \in Addresses : t \in dead => ~G[t].alive
  PROVE  /\ Sound(Remembered(H), G, own, old) /\ Whole(Remembered(H))
         /\ \A b \in H.registry : Remembered(H).blocks[b] = H.blocks[b]
  <1>0. PICK N, out : /\ N = Remembered(H) /\ out = Counted(OutdatedIn(H, dead))
    OBVIOUS
  <1>1. /\ H.blocks \in [Shadows -> ShadowType] /\ H.registry \subseteq Shadows
        /\ H.extended \in [Addresses -> Shadows \cup {Nil}]
    BY HostFacts DEF Sound
  <1>2. /\ N.registry = H.registry /\ N.extended = H.extended
        /\ \A b \in Shadows : N.blocks[b] = IF b \in InUse(H) THEN H.blocks[b] ELSE NoShadow
    BY <1>0 DEF Remembered
  <1>3. \A b \in H.registry : b \in InUse(H)
    BY InUseFacts DEF InUseBy
  <1>4. \A t \in Addresses : H.extended[t] \in InUse(H)
    BY InUseFacts DEF InUseBy
  <1>5. /\ NoShadow \in ShadowType /\ NoShadow.gop = Nil /\ NoShadow.full = NoShadow.based
    BY DEF NoShadow, ShadowType, ShadowFields
  <1>6. \A b \in H.registry : N.blocks[b] = H.blocks[b]
    BY <1>1, <1>2, <1>3
  <1>7. \A t \in Addresses : H.extended[t] # Nil =>
          H.extended[t] \in Shadows /\ N.blocks[H.extended[t]] = H.blocks[H.extended[t]]
    BY <1>1, <1>2, <1>4
  <1>8. N \in HostType
    <2>1. \A b \in Shadows : N.blocks[b] \in ShadowType
      BY <1>1, <1>2, <1>5
    <2>2. N.blocks \in [Shadows -> ShadowType]
      <3>1. N.blocks = [b \in Shadows |-> N.blocks[b]]
        BY <1>0 DEF Remembered
      <3>2. QED
        BY <2>1, <3>1
    <2>3. QED
      BY <1>0, <1>1, <2>2 DEF HostType, Remembered
  <1>9. Named(N)
    BY <1>1, <1>2, <1>5, <1>6 DEF Sound, Named
  <1>10. Whole(N)
    BY <1>2, <1>5 DEF Whole
  <1>11. KeptOnes(N)
    <2>1. SUFFICES ASSUME NEW t \in Addresses, H.extended[t] # Nil
                   PROVE  /\ H.extended[t][1] = t
                          /\ N.blocks[H.extended[t]].gop = t /\ N.blocks[H.extended[t]].persist
      BY <1>2 DEF KeptOnes
    <2>2. QED
      BY <1>7, <2>1 DEF Sound, KeptOnes
  <1>12. FreshOnes(N, G, old)
    <2>1. SUFFICES ASSUME NEW b \in H.registry, G[b[1]].alive
                   PROVE  b \notin out
      BY <1>0, <1>2 DEF FreshOnes
    <2>2. H.blocks[b].gop = b[1] /\ b \notin Stale /\ b[1] \in Addresses
      BY <1>1, <2>1, ShadowNames DEF Sound, Named, FreshOnes
    <2>3. QED
      BY <1>0, <2>1, <2>2 DEF Stale, Counted, OutdatedIn
  <1>13. HookedOnes(N, G, own, old)
    <2>1. SUFFICES ASSUME NEW s \in Addresses, G[s].alive, G[s].hooked
                   PROVE  /\ own[s] # Nil /\ H.extended[s] = own[s] /\ own[s] \notin out
                          /\ own[s] \in H.registry \/ Clean(N.blocks[own[s]])
                          /\ \A b \in H.registry : b[1] = s => b = own[s]
      BY <1>0, <1>2 DEF HookedOnes
    <2>2. /\ own[s] # Nil /\ H.extended[s] = own[s] /\ own[s] \notin Stale
          /\ own[s] \in H.registry \/ Clean(H.blocks[own[s]])
          /\ \A b \in H.registry : b[1] = s => b = own[s]
      BY <2>1 DEF Sound, HookedOnes
    <2>3. N.blocks[own[s]] = H.blocks[own[s]] /\ H.blocks[own[s]].gop = s
      BY <1>7, <2>2 DEF Sound, KeptOnes
    <2>4. own[s] \notin out
      BY <1>0, <2>1, <2>2, <2>3 DEF Stale, Counted, OutdatedIn
    <2>5. QED
      BY <2>2, <2>3, <2>4
  <1>14. QED
    BY <1>0, <1>6, <1>8, <1>9, <1>10, <1>11, <1>12, <1>13 DEF Sound

LEMMA SameSettled ==
  ASSUME NEW R, NEW B, NEW C, NEW G, NEW W, FieldsSettled(R, B, G, W), \A b \in R : C[b] = B[b]
  PROVE  FieldsSettled(R, C, G, W)
  BY DEF FieldsSettled

LEMMA KeepInv ==
  ASSUME NEW H, NEW G \in [Addresses -> OpType], NEW dead,
         NEW own \in [Addresses -> Shadows \cup {Nil}],
         NEW w \in [Addresses -> [alive : BOOLEAN, link : Addresses \cup {Nil, Scratch},
                                  hooked : BOOLEAN]],
         Sound(H, G, own, Stale), Whole(H),
         \A t \in Addresses : t \in dead => ~G[t].alive,
         FieldsSettled(H.registry, H.blocks, G, w),
         mode' \in OpModes, mode' # "keyword" => AllClean(H, G),
         KeepShadowsBut(H, dead), ops' = G, hookOwner' = own, wanted' = w
  PROVE  OpInv'
  <1>1. PICK N : N = Remembered(H)
    OBVIOUS
  <1>2. PICK out : out = OutdatedIn(H, dead)
    OBVIOUS
  <1>3. Now' = N /\ outdated' = out
    BY <1>1, <1>2 DEF KeepShadowsBut, Now, Remembered, OutdatedIn
  <1>4. PICK old : old = Stale'
    OBVIOUS
  <1>5. old \subseteq Counted(out)
    BY <1>3, <1>4 DEF Stale, Counted
  <1>6. /\ Sound(N, G, own, old) /\ Whole(N)
        /\ \A b \in H.registry : N.blocks[b] = H.blocks[b]
    BY <1>1, <1>2, <1>5, ForgetSound
  <1>7. N.registry = H.registry /\ blocks' = N.blocks /\ registry' = N.registry
    BY <1>1 DEF KeepShadowsBut, Remembered
  <1>8. FieldsSettled(registry', blocks', G, w)
    <2>1. PICK C : C = N.blocks
      OBVIOUS
    <2>2. FieldsSettled(H.registry, C, G, w)
      BY <1>6, <2>1, SameSettled
    <2>3. QED
      BY <1>7, <2>1, <2>2
  <1>9. mode' # "keyword" => AllClean(N, G)
    BY <1>6, <1>7 DEF AllClean
  <1>10. N \in HostType
    BY <1>6 DEF Sound
  <1>11. OpTypes'
    BY <1>2, <1>3, <1>10 DEF OpTypes, OutdatedIn
  <1>12. CleanOutside'
    BY <1>3, <1>9 DEF CleanOutside
  <1>13. Sound(Now, ops, hookOwner, Stale)' /\ Whole(Now)'
    BY <1>3, <1>4, <1>6
  <1>14. FieldsSettled(registry, blocks, ops, wanted)'
    BY <1>8
  <1>15. QED
    BY <1>11, <1>12, <1>13, <1>14 DEF OpInv

\* Other OPs fit the same shadows, as long as those that are new have none, and hooks are
\* those that there were.
LEMMA SoundOther ==
  ASSUME NEW H, NEW G, NEW W, NEW own, NEW mine, NEW old, Sound(H, W, own, old),
         \A t \in Addresses : G[t].alive =>
           \/ W[t].alive /\ (G[t].hooked => W[t].hooked) /\ mine[t] = own[t]
           \/ (~InRegistry(H, t) \/ old = {}) /\ ~G[t].hooked
  PROVE  Sound(H, G, mine, old)
  <1>1. H.registry \subseteq Shadows
    BY HostFacts DEF Sound
  <1>2. FreshOnes(H, G, old)
    <2>1. SUFFICES ASSUME NEW b \in H.registry, G[b[1]].alive PROVE b \notin old
      BY DEF FreshOnes
    <2>2. b[1] \in Addresses /\ InRegistry(H, b[1])
      BY <1>1, ShadowNames DEF InRegistry
    <2>3. W[b[1]].alive \/ old = {}
      BY <2>1, <2>2
    <2>4. QED
      BY <2>3 DEF Sound, FreshOnes
  <1>3. HookedOnes(H, G, mine, old)
    <2>1. SUFFICES ASSUME NEW t \in Addresses, G[t].alive, G[t].hooked
                   PROVE  /\ mine[t] # Nil /\ H.extended[t] = mine[t] /\ mine[t] \notin old
                          /\ mine[t] \in H.registry \/ Clean(H.blocks[mine[t]])
                          /\ \A b \in H.registry : b[1] = t => b = mine[t]
      BY DEF HookedOnes
    <2>2. W[t].alive /\ W[t].hooked /\ mine[t] = own[t]
      BY <2>1
    <2>3. QED
      BY <2>2 DEF Sound, HookedOnes
  <1>4. QED
    BY <1>2, <1>3 DEF Sound

\* What is not in use now is not found either: all of outdated counts as well as Stale.
LEMMA SoundNow ==
  ASSUME OpInv
  PROVE  Sound(Now, ops, hookOwner, Counted(outdated))
  <1>1. FreshOnes(Now, ops, Counted(outdated))
    <2>1. \A b \in Now.registry : b \in InUse(Now)
      BY InUseFacts DEF InUseBy
    <2>2. QED
      BY <2>1 DEF OpInv, Sound, FreshOnes, Stale, Counted
  <1>2. HookedOnes(Now, ops, hookOwner, Counted(outdated))
    <2>1. \A t \in Addresses : Now.extended[t] \in InUse(Now)
      BY InUseFacts DEF InUseBy
    <2>2. SUFFICES ASSUME NEW t \in Addresses, ops[t].alive, ops[t].hooked
                   PROVE  /\ hookOwner[t] # Nil /\ Now.extended[t] = hookOwner[t]
                          /\ hookOwner[t] \notin Counted(outdated)
                          /\ hookOwner[t] \in Now.registry \/ Clean(Now.blocks[hookOwner[t]])
                          /\ \A b \in Now.registry : b[1] = t => b = hookOwner[t]
      BY DEF HookedOnes
    <2>3. /\ hookOwner[t] # Nil /\ Now.extended[t] = hookOwner[t]
          /\ hookOwner[t] \notin Stale
          /\ hookOwner[t] \in Now.registry \/ Clean(Now.blocks[hookOwner[t]])
          /\ \A b \in Now.registry : b[1] = t => b = hookOwner[t]
      BY <2>2 DEF OpInv, Sound, HookedOnes
    <2>4. QED
      BY <2>1, <2>3 DEF Stale, Counted
  <1>3. QED
    BY <1>1, <1>2 DEF OpInv, Sound

\* Nothing is pending in a shadow that has nothing to write.
LEMMA CleanFacts ==
  ASSUME ~Recycled, NEW H, NEW b \in H.registry, Named(H), H.registry \subseteq Shadows,
         Clean(H.blocks[b])
  PROVE  ~PendingLink(H.blocks[b]) /\ ~PendingPp(H.blocks[b])
  <1>1. H.blocks[b].gop # Nil
    BY ShadowNames DEF Named
  <1>2. QED
    BY <1>1 DEF Clean, DirtyShadow, PendingLink, PendingPp

LEMMA SettledClean ==
  ASSUME NEW H, NEW G, NEW w, Named(H), H.registry \subseteq Shadows, AllClean(H, G),
         ~Recycled => \A t \in Addresses : G[t].alive => G[t].link = w[t].link /\ G[t].hooked = w[t].hooked
  PROVE  FieldsSettled(H.registry, H.blocks, G, w)
  <1> SUFFICES ASSUME ~Recycled PROVE FieldsSettled(H.registry, H.blocks, G, w)
    BY DEF FieldsSettled
  <1>1. \A b \in H.registry : G[b[1]].alive => ~PendingLink(H.blocks[b]) /\ ~PendingPp(H.blocks[b])
    BY CleanFacts DEF AllClean
  <1>2. QED
    BY <1>1 DEF FieldsSettled

LEMMA CleanWanted ==
  ASSUME ~Recycled, OpInv, AllClean(Now, ops)
  PROVE  \A t \in Addresses : ops[t].alive =>
           ops[t].link = wanted[t].link /\ ops[t].hooked = wanted[t].hooked
  <1>1. SUFFICES ASSUME NEW t \in Addresses, ops[t].alive
                 PROVE  ops[t].link = wanted[t].link /\ ops[t].hooked = wanted[t].hooked
    OBVIOUS
  <1>2. Named(Now) /\ Now.registry \subseteq Shadows
    BY InvFacts DEF OpInv, Sound
  <1>3. \A b \in registry : b[1] = t => ~PendingLink(blocks[b]) /\ ~PendingPp(blocks[b])
    BY <1>1, <1>2, CleanFacts, InvFacts DEF AllClean
  <1>4. QED
    BY <1>1, <1>3 DEF OpInv, FieldsSettled

\* Shadows that were looked at leave what is pending as it was.
LEMMA LookedSettled ==
  ASSUME OpInv, NEW H, LookedAt(Now, H, ops), Sound(H, ops, hookOwner, Stale)
  PROVE  FieldsSettled(H.registry, H.blocks, ops, wanted)
  <1> SUFFICES ASSUME ~Recycled PROVE FieldsSettled(H.registry, H.blocks, ops, wanted)
    BY DEF FieldsSettled
  <1>1. Named(H) /\ H.registry \subseteq Shadows /\ registry \subseteq H.registry
    BY HostFacts, InvFacts DEF Sound, LookedAt, Grows
  <1>2. \A b \in registry : PendingLink(blocks[b]) \/ PendingPp(blocks[b]) => blocks[b].full
    BY InvFacts DEF PendingLink, PendingPp
  <1>3. ASSUME NEW b \in H.registry, ops[b[1]].alive
        PROVE  \/ b \in registry /\ H.blocks[b] = blocks[b]
               \/ /\ ~PendingLink(H.blocks[b]) /\ ~PendingPp(H.blocks[b])
                  /\ b \in registry => ~PendingLink(blocks[b]) /\ ~PendingPp(blocks[b])
    <2>1. CASE b \in registry /\ H.blocks[b] = blocks[b]
      BY <2>1
    <2>2. CASE b \in registry /\ H.blocks[b] # blocks[b]
      <3>1. ~blocks[b].full /\ Clean(H.blocks[b])
        BY <2>2, InvFacts DEF LookedAt
      <3>2. QED
        BY <1>1, <1>2, <2>2, <3>1, CleanFacts
    <2>3. CASE b \notin registry
      <3>1. Clean(H.blocks[b])
        BY <1>3, <2>3, InvFacts DEF LookedAt
      <3>2. QED
        BY <1>1, <2>3, <3>1, CleanFacts
    <2>4. QED
      BY <2>1, <2>2, <2>3
  <1>4. ASSUME NEW t \in Addresses, ops[t].alive
        PROVE  /\ (\A b \in H.registry : b[1] = t => ~PendingLink(H.blocks[b])) => ops[t].link = wanted[t].link
               /\ (\A b \in H.registry : b[1] = t => ~PendingPp(H.blocks[b])) => ops[t].hooked = wanted[t].hooked
    <2>1. /\ (\A b \in registry : b[1] = t => ~PendingLink(blocks[b])) => ops[t].link = wanted[t].link
          /\ (\A b \in registry : b[1] = t => ~PendingPp(blocks[b])) => ops[t].hooked = wanted[t].hooked
      BY <1>4 DEF OpInv, FieldsSettled
    <2>2. \A b \in registry : b[1] = t =>
            /\ PendingLink(blocks[b]) => PendingLink(H.blocks[b])
            /\ PendingPp(blocks[b]) => PendingPp(H.blocks[b])
      BY <1>1, <1>3, <1>4
    <2>3. QED
      BY <1>1, <2>1, <2>2
  <1>5. ASSUME NEW b \in H.registry, ops[b[1]].alive
        PROVE  /\ PendingLink(H.blocks[b]) =>
                    \/ H.blocks[b].link \notin Shadows /\ wanted[b[1]].link = H.blocks[b].link
                    \/ H.blocks[b].link \in H.registry /\ wanted[b[1]].link = H.blocks[b].link[1]
               /\ PendingPp(H.blocks[b]) => wanted[b[1]].hooked
    <2>1. CASE b \in registry /\ H.blocks[b] = blocks[b]
      BY <1>1, <1>5, <2>1 DEF OpInv, FieldsSettled
    <2>2. CASE ~PendingLink(H.blocks[b]) /\ ~PendingPp(H.blocks[b])
      BY <2>2
    <2>3. QED
      BY <1>3, <1>5, <2>1, <2>2
  <1>6. QED
    BY <1>4, <1>5 DEF FieldsSettled

LEMMA RoomyNow ==
  ASSUME OpInv, MemoryLeft
  PROVE  Roomy(Now)
  <1>1. ASSUME NEW t \in Addresses, ~InRegistry(Now, t) PROVE FreeBlocks(Now, t) # {}
    <2>1. EntryOf(Now, t) = Nil
      <3>1. Named(Now) /\ Now.registry \subseteq Shadows
        BY InvFacts DEF OpInv, Sound
      <3>2. QED
        BY <1>1, <3>1, EntryFacts
    <2>2. QED
      BY <2>1 DEF MemoryLeft
  <1>2. QED
    BY <1>1 DEF Roomy

Wants == [Addresses -> [alive : BOOLEAN, link : Addresses \cup {Nil, Scratch}, hooked : BOOLEAN]]

\* A step that says itself what the host's structures are.
LEMMA DirectInv ==
  ASSUME NEW N, NEW G \in [Addresses -> OpType], NEW own \in [Addresses -> Shadows \cup {Nil}],
         NEW w \in Wants, NEW out \in SUBSET Shadows,
         Sound(N, G, own, Counted(out)), Whole(N), FieldsSettled(N.registry, N.blocks, G, w),
         mode' \in OpModes, mode' # "keyword" => AllClean(N, G),
         Now' = N, ops' = G, hookOwner' = own, wanted' = w, outdated' = out
  PROVE  OpInv'
  <1>1. PICK old : old = Stale'
    OBVIOUS
  <1>2. old \subseteq Counted(out)
    BY <1>1 DEF Stale, Counted
  <1>3. Sound(N, G, own, old)
    BY <1>2 DEF Sound, FreshOnes, HookedOnes
  <1>4. OpTypes'
    BY DEF OpTypes, Sound, Wants
  <1>5. blocks' = N.blocks /\ registry' = N.registry
    BY DEF Now
  <1>6. FieldsSettled(registry, blocks, ops, wanted)'
    BY <1>5
  <1>7. Sound(Now, ops, hookOwner, Stale)' /\ Whole(Now)'
    BY <1>1, <1>3
  <1>8. CleanOutside'
    BY DEF CleanOutside
  <1>9. QED
    BY <1>4, <1>6, <1>7, <1>8 DEF OpInv

-------------------------------------------------------------------------------
(* Steps that leave the registry as it is.                                 *)

LEMMA TypesNow ==
  ASSUME OpInv
  PROVE  /\ ops \in [Addresses -> OpType] /\ hookOwner \in [Addresses -> Shadows \cup {Nil}]
         /\ wanted \in Wants /\ outdated \in SUBSET Shadows /\ mode \in OpModes
         /\ Whole(Now) /\ Named(Now) /\ Now.registry \subseteq Shadows
         /\ FieldsSettled(Now.registry, Now.blocks, ops, wanted)
         /\ mode # "keyword" => AllClean(Now, ops)
  <1>1. Now.registry = registry /\ Now.blocks = blocks
    BY InvFacts
  <1>2. QED
    BY <1>1, InvFacts DEF OpInv, OpTypes, Wants, Sound, CleanOutside

LEMMA EnterInv ==
  ASSUME OpInv, EnterKeyword \/ EnterNativeCode
  PROVE  OpInv'
  <1>1. Now' = Now /\ mode' \in OpModes /\ mode = "guest"
    BY DEF Now, EnterKeyword, EnterNativeCode, OpModes
  <1>2. QED
    BY <1>1, SoundNow, TypesNow, DirectInv DEF EnterKeyword, EnterNativeCode

LEMMA DeclinedInv ==
  ASSUME OpInv, KeywordDeclined
  PROVE  OpInv'
  <1>1. Now' = Now /\ mode' \in OpModes /\ PendingOps = {}
    BY DEF Now, KeywordDeclined, OpModes
  <1>2. AllClean(Now, ops)
    BY <1>1, InvFacts DEF AllClean, PendingOps, Clean
  <1>3. QED
    BY <1>1, <1>2, SoundNow, TypesNow, DirectInv DEF KeywordDeclined

\* The guest changes OPs while no shadow has anything pending.
LEMMA GuestInv ==
  ASSUME OpInv, mode = "guest", NEW G \in [Addresses -> OpType], NEW w \in Wants,
         NEW own \in [Addresses -> Shadows \cup {Nil}], NEW out \in SUBSET Shadows,
         Sound(Now, G, own, Counted(out)),
         \A t \in Addresses : G[t].alive =>
           /\ Recycled \/ ops[t].alive \/ ~InRegistry(Now, t)
           /\ ~Recycled => G[t].link = w[t].link /\ G[t].hooked = w[t].hooked,
         ops' = G, wanted' = w, hookOwner' = own, outdated' = out,
         UNCHANGED <<blocks, registry, extended, mode>>
  PROVE  OpInv'
  <1>1. Now' = Now
    BY DEF Now
  <1>2. AllClean(Now, G)
    <2>1. SUFFICES ASSUME NEW b \in Now.registry, G[b[1]].alive PROVE Clean(Now.blocks[b])
      BY DEF AllClean
    <2>2. b[1] \in Addresses /\ InRegistry(Now, b[1])
      BY <2>1, TypesNow, ShadowNames DEF InRegistry
    <2>3. Recycled \/ ops[b[1]].alive
      BY <2>1, <2>2
    <2>4. QED
      BY <2>3, TypesNow DEF AllClean, Clean
  <1>3. FieldsSettled(Now.registry, Now.blocks, G, w)
    BY <1>2, TypesNow, SettledClean
  <1>4. QED
    BY <1>1, <1>2, <1>3, TypesNow, DirectInv

LEMMA FreeAddress ==
  ASSUME OpInv, NEW t \in Addresses, AddressFree(t)
  PROVE  ~ops[t].alive /\ (~InRegistry(Now, t) \/ (Recycled /\ mode = "guest"))
  BY TypesNow, EntryFacts DEF AddressFree

LEMMA CompileInv ==
  ASSUME OpInv, NEW t \in Addresses, Compile(t)
  PROVE  OpInv'
  <1>1. (~InRegistry(Now, t) \/ Recycled) /\ ~ops[t].alive
    BY FreeAddress DEF Compile
  <1>2. PICK o : o = [FreedOp EXCEPT !.alive = TRUE]
    OBVIOUS
  <1>3. o \in OpType /\ o.alive /\ o.link = Nil /\ o.hooked = FALSE
        /\ o \in [alive : BOOLEAN, link : Addresses \cup {Nil, Scratch}, hooked : BOOLEAN]
    BY <1>2 DEF FreedOp, OpType
  <1>4. PICK G : G = [ops EXCEPT ![t] = o]
    OBVIOUS
  <1>5. PICK w : w = [wanted EXCEPT ![t] = o]
    OBVIOUS
  <1>6. G \in [Addresses -> OpType] /\ G[t] = o /\ \A s \in Addresses \ {t} : G[s] = ops[s]
    BY <1>3, <1>4, TypesNow
  <1>7. w \in Wants /\ w[t] = o /\ \A s \in Addresses \ {t} : w[s] = wanted[s]
    BY <1>3, <1>5, TypesNow DEF Wants
  <1>8. Sound(Now, G, hookOwner, Counted(outdated))
    <2>1. ~InRegistry(Now, t) \/ Counted(outdated) = {}
      BY <1>1 DEF Counted
    <2>2. QED
      BY <1>1, <1>3, <1>6, <2>1, SoundNow, SoundOther
  <1>9. \A s \in Addresses : G[s].alive =>
           /\ Recycled \/ ops[s].alive \/ ~InRegistry(Now, s)
           /\ ~Recycled => G[s].link = w[s].link /\ G[s].hooked = w[s].hooked
    <2>1. AllClean(Now, ops)
      BY TypesNow DEF Compile
    <2>2. QED
      BY <1>1, <1>6, <1>7, <2>1, CleanWanted
  <1>10. ops' = G /\ wanted' = w /\ hookOwner' = hookOwner /\ outdated' = outdated /\ mode = "guest"
         /\ UNCHANGED <<blocks, registry, extended, mode>>
    BY <1>2, <1>4, <1>5 DEF Compile
  <1>11. QED
    BY <1>6, <1>7, <1>8, <1>9, <1>10, TypesNow, GuestInv

LEMMA PeepholeInv ==
  ASSUME OpInv, NEW t \in Addresses, NEW target \in Addresses \cup {Nil}, Peephole(t, target)
  PROVE  OpInv'
  <1>1. PICK G : G = [ops EXCEPT ![t].link = target]
    OBVIOUS
  <1>2. PICK w : w = [wanted EXCEPT ![t].link = target]
    OBVIOUS
  <1>3. /\ G \in [Addresses -> OpType]
        /\ G[t].link = target /\ \A s \in Addresses \ {t} : G[s] = ops[s]
        /\ \A s \in Addresses : G[s].alive = ops[s].alive /\ G[s].hooked = ops[s].hooked
    BY <1>1, TypesNow DEF OpType
  <1>4. /\ w \in Wants
        /\ w[t].link = target /\ \A s \in Addresses \ {t} : w[s] = wanted[s]
        /\ \A s \in Addresses : w[s].hooked = wanted[s].hooked
    BY <1>2, TypesNow DEF Wants
  <1>5. Sound(Now, G, hookOwner, Counted(outdated))
    BY <1>3, SoundNow, SoundOther
  <1>6. \A s \in Addresses : G[s].alive =>
           /\ Recycled \/ ops[s].alive \/ ~InRegistry(Now, s)
           /\ ~Recycled => G[s].link = w[s].link /\ G[s].hooked = w[s].hooked
    <2>1. AllClean(Now, ops)
      BY TypesNow DEF Peephole
    <2>2. QED
      BY <1>3, <1>4, <2>1, CleanWanted
  <1>7. ops' = G /\ wanted' = w /\ hookOwner' = hookOwner /\ outdated' = outdated /\ mode = "guest"
        /\ UNCHANGED <<blocks, registry, extended, mode>>
    BY <1>1, <1>2 DEF Peephole
  <1>8. QED
    BY <1>3, <1>4, <1>5, <1>6, <1>7, TypesNow, GuestInv

LEMMA FreeTreeInv ==
  ASSUME OpInv, FreeTree
  PROVE  OpInv'
  <1>1. PICK G : G = [t \in Addresses |-> FreedOp]
    OBVIOUS
  <1>2. G \in [Addresses -> OpType] /\ G \in Wants /\ \A t \in Addresses : ~G[t].alive
    BY <1>1 DEF FreedOp, OpType, Wants
  <1>3. PICK own \in [Addresses -> Shadows \cup {Nil}] : own = [t \in Addresses |-> Nil]
    OBVIOUS
  <1>4. PICK out \in SUBSET Shadows : out = outdated \cup {b \in Shadows : blocks[b].gop \in LiveOps}
    BY TypesNow
  <1>5. Sound(Now, G, own, Counted(out))
    <2>1. \A b \in Now.registry : b[1] \in Addresses
      BY TypesNow, ShadowNames
    <2>2. FreshOnes(Now, G, Counted(out)) /\ HookedOnes(Now, G, own, Counted(out))
      BY <1>2, <2>1 DEF FreshOnes, HookedOnes
    <2>3. QED
      BY <2>2, SoundNow DEF Sound
  <1>6. ops' = G /\ wanted' = G /\ hookOwner' = own /\ outdated' = out /\ mode = "guest"
        /\ UNCHANGED <<blocks, registry, extended, mode>>
    BY <1>1, <1>3, <1>4 DEF FreeTree
  <1>7. QED
    BY <1>2, <1>5, <1>6, GuestInv

\* Assignments: the field becomes pending, and is wanted.
LEMMA AssignPpInv ==
  ASSUME OpInv, NEW b \in Shadows, AssignPpaddr(b)
  PROVE  OpInv'
  <1>1. /\ b \in registry /\ blocks[b].full /\ b[1] \in Addresses /\ blocks[b].gop = b[1]
        /\ blocks[b] \in ShadowType /\ blocks[b].based /\ ~blocks[b].pp
    BY InvFacts DEF AssignPpaddr
  <1>2. PICK e : e = [blocks[b] EXCEPT !.pp = TRUE]
    OBVIOUS
  <1>3. /\ e \in ShadowType /\ e.gop = b[1] /\ e.pp = TRUE /\ e.oldPp = FALSE
        /\ e.persist = blocks[b].persist /\ e.link = blocks[b].link
        /\ e.oldLink = blocks[b].oldLink /\ e.full = blocks[b].full /\ e.based = blocks[b].based
    BY <1>1, <1>2 DEF ShadowType, ShadowFields
  <1>4. PICK w : w = [wanted EXCEPT ![b[1]].hooked = TRUE]
    OBVIOUS
  <1>5. /\ w \in Wants
        /\ w[b[1]].hooked = TRUE /\ \A t \in Addresses \ {b[1]} : w[t] = wanted[t]
        /\ \A t \in Addresses : w[t].link = wanted[t].link
    BY <1>1, <1>4, TypesNow DEF Wants
  <1>6. PICK N : N = [blocks |-> [blocks EXCEPT ![b] = e], registry |-> registry,
                      extended |-> extended]
    OBVIOUS
  <1>7. /\ N.registry = registry /\ N.blocks[b] = e
        /\ \A c \in Shadows \ {b} : N.blocks[c] = blocks[c]
    BY <1>1, <1>6, InvFacts
  <1>8. Sound(N, ops, hookOwner, Counted(outdated))
    <2>1. /\ b \in Now.registry /\ (Now.blocks[b].persist => e.persist)
          /\ N = [blocks |-> [Now.blocks EXCEPT ![b] = e], registry |-> Now.registry,
                  extended |-> Now.extended]
      BY <1>1, <1>3, <1>6, InvFacts
    <2>2. QED
      BY <1>3, <2>1, SoundNow, ReplaceSound
  <1>9. Whole(N)
    <2>1. e.full = e.based /\ \A c \in Shadows \ {b} : blocks[c].full = blocks[c].based
      BY <1>1, <1>3, InvFacts
    <2>2. QED
      BY <1>7, <2>1 DEF Whole
  <1>10. FieldsSettled(registry, N.blocks, ops, w)
    <2> SUFFICES ASSUME ~Recycled PROVE FieldsSettled(registry, N.blocks, ops, w)
      BY DEF FieldsSettled
    <2>1. \A c \in registry : c # b => c[1] # b[1] /\ c \in Shadows \ {b}
      BY <1>1, InvFacts
    <2>2. PendingLink(e) = PendingLink(blocks[b]) /\ PendingPp(e)
      BY <1>1, <1>3 DEF PendingLink, PendingPp
    <2>3. ASSUME NEW t \in Addresses, ops[t].alive
          PROVE  /\ (\A c \in registry : c[1] = t => ~PendingLink(N.blocks[c])) => ops[t].link = w[t].link
                 /\ (\A c \in registry : c[1] = t => ~PendingPp(N.blocks[c])) => ops[t].hooked = w[t].hooked
      <3>1. /\ (\A c \in registry : c[1] = t => ~PendingLink(blocks[c])) => ops[t].link = wanted[t].link
            /\ (\A c \in registry : c[1] = t => ~PendingPp(blocks[c])) => ops[t].hooked = wanted[t].hooked
        BY <2>3 DEF OpInv, FieldsSettled
      <3>2. \A c \in registry : PendingLink(N.blocks[c]) = PendingLink(blocks[c])
        BY <1>7, <2>1, <2>2
      <3>3. CASE t = b[1]
        BY <1>1, <1>5, <1>7, <2>2, <3>1, <3>2, <3>3
      <3>4. CASE t # b[1]
        <4>1. \A c \in registry : c[1] = t => N.blocks[c] = blocks[c]
          BY <1>7, <2>1, <3>4
        <4>2. QED
          BY <1>5, <3>1, <3>4, <4>1
      <3>5. QED
        BY <3>3, <3>4
    <2>4. ASSUME NEW c \in registry, ops[c[1]].alive
          PROVE  /\ PendingLink(N.blocks[c]) =>
                      \/ N.blocks[c].link \notin Shadows /\ w[c[1]].link = N.blocks[c].link
                      \/ N.blocks[c].link \in registry /\ w[c[1]].link = N.blocks[c].link[1]
                 /\ PendingPp(N.blocks[c]) => w[c[1]].hooked
      <3>1. /\ PendingLink(blocks[c]) =>
                 \/ blocks[c].link \notin Shadows /\ wanted[c[1]].link = blocks[c].link
                 \/ blocks[c].link \in registry /\ wanted[c[1]].link = blocks[c].link[1]
            /\ PendingPp(blocks[c]) => wanted[c[1]].hooked
        BY <2>4 DEF OpInv, FieldsSettled
      <3>2. w[c[1]].link = wanted[c[1]].link
        BY <1>5, <2>4, InvFacts
      <3>3. CASE c = b
        BY <1>3, <1>5, <1>7, <2>2, <3>1, <3>2, <3>3
      <3>4. CASE c # b
        <4>1. N.blocks[c] = blocks[c] /\ w[c[1]] = wanted[c[1]]
          BY <1>5, <1>7, <2>1, <3>4, InvFacts
        <4>2. QED
          BY <3>1, <4>1
      <3>5. QED
        BY <3>3, <3>4
    <2>5. QED
      BY <2>3, <2>4 DEF FieldsSettled
  <1>11. /\ Now' = N /\ ops' = ops /\ hookOwner' = hookOwner /\ wanted' = w /\ outdated' = outdated
         /\ mode' = "keyword" /\ mode' \in OpModes
    BY <1>1, <1>2, <1>4, <1>6 DEF AssignPpaddr, Now, InHook, OpModes
  <1>12. QED
    BY <1>5, <1>7, <1>8, <1>9, <1>10, <1>11, TypesNow, DirectInv

LEMMA AssignLinkInv ==
  ASSUME OpInv, NEW b \in Shadows, NEW target \in Shadows \cup {Nil, Scratch},
         AssignLink(b, target)
  PROVE  OpInv'
  <1>1. /\ b \in registry /\ blocks[b].full /\ b[1] \in Addresses /\ blocks[b].gop = b[1]
        /\ blocks[b] \in ShadowType /\ blocks[b].based
    BY InvFacts DEF AssignLink
  <1>2. PICK e : e = [blocks[b] EXCEPT !.link = target]
    OBVIOUS
  <1>3. /\ e \in ShadowType /\ e.gop = b[1] /\ e.link = target
        /\ e.persist = blocks[b].persist /\ e.oldLink = blocks[b].oldLink
        /\ e.pp = blocks[b].pp /\ e.oldPp = blocks[b].oldPp
        /\ e.full = blocks[b].full /\ e.based = blocks[b].based
    BY <1>1, <1>2 DEF ShadowType, ShadowFields
  <1>4. target \in Shadows => target \in registry /\ blocks[target].gop = target[1]
    BY InvFacts, ShadowNames DEF AssignLink
  <1>5. PICK v \in Addresses \cup {Nil, Scratch} :
          v = IF target \in Shadows THEN blocks[target].gop ELSE target
    BY <1>4, ShadowNames
  <1>6. PICK w : w = [wanted EXCEPT ![b[1]].link = v]
    OBVIOUS
  <1>7. /\ w \in Wants
        /\ w[b[1]].link = v /\ \A t \in Addresses \ {b[1]} : w[t] = wanted[t]
        /\ \A t \in Addresses : w[t].hooked = wanted[t].hooked
    BY <1>1, <1>6, TypesNow DEF Wants
  <1>8. PICK N : N = [blocks |-> [blocks EXCEPT ![b] = e], registry |-> registry,
                      extended |-> extended]
    OBVIOUS
  <1>9. /\ N.registry = registry /\ N.blocks[b] = e
        /\ \A c \in Shadows \ {b} : N.blocks[c] = blocks[c]
    BY <1>1, <1>8, InvFacts
  <1>10. Sound(N, ops, hookOwner, Counted(outdated))
    <2>1. /\ b \in Now.registry /\ (Now.blocks[b].persist => e.persist)
          /\ N = [blocks |-> [Now.blocks EXCEPT ![b] = e], registry |-> Now.registry,
                  extended |-> Now.extended]
      BY <1>1, <1>3, <1>8, InvFacts
    <2>2. QED
      BY <1>3, <2>1, SoundNow, ReplaceSound
  <1>11. Whole(N)
    <2>1. e.full = e.based /\ \A c \in Shadows \ {b} : blocks[c].full = blocks[c].based
      BY <1>1, <1>3, InvFacts
    <2>2. QED
      BY <1>9, <2>1 DEF Whole
  <1>12. FieldsSettled(registry, N.blocks, ops, w)
    <2> SUFFICES ASSUME ~Recycled PROVE FieldsSettled(registry, N.blocks, ops, w)
      BY DEF FieldsSettled
    <2>1. \A c \in registry : c # b => c[1] # b[1] /\ c \in Shadows \ {b}
      BY <1>1, InvFacts
    <2>2. PendingPp(e) = PendingPp(blocks[b])
      BY <1>1, <1>3 DEF PendingPp
    <2>3. ~PendingLink(e) => ops[b[1]].link = v
      <3>1. ops[b[1]].link = TokenOf(blocks[b].oldLink)
        BY <1>1 DEF AssignLink
      <3>2. SUFFICES ASSUME target = blocks[b].oldLink PROVE TokenOf(target) = v
        BY <1>1, <1>3, <3>1 DEF PendingLink
      <3>3. target \in Shadows \cup {Nil}
        BY <1>1, <3>2 DEF ShadowType, ShadowFields
      <3>4. QED
        BY <1>5, <3>3, ShadowNames DEF TokenOf
    <2>4. ASSUME NEW t \in Addresses, ops[t].alive
          PROVE  /\ (\A c \in registry : c[1] = t => ~PendingLink(N.blocks[c])) => ops[t].link = w[t].link
                 /\ (\A c \in registry : c[1] = t => ~PendingPp(N.blocks[c])) => ops[t].hooked = w[t].hooked
      <3>1. /\ (\A c \in registry : c[1] = t => ~PendingLink(blocks[c])) => ops[t].link = wanted[t].link
            /\ (\A c \in registry : c[1] = t => ~PendingPp(blocks[c])) => ops[t].hooked = wanted[t].hooked
        BY <2>4 DEF OpInv, FieldsSettled
      <3>2. \A c \in registry : PendingPp(N.blocks[c]) = PendingPp(blocks[c])
        BY <1>9, <2>1, <2>2
      <3>3. CASE t = b[1]
        BY <1>1, <1>7, <1>9, <2>3, <3>1, <3>2, <3>3
      <3>4. CASE t # b[1]
        <4>1. \A c \in registry : c[1] = t => N.blocks[c] = blocks[c]
          BY <1>9, <2>1, <3>4
        <4>2. QED
          BY <1>7, <3>1, <3>4, <4>1
      <3>5. QED
        BY <3>3, <3>4
    <2>5. ASSUME NEW c \in registry, ops[c[1]].alive
          PROVE  /\ PendingLink(N.blocks[c]) =>
                      \/ N.blocks[c].link \notin Shadows /\ w[c[1]].link = N.blocks[c].link
                      \/ N.blocks[c].link \in registry /\ w[c[1]].link = N.blocks[c].link[1]
                 /\ PendingPp(N.blocks[c]) => w[c[1]].hooked
      <3>1. /\ PendingLink(blocks[c]) =>
                 \/ blocks[c].link \notin Shadows /\ wanted[c[1]].link = blocks[c].link
                 \/ blocks[c].link \in registry /\ wanted[c[1]].link = blocks[c].link[1]
            /\ PendingPp(blocks[c]) => wanted[c[1]].hooked
        BY <2>5 DEF OpInv, FieldsSettled
      <3>2. w[c[1]].hooked = wanted[c[1]].hooked
        BY <1>7, <2>5, InvFacts
      <3>3. CASE c = b
        BY <1>3, <1>4, <1>5, <1>7, <1>9, <2>2, <3>1, <3>2, <3>3
      <3>4. CASE c # b
        <4>1. N.blocks[c] = blocks[c] /\ w[c[1]] = wanted[c[1]]
          BY <1>7, <1>9, <2>1, <3>4, InvFacts
        <4>2. QED
          BY <3>1, <4>1
      <3>5. QED
        BY <3>3, <3>4
    <2>6. QED
      BY <2>4, <2>5 DEF FieldsSettled
  <1>13. /\ Now' = N /\ ops' = ops /\ hookOwner' = hookOwner /\ wanted' = w /\ outdated' = outdated
         /\ mode' = "keyword" /\ mode' \in OpModes
    BY <1>1, <1>2, <1>5, <1>6, <1>8 DEF AssignLink, Now, InHook, OpModes
  <1>14. QED
    BY <1>7, <1>9, <1>10, <1>11, <1>12, <1>13, TypesNow, DirectInv

-------------------------------------------------------------------------------
(* Looking; operations; the ends of activations.                           *)

LEMMA LookAtInv ==
  ASSUME OpInv, NEW t \in Addresses, LookAt(t)
  PROVE  OpInv'
  <1>1. PICK H : H = ShadowFull(Now, ops, t)
    OBVIOUS
  <1>2. Sound(Now, ops, hookOwner, Stale) /\ Stale \subseteq InUse(Now) /\ Roomy(Now)
    BY RoomyNow DEF LookAt, OpInv, Stale, Counted
  <1>3. Sound(H, ops, hookOwner, Stale) /\ Whole(H) /\ LookedAt(Now, H, ops)
    BY <1>1, <1>2, TypesNow, ShadowFullSound
  <1>4. FieldsSettled(H.registry, H.blocks, ops, wanted)
    BY <1>3, LookedSettled
  <1>5. mode # "keyword" => AllClean(H, ops)
    BY <1>3, TypesNow, StaysClean
  <1>6. /\ KeepShadowsBut(H, {}) /\ ops' = ops /\ hookOwner' = hookOwner /\ wanted' = wanted
        /\ mode' = mode
    BY <1>1 DEF LookAt, KeepShadows
  <1>7. QED
    BY <1>3, <1>4, <1>5, <1>6, TypesNow, KeepInv DEF Wants

LEMMA PpInvokeInv ==
  ASSUME OpInv, NEW t \in Addresses, PpInvokeOP(t)
  PROVE  OpInv'
  <1>1. PICK H : H = ShadowFull(Now, ops, t)
    OBVIOUS
  <1>2. /\ Sound(Now, ops, hookOwner, Stale) /\ Stale \subseteq InUse(Now) /\ Roomy(Now)
        /\ AllClean(Now, ops)
    BY RoomyNow, TypesNow DEF PpInvokeOP, OpInv, Stale, Counted
  <1>3. /\ Sound(H, ops, hookOwner, Stale) /\ Whole(H) /\ LookedAt(Now, H, ops)
    BY <1>1, <1>2, TypesNow, ShadowFullSound
  <1>4. AllClean(H, ops)
    BY <1>2, <1>3, StaysClean
  <1>5. Roomy(H)
    BY <1>2, <1>3, RoomKept DEF LookedAt
  <1>6. PICK b : b = EntryOf(H, t)
    OBVIOUS
  <1>7. PICK L : L = IF H.blocks[b].persist THEN RefreshOP(H, ops, b) ELSE H
    OBVIOUS
  <1>8. Sound(L, ops, hookOwner, Stale) /\ Whole(L) /\ AllClean(L, ops)
    <2>1. PICK M : M = RefreshOP(H, ops, b)
      OBVIOUS
    <2>2. Sound(M, ops, hookOwner, Stale) /\ Whole(M) /\ AllClean(M, ops)
      BY <1>2, <1>3, <1>4, <1>5, <1>6, <2>1, TypesNow, RefreshSound
    <2>3. QED
      BY <1>3, <1>4, <1>7, <2>1, <2>2
  <1>9. FieldsSettled(L.registry, L.blocks, ops, wanted)
    <2>1. Named(L) /\ L.registry \subseteq Shadows
      BY <1>8, HostFacts DEF Sound
    <2>2. QED
      BY <1>2, <1>8, <2>1, CleanWanted, SettledClean
  <1>10. /\ KeepShadowsBut(L, {}) /\ ops' = ops /\ hookOwner' = hookOwner /\ wanted' = wanted
         /\ mode' = "native" /\ mode' \in OpModes
    BY <1>1, <1>6, <1>7 DEF PpInvokeOP, KeepShadows, OpModes
  <1>11. QED
    BY <1>8, <1>9, <1>10, TypesNow, KeepInv DEF Wants

\* All that is pending can be written: what the write-back leaves.
LEMMA AllWritten ==
  ASSUME OpInv, Unwritable = {}
  PROVE  /\ PendingOps \in SUBSET (PendingOps \ Unwritable)
         /\ WrittenOps(PendingOps) \in [Addresses -> OpType]
         /\ \A t \in Addresses : WrittenOps(PendingOps)[t].alive = ops[t].alive
         /\ ~Recycled => \A t \in Addresses : ops[t].alive =>
              /\ WrittenOps(PendingOps)[t].link = wanted[t].link
              /\ WrittenOps(PendingOps)[t].hooked = wanted[t].hooked
         /\ Sound(WrittenBack(PendingOps), WrittenOps(PendingOps), Owners(PendingOps), Stale)
         /\ Whole(WrittenBack(PendingOps)) /\ Grows(Now, WrittenBack(PendingOps))
         /\ WrittenBack(PendingOps).registry = registry
         /\ Owners(PendingOps) \in [Addresses -> Shadows \cup {Nil}]
         /\ \A b \in registry : Clean(WrittenBack(PendingOps).blocks[b])
  <1>1. PICK D \in SUBSET (PendingOps \ Unwritable) : D = PendingOps
    OBVIOUS
  <1>2. /\ WrittenOps(D) \in [Addresses -> OpType]
        /\ \A t \in Addresses : WrittenOps(D)[t].alive = ops[t].alive
        /\ ~Recycled => \A t \in Addresses : ops[t].alive =>
             WrittenOps(D)[t].link = wanted[t].link /\ WrittenOps(D)[t].hooked = wanted[t].hooked
    BY <1>1, WrittenFacts
  <1>3. /\ Sound(WrittenBack(D), WrittenOps(D), Owners(D), Stale) /\ Whole(WrittenBack(D))
        /\ Grows(Now, WrittenBack(D))
    BY WrittenBackSound
  <1>4. /\ WrittenBack(D).registry = registry /\ Owners(D) \in [Addresses -> Shadows \cup {Nil}]
        /\ \A b \in Shadows \ D : WrittenBack(D).blocks[b] = blocks[b]
    BY WrittenBackFacts
  <1>5. \A b \in registry : Clean(WrittenBack(D).blocks[b])
    <2>1. \A b \in D : Clean(WrittenBack(D).blocks[b])
      BY WrittenBackOne
    <2>2. \A b \in registry \ D : Clean(blocks[b]) /\ b \in Shadows
      BY <1>1, InvFacts DEF PendingOps, Clean
    <2>3. QED
      BY <1>4, <2>1, <2>2
  <1>6. QED
    BY <1>1, <1>2, <1>3, <1>4, <1>5

LEMMA DoneInv ==
  ASSUME OpInv, KeywordDone
  PROVE  OpInv'
  <1>1. PICK H, W, own : H = WrittenBack(PendingOps) /\ W = WrittenOps(PendingOps)
                         /\ own = Owners(PendingOps)
    OBVIOUS
  <1>2. /\ W \in [Addresses -> OpType] /\ \A t \in Addresses : W[t].alive = ops[t].alive
        /\ ~Recycled => \A t \in Addresses : ops[t].alive =>
              W[t].link = wanted[t].link /\ W[t].hooked = wanted[t].hooked
        /\ Sound(H, W, own, Stale) /\ Whole(H) /\ H.registry = registry
        /\ own \in [Addresses -> Shadows \cup {Nil}]
        /\ \A b \in registry : Clean(H.blocks[b])
    BY <1>1, AllWritten DEF KeywordDone
  <1>3. AllClean(H, W)
    BY <1>2 DEF AllClean
  <1>4. FieldsSettled(H.registry, H.blocks, W, wanted)
    <2>1. Named(H) /\ H.registry \subseteq Shadows
      BY <1>2, HostFacts DEF Sound
    <2>2. QED
      BY <1>2, <1>3, <2>1, SettledClean
  <1>5. /\ KeepShadowsBut(H, {}) /\ ops' = W /\ hookOwner' = own /\ wanted' = wanted
        /\ mode' \in OpModes
    BY <1>1 DEF KeywordDone, KeepShadows, OpModes
  <1>6. QED
    BY <1>2, <1>3, <1>4, <1>5, TypesNow, KeepInv DEF Wants

LEMMA RunsInv ==
  ASSUME OpInv, NEW G \in [Addresses -> OpType],
         NEW touched \in Addresses \cup {Nil}, NEW result \in Addresses \cup {Nil},
         Operation(G, touched, result),
         \A t \in Addresses : G[t].alive =>
           \/ ops[t].alive /\ G[t].hooked = WrittenOps(PendingOps)[t].hooked
           \/ ~InRegistry(Now, t) /\ ~G[t].hooked
  PROVE  OpInv'
  <1>1. PICK K, W, own : K = WrittenBack(PendingOps) /\ W = WrittenOps(PendingOps)
                         /\ own = Owners(PendingOps)
    OBVIOUS
  <1>2. Unwritable = {} /\ Roomy(Now) /\ mode \in OpModes
    BY RoomyNow, TypesNow DEF Operation
  <1>3. /\ W \in [Addresses -> OpType] /\ \A t \in Addresses : W[t].alive = ops[t].alive
        /\ ~Recycled => \A t \in Addresses : ops[t].alive =>
              W[t].link = wanted[t].link /\ W[t].hooked = wanted[t].hooked
        /\ Sound(K, W, own, Stale) /\ Whole(K) /\ Grows(Now, K) /\ K.registry = registry
        /\ own \in [Addresses -> Shadows \cup {Nil}]
        /\ \A b \in registry : Clean(K.blocks[b])
    BY <1>1, <1>2, AllWritten
  <1>4. Sound(K, G, own, Stale)
    <2>1. \A t \in Addresses : InRegistry(K, t) <=> InRegistry(Now, t)
      BY <1>3, InvFacts DEF InRegistry
    <2>2. \A t \in Addresses : G[t].alive =>
            \/ W[t].alive /\ (G[t].hooked => W[t].hooked) /\ own[t] = own[t]
            \/ ~InRegistry(K, t) /\ ~G[t].hooked
      BY <1>1, <1>3, <2>1
    <2>3. QED
      BY <1>3, <2>2, SoundOther
  <1>5. AllClean(K, G) /\ Roomy(K) /\ Stale \subseteq InUse(Now)
    BY <1>2, <1>3, RoomKept DEF AllClean, Stale, Counted
  <1>6. PICK M : M = RefreshOP(K, G, EntryOf(K, touched))
    OBVIOUS
  <1>7. Sound(M, G, own, Stale) /\ Whole(M) /\ Grows(K, M) /\ AllClean(M, G)
    BY <1>3, <1>4, <1>5, <1>6, RefreshSound
  <1>8. Roomy(M)
    BY <1>5, <1>7, RoomKept
  <1>9. PICK H : H = ShadowFull(M, G, result)
    OBVIOUS
  <1>10. Sound(H, G, own, Stale) /\ Whole(H) /\ LookedAt(M, H, G)
    BY <1>5, <1>7, <1>8, <1>9, ShadowFullSound
  <1>11. AllClean(H, G)
    BY <1>7, <1>10, StaysClean
  <1>12. PICK w : w = [t \in Addresses |-> IF G[t] = W[t] THEN wanted[t] ELSE G[t]]
    OBVIOUS
  <1>13. w \in Wants
    <2>1. \A t \in Addresses :
            w[t] \in [alive : BOOLEAN, link : Addresses \cup {Nil, Scratch}, hooked : BOOLEAN]
      BY <1>12, TypesNow DEF Wants, OpType
    <2>2. QED
      BY <1>12, <2>1 DEF Wants
  <1>14. ~Recycled => \A t \in Addresses : G[t].alive => G[t].link = w[t].link /\ G[t].hooked = w[t].hooked
    BY <1>3, <1>12
  <1>15. FieldsSettled(H.registry, H.blocks, G, w)
    <2>1. Named(H) /\ H.registry \subseteq Shadows
      BY <1>10, HostFacts DEF Sound
    <2>2. QED
      BY <1>11, <1>14, <2>1, SettledClean
  <1>16. /\ KeepShadowsBut(H, {}) /\ ops' = G /\ hookOwner' = own /\ wanted' = w /\ mode' = mode
    BY <1>1, <1>6, <1>9, <1>12 DEF Operation, KeepShadows
  <1>17. QED
    BY <1>2, <1>3, <1>10, <1>11, <1>13, <1>15, <1>16, KeepInv DEF Wants

\* Operations that make an OP.
LEMMA MakeInv ==
  ASSUME OpInv, NEW t \in Addresses, NEW kid \in Addresses \cup {Nil},
         AddressFree(t), InHook, NEW touched \in Addresses \cup {Nil},
         LET W == WrittenOps(PendingOps) IN
         Operation([s \in Addresses |->
                      IF s = t THEN [alive |-> TRUE, link |-> kid, hooked |-> FALSE]
                      ELSE IF s = kid THEN [W[s] EXCEPT !.link = t] ELSE W[s]],
                   touched, t)
  PROVE  OpInv'
  <1>1. PICK W : W = WrittenOps(PendingOps)
    OBVIOUS
  <1>2. W \in [Addresses -> OpType] /\ \A s \in Addresses : W[s].alive = ops[s].alive
    BY <1>1, AllWritten DEF Operation
  <1>3. PICK G : G = [s \in Addresses |->
                        IF s = t THEN [alive |-> TRUE, link |-> kid, hooked |-> FALSE]
                        ELSE IF s = kid THEN [W[s] EXCEPT !.link = t] ELSE W[s]]
    OBVIOUS
  <1>4. \A s \in Addresses : /\ G[s] \in OpType
                             /\ s # t => G[s].alive = W[s].alive /\ G[s].hooked = W[s].hooked
                             /\ s = t => G[s].hooked = FALSE
    BY <1>2, <1>3 DEF OpType
  <1>5. G \in [Addresses -> OpType]
    BY <1>3, <1>4
  <1>6. ~InRegistry(Now, t)
    BY FreeAddress DEF InHook
  <1>7. \A s \in Addresses : G[s].alive =>
           \/ ops[s].alive /\ G[s].hooked = WrittenOps(PendingOps)[s].hooked
           \/ ~InRegistry(Now, s) /\ ~G[s].hooked
    BY <1>1, <1>2, <1>4, <1>6
  <1>8. Operation(G, touched, t)
    BY <1>1, <1>3
  <1>9. QED
    BY <1>5, <1>7, <1>8, RunsInv

\* Operations that link OPs.
LEMMA LinkInv ==
  ASSUME OpInv, NEW t \in Addresses, NEW target \in Addresses \cup {Nil},
         NEW touched \in Addresses \cup {Nil}, NEW result \in Addresses \cup {Nil},
         Operation([WrittenOps(PendingOps) EXCEPT ![t].link = target], touched, result)
  PROVE  OpInv'
  <1>1. PICK W : W = WrittenOps(PendingOps)
    OBVIOUS
  <1>2. W \in [Addresses -> OpType] /\ \A s \in Addresses : W[s].alive = ops[s].alive
    BY <1>1, AllWritten DEF Operation
  <1>3. PICK G : G = [W EXCEPT ![t].link = target]
    OBVIOUS
  <1>4. /\ G \in [Addresses -> OpType]
        /\ \A s \in Addresses : G[s].alive = W[s].alive /\ G[s].hooked = W[s].hooked
    BY <1>2, <1>3 DEF OpType
  <1>5. \A s \in Addresses : G[s].alive =>
           \/ ops[s].alive /\ G[s].hooked = WrittenOps(PendingOps)[s].hooked
           \/ ~InRegistry(Now, s) /\ ~G[s].hooked
    BY <1>1, <1>2, <1>4
  <1>6. Operation(G, touched, result)
    BY <1>1, <1>3
  <1>7. QED
    BY <1>4, <1>5, <1>6, RunsInv

LEMMA FreeInv ==
  ASSUME OpInv, NEW t \in Addresses, FreeOP(t)
  PROVE  OpInv'
  <1>1. PICK H, W, o : H = WrittenBack(PendingOps) /\ W = WrittenOps(PendingOps)
                       /\ o = Owners(PendingOps)
    OBVIOUS
  <1>2. /\ W \in [Addresses -> OpType] /\ \A s \in Addresses : W[s].alive = ops[s].alive
        /\ ~Recycled => \A s \in Addresses : ops[s].alive =>
              W[s].link = wanted[s].link /\ W[s].hooked = wanted[s].hooked
        /\ Sound(H, W, o, Stale) /\ Whole(H) /\ H.registry = registry
        /\ o \in [Addresses -> Shadows \cup {Nil}]
        /\ \A b \in registry : Clean(H.blocks[b])
    BY <1>1, AllWritten DEF FreeOP
  <1>3. PICK G : G = [W EXCEPT ![t] = FreedOp]
    OBVIOUS
  <1>4. PICK own : own = [o EXCEPT ![t] = Nil]
    OBVIOUS
  <1>5. PICK w : w = [wanted EXCEPT ![t] = FreedOp]
    OBVIOUS
  <1>6. /\ FreedOp \in OpType /\ ~FreedOp.alive
        /\ FreedOp \in [alive : BOOLEAN, link : Addresses \cup {Nil, Scratch}, hooked : BOOLEAN]
    BY DEF FreedOp, OpType
  <1>7. G \in [Addresses -> OpType] /\ ~G[t].alive /\ \A s \in Addresses \ {t} : G[s] = W[s]
    BY <1>2, <1>3, <1>6
  <1>8. own \in [Addresses -> Shadows \cup {Nil}] /\ \A s \in Addresses \ {t} : own[s] = o[s]
    BY <1>2, <1>4
  <1>9. w \in Wants /\ \A s \in Addresses \ {t} : w[s] = wanted[s]
    BY <1>5, <1>6, TypesNow DEF Wants
  <1>10. Sound(H, G, own, Stale)
    BY <1>2, <1>7, <1>8, SoundOther
  <1>11. AllClean(H, G)
    BY <1>2 DEF AllClean
  <1>12. FieldsSettled(H.registry, H.blocks, G, w)
    <2>1. Named(H) /\ H.registry \subseteq Shadows
      BY <1>2, HostFacts DEF Sound
    <2>2. ~Recycled => \A s \in Addresses : G[s].alive => G[s].link = w[s].link /\ G[s].hooked = w[s].hooked
      BY <1>2, <1>7, <1>9
    <2>3. QED
      BY <1>11, <2>1, <2>2, SettledClean
  <1>13. /\ KeepShadowsBut(H, {t}) /\ ops' = G /\ hookOwner' = own /\ wanted' = w /\ mode' = mode
    BY <1>1, <1>3, <1>4, <1>5 DEF FreeOP
  <1>14. \A s \in Addresses : s \in {t} => ~G[s].alive
    BY <1>7
  <1>15. QED
    BY <1>2, <1>7, <1>8, <1>9, <1>10, <1>11, <1>12, <1>13, <1>14, TypesNow, KeepInv DEF Wants

LEMMA CroakedInv ==
  ASSUME OpInv, NEW done \in SUBSET Shadows, KeywordCroaked(done)
  PROVE  OpInv'
  <1>1. PICK D \in SUBSET (PendingOps \ Unwritable) : D = done
    BY DEF KeywordCroaked
  <1>2. PICK H, W, o : H = WrittenBack(D) /\ W = WrittenOps(D) /\ o = Owners(D)
    OBVIOUS
  <1>3. /\ W \in [Addresses -> OpType] /\ \A t \in Addresses : W[t].alive = ops[t].alive
        /\ ~Recycled => \A t \in Addresses :
             ops[t].alive /\ (\A b \in PendingOps : b[1] = t => b \in D) =>
              W[t].link = wanted[t].link /\ W[t].hooked = wanted[t].hooked
    BY <1>2, WrittenFacts
  <1>4. /\ Sound(H, W, o, Stale) /\ Whole(H) /\ H.registry = registry
        /\ o \in [Addresses -> Shadows \cup {Nil}]
        /\ \A b \in Shadows \ D : H.blocks[b] = blocks[b]
    BY <1>2, WrittenBackSound, WrittenBackFacts
  <1>5. PICK lost : lost = {blocks[b].gop : b \in PendingOps}
    OBVIOUS
  <1>6. PICK G : G = [t \in Addresses |-> IF t \in lost \/ ops[t].link \in lost THEN FreedOp
                                          ELSE W[t]]
    OBVIOUS
  <1>7. \A t \in Addresses : G[t] \in OpType /\ (G[t].alive => t \notin lost /\ G[t] = W[t])
    BY <1>3, <1>6 DEF FreedOp, OpType
  <1>8. G \in [Addresses -> OpType]
    BY <1>6, <1>7
  <1>9. PICK own : own = [t \in Addresses |-> IF G[t].alive THEN o[t] ELSE Nil]
    OBVIOUS
  <1>10. own \in [Addresses -> Shadows \cup {Nil}] /\ \A t \in Addresses : G[t].alive => own[t] = o[t]
    BY <1>4, <1>9
  <1>11. PICK w : w = [t \in Addresses |-> IF G[t].alive THEN wanted[t] ELSE FreedOp]
    OBVIOUS
  <1>12. w \in Wants /\ \A t \in Addresses : G[t].alive => w[t] = wanted[t]
    BY <1>11, TypesNow DEF Wants, FreedOp
  <1>13. Sound(H, G, own, Stale)
    BY <1>3, <1>4, <1>7, <1>10, SoundOther
  <1>14. \A t \in Addresses : G[t].alive => \A b \in PendingOps : b[1] # t
    <2>1. \A b \in PendingOps : blocks[b].gop = b[1]
      BY InvFacts DEF PendingOps
    <2>2. QED
      BY <1>5, <1>7, <2>1
  <1>15. AllClean(H, G)
    <2>1. SUFFICES ASSUME NEW b \in registry, G[b[1]].alive PROVE Clean(H.blocks[b])
      BY <1>4 DEF AllClean
    <2>2. b \in Shadows /\ b \notin PendingOps
      BY <1>14, <2>1, InvFacts
    <2>3. H.blocks[b] = blocks[b]
      BY <1>4, <2>2
    <2>4. QED
      BY <2>1, <2>2, <2>3 DEF PendingOps, Clean
  <1>16. FieldsSettled(H.registry, H.blocks, G, w)
    <2>1. Named(H) /\ H.registry \subseteq Shadows
      BY <1>4, HostFacts DEF Sound
    <2>2. ~Recycled => \A t \in Addresses : G[t].alive => G[t].link = w[t].link /\ G[t].hooked = w[t].hooked
      BY <1>3, <1>7, <1>12, <1>14
    <2>3. QED
      BY <1>15, <2>1, <2>2, SettledClean
  <1>17. PICK dead : dead = {t \in LiveOps : ~G[t].alive}
    OBVIOUS
  <1>18. ops' = G
    BY <1>1, <1>2, <1>5, <1>6 DEF KeywordCroaked
  <1>19. /\ KeepShadowsBut(H, dead) /\ hookOwner' = own /\ wanted' = w /\ mode' \in OpModes
    BY <1>1, <1>2, <1>9, <1>11, <1>17, <1>18 DEF KeywordCroaked, OpModes
  <1>20. \A t \in Addresses : t \in dead => ~G[t].alive
    BY <1>17
  <1>21. QED
    BY <1>4, <1>8, <1>10, <1>12, <1>13, <1>15, <1>16, <1>18, <1>19, <1>20, KeepInv DEF Wants

LEMMA NewOpSzInv ==
  ASSUME OpInv, NEW t \in Addresses, NewOpSz(t)
  PROVE  OpInv'
  <1>1. ~InRegistry(Now, t) /\ ~ops[t].alive
    BY FreeAddress DEF NewOpSz, InHook
  <1>2. Roomy(Now)
    BY RoomyNow DEF NewOpSz
  <1>3. PICK b \in FreeBlocks(Now, t) : b = CHOOSE c \in FreeBlocks(Now, t) : TRUE
    BY <1>1, <1>2 DEF Roomy
  <1>4. PICK s : s = [NoShadow EXCEPT !.gop = t, !.full = TRUE, !.persist = TRUE]
    OBVIOUS
  <1>5. s \in ShadowType /\ s.link = Nil /\ s.gop = t /\ s.full = TRUE
    BY <1>4, ShadowNames DEF NoShadow, ShadowType, ShadowFields
  <1>6. PICK e \in ShadowType : /\ e = Captured(s) /\ e.gop = t /\ e.link = Nil
                                /\ e.full = e.based /\ Clean(e)
    <2>1. s.link # Scratch
      BY <1>5, ShadowNames
    <2>2. PICK e : e = Captured(s)
      OBVIOUS
    <2>3. /\ e \in ShadowType /\ e.gop = s.gop /\ e.full = s.full /\ e.based = TRUE
          /\ e.link = s.link /\ Clean(e)
      BY <1>5, <2>1, <2>2, CapturedFacts
    <2>4. QED
      BY <1>5, <2>2, <2>3
  <1>7. PICK o : o = [FreedOp EXCEPT !.alive = TRUE]
    OBVIOUS
  <1>8. o \in OpType /\ o.alive /\ o.link = Nil /\ o.hooked = FALSE
        /\ o \in [alive : BOOLEAN, link : Addresses \cup {Nil, Scratch}, hooked : BOOLEAN]
    BY <1>7 DEF FreedOp, OpType
  <1>9. PICK G : G = [ops EXCEPT ![t] = o]
    OBVIOUS
  <1>10. PICK w : w = [wanted EXCEPT ![t] = o]
    OBVIOUS
  <1>11. G \in [Addresses -> OpType] /\ G[t] = o /\ \A u \in Addresses \ {t} : G[u] = ops[u]
    BY <1>8, <1>9, TypesNow
  <1>12. w \in Wants /\ w[t] = o /\ \A u \in Addresses \ {t} : w[u] = wanted[u]
    BY <1>8, <1>10, TypesNow DEF Wants
  <1>13. PICK x \in {Now.extended, Unkept(Now, t)} : x = Now.extended
    OBVIOUS
  <1>14. PICK H : H = Entered(Now, b, e, x)
    OBVIOUS
  <1>15. Sound(Now, G, hookOwner, Stale)
    <2>1. Sound(Now, ops, hookOwner, Stale)
      BY DEF OpInv
    <2>2. QED
      BY <1>1, <1>8, <1>11, <2>1, SoundOther
  <1>16. Sound(H, G, hookOwner, Stale) /\ ShadowAdded(Now, H, G)
    <2>1. Stale \subseteq InUse(Now) /\ ~(Now.extended[t] # Nil /\ G[t].hooked)
      BY <1>8, <1>11 DEF Stale, Counted
    <2>2. QED
      BY <1>1, <1>6, <1>14, <1>15, <2>1, AddSound
  <1>17. /\ H.registry = registry \cup {b} /\ b[1] = t
         /\ \A c \in registry : H.blocks[c] = blocks[c] /\ c[1] # t
         /\ H.registry \subseteq Shadows /\ Named(H)
    <2>1. b[1] = t
      BY ShadowNames DEF FreeBlocks
    <2>2. H.registry = registry \cup {b}
      BY <1>14, InvFacts DEF Entered
    <2>3. \A c \in registry : H.blocks[c] = blocks[c]
      BY <1>16, InvFacts DEF ShadowAdded
    <2>4. \A c \in registry : c[1] # t
      BY <1>1, InvFacts DEF InRegistry
    <2>5. QED
      BY <1>16, <2>1, <2>2, <2>3, <2>4, HostFacts DEF Sound
  <1>18. ~Recycled => ~PendingLink(H.blocks[b]) /\ ~PendingPp(H.blocks[b])
    <2>1. b \notin registry
      BY <1>17
    <2>2. b \in H.registry \ Now.registry /\ G[b[1]].alive
      BY <1>8, <1>11, <1>17, <2>1, InvFacts
    <2>3. Clean(H.blocks[b])
      BY <1>16, <2>2 DEF ShadowAdded
    <2>4. QED
      BY <1>17, <2>3, CleanFacts
  <1>19. Whole(H)
    <2>1. \A c \in Shadows : H.blocks[c] = blocks[c] \/ H.blocks[c].full = H.blocks[c].based
      BY <1>16, InvFacts DEF ShadowAdded
    <2>2. QED
      BY <2>1, InvFacts DEF Whole
  <1>20. FieldsSettled(H.registry, H.blocks, G, w)
    <2> SUFFICES ASSUME ~Recycled PROVE FieldsSettled(H.registry, H.blocks, G, w)
      BY DEF FieldsSettled
    <2>1. ASSUME NEW u \in Addresses, G[u].alive
          PROVE  /\ (\A c \in H.registry : c[1] = u => ~PendingLink(H.blocks[c])) => G[u].link = w[u].link
                 /\ (\A c \in H.registry : c[1] = u => ~PendingPp(H.blocks[c])) => G[u].hooked = w[u].hooked
      <3>1. CASE u = t
        BY <1>11, <1>12, <3>1
      <3>2. CASE u # t
        <4>1. G[u] = ops[u] /\ w[u] = wanted[u] /\ ops[u].alive
          BY <1>11, <1>12, <2>1, <3>2
        <4>2. /\ (\A c \in registry : c[1] = u => ~PendingLink(blocks[c])) => ops[u].link = wanted[u].link
              /\ (\A c \in registry : c[1] = u => ~PendingPp(blocks[c])) => ops[u].hooked = wanted[u].hooked
          BY <4>1 DEF OpInv, FieldsSettled
        <4>3. QED
          BY <1>17, <4>1, <4>2
      <3>3. QED
        BY <3>1, <3>2
    <2>2. ASSUME NEW c \in H.registry, G[c[1]].alive
          PROVE  /\ PendingLink(H.blocks[c]) =>
                      \/ H.blocks[c].link \notin Shadows /\ w[c[1]].link = H.blocks[c].link
                      \/ H.blocks[c].link \in H.registry /\ w[c[1]].link = H.blocks[c].link[1]
                 /\ PendingPp(H.blocks[c]) => w[c[1]].hooked
      <3>1. CASE c = b
        BY <1>18, <3>1
      <3>2. CASE c \in registry
        <4>1. G[c[1]] = ops[c[1]] /\ w[c[1]] = wanted[c[1]] /\ ops[c[1]].alive
          BY <1>11, <1>12, <1>17, <2>2, <3>2, InvFacts
        <4>2. /\ PendingLink(blocks[c]) =>
                 \/ blocks[c].link \notin Shadows /\ wanted[c[1]].link = blocks[c].link
                 \/ blocks[c].link \in registry /\ wanted[c[1]].link = blocks[c].link[1]
              /\ PendingPp(blocks[c]) => wanted[c[1]].hooked
          BY <3>2, <4>1 DEF OpInv, FieldsSettled
        <4>3. QED
          BY <1>17, <3>2, <4>1, <4>2
      <3>3. QED
        BY <1>17, <2>2, <3>1, <3>2
    <2>3. QED
      BY <2>1, <2>2 DEF FieldsSettled
  <1>21. H = RegisterEntry(Now, b, e)
    BY <1>13, <1>14 DEF Entered, RegisterEntry
  <1>22. KeepShadowsBut(H, {})
    BY <1>3, <1>4, <1>6, <1>21 DEF NewOpSz, KeepShadows
  <1>23. /\ ops' = G /\ hookOwner' = hookOwner /\ wanted' = w /\ mode' = "keyword"
         /\ mode' \in OpModes
    BY <1>7, <1>9, <1>10 DEF NewOpSz, InHook, OpModes
  <1>24. QED
    BY <1>11, <1>12, <1>16, <1>19, <1>20, <1>22, <1>23, TypesNow, KeepInv DEF Wants

LEMMA LeaveOpsInv ==
  ASSUME OpInv, LeaveNativeCode
  PROVE  OpInv'
  <1>1. PICK H : H = Cleared
    OBVIOUS
  <1>2. /\ H.registry = {} /\ H.extended = extended
        /\ \A b \in Shadows : H.blocks[b] = IF b \in registry /\ ~blocks[b].persist THEN NoShadow
                                            ELSE blocks[b]
    BY <1>1 DEF Cleared
  <1>3. NoShadow \in ShadowType /\ NoShadow.gop = Nil /\ NoShadow.full = NoShadow.based
    BY DEF NoShadow, ShadowType, ShadowFields
  <1>4. H \in HostType
    <2>1. \A b \in Shadows : H.blocks[b] \in ShadowType
      BY <1>2, <1>3, InvFacts
    <2>2. H.blocks \in [Shadows -> ShadowType]
      <3>1. H.blocks = [b \in Shadows |-> H.blocks[b]]
        BY <1>1 DEF Cleared
      <3>2. QED
        BY <2>1, <3>1
    <2>3. H = [blocks |-> H.blocks, registry |-> H.registry, extended |-> H.extended]
      BY <1>1 DEF Cleared
    <2>4. QED
      BY <1>2, <2>2, <2>3, InvFacts DEF HostType
  <1>5. Named(H)
    BY <1>2, <1>3, InvFacts DEF Named
  <1>6. Whole(H)
    BY <1>2, <1>3, InvFacts DEF Whole
  <1>7. \A t \in Addresses : extended[t] # Nil =>
          /\ extended[t] \in Shadows /\ extended[t][1] = t /\ blocks[extended[t]].persist
          /\ blocks[extended[t]].gop = t /\ H.blocks[extended[t]] = blocks[extended[t]]
    <2>1. KeptOnes(Now)
      BY DEF OpInv, Sound
    <2>2. QED
      BY <1>2, <2>1, InvFacts DEF KeptOnes
  <1>8. KeptOnes(H)
    <2>1. SUFFICES ASSUME NEW t \in Addresses, extended[t] # Nil
                   PROVE  /\ extended[t][1] = t
                          /\ H.blocks[extended[t]].gop = t /\ H.blocks[extended[t]].persist
      BY <1>2 DEF KeptOnes
    <2>2. QED
      BY <1>7, <2>1
  <1>9. AllClean(Now, ops)
    BY TypesNow DEF LeaveNativeCode
  <1>10. HookedOnes(H, ops, hookOwner, Stale)
    <2>1. SUFFICES ASSUME NEW t \in Addresses, ops[t].alive, ops[t].hooked
                   PROVE  /\ hookOwner[t] # Nil /\ extended[t] = hookOwner[t]
                          /\ hookOwner[t] \notin Stale /\ Clean(H.blocks[hookOwner[t]])
      BY <1>2 DEF HookedOnes
    <2>2. /\ hookOwner[t] # Nil /\ extended[t] = hookOwner[t] /\ hookOwner[t] \notin Stale
          /\ hookOwner[t] \in registry \/ Clean(blocks[hookOwner[t]])
      BY <2>1, InvFacts DEF OpInv, Sound, HookedOnes
    <2>3. H.blocks[hookOwner[t]] = blocks[hookOwner[t]] /\ hookOwner[t][1] = t
      BY <1>7, <2>2
    <2>4. Clean(blocks[hookOwner[t]])
      BY <1>9, <2>1, <2>2, <2>3, InvFacts DEF AllClean
    <2>5. QED
      BY <2>2, <2>3, <2>4
  <1>11. Sound(H, ops, hookOwner, Stale)
    BY <1>2, <1>4, <1>5, <1>8, <1>10 DEF Sound, FreshOnes
  <1>12. AllClean(H, ops)
    BY <1>2 DEF AllClean
  <1>13. FieldsSettled(H.registry, H.blocks, ops, wanted)
    <2>1. H.registry \subseteq Shadows
      BY <1>2
    <2>2. QED
      BY <1>5, <1>9, <1>12, <2>1, CleanWanted, SettledClean
  <1>14. /\ KeepShadowsBut(H, {}) /\ ops' = ops /\ hookOwner' = hookOwner /\ wanted' = wanted
         /\ mode' \in OpModes
    BY <1>1 DEF LeaveNativeCode, KeepShadows, OpModes
  <1>15. QED
    BY <1>6, <1>11, <1>12, <1>13, <1>14, TypesNow, KeepInv DEF Wants

LEMMA OpInitInv ==
  ASSUME OpInit
  PROVE  OpInv
  <1>1. NoShadow \in ShadowType /\ NoShadow.gop = Nil /\ NoShadow.full = NoShadow.based
    BY DEF NoShadow, ShadowType, ShadowFields
  <1>2. /\ Now.blocks = blocks /\ Now.registry = registry /\ Now.extended = extended
        /\ Now = [blocks |-> blocks, registry |-> registry, extended |-> extended]
    BY DEF Now
  <1>3. /\ registry = {} /\ \A b \in Shadows : blocks[b] = NoShadow
        /\ \A t \in Addresses : extended[t] = Nil /\ ops[t] = FreedOp /\ wanted[t] = FreedOp
        /\ ~FreedOp.alive
    BY DEF OpInit, FreedOp
  <1>4. blocks \in [Shadows -> ShadowType]
    BY <1>1 DEF OpInit
  <1>5. Now \in HostType
    <2>1. extended \in [Addresses -> Shadows \cup {Nil}]
      BY DEF OpInit
    <2>2. QED
      BY <1>2, <1>3, <1>4, <2>1 DEF HostType
  <1>6. Sound(Now, ops, hookOwner, Stale)
    BY <1>1, <1>2, <1>3, <1>5 DEF Sound, Named, KeptOnes, FreshOnes, HookedOnes
  <1>7. Whole(Now)
    BY <1>1, <1>2, <1>3 DEF Whole
  <1>8. FieldsSettled(registry, blocks, ops, wanted)
    BY <1>3 DEF FieldsSettled
  <1>9. CleanOutside
    BY <1>2, <1>3 DEF CleanOutside, AllClean
  <1>10. OpTypes
    <2>1. FreedOp \in OpType
          /\ FreedOp \in [alive : BOOLEAN, link : Addresses \cup {Nil, Scratch}, hooked : BOOLEAN]
      BY DEF FreedOp, OpType
    <2>2. QED
      BY <1>5, <2>1 DEF OpTypes, OpInit, OpModes
  <1>11. QED
    BY <1>6, <1>7, <1>8, <1>9, <1>10 DEF OpInv

LEMMA OpStepInv ==
  ASSUME OpInv, [OpNext]_opVars
  PROVE  OpInv'
  <1>1. CASE UNCHANGED opVars
    <2>1. Now' = Now /\ Stale' = Stale
      BY <1>1 DEF opVars, Now, Stale
    <2>2. QED
      BY <1>1, <2>1, TypesNow, SoundNow, DirectInv DEF opVars
  <1>2. ASSUME NEW t \in Addresses,
               LookAt(t) \/ FreeOP(t) \/ NewOpSz(t) \/ PpInvokeOP(t) \/ Compile(t)
        PROVE  OpInv'
    BY <1>2, LookAtInv, FreeInv, NewOpSzInv, PpInvokeInv, CompileInv
  <1>3. ASSUME NEW t \in Addresses, NEW s \in Addresses \cup {Nil},
               \/ NewOP(t, s) \/ NewCONDOP(t, s) \/ RelinkOP(t, s) \/ Peephole(t, s)
               \/ \E r \in Addresses \cup {Nil} : ParseOP(t, s, r)
        PROVE  OpInv'
    <2>1. CASE NewOP(t, s)
      BY <2>1, MakeInv DEF NewOP
    <2>2. CASE NewCONDOP(t, s)
      BY <2>2, MakeInv DEF NewCONDOP
    <2>3. CASE RelinkOP(t, s)
      BY <2>3, LinkInv DEF RelinkOP
    <2>4. CASE Peephole(t, s)
      BY <2>4, PeepholeInv
    <2>5. ASSUME NEW r \in Addresses \cup {Nil}, ParseOP(t, s, r)
          PROVE  OpInv'
      BY <2>5, LinkInv DEF ParseOP
    <2>6. QED
      BY <1>3, <2>1, <2>2, <2>3, <2>4, <2>5
  <1>4. ASSUME NEW b \in Shadows,
               AssignPpaddr(b) \/ \E target \in Shadows \cup {Nil, Scratch} : AssignLink(b, target)
        PROVE  OpInv'
    BY <1>4, AssignPpInv, AssignLinkInv
  <1>5. CASE EnterKeyword \/ EnterNativeCode \/ KeywordDone \/ KeywordDeclined \/ LeaveNativeCode
    BY <1>5, EnterInv, DoneInv, DeclinedInv, LeaveOpsInv
  <1>6. CASE (\E done \in SUBSET Shadows : KeywordCroaked(done)) \/ FreeTree
    BY <1>6, CroakedInv, FreeTreeInv
  <1>7. QED
    BY <1>1, <1>2, <1>3, <1>4, <1>5, <1>6 DEF OpNext

LEMMA OpInvariant == OpSpec => []OpInv
  <1>1. OpInit => OpInv
    BY OpInitInv
  <1>2. OpInv /\ [OpNext]_opVars => OpInv'
    BY OpStepInv
  <1>3. QED
    BY <1>1, <1>2, PTL DEF OpSpec

\* Whatever OPs a hook assigns to, and whatever the guest links in between, Perl never runs
\* with an OP that lacks an assignment or has one undone (goperl_optree_flush).
THEOREM AssignmentsArrive ==
  ASSUME Recycled = FALSE
  PROVE  OpSpec => []OpWritesArrive
  <1>1. OpInv => OpWritesArrive
    BY TypesNow, CleanWanted DEF OpWritesArrive, LiveOps
  <1>2. QED
    BY <1>1, OpInvariant, PTL

\* A hooked OP that Perl executes finds, whenever it does, the shadow in which the module
\* set op_ppaddr (goperl_op_shadow, goperl_perop_pp_register, goperl_opreg_clear).  This is
\* so even where a shadow outlives its OP and is found for the next one at its address.
THEOREM HooksFindShadow == OpSpec => []HookFindsShadow
  <1>1. ASSUME OpInv PROVE HookFindsShadow
    <2>1. SUFFICES ASSUME mode = "guest", NEW t \in Addresses, ops[t].alive, ops[t].hooked
                   PROVE  /\ MemoryLeft => EntryOf(OpShadow(Now, ops, t), t) = hookOwner[t]
                          /\ hookOwner[t] # Nil
                          /\ blocks[hookOwner[t]].gop = t /\ blocks[hookOwner[t]].persist
      BY DEF HookFindsShadow, LiveOps
    <2>2. PICK o : o = hookOwner[t]
      OBVIOUS
    <2>3. o # Nil /\ Now.extended[t] = o
      BY <1>1, <2>1, <2>2 DEF OpInv, Sound, HookedOnes
    <2>4. blocks[o].gop = t /\ blocks[o].persist
      BY <1>1, <2>3, InvFacts DEF OpInv, Sound, KeptOnes
    <2>5. ASSUME MemoryLeft PROVE EntryOf(OpShadow(Now, ops, t), t) = o
      <3>1. Roomy(Now) /\ Sound(Now, ops, hookOwner, Stale) /\ Stale \subseteq InUse(Now)
        BY <1>1, <2>5, RoomyNow DEF OpInv, Stale, Counted
      <3>2. PICK H : H = OpShadow(Now, ops, t)
        OBVIOUS
      <3>3. Sound(H, ops, hookOwner, Stale) /\ InRegistry(H, t)
        BY <3>1, <3>2, OpShadowSound, ShadowNames
      <3>4. PICK b \in H.registry : b[1] = t
        BY <3>3 DEF InRegistry
      <3>5. b = o
        BY <2>1, <2>2, <3>3, <3>4 DEF Sound, HookedOnes
      <3>6. EntryOf(H, t) = b
        BY <3>3, <3>4, EntryFacts, HostFacts DEF Sound
      <3>7. QED
        BY <3>2, <3>5, <3>6
    <2>6. QED
      BY <2>2, <2>3, <2>4, <2>5
  <1>2. QED
    BY <1>1, OpInvariant, PTL

\* The registry never has two shadows of an OP, nor one of an OP that was freed before at
\* the same address.
THEOREM ShadowsFresh ==
  ASSUME Recycled = FALSE
  PROVE  OpSpec => []ShadowsAreFresh
  <1>1. ASSUME OpInv PROVE ShadowsAreFresh
    <2>1. SUFFICES ASSUME NEW b \in registry, NEW c \in registry, blocks[b].gop \in LiveOps
                   PROVE  b \notin outdated /\ (b # c => blocks[b].gop # blocks[c].gop)
      BY DEF ShadowsAreFresh
    <2>2. blocks[b].gop = b[1] /\ blocks[c].gop = c[1] /\ (b[1] = c[1] => b = c)
      BY <1>1, InvFacts
    <2>3. b \notin outdated
      BY <1>1, <2>1, <2>2, SoundNow, InvFacts DEF Sound, FreshOnes, Counted, LiveOps
    <2>4. QED
      BY <2>2, <2>3
  <1>2. QED
    BY <1>1, OpInvariant, PTL

\* The type invariant of the shadows.
THEOREM OpsTyped == OpSpec => []OpTypeOK
  <1>1. ASSUME OpInv PROVE OpTypeOK
    <2>1. \A t \in Addresses : /\ ops[t].link \in Addresses \cup {Nil} /\ ops[t].hooked \in BOOLEAN
                               /\ extended[t] \in Shadows \cup {Nil}
                               /\ hookOwner[t] \in Shadows \cup {Nil}
      BY <1>1, InvFacts, TypesNow DEF OpType
    <2>2. \A b \in Shadows : /\ blocks[b].gop \in Addresses \cup {Nil}
                             /\ blocks[b].link \in Shadows \cup {Nil, Scratch}
                             /\ blocks[b].full => blocks[b].based
      BY <1>1, InvFacts DEF ShadowType, ShadowFields
    <2>3. registry \subseteq Shadows /\ mode \in OpModes /\ outdated \subseteq Shadows
      BY <1>1, InvFacts, TypesNow
    <2>4. QED
      BY <2>1, <2>2, <2>3 DEF OpTypeOK
  <1>2. QED
    BY <1>1, OpInvariant, PTL

-------------------------------------------------------------------------------
(* What native code has copies of, in one run (MCXsData).                  *)

\* In a run of all parts each part behaves as specified: what is proved of XsMirrors, XsOps,
\* XsParser and PerlioLayer holds of the run.
THEOREM DataParts == DataSpec => MirrorSpec /\ OpSpec /\ ParserSpec /\ LayerSpec
<1>1. DataInit => MirrorInit /\ OpInit /\ ParserInit /\ LayerInit
  BY DEF DataInit
<1>2. [DataNext]_<<part, focus, mirrorVars, opVars, parserVars, layerVars>> =>
        /\ [MirrorNext]_mirrorVars /\ [OpNext]_opVars
        /\ [ParserNext]_parserVars /\ [LayerNext]_layerVars
  BY DEF DataNext
<1> QED
  BY <1>1, <1>2, PTL DEF DataSpec, MirrorSpec, OpSpec, ParserSpec, LayerSpec

\* The type invariant of the run: copies of values, OPs and their shadows, parsers and
\* hooks, layers and their buffers are well typed together.
THEOREM DataTyped == DataSpec => []DataTypeOK
<1>1. MirrorTypeOK /\ OpTypeOK /\ ParserTypeOK /\ LayerTypeOK => DataTypeOK
  BY DEF DataTypeOK
<1> QED
  BY <1>1, DataParts, MirrorsTyped, OpsTyped, ParserTyped, LayersTyped, PTL
===============================================================================
