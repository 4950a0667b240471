------------------------------ MODULE PerlioLayer ------------------------------
(***************************************************************************)
(* PerlIO layers written in native code (xs/sdk/include/perliol.h).  The   *)
(* guest runs a proxy layer, with its buffer in guest memory, and calls    *)
(* the host when the layer is pushed, when its buffer is empty (Fill) and  *)
(* when it is popped.  The host keeps a shadow of the layer struct per     *)
(* instance; the shadow's next leads to the guest layer below, so that a   *)
(* Fill can make that one's Fill run, in the middle.                       *)
(*                                                                         *)
(* The Fill that is modelled reads from below and may keep an incomplete   *)
(* end back in its struct, as PerlIO::utf8_strict does.  The text is the   *)
(* sequence 1, 2, ... Guest memory is taken to stay where it is.           *)
(***************************************************************************)
EXTENDS Integers, Sequences, FiniteSets, SequencesExt

CONSTANTS
  Ltoks,           \* addresses of proxy layers in the guest
  BufAt,           \* the address of the buffer of each
  BufLen,          \* its length
  HostBase,        \* where the host sees guest address 0
  Tabs,            \* function tables that modules register
  Custom,          \* of each, the slots that are not stock ones
  TextLen,         \* length of the text
  MaxLayers,       \* bound: layers on the handle
  NoLayer

VARIABLES
  defined,         \* tables that PerlIO_define_layer accepted
  handle,          \* proxy layers of the handle, bottom first
  layerTab,        \* the table of each
  buffered,        \* what its buffer has for the layer above
  atEnd,           \* PERLIO_F_EOF of each
  source,          \* what is left of the text below all layers
  bytes,           \* guest memory
  iols,            \* goperl_iol_shadows_v: of an ltok, its table and what it keeps back
  window,          \* goperl_iol_gbuf_v, goperl_iol_hbuf_v
  filling,         \* running Fill hooks, innermost last
  received,        \* what the reader got
  failed           \* whether a Fill croaked

layerVars == <<defined, handle, layerTab, buffered, atEnd, source, bytes, iols,
               window, filling, received, failed>>

ASSUME LayerAssumption ==
  /\ BufLen \in Nat \ {0} /\ HostBase \in Nat /\ TextLen \in Nat
  /\ BufAt \in [Ltoks -> Nat]
  /\ \A l, k \in Ltoks : l # k => BufAt[l] + BufLen <= BufAt[k] \/ BufAt[k] + BufLen <= BufAt[l]
  /\ NoLayer \notin Tabs /\ NoLayer \notin Ltoks

Supported == {"Pushed", "Fill"}
Cell(l) == BufAt[l]..(BufAt[l] + BufLen - 1)
NoIol == [tab |-> NoLayer, kept |-> << >>]
Fill == filling[Len(filling)]

LayerInit ==
  /\ defined = {} /\ handle = << >>
  /\ layerTab = [l \in Ltoks |-> NoLayer]
  /\ buffered = [l \in Ltoks |-> << >>]
  /\ atEnd = [l \in Ltoks |-> FALSE]
  /\ source = [i \in 1..TextLen |-> i]
  /\ bytes = [a \in UNION {Cell(l) : l \in Ltoks} |-> 0]
  /\ iols = [l \in Ltoks |-> NoIol]
  /\ window = [g |-> 0, h |-> 0]
  /\ filling = << >>
  /\ received = << >>
  /\ failed = FALSE

-------------------------------------------------------------------------------
(* Registration.                                                           *)

\* PerlIO_define_layer: else it croaks.
DefineLayer(tab) ==
  /\ filling = << >>
  /\ tab \notin defined
  /\ Custom[tab] \subseteq Supported
  /\ defined' = defined \cup {tab}
  /\ UNCHANGED <<handle, layerTab, buffered, atEnd, source, bytes, iols, window,
                 filling, received, failed>>

-------------------------------------------------------------------------------
(* The hooks (__goperl_perlio_invoke).                                     *)

\* goperl_iol_shadow: the shadow of an ltok is found, or made.
IolShadow(tab, l) ==
  IF iols[l] # NoIol THEN iols
  ELSE [iols EXCEPT ![l] = [tab |-> tab, kept |-> << >>]]

\* PUSHED.  (If the module's Pushed fails, the guest pops the layer at once.)
PushLayer(l, tab) ==
  /\ filling = << >>
  /\ tab \in defined /\ "Fill" \in Custom[tab]
  /\ Len(handle) < MaxLayers /\ l \notin Range(handle)
  /\ handle' = Append(handle, l)
  /\ layerTab' = [layerTab EXCEPT ![l] = tab]
  /\ atEnd' = [atEnd EXCEPT ![l] = FALSE]
  /\ iols' = IolShadow(tab, l)
  /\ UNCHANGED <<defined, buffered, source, bytes, window, filling, received, failed>>

\* mutant of PopLayer: the shadow stays
PopLayerOnly ==
  /\ filling = << >> /\ handle # << >>
  /\ LET l == Last(handle) IN
     /\ buffered[l] = << >> /\ iols[l].kept = << >>
     /\ handle' = Front(handle)
     /\ layerTab' = [layerTab EXCEPT ![l] = NoLayer]
  /\ UNCHANGED <<defined, buffered, atEnd, source, bytes, iols, window, filling,
                 received, failed>>

\* POPPED.  A layer that has read ahead takes that with it, as in Perl: left out.
PopLayer ==
  /\ filling = << >> /\ handle # << >>
  /\ LET l == Last(handle) IN
     /\ buffered[l] = << >> /\ iols[l].kept = << >>
     /\ handle' = Front(handle)
     /\ layerTab' = [layerTab EXCEPT ![l] = NoLayer]
     /\ iols' = [iols EXCEPT ![l] = NoIol]
  /\ UNCHANGED <<defined, buffered, atEnd, source, bytes, window, filling, received, failed>>

\* FILL begins: the window is on the buffer of l, and what was kept back goes first.
BeginFill(l) ==
  LET S == IolShadow(layerTab[l], l)
      kept == S[l].kept IN
  /\ window' = [g |-> BufAt[l], h |-> HostBase + BufAt[l]]
  /\ filling' = Append(filling, [l |-> l, buf |-> HostBase + BufAt[l], count |-> Len(kept)])
  /\ iols' = [S EXCEPT ![l].kept = << >>]
  /\ bytes' = [a \in DOMAIN bytes |->
                 IF a - BufAt[l] \in 0..(Len(kept) - 1) THEN kept[a - BufAt[l] + 1] ELSE bytes[a]]

LayerBelow(l) ==
  LET i == CHOOSE i \in DOMAIN handle : handle[i] = l IN
  IF i = 1 THEN NoLayer ELSE handle[i - 1]

\* The reader finds the top layer's buffer empty.
FillHook ==
  /\ filling = << >> /\ handle # << >>
  /\ LET l == Last(handle) IN buffered[l] = << >> /\ ~atEnd[l] /\ BeginFill(l)
  /\ UNCHANGED <<defined, handle, layerTab, buffered, atEnd, source, received, failed>>

\* PerlIO_read on next finds the buffer of the layer below empty: its Fill first.
NestedFillHook ==
  /\ filling # << >>
  /\ LET b == LayerBelow(Fill.l) IN
     b # NoLayer /\ buffered[b] = << >> /\ ~atEnd[b] /\ BeginFill(b)
  /\ UNCHANGED <<defined, handle, layerTab, buffered, atEnd, source, received, failed>>

\* mutant of TailTarget: the host pointer is taken for the start of the window
TailTargetStart(vbuf) == window.g

\* goperl_tail_read: the guest address of a host pointer into the buffer.
TailTarget(vbuf) == window.g + (vbuf - window.h)

Place(units) ==
  LET target == TailTarget(Fill.buf + Fill.count) IN
  /\ bytes' = [a \in DOMAIN bytes |->
                 IF a - target \in 0..(Len(units) - 1) THEN units[a - target + 1] ELSE bytes[a]]
  /\ filling' = [filling EXCEPT ![Len(filling)].count = @ + Len(units)]

\* n units from below, into the buffer after what it has.
TailRead(n) ==
  /\ filling # << >> /\ n > 0
  /\ Fill.count + n <= BufLen
  /\ LET b == LayerBelow(Fill.l) IN
     \/ /\ b = NoLayer /\ n <= Len(source)
        /\ Place(SubSeq(source, 1, n))
        /\ source' = SubSeq(source, n + 1, Len(source))
        /\ UNCHANGED buffered
     \/ /\ b # NoLayer /\ n <= Len(buffered[b])
        /\ Place(SubSeq(buffered[b], 1, n))
        /\ buffered' = [buffered EXCEPT ![b] = SubSeq(@, n + 1, Len(@))]
        /\ UNCHANGED source
  /\ UNCHANGED <<defined, handle, layerTab, atEnd, iols, window, received, failed>>

\* PerlIO_eof on next, after a read that gave nothing.
NothingBelow ==
  LET b == LayerBelow(Fill.l) IN
  IF b = NoLayer THEN source = << >> ELSE buffered[b] = << >> /\ atEnd[b]

\* Fill succeeds, keeping an incomplete end back, which may not be the end of the text.
EndFill(keep) ==
  /\ filling # << >> /\ Fill.count > keep
  /\ keep > 0 => ~NothingBelow
  /\ LET l == Fill.l
         got == [i \in 1..Fill.count |-> bytes[BufAt[l] + i - 1]] IN
     /\ buffered' = [buffered EXCEPT ![l] = SubSeq(got, 1, Fill.count - keep)]
     /\ iols' = [iols EXCEPT ![l].kept = SubSeq(got, Fill.count - keep + 1, Fill.count)]
  /\ filling' = Front(filling)
  /\ UNCHANGED <<defined, handle, layerTab, atEnd, source, bytes, window, received, failed>>

\* Fill reports the end (status 1 and PERLIO_F_EOF).
EndOfFill ==
  /\ filling # << >> /\ Fill.count = 0 /\ NothingBelow
  /\ atEnd' = [atEnd EXCEPT ![Fill.l] = TRUE]
  /\ filling' = Front(filling)
  /\ UNCHANGED <<defined, handle, layerTab, buffered, source, bytes, iols, window,
                 received, failed>>

\* Fill croaks, and what it had read is gone; the guest sees an error on the layer, and
\* so does a Fill above that was reading from it.
CroakInFill ==
  /\ filling # << >>
  /\ failed' = TRUE
  /\ atEnd' = [atEnd EXCEPT ![Fill.l] = TRUE]
  /\ filling' = Front(filling)
  /\ UNCHANGED <<defined, handle, layerTab, buffered, source, bytes, iols, window, received>>

-------------------------------------------------------------------------------
(* The reader.                                                             *)

ReadUnit ==
  /\ filling = << >> /\ handle # << >>
  /\ LET l == Last(handle) IN
     /\ buffered[l] # << >>
     /\ received' = Append(received, Head(buffered[l]))
     /\ buffered' = [buffered EXCEPT ![l] = Tail(@)]
  /\ UNCHANGED <<defined, handle, layerTab, atEnd, source, bytes, iols, window,
                 filling, failed>>

LayerNext ==
  \/ \E tab \in Tabs : DefineLayer(tab) \/ \E l \in Ltoks : PushLayer(l, tab)
  \/ PopLayer \/ FillHook \/ NestedFillHook
  \/ \E n \in 1..BufLen : TailRead(n)
  \/ \E keep \in 0..1 : EndFill(keep)
  \/ EndOfFill \/ CroakInFill \/ ReadUnit

LayerSpec == LayerInit /\ [][LayerNext]_layerVars
-------------------------------------------------------------------------------
(* Properties.                                                             *)

LayerTypeOK ==
  /\ defined \subseteq Tabs
  /\ Range(handle) \subseteq Ltoks
  /\ \A l \in Ltoks :
       /\ layerTab[l] \in Tabs \cup {NoLayer}
       /\ Len(buffered[l]) <= BufLen /\ Len(iols[l].kept) <= 1
       /\ atEnd[l] \in BOOLEAN
  /\ \A i \in DOMAIN filling : filling[i].count \in 0..BufLen
  /\ failed \in BOOLEAN

\* As long as no Fill croaks, the reader gets the text in order: nothing is lost, doubled
\* or misplaced by Fills that interrupt each other and keep text back, or when layers are
\* pushed and popped between reads.  The text is cut into what the source still has, what
\* each layer holds, and what was received.
Text(from, to) == [i \in 1..(to - from) |-> from + i]
Held(l) == buffered[l] \o iols[l].kept
TextArrives ==
  filling = << >> /\ ~failed =>
    \E cut \in [0..Len(handle) -> 0..TextLen] :
      /\ source = Text(cut[0], TextLen)
      /\ \A i \in DOMAIN handle :
           cut[i] <= cut[i - 1] /\ Held(handle[i]) = Text(cut[i], cut[i - 1])
      /\ received = Text(0, cut[Len(handle)])

\* The host has a shadow for the layers that are pushed, with the table of each, and for no
\* other: a new layer at the address of an old one does not get its state.
ShadowPerLayer ==
  \A l \in Ltoks : iols[l].tab = IF l \in Range(handle) THEN layerTab[l] ELSE NoLayer
===============================================================================
