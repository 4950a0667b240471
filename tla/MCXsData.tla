-------------------------------- MODULE MCXsData -------------------------------
(***************************************************************************)
(* What native code has copies of, in one run: variables and values, OPs,  *)
(* the parser, layers of file handles.  These parts keep separate state,   *)
(* so a behaviour picks one at the start and stays with it; the run is the *)
(* union, and each property speaks of its part.  A behaviour of the        *)
(* mirrors is about a few cells: the others neither change nor are used.   *)
(***************************************************************************)
EXTENDS XsMirrors, XsOps, XsParser, PerlioLayer, TLC

CONSTANTS
  l1, l2,          \* proxy layers
  ta, tb           \* function tables: tb needs a slot that the proxy does not have

VARIABLES part, focus

BufferAt == l1 :> 1 @@ l2 :> 3
CustomSlots == ta :> {"Pushed", "Fill"} @@ tb :> {"Fill", "Write"}
Focuses == {C \in SUBSET Cells : Cardinality(C) = 2}

DataInit ==
  /\ \/ part \in {"ops", "parser", "layer"} /\ focus = {}
     \/ part = "mirrors" /\ focus \in Focuses
  /\ MirrorInit /\ \A c \in Cells : guest[c] = <<0>>
  /\ OpInit /\ ParserInit /\ LayerInit

InFocus ==
  \A c \in Cells \ focus : c \notin live' /\ guest'[c] = guest[c] /\ meant'[c] = meant[c]

DataNext ==
  \/ /\ part = "mirrors" /\ MirrorNext /\ InFocus
     /\ UNCHANGED <<part, focus, opVars, parserVars, layerVars>>
  \/ part = "ops" /\ OpNext /\ UNCHANGED <<part, focus, mirrorVars, parserVars, layerVars>>
  \/ part = "parser" /\ ParserNext /\ UNCHANGED <<part, focus, mirrorVars, opVars, layerVars>>
  \/ part = "layer" /\ LayerNext /\ UNCHANGED <<part, focus, mirrorVars, opVars, parserVars>>

DataSpec == DataInit /\ [][DataNext]_<<part, focus, mirrorVars, opVars, parserVars, layerVars>>

DataTypeOK == MirrorTypeOK /\ OpTypeOK /\ ParserTypeOK /\ LayerTypeOK
===============================================================================
