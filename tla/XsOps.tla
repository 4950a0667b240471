--------------------------------- MODULE XsOps ---------------------------------
(***************************************************************************)
(* Host shadows of the guest's OPs (xs/sdk/include/perl.h).  Native code   *)
(* that extends the parser, or looks at optrees, works on host structs:    *)
(* one shadow per guest OP, found by the address of the OP in a registry.  *)
(* Fields assigned to a shadow are written back, by comparison with a      *)
(* baseline, before an operation that consumes the optree.  An OP that     *)
(* gets a host function as its op_ppaddr dispatches to the host whenever   *)
(* Perl executes it, long after the activation that compiled it: its       *)
(* shadow is kept, and found through a second list that survives.          *)
(*                                                                         *)
(* The fields that link OPs (op_next, op_first, op_sibparent...) are one   *)
(* field here; op_type, op_flags and the like are treated as it is.  The   *)
(* frames of activations are module XsFrames, the parser is XsParser.      *)
(***************************************************************************)
EXTENDS Integers, FiniteSets

CONSTANTS
  Addresses,       \* where the guest has OPs
  Blocks,          \* bound: the shadows that an address can have at once
  MaxShadows,      \* bound: all shadows
  Nil,
  Scratch,         \* an OP struct that a module made: it has no guest OP
  Recycled         \* whether Perl compiles a new OP at the address of a freed one
                   \* although the registry still has the shadow of the freed one

ASSUME OpAssumption ==
  /\ Nil # Scratch /\ Nil \notin Addresses
  /\ {Nil, Scratch} \cap (Addresses \X Blocks) = {}
  /\ Recycled \in BOOLEAN

VARIABLES
  ops,             \* the OPs of the guest
  blocks,          \* the shadows
  registry,        \* the blocks linked in goperl_opreg_v
  extended,        \* goperl_opext_v: the kept shadow of an address
  mode,            \* who runs: the guest, or an activation of this kind
  wanted,          \* of each OP, what was last assigned, by either side
  hookOwner,       \* of each hooked OP, the shadow whose op_ppaddr was assigned
  outdated         \* blocks whose OP has been freed

opVars == <<ops, blocks, registry, extended, mode, wanted, hookOwner, outdated>>

\* A shadow is named by its OP's address and a block of memory.
Shadows == Addresses \X Blocks

OpModes == {"guest", "keyword", "native"}

FreedOp == [alive |-> FALSE, link |-> Nil, hooked |-> FALSE]
NoShadow == [gop |-> Nil, full |-> FALSE, persist |-> FALSE, based |-> FALSE,
             link |-> Nil, oldLink |-> Nil, pp |-> FALSE, oldPp |-> FALSE]

LiveOps == {t \in Addresses : ops[t].alive}

OpInit ==
  /\ ops = [t \in Addresses |-> FreedOp]
  /\ blocks = [b \in Shadows |-> NoShadow]
  /\ registry = {}
  /\ extended = [t \in Addresses |-> Nil]
  /\ mode = "guest"
  /\ wanted = [t \in Addresses |-> FreedOp]
  /\ hookOwner = [t \in Addresses |-> Nil]
  /\ outdated = {}

-------------------------------------------------------------------------------
(* The registry.  H and G stand for the host's and the guest's structures, *)
(* so that a handler is a composition of the functions it calls.           *)

Now == [blocks |-> blocks, registry |-> registry, extended |-> extended]

\* An entry that survived a clear is memory that nobody frees; it can be forgotten
\* when neither list nor a linked shadow leads to it.
InUse(H) ==
  LET linked == H.registry \cup {H.extended[t] : t \in Addresses} IN
  linked \cup {H.blocks[b].link : b \in linked \cap Shadows}

FreeBlocks(H, t) == ({t} \X Blocks) \ (InUse(H) \cup InUse(Now))

EntryOf(H, t) ==
  LET found == {b \in H.registry : H.blocks[b].gop = t} IN
  IF found = {} THEN Nil ELSE CHOOSE b \in found : TRUE

RegisterEntry(H, b, entry) ==
  [blocks |-> [H.blocks EXCEPT ![b] = entry], registry |-> H.registry \cup {b},
   extended |-> H.extended]

NewEntry(t) == [NoShadow EXCEPT !.gop = t, !.persist = (mode = "keyword")]

\* mutant of OpShadow: the kept shadow is taken without asking the guest
OpShadowUnchecked(H, G, t) ==
  IF t = Nil \/ EntryOf(H, t) # Nil THEN H
  ELSE IF H.extended[t] # Nil
  THEN [H EXCEPT !.registry = @ \cup {H.extended[t]}]
  ELSE RegisterEntry(H, CHOOSE b \in FreeBlocks(H, t) : TRUE, NewEntry(t))

\* goperl_op_shadow: H with a shadow for the OP at t.  A kept shadow counts only if
\* the guest says that the OP is still hooked, else it is of an OP that is gone.
OpShadow(H, G, t) ==
  IF t = Nil \/ EntryOf(H, t) # Nil THEN H
  ELSE IF H.extended[t] # Nil /\ G[t].hooked
  THEN [H EXCEPT !.registry = @ \cup {H.extended[t]}]
  ELSE RegisterEntry([H EXCEPT !.extended[t] = Nil],
                CHOOSE b \in FreeBlocks(H, t) : TRUE, NewEntry(t))

Captured(s) == [s EXCEPT !.based = TRUE, !.oldLink = s.link, !.oldPp = s.pp]

\* goperl_op_pull: fields from the guest, with shadows for the OPs they lead to.
PullOP(H, G, b) ==
  LET t == H.blocks[b].gop
      K == OpShadow(H, G, G[t].link) IN
  [K EXCEPT !.blocks[b] =
     Captured([@ EXCEPT !.link = IF G[t].link = Nil THEN Nil
                                 ELSE EntryOf(K, G[t].link)])]

\* goperl_op_shadow_full.
ShadowFull(H, G, t) ==
  LET K == OpShadow(H, G, t)
      b == EntryOf(K, t) IN
  IF t = Nil \/ K.blocks[b].full THEN K
  ELSE PullOP([K EXCEPT !.blocks[b].full = TRUE], G, b)

\* goperl_op_refresh.
RefreshOP(H, G, b) == IF b \in Shadows /\ H.blocks[b].full THEN PullOP(H, G, b) ELSE H

\* Bound: there is memory for every shadow that one operation can make.
MemoryLeft ==
  LET missing == {t \in Addresses : EntryOf(Now, t) = Nil} IN
  /\ \A t \in missing : FreeBlocks(Now, t) # {}
  /\ Cardinality(InUse(Now) \cap Shadows) + Cardinality(missing) <= MaxShadows

\* The host's structures become H; the shadows of the OPs of dead are outdated.
KeepShadowsBut(H, dead) ==
  /\ blocks' = [b \in Shadows |-> IF b \in InUse(H) THEN H.blocks[b] ELSE NoShadow]
  /\ registry' = H.registry
  /\ extended' = H.extended
  /\ outdated' = {b \in InUse(H) \cap Shadows :
                    \/ b \in outdated \cap InUse(Now)
                    \/ H.blocks[b].gop \in dead}

KeepShadows(H) == KeepShadowsBut(H, {})

-------------------------------------------------------------------------------
(* goperl_optree_flush.                                                    *)

DirtyShadow(s) == s.gop # Nil /\ s.based /\ (s.link # s.oldLink \/ s.pp # s.oldPp)
PendingOps == {b \in registry : DirtyShadow(blocks[b])}
Unwritable == {b \in PendingOps : blocks[b].link = Scratch /\ blocks[b].oldLink # Scratch}

TokenOf(b) == IF b = Nil THEN Nil ELSE blocks[b].gop

\* The guest's OPs after the shadows of D are written back: only fields that differ
\* from the baseline.
WrittenOps(D) ==
  [t \in Addresses |->
     IF \E b \in D : blocks[b].gop = t
     THEN LET s == blocks[CHOOSE b \in D : blocks[b].gop = t] IN
          [ops[t] EXCEPT !.link = IF s.link # s.oldLink THEN TokenOf(s.link) ELSE @,
                         !.hooked = @ \/ s.pp # s.oldPp]
     ELSE ops[t]]

\* mutant of WrittenBack: the shadow of a hooked OP is not kept
WrittenBackUnkept(D) ==
  [blocks |-> [b \in Shadows |-> IF b \in D THEN Captured(blocks[b]) ELSE blocks[b]],
   registry |-> registry,
   extended |-> extended]

\* The host's structures: new baselines, and goperl_perop_pp_register.
WrittenBack(D) ==
  LET patched == {b \in D : blocks[b].pp # blocks[b].oldPp} IN
  [blocks |-> [b \in Shadows |->
                 IF b \in D THEN [Captured(blocks[b]) EXCEPT !.persist = @ \/ b \in patched]
                 ELSE blocks[b]],
   registry |-> registry,
   extended |-> [t \in Addresses |->
                   IF \E b \in patched : blocks[b].gop = t
                   THEN CHOOSE b \in patched : blocks[b].gop = t
                   ELSE extended[t]]]

Owners(D) ==
  [t \in Addresses |->
     IF \E b \in D : blocks[b].gop = t /\ blocks[b].pp # blocks[b].oldPp
     THEN CHOOSE b \in D : blocks[b].gop = t /\ blocks[b].pp # blocks[b].oldPp
     ELSE hookOwner[t]]

-------------------------------------------------------------------------------
(* Operations of native code on optrees.                                   *)

InHook == mode = "keyword"
InNativeCode == mode # "guest"

\* An address for a new OP.  That one freed and reused within an activation aliases is
\* documented, and left out.
AddressFree(t) ==
  ~ops[t].alive /\ (EntryOf(Now, t) = Nil \/ (Recycled /\ mode = "guest"))

\* Native code looks at an OP: OpSIBLING, CvSTART, PL_op, a result.
LookAt(t) ==
  /\ InNativeCode /\ MemoryLeft
  /\ t \in LiveOps
  /\ KeepShadows(ShadowFull(Now, ops, t))
  /\ UNCHANGED <<ops, mode, wanted, hookOwner>>

\* Assignment to a field of a shadow.  Assumed of the modules: it is one that an
\* operation returned (full), not one that was only reached through a field of another;
\* the field is what the guest has; and keyword hooks are where it happens.
AssignLink(b, target) ==
  /\ InHook
  /\ b \in registry /\ blocks[b].full /\ blocks[b].gop \in LiveOps
  /\ TokenOf(blocks[b].oldLink) = ops[blocks[b].gop].link
  /\ target \in {Nil, Scratch} \cup {c \in registry : blocks[c].gop \in LiveOps \ {blocks[b].gop}}
  /\ blocks' = [blocks EXCEPT ![b].link = target]
  /\ wanted' = [wanted EXCEPT ![blocks[b].gop].link =
                  IF target \in Shadows THEN blocks[target].gop ELSE target]
  /\ UNCHANGED <<ops, registry, extended, mode, hookOwner, outdated>>

AssignPpaddr(b) ==
  /\ InHook
  /\ b \in registry /\ blocks[b].full /\ blocks[b].gop \in LiveOps
  /\ ~blocks[b].pp
  /\ blocks' = [blocks EXCEPT ![b].pp = TRUE]
  /\ wanted' = [wanted EXCEPT ![blocks[b].gop].hooked = TRUE]
  /\ UNCHANGED <<ops, registry, extended, mode, hookOwner, outdated>>

\* Write-back first; then the guest's own operation makes G of its OPs, the shadow of
\* the OP touched is fetched again, and the one of the result is returned.
Operation(G, touched, result) ==
  /\ InNativeCode /\ MemoryLeft /\ Unwritable = {}
  /\ ops' = G
  /\ LET K == WrittenBack(PendingOps) IN
     KeepShadows(ShadowFull(RefreshOP(K, G, EntryOf(K, touched)), G, result))
  /\ hookOwner' = Owners(PendingOps)
  /\ wanted' = [t \in Addresses |->
                  IF G[t] = WrittenOps(PendingOps)[t] THEN wanted[t] ELSE G[t]]
  /\ UNCHANGED mode

\* newOP, newUNOP, ...: the new OP leads to its first kid, which leads back.
NewOP(t, kid) ==
  /\ InHook
  /\ AddressFree(t) /\ kid \in LiveOps \cup {Nil}
  /\ LET W == WrittenOps(PendingOps) IN
     Operation([s \in Addresses |->
                  IF s = t THEN [alive |-> TRUE, link |-> kid, hooked |-> FALSE]
                  ELSE IF s = kid THEN [W[s] EXCEPT !.link = t] ELSE W[s]],
               kid, t)

\* newCONDOP does not fetch its kids again.
NewCONDOP(t, kid) ==
  /\ InHook
  /\ AddressFree(t) /\ kid \in LiveOps
  /\ LET W == WrittenOps(PendingOps) IN
     Operation([s \in Addresses |->
                  IF s = t THEN [alive |-> TRUE, link |-> kid, hooked |-> FALSE]
                  ELSE IF s = kid THEN [W[s] EXCEPT !.link = t] ELSE W[s]],
               Nil, t)

\* op_append_elem, op_scope, op_sibling_splice, block_end...: the guest links anew.
RelinkOP(t, target) ==
  /\ InHook
  /\ t \in LiveOps /\ target \in (LiveOps \ {t}) \cup {Nil}
  /\ Operation([WrittenOps(PendingOps) EXCEPT ![t].link = target], t, t)

\* parse_block and so on: whatever the guest changes, only the result is fetched.
ParseOP(t, target, result) ==
  /\ InHook
  /\ t \in LiveOps /\ target \in (LiveOps \ {t}) \cup {Nil} /\ result \in LiveOps \cup {Nil}
  /\ Operation([WrittenOps(PendingOps) EXCEPT ![t].link = target], Nil, result)

FreeOP(t) ==
  /\ InHook /\ MemoryLeft /\ Unwritable = {}
  /\ t \in LiveOps /\ \A s \in LiveOps : ops[s].link = t => s = t
  /\ ops' = [WrittenOps(PendingOps) EXCEPT ![t] = FreedOp]
  /\ KeepShadowsBut(WrittenBack(PendingOps), {t})
  /\ hookOwner' = [Owners(PendingOps) EXCEPT ![t] = Nil]
  /\ wanted' = [wanted EXCEPT ![t] = FreedOp]
  /\ UNCHANGED mode

\* NewOpSz, NewOp: a block of the module's own size becomes the shadow of a new OP.
NewOpSz(t) ==
  /\ InHook /\ MemoryLeft
  /\ AddressFree(t)
  /\ ops' = [ops EXCEPT ![t] = [FreedOp EXCEPT !.alive = TRUE]]
  /\ wanted' = [wanted EXCEPT ![t] = [FreedOp EXCEPT !.alive = TRUE]]
  /\ KeepShadows(RegisterEntry(Now, CHOOSE b \in FreeBlocks(Now, t) : TRUE,
                   Captured([NoShadow EXCEPT !.gop = t, !.full = TRUE, !.persist = TRUE])))
  /\ UNCHANGED <<mode, hookOwner>>

-------------------------------------------------------------------------------
(* Activations.                                                            *)

EnterKeyword ==
  /\ mode = "guest"
  /\ mode' = "keyword"
  /\ UNCHANGED <<ops, blocks, registry, extended, wanted, hookOwner, outdated>>

\* An XSUB, or the pp hook of an op type.
EnterNativeCode ==
  /\ mode = "guest"
  /\ mode' = "native"
  /\ UNCHANGED <<ops, blocks, registry, extended, wanted, hookOwner, outdated>>

\* The guest executes a hooked OP (__goperl_pp_invoke).
PpInvokeOP(t) ==
  /\ mode = "guest" /\ MemoryLeft
  /\ t \in LiveOps /\ ops[t].hooked
  /\ mode' = "native"
  /\ LET H == ShadowFull(Now, ops, t)
         b == EntryOf(H, t) IN
     KeepShadows(IF H.blocks[b].persist THEN RefreshOP(H, ops, b) ELSE H)
  /\ UNCHANGED <<ops, wanted, hookOwner>>

\* mutant of KeywordDone: the parser gets the result before the write-back
KeywordDoneUnflushed ==
  /\ InHook /\ Unwritable = {}
  /\ mode' = "guest"
  /\ UNCHANGED <<ops, blocks, registry, extended, wanted, hookOwner, outdated>>

\* The hook claimed the word (KEYWORD_PLUGIN_STMT, KEYWORD_PLUGIN_EXPR).
KeywordDone ==
  /\ InHook /\ Unwritable = {}
  /\ mode' = "guest"
  /\ ops' = WrittenOps(PendingOps)
  /\ KeepShadows(WrittenBack(PendingOps))
  /\ hookOwner' = Owners(PendingOps)
  /\ UNCHANGED wanted

\* It declined, having assigned nothing.
KeywordDeclined ==
  /\ InHook /\ PendingOps = {}
  /\ mode' = "guest"
  /\ UNCHANGED <<ops, blocks, registry, extended, wanted, hookOwner, outdated>>

\* It croaked, perhaps out of a write-back that met a scratch OP after it had written
\* those of done.  The compilation fails, and the guest frees the OPs it was to be of.
KeywordCroaked(done) ==
  /\ InHook
  /\ done = {} \/ (Unwritable # {} /\ done \subseteq PendingOps \ Unwritable)
  /\ LET lost == {blocks[b].gop : b \in PendingOps} IN
     /\ ops' = [t \in Addresses |-> IF t \in lost \/ ops[t].link \in lost THEN FreedOp
                                    ELSE WrittenOps(done)[t]]
     /\ KeepShadowsBut(WrittenBack(done), {t \in LiveOps : ~ops'[t].alive})
     /\ hookOwner' = [t \in Addresses |-> IF ops'[t].alive THEN Owners(done)[t] ELSE Nil]
     /\ wanted' = [t \in Addresses |-> IF ops'[t].alive THEN wanted[t] ELSE FreedOp]
  /\ mode' = "guest"

\* goperl_opreg_clear.
Cleared ==
  [blocks |-> [b \in Shadows |-> IF b \in registry /\ ~blocks[b].persist THEN NoShadow
                                 ELSE blocks[b]],
   registry |-> {},
   extended |-> extended]

\* goperl_xs_leave of the outermost activation.
LeaveNativeCode ==
  /\ mode = "native"
  /\ mode' = "guest"
  /\ KeepShadows(Cleared)
  /\ UNCHANGED <<ops, wanted, hookOwner>>

-------------------------------------------------------------------------------
(* The guest on its own: compiles, relinks (peephole), frees.              *)

Compile(t) ==
  /\ mode = "guest"
  /\ AddressFree(t)
  /\ ops' = [ops EXCEPT ![t] = [FreedOp EXCEPT !.alive = TRUE]]
  /\ wanted' = [wanted EXCEPT ![t] = [FreedOp EXCEPT !.alive = TRUE]]
  /\ UNCHANGED <<blocks, registry, extended, mode, hookOwner, outdated>>

Peephole(t, target) ==
  /\ mode = "guest"
  /\ t \in LiveOps /\ target \in (LiveOps \ {t}) \cup {Nil}
  /\ ops' = [ops EXCEPT ![t].link = target]
  /\ wanted' = [wanted EXCEPT ![t].link = target]
  /\ UNCHANGED <<blocks, registry, extended, mode, hookOwner, outdated>>

\* An optree is freed as a whole.
FreeTree ==
  /\ mode = "guest" /\ LiveOps # {}
  /\ ops' = [t \in Addresses |-> FreedOp]
  /\ wanted' = [t \in Addresses |-> FreedOp]
  /\ hookOwner' = [t \in Addresses |-> Nil]
  /\ outdated' = outdated \cup {b \in Shadows : blocks[b].gop \in LiveOps}
  /\ UNCHANGED <<blocks, registry, extended, mode>>

OpNext ==
  \/ \E t \in Addresses :
       \/ LookAt(t) \/ FreeOP(t) \/ NewOpSz(t) \/ PpInvokeOP(t) \/ Compile(t)
       \/ \E s \in Addresses \cup {Nil} :
            \/ NewOP(t, s) \/ NewCONDOP(t, s) \/ RelinkOP(t, s) \/ Peephole(t, s)
            \/ \E r \in Addresses \cup {Nil} : ParseOP(t, s, r)
  \/ \E b \in Shadows :
       \/ AssignPpaddr(b)
       \/ \E target \in Shadows \cup {Nil, Scratch} : AssignLink(b, target)
  \/ EnterKeyword \/ EnterNativeCode
  \/ KeywordDone \/ KeywordDeclined \/ LeaveNativeCode
  \/ \E done \in SUBSET Shadows : KeywordCroaked(done)
  \/ FreeTree

OpSpec == OpInit /\ [][OpNext]_opVars
-------------------------------------------------------------------------------
(* Properties.                                                             *)

OpTypeOK ==
  /\ \A t \in Addresses :
       /\ ops[t].link \in Addresses \cup {Nil} /\ ops[t].hooked \in BOOLEAN
       /\ extended[t] \in Shadows \cup {Nil} /\ hookOwner[t] \in Shadows \cup {Nil}
  /\ \A b \in Shadows :
       /\ blocks[b].gop \in Addresses \cup {Nil}
       /\ blocks[b].link \in Shadows \cup {Nil, Scratch}
       /\ blocks[b].full => blocks[b].based
  /\ registry \subseteq Shadows
  /\ mode \in OpModes
  /\ outdated \subseteq Shadows

\* Whenever Perl code can run, the guest's OPs are as they were last assigned, through a
\* shadow or by the guest itself: no assignment of a hook that succeeded is lost, and no
\* old copy undoes what the guest has relinked ("dirty fields are written back").
OpWritesArrive ==
  mode = "guest" =>
    \A t \in LiveOps : ops[t].link = wanted[t].link /\ ops[t].hooked = wanted[t].hooked

\* When Perl executes a hooked OP, the function is given the very shadow in which the
\* module set op_ppaddr, with what the module keeps behind it ("survive registry clears").
HookFindsShadow ==
  mode = "guest" =>
    \A t \in LiveOps : ops[t].hooked =>
      LET H == OpShadow(Now, ops, t) IN
      /\ MemoryLeft => EntryOf(H, t) = hookOwner[t]
      /\ hookOwner[t] # Nil
      /\ blocks[hookOwner[t]].gop = t /\ blocks[hookOwner[t]].persist

\* The registry has at most one shadow of an OP, and it was made for this OP, not for one
\* that was at the same address ("cross-activation caching would alias stale shadows").
ShadowsAreFresh ==
  \A b, c \in registry :
    blocks[b].gop \in LiveOps =>
      /\ b \notin outdated
      /\ b # c => blocks[b].gop # blocks[c].gop
===============================================================================
