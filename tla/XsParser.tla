------------------------------- MODULE XsParser -------------------------------
(***************************************************************************)
(* Keyword plugins (xs/sdk/include/perl.h).  While the guest compiles, its *)
(* parser offers each identifier to a chain of host functions.  They work  *)
(* on a host shadow of the guest's parser: pointers into the buffer of the *)
(* source text, pulled at the entry and after every lex_, parse_ and       *)
(* block_ call, pushed before each of these and at the end.                *)
(*                                                                         *)
(* bufptr stands for the writable fields (error_count and in_my are pushed *)
(* with it), the address of the text for the others.  The guest's memory   *)
(* is taken to stay where it is (an instance on the snapshot mapping):     *)
(* host pointers are computed against its base.                            *)
(***************************************************************************)
EXTENDS Integers, Sequences, FiniteSets, SequencesExt

CONSTANTS
  Plugins,         \* functions given to wrap_keyword_plugin, each with its own next
  Decline,         \* goperl_kw_decline, which ends the chain
  Unset,           \* a null function pointer
  Texts,           \* addresses of linestr buffers
  MaxPos,          \* bound: positions in a text
  MaxParsers,      \* bound: nested parsers (require, eval)
  MaxHooks,        \* bound: nested keyword hooks
  Confined         \* whether code that a hook calls past the parser, with call_sv or
                   \* eval_sv, compiles no keyword of its own: see KeywordHook

ASSUME ParserAssumption ==
  /\ Decline # Unset /\ Plugins \cap {Decline, Unset} = {}
  /\ Texts # {} /\ MaxPos \in Nat
  /\ Confined \in BOOLEAN

VARIABLES
  parsers,         \* the guest's parsers, innermost last
  pulled,          \* the shadow, goperl_parser_v
  hooks,           \* running hooks, innermost last
  inHook,          \* a plugin executes, not the guest
  chainHead,       \* goperl_kw_head_v
  nextPlugin,      \* what each plugin got as next (*var)
  place            \* of each parser, where the text was last left, by either side

parserVars == <<parsers, pulled, hooks, inHook, chainHead, nextPlugin, place>>

At == 0..MaxPos
Level == Len(parsers)
Guest == parsers[Level]
Hook == hooks[Len(hooks)]

ParserInit ==
  /\ parsers = << >> /\ place = << >> /\ hooks = << >>
  /\ pulled \in [text : {CHOOSE x \in Texts : TRUE}, pos : {0}]
  /\ inHook = FALSE
  /\ chainHead = Unset
  /\ nextPlugin = [p \in Plugins |-> Unset]

-------------------------------------------------------------------------------
(* The chain.                                                              *)

\* mutant of WrapKeywordPlugin: a module that wraps again links itself
WrapAgain(p) ==
  /\ ~inHook
  /\ nextPlugin' = [nextPlugin EXCEPT ![p] = IF chainHead = Unset THEN Decline
                                             ELSE chainHead]
  /\ chainHead' = p
  /\ UNCHANGED <<parsers, pulled, hooks, inHook, place>>

\* From the boot code of a module.
WrapKeywordPlugin(p) ==
  /\ ~inHook
  /\ nextPlugin[p] = Unset
  /\ nextPlugin' = [nextPlugin EXCEPT ![p] = IF chainHead = Unset THEN Decline
                                             ELSE chainHead]
  /\ chainHead' = p
  /\ UNCHANGED <<parsers, pulled, hooks, inHook, place>>

-------------------------------------------------------------------------------
(* Synchronisation.                                                        *)

\* goperl_parser_pull, from parser q.
PullFrom(q) == pulled' = [text |-> q.text, pos |-> q.pos]

\* goperl_parser_push: the guest's parsers with the position of the shadow.
Pushed == [parsers EXCEPT ![Level].pos = pulled.pos]

\* The guest runs for a hook: waits says what the hook does when it is over.
Lend(waits) ==
  /\ inHook' = FALSE
  /\ hooks' = [hooks EXCEPT ![Len(hooks)].waits = waits]

\* The innermost hook is over.
EndHook ==
  /\ hooks' = Front(hooks)
  /\ inHook' = FALSE

-------------------------------------------------------------------------------
(* Plugins.                                                                *)

\* __goperl_keyword_invoke, for a word that the innermost parser meets.
KeywordHook ==
  /\ ~inHook /\ Level > 0 /\ chainHead # Unset
  /\ Len(hooks) < MaxHooks
  /\ hooks # << >> => Hook.waits = "pull" \/ (Level > Hook.level /\ ~Confined)
  /\ PullFrom(Guest)
  /\ hooks' = Append(hooks, [level |-> Level, plugin |-> chainHead, asked |-> <<chainHead>>,
                             due |-> {p \in Plugins : nextPlugin[p] # Unset}, waits |-> "no"])
  /\ inHook' = TRUE
  /\ UNCHANGED <<parsers, chainHead, nextPlugin, place>>

\* It hands the word on.
AskNext ==
  /\ inHook
  /\ nextPlugin[Hook.plugin] # Decline
  /\ LET next == nextPlugin[Hook.plugin] IN
     hooks' = [hooks EXCEPT ![Len(hooks)].plugin = next,
                            ![Len(hooks)].asked = Append(@, next)]
  /\ UNCHANGED <<parsers, pulled, inHook, chainHead, nextPlugin, place>>

\* PL_parser->bufptr = ...
SetBufptr(n) ==
  /\ inHook
  /\ pulled' = [pulled EXCEPT !.pos = n]
  /\ place' = [place EXCEPT ![Level] = n]
  /\ UNCHANGED <<parsers, hooks, inHook, chainHead, nextPlugin>>

\* mutant of Lex: the shadow is not fetched again
LexUnpulled(x, n) ==
  /\ inHook
  /\ parsers' = [parsers EXCEPT ![Level] = [text |-> x, pos |-> n]]
  /\ place' = [place EXCEPT ![Level] = n]
  /\ UNCHANGED <<pulled, hooks, inHook, chainHead, nextPlugin>>

\* lex_read_space, lex_stuff_pvn, lex_read_to...: the guest moves on from the pushed
\* position, perhaps into a new buffer.
Lex(x, n) ==
  /\ inHook
  /\ n >= Pushed[Level].pos \/ x # Guest.text
  /\ parsers' = [parsers EXCEPT ![Level] = [text |-> x, pos |-> n]]
  /\ place' = [place EXCEPT ![Level] = n]
  /\ PullFrom([text |-> x, pos |-> n])
  /\ UNCHANGED <<hooks, inHook, chainHead, nextPlugin>>

\* mutant of ParseMore: the guest parses from where it was
ParseUnpushed ==
  /\ inHook
  /\ Lend("pull")
  /\ UNCHANGED <<parsers, pulled, chainHead, nextPlugin, place>>

\* parse_block, parse_fullexpr, block_start, block_end...
ParseMore ==
  /\ inHook
  /\ parsers' = Pushed
  /\ Lend("pull")
  /\ UNCHANGED <<pulled, chainHead, nextPlugin, place>>

\* call_sv, eval_sv, load_module: Perl code that has nothing to do with this parser.
CallPerl ==
  /\ inHook
  /\ Lend("call")
  /\ UNCHANGED <<parsers, pulled, chainHead, nextPlugin, place>>

\* What the hook waited for is done.
BackInHook ==
  /\ ~inHook /\ hooks # << >> /\ Level = Hook.level
  /\ IF Hook.waits = "pull" THEN PullFrom(Guest) ELSE UNCHANGED pulled
  /\ hooks' = [hooks EXCEPT ![Len(hooks)].waits = "no"]
  /\ inHook' = TRUE
  /\ UNCHANGED <<parsers, chainHead, nextPlugin, place>>

\* A plugin claims the word (KEYWORD_PLUGIN_STMT, KEYWORD_PLUGIN_EXPR).
ClaimWord ==
  /\ inHook
  /\ parsers' = Pushed
  /\ EndHook
  /\ UNCHANGED <<pulled, chainHead, nextPlugin, place>>

\* The whole chain declined.
DeclineWord ==
  /\ inHook
  /\ nextPlugin[Hook.plugin] = Decline
  /\ parsers' = Pushed
  /\ EndHook
  /\ UNCHANGED <<pulled, chainHead, nextPlugin, place>>

\* A croak ends this compilation, and the hooks and parsers that are part of it.
CroakInHook ==
  /\ inHook
  /\ LET outer == Hook.level - 1 IN
     /\ parsers' = SubSeq(parsers, 1, outer)
     /\ place' = SubSeq(place, 1, outer)
     /\ \E n \in 0..(Len(hooks) - 1) :
          /\ \A i \in DOMAIN hooks : hooks[i].level <= outer <=> i <= n
          /\ hooks' = SubSeq(hooks, 1, n)
  /\ inHook' = FALSE
  /\ UNCHANGED <<pulled, chainHead, nextPlugin>>

-------------------------------------------------------------------------------
(* The guest.                                                              *)

\* require, eval: another source text.
OpenParser(x) ==
  /\ ~inHook
  /\ Level < MaxParsers
  /\ \A i \in DOMAIN parsers : parsers[i].text # x
  /\ parsers' = Append(parsers, [text |-> x, pos |-> 0])
  /\ place' = Append(place, 0)
  /\ UNCHANGED <<pulled, hooks, inHook, chainHead, nextPlugin>>

CloseParser ==
  /\ ~inHook
  /\ Level > (IF hooks = << >> THEN 0 ELSE Hook.level)
  /\ parsers' = Front(parsers) /\ place' = Front(place)
  /\ UNCHANGED <<pulled, hooks, inHook, chainHead, nextPlugin>>

\* The innermost parser can go on, unless it waits for code that its hook called.
Parsing ==
  /\ ~inHook /\ Level > 0
  /\ hooks # << >> => Hook.waits = "pull" \/ Level > Hook.level

Tokenize ==
  /\ Parsing
  /\ Guest.pos < MaxPos
  /\ parsers' = [parsers EXCEPT ![Level].pos = @ + 1]
  /\ place' = [place EXCEPT ![Level] = Guest.pos + 1]
  /\ UNCHANGED <<pulled, hooks, inHook, chainHead, nextPlugin>>

\* The next line of the source, in the same buffer or in one that is not in use.
NextLine(x) ==
  /\ Parsing
  /\ \A i \in DOMAIN parsers : i # Level => parsers[i].text # x
  /\ parsers' = [parsers EXCEPT ![Level] = [text |-> x, pos |-> 0]]
  /\ place' = [place EXCEPT ![Level] = 0]
  /\ UNCHANGED <<pulled, hooks, inHook, chainHead, nextPlugin>>

ParserNext ==
  \/ \E p \in Plugins : WrapKeywordPlugin(p)
  \/ KeywordHook \/ AskNext \/ ParseMore \/ CallPerl \/ BackInHook
  \/ ClaimWord \/ DeclineWord \/ CroakInHook
  \/ \E n \in At : SetBufptr(n)
  \/ \E x \in Texts, n \in At :
       (\A i \in DOMAIN parsers : i # Level => parsers[i].text # x) /\ Lex(x, n)
  \/ \E x \in Texts : OpenParser(x) \/ NextLine(x)
  \/ CloseParser \/ Tokenize

ParserSpec == ParserInit /\ [][ParserNext]_parserVars
-------------------------------------------------------------------------------
(* Properties.                                                             *)

ParserTypeOK ==
  /\ \A i \in DOMAIN parsers : parsers[i].text \in Texts /\ parsers[i].pos \in At
  /\ pulled.text \in Texts /\ pulled.pos \in At
  /\ Len(place) = Level
  /\ \A i \in DOMAIN hooks : hooks[i].level \in 1..Level
  /\ inHook => hooks # << >>
  /\ chainHead \in Plugins \cup {Unset}
  /\ \A p \in Plugins : nextPlugin[p] \in Plugins \cup {Decline, Unset}

\* Whenever a parser goes on it goes on where the text was left, by a plugin that moved
\* bufptr, by a plugin of a nested compilation or by itself.
ParsesWhereLeft == Parsing => Guest.pos = place[Level]

\* The pointers that a plugin sees lead into the text that its parser reads now, at the
\* place where it was left: never into a buffer that the parser has given up.
ShadowIsCurrent ==
  inHook => pulled = [text |-> Guest.text, pos |-> place[Level]]

\* Every plugin wrapped when the word came up is asked before the chain declines, and none
\* is asked twice: wrapping again makes no cycle.
ChainIsComplete ==
  \A i \in DOMAIN hooks :
    LET h == hooks[i] IN
    /\ \A j, k \in DOMAIN h.asked : h.asked[j] = h.asked[k] => j = k
    /\ nextPlugin[h.plugin] = Decline => Range(h.asked) = h.due
===============================================================================
