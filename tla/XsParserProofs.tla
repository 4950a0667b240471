----------------------------- MODULE XsParserProofs -----------------------------
(***************************************************************************)
(* Proofs about keyword plugins and the parser shadow, for any plugins,    *)
(* texts and depth of nesting.  What is proved of the shadow assumes       *)
(* Confined; the chain does not need it.                                   *)
(***************************************************************************)
EXTENDS XsParser, SequenceTheorems, TLAPS

HookType ==
  [level : Nat, plugin : Plugins, asked : Seq(Plugins), due : SUBSET Plugins,
   waits : {"no", "pull", "call"}]

ParserPlaces == [text : Texts, pos : At]

ShapeInv ==
  /\ parsers \in Seq(ParserPlaces)
  /\ place \in Seq(At) /\ Len(place) = Len(parsers)
  /\ pulled \in ParserPlaces
  /\ hooks \in Seq(HookType)
  /\ inHook \in BOOLEAN
  /\ chainHead \in Plugins \cup {Unset}
  /\ nextPlugin \in [Plugins -> Plugins \cup {Decline, Unset}]

\* Hooks are of parsers that are open, the inner ones of inner parsers, and a plugin works
\* for the innermost; a hook below another waits for the guest.
NestingInv ==
  /\ \A i \in 1..Len(hooks) : hooks[i].level \in 1..Len(parsers)
  /\ \A i, j \in 1..Len(hooks) : i <= j => hooks[i].level <= hooks[j].level
  /\ \A i \in 1..Len(hooks) : hooks[i].waits = "no" <=> (inHook /\ i = Len(hooks))
  /\ inHook => hooks # << >> /\ Hook.level = Len(parsers)

\* Plugins that the chain leads to have been wrapped, so it does lead on from them.
LinkedInv ==
  /\ chainHead \in Plugins => nextPlugin[chainHead] # Unset
  /\ \A p \in Plugins : nextPlugin[p] \in Plugins => nextPlugin[nextPlugin[p]] # Unset
  /\ \A i \in 1..Len(hooks) : nextPlugin[hooks[i].plugin] # Unset

Inv == ShapeInv /\ NestingInv /\ LinkedInv

\* The innermost hook has the shadow, unless it has given it to the parser.
Holding == hooks # << >> /\ Hook.waits # "pull"

\* The guest's parsers are where they were left, except the one that a hook holds: that
\* is where the shadow is.
ShadowInv ==
  /\ \A i \in 1..Len(hooks) : i < Len(hooks) => hooks[i].waits = "pull"
  /\ \A i \in 1..Len(parsers) :
       ~(Holding /\ i = Hook.level) => parsers[i].pos = place[i]
  /\ Holding => pulled = [text |-> parsers[Hook.level].text, pos |-> place[Hook.level]]

-------------------------------------------------------------------------------
(* Sequences that change at their end.                                     *)

LEMMA SetLast ==
  ASSUME NEW S, NEW s \in Seq(S), s # << >>, NEW e \in S, NEW t,
         t = [s EXCEPT ![Len(s)] = e]
  PROVE  /\ t \in Seq(S) /\ Len(t) = Len(s) /\ t # << >>
         /\ t[Len(s)] = e
         /\ \A i \in 1..Len(s) : i < Len(s) => t[i] = s[i]
<1> DEFINE n == Len(s)
<1>1. n \in 1..n /\ n \in Nat
  BY EmptySeq, LenProperties
<1>2. /\ t \in Seq(S) /\ Len(t) = n
      /\ \A j \in 1..n : t[j] = IF j = n THEN e ELSE s[j]
  BY <1>1, ExceptSeq
<1> HIDE DEF n
<1>3. t # << >>
  BY <1>1, <1>2, EmptySeq
<1>4. t[n] = e /\ \A i \in 1..n : i < n => t[i] = s[i]
  BY <1>1, <1>2
<1> QED
  BY <1>2, <1>3, <1>4 DEF n

LEMMA CutLast ==
  ASSUME NEW S, NEW s \in Seq(S), NEW n \in 0..Len(s), NEW t, t = SubSeq(s, 1, n)
  PROVE  t \in Seq(S) /\ Len(t) = n /\ \A i \in 1..n : t[i] = s[i]
<1>1. n \in Int /\ \A i \in 1..n : s[i] \in S
  BY ElementOfSeq, LenProperties
<1>2. /\ t \in Seq(S)
      /\ Len(t) = IF 1 <= n THEN n - 1 + 1 ELSE 0
      /\ \A i \in 1..(n - 1 + 1) : t[i] = s[1 + i - 1]
  BY <1>1, SubSeqProperties
<1> QED
  BY <1>1, <1>2

\* What ShapeInv gives of the last elements.
LEMMA Lasts ==
  ASSUME ShapeInv
  PROVE  /\ Len(hooks) \in Nat /\ Len(parsers) \in Nat
         /\ hooks # << >> <=> Len(hooks) > 0
         /\ \A i \in 1..Len(hooks) : hooks[i] \in HookType
         /\ \A i \in 1..Len(parsers) : parsers[i] \in ParserPlaces /\ place[i] \in At
BY EmptySeq, ElementOfSeq, LenProperties DEF ShapeInv

-------------------------------------------------------------------------------
(* Initially; and what wrapping does.                                      *)

LEMMA ParserInitial == ParserInit => Inv /\ ShadowInv
<1> SUFFICES ASSUME ParserInit PROVE Inv /\ ShadowInv
  OBVIOUS
<1>1. (CHOOSE x \in Texts : TRUE) \in Texts /\ 0 \in At
  BY ParserAssumption DEF At
<1>2. ShapeInv
  <2>1. pulled \in ParserPlaces
    BY <1>1 DEF ParserInit, ParserPlaces
  <2> QED
    BY <1>1, <2>1, LenProperties, EmptySeq DEF ParserInit, ShapeInv
<1> QED
  BY <1>2, ParserAssumption
  DEF ParserInit, Inv, NestingInv, LinkedInv, ShadowInv, Holding

\* The innermost hook is replaced by another of the same parser.
LEMMA SetHook ==
  ASSUME Inv, hooks # << >>, inHook' \in BOOLEAN, UNCHANGED <<chainHead, nextPlugin>>,
         NEW h \in HookType, h.level = Hook.level, h.waits = "no" <=> inHook',
         hooks' = [hooks EXCEPT ![Len(hooks)] = h],
         nextPlugin[h.plugin] # Unset,
         Len(parsers') = Len(parsers), inHook' => h.level = Len(parsers)
  PROVE  /\ hooks' \in Seq(HookType) /\ NestingInv' /\ LinkedInv'
         /\ Len(hooks') = Len(hooks) /\ hooks' # << >> /\ Hook' = h
         /\ \A i \in 1..Len(hooks) : i < Len(hooks) => hooks'[i] = hooks[i]
<1>1. hooks \in Seq(HookType) /\ Len(hooks) \in Nat /\ Len(hooks) > 0
  BY Lasts DEF Inv, ShapeInv
<1>2. /\ hooks' \in Seq(HookType) /\ Len(hooks') = Len(hooks) /\ hooks' # << >>
      /\ hooks'[Len(hooks)] = h
      /\ \A i \in 1..Len(hooks) : i < Len(hooks) => hooks'[i] = hooks[i]
  BY <1>1, SetLast
<1>3. Hook' = h
  BY <1>2 DEF Hook
<1> DEFINE n == Len(hooks)
<1>4. /\ \A i \in 1..n : hooks[i].level \in 1..Len(parsers)
      /\ \A i, j \in 1..n : i <= j => hooks[i].level <= hooks[j].level
      /\ \A i \in 1..n : i < n => hooks[i].waits # "no"
      /\ n \in Nat /\ n > 0
      /\ Len(hooks') = n /\ hooks'[n] = h /\ h.level = hooks[n].level
      /\ \A i \in 1..n : i < n => hooks'[i] = hooks[i]
  <2>1. /\ \A i \in 1..n : hooks[i].level \in 1..Len(parsers)
        /\ \A i, j \in 1..n : i <= j => hooks[i].level <= hooks[j].level
    BY DEF Inv, NestingInv
  <2>2. \A i \in 1..n : i < n => hooks[i].waits # "no"
    BY <1>1 DEF Inv, NestingInv
  <2>3. Len(hooks') = n /\ hooks'[n] = h /\ h.level = hooks[n].level
    BY <1>2 DEF Hook
  <2> QED
    BY <1>1, <1>2, <2>1, <2>2, <2>3
<1> HIDE DEF n
<1>5. \A i \in 1..n : hooks'[i].level = hooks[i].level
  <2> SUFFICES ASSUME NEW i \in 1..n PROVE hooks'[i].level = hooks[i].level
    OBVIOUS
  <2>1. CASE i = n
    BY <2>1, <1>4
  <2>2. CASE i < n
    BY <2>2, <1>4
  <2> QED
    BY <2>1, <2>2, <1>4
<1>6. \A i \in 1..n : hooks'[i].waits = "no" <=> (inHook' /\ i = n)
  BY <1>4
<1>7. NestingInv'
  BY <1>2, <1>3, <1>4, <1>5, <1>6 DEF NestingInv
<1>8. LinkedInv'
  <2>1. \A i \in 1..n : nextPlugin[hooks[i].plugin] # Unset
    BY DEF Inv, LinkedInv, n
  <2>2. \A i \in 1..n : nextPlugin[hooks'[i].plugin] # Unset
    BY <1>4, <2>1
  <2> QED
    BY <1>4, <2>2 DEF Inv, LinkedInv
<1> QED
  BY <1>2, <1>3, <1>7, <1>8

\* Hooks end, and some of their parsers may.
LEMMA CutHooks ==
  ASSUME Inv, inHook' = FALSE, UNCHANGED <<chainHead, nextPlugin>>,
         NEW n \in 0..Len(hooks), n < Len(hooks), hooks' = SubSeq(hooks, 1, n),
         Len(parsers') \in Nat, \A i \in 1..n : hooks[i].level <= Len(parsers')
  PROVE  /\ hooks' \in Seq(HookType) /\ NestingInv' /\ LinkedInv'
         /\ Len(hooks') = n /\ \A i \in 1..n : hooks'[i] = hooks[i]
         /\ ShadowInv => ~Holding' /\ \A i \in 1..n : hooks'[i].waits = "pull"
<1>1. hooks \in Seq(HookType) /\ Len(hooks) \in Nat
  BY Lasts DEF Inv, ShapeInv
<1>2. hooks' \in Seq(HookType) /\ Len(hooks') = n /\ \A i \in 1..n : hooks'[i] = hooks[i]
  BY <1>1, CutLast
<1>3. NestingInv'
  <2>1. \A i \in 1..n : /\ hooks'[i].level = hooks[i].level
                        /\ hooks'[i].waits = hooks[i].waits
    BY <1>2
  <2>2. \A i, j \in 1..n : i <= j => hooks[i].level <= hooks[j].level
    BY <1>1 DEF Inv, NestingInv
  <2>3. \A i \in 1..n : hooks[i].waits # "no"
    BY <1>1 DEF Inv, NestingInv
  <2>4. \A i \in 1..n : hooks[i].level \in 1..Len(parsers')
    BY <1>1, Lasts DEF Inv, NestingInv
  <2> QED
    BY <1>2, <2>1, <2>2, <2>3, <2>4 DEF NestingInv
<1>4. LinkedInv'
  BY <1>1, <1>2 DEF Inv, LinkedInv
<1>5. ASSUME ShadowInv
      PROVE  ~Holding' /\ \A i \in 1..n : hooks'[i].waits = "pull"
  <2>1. \A i \in 1..n : hooks[i].waits = "pull"
    BY <1>1, <1>5 DEF ShadowInv
  <2>2. hooks' # << >> => Hook'.waits = "pull"
    <3>1. hooks' # << >> => n \in 1..n /\ Hook' = hooks'[n]
      BY <1>2, EmptySeq DEF Hook
    <3> QED
      BY <1>2, <2>1, <3>1
  <2> QED
    BY <1>2, <2>1, <2>2 DEF Holding
<1> QED
  BY <1>2, <1>3, <1>4, <1>5

\* A text moves on: the innermost one.
LEMMA SetGuest ==
  ASSUME ShapeInv, parsers # << >>, NEW q \in ParserPlaces,
         parsers' = [parsers EXCEPT ![Len(parsers)] = q]
  PROVE  /\ parsers' \in Seq(ParserPlaces) /\ Len(parsers') = Len(parsers)
         /\ parsers'[Len(parsers)] = q
         /\ \A i \in 1..Len(parsers) : i < Len(parsers) => parsers'[i] = parsers[i]
BY SetLast DEF ShapeInv

LEMMA SetPlace ==
  ASSUME ShapeInv, parsers # << >>, NEW n \in At,
         place' = [place EXCEPT ![Len(parsers)] = n]
  PROVE  /\ place' \in Seq(At) /\ Len(place') = Len(parsers)
         /\ place'[Len(parsers)] = n
         /\ \A i \in 1..Len(parsers) : i < Len(parsers) => place'[i] = place[i]
<1>1. /\ place \in Seq(At) /\ Len(parsers) \in Nat /\ Len(place) = Len(parsers)
      /\ place # << >> /\ place' = [place EXCEPT ![Len(place)] = n]
  <2>1. place \in Seq(At) /\ Len(place) = Len(parsers) /\ parsers \in Seq(ParserPlaces)
    BY DEF ShapeInv
  <2>2. Len(parsers) # 0 /\ Len(parsers) \in Nat
    BY <2>1, EmptySeq, LenProperties
  <2> QED
    BY <2>1, <2>2, EmptySeq
<1>2. /\ place' \in Seq(At) /\ Len(place') = Len(place)
      /\ place'[Len(place)] = n
      /\ \A i \in 1..Len(place) : i < Len(place) => place'[i] = place[i]
  BY <1>1, SetLast
<1> QED
  BY <1>1, <1>2

\* While a plugin works there is a hook, of the innermost parser, that holds the shadow.
LEMMA InPlugin ==
  ASSUME ShapeInv, NestingInv, inHook
  PROVE  /\ hooks # << >> /\ parsers # << >> /\ Hook \in HookType
         /\ Hook.level = Len(parsers) /\ Hook.waits = "no" /\ Holding
         /\ Guest \in ParserPlaces
<1>1. hooks # << >> /\ Hook.level = Len(parsers)
  BY DEF NestingInv
<1>2. Len(hooks) \in 1..Len(hooks)
  BY <1>1, Lasts
<1>3. Hook \in HookType /\ Hook.waits = "no" /\ Hook.level \in 1..Len(parsers)
  BY <1>2, Lasts DEF NestingInv, Hook
<1>4. Len(parsers) \in 1..Len(parsers) /\ parsers \in Seq(ParserPlaces)
  BY <1>1, <1>3 DEF ShapeInv
<1>5. parsers # << >> /\ Guest \in ParserPlaces
  BY <1>4, Lasts, EmptySeq DEF Guest, Level
<1> QED
  BY <1>1, <1>3, <1>5 DEF Holding

-------------------------------------------------------------------------------
(* Steps of a plugin.                                                      *)

\* The texts and the hooks stay, with what is linked.
LEMMA WrapKeeps ==
  ASSUME Inv, NEW p \in Plugins, WrapKeywordPlugin(p)
  PROVE  Inv' /\ (ShadowInv => ShadowInv')
<1>1. /\ nextPlugin[p] = Unset /\ chainHead' = p
      /\ nextPlugin' = [nextPlugin EXCEPT ![p] = IF chainHead = Unset THEN Decline
                                                 ELSE chainHead]
      /\ UNCHANGED <<parsers, pulled, hooks, inHook, place>>
  BY DEF WrapKeywordPlugin
<1>2. ShapeInv'
  BY <1>1 DEF Inv, ShapeInv
<1>3. NestingInv'
  BY <1>1 DEF Inv, NestingInv, Hook
<1>4. \A q \in Plugins : nextPlugin[q] # Unset => nextPlugin'[q] = nextPlugin[q]
  BY <1>1 DEF Inv, ShapeInv
<1>5. nextPlugin'[p] = (IF chainHead = Unset THEN Decline ELSE chainHead)
  BY <1>1 DEF Inv, ShapeInv
<1>6. LinkedInv'
  <2>1. nextPlugin'[chainHead'] # Unset
    BY <1>1, <1>5, ParserAssumption DEF Inv, ShapeInv
  <2>2. ASSUME NEW q \in Plugins, nextPlugin'[q] \in Plugins
        PROVE  nextPlugin'[nextPlugin'[q]] # Unset
    <3>1. CASE q = p
      <4>1. nextPlugin'[q] = chainHead
        BY <1>5, <2>2, <3>1, ParserAssumption
      <4> QED
        BY <1>4, <2>2, <4>1 DEF Inv, LinkedInv
    <3>2. CASE q # p
      <4>1. nextPlugin'[q] = nextPlugin[q]
        BY <1>1, <3>2 DEF Inv, ShapeInv
      <4> QED
        BY <1>4, <2>2, <4>1 DEF Inv, LinkedInv
    <3> QED
      BY <3>1, <3>2
  <2>3. \A i \in 1..Len(hooks) : nextPlugin'[hooks[i].plugin] # Unset
    <3>1. \A i \in 1..Len(hooks) : hooks[i].plugin \in Plugins
      BY Lasts DEF Inv, HookType
    <3> QED
      BY <1>4, <3>1 DEF Inv, LinkedInv
  <2> QED
    BY <1>1, <2>1, <2>2, <2>3 DEF LinkedInv
<1>7. ShadowInv => ShadowInv'
  BY <1>1 DEF ShadowInv, Holding, Hook
<1> QED
  BY <1>2, <1>3, <1>6, <1>7 DEF Inv

LEMMA AskKeeps == ASSUME Inv, AskNext PROVE Inv' /\ (ShadowInv => ShadowInv')
<1> DEFINE next == nextPlugin[Hook.plugin]
<1>1. /\ inHook /\ next # Decline
      /\ hooks' = [hooks EXCEPT ![Len(hooks)].plugin = next,
                                ![Len(hooks)].asked = Append(@, next)]
      /\ UNCHANGED <<parsers, pulled, inHook, chainHead, nextPlugin, place>>
  BY DEF AskNext
<1>2. PICK h \in HookType : h = Hook
  BY <1>1, InPlugin DEF Inv
<1>3. h.level = Len(parsers) /\ h.waits = "no" /\ hooks # << >> /\ Holding
  BY <1>1, <1>2, InPlugin DEF Inv
<1>4. next \in Plugins /\ nextPlugin[next] # Unset
  <2>1. Len(hooks) \in 1..Len(hooks)
    BY <1>3, Lasts DEF Inv
  <2>2. next # Unset /\ h.plugin \in Plugins
    BY <1>2, <2>1 DEF Inv, LinkedInv, Hook, HookType
  <2> QED
    BY <1>1, <1>2, <2>2 DEF Inv, ShapeInv, LinkedInv
<1> DEFINE k == [level |-> h.level, plugin |-> next, asked |-> Append(h.asked, next),
                 due |-> h.due, waits |-> "no"]
<1>5. k \in HookType
  BY <1>4, AppendProperties DEF HookType
<1>6. hooks' = [hooks EXCEPT ![Len(hooks)] = k]
  BY <1>1, <1>2, <1>3 DEF Hook, HookType
<1> HIDE DEF k
<1>7. k.level = Len(parsers) /\ k.waits = "no" /\ k.plugin = next
  BY <1>3 DEF k
<1>8. /\ hooks' \in Seq(HookType) /\ NestingInv' /\ LinkedInv'
      /\ Len(hooks') = Len(hooks) /\ hooks' # << >> /\ Hook' = k
      /\ \A i \in 1..Len(hooks) : i < Len(hooks) => hooks'[i] = hooks[i]
  BY <1>1, <1>2, <1>3, <1>4, <1>5, <1>6, <1>7, SetHook DEF Inv, ShapeInv
<1>9. ShapeInv'
  BY <1>1, <1>8 DEF Inv, ShapeInv
<1>10. ShadowInv => ShadowInv'
  BY <1>1, <1>2, <1>3, <1>7, <1>8 DEF ShadowInv, Holding
<1> QED
  BY <1>8, <1>9, <1>10 DEF Inv
\* The guest goes on for the hook; the text may move to where the shadow is.
LEMMA LendEffect ==
  ASSUME Inv, inHook, NEW w \in {"pull", "call"}, Lend(w),
         UNCHANGED <<chainHead, nextPlugin>>, Len(parsers') = Len(parsers)
  PROVE  /\ hooks' \in Seq(HookType) /\ NestingInv' /\ LinkedInv'
         /\ Len(hooks') = Len(hooks) /\ hooks' # << >>
         /\ Hook'.waits = w /\ Hook'.level = Len(parsers)
         /\ \A i \in 1..Len(hooks) : i < Len(hooks) => hooks'[i] = hooks[i]
<1>1. inHook' = FALSE /\ hooks' = [hooks EXCEPT ![Len(hooks)].waits = w]
  BY DEF Lend
<1>2. PICK h \in HookType : h = Hook
  BY InPlugin DEF Inv
<1>3. h.level = Len(parsers) /\ hooks # << >>
  BY <1>2, InPlugin DEF Inv
<1> DEFINE k == [level |-> h.level, plugin |-> h.plugin, asked |-> h.asked,
                 due |-> h.due, waits |-> w]
<1>4. k \in HookType
  BY DEF HookType
<1>5. hooks' = [hooks EXCEPT ![Len(hooks)] = k]
  <2>1. [h EXCEPT !.waits = w] = k
    BY DEF HookType
  <2>2. hooks[Len(hooks)] = h
    BY <1>2 DEF Hook
  <2> QED
    BY <1>1, <2>1, <2>2
<1>6. k.level = Len(parsers) /\ k.waits = w /\ k.plugin = h.plugin
  BY <1>3
<1> HIDE DEF k
<1>7. nextPlugin[k.plugin] # Unset
  <2>1. Len(hooks) \in 1..Len(hooks)
    BY <1>3, Lasts DEF Inv
  <2> QED
    BY <1>2, <1>6, <2>1 DEF Inv, LinkedInv, Hook
<1>8. /\ hooks' \in Seq(HookType) /\ NestingInv' /\ LinkedInv'
      /\ Len(hooks') = Len(hooks) /\ hooks' # << >> /\ Hook' = k
      /\ \A i \in 1..Len(hooks) : i < Len(hooks) => hooks'[i] = hooks[i]
  BY <1>1, <1>2, <1>3, <1>4, <1>5, <1>6, <1>7, SetHook
<1> QED
  BY <1>6, <1>8

LEMMA PushedEffect ==
  ASSUME Inv, inHook, parsers' = Pushed
  PROVE  /\ parsers' \in Seq(ParserPlaces) /\ Len(parsers') = Len(parsers)
         /\ parsers'[Len(parsers)] = [text |-> Guest.text, pos |-> pulled.pos]
         /\ \A i \in 1..Len(parsers) : i < Len(parsers) => parsers'[i] = parsers[i]
<1>1. PICK q \in ParserPlaces : q = Guest
  BY InPlugin DEF Inv
<1> DEFINE r == [text |-> q.text, pos |-> pulled.pos]
<1>2. r \in ParserPlaces
  BY DEF Inv, ShapeInv, ParserPlaces
<1>3. parsers' = [parsers EXCEPT ![Len(parsers)] = r]
  <2>1. [q EXCEPT !.pos = pulled.pos] = r
    BY DEF ParserPlaces
  <2>2. parsers[Len(parsers)] = q
    BY <1>1 DEF Guest, Level
  <2>3. parsers' = [parsers EXCEPT ![Len(parsers)].pos = pulled.pos]
    BY DEF Pushed, Level
  <2> QED
    BY <2>1, <2>2, <2>3
<1> HIDE DEF r
<1>4. parsers # << >>
  BY InPlugin DEF Inv
<1>5. /\ parsers' \in Seq(ParserPlaces) /\ Len(parsers') = Len(parsers)
      /\ parsers'[Len(parsers)] = r
      /\ \A i \in 1..Len(parsers) : i < Len(parsers) => parsers'[i] = parsers[i]
  BY <1>2, <1>3, <1>4, SetGuest DEF Inv
<1> QED
  BY <1>1, <1>5 DEF r

\* Once pushed, every text is where it was left.
LEMMA PushedPlaces ==
  ASSUME Inv, ShadowInv, inHook, parsers' = Pushed, place' = place
  PROVE  \A i \in 1..Len(parsers) : parsers'[i].pos = place'[i]
<1>1. Holding /\ Hook.level = Len(parsers) /\ Len(parsers) \in Nat
  BY InPlugin, Lasts DEF Inv
<1>2. pulled.pos = place[Len(parsers)]
  BY <1>1 DEF ShadowInv
<1>3. \A i \in 1..Len(parsers) : i # Len(parsers) => parsers[i].pos = place[i]
  BY <1>1 DEF ShadowInv
<1>4. parsers'[Len(parsers)].pos = pulled.pos
  BY PushedEffect
<1> QED
  BY <1>1, <1>2, <1>3, <1>4, PushedEffect

LEMMA ParseKeeps == ASSUME Inv, ParseMore PROVE Inv' /\ (ShadowInv => ShadowInv')
<1>1. /\ inHook /\ parsers' = Pushed /\ Lend("pull") /\ inHook' = FALSE
      /\ UNCHANGED <<pulled, chainHead, nextPlugin, place>>
  BY DEF ParseMore, Lend
<1>2. /\ parsers' \in Seq(ParserPlaces) /\ Len(parsers') = Len(parsers)
  BY <1>1, PushedEffect
<1>3. /\ hooks' \in Seq(HookType) /\ NestingInv' /\ LinkedInv'
      /\ Len(hooks') = Len(hooks) /\ hooks' # << >>
      /\ Hook'.waits = "pull" /\ Hook'.level = Len(parsers)
      /\ \A i \in 1..Len(hooks) : i < Len(hooks) => hooks'[i] = hooks[i]
  BY <1>1, <1>2, LendEffect
<1>4. ShapeInv'
  BY <1>1, <1>2, <1>3 DEF Inv, ShapeInv
<1>5. ASSUME ShadowInv PROVE ShadowInv'
  <2>1. \A i \in 1..Len(parsers) : parsers'[i].pos = place'[i]
    BY <1>1, <1>5, PushedPlaces
  <2>2. ~Holding'
    BY <1>3 DEF Holding
  <2> QED
    BY <1>2, <1>3, <1>5, <2>1, <2>2 DEF ShadowInv
<1> QED
  BY <1>3, <1>4, <1>5 DEF Inv

LEMMA CallKeeps == ASSUME Inv, CallPerl PROVE Inv' /\ (ShadowInv => ShadowInv')
<1>1. /\ inHook /\ Lend("call") /\ inHook' = FALSE
      /\ UNCHANGED <<parsers, pulled, chainHead, nextPlugin, place>>
  BY DEF CallPerl, Lend
<1>2. /\ hooks' \in Seq(HookType) /\ NestingInv' /\ LinkedInv'
      /\ Len(hooks') = Len(hooks) /\ hooks' # << >>
      /\ Hook'.waits = "call" /\ Hook'.level = Len(parsers)
      /\ \A i \in 1..Len(hooks) : i < Len(hooks) => hooks'[i] = hooks[i]
  BY <1>1, LendEffect
<1>3. ShapeInv'
  BY <1>1, <1>2 DEF Inv, ShapeInv
<1>4. Holding /\ Hook.level = Len(parsers)
  BY <1>1, InPlugin DEF Inv
<1>5. ShadowInv => ShadowInv'
  BY <1>1, <1>2, <1>4 DEF ShadowInv, Holding
<1> QED
  BY <1>2, <1>3, <1>5 DEF Inv

\* Back from the guest: what it did to the text is fetched, if it was to parse.
LEMMA BackKeeps == ASSUME Inv, BackInHook PROVE Inv' /\ (ShadowInv => ShadowInv')
<1>1. /\ ~inHook /\ hooks # << >> /\ Len(parsers) = Hook.level
      /\ hooks' = [hooks EXCEPT ![Len(hooks)].waits = "no"]
      /\ inHook' = TRUE
      /\ UNCHANGED <<parsers, chainHead, nextPlugin, place>>
  BY DEF BackInHook, Level
<1>2. Len(hooks) \in 1..Len(hooks)
  BY <1>1, Lasts DEF Inv
<1>3. PICK h \in HookType : h = Hook
  BY <1>2, Lasts DEF Hook, Inv
<1> DEFINE k == [level |-> h.level, plugin |-> h.plugin, asked |-> h.asked,
                 due |-> h.due, waits |-> "no"]
<1>4. k \in HookType
  BY DEF HookType
<1>5. hooks' = [hooks EXCEPT ![Len(hooks)] = k]
  <2>1. [h EXCEPT !.waits = "no"] = k
    BY DEF HookType
  <2>2. hooks[Len(hooks)] = h
    BY <1>3 DEF Hook
  <2> QED
    BY <1>1, <2>1, <2>2
<1>6. k.level = Len(parsers) /\ k.waits = "no" /\ k.plugin = h.plugin /\ k.level = Hook.level
  BY <1>1, <1>3
<1> HIDE DEF k
<1>7. nextPlugin[k.plugin] # Unset
  BY <1>2, <1>3, <1>6 DEF Inv, LinkedInv, Hook
<1>8. /\ hooks' \in Seq(HookType) /\ NestingInv' /\ LinkedInv'
      /\ Len(hooks') = Len(hooks) /\ hooks' # << >> /\ Hook' = k
      /\ \A i \in 1..Len(hooks) : i < Len(hooks) => hooks'[i] = hooks[i]
  BY <1>1, <1>4, <1>5, <1>6, <1>7, SetHook
<1>9. Len(parsers) \in 1..Len(parsers)
  BY <1>1, <1>2 DEF Inv, NestingInv, Hook
<1>10. pulled' \in ParserPlaces
  <2>1. parsers[Len(parsers)] \in ParserPlaces
    BY <1>9, Lasts DEF Inv
  <2> QED
    BY <2>1 DEF BackInHook, PullFrom, Guest, Level, ParserPlaces, Inv, ShapeInv
<1>11. ShapeInv'
  BY <1>1, <1>8, <1>10 DEF Inv, ShapeInv
<1>12. ASSUME ShadowInv PROVE ShadowInv'
  <2>1. pulled' = [text |-> parsers[Len(parsers)].text, pos |-> place[Len(parsers)]]
    <3>1. CASE Hook.waits = "pull"
      <4>1. parsers[Len(parsers)].pos = place[Len(parsers)]
        BY <1>9, <1>12, <3>1 DEF ShadowInv, Holding
      <4> QED
        BY <3>1, <4>1 DEF BackInHook, PullFrom, Guest, Level
    <3>2. CASE Hook.waits # "pull"
      BY <1>1, <1>12, <3>2 DEF BackInHook, ShadowInv, Holding
    <3> QED
      BY <3>1, <3>2
  <2>2. \A i \in 1..Len(parsers) : i # Len(parsers) => parsers[i].pos = place[i]
    BY <1>1, <1>12 DEF ShadowInv
  <2>3. \A i \in 1..Len(hooks) : i < Len(hooks) => hooks'[i].waits = "pull"
    BY <1>8, <1>12 DEF ShadowInv
  <2> QED
    BY <1>1, <1>6, <1>8, <2>1, <2>2, <2>3 DEF ShadowInv, Holding
<1> QED
  BY <1>8, <1>11, <1>12 DEF Inv

\* ClaimWord, DeclineWord.
LEMMA EndKeeps ==
  ASSUME Inv, inHook, parsers' = Pushed, EndHook,
         UNCHANGED <<pulled, chainHead, nextPlugin, place>>
  PROVE  Inv' /\ (ShadowInv => ShadowInv')
<1> DEFINE n == Len(hooks) - 1
<1>1. Len(hooks) \in 1..Len(hooks) /\ Len(hooks) \in Nat /\ Len(parsers) \in Nat
  BY InPlugin, Lasts DEF Inv
<1>2. hooks' = SubSeq(hooks, 1, n) /\ inHook' = FALSE
  BY DEF EndHook, Front
<1>3. n \in 0..Len(hooks) /\ n < Len(hooks)
  BY <1>1
<1>4. parsers' \in Seq(ParserPlaces) /\ Len(parsers') = Len(parsers)
  BY PushedEffect
<1>5. \A i \in 1..n : hooks[i].level <= Len(parsers')
  BY <1>1, <1>4 DEF Inv, NestingInv
<1> HIDE DEF n
<1>6. /\ hooks' \in Seq(HookType) /\ NestingInv' /\ LinkedInv'
      /\ Len(hooks') = n /\ \A i \in 1..n : hooks'[i] = hooks[i]
      /\ ShadowInv => ~Holding' /\ \A i \in 1..n : hooks'[i].waits = "pull"
  BY <1>1, <1>2, <1>3, <1>4, <1>5, CutHooks
<1>7. ShapeInv'
  BY <1>2, <1>4, <1>6 DEF Inv, ShapeInv
<1>8. ShadowInv => ShadowInv'
  BY <1>4, <1>6, PushedPlaces DEF ShadowInv
<1> QED
  BY <1>6, <1>7, <1>8 DEF Inv

LEMMA CroakKeeps == ASSUME Inv, CroakInHook PROVE Inv' /\ (ShadowInv => ShadowInv')
<1> DEFINE m == Len(parsers) - 1
<1>1. /\ hooks # << >> /\ Hook.level = Len(parsers) /\ inHook /\ Holding
      /\ Len(hooks) \in Nat /\ Len(hooks) > 0 /\ DOMAIN hooks = 1..Len(hooks)
      /\ Len(parsers) \in Nat /\ Len(parsers) > 0
  BY InPlugin, Lasts, LenProperties, EmptySeq DEF CroakInHook, Inv, ShapeInv
<1>2. /\ parsers' = SubSeq(parsers, 1, m) /\ place' = SubSeq(place, 1, m)
      /\ inHook' = FALSE
      /\ UNCHANGED <<pulled, chainHead, nextPlugin>>
  BY <1>1 DEF CroakInHook
<1>3. PICK n \in 0..(Len(hooks) - 1) :
        /\ \A i \in 1..Len(hooks) : hooks[i].level <= m <=> i <= n
        /\ hooks' = SubSeq(hooks, 1, n)
  BY <1>1 DEF CroakInHook
<1>4. m \in 0..Len(parsers) /\ m < Len(parsers)
  BY <1>1
<1> HIDE DEF m
<1>5. /\ parsers' \in Seq(ParserPlaces) /\ Len(parsers') = m
      /\ \A i \in 1..m : parsers'[i] = parsers[i]
  BY <1>2, <1>4, CutLast DEF Inv, ShapeInv
<1>6. /\ place' \in Seq(At) /\ Len(place') = m
      /\ \A i \in 1..m : place'[i] = place[i]
  BY <1>2, <1>4, CutLast DEF Inv, ShapeInv
<1>7. n \in 0..Len(hooks) /\ n < Len(hooks) /\ Len(parsers') \in Nat
      /\ \A i \in 1..n : hooks[i].level <= Len(parsers')
  BY <1>1, <1>3, <1>4, <1>5
<1>8. /\ hooks' \in Seq(HookType) /\ NestingInv' /\ LinkedInv'
      /\ Len(hooks') = n /\ \A i \in 1..n : hooks'[i] = hooks[i]
      /\ ShadowInv => ~Holding' /\ \A i \in 1..n : hooks'[i].waits = "pull"
  BY <1>2, <1>3, <1>7, CutHooks
<1>9. ShapeInv'
  BY <1>2, <1>5, <1>6, <1>8 DEF Inv, ShapeInv
<1>10. ASSUME ShadowInv PROVE ShadowInv'
  <2>1. \A i \in 1..m : parsers'[i].pos = place'[i]
    BY <1>1, <1>4, <1>5, <1>6, <1>10 DEF ShadowInv
  <2> QED
    BY <1>5, <1>8, <1>10, <2>1 DEF ShadowInv
<1> QED
  BY <1>8, <1>9, <1>10 DEF Inv

LEMMA BufptrKeeps ==
  ASSUME Inv, NEW n \in At, SetBufptr(n)
  PROVE  Inv' /\ (ShadowInv => ShadowInv')
<1>1. /\ inHook /\ pulled' = [pulled EXCEPT !.pos = n]
      /\ place' = [place EXCEPT ![Len(parsers)] = n]
      /\ UNCHANGED <<parsers, hooks, inHook, chainHead, nextPlugin>>
  BY DEF SetBufptr, Level
<1>2. parsers # << >> /\ Holding /\ Hook.level = Len(parsers) /\ Len(parsers) \in Nat
  BY <1>1, InPlugin, Lasts DEF Inv
<1>3. /\ place' \in Seq(At) /\ Len(place') = Len(parsers)
      /\ place'[Len(parsers)] = n
      /\ \A i \in 1..Len(parsers) : i < Len(parsers) => place'[i] = place[i]
  BY <1>1, <1>2, SetPlace DEF Inv
<1>4. pulled' = [text |-> pulled.text, pos |-> n] /\ pulled' \in ParserPlaces
  BY <1>1 DEF Inv, ShapeInv, ParserPlaces
<1>5. ShapeInv' /\ NestingInv' /\ LinkedInv'
  BY <1>1, <1>3, <1>4 DEF Inv, ShapeInv, NestingInv, LinkedInv, Hook
<1>6. ASSUME ShadowInv PROVE ShadowInv'
  <2>1. Holding' /\ Hook' = Hook
    BY <1>1, <1>2 DEF Holding, Hook
  <2>2. pulled.text = parsers[Len(parsers)].text
    BY <1>2, <1>6 DEF ShadowInv
  <2>3. \A i \in 1..Len(parsers) : i # Len(parsers) => parsers[i].pos = place'[i]
    BY <1>2, <1>3, <1>6 DEF ShadowInv
  <2> QED
    BY <1>1, <1>2, <1>3, <1>4, <1>6, <2>1, <2>2, <2>3 DEF ShadowInv
<1> QED
  BY <1>5, <1>6 DEF Inv

LEMMA LexKeeps ==
  ASSUME Inv, NEW x \in Texts, NEW n \in At, Lex(x, n)
  PROVE  Inv' /\ (ShadowInv => ShadowInv')
<1> DEFINE q == [text |-> x, pos |-> n]
<1>1. /\ inHook /\ parsers' = [parsers EXCEPT ![Len(parsers)] = q]
      /\ place' = [place EXCEPT ![Len(parsers)] = n]
      /\ pulled' = q
      /\ UNCHANGED <<hooks, inHook, chainHead, nextPlugin>>
  BY DEF Lex, Level, PullFrom
<1>2. parsers # << >> /\ Holding /\ Hook.level = Len(parsers) /\ Len(parsers) \in Nat
  BY <1>1, InPlugin, Lasts DEF Inv
<1>3. q \in ParserPlaces /\ q.text = x /\ q.pos = n
  BY DEF ParserPlaces
<1> HIDE DEF q
<1>4. /\ place' \in Seq(At) /\ Len(place') = Len(parsers)
      /\ place'[Len(parsers)] = n
      /\ \A i \in 1..Len(parsers) : i < Len(parsers) => place'[i] = place[i]
  BY <1>1, <1>2, SetPlace DEF Inv
<1>5. /\ parsers' \in Seq(ParserPlaces) /\ Len(parsers') = Len(parsers)
      /\ parsers'[Len(parsers)] = q
      /\ \A i \in 1..Len(parsers) : i < Len(parsers) => parsers'[i] = parsers[i]
  BY <1>1, <1>2, <1>3, SetGuest DEF Inv
<1>6. ShapeInv' /\ NestingInv' /\ LinkedInv'
  BY <1>1, <1>3, <1>4, <1>5 DEF Inv, ShapeInv, NestingInv, LinkedInv, Hook
<1>7. ASSUME ShadowInv PROVE ShadowInv'
  <2>1. Holding' /\ Hook' = Hook
    BY <1>1, <1>2 DEF Holding, Hook
  <2>2. \A i \in 1..Len(parsers) : i # Len(parsers) => parsers'[i].pos = place'[i]
    BY <1>2, <1>4, <1>5, <1>7 DEF ShadowInv
  <2>3. pulled' = [text |-> parsers'[Len(parsers)].text, pos |-> place'[Len(parsers)]]
    BY <1>1, <1>3, <1>4, <1>5 DEF q
  <2> QED
    BY <1>1, <1>2, <1>5, <1>7, <2>1, <2>2, <2>3 DEF ShadowInv
<1> QED
  BY <1>6, <1>7 DEF Inv

\* A word comes up.  Under Confined nobody else holds the shadow then.
LEMMA KeywordKeeps ==
  ASSUME Inv, KeywordHook
  PROVE  Inv' /\ (Confined /\ ShadowInv => ShadowInv')
<1> DEFINE h == [level |-> Len(parsers), plugin |-> chainHead, asked |-> <<chainHead>>,
                 due |-> {p \in Plugins : nextPlugin[p] # Unset}, waits |-> "no"]
<1>1. /\ ~inHook /\ Len(parsers) > 0 /\ chainHead # Unset
      /\ hooks # << >> => Hook.waits = "pull" \/ ~Confined
      /\ hooks' = Append(hooks, h)
      /\ inHook' = TRUE
      /\ UNCHANGED <<parsers, chainHead, nextPlugin, place>>
  BY DEF KeywordHook, Level
<1>2. chainHead \in Plugins /\ Len(parsers) \in Nat /\ Len(hooks) \in Nat
  BY <1>1, Lasts DEF Inv, ShapeInv
<1>3. h \in HookType
  BY <1>2 DEF HookType
<1>4. h.level = Len(parsers) /\ h.plugin = chainHead /\ h.waits = "no"
  OBVIOUS
<1> HIDE DEF h
<1>5. /\ hooks' \in Seq(HookType) /\ hooks' # << >> /\ Len(hooks') = Len(hooks) + 1
      /\ \A i \in 1..Len(hooks) : hooks'[i] = hooks[i]
      /\ hooks'[Len(hooks) + 1] = h
  BY <1>1, <1>3, AppendProperties DEF Inv, ShapeInv
<1>6. Hook' = h
  BY <1>5 DEF Hook
<1>7. Guest \in ParserPlaces
  BY <1>1, <1>2, Lasts DEF Inv, Guest, Level
<1>8. pulled' = [text |-> Guest.text, pos |-> Guest.pos] /\ pulled' \in ParserPlaces
  BY <1>7 DEF KeywordHook, PullFrom, ParserPlaces
<1>9. ShapeInv'
  BY <1>1, <1>5, <1>8 DEF Inv, ShapeInv
<1>10. NestingInv'
  <2>1. \A i \in 1..Len(hooks) : hooks[i].level \in 1..Len(parsers)
    BY DEF Inv, NestingInv
  <2>2. \A i \in 1..Len(hooks) : hooks[i].waits # "no"
    BY <1>1 DEF Inv, NestingInv
  <2>3. \A i, j \in 1..Len(hooks) : i <= j => hooks[i].level <= hooks[j].level
    BY DEF Inv, NestingInv
  <2>4. \A i \in 1..Len(hooks') : hooks'[i].level \in 1..Len(parsers)
    BY <1>1, <1>2, <1>4, <1>5, <2>1
  <2>5. \A i \in 1..Len(hooks') : hooks'[i].waits = "no" <=> i = Len(hooks')
    BY <1>2, <1>4, <1>5, <2>2
  <2>6. \A i, j \in 1..Len(hooks') : i <= j => hooks'[i].level <= hooks'[j].level
    <3> SUFFICES ASSUME NEW i \in 1..Len(hooks'), NEW j \in 1..Len(hooks'), i <= j
                 PROVE  hooks'[i].level <= hooks'[j].level
      OBVIOUS
    <3>1. CASE j <= Len(hooks)
      BY <1>2, <1>5, <2>3, <3>1
    <3>2. CASE j = Len(hooks) + 1
      BY <1>2, <1>4, <1>5, <2>4, <3>2
    <3> QED
      BY <1>2, <1>5, <3>1, <3>2
  <2> QED
    BY <1>1, <1>4, <1>5, <1>6, <2>4, <2>5, <2>6 DEF NestingInv
<1>11. LinkedInv'
  <2>1. \A i \in 1..Len(hooks') : nextPlugin[hooks'[i].plugin] # Unset
    BY <1>2, <1>4, <1>5 DEF Inv, LinkedInv
  <2> QED
    BY <1>1, <2>1 DEF Inv, LinkedInv
<1>12. ASSUME Confined, ShadowInv PROVE ShadowInv'
  <2>1. ~Holding
    BY <1>1, <1>12 DEF Holding
  <2>2. \A i \in 1..Len(hooks) : hooks[i].waits = "pull"
    <3>1. hooks # << >> => Hook.waits = "pull"
      BY <2>1 DEF Holding
    <3>2. Len(hooks) > 0 => hooks[Len(hooks)].waits = "pull"
      BY <3>1, Lasts DEF Hook, Inv
    <3> QED
      BY <1>2, <1>12, <3>2 DEF ShadowInv
  <2>3. \A i \in 1..Len(parsers) : parsers[i].pos = place[i]
    BY <1>12, <2>1 DEF ShadowInv
  <2>4. \A i \in 1..Len(hooks') : i < Len(hooks') => hooks'[i].waits = "pull"
    BY <1>2, <1>5, <2>2
  <2>5. pulled' = [text |-> parsers[Len(parsers)].text, pos |-> place[Len(parsers)]]
    BY <1>1, <1>2, <1>8, <2>3 DEF Guest, Level
  <2> QED
    BY <1>1, <1>4, <1>6, <2>3, <2>4, <2>5 DEF ShadowInv
<1> QED
  BY <1>9, <1>10, <1>11, <1>12 DEF Inv

-------------------------------------------------------------------------------
(* Steps of the guest: hooks and shadow stay.                              *)

LEMMA OpenKeeps ==
  ASSUME Inv, NEW x \in Texts, OpenParser(x)
  PROVE  Inv' /\ (ShadowInv => ShadowInv')
<1> DEFINE q == [text |-> x, pos |-> 0]
           n == Len(parsers)
<1>1. /\ ~inHook /\ parsers' = Append(parsers, q) /\ place' = Append(place, 0)
      /\ UNCHANGED <<pulled, hooks, inHook, chainHead, nextPlugin>>
  BY DEF OpenParser
<1>2. q \in ParserPlaces /\ 0 \in At /\ q.pos = 0
  BY ParserAssumption DEF ParserPlaces, At
<1>3. n \in Nat /\ parsers \in Seq(ParserPlaces) /\ place \in Seq(At) /\ Len(place) = n
  BY Lasts DEF Inv, ShapeInv
<1> HIDE DEF q
<1>4. /\ parsers' \in Seq(ParserPlaces) /\ Len(parsers') = n + 1 /\ parsers'[n + 1] = q
      /\ \A i \in 1..n : parsers'[i] = parsers[i]
  BY <1>1, <1>2, <1>3, AppendProperties
<1>5. /\ place' \in Seq(At) /\ Len(place') = n + 1 /\ place'[n + 1] = 0
      /\ \A i \in 1..n : place'[i] = place[i]
  BY <1>1, <1>2, <1>3, AppendProperties
<1>6. \A i \in 1..Len(hooks) : hooks[i].level \in 1..n
  BY DEF Inv, NestingInv
<1>7. Holding => Hook.level \in 1..n
  BY <1>6, Lasts DEF Holding, Hook, Inv
<1>8. n = Len(parsers)
  OBVIOUS
<1> HIDE DEF n
<1>9. ShapeInv'
  BY <1>1, <1>4, <1>5 DEF Inv, ShapeInv
<1>10. NestingInv' /\ LinkedInv'
  BY <1>1, <1>3, <1>4, <1>6, <1>8 DEF Inv, NestingInv, LinkedInv
<1>11. ASSUME ShadowInv PROVE ShadowInv'
  <2>1. Holding' = Holding /\ Hook' = Hook
    BY <1>1 DEF Holding, Hook
  <2>2. ASSUME NEW i \in 1..(n + 1), ~(Holding /\ i = Hook.level)
        PROVE  parsers'[i].pos = place'[i]
    <3>1. CASE i \in 1..n
      BY <1>4, <1>5, <1>8, <1>11, <2>2, <3>1 DEF ShadowInv
    <3>2. CASE i = n + 1
      BY <1>2, <1>4, <1>5, <3>2
    <3> QED
      BY <1>3, <3>1, <3>2
  <2>3. Holding =>
          pulled' = [text |-> parsers'[Hook.level].text, pos |-> place'[Hook.level]]
    BY <1>1, <1>4, <1>5, <1>7, <1>11 DEF ShadowInv
  <2> QED
    BY <1>1, <1>4, <1>11, <2>1, <2>2, <2>3 DEF ShadowInv
<1> QED
  BY <1>9, <1>10, <1>11 DEF Inv

LEMMA CloseKeeps == ASSUME Inv, CloseParser PROVE Inv' /\ (ShadowInv => ShadowInv')
<1> DEFINE m == Len(parsers) - 1
<1>1. /\ ~inHook /\ Len(parsers) > (IF hooks = << >> THEN 0 ELSE Hook.level)
      /\ parsers' = SubSeq(parsers, 1, m)
      /\ place' = SubSeq(place, 1, Len(place) - 1)
      /\ UNCHANGED <<pulled, hooks, inHook, chainHead, nextPlugin>>
  BY DEF CloseParser, Level, Front
<1>2. /\ parsers \in Seq(ParserPlaces) /\ place \in Seq(At) /\ Len(place) = Len(parsers)
      /\ Len(parsers) \in Nat /\ Len(hooks) \in Nat
  BY Lasts DEF Inv, ShapeInv
<1>3. \A i \in 1..Len(hooks) : hooks[i].level \in 1..m
  <2>1. \A i \in 1..Len(hooks) : /\ hooks[i].level \in 1..Len(parsers)
                                 /\ hooks[i].level <= hooks[Len(hooks)].level
    BY <1>2 DEF Inv, NestingInv
  <2>2. Len(hooks) > 0 => hooks[Len(hooks)].level < Len(parsers)
    BY <1>1, Lasts DEF Hook, Inv
  <2> QED
    BY <1>2, <2>1, <2>2
<1>4. m \in 0..Len(parsers) /\ m < Len(parsers)
  <2>1. Len(parsers) > 0
    <3>1. CASE hooks = << >>
      BY <1>1, <3>1
    <3>2. CASE hooks # << >>
      BY <1>2, <1>3, <3>2, Lasts DEF Inv
    <3> QED
      BY <3>1, <3>2
  <2> QED
    BY <1>2, <2>1
<1>5. /\ parsers' \in Seq(ParserPlaces) /\ Len(parsers') = m
      /\ \A i \in 1..m : parsers'[i] = parsers[i]
  BY <1>1, <1>2, <1>4, CutLast
<1>6. /\ place' \in Seq(At) /\ Len(place') = m
      /\ \A i \in 1..m : place'[i] = place[i]
  BY <1>1, <1>2, <1>4, CutLast
<1>7. Holding => Hook.level \in 1..m
  BY <1>3, Lasts DEF Holding, Hook, Inv
<1> HIDE DEF m
<1>8. ShapeInv'
  BY <1>1, <1>5, <1>6 DEF Inv, ShapeInv
<1>9. NestingInv' /\ LinkedInv'
  BY <1>1, <1>3, <1>5 DEF Inv, NestingInv, LinkedInv
<1>10. ASSUME ShadowInv PROVE ShadowInv'
  <2>1. Holding' = Holding /\ Hook' = Hook
    BY <1>1 DEF Holding, Hook
  <2>2. \A i \in 1..m : ~(Holding /\ i = Hook.level) => parsers'[i].pos = place'[i]
    BY <1>2, <1>4, <1>5, <1>6, <1>10 DEF ShadowInv
  <2>3. Holding =>
          pulled' = [text |-> parsers'[Hook.level].text, pos |-> place'[Hook.level]]
    BY <1>1, <1>5, <1>6, <1>7, <1>10 DEF ShadowInv
  <2> QED
    BY <1>1, <1>5, <1>10, <2>1, <2>2, <2>3 DEF ShadowInv
<1> QED
  BY <1>8, <1>9, <1>10 DEF Inv

\* Tokenize, NextLine: the innermost parser, which no hook holds, goes on.
LEMMA GoOnKeeps ==
  ASSUME Inv, Parsing, NEW q \in ParserPlaces,
         parsers' = [parsers EXCEPT ![Len(parsers)] = q],
         place' = [place EXCEPT ![Len(parsers)] = q.pos],
         UNCHANGED <<pulled, hooks, inHook, chainHead, nextPlugin>>
  PROVE  Inv' /\ (ShadowInv => ShadowInv')
<1>1. Len(parsers) > 0 /\ Len(parsers) \in Nat /\ q.pos \in At
  BY Lasts DEF Parsing, Level, Inv, ParserPlaces
<1>2. parsers # << >>
  BY <1>1, EmptySeq DEF Inv, ShapeInv
<1>3. /\ place' \in Seq(At) /\ Len(place') = Len(parsers)
      /\ place'[Len(parsers)] = q.pos
      /\ \A i \in 1..Len(parsers) : i < Len(parsers) => place'[i] = place[i]
  BY <1>1, <1>2, SetPlace DEF Inv
<1>4. /\ parsers' \in Seq(ParserPlaces) /\ Len(parsers') = Len(parsers)
      /\ parsers'[Len(parsers)] = q
      /\ \A i \in 1..Len(parsers) : i < Len(parsers) => parsers'[i] = parsers[i]
  BY <1>2, SetGuest DEF Inv
<1>5. Holding => Hook.level \in 1..Len(parsers) /\ Hook.level < Len(parsers)
  <2>1. Holding => hooks # << >> /\ Hook.level < Len(parsers)
    BY DEF Holding, Parsing, Level
  <2>2. Holding => Hook.level \in 1..Len(parsers)
    BY Lasts DEF Holding, Inv, NestingInv, Hook
  <2> QED
    BY <2>1, <2>2
<1>6. ShapeInv'
  BY <1>3, <1>4 DEF Inv, ShapeInv
<1>7. NestingInv' /\ LinkedInv'
  BY <1>4 DEF Inv, NestingInv, LinkedInv, Hook
<1>8. ASSUME ShadowInv PROVE ShadowInv'
  <2>1. Holding' = Holding /\ Hook' = Hook
    BY DEF Holding, Hook
  <2>2. ASSUME NEW i \in 1..Len(parsers), ~(Holding /\ i = Hook.level)
        PROVE  parsers'[i].pos = place'[i]
    <3>1. CASE i < Len(parsers)
      BY <1>3, <1>4, <1>8, <2>2, <3>1 DEF ShadowInv
    <3>2. CASE i = Len(parsers)
      BY <1>3, <1>4, <3>2
    <3> QED
      BY <1>1, <3>1, <3>2
  <2>3. Holding =>
          pulled' = [text |-> parsers'[Hook.level].text, pos |-> place'[Hook.level]]
    BY <1>3, <1>4, <1>5, <1>8 DEF ShadowInv
  <2>4. \A i \in 1..Len(hooks') : i < Len(hooks') => hooks'[i].waits = "pull"
    BY <1>8 DEF ShadowInv
  <2> QED
    BY <1>4, <2>1, <2>2, <2>3, <2>4 DEF ShadowInv
<1> QED
  BY <1>6, <1>7, <1>8 DEF Inv

LEMMA ParserStep ==
  ASSUME Inv, [ParserNext]_parserVars
  PROVE  Inv' /\ (Confined /\ ShadowInv => ShadowInv')
<1>1. ASSUME NEW p \in Plugins, WrapKeywordPlugin(p)
      PROVE  Inv' /\ (ShadowInv => ShadowInv')
  BY <1>1, WrapKeeps
<1>2. CASE KeywordHook
  BY <1>2, KeywordKeeps
<1>3. CASE ClaimWord \/ DeclineWord
  BY <1>3, EndKeeps DEF ClaimWord, DeclineWord
<1>4. ASSUME NEW x \in Texts, NEW n \in At, Lex(x, n)
      PROVE  Inv' /\ (ShadowInv => ShadowInv')
  BY <1>4, LexKeeps
<1>5. ASSUME NEW x \in Texts, NextLine(x)
      PROVE  Inv' /\ (ShadowInv => ShadowInv')
  <2> DEFINE q == [text |-> x, pos |-> 0]
  <2>1. q \in ParserPlaces /\ q.pos = 0
    BY ParserAssumption DEF ParserPlaces, At
  <2>2. /\ Parsing /\ parsers' = [parsers EXCEPT ![Len(parsers)] = q]
        /\ place' = [place EXCEPT ![Len(parsers)] = 0]
        /\ UNCHANGED <<pulled, hooks, inHook, chainHead, nextPlugin>>
    BY <1>5 DEF NextLine, Level
  <2> HIDE DEF q
  <2> QED
    BY <2>1, <2>2, GoOnKeeps
<1>6. ASSUME Tokenize PROVE Inv' /\ (ShadowInv => ShadowInv')
  <2>1. /\ Parsing /\ parsers[Len(parsers)].pos < MaxPos
        /\ parsers' = [parsers EXCEPT ![Len(parsers)].pos = @ + 1]
        /\ place' = [place EXCEPT ![Len(parsers)] = parsers[Len(parsers)].pos + 1]
        /\ UNCHANGED <<pulled, hooks, inHook, chainHead, nextPlugin>>
    BY <1>6 DEF Tokenize, Level, Guest
  <2>2. Len(parsers) \in 1..Len(parsers)
    BY <2>1, Lasts DEF Parsing, Level, Inv
  <2>3. PICK g \in ParserPlaces : g = parsers[Len(parsers)]
    BY <2>2, Lasts DEF Inv
  <2> DEFINE q == [text |-> g.text, pos |-> g.pos + 1]
  <2>4. q \in ParserPlaces /\ q.pos = g.pos + 1
    <3>1. g.pos + 1 \in At
      BY <2>1, <2>3, ParserAssumption DEF ParserPlaces, At
    <3> QED
      BY <3>1 DEF ParserPlaces
  <2>5. parsers' = [parsers EXCEPT ![Len(parsers)] = q]
    <3>1. [g EXCEPT !.pos = @ + 1] = q
      BY DEF ParserPlaces
    <3> QED
      BY <2>1, <2>3, <3>1
  <2>6. place' = [place EXCEPT ![Len(parsers)] = q.pos]
    BY <2>1, <2>3, <2>4
  <2> HIDE DEF q
  <2> QED
    BY <2>1, <2>4, <2>5, <2>6, GoOnKeeps
<1>7. CASE UNCHANGED parserVars
  BY <1>7
  DEF parserVars, Inv, ShapeInv, NestingInv, LinkedInv, ShadowInv, Holding, Hook
<1> QED
  BY <1>1, <1>2, <1>3, <1>4, <1>5, <1>6, <1>7, AskKeeps, ParseKeeps, CallKeeps, BackKeeps,
     CroakKeeps, BufptrKeeps, OpenKeeps, CloseKeeps
  DEF ParserNext

LEMMA ParserInvariant == ParserSpec => [](Inv /\ (Confined => ShadowInv))
<1>1. ParserInit => Inv /\ (Confined => ShadowInv)
  BY ParserInitial
<1>2. Inv /\ (Confined => ShadowInv) /\ [ParserNext]_parserVars
        => Inv' /\ (Confined => ShadowInv)'
  BY ParserStep
<1> QED
  BY <1>1, <1>2, PTL DEF ParserSpec

\* The state of the parsers and their hooks is well-formed: what ParserTypeOK says.
THEOREM ParserTyped == ParserSpec => []ParserTypeOK
<1>1. Inv => ParserTypeOK
  <2> SUFFICES ASSUME Inv PROVE ParserTypeOK
    OBVIOUS
  <2>1. DOMAIN parsers = 1..Len(parsers) /\ DOMAIN hooks = 1..Len(hooks)
    BY LenProperties DEF Inv, ShapeInv
  <2>2. \A i \in DOMAIN parsers : parsers[i].text \in Texts /\ parsers[i].pos \in At
    BY <2>1, Lasts DEF Inv, ParserPlaces
  <2>3. pulled.text \in Texts /\ pulled.pos \in At
    BY DEF Inv, ShapeInv, ParserPlaces
  <2>4. \A i \in DOMAIN hooks : hooks[i].level \in 1..Level
    BY <2>1 DEF Inv, NestingInv, Level
  <2> QED
    BY <2>2, <2>3, <2>4 DEF ParserTypeOK, Inv, ShapeInv, NestingInv, Level
<1> QED
  BY <1>1, ParserInvariant, PTL

\* When the code that hooks call past the parser compiles no keywords, each parser goes on
\* where its text was left, however deep the compilations are nested.
THEOREM ParserGoesOn == ASSUME Confined PROVE ParserSpec => []ParsesWhereLeft
<1>1. Inv /\ (Confined => ShadowInv) => ParsesWhereLeft
  <2> SUFFICES ASSUME Inv, ShadowInv, Parsing PROVE Guest.pos = place[Level]
    BY DEF ParsesWhereLeft
  <2>1. Len(parsers) \in 1..Len(parsers)
    BY Lasts DEF Parsing, Level, Inv
  <2>2. ~(Holding /\ Len(parsers) = Hook.level)
    BY <2>1 DEF Parsing, Holding, Level
  <2> QED
    BY <2>1, <2>2 DEF ShadowInv, Guest, Level
<1> QED
  BY <1>1, ParserInvariant, PTL

\* Under the same condition a plugin always sees the text that its parser reads, at the
\* place where it was left: it holds no pointer into a buffer that was given up.
THEOREM ShadowKept == ASSUME Confined PROVE ParserSpec => []ShadowIsCurrent
<1>1. Inv /\ (Confined => ShadowInv) => ShadowIsCurrent
  <2> SUFFICES ASSUME Inv, ShadowInv, inHook
               PROVE  pulled = [text |-> Guest.text, pos |-> place[Level]]
    BY DEF ShadowIsCurrent
  <2>1. Holding /\ Hook.level = Len(parsers)
    BY InPlugin DEF Inv
  <2> QED
    BY <2>1 DEF ShadowInv, Guest, Level
<1> QED
  BY <1>1, ParserInvariant, PTL

-------------------------------------------------------------------------------
(***************************************************************************)
(* The chain.  The plugins in the order they were wrapped: each leads to   *)
(* the one before it, and a hook has asked, from its newest on, those that *)
(* were wrapped when its word came up.                                     *)
(***************************************************************************)
Chained(order) ==
  /\ \A i, j \in 1..Len(order) : order[i] = order[j] => i = j
  /\ \A p \in Plugins : nextPlugin[p] # Unset <=> \E i \in 1..Len(order) : order[i] = p
  /\ chainHead = IF order = << >> THEN Unset ELSE order[Len(order)]
  /\ \A i \in 1..Len(order) :
       nextPlugin[order[i]] = IF i = 1 THEN Decline ELSE order[i - 1]

AskedFrom(order, m, h) ==
  /\ h.due = {order[i] : i \in 1..m}
  /\ Len(h.asked) \in 1..m
  /\ \A j \in 1..Len(h.asked) : h.asked[j] = order[m + 1 - j]
  /\ h.plugin = order[m + 1 - Len(h.asked)]

Asked(order, h) == \E m \in 1..Len(order) : AskedFrom(order, m, h)

ChainInv ==
  \E order \in Seq(Plugins) :
    Chained(order) /\ \A i \in 1..Len(hooks) : Asked(order, hooks[i])

\* Most steps leave the chain alone, and what the hooks that remain have asked.
LEMMA ChainStays ==
  ASSUME ChainInv, UNCHANGED <<chainHead, nextPlugin>>,
         \A i \in 1..Len(hooks') : \E j \in 1..Len(hooks) :
           /\ hooks'[i].due = hooks[j].due /\ hooks'[i].asked = hooks[j].asked
           /\ hooks'[i].plugin = hooks[j].plugin
  PROVE  ChainInv'
<1>1. PICK order \in Seq(Plugins) :
        Chained(order) /\ \A i \in 1..Len(hooks) : Asked(order, hooks[i])
  BY DEF ChainInv
<1>2. Chained(order)'
  BY <1>1 DEF Chained
<1>3. ASSUME NEW i \in 1..Len(hooks') PROVE Asked(order, hooks'[i])
  <2>1. PICK j \in 1..Len(hooks) :
          /\ hooks'[i].due = hooks[j].due /\ hooks'[i].asked = hooks[j].asked
          /\ hooks'[i].plugin = hooks[j].plugin
    OBVIOUS
  <2>2. PICK h : h = hooks'[i]
    OBVIOUS
  <2>3. PICK k : k = hooks[j]
    OBVIOUS
  <2>4. PICK m \in 1..Len(order) : AskedFrom(order, m, k)
    BY <1>1, <2>3 DEF Asked
  <2>5. h.due = k.due /\ h.asked = k.asked /\ h.plugin = k.plugin
    BY <2>1, <2>2, <2>3
  <2>6. AskedFrom(order, m, h)
    BY <2>4, <2>5 DEF AskedFrom
  <2> QED
    BY <2>2, <2>6 DEF Asked
<1> QED
  BY <1>1, <1>2, <1>3 DEF ChainInv

\* One of the fields that the chain does not depend on is set.
LEMMA SetWaits ==
  ASSUME Inv, ChainInv, UNCHANGED <<chainHead, nextPlugin>>, hooks # << >>,
         NEW w \in {"no", "pull", "call"}, hooks' = [hooks EXCEPT ![Len(hooks)].waits = w]
  PROVE  ChainInv'
<1>1. Len(hooks) \in 1..Len(hooks)
  BY Lasts DEF Inv
<1>2. PICK h \in HookType : h = hooks[Len(hooks)]
  BY <1>1, Lasts DEF Inv
<1> DEFINE k == [level |-> h.level, plugin |-> h.plugin, asked |-> h.asked,
                 due |-> h.due, waits |-> w]
<1>3. k \in HookType /\ [h EXCEPT !.waits = w] = k
  BY DEF HookType
<1>4. hooks' = [hooks EXCEPT ![Len(hooks)] = k]
  BY <1>2, <1>3
<1>5. k.due = h.due /\ k.asked = h.asked /\ k.plugin = h.plugin
  OBVIOUS
<1> HIDE DEF k
<1>6. /\ Len(hooks') = Len(hooks) /\ hooks'[Len(hooks)] = k
      /\ \A i \in 1..Len(hooks) : i < Len(hooks) => hooks'[i] = hooks[i]
  BY <1>3, <1>4, SetLast DEF Inv, ShapeInv
<1>7. ASSUME NEW i \in 1..Len(hooks')
      PROVE  /\ i \in 1..Len(hooks)
             /\ hooks'[i].due = hooks[i].due /\ hooks'[i].asked = hooks[i].asked
             /\ hooks'[i].plugin = hooks[i].plugin
  <2>1. CASE i = Len(hooks)
    BY <1>1, <1>2, <1>5, <1>6, <2>1
  <2>2. CASE i < Len(hooks)
    BY <1>6, <2>2
  <2> QED
    BY <1>1, <1>6, <2>1, <2>2
<1> QED
  BY <1>7, ChainStays

LEMMA ChainWrap ==
  ASSUME Inv, ChainInv, NEW p \in Plugins, WrapKeywordPlugin(p)
  PROVE  ChainInv'
<1>1. PICK order \in Seq(Plugins) :
        Chained(order) /\ \A i \in 1..Len(hooks) : Asked(order, hooks[i])
  BY DEF ChainInv
<1>2. /\ nextPlugin[p] = Unset /\ chainHead' = p /\ hooks' = hooks
      /\ nextPlugin' = [nextPlugin EXCEPT ![p] = IF chainHead = Unset THEN Decline
                                                 ELSE chainHead]
  BY DEF WrapKeywordPlugin
<1> DEFINE longer == Append(order, p)
           n == Len(order)
<1>3. /\ longer \in Seq(Plugins) /\ longer # << >> /\ Len(longer) = n + 1 /\ n \in Nat
      /\ \A i \in 1..n : longer[i] = order[i]
      /\ longer[n + 1] = p
  BY AppendProperties, LenProperties
<1>4. order = << >> <=> n = 0
  BY EmptySeq
<1>5. /\ \A i \in 1..n : order[i] \in Plugins
      /\ \A i, j \in 1..n : order[i] = order[j] => i = j
      /\ \A q \in Plugins : nextPlugin[q] # Unset <=> \E i \in 1..n : order[i] = q
      /\ chainHead = IF n = 0 THEN Unset ELSE order[n]
      /\ \A i \in 1..n : nextPlugin[order[i]] = IF i = 1 THEN Decline ELSE order[i - 1]
  BY <1>1, <1>4, ElementOfSeq DEF Chained
<1>6. \A i \in 1..Len(hooks) : \E m \in 1..n : AskedFrom(order, m, hooks[i])
  BY <1>1 DEF Asked
<1>7. \A i \in 1..n : order[i] # p
  BY <1>2, <1>5
<1> HIDE DEF longer, n
<1>8. \A q \in Plugins : q # p => nextPlugin'[q] = nextPlugin[q]
  BY <1>2 DEF Inv, ShapeInv
<1>9. nextPlugin'[p] = IF n = 0 THEN Decline ELSE order[n]
  <2>1. n # 0 => order[n] # Unset
    BY <1>3, <1>5, ParserAssumption
  <2> QED
    BY <1>2, <1>5, <2>1 DEF Inv, ShapeInv
<1>10. nextPlugin'[p] # Unset
  BY <1>3, <1>5, <1>9, ParserAssumption
<1>11. Chained(longer)'
  <2>1. \A i, j \in 1..(n + 1) : longer[i] = longer[j] => i = j
    BY <1>3, <1>5, <1>7
  <2>2. ASSUME NEW q \in Plugins
        PROVE  nextPlugin'[q] # Unset <=> \E i \in 1..(n + 1) : longer[i] = q
    <3>1. CASE q = p
      BY <1>3, <1>10, <3>1
    <3>2. CASE q # p
      BY <1>3, <1>5, <1>8, <3>2
    <3> QED
      BY <3>1, <3>2
  <2>3. ASSUME NEW i \in 1..(n + 1)
        PROVE  nextPlugin'[longer[i]] = IF i = 1 THEN Decline ELSE longer[i - 1]
    <3>1. CASE i = n + 1
      BY <1>3, <1>9, <3>1
    <3>2. CASE i \in 1..n
      BY <1>3, <1>5, <1>7, <1>8, <3>2
    <3> QED
      BY <1>3, <3>1, <3>2
  <2> QED
    BY <1>2, <1>3, <2>1, <2>2, <2>3 DEF Chained
<1>12. ASSUME NEW h, NEW m \in 1..n, AskedFrom(order, m, h) PROVE Asked(longer, h)
  <2>1. m \in 1..(n + 1) /\ \A i \in 1..m : longer[i] = order[i]
    BY <1>3
  <2>2. \A j \in 1..Len(h.asked) : m + 1 - j \in 1..m
    BY <1>3, <1>12 DEF AskedFrom
  <2>3. Len(h.asked) \in 1..Len(h.asked)
    BY <1>12 DEF AskedFrom
  <2>4. h.due = {longer[i] : i \in 1..m}
    BY <1>12, <2>1 DEF AskedFrom
  <2>5. \A j \in 1..Len(h.asked) : h.asked[j] = longer[m + 1 - j]
    BY <1>12, <2>1, <2>2 DEF AskedFrom
  <2>6. h.plugin = longer[m + 1 - Len(h.asked)]
    BY <1>12, <2>1, <2>2, <2>3 DEF AskedFrom
  <2>7. AskedFrom(longer, m, h)
    BY <1>12, <2>4, <2>5, <2>6 DEF AskedFrom
  <2> QED
    BY <1>3, <2>1, <2>7 DEF Asked
<1>13. \A i \in 1..Len(hooks') : Asked(longer, hooks'[i])
  BY <1>2, <1>6, <1>12
<1> QED
  BY <1>3, <1>11, <1>13 DEF ChainInv

LEMMA ChainKeyword == ASSUME Inv, ChainInv, KeywordHook PROVE ChainInv'
<1>1. PICK order \in Seq(Plugins) :
        Chained(order) /\ \A i \in 1..Len(hooks) : Asked(order, hooks[i])
  BY DEF ChainInv
<1> DEFINE h == [level |-> Len(parsers), plugin |-> chainHead, asked |-> <<chainHead>>,
                 due |-> {p \in Plugins : nextPlugin[p] # Unset}, waits |-> "no"]
           n == Len(order)
<1>2. /\ chainHead # Unset /\ hooks' = Append(hooks, h)
      /\ UNCHANGED <<chainHead, nextPlugin>>
  BY DEF KeywordHook, Level
<1>3. chainHead \in Plugins /\ Len(parsers) \in Nat /\ Len(hooks) \in Nat
  BY <1>2, Lasts DEF Inv, ShapeInv
<1>4. h \in HookType
  BY <1>3 DEF HookType
<1>5. n \in 1..n /\ n \in Nat /\ chainHead = order[n]
  BY <1>1, <1>2, EmptySeq, LenProperties DEF Chained
<1>6. h.due = {order[i] : i \in 1..n}
  <2>1. \A i \in 1..n : order[i] \in Plugins
    BY ElementOfSeq
  <2>2. \A p \in Plugins : nextPlugin[p] # Unset <=> \E i \in 1..n : order[i] = p
    BY <1>1 DEF Chained
  <2> QED
    BY <2>1, <2>2
<1>7. Len(h.asked) = 1 /\ h.asked[1] = order[n] /\ h.plugin = order[n]
  BY <1>5
<1> HIDE DEF h, n
<1>8. AskedFrom(order, n, h)
  <2>1. Len(h.asked) \in 1..n /\ n + 1 - Len(h.asked) = n
    BY <1>5, <1>7
  <2>2. \A j \in 1..Len(h.asked) : h.asked[j] = order[n + 1 - j]
    BY <1>5, <1>7
  <2> QED
    BY <1>6, <1>7, <2>1, <2>2 DEF AskedFrom
<1>9. Asked(order, h)
  BY <1>5, <1>8 DEF Asked, n
<1>10. /\ Len(hooks') = Len(hooks) + 1
       /\ \A i \in 1..Len(hooks) : hooks'[i] = hooks[i]
       /\ hooks'[Len(hooks) + 1] = h
  BY <1>2, <1>4, AppendProperties DEF Inv, ShapeInv
<1>11. \A i \in 1..Len(hooks') : Asked(order, hooks'[i])
  BY <1>1, <1>3, <1>9, <1>10
<1>12. Chained(order)'
  BY <1>1, <1>2 DEF Chained
<1> QED
  BY <1>11, <1>12 DEF ChainInv

LEMMA ChainAsk == ASSUME Inv, ChainInv, AskNext PROVE ChainInv'
<1>1. PICK order \in Seq(Plugins) :
        Chained(order) /\ \A i \in 1..Len(hooks) : Asked(order, hooks[i])
  BY DEF ChainInv
<1>2. /\ inHook /\ nextPlugin[Hook.plugin] # Decline
      /\ hooks' = [hooks EXCEPT ![Len(hooks)].plugin = nextPlugin[Hook.plugin],
                                ![Len(hooks)].asked = Append(@, nextPlugin[Hook.plugin])]
      /\ UNCHANGED <<chainHead, nextPlugin>>
  BY DEF AskNext
<1>3. Len(hooks) \in 1..Len(hooks)
  BY <1>2, InPlugin, Lasts DEF Inv
<1>4. PICK h \in HookType : h = hooks[Len(hooks)] /\ h.waits = "no"
  BY <1>2, InPlugin DEF Inv, Hook
<1>5. PICK m \in 1..Len(order) : AskedFrom(order, m, h)
  BY <1>1, <1>3, <1>4 DEF Asked
<1> DEFINE next == nextPlugin[h.plugin]
           l == Len(h.asked)
<1>6. /\ \A i \in 1..Len(order) : order[i] \in Plugins
      /\ Len(order) \in Nat /\ l \in Nat
  BY ElementOfSeq, LenProperties DEF HookType
<1>7. l \in 1..m /\ h.plugin = order[m + 1 - l]
  BY <1>5 DEF AskedFrom
<1>8. next # Decline
  BY <1>2, <1>4 DEF Hook
<1>9. m + 1 - l \in 1..Len(order)
  BY <1>6, <1>7
<1>10. next = (IF m + 1 - l = 1 THEN Decline ELSE order[(m + 1 - l) - 1])
  BY <1>1, <1>7, <1>9 DEF Chained
<1>11. l + 1 \in 1..m /\ next = order[m + 1 - (l + 1)] /\ next \in Plugins
  <2>1. m + 1 - l # 1
    BY <1>8, <1>10
  <2>2. l + 1 \in 1..m /\ (m + 1 - l) - 1 = m + 1 - (l + 1) /\ m + 1 - (l + 1) \in 1..Len(order)
    BY <1>6, <1>7, <2>1
  <2> QED
    BY <1>6, <1>10, <2>1, <2>2
<1> DEFINE k == [level |-> h.level, plugin |-> next, asked |-> Append(h.asked, next),
                 due |-> h.due, waits |-> "no"]
<1> HIDE DEF l
<1>12. k \in HookType
  BY <1>11, AppendProperties DEF HookType
<1>13. hooks' = [hooks EXCEPT ![Len(hooks)] = k]
  BY <1>2, <1>3, <1>4 DEF Hook, HookType
<1> HIDE DEF next
<1>14. /\ k.due = h.due /\ k.plugin = next
       /\ Len(k.asked) = l + 1 /\ k.asked[l + 1] = next
       /\ \A j \in 1..l : k.asked[j] = h.asked[j]
  <2>1. h.asked \in Seq(Plugins)
    BY DEF HookType
  <2> QED
    BY <1>11, <2>1, AppendProperties DEF l
<1> HIDE DEF k
<1>15. AskedFrom(order, m, k)
  <2>1. \A j \in 1..l : h.asked[j] = order[m + 1 - j]
    BY <1>5 DEF AskedFrom, l
  <2>2. \A j \in 1..Len(k.asked) : k.asked[j] = order[m + 1 - j]
    BY <1>6, <1>11, <1>14, <2>1
  <2>3. k.due = {order[i] : i \in 1..m}
    BY <1>5, <1>14 DEF AskedFrom
  <2> QED
    BY <1>11, <1>14, <2>2, <2>3 DEF AskedFrom
<1>16. /\ Len(hooks') = Len(hooks) /\ hooks'[Len(hooks)] = k
       /\ \A i \in 1..Len(hooks) : i < Len(hooks) => hooks'[i] = hooks[i]
  BY <1>3, <1>12, <1>13, SetLast DEF Inv, ShapeInv
<1>17. Asked(order, k)
  BY <1>15 DEF Asked
<1>18. ASSUME NEW i \in 1..Len(hooks') PROVE Asked(order, hooks'[i])
  <2>1. CASE i = Len(hooks)
    BY <1>16, <1>17, <2>1
  <2>2. CASE i < Len(hooks)
    BY <1>1, <1>16, <2>2
  <2> QED
    BY <1>3, <1>16, <2>1, <2>2
<1>19. Chained(order)'
  BY <1>1, <1>2 DEF Chained
<1> QED
  BY <1>18, <1>19 DEF ChainInv

\* EndHook, CroakInHook: hooks are over.
LEMMA ChainCut ==
  ASSUME Inv, ChainInv, UNCHANGED <<chainHead, nextPlugin>>,
         NEW n \in 0..Len(hooks), hooks' = SubSeq(hooks, 1, n)
  PROVE  ChainInv'
<1>1. Len(hooks') = n /\ \A i \in 1..n : hooks'[i] = hooks[i]
  BY CutLast DEF Inv, ShapeInv
<1>2. \A i \in 1..n : i \in 1..Len(hooks)
  BY Lasts DEF Inv
<1> QED
  BY <1>1, <1>2, ChainStays

LEMMA ChainStep == ASSUME Inv, ChainInv, [ParserNext]_parserVars PROVE ChainInv'
<1>1. ASSUME UNCHANGED <<hooks, chainHead, nextPlugin>> PROVE ChainInv'
  BY <1>1, ChainStays
<1>2. CASE \E p \in Plugins : WrapKeywordPlugin(p)
  BY <1>2, ChainWrap
<1>3. CASE KeywordHook
  BY <1>3, ChainKeyword
<1>4. CASE AskNext
  BY <1>4, ChainAsk
<1>5. CASE ParseMore \/ CallPerl
  BY <1>5, InPlugin, SetWaits DEF ParseMore, CallPerl, Lend, Inv
<1>6. CASE BackInHook
  BY <1>6, SetWaits DEF BackInHook
<1>7. CASE ClaimWord \/ DeclineWord
  <2>1. /\ hooks' = SubSeq(hooks, 1, Len(hooks) - 1)
        /\ UNCHANGED <<chainHead, nextPlugin>>
        /\ inHook
    BY <1>7 DEF ClaimWord, DeclineWord, EndHook, Front
  <2>2. Len(hooks) - 1 \in 0..Len(hooks)
    BY <2>1, InPlugin, Lasts DEF Inv
  <2> QED
    BY <2>1, <2>2, ChainCut
<1>8. CASE CroakInHook
  <2>1. UNCHANGED <<chainHead, nextPlugin>>
    BY <1>8 DEF CroakInHook
  <2>2. PICK n \in 0..(Len(hooks) - 1) : hooks' = SubSeq(hooks, 1, n)
    BY <1>8 DEF CroakInHook
  <2>3. n \in 0..Len(hooks)
    BY Lasts DEF Inv
  <2> QED
    BY <2>1, <2>2, <2>3, ChainCut
<1>9. CASE UNCHANGED parserVars
  BY <1>1, <1>9 DEF parserVars
<1> QED
  BY <1>1, <1>2, <1>3, <1>4, <1>5, <1>6, <1>7, <1>8, <1>9
  DEF ParserNext, SetBufptr, Lex, OpenParser, NextLine, CloseParser, Tokenize

LEMMA ChainInitial == ParserInit => ChainInv
<1> SUFFICES ASSUME ParserInit PROVE ChainInv
  OBVIOUS
<1>1. << >> \in Seq(Plugins) /\ Len(<< >>) = 0 /\ Len(hooks) = 0
  BY DEF ParserInit
<1>2. Chained(<< >>)
  BY <1>1 DEF ParserInit, Chained
<1>3. \A i \in 1..Len(hooks) : Asked(<< >>, hooks[i])
  BY <1>1
<1> QED
  BY <1>1, <1>2, <1>3 DEF ChainInv

\* However hooks nest, and whatever is wrapped while one runs, the plugins that were wrapped
\* when a word came up are asked in turn, each once, before the chain declines.
THEOREM EveryPluginAsked == ParserSpec => []ChainIsComplete
<1>1. Inv /\ ChainInv => ChainIsComplete
  <2> SUFFICES ASSUME Inv, ChainInv, NEW i \in 1..Len(hooks)
               PROVE  /\ \A j, k \in DOMAIN hooks[i].asked :
                            hooks[i].asked[j] = hooks[i].asked[k] => j = k
                      /\ nextPlugin[hooks[i].plugin] = Decline
                            => Range(hooks[i].asked) = hooks[i].due
    BY LenProperties DEF ChainIsComplete, Inv, ShapeInv
  <2>1. PICK order \in Seq(Plugins) : Chained(order) /\ Asked(order, hooks[i])
    BY DEF ChainInv
  <2>2. PICK h \in HookType : h = hooks[i]
    BY Lasts DEF Inv
  <2>3. PICK m \in 1..Len(order) : AskedFrom(order, m, h)
    BY <2>1, <2>2 DEF Asked
  <2> DEFINE l == Len(h.asked)
             n == Len(order)
  <2>4. /\ \A j \in 1..n : order[j] \in Plugins
        /\ n \in Nat /\ l \in Nat /\ DOMAIN h.asked = 1..l
    BY ElementOfSeq, LenProperties DEF HookType
  <2>5. /\ l \in 1..m /\ h.plugin = order[m + 1 - l]
        /\ \A j \in 1..l : h.asked[j] = order[m + 1 - j]
        /\ h.due = {order[j] : j \in 1..m}
    BY <2>3 DEF AskedFrom
  <2>6. /\ \A j, k \in 1..n : order[j] = order[k] => j = k
        /\ \A j \in 1..n : nextPlugin[order[j]] = IF j = 1 THEN Decline ELSE order[j - 1]
    BY <2>1 DEF Chained
  <2> HIDE DEF l, n
  <2>7. m \in 1..n
    BY DEF n
  <2>8. \A j \in 1..l : m + 1 - j \in 1..n
    BY <2>4, <2>5, <2>7
  <2>9. \A j, k \in 1..l : h.asked[j] = h.asked[k] => j = k
    <3> SUFFICES ASSUME NEW j \in 1..l, NEW k \in 1..l, h.asked[j] = h.asked[k]
                 PROVE  j = k
      OBVIOUS
    <3>1. order[m + 1 - j] = order[m + 1 - k]
      BY <2>5
    <3>2. m + 1 - j = m + 1 - k
      BY <2>6, <2>8, <3>1
    <3> QED
      BY <2>4, <2>7, <3>2
  <2>10. ASSUME nextPlugin[h.plugin] = Decline PROVE Range(h.asked) = h.due
    <3>1. m + 1 - l \in 1..n
      BY <2>5, <2>8
    <3>2. m + 1 - l # 1 => nextPlugin[h.plugin] = order[(m + 1 - l) - 1]
                           /\ (m + 1 - l) - 1 \in 1..n
      BY <2>4, <2>5, <2>6, <3>1
    <3>3. m = l
      BY <2>4, <2>5, <2>7, <2>10, <3>2, ParserAssumption
    <3>4. Range(h.asked) = {h.asked[j] : j \in 1..l}
      BY <2>4 DEF Range
    <3>5. \A j \in 1..l : m + 1 - j \in 1..l /\ m + 1 - (m + 1 - j) = j
      BY <2>4, <3>3
    <3>6. {h.asked[j] : j \in 1..l} = {order[j] : j \in 1..l}
      <4>1. \A j \in 1..l : h.asked[j] = order[m + 1 - j] /\ m + 1 - j \in 1..l
        BY <2>5, <3>5
      <4>2. \A j \in 1..l : order[j] = h.asked[m + 1 - j]
        BY <3>5, <4>1
      <4> QED
        BY <4>1, <4>2
    <3> QED
      BY <2>5, <3>3, <3>4, <3>6
  <2> QED
    BY <2>2, <2>4, <2>9, <2>10
<1>2. Inv /\ ChainInv /\ [ParserNext]_parserVars => Inv' /\ ChainInv'
  BY ParserStep, ChainStep
<1>3. ParserInit => Inv /\ ChainInv
  BY ParserInitial, ChainInitial
<1> QED
  BY <1>1, <1>2, <1>3, PTL DEF ParserSpec
===============================================================================
