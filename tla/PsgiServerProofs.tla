--------------------------- MODULE PsgiServerProofs ---------------------------
(***************************************************************************)
(* Proofs about PsgiServer, for any number of workers and requests.  That  *)
(* waiting requests are answered is liveness and stays with TLC.           *)
(***************************************************************************)
EXTENDS PsgiServer, SequenceTheorems, TLAPS

(***************************************************************************)
(* The inductive invariant, in parts.                                      *)
(***************************************************************************)

\* Where a request is tells whether it has a worker.
HasWhileServing ==
  \A r \in Requests :
    /\ Serving(r) => has[r] \in Workers
    /\ pc[r] \in {"idle", "waiting", "done"} => has[r] = NoWorker

\* No worker is in two places.
OncePool  == \A i, j \in 1..Len(pool) : pool[i] = pool[j] => i = j
OnceHeld  == \A r, s \in Requests : has[r] = has[s] /\ has[r] # NoWorker => r = s
OnceSides == \A r \in Requests : \A i \in 1..Len(pool) : pool[i] # has[r]

\* Workers in use are those New has made, and their interpreters are open.
UsedAreOpen ==
  /\ \A i \in 1..Len(pool) : pool[i] <= built /\ interp[pool[i]] = "open"
  /\ \A r \in Requests : has[r] # NoWorker => has[r] <= built /\ interp[has[r]] = "open"

\* What New has done so far.
Progress ==
  /\ phase = "loading" => /\ built = 0 /\ pool = << >> /\ chan = "open"
                          /\ \A w \in Workers : interp[w] = IF w = 1 THEN "open" ELSE "none"
  /\ phase = "cloning" => /\ built \in 1..(N - 1) /\ Len(pool) = built /\ chan = "open"
                          /\ \A w \in Workers : w > built => interp[w] = "none"
  /\ phase # "serving" => \A r \in Requests : pc[r] = "idle"

IInv ==
  /\ TypeOK
  /\ HasWhileServing
  /\ OncePool /\ OnceHeld /\ OnceSides
  /\ UsedAreOpen
  /\ Progress
  /\ NoWorkerLost

-------------------------------------------------------------------------------
(***************************************************************************)
(* The channel as a sequence: what a receive and a send leave in it.       *)
(***************************************************************************)
LEMMA TailPool ==
  ASSUME NEW S, NEW q \in Seq(S), q # << >>
  PROVE  /\ Tail(q) \in Seq(S)
         /\ Len(Tail(q)) = Len(q) - 1
         /\ \A i \in 1..Len(Tail(q)) : i + 1 \in 1..Len(q) /\ Tail(q)[i] = q[i + 1]
         /\ Head(q) = q[1] /\ 1 \in 1..Len(q) /\ Head(q) \in S
BY HeadTailProperties, ElementOfSeq

LEMMA AppendPool ==
  ASSUME NEW S, NEW q \in Seq(S), NEW e \in S
  PROVE  /\ Append(q, e) \in Seq(S)
         /\ Len(Append(q, e)) = Len(q) + 1
         /\ \A i \in 1..Len(q) : Append(q, e)[i] = q[i]
         /\ Append(q, e)[Len(q) + 1] = e
BY AppendProperties

-------------------------------------------------------------------------------
(***************************************************************************)
(* Every action keeps the types of the variables.                          *)
(***************************************************************************)
LEMMA TypeNew ==
  ASSUME TypeOK, Progress, Load \/ LoadFails \/ AddWorker \/ AddWorkerFails
  PROVE  TypeOK'
<1> USE PsgiAssumption DEF TypeOK
<1>1. CASE Load
  <2>1. 1 \in Workers /\ built' \in 0..N
    BY <1>1 DEF Load, Workers
  <2>2. pool' \in Seq(Workers) /\ Len(pool') <= N
    BY <1>1, <2>1 DEF Load
  <2> QED
    BY <1>1, <2>1, <2>2 DEF Load
<1>2. CASE LoadFails
  BY <1>2 DEF LoadFails
<1>3. CASE AddWorker
  <2>1. built + 1 \in Workers /\ built' \in 0..N /\ Len(pool) + 1 <= N
    BY <1>3 DEF AddWorker, Workers, Progress
  <2>2. pool' \in Seq(Workers) /\ Len(pool') = Len(pool) + 1
    BY <1>3, <2>1, AppendPool DEF AddWorker
  <2> QED
    BY <1>3, <2>1, <2>2 DEF AddWorker
<1>4. CASE AddWorkerFails
  BY <1>4 DEF AddWorkerFails
<1> QED
  BY <1>1, <1>2, <1>3, <1>4

LEMMA TypeClose == ASSUME TypeOK, Close \/ CloseWorker PROVE TypeOK'
<1> USE PsgiAssumption DEF TypeOK
<1>1. CASE Close
  BY <1>1 DEF Close
<1>2. CASE CloseWorker
  <2>1. pool' \in Seq(Workers) /\ Len(pool') <= N
    BY <1>2, TailPool DEF CloseWorker
  <2> QED
    BY <1>2, <2>1 DEF CloseWorker
<1> QED
  BY <1>1, <1>2

LEMMA TypeHandler ==
  ASSUME TypeOK, HasWhileServing, NEW r \in Requests, Handler(r)
  PROVE  TypeOK'
<1> USE PsgiAssumption DEF TypeOK, server
<1>1. CASE Arrive(r)
  BY <1>1 DEF Arrive
<1>2. CASE Cancel(r)
  BY <1>2 DEF Cancel
<1>3. CASE Checkout(r)
  <2>1. pool' \in Seq(Workers) /\ Len(pool') <= N /\ Head(pool) \in Workers
    BY <1>3, TailPool DEF Checkout
  <2> QED
    BY <1>3, <2>1 DEF Checkout, Stages
<1>4. CASE Unavailable(r)
  BY <1>4 DEF Unavailable
<1>5. CASE CheckoutNothing(r)
  BY <1>5 DEF CheckoutNothing
<1>6. CASE Advance(r)
  <2>1. \A s \in Stages : Following[s] \in Stages \cup {"returning"}
    BY DEF Stages, Following
  <2> QED
    BY <1>6, <2>1 DEF Advance
<1>7. CASE Fail(r)
  <2>1. PICK a \in {"413", "500", "implicit"} : answer' = [answer EXCEPT ![r] = a]
    BY <1>7 DEF Fail, Stages
  <2>2. pc' = [pc EXCEPT ![r] = "returning"] /\ UNCHANGED <<server, has, gone>>
    BY <1>7 DEF Fail
  <2> QED
    BY <2>1, <2>2
<1>8. CASE Return(r)
  <2>1. has[r] \in Workers
    BY <1>8 DEF Return, HasWhileServing, Serving
  <2>2. pool' \in Seq(Workers) /\ Len(pool') <= N
    BY <1>8, <2>1, AppendPool DEF Return
  <2> QED
    BY <1>8, <2>1, <2>2 DEF Return
<1> QED
  BY <1>1, <1>2, <1>3, <1>4, <1>5, <1>6, <1>7, <1>8 DEF Handler

LEMMA TypeStep == TypeOK /\ Progress /\ HasWhileServing /\ [Next]_vars => TypeOK'
<1>1. TypeOK /\ UNCHANGED vars => TypeOK'
  BY DEF TypeOK, vars
<1> QED
  BY <1>1, TypeNew, TypeClose, TypeHandler DEF Next

-------------------------------------------------------------------------------
(***************************************************************************)
(* Where the workers are: the part of the invariant that only actions that *)
(* move a worker can disturb.                                              *)
(***************************************************************************)
Places == OncePool /\ OnceHeld /\ OnceSides /\ UsedAreOpen /\ NoWorkerLost

LEMMA PlacesKept ==
  ASSUME Places, UNCHANGED <<built, pool, interp, has>>
  PROVE  Places'
BY DEF Places, OncePool, OnceHeld, OnceSides, UsedAreOpen, NoWorkerLost, InPool, Holders

LEMMA PlacesLoad == ASSUME IInv, Load PROVE Places'
<1> USE PsgiAssumption
<1>1. /\ pool' = <<1>> /\ built' = 1 /\ built = 0 /\ UNCHANGED <<interp, has>>
      /\ \A r \in Requests : has[r] = NoWorker
  BY DEF Load, IInv, Progress, HasWhileServing
<1>2. /\ Len(pool') = 1 /\ pool'[1] = 1 /\ 1 \in Workers /\ 1 # NoWorker
  BY <1>1 DEF Workers
<1>3. interp[1] = "open"
  BY <1>1, <1>2 DEF Load, IInv, Progress
<1>4. OncePool' /\ OnceHeld' /\ OnceSides' /\ UsedAreOpen'
  BY <1>1, <1>2, <1>3 DEF OncePool, OnceHeld, OnceSides, UsedAreOpen
<1>5. NoWorkerLost'
  <2> SUFFICES ASSUME NEW w \in Workers, interp[w] = "open" PROVE InPool(w)'
    BY <1>1 DEF NoWorkerLost
  <2>1. w = 1
    BY <1>1 DEF IInv, NoWorkerLost, InPool, Holders, Progress, Load, Workers
  <2> QED
    BY <1>2, <2>1 DEF InPool
<1> QED
  BY <1>4, <1>5 DEF Places

LEMMA PlacesAdd == ASSUME IInv, AddWorker PROVE Places'
<1> USE PsgiAssumption DEF TypeOK
<1> DEFINE new == built + 1
<1> USE DEF IInv
<1>1. /\ pool' = Append(pool, new) /\ built' = new
      /\ interp' = [interp EXCEPT ![new] = "open"] /\ UNCHANGED has
      /\ new \in Workers /\ new # NoWorker
      /\ built \in Nat
  BY DEF AddWorker, Progress, Workers
<1>2. /\ Len(pool') = Len(pool) + 1 /\ Len(pool) \in Nat
      /\ \A i \in 1..Len(pool) : pool'[i] = pool[i] /\ pool[i] \in Workers
      /\ pool'[Len(pool) + 1] = new
  BY <1>1, AppendPool, ElementOfSeq
<1> HIDE DEF new
<1>3. \A i \in 1..Len(pool) : pool[i] <= built /\ pool[i] # new
  BY <1>1, <1>2 DEF UsedAreOpen, new, Workers
<1>4. \A r \in Requests : has[r] # NoWorker => has[r] <= built /\ has[r] # new
  BY <1>1 DEF UsedAreOpen, new, Workers
<1>5. OncePool'
  BY <1>1, <1>2, <1>3 DEF OncePool
<1>6. OnceHeld'
  BY <1>1 DEF OnceHeld
<1>7. OnceSides'
  <2> SUFFICES ASSUME NEW r \in Requests, NEW i \in 1..Len(pool) + 1 PROVE pool'[i] # has[r]
    BY <1>1, <1>2 DEF OnceSides
  <2>1. CASE i = Len(pool) + 1
    BY <1>1, <1>2, <1>4, <2>1
  <2>2. CASE i \in 1..Len(pool)
    BY <1>2, <2>2 DEF OnceSides
  <2> QED
    BY <1>2, <2>1, <2>2
<1>8. \A w \in Workers : interp'[w] = IF w = new THEN "open" ELSE interp[w]
  BY <1>1
<1>9. UsedAreOpen'
  <2>1. ASSUME NEW i \in 1..Len(pool) + 1 PROVE pool'[i] <= built' /\ interp'[pool'[i]] = "open"
    <3>1. CASE i = Len(pool) + 1
      BY <1>1, <1>2, <1>8, <3>1 DEF new
    <3>2. CASE i \in 1..Len(pool)
      <4>1. pool[i] \in Workers /\ pool[i] <= built /\ interp[pool[i]] = "open" /\ pool'[i] = pool[i]
        BY <1>2, <3>2 DEF UsedAreOpen
      <4> QED
        BY <1>1, <1>8, <4>1 DEF Workers, new
    <3> QED
      BY <1>2, <3>1, <3>2
  <2>2. ASSUME NEW r \in Requests, has[r] # NoWorker
        PROVE  has[r] <= built' /\ interp'[has[r]] = "open"
    <3>1. has[r] \in Workers /\ has[r] <= built /\ interp[has[r]] = "open"
      BY <2>2 DEF UsedAreOpen
    <3> QED
      BY <1>1, <1>8, <3>1 DEF Workers, new
  <2> QED
    BY <1>1, <1>2, <2>1, <2>2 DEF UsedAreOpen
<1>10. NoWorkerLost'
  <2> SUFFICES ASSUME NEW w \in Workers, interp'[w] = "open"
               PROVE  InPool(w)' \/ Holders(w)' # {}
    BY DEF NoWorkerLost
  <2>1. CASE w = new
    BY <1>2, <2>1 DEF InPool
  <2>2. CASE w # new
    <3>1. InPool(w) \/ Holders(w) # {}
      BY <1>8, <2>2 DEF NoWorkerLost, AddWorker, Progress
    <3> QED
      BY <1>1, <1>2, <3>1 DEF InPool, Holders
  <2> QED
    BY <2>1, <2>2
<1> QED
  BY <1>5, <1>6, <1>7, <1>9, <1>10 DEF Places

LEMMA PlacesAddFails == ASSUME IInv, AddWorkerFails PROVE Places'
<1> USE PsgiAssumption DEF TypeOK, IInv
<1>1. /\ built \in 1..(N - 1) /\ interp[built + 1] = "none" /\ UNCHANGED <<pool, has, built>>
      /\ \A w \in Workers : w # built + 1 => interp'[w] = interp[w]
      /\ interp'[built + 1] # "open"
  BY DEF AddWorkerFails, Progress, Workers
<1>2. UsedAreOpen'
  <2>1. \A w \in Workers : interp[w] = "open" => interp'[w] = "open"
    BY <1>1
  <2>2. \A i \in 1..Len(pool) : pool[i] \in Workers
    BY ElementOfSeq
  <2> QED
    BY <1>1, <2>1, <2>2 DEF UsedAreOpen
<1>3. NoWorkerLost'
  BY <1>1 DEF NoWorkerLost, InPool, Holders
<1> QED
  BY <1>1, <1>2, <1>3 DEF Places, OncePool, OnceHeld, OnceSides

(***************************************************************************)
(* A receive: the head of the channel is nowhere else, and what stays is   *)
(* what was behind it.                                                     *)
(***************************************************************************)
LEMMA Received ==
  ASSUME IInv, pool # << >>, pool' = Tail(pool)
  PROVE  /\ Head(pool) \in Workers
         /\ \A r \in Requests : has[r] # Head(pool)
         /\ OncePool'
         /\ \A i \in 1..Len(pool') : \E j \in 1..Len(pool) : pool'[i] = pool[j]
         /\ \A w \in Workers : InPool(w)' <=> InPool(w) /\ w # Head(pool)
<1> USE DEF IInv, TypeOK
<1>1. /\ Len(pool') = Len(pool) - 1 /\ Len(pool) \in Nat \ {0}
      /\ \A i \in 1..Len(pool') : i + 1 \in 1..Len(pool) /\ pool'[i] = pool[i + 1]
      /\ Head(pool) = pool[1] /\ 1 \in 1..Len(pool) /\ Head(pool) \in Workers
  BY TailPool
<1>2. OncePool'
  BY <1>1 DEF OncePool
<1>3. \A r \in Requests : has[r] # Head(pool)
  BY <1>1 DEF OnceSides
<1>4. ASSUME NEW w \in Workers PROVE InPool(w)' <=> InPool(w) /\ w # Head(pool)
  <2>1. ASSUME NEW i \in 1..Len(pool'), pool'[i] = w PROVE w # Head(pool) /\ InPool(w)
    BY <1>1, <2>1 DEF OncePool, InPool
  <2>2. ASSUME NEW j \in 1..Len(pool), pool[j] = w, w # Head(pool) PROVE InPool(w)'
    <3>1. j - 1 \in 1..Len(pool') /\ pool'[j - 1] = pool[j]
      BY <1>1, <2>2
    <3> QED
      BY <2>2, <3>1 DEF InPool
  <2> QED
    BY <2>1, <2>2 DEF InPool
<1> QED
  BY <1>1, <1>2, <1>3, <1>4

LEMMA PlacesCloseWorker == ASSUME IInv, CloseWorker PROVE Places'
<1> USE DEF IInv
<1> DEFINE gone1 == Head(pool)
<1>1. /\ pool # << >> /\ pool' = Tail(pool) /\ UNCHANGED <<built, has>>
      /\ interp' = [interp EXCEPT ![gone1] = "closed"]
  BY DEF CloseWorker
<1>2. /\ gone1 \in Workers
      /\ \A r \in Requests : has[r] # gone1
      /\ OncePool'
      /\ \A i \in 1..Len(pool') : \E j \in 1..Len(pool) : pool'[i] = pool[j]
      /\ \A w \in Workers : InPool(w)' <=> InPool(w) /\ w # gone1
  BY <1>1, Received
<1> HIDE DEF gone1
<1>3. \A w \in Workers : interp'[w] = IF w = gone1 THEN "closed" ELSE interp[w]
  BY <1>1 DEF TypeOK
<1>4. OnceHeld' /\ OnceSides'
  BY <1>1, <1>2 DEF OnceHeld, OnceSides
<1>5. UsedAreOpen'
  <2>1. ASSUME NEW i \in 1..Len(pool') PROVE pool'[i] <= built /\ interp'[pool'[i]] = "open"
    <3>1. PICK j \in 1..Len(pool) : pool'[i] = pool[j]
      BY <1>2
    <3>2. pool[j] \in Workers /\ pool[j] <= built /\ interp[pool[j]] = "open"
      BY ElementOfSeq DEF TypeOK, UsedAreOpen
    <3>3. \A w \in Workers : pool'[i] = w => InPool(w)'
      BY DEF InPool
    <3> QED
      BY <1>2, <1>3, <3>1, <3>2, <3>3
  <2>2. ASSUME NEW r \in Requests, has[r] # NoWorker
        PROVE  has[r] <= built /\ interp'[has[r]] = "open"
    BY <1>2, <1>3, <2>2 DEF UsedAreOpen, TypeOK
  <2> QED
    BY <1>1, <2>1, <2>2 DEF UsedAreOpen
<1>6. NoWorkerLost'
  BY <1>1, <1>2, <1>3 DEF NoWorkerLost, Holders
<1> QED
  BY <1>2, <1>4, <1>5, <1>6 DEF Places

LEMMA PlacesCheckout == ASSUME IInv, NEW r \in Requests, Checkout(r) PROVE Places'
<1> USE DEF IInv
<1> DEFINE w0 == Head(pool)
<1>1. /\ pool # << >> /\ pool' = Tail(pool) /\ UNCHANGED <<built, interp>>
      /\ has' = [has EXCEPT ![r] = w0] /\ has[r] = NoWorker
  BY DEF Checkout, HasWhileServing
<1>2. /\ w0 \in Workers
      /\ \A s \in Requests : has[s] # w0
      /\ OncePool'
      /\ \A i \in 1..Len(pool') : \E j \in 1..Len(pool) : pool'[i] = pool[j]
      /\ \A w \in Workers : InPool(w)' <=> InPool(w) /\ w # w0
  BY <1>1, Received
<1>3. w0 # NoWorker /\ w0 <= built /\ interp[w0] = "open"
  <2>1. w0 = pool[1] /\ 1 \in 1..Len(pool)
    BY <1>1, TailPool DEF TypeOK
  <2> QED
    BY <1>2, <2>1, PsgiAssumption DEF UsedAreOpen
<1> HIDE DEF w0
<1>4. \A s \in Requests : has'[s] = IF s = r THEN w0 ELSE has[s]
  BY <1>1 DEF TypeOK
<1>5. OnceHeld'
  BY <1>2, <1>4 DEF OnceHeld
<1>6. OnceSides'
  <2> SUFFICES ASSUME NEW s \in Requests, NEW i \in 1..Len(pool') PROVE pool'[i] # has'[s]
    BY DEF OnceSides
  <2>1. PICK j \in 1..Len(pool) : pool'[i] = pool[j]
    BY <1>2
  <2>2. pool[j] \in Workers
    BY ElementOfSeq DEF TypeOK
  <2>3. pool'[i] # w0
    BY <1>2, <2>1, <2>2 DEF InPool
  <2> QED
    BY <1>4, <2>1, <2>3 DEF OnceSides
<1>7. UsedAreOpen'
  <2>1. \A i \in 1..Len(pool') : pool'[i] <= built /\ interp[pool'[i]] = "open"
    BY <1>2 DEF UsedAreOpen
  <2>2. \A s \in Requests : has'[s] # NoWorker => has'[s] <= built /\ interp[has'[s]] = "open"
    BY <1>3, <1>4 DEF UsedAreOpen
  <2> QED
    BY <1>1, <2>1, <2>2 DEF UsedAreOpen
<1>8. NoWorkerLost'
  <2> SUFFICES ASSUME NEW w \in Workers, interp[w] = "open"
               PROVE  InPool(w)' \/ Holders(w)' # {} \/ (w = 1 /\ built = 0)
    BY <1>1 DEF NoWorkerLost
  <2>1. InPool(w) \/ Holders(w) # {} \/ (w = 1 /\ built = 0)
    BY DEF NoWorkerLost
  <2>2. CASE w = w0
    BY <1>4, <2>2 DEF Holders
  <2>3. ASSUME NEW s \in Requests, has[s] = w PROVE has'[s] = w
    BY <1>1, <1>4, <2>3, PsgiAssumption
  <2> QED
    BY <1>2, <2>1, <2>2, <2>3 DEF Holders
<1> QED
  BY <1>2, <1>5, <1>6, <1>7, <1>8 DEF Places

LEMMA PlacesReturn ==
  ASSUME IInv, NEW r \in Requests, Return(r), chan = "open"
  PROVE  Places'
<1> USE DEF IInv
<1> DEFINE w0 == has[r]
<1>1. /\ pool' = Append(pool, w0) /\ UNCHANGED <<built, interp>>
      /\ has' = [has EXCEPT ![r] = NoWorker]
      /\ w0 \in Workers /\ w0 # NoWorker
  BY PsgiAssumption DEF Return, HasWhileServing, Serving
<1>2. /\ w0 <= built /\ interp[w0] = "open"
      /\ \A s \in Requests : has[s] = w0 => s = r
      /\ \A i \in 1..Len(pool) : pool[i] # w0
  BY <1>1 DEF UsedAreOpen, OnceHeld, OnceSides
<1> HIDE DEF w0
<1>3. /\ Len(pool') = Len(pool) + 1 /\ Len(pool) \in Nat
      /\ \A i \in 1..Len(pool) : pool'[i] = pool[i] /\ pool[i] \in Workers
      /\ pool'[Len(pool) + 1] = w0
  BY <1>1, AppendPool, ElementOfSeq DEF TypeOK
<1>4. \A s \in Requests : has'[s] = IF s = r THEN NoWorker ELSE has[s]
  BY <1>1 DEF TypeOK
<1>5. OncePool'
  BY <1>2, <1>3 DEF OncePool
<1>6. OnceHeld'
  BY <1>4 DEF OnceHeld
<1>7. OnceSides'
  <2> SUFFICES ASSUME NEW s \in Requests, NEW i \in 1..Len(pool) + 1 PROVE pool'[i] # has'[s]
    BY <1>3 DEF OnceSides
  <2>1. pool'[i] \in Workers /\ (s # r => pool'[i] # has[s])
    <3>1. CASE i = Len(pool) + 1
      BY <1>1, <1>2, <1>3, <3>1 DEF w0
    <3>2. CASE i \in 1..Len(pool)
      BY <1>3, <3>2 DEF OnceSides
    <3> QED
      BY <1>3, <3>1, <3>2
  <2> QED
    BY <1>4, <2>1, PsgiAssumption
<1>8. UsedAreOpen'
  <2>1. ASSUME NEW i \in 1..Len(pool) + 1 PROVE pool'[i] <= built /\ interp[pool'[i]] = "open"
    <3>1. CASE i = Len(pool) + 1
      BY <1>2, <1>3, <3>1
    <3>2. CASE i \in 1..Len(pool)
      BY <1>3, <3>2 DEF UsedAreOpen
    <3> QED
      BY <1>3, <3>1, <3>2
  <2>2. \A s \in Requests : has'[s] # NoWorker => has'[s] <= built /\ interp[has'[s]] = "open"
    BY <1>4 DEF UsedAreOpen
  <2> QED
    BY <1>1, <1>3, <2>1, <2>2 DEF UsedAreOpen
<1>9. NoWorkerLost'
  <2> SUFFICES ASSUME NEW w \in Workers, interp[w] = "open"
               PROVE  InPool(w)' \/ Holders(w)' # {} \/ (w = 1 /\ built = 0)
    BY <1>1 DEF NoWorkerLost
  <2>1. CASE w = w0
    BY <1>3, <2>1 DEF InPool
  <2>2. ASSUME InPool(w) PROVE InPool(w)'
    BY <1>3, <2>2 DEF InPool
  <2>3. ASSUME NEW s \in Requests, has[s] = w, w # w0 PROVE has'[s] = w
    BY <1>4, <2>3 DEF w0
  <2> QED
    BY <2>1, <2>2, <2>3 DEF NoWorkerLost, Holders
<1> QED
  BY <1>5, <1>6, <1>7, <1>8, <1>9 DEF Places

-------------------------------------------------------------------------------
(***************************************************************************)
(* All actions together.                                                   *)
(***************************************************************************)
LEMMA PlacesStep == IInv /\ [Next]_vars => Places'
<1> SUFFICES ASSUME IInv, [Next]_vars PROVE Places'
  OBVIOUS
<1>0. Places
  BY DEF IInv, Places
<1>1. CASE UNCHANGED <<built, pool, interp, has>>
  BY <1>0, <1>1, PlacesKept
<1>2. CASE Load \/ AddWorker \/ AddWorkerFails
  BY <1>2, PlacesLoad, PlacesAdd, PlacesAddFails
<1>3. CASE CloseWorker
  BY <1>3, PlacesCloseWorker
<1>4. CASE LoadFails \/ Close \/ UNCHANGED vars
  BY <1>1, <1>4 DEF LoadFails, Close, vars
<1>5. ASSUME NEW r \in Requests, Handler(r) PROVE Places'
  <2>1. CASE Arrive(r) \/ Cancel(r) \/ Unavailable(r) \/ CheckoutNothing(r)
    BY <1>1, <2>1 DEF Arrive, Cancel, Unavailable, CheckoutNothing, server
  <2>2. CASE Advance(r) \/ Fail(r)
    BY <1>1, <2>2 DEF Advance, Fail, server
  <2>3. CASE Checkout(r)
    BY <2>3, PlacesCheckout
  <2>4. CASE Return(r) /\ chan = "open"
    BY <2>4, PlacesReturn
  <2>5. CASE Return(r) /\ chan # "open"
    BY <1>1, <2>5 DEF Return, IInv, TypeOK
  <2> QED
    BY <1>5, <2>1, <2>2, <2>3, <2>4, <2>5 DEF Handler
<1> QED
  BY <1>2, <1>3, <1>4, <1>5 DEF Next

LEMMA HasStep == IInv /\ [Next]_vars => HasWhileServing'
<1> SUFFICES ASSUME IInv, [Next]_vars PROVE HasWhileServing'
  OBVIOUS
<1> USE PsgiAssumption DEF HasWhileServing, Serving, Stages
<1>0. TypeOK /\ HasWhileServing
  BY DEF IInv
<1>1. CASE UNCHANGED <<pc, has>>
  BY <1>0, <1>1
<1>2. CASE Load \/ LoadFails \/ AddWorker \/ AddWorkerFails \/ Close \/ CloseWorker
           \/ UNCHANGED vars
  BY <1>1, <1>2 DEF Load, LoadFails, AddWorker, AddWorkerFails, Close, CloseWorker, vars
<1>3. ASSUME NEW r \in Requests, Handler(r) PROVE HasWhileServing'
  <2>1. CASE Arrive(r)
    BY <1>0, <2>1 DEF Arrive, TypeOK
  <2>2. CASE Cancel(r)
    BY <1>1, <2>2 DEF Cancel
  <2>3. CASE Checkout(r)
    <3>1. Head(pool) \in Workers
      BY <1>0, <2>3, TailPool DEF Checkout, TypeOK
    <3> QED
      BY <1>0, <2>3, <3>1 DEF Checkout, TypeOK
  <2>4. CASE Unavailable(r) \/ CheckoutNothing(r)
    BY <1>0, <2>4 DEF Unavailable, CheckoutNothing, TypeOK
  <2>5. CASE Advance(r)
    BY <1>0, <2>5 DEF Advance, TypeOK, Following
  <2>6. CASE Fail(r)
    BY <1>0, <2>6 DEF Fail, TypeOK
  <2>7. CASE Return(r)
    BY <1>0, <2>7 DEF Return, TypeOK
  <2> QED
    BY <1>3, <2>1, <2>2, <2>3, <2>4, <2>5, <2>6, <2>7 DEF Handler
<1> QED
  BY <1>2, <1>3 DEF Next

LEMMA ProgressStep == IInv /\ [Next]_vars => Progress'
<1> SUFFICES ASSUME IInv, [Next]_vars PROVE Progress'
  OBVIOUS
<1> USE PsgiAssumption DEF Progress
<1>0. TypeOK /\ Progress
  BY DEF IInv
<1>1. CASE Load
  <2>1. pool' = <<1>> /\ built' = 1 /\ UNCHANGED <<interp, pc, chan>> /\ N \in Nat \ {0}
        /\ phase' = (IF N = 1 THEN "serving" ELSE "cloning") /\ phase = "loading"
    BY <1>1 DEF Load
  <2>2. Len(pool') = 1
    BY <2>1
  <2>3. \A w \in Workers : w > 1 => interp[w] = "none"
    BY <1>0, <2>1
  <2> QED
    BY <1>0, <2>1, <2>2, <2>3
<1>2. CASE LoadFails \/ AddWorkerFails
  BY <1>0, <1>2 DEF LoadFails, AddWorkerFails
<1>3. CASE AddWorker
  <2>1. /\ built' = built + 1 /\ built \in 1..(N - 1) /\ UNCHANGED <<chan, pc>>
        /\ interp' = [interp EXCEPT ![built + 1] = "open"]
        /\ pool' = Append(pool, built + 1) /\ built + 1 \in Workers
        /\ phase' = (IF built + 1 = N THEN "serving" ELSE "cloning") /\ phase = "cloning"
    BY <1>0, <1>3 DEF AddWorker, Workers
  <2>2. Len(pool') = built + 1
    BY <1>0, <2>1, AppendPool DEF TypeOK
  <2>3. \A w \in Workers : w > built + 1 => interp'[w] = "none"
    BY <1>0, <2>1 DEF TypeOK, Workers
  <2> QED
    BY <1>0, <2>1, <2>2, <2>3
<1>4. CASE Close \/ UNCHANGED vars
  BY <1>0, <1>4 DEF Close, vars
<1>5. CASE CloseWorker
  BY <1>0, <1>5 DEF CloseWorker, TypeOK
<1>6. ASSUME NEW r \in Requests, Handler(r) PROVE Progress'
  <2>1. phase = "serving" /\ phase' = phase
    BY <1>0, <1>6 DEF Handler, server, Arrive, Cancel, Checkout, Unavailable,
       CheckoutNothing, Advance, Fail, Return, Serving, Stages
  <2> QED
    BY <2>1
<1> QED
  BY <1>1, <1>2, <1>3, <1>4, <1>5, <1>6 DEF Next

LEMMA Initially == Init => IInv
<1> SUFFICES ASSUME Init PROVE IInv
  OBVIOUS
<1> USE PsgiAssumption DEF Init
<1>1. TypeOK
  BY DEF TypeOK
<1>2. Len(pool) = 0 /\ \A r \in Requests : has[r] = NoWorker /\ pc[r] = "idle"
  OBVIOUS
<1>3. HasWhileServing
  BY <1>2 DEF HasWhileServing, Serving, Stages
<1>4. OncePool /\ OnceHeld /\ OnceSides /\ UsedAreOpen
  BY <1>2 DEF OncePool, OnceHeld, OnceSides, UsedAreOpen
<1>5. Progress /\ NoWorkerLost
  BY <1>2 DEF Progress, NoWorkerLost, Workers
<1> QED
  BY <1>1, <1>3, <1>4, <1>5 DEF IInv

LEMMA Inductive == IInv /\ [Next]_vars => IInv'
BY TypeStep, PlacesStep, HasStep, ProgressStep DEF IInv, Places

LEMMA Invariant == Spec => []IInv
BY Initially, Inductive, PTL DEF Spec

(***************************************************************************)
(* The variables keep their types.                                         *)
(***************************************************************************)
THEOREM TypeCorrect == Spec => []TypeOK
<1>1. IInv => TypeOK
  BY DEF IInv
<1> QED
  BY <1>1, Invariant, PTL

(***************************************************************************)
(* A worker serves at most one request at a time, in an open interpreter,  *)
(* whatever the number of workers and requests (psgi.go, Server).          *)
(***************************************************************************)
THEOREM ExclusiveWorkers == Spec => []OneRequestPerWorker
<1>1. IInv => OneRequestPerWorker
  BY PsgiAssumption DEF IInv, OneRequestPerWorker, OncePool, OnceHeld, OnceSides, UsedAreOpen,
     HasWhileServing, InPool
<1> QED
  BY <1>1, Invariant, PTL

(***************************************************************************)
(* An open interpreter is always in the channel or with a request: failing *)
(* requests, cancellations and a New that gives up lose none.              *)
(***************************************************************************)
THEOREM WorkersKept == Spec => []NoWorkerLost
<1>1. IInv => NoWorkerLost
  BY DEF IInv
<1> QED
  BY <1>1, Invariant, PTL

-------------------------------------------------------------------------------
(***************************************************************************)
(* Refinement: every step lends, takes back, adds or retires a worker, or  *)
(* is none of the pool's business.                                         *)
(***************************************************************************)
Ready == {w \in 1..built : interp[w] = "open"}
Lent  == [w \in Workers |-> Borrower(w)]

LEMMA BorrowerIs ==
  ASSUME OnceHeld, NEW w \in Workers, NEW r \in Requests, has[r] = w
  PROVE  Borrower(w) = r /\ r # NoRequest
<1>1. Holders(w) = {r}
  BY PsgiAssumption DEF OnceHeld, Holders
<1> QED
  BY <1>1, PsgiAssumption DEF Borrower

LEMMA BorrowerNone ==
  ASSUME NEW w \in Workers, \A r \in Requests : has[r] # w
  PROVE  Borrower(w) = NoRequest
BY DEF Borrower, Holders

LEMMA BorrowerKept ==
  ASSUME OnceHeld, NEW w \in Workers, Holders(w)' = Holders(w)
  PROVE  Borrower(w)' = Borrower(w)
<1>1. CASE Holders(w) = {}
  BY <1>1 DEF Borrower
<1>2. CASE Holders(w) # {}
  <2>1. PICK r \in Requests : has[r] = w
    BY <1>2 DEF Holders
  <2>2. Holders(w) = {r}
    BY <2>1, PsgiAssumption DEF OnceHeld, Holders
  <2>3. Borrower(w) = r
    BY <2>2 DEF Borrower
  <2>4. Borrower(w)' = r
    BY <2>2 DEF Borrower
  <2> QED
    BY <2>3, <2>4
<1> QED
  BY <1>1, <1>2

LEMMA SameLent == UNCHANGED has => Lent' = Lent
BY DEF Lent, Borrower, Holders

LEMMA PoolInit == Init => Pool!Init
<1> SUFFICES ASSUME Init PROVE Pool!Init
  OBVIOUS
<1>1. \A w \in Workers : Borrower(w) = NoRequest
  BY BorrowerNone, PsgiAssumption DEF Init
<1>2. Ready = {}
  BY DEF Init, Ready
<1> QED
  BY <1>1, <1>2 DEF Pool!Init, Ready

\* Nothing that the pool sees has changed.
LEMMA PoolStutter ==
  ASSUME UNCHANGED <<built, interp, has>>
  PROVE  UNCHANGED Pool!vars
<1>1. Ready' = Ready /\ Lent' = Lent
  BY SameLent DEF Ready
<1> QED
  BY <1>1 DEF Pool!vars, Ready, Lent

LEMMA PoolAdd ==
  ASSUME IInv, NEW w \in Workers, w \notin Ready, \A r \in Requests : has[r] # w,
         UNCHANGED has, Ready' = Ready \cup {w}
  PROVE  Pool!Add(w)
<1>1. Lent' = Lent /\ Lent[w] = NoRequest
  BY SameLent, BorrowerNone DEF Lent
<1> QED
  BY <1>1 DEF Pool!Add, Ready, Lent

LEMMA PoolLoad == IInv /\ Load => Pool!Next
<1> SUFFICES ASSUME IInv, Load PROVE Pool!Next
  OBVIOUS
<1> USE PsgiAssumption
<1>1. /\ built = 0 /\ built' = 1 /\ UNCHANGED <<interp, has>> /\ 1 \in Workers
      /\ \A w \in Workers : interp[w] = IF w = 1 THEN "open" ELSE "none"
      /\ \A r \in Requests : has[r] = NoWorker
  BY DEF Load, IInv, Progress, HasWhileServing, Workers
<1>2. Ready = {} /\ Ready' = {1} /\ 1 \notin Ready /\ Ready' = Ready \cup {1}
  BY <1>1 DEF Ready
<1>3. Pool!Add(1)
  BY <1>1, <1>2, PoolAdd
<1> QED
  BY <1>1, <1>3 DEF Pool!Next

LEMMA PoolAddWorker == IInv /\ AddWorker => Pool!Next
<1> SUFFICES ASSUME IInv, AddWorker PROVE Pool!Next
  OBVIOUS
<1> USE PsgiAssumption
<1>0. PICK w \in Workers : w = built + 1
  BY DEF AddWorker, IInv, Progress, Workers
<1>1. /\ built \in Nat /\ built' = w /\ UNCHANGED has
      /\ interp' = [interp EXCEPT ![w] = "open"]
      /\ interp \in [Workers -> {"none", "open", "closed"}]
  BY <1>0 DEF AddWorker, IInv, TypeOK, Progress
<1>2. \A r \in Requests : has[r] # w
  BY <1>0, <1>1 DEF IInv, TypeOK, UsedAreOpen, Workers
<1>3. Ready' = Ready \cup {w} /\ w \notin Ready
  BY <1>0, <1>1 DEF Ready, Workers
<1>4. Pool!Add(w)
  BY <1>1, <1>2, <1>3, PoolAdd
<1> QED
  BY <1>4 DEF Pool!Next

LEMMA PoolAddFails == IInv /\ AddWorkerFails => UNCHANGED Pool!vars
<1> SUFFICES ASSUME IInv, AddWorkerFails PROVE UNCHANGED Pool!vars
  OBVIOUS
<1>1. /\ built \in 1..(N - 1) /\ UNCHANGED <<built, has>>
      /\ \A w \in Workers : w # built + 1 => interp'[w] = interp[w]
  BY PsgiAssumption DEF AddWorkerFails, IInv, TypeOK, Progress
<1>2. Ready' = Ready
  BY <1>1, PsgiAssumption DEF Ready, Workers
<1> QED
  BY <1>1, <1>2, SameLent DEF Pool!vars, Ready, Lent

LEMMA PoolRetire == IInv /\ CloseWorker => Pool!Next
<1> SUFFICES ASSUME IInv, CloseWorker PROVE Pool!Next
  OBVIOUS
<1>0. PICK w0 \in Workers : w0 = Head(pool)
  BY Received DEF CloseWorker
<1>1. /\ pool # << >> /\ pool' = Tail(pool) /\ UNCHANGED <<built, has>>
      /\ interp' = [interp EXCEPT ![w0] = "closed"]
      /\ interp \in [Workers -> {"none", "open", "closed"}] /\ built \in 0..N
  BY <1>0 DEF CloseWorker, IInv, TypeOK
<1>2. \A r \in Requests : has[r] # w0
  BY <1>0, <1>1, Received
<1>3. w0 \in Ready
  <2>1. w0 = pool[1] /\ 1 \in 1..Len(pool)
    BY <1>0, <1>1, TailPool DEF IInv, TypeOK
  <2> QED
    BY <2>1 DEF IInv, UsedAreOpen, Ready, Workers
<1>4. Ready' = Ready \ {w0}
  BY <1>1, <1>2, PsgiAssumption DEF Ready, Workers
<1>5. Lent' = Lent /\ Lent[w0] = NoRequest
  BY <1>1, <1>2, SameLent, BorrowerNone DEF Lent
<1>6. Pool!Retire(w0)
  BY <1>3, <1>4, <1>5 DEF Pool!Retire, Ready, Lent
<1> QED
  BY <1>2, <1>6 DEF Pool!Next

LEMMA PoolLend == ASSUME NEW r \in Requests PROVE IInv /\ Checkout(r) => Pool!Next
<1> SUFFICES ASSUME IInv, Checkout(r) PROVE Pool!Next
  OBVIOUS
<1>0. PICK w0 \in Workers : w0 = Head(pool)
  BY Received DEF Checkout
<1>1. /\ pool # << >> /\ pool' = Tail(pool) /\ UNCHANGED <<built, interp>>
      /\ has' = [has EXCEPT ![r] = w0] /\ has[r] = NoWorker
  BY <1>0 DEF Checkout, IInv, HasWhileServing
<1>2. \A s \in Requests : has[s] # w0
  BY <1>0, <1>1, Received
<1>3. w0 \in Ready
  <2>1. w0 = pool[1] /\ 1 \in 1..Len(pool)
    BY <1>0, <1>1, TailPool DEF IInv, TypeOK
  <2> QED
    BY <2>1 DEF IInv, UsedAreOpen, Ready, Workers
<1>4. \A s \in Requests : has'[s] = IF s = r THEN w0 ELSE has[s]
  BY <1>1 DEF IInv, TypeOK
<1>5. Holders(w0)' = {r} /\ \A w \in Workers : w # w0 => Holders(w)' = Holders(w)
  BY <1>1, <1>2, <1>4, PsgiAssumption DEF Holders
<1>6. Lent' = [Lent EXCEPT ![w0] = r]
  <2>1. Borrower(w0)' = r
    BY <1>5 DEF Borrower
  <2>2. ASSUME NEW w \in Workers, w # w0 PROVE Borrower(w)' = Borrower(w)
    BY <1>5, <2>2, BorrowerKept DEF IInv
  <2> QED
    BY <2>1, <2>2 DEF Lent
<1>7. Lent[w0] = NoRequest
  BY <1>2, BorrowerNone DEF Lent
<1>8. \A w \in Workers : Lent[w] # r
  BY <1>1, PsgiAssumption DEF Lent, Borrower, Holders
<1>9. Ready' = Ready
  BY <1>1 DEF Ready
<1>10. Pool!Lend(w0, r)
  BY <1>3, <1>6, <1>7, <1>8, <1>9 DEF Pool!Lend, Ready, Lent
<1> QED
  BY <1>2, <1>10 DEF Pool!Next

LEMMA PoolGiveBack ==
  ASSUME NEW r \in Requests
  PROVE  IInv /\ Return(r) /\ chan = "open" => Pool!Next
<1> SUFFICES ASSUME IInv, Return(r), chan = "open" PROVE Pool!Next
  OBVIOUS
<1>0. PICK w0 \in Workers : w0 = has[r]
  BY DEF Return, IInv, HasWhileServing, Serving
<1>1. /\ UNCHANGED <<built, interp>> /\ has' = [has EXCEPT ![r] = NoWorker]
      /\ OnceHeld
  BY DEF Return, IInv
<1>2. Borrower(w0) = r /\ r # NoRequest
  BY <1>0, <1>1, BorrowerIs
<1>3. Holders(w0)' = {} /\ \A w \in Workers : w # w0 => Holders(w)' = Holders(w)
  BY <1>0, <1>1, PsgiAssumption DEF Holders, OnceHeld, IInv, TypeOK
<1>4. Lent' = [Lent EXCEPT ![w0] = NoRequest]
  <2>1. Borrower(w0)' = NoRequest
    BY <1>3 DEF Borrower
  <2>2. ASSUME NEW w \in Workers, w # w0 PROVE Borrower(w)' = Borrower(w)
    BY <1>3, <2>2, BorrowerKept DEF IInv
  <2> QED
    BY <2>1, <2>2 DEF Lent
<1>5. Ready' = Ready /\ Lent[w0] # NoRequest
  BY <1>1, <1>2 DEF Ready, Lent
<1>6. Pool!GiveBack(w0)
  BY <1>4, <1>5 DEF Pool!GiveBack, Ready, Lent
<1> QED
  BY <1>1, <1>6 DEF Pool!Next

LEMMA PoolStep == IInv /\ [Next]_vars => [Pool!Next]_(Pool!vars)
<1> SUFFICES ASSUME IInv, [Next]_vars PROVE Pool!Next \/ UNCHANGED Pool!vars
  OBVIOUS
<1>1. CASE UNCHANGED <<built, interp, has>>
  BY <1>1, PoolStutter
<1>2. CASE Load \/ AddWorker \/ AddWorkerFails
  BY <1>2, PoolLoad, PoolAddWorker, PoolAddFails
<1>3. CASE CloseWorker
  BY <1>3, PoolRetire
<1>4. CASE LoadFails \/ Close \/ UNCHANGED vars
  BY <1>1, <1>4 DEF LoadFails, Close, vars
<1>5. ASSUME NEW r \in Requests, Handler(r) PROVE Pool!Next \/ UNCHANGED Pool!vars
  <2>1. CASE Arrive(r) \/ Cancel(r) \/ Unavailable(r) \/ CheckoutNothing(r)
    BY <1>1, <2>1 DEF Arrive, Cancel, Unavailable, CheckoutNothing, server
  <2>2. CASE Advance(r) \/ Fail(r)
    BY <1>1, <2>2 DEF Advance, Fail, server
  <2>3. CASE Checkout(r)
    BY <2>3, PoolLend
  <2>4. CASE Return(r) /\ chan = "open"
    BY <2>4, PoolGiveBack
  <2>5. CASE Return(r) /\ chan # "open"
    BY <1>1, <2>5 DEF Return, IInv, TypeOK
  <2> QED
    BY <1>5, <2>1, <2>2, <2>3, <2>4, <2>5 DEF Handler
<1> QED
  BY <1>2, <1>3, <1>4, <1>5 DEF Next

(***************************************************************************)
(* The server implements the pool of single-threaded workers, with any     *)
(* number of workers and requests, and through Close and a failing New.    *)
(***************************************************************************)
THEOREM LendsWorkers == Spec => ImplementsPool
<1>1. Spec => Pool!Init /\ [][Pool!Next]_(Pool!vars)
  BY PoolInit, PoolStep, Invariant, PTL DEF Spec
<1> QED
  BY <1>1 DEF ImplementsPool, Pool!Spec
===============================================================================
