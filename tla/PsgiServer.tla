------------------------------ MODULE PsgiServer ------------------------------
(***************************************************************************)
(* The PSGI server (psgi/psgi.go): New loads the application into a        *)
(* prototype interpreter and clones it into workers, which wait in a       *)
(* buffered channel; each request receives one, runs the application in it *)
(* and sends it back; Close closes the channel and the workers in it, and  *)
(* does not wait for requests.                                             *)
(***************************************************************************)
EXTENDS Naturals, Sequences

CONSTANTS
  N,          \* number of workers; worker 1 is the prototype
  Requests,   \* calls of ServeHTTP
  NoRequest,  \* "lent to nobody"
  NoWorker,   \* "has no worker": also the zero worker of a closed channel
  Endless     \* requests whose Perl code runs until it is cancelled

Workers == 1..N

ASSUME PsgiAssumption ==
  /\ N \in Nat \ {0}
  /\ NoRequest \notin Requests
  /\ NoWorker \notin Workers
  /\ Endless \subseteq Requests

VARIABLES
  phase,     \* of New: loading, cloning, serving (it returned) or abandoned
  built,     \* workers that New has sent to the channel
  pool,      \* content of the channel workers
  chan,      \* the channel: open or closed
  interp,    \* interpreter of each worker: none, open or closed
  pc,        \* where each request is
  has,       \* worker each request received
  gone,      \* requests whose context is done
  answer     \* response of each request: none, 503, 413, 500, app or implicit

vars == <<phase, built, pool, chan, interp, pc, has, gone, answer>>

server == <<phase, built, pool, chan, interp>>

\* The stages of serve, in order, and the deferred return of the worker.
Stages == {"body", "input", "env", "app", "write"}
Following == [body |-> "input", input |-> "env", env |-> "app", app |-> "write",
              write |-> "returning"]

Serving(r) == pc[r] \in Stages \cup {"returning"}

Init ==
  /\ phase = "loading"
  /\ built = 0
  /\ pool = << >>
  /\ chan = "open"
  /\ interp = [w \in Workers |-> IF w = 1 THEN "open" ELSE "none"]
  /\ pc = [r \in Requests |-> "idle"]
  /\ has = [r \in Requests |-> NoWorker]
  /\ gone = {}
  /\ answer = [r \in Requests |-> "none"]

-------------------------------------------------------------------------------
(***************************************************************************)
(* New.                                                                    *)
(***************************************************************************)

\* loadWorker evaluates the application and the helpers in the prototype.
Load ==
  /\ phase = "loading"
  /\ phase' = IF N = 1 THEN "serving" ELSE "cloning"
  /\ built' = 1
  /\ pool' = <<1>>
  /\ UNCHANGED <<chan, interp, pc, has, gone, answer>>

\* loadWorker fails: New returns the error and leaves the prototype alone.
LoadFails ==
  /\ phase = "loading"
  /\ phase' = "abandoned"
  /\ UNCHANGED <<built, pool, chan, interp, pc, has, gone, answer>>

\* Variant: the loop of New counts from 0.
AddOneMore ==
  /\ phase = "cloning"
  /\ built' = built + 1
  /\ interp' = [w \in Workers |-> IF w = built + 1 THEN "open" ELSE interp[w]]
  /\ pool' = Append(pool, built + 1)
  /\ phase' = IF built = N THEN "serving" ELSE "cloning"
  /\ UNCHANGED <<chan, pc, has, gone, answer>>

\* Clone and adoptWorker make the next worker.
AddWorker ==
  /\ phase = "cloning"
  /\ built' = built + 1
  /\ interp' = [interp EXCEPT ![built + 1] = "open"]
  /\ pool' = Append(pool, built + 1)
  /\ phase' = IF built + 1 = N THEN "serving" ELSE "cloning"
  /\ UNCHANGED <<chan, pc, has, gone, answer>>

\* Variant: a clone that could not adopt the application is forgotten.
AddWorkerFailsLeaking ==
  /\ phase = "cloning"
  /\ phase' = "abandoned"
  /\ chan' = "closed"
  /\ interp' \in {interp, [interp EXCEPT ![built + 1] = "open"]}
  /\ UNCHANGED <<built, pool, pc, has, gone, answer>>

\* Clone fails, or adoptWorker does and the clone is closed: New gives up and
\* calls Close.
AddWorkerFails ==
  /\ phase = "cloning"
  /\ phase' = "abandoned"
  /\ chan' = "closed"
  /\ interp' \in {interp, [interp EXCEPT ![built + 1] = "closed"]}
  /\ UNCHANGED <<built, pool, pc, has, gone, answer>>

-------------------------------------------------------------------------------
(***************************************************************************)
(* Close: close the channel, then receive and close what is left in it.    *)
(***************************************************************************)
Close ==
  /\ phase = "serving"
  /\ chan = "open"
  /\ chan' = "closed"
  /\ UNCHANGED <<phase, built, pool, interp, pc, has, gone, answer>>

CloseWorker ==
  /\ chan = "closed"
  /\ pool # << >>
  /\ pool' = Tail(pool)
  /\ interp' = [interp EXCEPT ![Head(pool)] = "closed"]
  /\ UNCHANGED <<phase, built, chan, pc, has, gone, answer>>

-------------------------------------------------------------------------------
(***************************************************************************)
(* ServeHTTP.                                                              *)
(***************************************************************************)

\* net/http calls the handler.
Arrive(r) ==
  /\ phase = "serving"
  /\ pc[r] = "idle"
  /\ pc' = [pc EXCEPT ![r] = "waiting"]
  /\ UNCHANGED <<server, has, gone, answer>>

\* The client goes away, or a timeout set around the handler expires.
Cancel(r) ==
  /\ pc[r] = "waiting" \/ Serving(r)
  /\ r \notin gone
  /\ gone' = gone \cup {r}
  /\ UNCHANGED <<server, pc, has, answer>>

\* Variant: the worker is looked at but not taken out of the channel.
CheckoutPeeking(r) ==
  /\ pc[r] = "waiting"
  /\ pool # << >>
  /\ has' = [has EXCEPT ![r] = Head(pool)]
  /\ pc' = [pc EXCEPT ![r] = "body"]
  /\ UNCHANGED <<server, gone, answer>>

\* case wk = <-ws.workers.
Checkout(r) ==
  /\ pc[r] = "waiting"
  /\ pool # << >>
  /\ has' = [has EXCEPT ![r] = Head(pool)]
  /\ pool' = Tail(pool)
  /\ pc' = [pc EXCEPT ![r] = "body"]
  /\ UNCHANGED <<phase, built, chan, interp, gone, answer>>

\* case <-r.Context().Done().
Unavailable(r) ==
  /\ pc[r] = "waiting"
  /\ r \in gone
  /\ pc' = [pc EXCEPT ![r] = "done"]
  /\ answer' = [answer EXCEPT ![r] = "503"]
  /\ UNCHANGED <<server, has, gone>>

\* The channel is closed and empty: serve runs into the zero worker, unless it
\* cannot read the body; and the deferred send panics in any case.
CheckoutNothing(r) ==
  /\ pc[r] = "waiting"
  /\ chan = "closed" /\ pool = << >>
  /\ pc' = [pc EXCEPT ![r] = "panicked"]
  /\ answer' \in {answer, [answer EXCEPT ![r] = "413"]}
  /\ UNCHANGED <<server, has, gone>>

\* A stage of serve succeeds.  Every guest operation asks the context first,
\* so all but the reading of the body fail once it is done.
Advance(r) ==
  /\ pc[r] \in Stages
  /\ pc[r] # "body" => r \notin gone
  /\ pc[r] = "app" => r \notin Endless
  /\ pc' = [pc EXCEPT ![r] = Following[@]]
  /\ answer' = [answer EXCEPT ![r] = IF pc[r] = "write" THEN "app" ELSE @]
  /\ UNCHANGED <<server, has, gone>>

\* It fails: serve answers, but not for what writeResponse returns.
Fail(r) ==
  /\ pc[r] \in Stages
  /\ pc[r] = "app" /\ r \in Endless => r \in gone
  /\ pc' = [pc EXCEPT ![r] = "returning"]
  /\ answer' = [answer EXCEPT ![r] = CASE pc[r] = "body"  -> "413"
                                       [] pc[r] = "write" -> "implicit"
                                       [] OTHER           -> "500"]
  /\ UNCHANGED <<server, has, gone>>

\* Variant: the worker goes back only after a request that was answered.
ReturnOnSuccess(r) ==
  /\ pc[r] = "returning"
  /\ chan = "open" => Len(pool) < N
  /\ pc' = [pc EXCEPT ![r] = IF chan = "open" THEN "done" ELSE "panicked"]
  /\ pool' = IF chan = "open" /\ answer[r] = "app" THEN Append(pool, has[r]) ELSE pool
  /\ has' = [has EXCEPT ![r] = IF chan = "open" THEN NoWorker ELSE @]
  /\ UNCHANGED <<phase, built, chan, interp, gone, answer>>

\* The deferred send.  It would wait for room in the channel, and it panics
\* when the channel has been closed.
Return(r) ==
  /\ pc[r] = "returning"
  /\ chan = "open" => Len(pool) < N
  /\ pc' = [pc EXCEPT ![r] = IF chan = "open" THEN "done" ELSE "panicked"]
  /\ pool' = IF chan = "open" THEN Append(pool, has[r]) ELSE pool
  /\ has' = [has EXCEPT ![r] = IF chan = "open" THEN NoWorker ELSE @]
  /\ UNCHANGED <<phase, built, chan, interp, gone, answer>>

-------------------------------------------------------------------------------
Handler(r) ==
  \/ Arrive(r) \/ Cancel(r) \/ Checkout(r) \/ Unavailable(r) \/ CheckoutNothing(r)
  \/ Advance(r) \/ Fail(r) \/ Return(r)

Next ==
  \/ Load \/ LoadFails \/ AddWorker \/ AddWorkerFails
  \/ Close \/ CloseWorker
  \/ \E r \in Requests : Handler(r)

Spec == Init /\ [][Next]_vars

(***************************************************************************)
(* A channel hands over to its receivers in the order they came, stages    *)
(* end unless they are endless, and whoever asked for something endless    *)
(* goes away in the end.  Close is a loop that runs to its end.            *)
(***************************************************************************)
FairSpec ==
  /\ Spec
  /\ WF_vars(CloseWorker)
  /\ \A r \in Requests :
       /\ SF_vars(Checkout(r))
       /\ WF_vars(CheckoutNothing(r))
       /\ WF_vars(Advance(r) \/ Fail(r))
       /\ WF_vars(Return(r))
  /\ \A r \in Endless : WF_vars(Cancel(r))

-------------------------------------------------------------------------------
TypeOK ==
  /\ phase \in {"loading", "cloning", "serving", "abandoned"}
  /\ built \in 0..N
  /\ pool \in Seq(Workers) /\ Len(pool) <= N
  /\ chan \in {"open", "closed"}
  /\ interp \in [Workers -> {"none", "open", "closed"}]
  /\ pc \in [Requests -> Stages \cup {"idle", "waiting", "returning", "done", "panicked"}]
  /\ has \in [Requests -> Workers \cup {NoWorker}]
  /\ gone \subseteq Requests
  /\ answer \in [Requests -> {"none", "503", "413", "500", "app", "implicit"}]

InPool(w) == \E i \in 1..Len(pool) : pool[i] = w

Holders(w) == {r \in Requests : has[r] = w}

(***************************************************************************)
(* Never more than one request per worker at a time (psgi.go 31 and the    *)
(* comment on Server): a worker is in the channel once or with one request,*)
(* and a request runs only in an interpreter that is open.                 *)
(***************************************************************************)
OneRequestPerWorker ==
  /\ \A i, j \in 1..Len(pool) : pool[i] = pool[j] => i = j
  /\ \A r, s \in Requests : has[r] = has[s] /\ has[r] # NoWorker => r = s
  /\ \A r \in Requests : Serving(r) => ~InPool(has[r]) /\ interp[has[r]] = "open"

(***************************************************************************)
(* No interpreter is lost: one that is open is in the channel, or with a   *)
(* request, or is the prototype that New has not taken over.               *)
(***************************************************************************)
NoWorkerLost ==
  \A w \in Workers :
    interp[w] = "open" => InPool(w) \/ Holders(w) # {} \/ (w = 1 /\ built = 0)

(***************************************************************************)
(* Every request gets an answer, whatever others do to the workers, unless *)
(* the server is closed.                                                   *)
(***************************************************************************)
RequestsEnd ==
  \A r \in Requests : pc[r] = "waiting" ~> pc[r] = "done" \/ chan = "closed"

(***************************************************************************)
(* The sends and receives implement the lending of workers.                *)
(***************************************************************************)
Borrower(w) == IF Holders(w) = {} THEN NoRequest ELSE CHOOSE r \in Holders(w) : TRUE

Pool == INSTANCE WorkerPool WITH
          Users  <- Requests,
          NoUser <- NoRequest,
          ready  <- {w \in 1..built : interp[w] = "open"},
          lent   <- [w \in Workers |-> Borrower(w)]

ImplementsPool == Pool!Spec
================================================================================
