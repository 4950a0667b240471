# go-perl in TLA+

go-perl embeds the Perl interpreter, compiled to WebAssembly and from there to Go, in a Go
program. The interpreter is single-threaded C code with one stack in one linear memory; the
Go side lets many goroutines use it, calls Go functions from Perl, cancels running Perl code,
lets the Go garbage collector decide when Perl values may die, clones whole interpreters, and
serves HTTP from them. XS modules are compiled for the host against an SDK that stands in for
perl.h: native C code that Perl calls, and that works on copies of what the guest has. The
modules here specify those protocols. They are model-checked with
TLC on small instances, and the invariants that matter most are proved with TLAPS for every
instance.

## 1. Inventory of the system

| Part | Source | State | Operations | Modelled by |
|---|---|---|---|---|
| Instance entry | `internal/perl.go` `Module`, `internal/instance.go` | `mu`, `closed`, `pendingRel`, `mapped`; the guest's stack | `valueOp` and the operations on top of it, `drainReleases`, `QueueRelease`, `Close`, `EnsureDispatcher`, `handleCallback` | `NestedEntry`, `InstanceEntry` |
| Cancellation | `internal/instance.go` `armInterrupt` | the flag word in guest memory, one watchdog goroutine per operation | arm, fire, stop, disarm; the guest tests the flag per opcode | `Interrupt` |
| Reference handles | `value.go`, `wire.go`, `internal/clone.go` | `refHandle`s, the guest's registry of pins, the release queue | encode, decode, finalize, drain, `Clone`, `Adopt`, `Close` | `HandlePins` |
| PSGI server | `psgi/psgi.go` | channel of workers, one interpreter each | `New`, `ServeHTTP`, `serve`, `Close` | `WorkerPool`, `PsgiServer` |
| Go functions for Perl | `bridge.go`, `internal/native.go` | `funcs`, `nextFuncID`, `callbacks`, `dispatcherSet` | `Bind`, `BindClass`, `EnsureDispatcher`, `handleUserCallback` | locking in `InstanceEntry`; tables planned |
| Clone images, snapshot | `internal/clone.go`, `internal/snapshot.go` | `cloneImg` (built once), `snapshots` (one per library and environment) | `Clone`, `AddCloneHook`, `sharedSnapshot` | registry part in `HandlePins`; rest planned |
| Wire codec | `wire.go` | none | `encodeValue`, `decodeNode`, envelopes | handles in `HandlePins`; format planned |
| Values | `value.go` | none | coercions, `numify` | planned |
| Bridge protocol | `internal/perl.go` (generated) | none | varints, one wrapper per method | varints planned |
| Native hooks, XS loader | `internal/native.go`, `xs/xs.go` | mirrors of MAGIC chains, destructors, layers, native functions | `load`, `dispatch`, `magicExt`, `magicDel`, `magicFreed`, ... | the calls it makes in `XsFrames`, `XsParser`, `PerlioLayer`; MAGIC chains planned |
| XS SDK: activations | `xs/sdk/include/perl.h` | a frame per call with its jump buffer, the host save stack, `xs_depth`, `scope` | entry and exit of XSUBs, hooks, keyword plugins; `croak`, `XCPT_TRY`, `ENTER`, `LEAVE`, `SAVEVPTR` | `DynamicScope`, `XsFrames` |
| XS SDK: current frames | same | a table by thread, shared by all instances | `goperl_curframe_slot` | `FrameTable` |
| XS SDK: marks and arguments | same | argument stack, mark stack, `PL_markstack_ptr` | `dXSARGS`, `PUSHMARK`, `call_sv`, `XSRETURN` | `XsStack` |
| XS SDK: copies of values | same | slots for `SvIVX`, `SvCUR`, `AvARRAY`, `PL_hints`, `PL_perldb`, ... | the macros, `goperl_flush`, `goperl_do_op` | `XsMirrors` |
| XS SDK: optrees | same | shadows of OPs, their registry, kept shadows of hooked OPs | `newOP`, `op_append_elem`, `op_free`, `NewOpSz`, write-back | `XsOps` |
| XS SDK: keyword plugins | same | the chain of plugins, one shadow of the parser | `wrap_keyword_plugin`, `keyword_invoke`, `lex_*`, `parse_*` | `XsParser` |
| XS SDK: layers | `xs/sdk/include/perliol.h` | shadows of PerlIO layers, a window on guest memory | `PerlIO_define_layer`, push, pop, `Fill`, `PerlIO_read` on the layer below | `PerlioLayer` |
| XS SDK: the rest | both, and tables | none | formats, UTF-8, number parsing, names of ops | no (pure) |
| Library and files | `fs.go`, `fs/fs.go`, `stdlib.go`, `inc.go`, `config.go` | files | extraction, `AddInc`, `AddXSDir` | no (input and output) |
| Process helpers | `run.go`, `exit.go` | none | run a program, map exit codes | no (straight line) |
| gperl | `gperl/*.go`, `cmd/gperl` | the project's `local/` tree, scratch directories | `EnsureDeps`, `Build`, `XSBuild`, command line | dependencies and argument parser planned |

How they meet. Every use of the guest goes through `Module.invoke`, which holds `mu`. The
public operations encode their arguments (`wire.go`), then `valueOp` asks the context and
`closed`, drains the release queue in a guest call of its own, arms the watchdog, invokes, and
disarms. The guest calls Go through `handleCallback`, which gives `mu` up for the duration of
the Go function; the function may use the instance again. Finalizers touch the release queue
only. Watchdogs touch the flag word only, without `mu`. `Clone` copies guest memory, registry
included, and the host tables. Native code runs inside guest calls, on the same C stack as the
guest: the loader's dispatch calls an XSUB or a hook with a frame, native code calls operations
of the guest, which may run Perl code, which may call native code again. The PSGI server owns one interpreter per worker and lends it to
one request at a time.

What is hard, and what makes each part correct:

* *Instance entry.* Suspended calls share one C stack: they have to return in the reverse of
  the order they started in. `closed` is read before `mu` is waited for. Correct means: one
  executor; it is the innermost call; nobody executes in a destroyed memory; callbacks do not
  keep others out.
* *Cancellation.* One flag serves all operations, and is stored without a lock while the
  operation it is meant for may be over, queued, or suspended in a callback. Correct means: no
  flag outlives its operation; nobody is interrupted for somebody else; cancelling works.
* *Handles.* The garbage collector acts between any two steps, and the release of a pin is
  delayed to a later operation. Correct means: as many pins as handles; a held object lives; a
  call finds what it was given.
* *PSGI.* Failures at every stage, clients that go away, and `Close` with requests in
  flight. Correct means: a worker serves one request; no interpreter gets lost; requests end.
* *Clones, tables.* A clone maps the image of the first `Clone` with the tables of today.
* *Activations.* A croak is a `longjmp` over whatever is open; entries, scopes and the parked
  fields of interrupted activations share one save stack; a hook at rest is not counted.
  Correct means: the current frame is that of the function that runs; a croak lands in the
  innermost function that waits for it; saved variables get their values back.
* *Current frames.* Threads claim slots without a lock. Correct means: everyone finds its own.
* *Marks.* One global stands for the marks of whichever frame was last. Correct means: a call
  takes the arguments that were pushed for it.
* *Copies.* C code assigns to a copy; Perl code, an operation, another macro or a nested
  activation may change the original in between. Correct means: the last assignment is what
  either side sees.
* *Optrees.* Addresses of OPs are used again; a hooked OP is executed long after its
  compilation. Correct means: assignments arrive, a shadow is of the OP that is there now, the
  hook finds what the module kept for it.
* *Plugins.* Hooks nest, with one parser shadow between them. Correct means: every parser goes
  on where its text was left; every plugin is asked once.
* *Layers.* A `Fill` that reads makes another one run in its middle. Correct means: the text
  arrives in order, and each layer has the state of its own.
* *MAGIC chains.* Hooks edit the chain they are called from.
* *gperl.* A failed step leaves files behind that a later run trusts.

`PROJECT.json` lists the hazards with their lines, and the properties that cover them.

## 2. The modules

### NestedEntry and InstanceEntry

`NestedEntry` is the promise of the comment on type `Module`: entries form a stack, only the
innermost call runs, and it ends before the one below it resumes.

`InstanceEntry` is the code. Per goroutine, `pc` says where it is on the host side (`host`: in
its own code or in a Go callback; `checked`: past the test of `closed` in `valueOp`; one of the
`Jobs`: waiting for `mu` to make that entry; `resume`: waiting for `mu` after a callback;
`unmap`: `Close` after its guest call) or that it executes guest code. `frames[g]` are its
calls on the guest stack with the stack position and the job of each; `sp` is the guest's stack
pointer; `mu`, `closed`, `pending` (the length of `pendingRel`) are the fields of those names;
`life` is the state of the guest memory.

| Action | Code |
|---|---|
| `StartOp`, `Drain` | `valueOp` up to `invoke`; `drainReleases` takes the queue, and makes a guest call unless it is empty or the instance is closed by then |
| `StartBind` | `EnsureDispatcher`, which does not look at `closed` |
| `StartClose`, `Unmap` | `Close`: the compare-and-swap; then, after the guest call, `releaseMapping` outside `mu` |
| `QueueRelease` | a finalizer |
| `Enter`, `Exit` | `invoke` takes `mu`; it returns, by a trap too, with the stack pointer it had on entry |
| `Callback`, `HandlerReturn`, `Resume` | `handleCallback`: unlock, the Go function returns or panics, lock |

The stack pointer is modelled as the generated code treats it: an entry lowers it and on return
restores the value it had on entry, whatever has happened in between. The size of frames does
not matter; a frame is one position.

Constants describe the program that uses the library: which goroutines' Perl code calls Go
(`Callers`), which call `Bind` (`Binders`), whether it closes only at rest (`QuietClose`), and
whether it binds after `Close` (`BindAfterClose`).

### Interrupt

One action per step of `valueOp` that concerns cancellation: `StartCancelled` (the context is
done already), `Start` (arms the watchdog, before `mu` is taken), `Enter`, `Finish`, `Disarm`
(`close(stop)`) and `Collect` (`<-fired`, clears the flag if the watchdog fired); the two cases
of the watchdog's `select` (`Fire`, `Stop`; when both are ready either may be taken, as in Go);
`Cancel` by the owner of the context; the guest's test of the flag, which ends the operation
(`Interrupted`) or is trapped by a Perl `eval` block (`Trapped`); `Callback` and
`HandlerReturn`, between which operations made by the callback run. `mu` is kept as what
`InstanceEntry` shows of it, that one call executes at a time. `alone` is a history variable: no other
operation has overlapped this one.

### HandlePins

`pins[i][o]` is the number of pins of object `o` in the registry of instance `i`, `handle[h]`
a Go `refHandle` with the state of its release: `held` (reachable), `queued` (its finalizer
ran), `draining` (taken from the queue, guest call to come). An operation reads the ids of its
handles (`Encode`), is refused (`Refuse`) or takes the queue (`Take`), gives the pins back in a
guest call (`Release`), and makes its own guest call (`Run`, `RunReturning`). `Collect` is the
garbage collector; it may run between any two of these. `Clone` copies the registry from the
image that the first `Clone` built, `Adopt` makes a handle for a copied pin, and `Close` takes
the registry away. Handle ids are reused after release, so a bounded set stands for any number.

The constant `HeldDuringCall` says whether the program keeps what it passes to a call reachable
until the call returns. The code does not do that for it: `MethodCall`, `Call` and the others
do not use their handles after encoding.

### WorkerPool and PsgiServer

`WorkerPool` is lending: a worker is lent to one user, a user has one worker, and a worker is
retired only when nobody has it. `PsgiServer` is `New` (load the application, then clone and
adopt worker by worker, each of which may fail), `ServeHTTP` with its `select`, `serve` by its
stages (body, psgi.input, environment, application, response), each of which may succeed or
fail, the deferred send, and `Close` in two steps (close the channel, receive and close what is
left). `Close` is possible at any time while the server serves; a worker that comes back then
panics in its send, as the code does, and a request that finds the channel closed and empty
gets the zero worker.

### DynamicScope and XsFrames

`DynamicScope` is the promise of `SAVEVPTR` and `save_hptr`: a scope that ends, normally or by a
croak together with scopes around it, gives the saved locations their values back.

`XsFrames` is the code. `regions` are the C functions and scopes that are open on the stack,
with what each has in its locals (`prev_frame`, `prev_jb`); `mem` holds the three fields of
each frame (`jb`, `prev_frame`, `hostsave_base`) together with the variables that module code
saves, because the save stack `saves` has entries for both; `cur` is the thread's current frame,
`depth` and `scope` are the counters of those names. A jump buffer is the position of the region
that armed it, and a croak cuts `regions` there. Four fields of a region (`was`, `prev0`,
`base0`, `scope`) and `start` where the code does not keep it are history: what the region found
when it began.

| Action | Code |
|---|---|
| `Dispatch`, `DispatchOverflow`, `CallDirect` | `dXSARGS`, on a new frame, with the save stack full, and on the caller's frame (`(*CvXSUB(cv))(aTHX_ cv)`) |
| `PpInvoke`, `KeywordInvoke`, `HookInvoke` | `__goperl_pp_invoke`, `__goperl_keyword_invoke`, `svt_invoke` and `dtor_invoke` |
| `Save`, `EnterScope`, `LeaveScope`, `TryStart`, `TryEnd` | `SAVEVPTR` and the others, `ENTER`, `LEAVE`, `XCPT_TRY` |
| `Return`, `BareReturn`, `Epilogue`, `HookReturn`, `KeywordReturn` | `goperl_xs_leave`, `__goperl_xs_epilogue`, the tails of the hooks |
| `CroakFrom...`, `CroakOutside` | `goperl_raise`, and the handler it lands in |

`Careful` states the habits under which the protocol is right: native calls from a hook at rest
are made with no scope open (`Sheltered`), and croaks come out of an XSUB that Perl called at
rest, or out of a hook or TRY block with no scope open (`Expected`). What happens without the
second is the run `xs_nested_croak`.

### FrameTable

One action per step of `goperl_curframe_slot` that other threads can see: begin, look at a slot,
the compare-and-swap, and the use of the slot that was found. `at` and `probe` are where a thread
is in the loop; `written` is a history variable. The hash and the size of the table are
parameters.

### XsStack

`marks`, `markidx` and `psp` are the stacks of each frame (of the argument stack only the top
matters), `markPtr` the published `PL_markstack_ptr`, `subs` the running XSUBs. `EnterXsub`,
`EnterDirect`, `LeaveWith` and `CroakOut` are calls and their ends, `PushMark`, `Unpop`
(`++PL_markstack_ptr`), `CallSv` and `EvalSv` what uses marks, with `goperl_marks_adopt` in
each. `pushed` is a history variable: the marks that a frame's XSUBs have pushed and not popped.
An XSUB pops only marks that it pushed (`OwnMark`). `CroakOut` is a croak out of an XSUB that the
guest called; one out of a direct call leaves no current frame to go on with, which is what the
run `xs_nested_croak` is about.

### XsMirrors

A cell is something that native code uses as if it were a C variable; `guest`, `slot` and
`shadow` are its value in the guest, the host's copy, and what the copy held when it was last
synchronised. The macros differ (`FetchMirror`, `FetchHints`, `FetchCur`, `FetchContext`,
`FetchVar`) in when they fetch, and their slots in what makes them pending and how long they
live. Operations differ in what they keep (`NewValue`, `ReadValue`, `Inspect`, `LookUp`), what
they write (`SetScalar`, `SetArray`), and whether Perl code may run (`GuestOp`). `meant` is a
history variable: what was last assigned, by either side. Modules are taken to make an operation
after the last `SvCUR` or `PL_perldb` of a hook (`LeaveHook`), since hooks end without
`goperl_flush`, and between `PL_curstackinfo` and a call (`GuestOp`, `LeaveXsub`).

### XsOps

`ops` are the guest's OPs, `blocks` the host's shadows, `registry` those that
`goperl_op_shadow` finds, `extended` those that are kept for hooked OPs. Lookup, pulling,
write-back by comparison with a baseline, and clearing are operators on a record of the host's
structures, so that an action is the composition of the functions the code calls. Constructors,
relinking, parsing, freeing, `NewOpSz`, hooked execution, the end of a hook in its three ways and
what the guest does by itself are actions. Fields are assigned only to full shadows, and only in
keyword hooks (`AssignLink`). `Recycled` says whether Perl reuses the address of a freed OP
that the registry still has; see the end of section 3.

### XsParser

`parsers` are the guest's (nested by `require` and `eval`), `pulled` the one shadow, `hooks` the
running hooks with the plugin that is being asked. `WrapKeywordPlugin`, `KeywordHook`,
`AskNext`, `ClaimWord`, `DeclineWord` and `CroakInHook` are the chain; `Lex`, `ParseMore`,
`CallPerl` and `BackInHook` what a plugin calls. `Confined` says that code which a hook calls
past the parser (`call_sv`) compiles no keyword of its own: the code does not pull again after
such a call.

### PerlioLayer

`handle` is the stack of proxy layers, `bytes` guest memory with the buffer of each, `window` the
pair `goperl_iol_gbuf_v`, `goperl_iol_hbuf_v`, `iols` the host's shadows, `filling` the running
Fills. The Fill that is modelled reads from the layer below and may keep an incomplete end back,
as PerlIO::utf8_strict does. The buffers are separate allocations of the guest
(`LayerAssumption`: they do not overlap). `TextArrives` is stated with cuts: some cutting of the
text gives the source, each layer and the reader their parts.

### MCXsControl and MCXsData

Each puts several of these modules, which share no state, into one run: a behaviour picks a part
at the start (`part`; in `MCXsData` also two cells, `focus`) and the others stay at their initial
states. The states of the run are the union of those of the parts, not their product.

## 3. The runs

| Run | Question | Bounds | Result |
|---|---|---|---|
| `entry_documented` | Is a program that follows the documentation safe? | 3 goroutines, one makes callbacks, two bind; 2 calls deep; 1 release | all hold |
| `entry_two_callers` | May two goroutines call back? | 2 goroutines, 2 deep | `StackDiscipline` fails |
| `entry_close_race` | May `Close` race operations? | 2 goroutines, no callbacks | `NoStragglers` fails |
| `entry_bind_after_close` | Does `Bind` fail cleanly after `Close`? | 2 goroutines | `NoStragglers` fails |
| `interrupt_overlap` | Is cancellation precise when calls overlap? | a call, one from its callback, one unrelated; the first is endless, the last traps dies | all hold |
| `interrupt_nested` | Does cancelling always stop the call? | a call and one from its callback | `CancelStops` fails |
| `handles_held` | Are pins and handles in step? | 2 objects, 3 handles, 2 goroutines, 1 clone; 1 handle per call | all hold |
| `handles_in_flight` | And when the last reference is passed? | 1 object, 2 handles, 1 goroutine | `CallsFindTheirObjects` fails |
| `psgi_requests` | Does the server lend, keep and return its workers? | 2 workers, 3 requests, one endless | all hold |
| `xs_control` | Do activations, frames and marks of careful modules nest properly? | 3 frames, 3 open C functions or scopes, save stack of 8; 3 threads, 2 slots, 2 of the threads with one hash; 2 frames, 2 marks, 3 nested XSUBs | all hold |
| `xs_nested_croak` | And when an XSUB called by pointer croaks? | as above | `CurrentIsTop` fails |
| `xs_data` | Are copies of guest data written and read in time? | 2 of 8 cells at a time, 2 nested activations, tables of 1 slot; 2 OP addresses with 2 blocks each, 3 shadows; 2 plugins, 3 texts, 2 parsers, 2 hooks; 2 layers, buffers of 2, a text of 3 | all hold |

Why the bounds are enough. `InstanceEntry`: three goroutines give one that executes, one that
waits and one suspended; two frames per goroutine give a call, its callback's call, and a
foreign call in between, which is every way two frames can be ordered on the stack; a queue of
one release is enough to make every operation drain. `Interrupt`: the three calls cover
nesting, queueing, and both together, and each can be made again with a fresh context, so that
leftovers of an earlier round can do harm. `HandlePins`: three handles allow two handles of one
object with another in the queue, and both goroutines can drain. `PsgiServer`: with more
requests than workers somebody waits, and the endless request keeps one worker until its client
goes away. `XsFrames`: three open functions are the one that croaks, one that is skipped and
the one that catches, in each combination of kinds; the save stack of 8 holds the parked fields
of two activations and is full at the third. `FrameTable`: two threads race for a slot and a
third finds the table full. `XsStack`: a direct call below a nested one, with the memory of a frame
used again. `XsMirrors`: hazards are between two cells (a shared slot, a table that is full) or
between two activations. `XsOps`: an OP and the one it links to, one of them freed and its address
used again, with a shadow left over; `XsParser`: a hook in a block that a hook parses, in its own
parser or in a nested one; `PerlioLayer`: a Fill within a Fill, at two offsets of the window.
Symmetry is used for `HandlePins`, where all properties are safety properties, and for the
frames of `XsFrames`, which its properties and the refinement mapping treat alike.
Deadlock is checked everywhere but in `PsgiServer`, which stops when its requests are answered,
and in the two XS runs, where a table may abort the process, `croak` without a target calls
`abort()`, and a text comes to its end.

What the failing runs say about the code:

1. *Two callers* (`internal/perl.go:502`). The comment says it does not matter which goroutine
   enters during a callback. It does: when two calls of different goroutines are both suspended
   in callbacks, nothing makes them return in stack order, and the one below may go on over the
   live frames of the other. `SingleCallerStacks` proves the case in which it cannot happen.
2. *Close race* (`internal/instance.go:125`). The check of `closed` and the entry are not
   atomic, so the straggler the comment speaks of gets in.
3. *Bind after Close* (`internal/instance.go:329`). Three entry points have no check.
4. *Nested cancellation* (`perl.go:98`). The watchdog stores the flag once; another call may
   consume it. The cancelled call then is not stopped, and the other one is.
5. *Handles in flight* (`value.go:259`). An object may be released by the drain of the very
   call it is passed to. One `runtime.KeepAlive` per operation would make `HeldDuringCall` true.

6. *Nested croak* (`xs/sdk/include/perl.h:2294`). The handler of `dXSARGS` unwinds the save
   stack, which restores the parked fields of the frame, and `goperl_xs_leave` then reads
   `prev_frame` from it. Its comment says that it is read before the unwind; on this path it is
   not, and the current frame becomes that of the caller's caller (NULL) while the caller runs.

Three more disagreements show when a constant of the model is changed; the configurations do not
include them. With `Recycled = TRUE`, `XsOps` violates `ShadowsAreFresh` in six states (and, in
nine, `OpWritesArrive`; `HookFindsShadow` holds all the same, by the theorem of section 5): the
end of a keyword hook that claims its word does not clear the registry, so that a shadow outlives
the OP and is found for the next one at its address (the comment at `perl.h:2611` says the
registry is dropped to prevent this). With a 4-byte variable in `Ints` and its neighbour in
`Beside`, `XsFrames` violates `ImplementsScopes` in six states: `LEAVE` writes entries back as
pointers whatever their width. With `Confined = FALSE`, `XsParser` violates `ShadowIsCurrent`.

Noticed while modelling and not stated as properties: `Adopt` of one handle twice in a clone
makes two handles for one pin (`HandlePins` assumes one per clone, as `psgi` does). In `psgi`,
`Close` with a request in flight makes its deferred send panic and leaves its interpreter open;
a second `Close` panics; a malformed application response is answered with an implicit 200; and
`New` does not close the prototype when the application does not load.

Every property of a passing run has a mutant: a variant of one action with a plausible mistake
(a dropped lock or check, a release not taken from the queue, a worker not returned), defined
next to the action with a comment that starts with "Variant" or "mutant of". The variants are not part of the
specifications.

## 4. Fairness

* `InstanceEntry!FairSpec`: guest code returns or calls back; a goroutine past a check goes on;
  a goroutine waiting for `mu` gets it when `mu` is free again and again, which is strong
  fairness and what the starvation mode of `sync.Mutex` gives. Nothing is assumed of Go
  callbacks: `EntryNotBlockedByCallbacks` holds although they may never return.
* `Interrupt!FairSpec`: strong fairness for `mu` as above; for the guest's test of the flag,
  since a call that executes with the flag set again and again comes to an opcode, even when
  callbacks interrupt it; weak fairness for watchdogs, callbacks and disarming. No assumption
  that Perl code ends.
* `PsgiServer!FairSpec`: receivers of a channel are served in the order they came (strong
  fairness of `Checkout` is weaker than that), stages end unless the request is endless, and
  the client of an endless request goes away in the end.

## 5. The proofs

The proofs hold for all values of the constants that satisfy the `ASSUME` of the module.

* `InstanceEntryProofs`. `TypeCorrect`; `ExclusiveGuest` (`MutualExclusion` is inductive with
  the type invariant). `SingleCallerStacks` assumes that at most one goroutine makes callbacks
  and proves `StackDiscipline`: the invariant says that only that goroutine has frames while
  `mu` is free, that the frames of a goroutine lie at increasing positions below those of the
  executing one, and that `sp` is the topmost of them; without it a resuming call could not be
  shown to be on top. From the same invariant each stack position has exactly one owner, and
  `CallsNest` is the refinement of `NestedEntry`: entering pushes an owner, returning pops the
  last, callbacks and resuming suspend and continue the topmost call, everything else is a
  stutter. `QuietCloseSafe` assumes a program that closes at rest and does not bind
  afterwards, and proves `NoStragglers`: once closed, only the closing goroutine is under way.
* `InterruptProofs`. `NoLingeringFlag` and `LoneInterruptIsOwn` follow from one invariant: an
  idle operation has a fresh watchdog, a fired watchdog means a cancelled context, the flag has
  an owner that is still in progress, an operation that is alone has no company (so the owner of the
  flag is itself), and an interrupted lone operation was cancelled.
* `PsgiServerProofs`. `ExclusiveWorkers`, `WorkersKept`, and `LendsWorkers`, which is the
  refinement of `WorkerPool`: initial states map to initial states and each step to a step of
  the pool or a stutter. The invariant says that no worker is in the channel twice, with two
  requests, or both, that workers in use are open, and how far `New` has come; with it the
  request that `Borrower` chooses is unique. The lemmas about the channel's sequence rest on
  `SequenceTheorems`.

* `FrameStateProofs`, about `FrameTable` and `XsStack`. `TableTypeCorrect`, `OwnFrameFound` and
  `AbortsOnlyFull`, for any number of threads, hash and table size. The invariant is that of open
  addressing: slots that a search has passed belong to others and are never given back, so a
  thread that arrives at a free slot owns none, and the slot it claims stays the first one its
  searches find; a slot holds what its owner stored last. `StackTyped`, `MarksSurvive` and
  `ArgumentsNest`, for any frames, stack sizes and nesting of XSUBs, without further assumptions.
  `MarksAreThere` alone is not inductive: an assignment to `PL_markstack_ptr` may be pending while
  another frame publishes its own. The invariant adds that only the running XSUB can have one
  pending, and only while it owns a mark (`Unadopted`); that marks were pushed at rising positions
  of the argument stack; and that on one frame the XSUBs have put theirs one above the other
  (`Layered`), from which the nesting of arguments follows.
* `XsControlProofs`, about `XsFrames`. Under `Careful` (the two habits of section 2): `FramesTyped`,
  `CurrentFrame`, `CroakLands`, `DepthIsRight` and `FieldsAreLive`, for any number of frames,
  regions, variables and entries of the save stack. None of the properties is inductive alone,
  since a croak uses fields that other regions parked. The invariant says where the three fields
  of each frame are at any moment: in the frame for the last region on it, on the save stack in the
  three entries above `start` for the regions below that; that what regions keep in their locals
  fits what is below them; and that the counters agree with the top region. What `Careful` buys
  are two parts of it (`AtRest`, `UnderShelter`). `SavesImplementScopes` is the refinement of
  `DynamicScope`: each step maps to a step of it or a stutter. It rests on `Restorable`: popping
  the save stack down to where a region began gives every host variable what it held then. It
  also assumes `Ints = {}`, that all saved variables have the width of a pointer: with a 4-byte
  variable beside another the refinement fails (section 3).
* `HandlePinsProofs`. `HandlesTyped`, `PinsInStep`, `HeldStayAlive`, and `CallsSafe` for programs
  with `HeldDuringCall`. The invariant counts claims: an instance has a pin for each handle of
  its own and for each one that it may still adopt, the prototype has no others, and the image
  has enough of them for clones to come; no id is taken from the queue twice. `PinsInStep`
  alone is not inductive, since releases are subtracted per object and adoption makes handles
  without making pins. The lemmas on counting rest on `FiniteSetTheorems`.
* `XsDataProofs`, about `XsMirrors` and `PerlioLayer`, without further assumptions, and about
  `XsOps`. `MirrorsTyped`,
  `WritesReachPerl` and `SlotsAreCurrent` hold for any cells, values and nesting of activations.
  `PerlSeesWrites` speaks of moments when Perl code runs; the invariant carries it through native
  code: what a flush would leave in every cell is what was last assigned to it (`FlushIsRight`),
  while Perl code runs nothing is pending and only mirrors are in use (`PerlAtRest`), and a slot
  that may be used without a fetch was fetched since Perl code last ran (`SlotsFetched`).
  `LayersTyped`, `ShadowsFollowLayers` and `TextGetsThrough` hold for any layers, tables, buffers
  and length of the text. `TextArrives` speaks of moments when no Fill runs. The invariant says
  that the running Fills are those of the layers from the top down and that the window maps guest
  memory to where the host sees it (`LayerShape`), and cuts the text also while Fills run
  (`TextIsCut`): a layer at rest has its part in its buffer and kept back, a layer that is being
  filled has it in guest memory. That a nested Fill moves the window and writes to guest memory
  does no harm because the window's two ends keep their distance and buffers do not overlap.
  `OpsTyped` and `HooksFindShadow` hold for any addresses, blocks and bound on shadows, whether or
  not the address of a freed OP is used again between activations (within one, the code documents
  that it aliases; the model leaves it out). `AssignmentsArrive` and `ShadowsFresh` hold if
  `Recycled` is FALSE; otherwise TLC refutes them (section 3). One invariant, `OpInv`, serves both
  cases: with `Recycled`, its parts on outdated shadows and on pending fields (`Counted`, `Clean`,
  `FieldsSettled`) are dropped, and the rest is still inductive, since a lookup replaces a kept
  shadow only if the OP that is now at the address is not hooked. The properties speak of moments
  when the guest runs; the invariant goes through native code
  with fields pending. `Sound` says that the registry has one shadow of an address and none of an
  OP that is gone, and that the kept shadow of a hooked OP is the one in which it was hooked, is
  not outdated, and is the only one that a lookup can find. `FieldsSettled` says that a field is in
  the guest as it was wanted last, or pending in a linked shadow with that value; `CleanOutside`,
  that only keyword hooks have fields pending. None of the three properties is inductive alone: a
  hook keeps its shadow only because write-back relinks it, and write-back is right only because no
  second shadow of the OP has an older baseline. One lemma per function of the code
  (`OpShadowSound`, `PullSound`, `ShadowFullSound`, `RefreshSound`, `WrittenBackSound`,
  `ForgetSound`) says that it keeps `Sound` and what it leaves pending; the lemma of an action
  composes those of the functions that the code calls.
* The composed runs, at the end of `XsControlProofs` and `XsDataProofs`. `ControlParts` and
  `DataParts` say that a behaviour of `MCXsControl` or `MCXsData` is one of each of the modules it
  consists of, so that all the theorems on those modules hold of what the runs explore.
  `ControlTyped` (under `Careful`) and `DataTyped` state the type invariants of the two runs.
* `XsParserProofs`. `ParserTyped`; `ParserGoesOn` and `ShadowKept`, which assume `Confined`; and
  `EveryPluginAsked`, which does not. Hooks are ordered by the parsers they belong to and all but
  the innermost wait for the guest. The shadow belongs to the innermost hook unless that hook waits
  to pull it; every parser but the holder's is where its text was left, and the holder's is at the
  shadow. Without `Confined` a second hook could take the shadow from one that never pulls again.
  For the chain, an order of the plugins is exhibited, in which each leads to the one before, and
  every hook has asked a descending run of it that starts at what was newest when the word came up.

Checked by TLC only: all liveness (`EntryNotBlockedByCallbacks`, `CancelStopsAlone`,
`RequestsEnd`), since liveness under fairness and `ENABLED` are beyond the prover here; so are
induction over data and recursive operators, which none of the modules with proofs use.

## 6. Not modelled, and why

The guest itself is external: its stack pointer, registry and run loop are modelled as the Go
code and its comments rely on them. The content of values, requests and responses is left out,
as is the wire format. A trap is a return from `invoke`. A WebAssembly memory that grows does so
under the lock that the flag's store takes, so the store is one step. Time is left out: a
deadline is a `Cancel` at any moment.

Of the XS SDK: the pure parts (formats, UTF-8, number parsing, tables of ops) keep no state.
Chains of MAGIC and their mirrors (`SvMAGIC`) are the loader's. Shadows of hash entries and
the temporary slots of macros are made anew for each call and then left alone. Hooks on op types
(`PL_ppaddr`) and custom ops are registrations that are never undone; the tables of destructors
and `SSNEW` blocks give a slot to a callback, which frees it once. The base of
guest memory is taken to be fixed, as it is for instances on the snapshot mapping. Layers that
write are refused by `PerlIO_define_layer`. The remaining parts are in the inventory with the
reason.

## 7. Plan

In this order:

1. `NestedEntry`, `InstanceEntry`, `Interrupt`, `HandlePins`, `WorkerPool`, `PsgiServer` with
   their runs: done.
2. The XS SDK: `DynamicScope`, `XsFrames`, `FrameTable`, `XsStack`, `XsMirrors`, `XsOps`,
   `XsParser`, `PerlioLayer` with their runs: done.
3. Proofs of section 5: done.
4. The host tables of functions, dispatchers and hooks with the clone image and the snapshot
   cache: a clone resolves every function id that its memory carries (abstract: a snapshot of
   tables and memory taken together).
5. The MAGIC chains of the XS loader: a mirror is freed once, its reference counts balance, a
   chain edited by its own hook stays well formed.
6. Pure algorithms against reference definitions over bounded inputs, in one run: the varint
   reader, the node codec, `numify`, the argument parser of gperl.
7. gperl's dependency and build pipeline with a failure at each step.
