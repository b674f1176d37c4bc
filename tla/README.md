# Verification of nixb

TLA+ modules, TLC configurations and TLAPS proofs about the programs in this
repository: `nxb`, which simulates and shows Nix builds, the terminal and
coroutine library `nxt` it runs on, and the concurrent core of the Nix
libraries it is linked with. `PROJECT.json` lists the components, the
runs, the source lines each definition stands for, the hazards and the theorems.

## 1. The system

Paths are relative to the root of the repository.

| Component | State | Operations | Hard because |
|---|---|---|---|
| Build event generator, `src/sim-gen.hpp` | state and pending inputs per derivation, FIFO ready queue, two slot counters, a priority queue over virtual time | a coroutine that yields started / progress / log / finished events; `play_realtime` pulls them | state changes and yields are interleaved; one FIFO for two kinds of slot |
| `nxb` TUI, `src/nxb-main.cpp` | list of active items, unsigned counters, last lines | `run_tui_simulation` sleeps to each timestamp and applies the event | shutdown between any two steps; state read by the render thread without a lock |
| UI runtime, `nxt/src/nxtio/app.{hpp,cpp}` | stop source, size atomics, two queues, the smoothed HUD height | `run` joins `signal_loop`, `input_loop`, `run_render_loop` and the application's `update`; `request_shutdown`, `println`, `next_input` | four coroutines on a thread pool; three callers of shutdown; no locks |
| Signal pipe, `nxt/src/nxtio/signal-pipe.*` | a non-blocking self-pipe | `notify` (also from handlers), `try_read` | a full pipe drops bytes |
| Compositor, `nxt/src/nxt/compositor.*`, `raster-diff.hpp` | HUD height, terminal height, first HUD row, two rasters, scroll region | `resize`, `set_hud_height`, `present_frame` | two sources of the terminal height; unsigned rows |
| Keyboard, `nxt/src/nxtio/input.*` | pending bytes | `Parser::feed`, `flush`; raw mode guard | an ESC byte that may be a key or a prefix |
| libcoro, `vendor/libcoro` | epoll set, timers, queue with waiters | `poll` with timeout and stop token, `queue::push/pop/shutdown` | timeouts against cancellation; waiters resumed inline |
| Scopes and channels, `nxt/src/nxtio/scope.hpp` | stop source, closed flags, a queue | `push`, `pop`, closing by destructor | a lazy shutdown task that is discarded |
| Coroutine simulator, `src/build-sim.hpp` (in no build target) | semaphores, a completion event per goal | `run_goal`, `acquire`, `release` | non-atomic counter on a thread pool; early returns |
| Derivation graph, `src/drv-graph.hpp` | nodes with inputs and outputs, depth, height | `build_graph`, closures, topological order, paths | recursion, shared inputs |
| Byte buffers, `nxt/src/nxtio/buffers.hpp` | `seek_`, `end_` over a fixed buffer | `fill`, `rebase`, `take_until`, writers | boundaries; spans that outlive a refill |
| HTTP, SSE, LLM, `nxt/src/nxtio/http.*`, `llm.hpp`, `nxtllm.cpp` | framing state over a reader | chunked and sized bodies, event parsing | partial reads |
| Trivial store, `src/nxb-store.hpp` | a map behind a mutex | add, query, accessors | callbacks under the lock; one unlocked reader |
| Log adapter, replay, `src/nix-log-adapter.*`, `src/log-replay.*` | a queue of events | logger callbacks, timed replay | blocking pushes from foreign threads |
| Layout, rasters, ANSI, units, network | no shared state of their own | formatting and drawing | - |
| Nix store and collector, `nix-src/src/libstore/{gc,local-store,indirect-root-store}.cc`, `unix/pathlocks.cc` | database, store directory, root links, a roots file per process, the global lock, the collector's socket and its `pending` path | `addTempRoot`, `addToStore`, `addPermRoot`, `collectGarbage` | independent processes; locks, a file and a socket that cover for each other; crashes |
| Nix goals, `nix-src/src/libstore/build/*.cc` | goals that own each other, sets of awake, slot-wanting and polling goals, children, slot counters | `Worker::run`, `waitForInput`, five kinds of goal coroutines | goals destroyed while others run; children that end, time out or are killed; two failure modes |
| Nix parallel evaluation, `nix-src/src/libexpr/parallel-eval.cc`, `eval-inline.hh`, `value.hh` | two words per value, 128 waiter domains, a queue of items | `force`, `waitOnThunk`, `finish`, the executor, interrupts | lock-free words next to condition variables shared by hash |
| Nix language, fetchers, formats, commands | data of one thread | evaluation, parsing, downloading | functions of large data, not protocols |

The old programs in `archive/` are in no build and are left aside.

How they interact: `nxb simulate` makes a graph, `nxt::ui::run` starts four
coroutines, the update coroutine pulls events from the generator and mutates
the state that the render loop draws; a signal, a Ctrl-C key or the end of the
stream calls `request_shutdown`, which must reach the other three through the
flag, the self-pipe and the stop pipe watched by `poll`.

What must be right:

- generator: dependencies and slots are respected in the *stream*, not only in
  the tables; nothing is forgotten; time is monotone;
- TUI: list and counters agree with the stream; the task always ends and takes
  the runtime with it;
- runtime: a shutdown always ends `run`; no key is lost while the input loop
  runs, nor more than it must lose when it ends; a dropped wake-up byte is harmless;
- sizes: two unsynchronised refreshers settle on the window's size, and every
  drawn frame has one consistent geometry;
- store: the database is closed under references and never names contents that
  are not there; what a living process uses, and what is rooted, is not
  collected; a request for a root always returns;
- goals: resumed only for a reason, slots counted, no success without valid
  outputs, the loop never stuck, `--keep-going` leaves nothing behind;
- parallel evaluation: one thread per thunk, no mix of two words, no lost wakeup;
- channels, semaphores, buffers, framing: see section 6.

How the Nix parts interact: a building or substitution goal calls `addTempRoot`
and `addToStore`, from a child thread or process; the collector runs in any
process that takes the lock; evaluator threads add paths to the store. The three
modules are separate because what each needs of the others is one step: a path
becomes valid, a child ends.

## 2. Modules

| Module | What it is |
|---|---|
| `BuildPlan` | abstract: which starts and finishes a watcher of a build may see |
| `SimGen` | `generate_timed_events`, one action per loop step and per `co_yield`; `generate_events` is the case `emit_progress = FALSE` |
| `TuiSim` | EXTENDS `SimGen`: the consumer, composed with the generator |
| `Runtime` | `ui::run`: the four coroutines, shutdown, self-pipe, poll, input queue |
| `Resize` | the path of the terminal size, in two threads, into the compositor's geometry |
| `StoreGC` | processes that root, add and link store paths against the garbage collector |
| `Worker` | the goal loop, as functions on the state of one worker, with children and foreign locks outside |
| `ParallelEval` | threads that force shared thunks, the executor and interrupts |
| `SimGen_proof`, `TuiSim_proof`, `Runtime_proof`, `Resize_proof`, `StoreGC_proof`, `Worker_proof`, `ParallelEval_proof`, `ParallelRead_proof` | the TLAPS proofs |
| `MC_*` | values of the constants |

**SimGen.** The coroutine runs only when its consumer has taken the last event,
so each action asks for `event = NoEvent`; `Resume` is the consumer's next
increment. `pc` names the loop the coroutine is in: seeding, `start_work`,
yielding what that call returned, popping the timeline, the three kinds of
yields of a finish, waking dependents. Slots are given back in `PopFinish`
before anything is yielded, as in the code. `FirstProgress` and `NextProgress`
are the two places that put a tick into the timeline; the code re-arms a tick
after its yield, the model with it, and nothing looks at the timeline in
between. Durations, the split into builds and substitutions, and the limits are
chosen in `Init`, as the code draws them before it starts. The estimators return
at least 50 ms; the theorems do not need that and hold for zero too. `shown` is a history
variable: what the stream has said so far. The priority queue is a set, since no
two entries are equal; entries that tie may come out in either order.

**TuiSim.** One action per part of the loop body: the shutdown test, the sleep
(skipped when the task is behind the wall clock), the handling of an event, the
end. `RequestShutdown` is a signal at any moment.

**Runtime.** `rs[c]` is where caller `c` stands in `request_shutdown`, whose
test and three effects are separate steps. `watch` is what epoll holds for the
stop pipe: nothing, an entry for the current poll, or a stale entry left by a
poll that timed out. A push that finds a waiting `next_input` resumes the
application on the input thread (`inline`), so the rest of `publish` waits for
it. `HangUp` is each early return of `input_loop`: the local `Parser` is destroyed
with the ESC it may hold. `CloseInput` is `input_queue_.shutdown()`, after which
no pop looks at what is still queued. What goes either way is in the history
`dropped`; what is typed later, or is not read yet, stays in `stdin`. A render
frame is one step; damage is not modelled because it is awaited by
nobody. The kind of application, the kind of terminal (none, raw, left alone)
are chosen in `Init`.

**Resize.** `refresh_terminal_size` is five steps - ioctl, two loads, two
stores - on either thread, `terminal_size` two. Rows and heights are numbers; the
shrinking of the HUD, a floating-point average, is any height between the target
and the last one. `println` may be called at any moment from any thread;
`PrintRows` is the row it computes from the two heights it loads, `LogEnd` where
the log ends on the screen the compositor has set up. The two need not agree: the
terminal's height may be newer than the one the compositor was told. The two loads
are taken at one moment: a HUD height that the render loop changes between them is
not modelled.

**StoreGC.** Paths are model values whose references are a constant: they are
fixed by the contents. `proc[p].pc` walks through `createTempRootsFile`, the
shared lock or the socket, the append to the file, and then `addToStore` under
the output lock; `gc.pc` through the lock, the socket, the two scans for roots,
the directory and, per entry, the search through referrers and the deletion.
Database and disk change in different steps, each database transaction in one.
Either side may be killed anywhere (`Exit`, `GcCrash`). The two histories name what the properties
are conditional on: `unsafe` holds the roots that were acknowledged, or left
behind, where the collector does not honour them - a path that was visited but
is no longer `pending`; a root acknowledged by one collection and not yet in the
file when the next one reads it; a link made after the scan of links by a
process that exits before the scan of files. `inUse` is the branch that prints
"BUG". `ValidOnDisk`, `UsedStays`, `PermRootsStay` and `NeverInUse` hold while
`unsafe` is empty; the run `gc_recreate` shows the first window.
Not modelled: `keep-outputs` and `keep-derivations`, `gcDeleteSpecific`, runtime
roots, hard links, repair, caches of path infos, several threads per process.

**Worker.** A goal's code from one suspension to the next is an operator on the
worker's record (`WorkT`, `WorkD`, `WorkR`, `WorkB`, `WorkS`), and `Resume` is
`goal->work()`. Shared pointers are modelled because they carry behaviour: a goal
that no waiting goal, top set or copy of the awake set (`held`) owns is
destroyed (`Sweep`), its builder killed or its substitution thread joined.
The thread of a substitution first runs and then holds the lock of its output
(`running`, `locked`; `ThreadEndsEarly` when it does not come that far), a
building goal holds those of all outputs from `start` on (`BuilderLocks`). A
building goal polls for a lock, a thread waits for it. So the join in the
destructor of a substitution goal may wait for a lock that only the worker's own
thread could release, and then never returns: `Destroy` leaves the worker with the
error `join`, and nothing more happens in it. It may do so whenever the building
goal holds the lock at that moment; in the code, if the building goal is destroyed
in the same go, the order of the destructors decides, which is left open here.
(libstdc++ destroys the greatest element of a set first: in `worker_join` the goal
of the substituted `out` before that of the built `dev`.)
`Scenarios` gives inputs, what is valid and on offer, slots, `--keep-going`,
`--fallback`, timeouts, foreign locks and substituters that answer with an error
(`broken`: if the last one does, the error leaves `Worker::run` unless
`--fallback` is given). `misled` records that a trampoline has
reported success for another output's failure; `InputsBeforeChild` and
`SuccessMeansValid` hold without it, `goals_outputs` is the run with it.
What is destroyed after `Worker::run` has returned or thrown, by `~Worker` and its
callers, is not modelled: a join that hangs there is not seen.
Not modelled: build hooks, repair and check, floating outputs and their
resolution, substitution of realisations, missing derivation files and sources,
build users.

**ParallelEval.** Each step touches one shared word or is what happens under one
lock. An expression is the list of values it forces and whether it throws.
`Sleep` is apart from `WaitOnThunk` because the waiter holds the domain's lock
between the two. A wakeup for another value of the domain is a spurious one. `stolen`
records an interrupt caught by the `try` of `force`, which stores a failure in a
thunk that another thread evaluates; `ReadsWhole` and the ownership part of
`EvalTypeOK` are stated without it.
Not modelled: items that spawn items, priorities, what expressions compute.

## 3. Runs

| Run | States | Bounds | Shows |
|---|---|---|---|
| `generator` | 630 000 | 4 derivations, 7 graph shapes (chain, diamond, join, fork, pairs, independent, upward), every split into builds and substitutions, durations 2 and 6 with ticks every 2, jobs 0..2, one substitution slot, one log line | the inductive invariant `SimInv`, no work given up, refinement of `BuildPlan` (`Schedule`), monotone time, `AllFinish` |
| `tui` | 345 000 | 3 derivations, 4 shapes, a shutdown at every step | HUD agrees with the stream, at most one late event, bars fill, the task ends and takes the runtime with it |
| `runtime` | 400 000 | 2 keys, 1 signal, a self-pipe of 1 byte, 2 applications, 3 terminals, stdin that may fail | keys accounted for and dropped only at the end of the input loop, signal loop never sleeps through a shutdown, interrupts stop, shutdown returns or input is stuck in a named place |
| `resize` | 1 360 000 | 4 window sizes around the limits of separator and reserved rows, 2 resizes, HUDs of 0 and 3 rows and full screen | frame geometry, print row on the last row of the log but for the window after a change of height, the size settles |
| `gc` | 386 000 | 2 processes and 2 paths, one of which refers to the other; one collection; two collections and links; one process and two collections; in the first two one process may be killed anywhere, the collector in all | no root, used path or registered path is lost outside the named windows; alive means reachable; requests for roots return |
| `goals` | 25 000 | 18 scenarios of a library with two outputs, a program and its documentation; `--keep-going` both ways, 0..2 build and substitution slots, 1 or 2 substituters, one that fails, fallback, timeouts, foreign locks | goals are resumed for a reason, slots are counted, inputs come first, the assertions of `Goal::work`, `Goal::await`, `waitForInput` and of the end of `Worker::run` hold, the run ends or hangs in the one join (that of `Goal::amDone` can fail: `goals_outputs`) |
| `eval` | 315 000 | 2 workers and the main thread, 3 thunks in 2 domains; shared, throwing and self-recursive thunks, a main thread that does not wait, an interrupt | one evaluator per thunk, words that belong together, somebody can always go on, everybody returns |
| `poll_cancel`, `stale_resize`, `gc_recreate`, `goals_outputs`, `worker_join` | | smallest instances | the five disagreements of section 5 |

Why the bounds are enough: with four nodes a node can have several inputs and
several dependents, two of a kind compete for one slot, and both kinds block
each other at the head of the queue; the durations let the finish of one node fall
on a finish or a tick of another. Two keys are enough for a lone ESC followed by another
key and for a Ctrl-C behind a key that requests shutdown itself; a pipe of one
byte is full after one signal. Two resizes give an old and a new size in flight
at once, on two threads. Two paths are enough for a referrer and what it refers to, for
a condemned path that is not the pending one, and for a race to add the same
path; two collections for a socket and a roots file of different ages. Two
outputs give a trampoline several waitees, three derivations a goal shared by
two others; one slot or two, with as many contenders, let goals queue, and zero
is the branch of its own in the code; a derivation with one output that is built
and one that is substituted, next to another that fails, is what the join needs.
Three threads in two domains give a waiter,
an owner and a third that is woken for nothing. Every limit appears in a guard or in `Init` of the
modules under its constant's name.

`MC_Runtime*.cfg` switch deadlock checking off: a run that has returned stops,
and the hangs named by `Deaf` are real. So do the configurations of `StoreGC`,
`Worker` and `ParallelEval`, whose behaviours end when every process has what it
asked for, the top goals are done, or the executor is joined; that they do not
stop earlier is `RootRequestReturns`, `WorkerEnds`, `EvalNeverStuck` and
`EverythingReturns`. The
other runs check for deadlock.

**Fairness.** The generator and the TUI task are single coroutines that always
can go on: weak fairness of their own steps (the generator's consumer keeps
pulling; the thread pool resumes a task whose sleep is over). In `Runtime` every
loop has weak fairness, as each is resumed by the scheduler whenever its poll,
timer or queue is ready and none occupies the pool forever; signals, keys and
hang-ups have none. In `Resize` both threads have it, the user does not. In `StoreGC` each
process, each connection's thread and a collection that has begun are scheduled; nobody
has to ask, collect, exit or crash. In `Worker` the single thread runs, and
children, threads that find the lock free, and foreign processes come to an end - a builder that never ends is
what timeouts are for, and without one `nix` waits for it too. In
`ParallelEval` every thread runs.

## 4. What is proved

`SimGen_proof`, for every finite graph, all durations and limits (assumption
`SimGenAssumption`: numbers are naturals and graphs are relations on the
nodes):

- `BooksAgree`: `Spec => []SimInv`. `SimInv` is inductive: type invariant, slot
  counters equal to running nodes, `pending_deps` equal to unfinished inputs,
  waiting exactly while there are such, queue equal to the ready nodes without
  repetition, one finish per running node in the timeline and none in the past,
  the stream behind the tables only by what is being yielded, and where the
  coroutine's locals are live. Neither of the first two is inductive
  alone: that a finish pops only for a running node comes from the timeline,
  that a wake-up decrements a positive count comes from `wake` being part of
  the unsatisfied inputs.
- `GeneratorTypes`, from it: no unsigned counter is decremented at zero.
- `TimeNeverRunsBack`: `Spec => TimeForward`, from the timeline part.
- `StreamImplementsPlan`: `Spec => Schedule`, refinement of `BuildPlan` under
  `status <- shown`: only `YieldStarted` and `YieldFinished` are steps of the
  plan, everything else stutters; slots of the stream are a part of the slots
  held, inputs of a running node are done and shown.
- `NothingStranded`, with the lemma `HeadIsBlocked`: by taking, in an acyclic
  graph, an unfinished node none of whose inputs is unfinished: it must be in the
  queue, so the head is blocked, so something runs, so the timeline is not empty.

`TuiSim_proof`, on top of it, under the same assumptions:

- `TaskRunsGenerator`: `TuiSpec => Spec`. `Handle` is the generator's `Resume`,
  all else the task does stutters, so every theorem above holds of the TUI too.
- `TaskTyped`, `HudExact` and `AtMostOneLate`, from `TuiInv`. The list and the
  counters agree with the stream only between two events; `Told` says what the
  HUD knows while an event is outstanding: the stream's word on every node, but
  for the one the event is about, which is one step behind. `GenerateTells` shows
  that yielding never changes `Told`, `HandleTells` that handling does, by that
  one node. `ListAppend`, `ListOut` and `ListProgress` follow the vector through
  the three ways it changes, and `ListCounts` counts it by a bijection.
- `AllReported`: the final count is the number of derivations, if no graph has a
  cycle (the run has acyclic graphs only, the theorem needs the premise) and both
  kinds of slots exist.
- `BarsNeverFallBack`: `TuiSpec => BarsFill`. `BarInv` bounds each bar by its
  duration and by the virtual time since its start, which is what a tick reports;
  a finish lies a whole duration after the start; and from the full report until
  the finish is handled the bar of `idx` is full.

`StoreGC_proof`, for any finite set of paths with acyclic references, any
processes and scenarios (`PathsAssumption`):

- `TypeCorrect`: `Spec => []TypeOK`. Besides the types it says that no process
  holds the shared lock while a collection runs and that what a process uses is in
  its file. The latter is not inductive: `ProcInv` adds that the target of
  `addToStore` is already among the roots.
- `ValidIsClosed`: `Spec => []ValidClosed`, from the two transactions: a
  registration is rolled back unless its references are valid, an invalidation
  unless nobody refers to the path. It needs no assumption about roots: the
  database is closed also in the windows above.
- `AliveOnlyReachable`: `Spec => []AliveIsReachable`. `SearchOK` adds that every
  visited path reaches the one where the search began, which needs that the
  cache holds only referrers; that closures are monotone and transitive are
  lemmas.
- `ContentsStay`, `UsedPathsStay`, `RootsAreKept` and `NeverFoundInUse`: the four
  properties that hold while `unsafe` is empty, from one invariant, `SafeInv`,
  stated of processes, collector, epoch, database, disk and links. None of its
  parts is inductive alone.
  - `Rec`: every root in a file, or acknowledged, is known to the collector or in
    a file that it will still read; an acknowledgement belongs to the collection
    that runs, or the file is yet to be read (the second window of `unsafe` is the
    exception); a process adds a path only to references it uses, which are roots.
  - `Links`: a permanent root is known, or its process has it in a file still to be
    read (the third window).
  - `Apart`: one process at a time holds the lock of an output, so wiping spares
    what others have restored.
  - `Search`: no root is judged (visited and no longer queued, the first window),
    nor is the path being unlinked; so a judged path gains no referrer, because who
    registers one has rooted it: its referrers stay visited, and the cache of
    referrers, filled once, stays complete except for roots. A path that was
    deleted and registered again in the same collection refers to roots only; with
    it the check for referrers cannot fire (`NotReferred`).
  - `Order`: where in the search each of the collector's sets is empty.

  `RootsKnown` is the heart: once the files are read the collector knows every
  root. There is one lemma per action, under `Quietly` and `Filling` for the
  processes and `SearchingSafe` and `StopSafe` for the collector. TLC agreed to
  `SafeInv` before it was proved, with chains of three paths and with three
  processes.

`Worker_proof`, for any finite set of derivations without cycles, any outputs,
settings, substituters and locks (`WorkerAssumption`): all seven safety properties
of the passing run. `WorkerInv` is one invariant for all of them, because each
step of a goal needs most of it:

- `Linked`: waiting is mutual, among goals that exist, and only for what the kind
  of the goal may await. `Ranks` numbers the goals so that each awaits lower
  numbers only (a trampoline above its derivation goals above resolution, build
  and substitution, a derivation above its inputs), so no set of goals is a circle
  (`NoCircle`).
- `Reasons` and `HasReason`: every goal is suspended for a reason: it is awake or
  in this round, wants a slot, polls, waits for goals, or has a child. The reasons
  exclude each other, but that the goal of a child is woken by an event (a child
  runs, holds its lock or has ended; a worker in a join only stands still). Two
  parameters name the goals still to be resumed and the one that is being resumed.
- `Slots`: a child belongs to a goal that waits for it and the counters count the
  children; whoever wants a slot has left a child running.
- `Kept`: with `--keep-going` every goal is on top or waited for.
- `Sound`: what a goal has been promised by those it no longer waits for is valid
  unless one of them failed - until a trampoline is wrong (`misled`).

The functions of `Worker` are followed one by one (`Sleeping`, `Thrown`, `Waiting`,
`Ending`, `Started`, `Terminated`), then the work of each kind of goal (`GoodWork`), then the
destruction of goals: what `Owned` computes in as many rounds as there are goals
is closed under ownership (`OwnedClosed`, by counting the rounds that add a goal), so
that a goal that is destroyed is awaited by nobody that stays (`GoodSweep`). With
`NoCircle` the lowest goal that exists waits for none, which is
`AlwaysSomethingToDo`, and the highest is waited for by none, which is
`NothingLeftBehind`.

`ParallelEval_proof`, for any workers, values, domains and scenarios
(`EvalAssumption`): `OneEvaluator`: `Spec => []EvalTypeOK`. `EvalInv` adds that
the thunks on a thread's stack are distinct and are exactly those whose `p0`
bears its name while they are pending or awaited, and what each `pc` needs:
the claim adds a name to both sides only where the comparison found a thunk,
`finish` removes it from both.

`ParallelRead_proof`, on top of it: `WordsBelongTogether`:
`Spec => []ReadsWhole`. `ReadInv` follows what is known of an expression through
the stacks. `Chain`: the frames below the top force the one above, and all that
they have forced before is good. `TopReads`: the topmost thunk has forced good
values only, but for the one in hand, and is not good if an error is in flight.
`SeekReads`: a `p0` that was read as final is so still, so `p1` belongs to it.
`Settled`: between the two writes of `finish`, `p1` is the outcome. Of the two
ways to an error, a thunk that throws is not good by definition; one that a thread
waits for while it evaluates it is on its own stack, and the frames from there
up are a set each of which forces one of the set, so none of them is in the least
closed set (`SelfWait`, `GoodLoop`).

The second half of the module is freedom from deadlock, `NobodyStuck`:
`Spec => []EvalNeverStuck`, for expressions that do not need themselves. It takes
two more invariants. `WakeInv`: whoever is about to sleep has the domain's lock,
and whoever is about to sleep or sleeps does so for a thunk that is still awaited,
or somebody is about to notify the domain; the notification needs the lock, so it
finds the waiter asleep and not on the way. `WorkInv`: a promise that is not kept
belongs to an item in the queue or in a worker's hands, and workers wait or end
only when the queue is empty. Suppose then that no thread is ready. Who holds a
lock is ready, so all are parked (`AllParked`). If one were asleep, the thunks that
are being evaluated would be a set each of which forces one of the set, by `Chain`
below the top of a stack and by `TopReads` at the top (`NoneAsleep`). So all wait for
items, collect, join or have ended, and `WorkInv` leaves the main thread a step. This
is where the code's refusal to run without any worker is needed (`Workers # {}` in
`EvalAssumption`, `parallel-eval.cc:43`).

`Resize_proof`, for any window sizes, layouts and number of resizes
(`ResizeAssumption`): `SizesTyped`, `FramesFit` and `PrintlnStaysInRegion`.
`ResizeInv` says that each thread's size is made of a width and a height the
window had, and that everything `set_hud_height` computes agrees with the height
it was given, except that the rasters may follow a later `resize`. `PrintlnInRegion`
is then arithmetic, in every mode - no HUD, HUD with separator, full screen - and
whatever `term_height` another thread has stored since: the row is on the terminal,
it is the last row of the log shifted by the difference of the two heights, and it
is off the log only if the terminal has grown and the compositor has not heard of it.
In that window, which the code leaves open, a line may be drawn over the HUD.

`Runtime_proof`, for any keys, signals, terminals, capacity of the self-pipe and
kind of application (`RuntimeAssumption`): `RuntimeTyped`, `NoKeyLost` and
`SignalLoopWoken`. The inductive invariant adds to the three properties
`CallersIdle` (whoever may begin a shutdown has finished its last one, so no
caller still owing a wake-up byte is overwritten), `StopFirst` (whoever wakes the
loops, flushes the parser or closes the queue does so after the shutdown was
requested) and `Empty` (the application
holds an event only while it handles one, a batch exists only during `publish`,
a waiter means an empty queue). With `Empty` each action that moves a keystroke
moves it over stations that are empty, which is one law of concatenation each
(`MoveType` to `MoveTake`); `FedLeft` says that what the parser decodes and what
it keeps are together what it held and what was read. `NoKeyLost` has two halves:
`KeysAccounted` keeps the order of all keys, those in `dropped` included, and
`DroppedAtTheEnd`, from `StopFirst`, says that only the end of the input loop drops
any: the queue's contents after a requested shutdown, or a single ESC.

The lemmas about appending to and taking from sequences without repetitions and
about counting are stated once at the head of the module.

So every safety property of a passing run is a theorem. Only model-checked: the liveness
properties (`AllFinish`, `TuiEnds`, `InterruptStops`, `ShutdownReturns`,
`SizeSettles`, `RootRequestReturns`, `WorkerEnds`, `EverythingReturns`), which are out of the
prover's reach.

## 5. Where code and documentation disagree

- `stale_resize`: `app.hpp:177` says the newest pending size is kept; an older
  one from the queue overrides the size just read, and the width of the rasters
  stays wrong.
- `poll_cancel`: a poll that timed out leaves its stop pipe registered
  (`vendor/libcoro/src/scheduler.cpp:452`), the next poll cannot be cancelled.
- `gc_recreate`: the root server promises (`gc.cc:482-487`) that a client waits
  while its path is being deleted. It compares with `pending`, which is the last
  path *visited*; a client that asks for any other condemned path re-creates it
  too early and loses the contents.
- `goals_outputs`: `store-api.hh:656` promises valid outputs;
  `DerivationTrampolineGoal` reports the result of the first output for all. The
  same code may find the first goal busy, and then fails an assertion of
  `Goal::amDone`.
- `worker_join`: `worker.hh:321` says `Worker::run` loops until the top goals have
  finished. `~PathSubstitutionGoal` joins a thread that may wait, in
  `LocalStore::addToStore`, for the lock of an output that a building goal of the
  same worker holds (`substitution-goal.cc:332`): the run hangs. `WorkerEnds`, the
  property of the passing run, names this state (`Hung`).

Of `Deaf`'s three disjuncts the first is `poll_cancel`, the second a blocking
`read` on a terminal that was not made raw. The third is an application that waits
in `next_input` after an early return of `input_loop`, which leaves the queue open:
the nullopt of `app.hpp:197` never comes. It has no run of its own.

## 6. Not modelled, and what could follow

Formatting, colours, fake log lines, argument parsing and the drawing of layouts
are out of scope, and so are the Nix interpreter, its primitive operations,
fetchers, formats and commands: large sequential functions of data, most of the
lines of the repository, whose correctness is not a matter of states and orders.
`build-sim.hpp` is in no build. The rest, in the order it would be modelled:

1. `Channel`: `scope.hpp` over the libcoro queue with its mutex, waiters and
   running states, as an implementation of an abstract channel; the shutdown
   task that is discarded.
2. Several threads per process in `StoreGC`, which share the descriptor of the
   lock; `keep-outputs`; the cache of path infos.
3. Build hooks and floating outputs in `Worker`; items that spawn items in
   `ParallelEval`.
4. `ByteReader`, then `HttpBody` and `SseParser`: the bytes delivered are a
   prefix of the stream, whatever the chunks.
5. `Compositor` (frame diff), `KeyParser`, `DrvGraph`, `Store`, `Replay`, a
   throwing `update` in `Runtime`, the data race on the HUD state.
6. Proofs: the safety half of the other liveness properties, that whoever waits has
   somebody who will wake it, as it is proved of `Worker` and `ParallelEval`.
