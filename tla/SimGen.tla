------------------------------- MODULE SimGen -------------------------------
(***************************************************************************)
(* The discrete-event generator of src/sim-gen.hpp (generate_timed_events): *)
(* a coroutine that walks a derivation graph with a FIFO ready queue, two  *)
(* slot counters and a priority queue of virtual times, and co_yields one  *)
(* event at a time to its consumer.                                        *)
(*                                                                         *)
(* The generator runs only while no yielded event is outstanding; every    *)
(* loop iteration and every co_yield of the code is one action, named by   *)
(* the value of pc.  generate_events is the case emit_progress = FALSE.    *)
(***************************************************************************)
EXTENDS Naturals, Sequences, FiniteSets, Functions

CONSTANTS
  NumNodes,          (* graph.nodes.size()                                 *)
  Graphs,            (* The dependency relations considered.               *)
  JobLimits,         (* Values of Config::max_jobs (-j).                   *)
  SubLimits,         (* Values of Config::max_substitutions (-S).          *)
  Durations,         (* Durations the estimators may return.               *)
  ProgressInterval,  (* Config::progress_interval                          *)
  LineCounts         (* Log lines per build: 0, or lines_per_build with -v *)

Node == 0 .. NumNodes - 1

ASSUME SimGenAssumption ==
  /\ NumNodes \in Nat
  /\ Graphs \subseteq [Node -> SUBSET Node]
  /\ JobLimits \subseteq Nat
  /\ SubLimits \subseteq Nat
  /\ Durations \subseteq Nat
  /\ ProgressInterval \in Nat
  /\ LineCounts \subseteq Nat

VARIABLES
  inputs, will_substitute, durations,                 (* drawn once, then  *)
  max_jobs, max_substitutions, emit_progress, lines,  (* never changed     *)
  pc,             (* Where the coroutine stands.                           *)
  idx,            (* Seed loop index, then the node whose finish is handled *)
  node_state, pending_deps, ready_queue, timeline, start_times,
  active_builds, active_subs, current_time,
  started,        (* The vector start_work returned, not yet yielded.      *)
  wake,           (* Outputs of idx whose pending_deps is still to be cut. *)
  lines_left,     (* Log lines still to be yielded for idx.                *)
  event,          (* The event the consumer holds, or NoEvent.             *)
  shown           (* History: what the stream has said of each node.       *)

config == <<inputs, will_substitute, durations, max_jobs, max_substitutions,
            emit_progress, lines>>
work   == <<node_state, pending_deps, ready_queue, timeline, start_times,
            active_builds, active_subs, current_time>>
emission == <<started, wake, lines_left>>
output == <<event, shown>>
vars == <<config, pc, idx, work, emission, output>>

(* struct ScheduledEvent *)
ScheduledEvent == [time : Nat, node : Node, finish : BOOLEAN]

NoEvent == [kind |-> "none", node |-> 0, done |-> 0]
Event(k, n, d) == [kind |-> k, node |-> n, done |-> d]

(* graph.nodes[n]->outputs: the mirror image of inputs. *)
Outputs(n) == {m \in Node : n \in inputs[m]}

FinishAt(n) == start_times[n] + durations[n]

At(label) == pc = label /\ event = NoEvent
-----------------------------------------------------------------------------
Init ==
  /\ inputs \in Graphs
  /\ will_substitute \in SUBSET Node
  /\ durations \in [Node -> Durations]
  /\ max_jobs \in JobLimits
  /\ max_substitutions \in SubLimits
  /\ emit_progress \in BOOLEAN
  /\ lines \in LineCounts
  /\ pc = "seed"
  /\ idx = 0
  /\ node_state = [n \in Node |-> "waiting"]
  /\ pending_deps = [n \in Node |-> Cardinality(inputs[n])]
  /\ ready_queue = <<>>
  /\ timeline = {}
  /\ start_times = [n \in Node |-> 0]
  /\ active_builds = 0
  /\ active_subs = 0
  /\ current_time = 0
  /\ started = <<>>
  /\ wake = {}
  /\ lines_left = 0
  /\ event = NoEvent
  /\ shown = [n \in Node |-> "unseen"]

MakeReady(n) ==
  /\ node_state' = [node_state EXCEPT ![n] = "ready"]
  /\ ready_queue' = Append(ready_queue, n)

(* Leaves enter the ready queue in index order. *)
Seed ==
  /\ At("seed")
  /\ idx < NumNodes
  /\ idx' = idx + 1
  /\ IF pending_deps[idx] = 0
     THEN MakeReady(idx)
     ELSE UNCHANGED <<node_state, ready_queue>>
  /\ UNCHANGED <<config, pc, pending_deps, timeline, start_times,
                 active_builds, active_subs, current_time, emission, output>>

(* Faulty: the seed loop stops one node short. *)
SeedDone_Short ==
  /\ At("seed")
  /\ idx = NumNodes - 1
  /\ pc' = "start_work"
  /\ UNCHANGED <<config, idx, work, emission, output>>

SeedDone ==
  /\ At("seed")
  /\ idx = NumNodes
  /\ pc' = "start_work"
  /\ UNCHANGED <<config, idx, work, emission, output>>
-----------------------------------------------------------------------------
(* Faulty: one running node too many of each kind. *)
HasSlot_OffByOne(n) ==
  IF n \in will_substitute
  THEN active_subs <= max_substitutions
  ELSE active_builds <= max_jobs

HasSlot(n) ==
  IF n \in will_substitute
  THEN active_subs < max_substitutions
  ELSE active_builds < max_jobs

FirstProgress(n) ==
  IF emit_progress /\ ProgressInterval > 0 /\ ProgressInterval < durations[n]
  THEN {[time |-> current_time + ProgressInterval, node |-> n, finish |-> FALSE]}
  ELSE {}

(* One round of the loop of start_work: take the head if it has a slot. *)
StartWork ==
  /\ At("start_work")
  /\ ready_queue # <<>>
  /\ LET n == Head(ready_queue) IN
       /\ HasSlot(n)
       /\ IF n \in will_substitute
          THEN /\ active_subs' = active_subs + 1
               /\ UNCHANGED active_builds
          ELSE /\ active_builds' = active_builds + 1
               /\ UNCHANGED active_subs
       /\ ready_queue' = Tail(ready_queue)
       /\ node_state' = [node_state EXCEPT ![n] = "running"]
       /\ start_times' = [start_times EXCEPT ![n] = current_time]
       /\ timeline' = timeline \cup FirstProgress(n) \cup
            {[time |-> current_time + durations[n], node |-> n, finish |-> TRUE]}
       /\ started' = Append(started, n)
  /\ UNCHANGED <<config, pc, idx, pending_deps, current_time,
                 wake, lines_left, output>>

(* start_work breaks at the first node that has no slot of its kind. *)
StartWorkDone ==
  /\ At("start_work")
  /\ \/ ready_queue = <<>>
     \/ ready_queue # <<>> /\ ~HasSlot(Head(ready_queue))
  /\ pc' = "yield_started"
  /\ UNCHANGED <<config, idx, work, emission, output>>

YieldStarted ==
  /\ At("yield_started")
  /\ started # <<>>
  /\ started' = Tail(started)
  /\ event' = Event("started", Head(started), 0)
  /\ shown' = [shown EXCEPT ![Head(started)] = "started"]
  /\ UNCHANGED <<config, pc, idx, work, wake, lines_left>>

YieldStartedDone ==
  /\ At("yield_started")
  /\ started = <<>>
  /\ pc' = "pop"
  /\ UNCHANGED <<config, idx, work, emission, output>>
-----------------------------------------------------------------------------
(* Faulty: the comparator of the priority queue is turned round. *)
Before_Latest(e, f) == e.time > f.time

(* The order of the priority queue: by time, finishes first on a tie. *)
Before(e, f) ==
  \/ e.time < f.time
  \/ e.time = f.time /\ e.finish /\ ~f.finish

Top(e) ==
  /\ e \in timeline
  /\ \A f \in timeline : ~Before(f, e)

NextProgress(e) ==
  IF e.time + ProgressInterval < FinishAt(e.node)
  THEN {[time |-> e.time + ProgressInterval, node |-> e.node, finish |-> FALSE]}
  ELSE {}

MinOf(a, b) == IF a < b THEN a ELSE b

(* A progress tick: reported and re-armed only while the node runs.  The code
   re-arms it when it is resumed; nothing reads the timeline before that. *)
PopProgress(e) ==
  /\ At("pop")
  /\ Top(e)
  /\ ~e.finish
  /\ current_time' = e.time
  /\ IF node_state[e.node] = "running"
     THEN /\ event' = Event("progress", e.node,
                            MinOf(e.time - start_times[e.node], durations[e.node]))
          /\ timeline' = (timeline \ {e}) \cup NextProgress(e)
     ELSE /\ timeline' = timeline \ {e}
          /\ UNCHANGED event
  /\ UNCHANGED <<config, pc, idx, node_state, pending_deps, ready_queue,
                 start_times, active_builds, active_subs, emission, shown>>

(* A node finishes: its slot is given back before anything is yielded. *)
PopFinish(e) ==
  /\ At("pop")
  /\ Top(e)
  /\ e.finish
  /\ current_time' = e.time
  /\ timeline' = timeline \ {e}
  /\ idx' = e.node
  /\ node_state' = [node_state EXCEPT ![e.node] = "done"]
  /\ IF e.node \in will_substitute
     THEN /\ active_subs' = active_subs - 1
          /\ UNCHANGED active_builds
     ELSE /\ active_builds' = active_builds - 1
          /\ UNCHANGED active_subs
  /\ wake' = Outputs(e.node)
  /\ lines_left' = lines
  /\ pc' = IF emit_progress THEN "yield_full" ELSE "yield_log"
  /\ UNCHANGED <<config, pending_deps, ready_queue, start_times, started, output>>

Exhausted ==
  /\ At("pop")
  /\ timeline = {}
  /\ pc' = "done"
  /\ UNCHANGED <<config, idx, work, emission, output>>

(* Faulty: reports no progress instead of all of it. *)
YieldFullProgress_Zero ==
  /\ At("yield_full")
  /\ event' = Event("progress", idx, 0)
  /\ pc' = "yield_log"
  /\ UNCHANGED <<config, idx, work, emission, shown>>

YieldFullProgress ==
  /\ At("yield_full")
  /\ event' = Event("progress", idx, durations[idx])
  /\ pc' = "yield_log"
  /\ UNCHANGED <<config, idx, work, emission, shown>>

YieldLog ==
  /\ At("yield_log")
  /\ lines_left > 0
  /\ lines_left' = lines_left - 1
  /\ event' = Event("log", idx, 0)
  /\ UNCHANGED <<config, pc, idx, work, started, wake, shown>>

YieldFinished ==
  /\ At("yield_log")
  /\ lines_left = 0
  /\ event' = Event("finished", idx, 0)
  /\ shown' = [shown EXCEPT ![idx] = "finished"]
  /\ pc' = "wake"
  /\ UNCHANGED <<config, idx, work, emission>>

(* The decrement reaches zero.  Faulty: any finished input wakes. *)
Wakes_Early(m) == node_state[m] = "waiting"
Wakes(m) == pending_deps[m] = 1 /\ node_state[m] = "waiting"

(* Dependents are woken in index order, the order build_graph wired them. *)
Wake(m) ==
  /\ At("wake")
  /\ m \in wake
  /\ \A k \in wake : m <= k
  /\ wake' = wake \ {m}
  /\ pending_deps' = [pending_deps EXCEPT ![m] = @ - 1]
  /\ IF Wakes(m)
     THEN MakeReady(m)
     ELSE UNCHANGED <<node_state, ready_queue>>
  /\ UNCHANGED <<config, pc, idx, timeline, start_times, active_builds,
                 active_subs, current_time, started, lines_left, output>>

(* Faulty: returns to the timeline without starting the woken nodes. *)
WakeDone_NoStart ==
  /\ At("wake")
  /\ wake = {}
  /\ pc' = "pop"
  /\ UNCHANGED <<config, idx, work, emission, output>>

WakeDone ==
  /\ At("wake")
  /\ wake = {}
  /\ pc' = "start_work"
  /\ UNCHANGED <<config, idx, work, emission, output>>
-----------------------------------------------------------------------------
Generate ==
  \/ Seed \/ SeedDone
  \/ StartWork \/ StartWorkDone \/ YieldStarted \/ YieldStartedDone
  \/ \E e \in timeline : PopProgress(e) \/ PopFinish(e)
  \/ Exhausted
  \/ YieldFullProgress \/ YieldLog \/ YieldFinished
  \/ \E m \in wake : Wake(m)
  \/ WakeDone

(* The consumer is done with the event and resumes the generator. *)
Resume ==
  /\ event # NoEvent
  /\ event' = NoEvent
  /\ UNCHANGED <<config, pc, idx, work, emission, shown>>

(* The coroutine has returned and the consumer's loop has ended. *)
Returned ==
  /\ At("done")
  /\ UNCHANGED vars

Next == Generate \/ Resume \/ Returned

Spec == Init /\ [][Next]_vars

(* A consumer that keeps pulling; nothing in the generator ever blocks. *)
FairSpec == Spec /\ WF_vars(Generate) /\ WF_vars(Resume)
-----------------------------------------------------------------------------
InState(st) == {n \in Node : node_state[n] = st}

(* Inputs of m whose completion has not yet been counted against m. *)
Unsatisfied(m) ==
  {d \in inputs[m] : node_state[d] # "done" \/ (d = idx /\ m \in wake)}

(* idx has left its slot but its finish is not yet in the stream. *)
Finishing == pc \in {"yield_full", "yield_log"}

(* The type of every variable of the generator. *)
TypeOK ==
  /\ inputs \in Graphs
  /\ will_substitute \in SUBSET Node
  /\ durations \in [Node -> Durations]
  /\ max_jobs \in JobLimits
  /\ max_substitutions \in SubLimits
  /\ emit_progress \in BOOLEAN
  /\ lines \in LineCounts
  /\ pc \in {"seed", "start_work", "yield_started", "pop", "yield_full",
             "yield_log", "wake", "done"}
  /\ idx \in 0 .. NumNodes
  /\ node_state \in [Node -> {"waiting", "ready", "running", "done"}]
  /\ pending_deps \in [Node -> Nat]
  /\ ready_queue \in Seq(Node)
  /\ timeline \subseteq ScheduledEvent
  /\ start_times \in [Node -> Nat]
  /\ active_builds \in Nat
  /\ active_subs \in Nat
  /\ current_time \in Nat
  /\ started \in Seq(Node)
  /\ wake \subseteq Node
  /\ lines_left \in Nat
  /\ event \in {NoEvent} \cup
       [kind : {"started", "progress", "log", "finished"}, node : Node, done : Nat]
  /\ shown \in [Node -> {"unseen", "started", "finished"}]

(* The slot counters are the number of running nodes of their kind, and never
   exceed Config::max_jobs and Config::max_substitutions. *)
SlotsExact ==
  /\ active_builds = Cardinality(InState("running") \ will_substitute)
  /\ active_subs = Cardinality(InState("running") \cap will_substitute)
  /\ active_builds <= max_jobs
  /\ active_subs <= max_substitutions

(* pending_deps counts exactly the inputs that have not finished; it never
   runs below zero, although the code decrements an unsigned number. *)
PendingExact == \A m \in Node : pending_deps[m] = Cardinality(Unsatisfied(m))

(* No wake-up is lost and none comes early: once the leaves are seeded a node
   waits exactly as long as some input has not finished. *)
ReadyIffSatisfied ==
  \A m \in Node :
    IF pc = "seed" /\ m >= idx
    THEN node_state[m] = "waiting"
    ELSE (node_state[m] = "waiting") <=> (Unsatisfied(m) # {})

(* The ready queue holds every ready node, once. *)
QueueExact ==
  /\ Range(ready_queue) = InState("ready")
  /\ IsInjective(ready_queue)

(* The timeline holds one finish for every running node, none for another,
   and nothing that lies in the past. *)
TimelineExact ==
  /\ \A e \in timeline : e.time >= current_time
  /\ \A n \in Node : start_times[n] <= current_time
  /\ \A e \in timeline : e.finish => node_state[e.node] = "running"
  /\ \A n \in InState("running") : \E e \in timeline : e.finish /\ e.node = n
  /\ \A e, f \in timeline : e.finish /\ f.finish /\ e.node = f.node => e = f

(* The stream lags the state only by what start_work has collected and by
   the finish that is being reported. *)
ShownExact ==
  /\ IsInjective(started)
  /\ Range(started) = {n \in InState("running") : shown[n] = "unseen"}
  /\ \A n \in Node :
       /\ node_state[n] \in {"waiting", "ready"} => shown[n] = "unseen"
       /\ node_state[n] = "running" => shown[n] \in {"unseen", "started"}
       /\ node_state[n] = "done" =>
            shown[n] = IF n = idx /\ Finishing THEN "started" ELSE "finished"

(* Where in the coroutine each piece of local state is live. *)
ControlExact ==
  /\ pc = "seed" =>
       /\ \A n \in Node : node_state[n] \in {"waiting", "ready"}
       /\ wake = {}
  /\ pc \in {"yield_full", "yield_log", "wake"} =>
       idx \in Node /\ node_state[idx] = "done"
  /\ wake # {} => pc \in {"yield_full", "yield_log", "wake"}
  /\ started # <<>> => pc \in {"start_work", "yield_started"}
  /\ pc = "done" => timeline = {}
  /\ wake \subseteq {m \in Node : idx \in inputs[m]}
  /\ Finishing => wake = {m \in Node : idx \in inputs[m]}

(* The inductive invariant of the generator. *)
SimInv ==
  /\ TypeOK
  /\ SlotsExact
  /\ PendingExact
  /\ ReadyIffSatisfied
  /\ QueueExact
  /\ TimelineExact
  /\ ShownExact
  /\ ControlExact
-----------------------------------------------------------------------------
(* The event stream implements the abstract schedule: whatever the queues and
   the virtual clock do, a consumer sees a start only after the finish of every
   input, and never more running activities of a kind than there are slots. *)
Plan == INSTANCE BuildPlan WITH status <- shown
Schedule == Plan!Spec

(* The generator gives up with work left only if some kind has no slots at
   all (-j 0 or -S 0) or the graph has a cycle: the printed total can then
   fall short, but never for another reason. *)
Acyclic ==
  \A S \in SUBSET Node : S # {} => \E n \in S : inputs[n] \cap S = {}
GivesUpOnlyWithoutSlots ==
  pc = "done" /\ max_jobs > 0 /\ max_substitutions > 0 /\ Acyclic
    => \A n \in Node : shown[n] = "finished"

(* Virtual time never runs backwards: no event is yielded with a timestamp
   below an earlier one, so consumers can sleep to each timestamp in turn. *)
TimeForward == [][current_time' >= current_time]_vars

(* With slots of both kinds and an acyclic graph every node is eventually
   reported finished. *)
AllFinish ==
  (max_jobs > 0 /\ max_substitutions > 0 /\ Acyclic)
    ~> (\A n \in Node : shown[n] = "finished")
=============================================================================
