------------------------------- MODULE Worker -------------------------------
(***************************************************************************)
(* The goal scheduler of the store: Worker::run, the goals it resumes, the *)
(* children it waits for and the slots they take.                          *)
(*                                                                         *)
(* Goals are coroutines of one thread; a goal's pc says where it is        *)
(* suspended, and Work(g) is its code from there to the next suspension or *)
(* to its end.  The functions of Worker and Goal are operators on the      *)
(* worker's state w.  Outside the thread are the children (builders and    *)
(* substitution threads) and other processes that hold output locks.  A    *)
(* building goal and the thread of a substitution lock outputs as well.    *)
(*                                                                         *)
(* Goals are owned by whoever waits for them; one that nobody owns any     *)
(* more is destroyed, and its child with it (Sweep).                       *)
(* Not modelled: build hooks, repair and check, floating outputs and their *)
(* resolution, missing derivation files and sources, build users.          *)
(***************************************************************************)
EXTENDS Naturals, FiniteSets

CONSTANTS Drvs,      \* the derivations
          Outs,      \* Outs[d]: the names of d's outputs
          First,     \* First[d]: the output whose goal sorts first
          Scenarios  \* the settings and the environment of a behaviour, see Init

VARIABLES set,     \* the scenario; it never changes
          w,       \* the worker, its goals and the valid outputs
          round,   \* the goals of awake2 that are still to be resumed
          held,    \* the goals that awake2 keeps alive
          foreign  \* the derivations whose outputs another process has locked

vars == <<set, w, round, held, foreign>>

-----------------------------------------------------------------------------
(* A trampoline, resolution and building goal for each derivation, a       *)
(* derivation goal and a substitution goal for each output.                *)
T(d) == <<"T", d, "">>
R(d) == <<"R", d, "">>
B(d) == <<"B", d, "">>
D(d, o) == <<"D", d, o>>
S(d, o) == <<"S", d, o>>

OutputsOf(ds) == UNION {{<<d, o>> : o \in Outs[d]} : d \in ds}
Outputs == OutputsOf(Drvs)

Goals == (UNION {{T(d), R(d), B(d)} : d \in Drvs})
         \cup (UNION {{D(x[1], x[2]), S(x[1], x[2])} : x \in Outputs})

Kind(g) == g[1]
Drv(g) == g[2]
Out(g) == <<g[2], g[3]>>

(* An output refers to all outputs of the inputs.                          *)
Needed(d) == OutputsOf(set.inputs[d])

(* Derivations are named after what they are made of: a derivation has a   *)
(* rank above its inputs.  A client asks for derivations and for paths.    *)
ASSUME WorkerAssumption ==
    /\ IsFiniteSet(Drvs) /\ IsFiniteSet(Goals)
    /\ \A d \in Drvs : First[d] \in Outs[d]
    /\ \A s \in Scenarios :
         /\ s.top \subseteq {g \in Goals : Kind(g) \in {"T", "S"}}
         /\ s.maxJobs \in Nat /\ s.maxSubs \in Nat /\ s.substituters \subseteq Nat
         /\ s.broken \subseteq s.substituters
         /\ s.stock \subseteq Outputs /\ s.foreign \subseteq Drvs
         /\ s.inputs \in [Drvs -> SUBSET Drvs]
         /\ \E rank \in [Drvs -> 0..Cardinality(Drvs)] :
              \A d \in Drvs : \A e \in s.inputs[d] : rank[e] < rank[d]

NoGoal == [pc |-> "none", waitees |-> {}, waiters |-> {}, nrFailed |-> 0,
           nrNoSubstituters |-> 0, sub |-> 0, subFailed |-> FALSE, event |-> "none"]
NewGoal == [NoGoal EXCEPT !.pc = "new"]

(* w.code is the exit code of a goal's last incarnation, w.misled records  *)
(* that a trampoline has reported the code of one output for another's.    *)
Init ==
    /\ set \in Scenarios
    /\ foreign = set.foreign
    /\ round = {}
    /\ held = {}
    /\ w = [goal |-> [g \in Goals |-> IF g \in set.top THEN NewGoal ELSE NoGoal],
            awake |-> set.top, wanting |-> {}, awhile |-> {}, top |-> set.top,
            child |-> [g \in Goals |-> "none"], nrBuilds |-> 0, nrSubs |-> 0,
            code |-> [g \in Goals |-> "busy"], valid |-> set.stock,
            error |-> "none", misled |-> FALSE]

-----------------------------------------------------------------------------
(* Worker and Goal, as functions of the worker's state                     *)

Pc(v, g) == v.goal[g].pc
Live(v) == {g \in Goals : Pc(v, g) # "none"}
Children(v) == {g \in Goals : v.child[g] # "none"}

WakeUp(v, G) == [v EXCEPT !.awake = @ \cup G]
Goto(v, g, pc) == [v EXCEPT !.goal[g].pc = pc]
Yield(v, g, pc) == WakeUp(Goto(v, g, pc), {g})

(* initGoalIfNeeded: the goals that do not exist yet, woken.               *)
Make(v, G) ==
    LET fresh == G \ Live(v)
    IN  WakeUp([v EXCEPT !.goal = [g \in Goals |-> IF g \in fresh THEN NewGoal ELSE @[g]],
                         !.code = [g \in Goals |-> IF g \in fresh THEN "busy" ELSE @[g]]],
               fresh)

(* Goal::await on goals that exist, at least one.                          *)
Await(v, g, G, pc) ==
    [v EXCEPT !.goal = [h \in Goals |->
        IF h = g THEN [v.goal[h] EXCEPT !.waitees = G, !.pc = pc]
        ELSE IF h \in G THEN [v.goal[h] EXCEPT !.waiters = @ \cup {g}]
        ELSE v.goal[h]]]

(* Mutant: a failure stops everything even with --keep-going.              *)
Stops_Always(code) == code = "failed"

Stops(code) == code = "failed" /\ ~set.keepGoing

(* Mutant: a goal that gives up stays a waiter of what it waited for.      *)
WaitersLeft_All(v, h, quits) == v.goal[h].waiters

WaitersLeft(v, h, quits) == v.goal[h].waiters \ quits

(* Goal::amDone and Worker::removeGoal: a waiter is woken when nothing is  *)
(* left to wait for, or at the first failure unless --keep-going, and then *)
(* leaves the goals it still waited for; a top goal that fails cancels the *)
(* others.                                                                 *)
AmDone(v, g, code) ==
    LET failures == IF code \in {"failed", "nosub"} THEN 1 ELSE 0
        nosubs == IF code = "nosub" THEN 1 ELSE 0
        waiters == v.goal[g].waiters
        quits == IF Stops(code) THEN waiters ELSE {}
        left(p) == v.goal[p].waitees \ (IF p \in quits THEN Goals ELSE {g})
        goal == [h \in Goals |->
            IF h = g THEN NoGoal
            ELSE IF h \in waiters
            THEN [v.goal[h] EXCEPT !.waitees = left(h), !.nrFailed = @ + failures,
                                   !.nrNoSubstituters = @ + nosubs,
                                   !.waiters = WaitersLeft(v, h, quits)]
            ELSE [v.goal[h] EXCEPT !.waiters = WaitersLeft(v, h, quits)]]
    IN  WakeUp([v EXCEPT !.goal = goal, !.code[g] = code,
                         !.top = IF g \in @ /\ Stops(code) THEN {} ELSE @ \ {g}],
               {p \in waiters : left(p) = {}})

ChildStarted(v, g) ==
    [v EXCEPT !.child[g] = "running", !.goal[g].pc = "child",
              !.nrSubs = IF Kind(g) = "S" THEN @ + 1 ELSE @,
              !.nrBuilds = IF Kind(g) = "B" THEN @ + 1 ELSE @]

(* Mutant: a child that ends does not wake the goals that want its slot.   *)
ChildTerminated_NoWake(v, G) ==
    [v EXCEPT !.child = [g \in Goals |-> IF g \in G THEN "none" ELSE @[g]],
              !.nrSubs = @ - Cardinality({g \in G : Kind(g) = "S"}),
              !.nrBuilds = @ - Cardinality({g \in G : Kind(g) = "B"})]

(* The children of G are gone; whoever wants a slot tries again.           *)
ChildTerminated(v, G) ==
    [v EXCEPT !.child = [g \in Goals |-> IF g \in G THEN "none" ELSE @[g]],
              !.nrSubs = @ - Cardinality({g \in G : Kind(g) = "S"}),
              !.nrBuilds = @ - Cardinality({g \in G : Kind(g) = "B"}),
              !.awake = @ \cup v.wanting,
              !.wanting = {}]

WaitForBuildSlot(v, g) ==
    IF \/ Kind(g) # "S" /\ v.nrBuilds < set.maxJobs
       \/ Kind(g) = "S" /\ v.nrSubs < set.maxSubs
    THEN WakeUp(v, {g})
    ELSE [v EXCEPT !.wanting = @ \cup {g}]

WaitForAWhile(v, g) == [v EXCEPT !.awhile = @ \cup {g}]

(* An exception leaves Worker::run; a failed assertion ends the process;   *)
(* a "join" never returns, see Destroy.                                    *)
Throw(v, e) == [v EXCEPT !.error = e]

-----------------------------------------------------------------------------
(* Trampoline goals                                                        *)

OutputGoals(d) == {D(d, o) : o \in Outs[d]}

(* The result of a derivation is that of its first output.                 *)
WorkT(v, g) ==
    LET d == Drv(g)
        code == v.code[D(d, First[d])]
    IN  IF Pc(v, g) = "new" THEN Await(Make(v, OutputGoals(d)), g, OutputGoals(d), "outs")
        ELSE IF code = "busy" THEN Throw(v, "assertion")
        ELSE AmDone([v EXCEPT !.misled = \/ @
                                         \/ code = "ok" /\ \E x \in OutputGoals(d) : v.code[x] # "ok"],
                    g, code)

-----------------------------------------------------------------------------
(* Derivation goals                                                        *)

(* Substitution failed, for another reason than that nobody offers it.     *)
GiveUp(v, g) ==
    /\ v.goal[g].nrFailed > v.goal[g].nrNoSubstituters
    /\ ~set.fallback

AfterSubstitution(v, g) ==
    LET v1 == [v EXCEPT !.goal[g].nrFailed = 0, !.goal[g].nrNoSubstituters = 0]
    IN  IF GiveUp(v, g) THEN AmDone(v, g, "failed")
        ELSE IF Out(g) \in v.valid THEN AmDone(v1, g, "ok")
        ELSE Await(Make(v1, {R(Drv(g))}), g, {R(Drv(g))}, "resolve")

(* Mutant: the failure of the building goal is not looked at.              *)
BuildDone_Ok(v, g) == AmDone(v, g, "ok")

BuildDone(v, g) == AmDone(v, g, IF v.goal[g].nrFailed # 0 THEN "failed" ELSE "ok")

WorkD(v, g) ==
    LET s == S(g[2], g[3])
    IN  CASE Pc(v, g) = "new" ->
               IF Out(g) \in v.valid THEN AmDone(v, g, "ok")
               ELSE IF set.substituters # {} THEN Await(Make(v, {s}), g, {s}, "subst")
               ELSE AfterSubstitution(v, g)
          [] Pc(v, g) = "subst" -> AfterSubstitution(v, g)
          [] Pc(v, g) = "resolve" ->
               IF v.goal[g].nrFailed # 0 THEN AmDone(v, g, "failed")
               ELSE Await(Make(v, {B(Drv(g))}), g, {B(Drv(g))}, "build")
          [] OTHER -> BuildDone(v, g)

-----------------------------------------------------------------------------
(* Resolution goals: the inputs                                            *)

InputGoals(d) == {T(e) : e \in set.inputs[d]}

(* Mutant: the failures of the inputs are not looked at.                   *)
WorkR_IgnoresFailures(v, g) ==
    IF Pc(v, g) = "new" /\ InputGoals(Drv(g)) # {}
    THEN Await(Make(v, InputGoals(Drv(g))), g, InputGoals(Drv(g)), "inputs")
    ELSE AmDone(v, g, "ok")

WorkR(v, g) ==
    IF Pc(v, g) = "new" /\ InputGoals(Drv(g)) # {}
    THEN Await(Make(v, InputGoals(Drv(g))), g, InputGoals(Drv(g)), "inputs")
    ELSE AmDone(v, g, IF v.goal[g].nrFailed # 0 THEN "failed" ELSE "ok")

-----------------------------------------------------------------------------
(* Building goals                                                          *)

AllValid(v, d) == OutputsOf({d}) \subseteq v.valid

(* Who holds the lock of an output of d: its building goal until it waits  *)
(* for a slot or ends, or the thread that substitutes the output.          *)
BuilderLocks(v, d) == Pc(v, B(d)) \in {"start", "child"}
ThreadLocks(v, d) == \E o \in Outs[d] : v.child[S(d, o)] = "locked"

(* tryToBuild: the output locks, then the outputs again, then a slot.      *)
TryToBuild(v, g) ==
    IF Drv(g) \in foreign \/ ThreadLocks(v, Drv(g)) THEN WaitForAWhile(Goto(v, g, "try"), g)
    ELSE IF AllValid(v, Drv(g)) THEN AmDone(v, g, "ok")
    ELSE IF set.maxJobs = 0 THEN AmDone(v, g, "failed")
    ELSE Yield(v, g, "start")

(* Mutant: no look at the slots.                                           *)
StartBuild_Anyway(v, g) == ChildStarted(v, g)

(* The locks are given up while the goal waits for a slot.                 *)
StartBuild(v, g) ==
    IF v.nrBuilds >= set.maxJobs THEN WaitForBuildSlot(Goto(v, g, "try"), g)
    ELSE ChildStarted(v, g)

WorkB(v, g) ==
    CASE Pc(v, g) = "new" ->
           IF Needed(Drv(g)) \subseteq v.valid THEN Yield(v, g, "try")
           ELSE Throw(v, "input not valid")
      [] Pc(v, g) = "try" -> TryToBuild(v, g)
      [] Pc(v, g) = "start" -> StartBuild(v, g)
      [] OTHER ->
           LET v1 == ChildTerminated(v, {g})
           IN  IF v.goal[g].event = "eof" /\ v.child[g] = "ok"
               THEN AmDone([v1 EXCEPT !.valid = @ \cup OutputsOf({Drv(g)})], g, "ok")
               ELSE AmDone(v1, g, "failed")

-----------------------------------------------------------------------------
(* Substitution goals                                                      *)

(* All references are there: yield, then ask for a slot.                   *)
TryToRun(v, g) ==
    IF v.goal[g].nrFailed > 0
    THEN AmDone(v, g, IF v.goal[g].nrNoSubstituters > 0 THEN "nosub" ELSE "failed")
    ELSE IF ~(Needed(Drv(g)) \subseteq v.valid) THEN Throw(v, "reference not valid")
    ELSE Yield(v, g, "run")

(* The last substituter answers with an error, which only --fallback       *)
(* turns into a warning; an earlier one's error is logged.                 *)
LastBroken ==
    /\ ~set.fallback
    /\ \E i \in set.broken : \A j \in set.substituters : j <= i

(* The next substituter that knows the path, and its references.           *)
NextSubstituter(v, g) ==
    LET offering == {i \in set.substituters \ set.broken :
                        i > v.goal[g].sub /\ <<i, Out(g)>> \in set.offers}
        next == CHOOSE i \in offering : \A j \in offering : i <= j
        v1 == [v EXCEPT !.goal[g].sub = next]
        needed == {S(x[1], x[2]) : x \in Needed(Drv(g))}
    IN  IF offering = {} /\ LastBroken THEN Throw(v, "substituter")
        ELSE IF offering = {} THEN AmDone(v, g, IF v.goal[g].subFailed THEN "failed" ELSE "nosub")
        ELSE IF needed = {} THEN TryToRun(v1, g)
        ELSE Await(Make(v1, needed), g, needed, "refs")

WorkS(v, g) ==
    CASE Pc(v, g) = "new" ->
           IF Out(g) \in v.valid THEN AmDone(v, g, "ok") ELSE NextSubstituter(v, g)
      [] Pc(v, g) = "refs" -> TryToRun(v, g)
      [] Pc(v, g) = "run" ->
           IF v.nrSubs >= (IF set.maxSubs = 0 THEN 1 ELSE set.maxSubs)
           THEN WaitForBuildSlot(v, g)
           ELSE ChildStarted(v, g)
      [] OTHER ->
           LET v1 == [ChildTerminated(v, {g}) EXCEPT !.goal[g].event = "none", !.goal[g].pc = "new"]
           IN  CASE v.child[g] = "ok" -> AmDone(v1, g, "ok")
                 [] v.child[g] = "gone" -> NextSubstituter(v1, g)
                 [] OTHER -> NextSubstituter([v1 EXCEPT !.goal[g].subFailed = TRUE], g)

Work(v, g) ==
    CASE Kind(g) = "T" -> WorkT(v, g)
      [] Kind(g) = "D" -> WorkD(v, g)
      [] Kind(g) = "R" -> WorkR(v, g)
      [] Kind(g) = "B" -> WorkB(v, g)
      [] Kind(g) = "S" -> WorkS(v, g)

-----------------------------------------------------------------------------
(* Ownership                                                               *)

(* What a goal's coroutine owns: the goals it waits for, and those in the  *)
(* local variables of a trampoline and of a resolution goal.               *)
Owns(v, g) ==
    v.goal[g].waitees \cup (CASE Pc(v, g) = "outs" -> OutputGoals(Drv(g))
                              [] Pc(v, g) = "inputs" -> InputGoals(Drv(g))
                              [] OTHER -> {})

Owned(v, roots) ==
    LET reach[n \in 0..Cardinality(Goals)] ==
          IF n = 0 THEN roots ELSE UNION {{g} \cup Owns(v, g) : g \in reach[n - 1]}
    IN  reach[Cardinality(Goals)]

(* Mutant: the child of a destroyed goal is forgotten.                     *)
Sweep_KeepsChild(v, roots, V) ==
    LET dead == Live(v) \ Owned(v, roots)
    IN  [v EXCEPT !.goal = [g \in Goals |->
                              IF g \in dead THEN NoGoal
                              ELSE [v.goal[g] EXCEPT !.waiters = @ \ dead]],
                  !.awake = @ \ dead, !.wanting = @ \ dead, !.awhile = @ \ dead]

(* The goals that nobody owns are destroyed: a builder is killed, a        *)
(* substitution thread is joined, and may have finished (V).               *)
Sweep(v, roots, V) ==
    LET dead == Live(v) \ Owned(v, roots)
        killed == dead \cap Children(v)
        v1 == IF killed = {} THEN v ELSE ChildTerminated(v, killed)
    IN  [v1 EXCEPT !.goal = [g \in Goals |->
                               IF g \in dead THEN NoGoal
                               ELSE [v.goal[g] EXCEPT !.waiters = @ \ dead]],
                   !.awake = @ \ dead, !.wanting = @ \ dead, !.awhile = @ \ dead,
                   !.valid = @ \cup V]

(* The threads to be joined, and what they may put into the store: nothing *)
(* for an output whose builder stays.                                      *)
Joining(v, roots) ==
    {g \in Live(v) \ Owned(v, roots) : Kind(g) = "S" /\ v.child[g] \in {"running", "locked"}}
Joined(v, roots) ==
    {Out(g) : g \in {g \in Joining(v, roots) :
        BuilderLocks(v, Drv(g)) => B(Drv(g)) \notin Owned(v, roots)}}

(* Destruction waits for a substitution thread, and the thread perhaps for *)
(* a lock: another process releases it some day, but a building goal of    *)
(* the worker, destroyed later or not at all, never does.                  *)
Destroy(v, roots) ==
    LET early == {g \in Joining(v, roots) : v.child[g] = "running"}
    IN  \/ /\ \A g \in early : Drv(g) \notin foreign
           /\ \E V \in SUBSET Joined(v, roots) : w' = Sweep(v, roots, V)
        \/ /\ v.error = "none"
           /\ \E g \in early : BuilderLocks(v, Drv(g))
           /\ w' = Throw(v, "join")

-----------------------------------------------------------------------------
Going == w.top # {} /\ w.error = "none"

(* One round over the goals that are awake now.                            *)
StartRound ==
    /\ Going
    /\ held = {} /\ w.awake # {}
    /\ round' = w.awake
    /\ held' = w.awake
    /\ w' = [w EXCEPT !.awake = {}]
    /\ UNCHANGED <<set, foreign>>

(* goal->work() for a goal of the round.                                   *)
Resume(g) ==
    /\ Going
    /\ g \in round
    /\ round' = round \ {g}
    /\ \E v \in {Work(w, g)} :
         LET keep == held \cap Live(v)
             roots == v.top \cup keep
         IN  /\ held' = keep
             /\ IF v.top = {} THEN w' = v
                ELSE Destroy(v, roots)
    /\ UNCHANGED <<set, foreign>>

(* awake2 goes out of scope.                                               *)
EndRound ==
    /\ Going
    /\ round = {} /\ held # {}
    /\ held' = {}
    /\ Destroy(w, w.top)
    /\ UNCHANGED <<set, round, foreign>>

(* The children that have closed their pipe.                               *)
Exited == {g \in Children(w) : w.child[g] \notin {"running", "locked"}}

(* Mutant: the goals that wait for a while are woken by children only.     *)
WaitForInput_Children ==
    /\ Going
    /\ held = {} /\ w.awake = {}
    /\ Exited # {}
    /\ w' = [w EXCEPT !.awake = Exited \cup w.awhile, !.awhile = {},
                      !.goal = [g \in Goals |->
                          IF g \in Exited THEN [@[g] EXCEPT !.event = "eof"] ELSE @[g]]]
    /\ UNCHANGED <<set, round, held, foreign>>

(* waitForInput: the children that have closed their pipe, builds that     *)
(* have run out of time, and the goals that wait for a while, if it is     *)
(* over; with nothing else to wake up for, it waits until it is over.      *)
WaitForInput ==
    /\ Going
    /\ held = {} /\ w.awake = {}
    /\ \E late \in SUBSET {g \in Children(w) : set.timeouts /\ Kind(g) = "B"},
          over \in BOOLEAN :
         LET slept == IF over THEN w.awhile ELSE {}
         IN  /\ late \cup Exited \cup slept # {}
             /\ w' = [w EXCEPT !.awake = late \cup Exited \cup slept,
                               !.awhile = @ \ slept,
                               !.goal = [g \in Goals |->
                                   IF g \in late THEN [@[g] EXCEPT !.event = "timeout"]
                                   ELSE IF g \in Exited THEN [@[g] EXCEPT !.event = "eof"]
                                   ELSE @[g]]]
    /\ UNCHANGED <<set, round, held, foreign>>

(* addToStore locks the path.                                              *)
ThreadLocksPath(g) ==
    /\ Kind(g) = "S" /\ w.child[g] = "running"
    /\ Drv(g) \notin foreign /\ ~BuilderLocks(w, Drv(g))
    /\ w' = [w EXCEPT !.child[g] = "locked"]
    /\ UNCHANGED <<set, round, held, foreign>>

(* A child ends: a builder with success or not, a substitution with the    *)
(* path in the store, without, or with the news that it is not on offer.   *)
ChildEnds(g) ==
    /\ w.child[g] = IF Kind(g) = "S" THEN "locked" ELSE "running"
    /\ \E how \in {"ok", "bad"} \cup (IF Kind(g) = "S" THEN {"gone"} ELSE {}) :
         w' = [w EXCEPT !.child[g] = how,
                        !.valid = IF Kind(g) = "S" /\ how = "ok" THEN @ \cup {Out(g)} ELSE @]
    /\ UNCHANGED <<set, round, held, foreign>>

(* The thread does not come to the lock: the path is already there, or     *)
(* cannot be had.  One that is joined for ever is at the lock.             *)
ThreadEndsEarly(g) ==
    /\ Kind(g) = "S" /\ w.child[g] = "running" /\ w.error # "join"
    /\ \E how \in {"bad"} \cup (IF Out(g) \in w.valid THEN {"ok"} ELSE {}) :
         w' = [w EXCEPT !.child[g] = how]
    /\ UNCHANGED <<set, round, held, foreign>>

(* Another process releases its locks, having built the outputs or not.    *)
ForeignDone(d) ==
    /\ d \in foreign
    /\ foreign' = foreign \ {d}
    /\ \/ w' = w
       \/ Needed(d) \subseteq w.valid /\ w' = [w EXCEPT !.valid = @ \cup OutputsOf({d})]
    /\ UNCHANGED <<set, round, held>>

RunStep == StartRound \/ (\E g \in Goals : Resume(g)) \/ EndRound \/ WaitForInput

Next ==
    \/ RunStep
    \/ \E g \in Goals : ThreadLocksPath(g) \/ ChildEnds(g) \/ ThreadEndsEarly(g)
    \/ \E d \in Drvs : ForeignDone(d)

(* The thread runs; children and other processes come to an end.           *)
Fairness ==
    /\ WF_vars(RunStep)
    /\ \A g \in Goals : WF_vars(ThreadLocksPath(g)) /\ WF_vars(ChildEnds(g))
    /\ \A d \in Drvs : WF_vars(ForeignDone(d))

Spec == Init /\ [][Next]_vars /\ Fairness
-----------------------------------------------------------------------------
(* Properties                                                              *)

Codes == {"busy", "ok", "failed", "nosub"}
Pcs == {"none", "new", "outs", "subst", "resolve", "build", "inputs", "refs",
        "run", "try", "start", "child"}

(* The types; waiting is mutual: a goal is among the waiters of every goal *)
(* it waits for, and of no other.                                          *)
WorkerTypeOK ==
    /\ \A g \in Goals :
         /\ w.goal[g].pc \in Pcs
         /\ w.goal[g].waiters \cup w.goal[g].waitees \subseteq Live(w)
         /\ \A h \in Goals : h \in w.goal[g].waitees <=> g \in w.goal[h].waiters
    /\ w.awake \cup w.wanting \cup w.awhile \cup w.top \subseteq Goals
    /\ w.child \in [Goals -> {"none", "running", "locked", "ok", "bad", "gone"}]
    /\ w.code \in [Goals -> Codes]
    /\ w.valid \subseteq Outputs
    /\ round \subseteq held /\ foreign \subseteq Drvs

(* The slots: nrLocalBuilds and nrSubstitutions count the children, also   *)
(* those of goals that were destroyed, and stay within --max-jobs and      *)
(* --max-substitution-jobs (which still allows one substitution if 0).     *)
SlotsCounted ==
    LET running(k) == Cardinality({g \in Children(w) : Kind(g) = k})
    IN  /\ w.nrBuilds = running("B") /\ w.nrBuilds <= set.maxJobs
        /\ w.nrSubs = running("S")
        /\ w.nrSubs <= 1 \/ w.nrSubs <= set.maxSubs

(* A goal is resumed only for the reason it was suspended for: no goal     *)
(* that is done is resumed (Goal::work asserts a coroutine), none that     *)
(* still waits for another (Goal::await asserts that its waitees are       *)
(* gone), and a goal with a child only when the child has an event for it  *)
(* (popChildEvent is unreachable otherwise).  A child's goal is alive, as  *)
(* waitForInput asserts.                                                   *)
ResumedForAReason ==
    /\ Children(w) \subseteq Live(w)
    /\ Going => \A g \in round \cup (w.awake \cap Live(w)) :
         /\ Pc(w, g) # "none"
         /\ w.goal[g].waitees = {}
         /\ Pc(w, g) = "child" => w.goal[g].event # "none" /\ w.child[g] # "none"

(* The else branch of Worker::run, assert(!awake.empty()): there is always *)
(* a goal to resume, a child to wait for, or a goal that polls a lock.     *)
NeverStuck ==
    Going /\ held = {} => w.awake # {} \/ Children(w) # {} \/ w.awhile # {}

(* The assertions at the end of Worker::run: with --keep-going, a run that *)
(* is over has left nothing awake, wanting a slot, or running.             *)
KeepGoingLeavesNothing ==
    set.keepGoing /\ w.top = {} /\ w.error = "none" =>
        /\ w.awake \cap Live(w) = {}
        /\ w.wanting \cap Live(w) = {}
        /\ Children(w) = {}

(* A builder or a substitution runs only with all its inputs or references *)
(* valid, and neither finds one missing, unless a trampoline has reported  *)
(* one output's success for another's failure.                             *)
InputsBeforeChild ==
    ~w.misled =>
        /\ w.error \notin {"input not valid", "reference not valid"}
        /\ \A g \in Children(w) : Needed(Drv(g)) \subseteq w.valid

(* What a goal provides when it succeeds.                                  *)
Provides(g) ==
    CASE Kind(g) \in {"T", "B"} -> OutputsOf({Drv(g)})
      [] Kind(g) = "R" -> Needed(Drv(g))
      [] OTHER -> {Out(g)}

(* store-api.hh, buildPaths: "Building a derivation means ensuring that    *)
(* the output paths are valid."  A derivation whose goal reports success   *)
(* has all outputs valid.                                                  *)
BuiltMeansValid ==
    \A d \in Drvs : w.code[T(d)] = "ok" => OutputsOf({d}) \subseteq w.valid

(* The same of all goals as long as no trampoline has been wrong.          *)
SuccessMeansValid ==
    ~w.misled => \A g \in Goals : w.code[g] = "ok" => Provides(g) \subseteq w.valid

Ended == w.top = {} \/ w.error \notin {"none", "join"}
Hung == w.error = "join"

(* worker.hh, Worker::run: "Loop until the specified top-level goals have  *)
(* finished."  Whatever happens, the run comes to an end.                  *)
RunEnds == <>Ended

(* It does, whatever fails or is locked by others, unless the destruction  *)
(* of a substitution goal waits for a thread that waits for a lock of the  *)
(* worker's own building goal.                                             *)
WorkerEnds == <>(Ended \/ Hung)

=============================================================================
