---------------------------- MODULE SimGen_proof ----------------------------
(***************************************************************************)
(* Proofs about the generator of SimGen, for every number of derivations,  *)
(* every dependency relation, every choice of durations and every limit.   *)
(***************************************************************************)
EXTENDS SimGen, SequenceTheorems, FiniteSetTheorems, TLAPS

(* Appending a new element keeps a sequence free of repetitions. *)
LEMMA AppendNew ==
  ASSUME NEW S, NEW s \in Seq(S), NEW x \in S, x \notin Range(s), IsInjective(s)
  PROVE  /\ Append(s, x) \in Seq(S)
         /\ Range(Append(s, x)) = Range(s) \cup {x}
         /\ IsInjective(Append(s, x))
<1> DEFINE t == Append(s, x)
<1>1. /\ t \in Seq(S) /\ Len(t) = Len(s) + 1 /\ Len(s) \in Nat
      /\ \A i \in 1 .. Len(s) : t[i] = s[i]
      /\ t[Len(s) + 1] = x
      /\ DOMAIN s = 1 .. Len(s) /\ DOMAIN t = 1 .. Len(t)
  BY AppendProperties, LenProperties
<1>2. Range(t) = Range(s) \cup {x}
  BY <1>1 DEF Range
<1>3. ASSUME NEW i \in DOMAIN t, NEW j \in DOMAIN t, t[i] = t[j]  PROVE i = j
  <2>1. \A k \in 1 .. Len(s) : s[k] \in Range(s)
    BY <1>1 DEF Range
  <2> QED  BY <1>1, <1>3, <2>1 DEF IsInjective
<1> QED  BY <1>1, <1>2, <1>3 DEF IsInjective

(* Removing the head of a sequence without repetitions removes one element. *)
LEMMA TailRemoves ==
  ASSUME NEW S, NEW s \in Seq(S), s # <<>>, IsInjective(s)
  PROVE  /\ Head(s) \in S /\ Head(s) \in Range(s)
         /\ Tail(s) \in Seq(S)
         /\ Range(Tail(s)) = Range(s) \ {Head(s)}
         /\ IsInjective(Tail(s))
<1> DEFINE t == Tail(s)
<1>1. /\ Len(s) \in Nat /\ Len(s) >= 1 /\ Head(s) = s[1]
      /\ t \in Seq(S) /\ Len(t) = Len(s) - 1
      /\ \A i \in 1 .. Len(t) : t[i] = s[i + 1]
      /\ DOMAIN s = 1 .. Len(s) /\ DOMAIN t = 1 .. Len(t)
  BY HeadTailProperties, LenProperties, EmptySeq
<1>2. Head(s) \in S /\ Head(s) \in Range(s)
  BY <1>1, ElementOfSeq DEF Range
<1>3. Range(t) \subseteq Range(s) \ {Head(s)}
  <2> SUFFICES ASSUME NEW i \in 1 .. Len(t)  PROVE t[i] \in Range(s) \ {Head(s)}
    BY <1>1 DEF Range
  <2>1. i + 1 \in 1 .. Len(s) /\ i + 1 # 1
    BY <1>1
  <2> QED  BY <1>1, <2>1 DEF Range, IsInjective
<1>4. Range(s) \ {Head(s)} \subseteq Range(t)
  <2> SUFFICES ASSUME NEW i \in 1 .. Len(s), s[i] # s[1]  PROVE s[i] \in Range(t)
    BY <1>1 DEF Range
  <2>1. i - 1 \in 1 .. Len(t) /\ (i - 1) + 1 = i
    BY <1>1
  <2> QED  BY <1>1, <2>1 DEF Range
<1>5. IsInjective(t)
  <2> SUFFICES ASSUME NEW i \in 1 .. Len(t), NEW j \in 1 .. Len(t), t[i] = t[j]
               PROVE  i = j
    BY <1>1 DEF IsInjective
  <2>1. i + 1 \in 1 .. Len(s) /\ j + 1 \in 1 .. Len(s) /\ s[i + 1] = s[j + 1]
    BY <1>1
  <2> QED  BY <1>1, <2>1 DEF IsInjective
<1> QED  BY <1>1, <1>2, <1>3, <1>4, <1>5

LEMMA EmptyRange == Range(<<>>) = {} /\ IsInjective(<<>>)
BY EmptySeq DEF Range, IsInjective

(* Every set of nodes is finite, and counting behaves as it should. *)
LEMMA CountNodes ==
  ASSUME NEW S \in SUBSET Node
  PROVE  /\ IsFiniteSet(S) /\ Cardinality(S) \in Nat
         /\ Cardinality(S) = 0 <=> S = {}
         /\ \A n \in Node \ S : Cardinality(S \cup {n}) = Cardinality(S) + 1
         /\ \A n \in S : Cardinality(S \ {n}) = Cardinality(S) - 1
         /\ \A T \in SUBSET S : Cardinality(T) <= Cardinality(S)
<1>1. IsFiniteSet(Node)
  BY FS_Interval, SimGenAssumption DEF Node
<1>2. IsFiniteSet(S) /\ Cardinality(S) \in Nat
  BY <1>1, FS_Subset, FS_CardinalityType
<1> QED  BY <1>2, FS_EmptySet, FS_AddElement, FS_RemoveElement, FS_Subset
-----------------------------------------------------------------------------
(* The fields of what is in the timeline, and of what is pushed onto it. *)
LEMMA EntryFields ==
  ASSUME TypeOK, NEW e \in timeline
  PROVE  e.time \in Nat /\ e.node \in Node /\ e.finish \in BOOLEAN
BY DEF TypeOK, ScheduledEvent

LEMMA PushedEntries ==
  ASSUME TypeOK, NEW n \in Node, NEW t \in Nat, NEW b \in BOOLEAN
  PROVE  [time |-> t, node |-> n, finish |-> b] \in ScheduledEvent
BY DEF ScheduledEvent

(* A slot counter is never decremented below zero: the finishing node runs. *)
LEMMA FinishHoldsSlot ==
  ASSUME SimInv, NEW e \in timeline, e.finish
  PROVE  /\ e.node \in Node /\ node_state[e.node] = "running"
         /\ e.node \in will_substitute => active_subs - 1 \in Nat
         /\ e.node \notin will_substitute => active_builds - 1 \in Nat
<1> USE DEF SimInv, TypeOK, SlotsExact, TimelineExact, InState
<1>1. e.node \in Node /\ node_state[e.node] = "running"
  BY EntryFields
<1> DEFINE S == InState("running") \cap will_substitute
           B == InState("running") \ will_substitute
<1>2. S \in SUBSET Node /\ B \in SUBSET Node
  OBVIOUS
<1>3. /\ e.node \in will_substitute => e.node \in S
      /\ e.node \notin will_substitute => e.node \in B
  BY <1>1
<1>4. active_subs = Cardinality(S) /\ active_builds = Cardinality(B)
  OBVIOUS
<1> HIDE DEF S, B
<1>5. (S # {} => Cardinality(S) # 0) /\ (B # {} => Cardinality(B) # 0)
  BY <1>2, CountNodes
<1> QED  BY <1>1, <1>3, <1>4, <1>5

(* A dependent that is still to be woken has a dependency left to count. *)
LEMMA WakeCounts ==
  ASSUME SimInv, NEW m \in wake
  PROVE  /\ m \in Node /\ idx \in Node /\ idx \in Unsatisfied(m)
         /\ pending_deps[m] \in Nat \ {0}
         /\ pending_deps[m] - 1 = Cardinality(Unsatisfied(m) \ {idx})
         /\ Cardinality(Unsatisfied(m) \ {idx}) = 0 <=> Unsatisfied(m) \subseteq {idx}
<1> USE DEF SimInv, TypeOK, PendingExact, ControlExact
<1>1. m \in Node /\ idx \in Node /\ inputs[m] \subseteq Node
  BY SimGenAssumption
<1>2. idx \in Unsatisfied(m) /\ Unsatisfied(m) \subseteq Node
  BY <1>1 DEF Unsatisfied
<1>3. Unsatisfied(m) \ {idx} \subseteq Node
  BY <1>2
<1>4. /\ Cardinality(Unsatisfied(m)) \in Nat \ {0}
      /\ Cardinality(Unsatisfied(m) \ {idx}) = Cardinality(Unsatisfied(m)) - 1
      /\ Cardinality(Unsatisfied(m) \ {idx}) = 0 <=> Unsatisfied(m) \ {idx} = {}
  BY <1>2, <1>3, CountNodes
<1> QED  BY <1>1, <1>2, <1>4

(* The head of the ready queue is a ready node, and it is queued once. *)
LEMMA HeadIsReady ==
  ASSUME SimInv, ready_queue # <<>>
  PROVE  /\ Head(ready_queue) \in Node
         /\ node_state[Head(ready_queue)] = "ready"
         /\ shown[Head(ready_queue)] = "unseen"
         /\ Tail(ready_queue) \in Seq(Node)
         /\ Range(Tail(ready_queue)) = Range(ready_queue) \ {Head(ready_queue)}
         /\ IsInjective(Tail(ready_queue))
BY TailRemoves DEF SimInv, TypeOK, QueueExact, ShownExact, InState

LEMMA InitOK == Init => SimInv
<1> SUFFICES ASSUME Init PROVE SimInv
  OBVIOUS
<1>1. TypeOK
  <2>1. pending_deps \in [Node -> Nat]
    BY CountNodes, SimGenAssumption DEF Init
  <2>2. 0 \in 0 .. NumNodes
    BY SimGenAssumption
  <2> QED  BY <2>1, <2>2, EmptySeq DEF Init, TypeOK
<1>2. SlotsExact
  <2>1. InState("running") \ will_substitute = {} /\ InState("running") \cap will_substitute = {}
    BY DEF Init, InState
  <2>2. 0 <= max_jobs /\ 0 <= max_substitutions
    BY SimGenAssumption DEF Init
  <2> QED  BY <2>1, <2>2, FS_EmptySet DEF Init, SlotsExact
<1>3. PendingExact /\ ReadyIffSatisfied
  <2>1. \A m \in Node : Unsatisfied(m) = inputs[m]
    BY SimGenAssumption DEF Init, Unsatisfied
  <2> QED  BY <2>1, SimGenAssumption DEF Init, PendingExact, ReadyIffSatisfied, Node
<1>4. InState("ready") = {} /\ InState("running") = {}
  BY DEF Init, InState
<1>5. QueueExact
  BY <1>4, EmptyRange DEF Init, QueueExact
<1>6. TimelineExact
  BY <1>4 DEF Init, TimelineExact
<1>7. ShownExact
  BY <1>4, EmptyRange DEF Init, ShownExact
<1>8. ControlExact
  BY SimGenAssumption DEF Init, ControlExact, Finishing
<1> QED  BY <1>1, <1>2, <1>3, <1>5, <1>6, <1>7, <1>8 DEF SimInv

(* Every action keeps every variable in its type. *)
LEMMA TypeStep == SimInv /\ [Next]_vars => TypeOK'
<1> SUFFICES ASSUME SimInv, [Next]_vars PROVE TypeOK'
  OBVIOUS
<1> USE SimGenAssumption
<1> USE DEF TypeOK, vars, config, work, emission, output, At, Event
<1>0. TypeOK
  BY DEF SimInv
<1>1. CASE Seed
  <2>1. idx \in Node
    BY <1>0, <1>1 DEF Seed, Node
  <2>2. Append(ready_queue, idx) \in Seq(Node) /\ idx + 1 \in 0 .. NumNodes
    BY <1>0, <2>1, AppendProperties DEF Node
  <2> QED  BY <1>0, <1>1, <2>1, <2>2 DEF Seed, MakeReady
<1>2. CASE SeedDone
  BY <1>0, <1>2 DEF SeedDone
<1>3. CASE StartWork
  <2> DEFINE n == Head(ready_queue)
  <2>1. n \in Node /\ Tail(ready_queue) \in Seq(Node) /\ Append(started, n) \in Seq(Node)
    BY <1>0, <1>3, HeadIsReady, AppendProperties DEF StartWork
  <2>2. durations[n] \in Nat
    BY <1>0, <2>1
  <2>3. timeline' \subseteq ScheduledEvent
    <3>1. FirstProgress(n) \subseteq ScheduledEvent
      <4>1. current_time + ProgressInterval \in Nat
        BY <1>0
      <4>2. [time |-> current_time + ProgressInterval, node |-> n, finish |-> FALSE]
              \in ScheduledEvent
        BY <1>0, <2>1, <4>1, PushedEntries
      <4> QED  BY <4>2 DEF FirstProgress
    <3>2. [time |-> current_time + durations[n], node |-> n, finish |-> TRUE]
            \in ScheduledEvent
      <4>1. current_time + durations[n] \in Nat
        BY <1>0, <2>2
      <4> QED  BY <2>1, <4>1 DEF ScheduledEvent
    <3>3. timeline' = timeline \cup FirstProgress(n) \cup
            {[time |-> current_time + durations[n], node |-> n, finish |-> TRUE]}
      BY <1>3 DEF StartWork
    <3> QED  BY <1>0, <3>1, <3>2, <3>3
  <2>4. /\ active_subs' \in Nat /\ active_builds' \in Nat
        /\ node_state' \in [Node -> {"waiting", "ready", "running", "done"}]
        /\ start_times' \in [Node -> Nat]
    <3>1. active_subs + 1 \in Nat /\ active_builds + 1 \in Nat
      BY <1>0
    <3> QED  BY <1>0, <1>3, <2>1, <3>1 DEF StartWork
  <2>5. /\ started' \in Seq(Node) /\ ready_queue' \in Seq(Node)
        /\ UNCHANGED <<config, pc, idx, pending_deps, current_time, wake, lines_left, output>>
    BY <1>3, <2>1 DEF StartWork
  <2> QED  BY <1>0, <2>3, <2>4, <2>5
<1>4. CASE StartWorkDone
  BY <1>0, <1>4 DEF StartWorkDone
<1>5. CASE YieldStarted
  <2>1. Head(started) \in Node /\ Tail(started) \in Seq(Node)
    BY <1>0, <1>5, HeadTailProperties DEF YieldStarted
  <2> QED  BY <1>0, <1>5, <2>1 DEF YieldStarted
<1>6. CASE YieldStartedDone
  BY <1>0, <1>6 DEF YieldStartedDone
<1>7. ASSUME NEW e \in timeline, PopProgress(e)  PROVE TypeOK'
  <2>1. e.node \in Node /\ e.time \in Nat /\ durations[e.node] \in Nat
        /\ start_times[e.node] \in Nat /\ e.time - start_times[e.node] \in Nat
    <3>1. e.node \in Node /\ e.time \in Nat
      BY <1>0, EntryFields
    <3>2. start_times[e.node] <= e.time
      BY <1>0, <3>1 DEF SimInv, TimelineExact
    <3>3. durations[e.node] \in Nat /\ start_times[e.node] \in Nat
      BY <1>0, <3>1
    <3> QED  BY <3>1, <3>2, <3>3
  <2>2. MinOf(e.time - start_times[e.node], durations[e.node]) \in Nat
    BY <2>1, <1>7 DEF MinOf, PopProgress
  <2>3. NextProgress(e) \subseteq ScheduledEvent
    <3>1. e.time + ProgressInterval \in Nat
      BY <2>1
    <3>2. [time |-> e.time + ProgressInterval, node |-> e.node, finish |-> FALSE]
            \in ScheduledEvent
      BY <1>0, <2>1, <3>1, PushedEntries
    <3> QED  BY <3>2 DEF NextProgress
  <2>4. timeline' \subseteq timeline \cup NextProgress(e)
    BY <1>7 DEF PopProgress
  <2>5. event' \in {NoEvent} \cup
       [kind : {"started", "progress", "log", "finished"}, node : Node, done : Nat]
    BY <1>0, <1>7, <2>1, <2>2 DEF PopProgress
  <2>6. current_time' \in Nat
    BY <2>1, <1>7 DEF PopProgress
  <2> QED  BY <1>0, <1>7, <2>3, <2>4, <2>5, <2>6 DEF PopProgress
<1>8. ASSUME NEW e \in timeline, PopFinish(e)  PROVE TypeOK'
  <2>1. e.finish
    BY <1>8 DEF PopFinish
  <2>3. e.time \in Nat
    BY <1>0, EntryFields
  <2>2. /\ e.node \in Node /\ e.node \in 0 .. NumNodes
        /\ e.node \in will_substitute => active_subs - 1 \in Nat
        /\ e.node \notin will_substitute => active_builds - 1 \in Nat
    BY <2>1, FinishHoldsSlot DEF Node
  <2> QED  BY <1>0, <1>8, <2>2, <2>3 DEF PopFinish, Outputs
<1>9. CASE Exhausted
  BY <1>0, <1>9 DEF Exhausted
<1>10. CASE YieldFullProgress
  <2>1. idx \in Node /\ durations[idx] \in Nat
    BY <1>0, <1>10 DEF YieldFullProgress, SimInv, ControlExact
  <2> QED  BY <1>0, <1>10, <2>1 DEF YieldFullProgress
<1>11. CASE YieldLog
  <2>1. idx \in Node
    BY <1>0, <1>11 DEF YieldLog, SimInv, ControlExact
  <2> QED  BY <1>0, <1>11, <2>1 DEF YieldLog
<1>12. CASE YieldFinished
  <2>1. idx \in Node
    BY <1>0, <1>12 DEF YieldFinished, SimInv, ControlExact
  <2> QED  BY <1>0, <1>12, <2>1 DEF YieldFinished
<1>13. ASSUME NEW m \in wake, Wake(m)  PROVE TypeOK'
  <2>1. m \in Node /\ pending_deps[m] - 1 \in Nat
    <3> HIDE DEF TypeOK
    <3>1. m \in Node /\ pending_deps[m] \in Nat \ {0}
      BY WakeCounts
    <3> QED  BY <3>1
  <2>2. Append(ready_queue, m) \in Seq(Node)
    BY <1>0, <2>1, AppendProperties
  <2> QED  BY <1>0, <1>13, <2>1, <2>2 DEF Wake, Wakes, MakeReady
<1>14. CASE WakeDone
  BY <1>0, <1>14 DEF WakeDone
<1>15. CASE Resume
  BY <1>0, <1>15 DEF Resume
<1>16. CASE UNCHANGED vars
  BY <1>0, <1>16
<1> QED
  BY <1>1, <1>2, <1>3, <1>4, <1>5, <1>6, <1>7, <1>8, <1>9, <1>10, <1>11, <1>12,
     <1>13, <1>14, <1>15, <1>16 DEF Next, Generate, Returned

(* The four ways a step can treat the states of the nodes. *)
StatesFixed == UNCHANGED <<node_state, active_builds, active_subs, ready_queue>>

BecomesReady(n) ==
  /\ node_state[n] = "waiting"
  /\ node_state' = [node_state EXCEPT ![n] = "ready"]
  /\ ready_queue' = Append(ready_queue, n)
  /\ UNCHANGED <<active_builds, active_subs, started, timeline, current_time,
                 start_times, shown, pc>>
  /\ \/ pc = "seed" /\ n = idx
     \/ pc = "wake" /\ n \in wake

LEMMA StateChange ==
  ASSUME SimInv, [Next]_vars
  PROVE  \/ StatesFixed
         \/ \E n \in Node : BecomesReady(n)
         \/ StartWork
         \/ \E e \in timeline : PopFinish(e)
<1> USE DEF vars, config, work, emission, output, At, StatesFixed
<1>1. CASE Seed
  <2>1. idx \in Node
    BY <1>1, SimGenAssumption DEF SimInv, TypeOK, Seed, Node
  <2>2. node_state[idx] = "waiting"
    BY <1>1, <2>1 DEF SimInv, TypeOK, ReadyIffSatisfied, Seed, Node
  <2>3. StatesFixed \/ BecomesReady(idx)
    BY <1>1, <2>2 DEF Seed, MakeReady, BecomesReady
  <2> QED  BY <2>1, <2>3
<1>2. CASE \E m \in wake : Wake(m)
  <2>1. PICK m \in wake : Wake(m)
    BY <1>2
  <2>2. StatesFixed \/ BecomesReady(m)
    BY <2>1 DEF Wake, Wakes, MakeReady, BecomesReady
  <2>3. m \in Node
    BY DEF SimInv, TypeOK
  <2> QED  BY <2>2, <2>3
<1>3. CASE \E e \in timeline : PopProgress(e)
  BY <1>3 DEF PopProgress
<1>4. CASE SeedDone \/ StartWorkDone \/ YieldStarted \/ YieldStartedDone \/ Exhausted
  BY <1>4 DEF SeedDone, StartWorkDone, YieldStarted, YieldStartedDone, Exhausted
<1>5. CASE \/ YieldFullProgress \/ YieldLog \/ YieldFinished \/ WakeDone
           \/ Resume \/ Returned \/ UNCHANGED vars
  BY <1>5 DEF YieldFullProgress, YieldLog, YieldFinished, WakeDone, Resume, Returned
<1> HIDE DEF StatesFixed
<1> QED  BY <1>1, <1>2, <1>3, <1>4, <1>5 DEF Next, Generate

LEMMA ConfigFixed == [Next]_vars => UNCHANGED config
BY DEF Next, Generate, Seed, SeedDone, StartWork, StartWorkDone, YieldStarted,
       YieldStartedDone, PopProgress, PopFinish, Exhausted, YieldFullProgress,
       YieldLog, YieldFinished, Wake, WakeDone, Resume, Returned, vars

LEMMA SlotsStep == SimInv /\ [Next]_vars => SlotsExact'
<1> SUFFICES ASSUME SimInv, [Next]_vars PROVE SlotsExact'
  OBVIOUS
<1> DEFINE S == InState("running") \cap will_substitute
           B == InState("running") \ will_substitute
<1>0. /\ S \in SUBSET Node /\ B \in SUBSET Node
      /\ node_state \in [Node -> {"waiting", "ready", "running", "done"}]
      /\ active_builds = Cardinality(B) /\ active_subs = Cardinality(S)
      /\ active_builds <= max_jobs /\ active_subs <= max_substitutions
      /\ active_builds \in Nat /\ active_subs \in Nat
      /\ max_jobs \in Nat /\ max_substitutions \in Nat
  BY SimGenAssumption DEF SimInv, SlotsExact, TypeOK, InState
<1>c. UNCHANGED <<will_substitute, max_jobs, max_substitutions>>
  BY ConfigFixed DEF config
<1>1. CASE StatesFixed
  BY <1>0, <1>1, <1>c DEF SlotsExact, InState, StatesFixed
<1>2. ASSUME NEW n \in Node, BecomesReady(n)  PROVE SlotsExact'
  <2>1. InState("running")' = InState("running")
    BY <1>0, <1>2 DEF InState, BecomesReady
  <2> QED  BY <1>0, <1>2, <1>c, <2>1 DEF SlotsExact, BecomesReady
<1>3. CASE StartWork
  <2> DEFINE n == Head(ready_queue)
  <2>1. n \in Node /\ node_state[n] = "ready"
    BY <1>3, HeadIsReady DEF StartWork
  <2>2. InState("running")' = InState("running") \cup {n} /\ n \notin InState("running")
    BY <1>0, <1>3, <2>1 DEF StartWork, InState
  <2>3. CASE n \in will_substitute
    <3>1. S' = S \cup {n} /\ n \in Node \ S /\ B' = B
      BY <2>1, <2>2, <2>3, <1>c
    <3>2. active_subs' = active_subs + 1 /\ active_subs < max_substitutions
          /\ UNCHANGED active_builds
      BY <1>3, <2>3 DEF StartWork, HasSlot
    <3>3. Cardinality(S') = Cardinality(S) + 1
      <4> HIDE DEF S
      <4> QED  BY <1>0, <3>1, CountNodes
    <3> QED  BY <1>0, <1>c, <3>1, <3>2, <3>3 DEF SlotsExact
  <2>4. CASE n \notin will_substitute
    <3>1. B' = B \cup {n} /\ n \in Node \ B /\ S' = S
      BY <2>1, <2>2, <2>4, <1>c
    <3>2. active_builds' = active_builds + 1 /\ active_builds < max_jobs
          /\ UNCHANGED active_subs
      BY <1>3, <2>4 DEF StartWork, HasSlot
    <3>3. Cardinality(B') = Cardinality(B) + 1
      <4> HIDE DEF B
      <4> QED  BY <1>0, <3>1, CountNodes
    <3> QED  BY <1>0, <1>c, <3>1, <3>2, <3>3 DEF SlotsExact
  <2> QED  BY <2>3, <2>4
<1>4. ASSUME NEW e \in timeline, PopFinish(e)  PROVE SlotsExact'
  <2> DEFINE n == e.node
  <2>1. n \in Node /\ node_state[n] = "running"
    BY <1>4, FinishHoldsSlot DEF PopFinish
  <2>2. InState("running")' = InState("running") \ {n} /\ n \in InState("running")
    BY <1>0, <1>4, <2>1 DEF PopFinish, InState
  <2>3. CASE n \in will_substitute
    <3>1. S' = S \ {n} /\ n \in S /\ B' = B
      BY <2>1, <2>2, <2>3, <1>c
    <3>2. active_subs' = active_subs - 1 /\ UNCHANGED active_builds
      BY <1>4, <2>3 DEF PopFinish
    <3>3. Cardinality(S') = Cardinality(S) - 1
      <4> HIDE DEF S
      <4> QED  BY <1>0, <3>1, CountNodes
    <3> QED  BY <1>0, <1>c, <3>1, <3>2, <3>3 DEF SlotsExact
  <2>4. CASE n \notin will_substitute
    <3>1. B' = B \ {n} /\ n \in B /\ S' = S
      BY <2>1, <2>2, <2>4, <1>c
    <3>2. active_builds' = active_builds - 1 /\ UNCHANGED active_subs
      BY <1>4, <2>4 DEF PopFinish
    <3>3. Cardinality(B') = Cardinality(B) - 1
      <4> HIDE DEF B
      <4> QED  BY <1>0, <3>1, CountNodes
    <3>4. active_builds' = Cardinality(B') /\ active_builds' <= max_jobs
      BY <1>0, <3>2, <3>3
    <3>5. active_subs' = Cardinality(S') /\ active_subs' <= max_substitutions
      BY <1>0, <3>1, <3>2
    <3> QED  BY <1>c, <3>4, <3>5 DEF SlotsExact
  <2> QED  BY <2>3, <2>4
<1> HIDE DEF S, B
<1> QED  BY <1>1, <1>2, <1>3, <1>4, StateChange

(* PendingExact and ReadyIffSatisfied for one node, so that a step can be
   argued node by node. *)
NodeExact(m) ==
  /\ pending_deps[m] = Cardinality(Unsatisfied(m))
  /\ IF pc = "seed" /\ m >= idx
     THEN node_state[m] = "waiting"
     ELSE (node_state[m] = "waiting") <=> (Unsatisfied(m) # {})

LEMMA CountZero ==
  ASSUME SimInv, NEW m \in Node
  PROVE  pending_deps[m] = 0 <=> Unsatisfied(m) = {}
<1>1. Unsatisfied(m) \in SUBSET Node
  BY SimGenAssumption DEF SimInv, TypeOK, Unsatisfied
<1>2. Cardinality(Unsatisfied(m)) = 0 <=> Unsatisfied(m) = {}
  BY <1>1, CountNodes
<1> QED  BY <1>2 DEF SimInv, PendingExact

LEMMA NodeStep == SimInv /\ [Next]_vars => \A m \in Node : NodeExact(m)'
<1> SUFFICES ASSUME SimInv, [Next]_vars, NEW m \in Node  PROVE NodeExact(m)'
  OBVIOUS
<1> USE DEF vars, config, work, emission, output, At
<1>0. /\ NodeExact(m)
      /\ node_state \in [Node -> {"waiting", "ready", "running", "done"}]
      /\ pending_deps \in [Node -> Nat]
      /\ inputs[m] \subseteq Node
      /\ idx \in Nat /\ NumNodes \in Nat /\ m \in Nat /\ m < NumNodes
  BY SimGenAssumption DEF SimInv, PendingExact, ReadyIffSatisfied, NodeExact, TypeOK, Node
<1>c. inputs' = inputs
  BY ConfigFixed
<1>1. ASSUME UNCHANGED <<node_state, idx, wake, pending_deps>>,
             (pc = "seed") <=> (pc' = "seed")
      PROVE  NodeExact(m)'
  <2>1. Unsatisfied(m)' = Unsatisfied(m)
    BY <1>1, <1>c DEF Unsatisfied
  <2> QED  BY <1>0, <1>1, <2>1 DEF NodeExact
<1>2. CASE Seed
  <2>1. wake = {} /\ wake' = {} /\ idx \in Node /\ pc = "seed" /\ pc' = "seed"
        /\ idx' = idx + 1 /\ pending_deps' = pending_deps
    BY <1>2, <1>0 DEF Seed, SimInv, ControlExact, Node
  <2>2. \A d \in Node : node_state'[d] = "done" <=> node_state[d] = "done"
    BY <1>0, <1>2, <2>1 DEF Seed, MakeReady, SimInv, ControlExact
  <2>3. Unsatisfied(m)' = Unsatisfied(m)
    BY <1>0, <1>c, <2>1, <2>2 DEF Unsatisfied
  <2>4. CASE m = idx
    <3>1. pending_deps[m] = 0 <=> Unsatisfied(m) = {}
      BY CountZero
    <3>2. node_state[m] = "waiting"
      BY <1>0, <2>1, <2>4 DEF NodeExact
    <3>3. node_state'[m] = IF pending_deps[m] = 0 THEN "ready" ELSE "waiting"
      BY <1>0, <1>2, <2>4, <3>2 DEF Seed, MakeReady
    <3> QED  BY <1>0, <2>1, <2>3, <2>4, <3>1, <3>3 DEF NodeExact
  <2>5. CASE m # idx
    <3>1. node_state'[m] = node_state[m]
      BY <1>0, <1>2, <2>5 DEF Seed, MakeReady
    <3>2. (m >= idx) <=> (m >= idx')
      BY <1>0, <2>1, <2>5
    <3> QED  BY <1>0, <2>1, <2>3, <3>1, <3>2 DEF NodeExact
  <2> QED  BY <2>4, <2>5
<1>3. CASE SeedDone
  <2>1. ~(m >= idx)
    BY <1>0, <1>3 DEF SeedDone
  <2>2. Unsatisfied(m)' = Unsatisfied(m)
    BY <1>3, <1>c DEF Unsatisfied, SeedDone
  <2> QED  BY <1>0, <1>3, <2>1, <2>2 DEF NodeExact, SeedDone
<1>4. CASE StartWork
  <2>1. Head(ready_queue) \in Node /\ node_state[Head(ready_queue)] = "ready"
    BY <1>4, HeadIsReady DEF StartWork
  <2>2. node_state' = [node_state EXCEPT ![Head(ready_queue)] = "running"]
        /\ UNCHANGED <<idx, wake, pending_deps, pc>> /\ pc = "start_work"
    BY <1>4 DEF StartWork
  <2>3. /\ \A d \in Node : node_state'[d] = "done" <=> node_state[d] = "done"
        /\ \A d \in Node : node_state'[d] = "waiting" <=> node_state[d] = "waiting"
    BY <1>0, <2>1, <2>2
  <2>4. Unsatisfied(m)' = Unsatisfied(m)
    BY <1>0, <1>c, <2>2, <2>3 DEF Unsatisfied
  <2> QED  BY <1>0, <2>2, <2>3, <2>4 DEF NodeExact
<1>5. ASSUME NEW e \in timeline, PopFinish(e)  PROVE NodeExact(m)'
  <2>1. e.node \in Node /\ node_state[e.node] = "running"
    BY <1>5, FinishHoldsSlot DEF PopFinish
  <2>2. /\ node_state' = [node_state EXCEPT ![e.node] = "done"]
        /\ pending_deps' = pending_deps /\ idx' = e.node
        /\ wake' = Outputs(e.node)
        /\ pc = "pop" /\ pc' # "seed"
    BY <1>5 DEF PopFinish
  <2>3. wake = {}
    BY <2>2 DEF SimInv, ControlExact
  <2>4. Unsatisfied(m)' = Unsatisfied(m)
    BY <1>0, <1>c, <2>1, <2>2, <2>3 DEF Unsatisfied, Outputs
  <2>5. node_state'[m] = "waiting" <=> node_state[m] = "waiting"
    BY <1>0, <2>1, <2>2
  <2> QED  BY <1>0, <2>2, <2>4, <2>5 DEF NodeExact
<1>6. ASSUME NEW k \in wake, Wake(k)  PROVE NodeExact(m)'
  <2>1. /\ k \in Node /\ idx \in Node /\ idx \in Unsatisfied(k)
        /\ pending_deps[k] \in Nat \ {0}
        /\ pending_deps[k] - 1 = Cardinality(Unsatisfied(k) \ {idx})
        /\ Cardinality(Unsatisfied(k) \ {idx}) = 0 <=> Unsatisfied(k) \subseteq {idx}
        /\ node_state[idx] = "done"
    BY WakeCounts DEF SimInv, ControlExact
  <2>2. /\ wake' = wake \ {k} /\ idx' = idx /\ pc = "wake" /\ pc' = "wake"
        /\ pending_deps' = [pending_deps EXCEPT ![k] = pending_deps[k] - 1]
        /\ node_state' = IF pending_deps[k] = 1 /\ node_state[k] = "waiting"
                         THEN [node_state EXCEPT ![k] = "ready"] ELSE node_state
    BY <1>6 DEF Wake, Wakes, MakeReady
  <2>3. \A d \in Node : node_state'[d] = "done" <=> node_state[d] = "done"
    BY <1>0, <2>1, <2>2
  <2>4. CASE m = k
    <3>1. Unsatisfied(m)' = Unsatisfied(m) \ {idx}
      BY <1>0, <1>c, <2>1, <2>2, <2>3, <2>4 DEF Unsatisfied
    <3>2. node_state[m] = "waiting"
      BY <1>0, <2>1, <2>2, <2>4 DEF NodeExact
    <3>3. pending_deps'[m] = Cardinality(Unsatisfied(m) \ {idx})
      BY <1>0, <2>1, <2>2, <2>4
    <3>4. node_state'[m] = "waiting" <=> Unsatisfied(m) \ {idx} # {}
      BY <1>0, <2>1, <2>2, <2>4, <3>2
    <3> QED  BY <2>2, <3>1, <3>3, <3>4 DEF NodeExact
  <2>5. CASE m # k
    <3>1. Unsatisfied(m)' = Unsatisfied(m)
      BY <1>0, <1>c, <2>2, <2>3, <2>5 DEF Unsatisfied
    <3>2. pending_deps'[m] = pending_deps[m] /\ node_state'[m] = node_state[m]
      BY <1>0, <2>1, <2>2, <2>5
    <3> QED  BY <1>0, <2>2, <3>1, <3>2 DEF NodeExact
  <2> QED  BY <2>4, <2>5
<1>7. CASE StartWorkDone \/ YieldStarted \/ YieldStartedDone \/ Exhausted \/ YieldFullProgress
  <2>1. UNCHANGED <<node_state, idx, wake, pending_deps>> /\ pc # "seed" /\ pc' # "seed"
    BY <1>7 DEF StartWorkDone, YieldStarted, YieldStartedDone, Exhausted, YieldFullProgress
  <2> QED  BY <1>1, <2>1
<1>8. CASE YieldLog \/ YieldFinished \/ WakeDone \/ Resume \/ Returned \/ UNCHANGED vars
  <2>1. UNCHANGED <<node_state, idx, wake, pending_deps>> /\ (pc = "seed" <=> pc' = "seed")
    BY <1>8 DEF YieldLog, YieldFinished, WakeDone, Resume, Returned
  <2> QED  BY <1>1, <2>1
<1>9. ASSUME NEW e \in timeline, PopProgress(e)  PROVE NodeExact(m)'
  <2>1. UNCHANGED <<node_state, idx, wake, pending_deps>> /\ (pc = "seed" <=> pc' = "seed")
    BY <1>9 DEF PopProgress
  <2> QED  BY <1>1, <2>1
<1> HIDE DEF NodeExact
<1> QED  BY <1>2, <1>3, <1>4, <1>5, <1>6, <1>7, <1>8, <1>9 DEF Next, Generate

LEMMA QueueStep == SimInv /\ [Next]_vars => QueueExact'
<1> SUFFICES ASSUME SimInv, [Next]_vars PROVE QueueExact'
  OBVIOUS
<1>0. /\ node_state \in [Node -> {"waiting", "ready", "running", "done"}]
      /\ ready_queue \in Seq(Node)
      /\ Range(ready_queue) = InState("ready") /\ IsInjective(ready_queue)
  BY DEF SimInv, TypeOK, QueueExact
<1>1. CASE StatesFixed
  BY <1>0, <1>1 DEF StatesFixed, QueueExact, InState
<1>2. ASSUME NEW n \in Node, BecomesReady(n)  PROVE QueueExact'
  <2>1. n \notin Range(ready_queue)
    BY <1>0, <1>2 DEF BecomesReady, InState
  <2>2. InState("ready")' = InState("ready") \cup {n}
    BY <1>0, <1>2 DEF BecomesReady, InState
  <2>3. Range(ready_queue') = Range(ready_queue) \cup {n} /\ IsInjective(ready_queue')
    BY <1>0, <1>2, <2>1, AppendNew DEF BecomesReady
  <2> QED  BY <1>0, <2>2, <2>3 DEF QueueExact
<1>3. CASE StartWork
  <2> DEFINE n == Head(ready_queue)
  <2>1. /\ ready_queue' = Tail(ready_queue)
        /\ node_state' = [node_state EXCEPT ![n] = "running"]
        /\ ready_queue # <<>>
    BY <1>3 DEF StartWork
  <2>2. /\ n \in Node /\ node_state[n] = "ready"
        /\ Range(ready_queue') = Range(ready_queue) \ {n} /\ IsInjective(ready_queue')
    BY <2>1, HeadIsReady
  <2>3. InState("ready")' = InState("ready") \ {n}
    BY <1>0, <2>1, <2>2 DEF InState
  <2> QED  BY <1>0, <2>2, <2>3 DEF QueueExact
<1>4. ASSUME NEW e \in timeline, PopFinish(e)  PROVE QueueExact'
  <2>1. e.node \in Node /\ node_state[e.node] = "running"
    BY <1>4, FinishHoldsSlot DEF PopFinish
  <2>2. node_state' = [node_state EXCEPT ![e.node] = "done"] /\ ready_queue' = ready_queue
    BY <1>4 DEF PopFinish
  <2>3. InState("ready")' = InState("ready")
    BY <1>0, <2>1, <2>2 DEF InState
  <2> QED  BY <1>0, <2>2, <2>3 DEF QueueExact
<1> QED  BY <1>1, <1>2, <1>3, <1>4, StateChange

(* Whatever is popped is not earlier than anything popped before it. *)
LEMMA TopIsEarliest ==
  ASSUME SimInv, NEW e \in timeline, Top(e)
  PROVE  /\ e.time \in Nat /\ e.node \in Node /\ e.time >= current_time
         /\ \A f \in timeline : f.time >= e.time
<1>1. \A f \in timeline : f.time \in Nat
  BY EntryFields DEF SimInv
<1>2. e.time \in Nat /\ e.node \in Node
  BY EntryFields DEF SimInv
<1> QED  BY <1>1, <1>2 DEF Top, Before, SimInv, TimelineExact

LEMMA TimelineStep == SimInv /\ [Next]_vars => TimelineExact'
<1> SUFFICES ASSUME SimInv, [Next]_vars PROVE TimelineExact'
  OBVIOUS
<1> USE DEF vars, config, work, emission, output, At
<1>0. /\ node_state \in [Node -> {"waiting", "ready", "running", "done"}]
      /\ TimelineExact
      /\ start_times \in [Node -> Nat] /\ current_time \in Nat
      /\ \A e \in timeline : e.time \in Nat /\ e.node \in Node
  BY EntryFields DEF SimInv, TypeOK
<1>1. ASSUME UNCHANGED <<node_state, timeline, start_times, current_time>>
      PROVE  TimelineExact'
  BY <1>0, <1>1 DEF TimelineExact, InState
<1>2. ASSUME NEW n \in Node, BecomesReady(n)  PROVE TimelineExact'
  <2>1. \A m \in Node : node_state'[m] = "running" <=> node_state[m] = "running"
    BY <1>0, <1>2 DEF BecomesReady
  <2>2. UNCHANGED <<timeline, start_times, current_time>>
    BY <1>2 DEF BecomesReady
  <2> QED  BY <1>0, <2>1, <2>2 DEF TimelineExact, InState
<1>3. CASE StartWork
  <2> DEFINE n == Head(ready_queue)
             last == [time |-> current_time + durations[n], node |-> n, finish |-> TRUE]
  <2>1. /\ n \in Node /\ node_state[n] = "ready" /\ durations[n] \in Nat
        /\ ProgressInterval \in Nat
    BY <1>3, HeadIsReady, SimGenAssumption DEF StartWork, SimInv, TypeOK
  <2>2. /\ node_state' = [node_state EXCEPT ![n] = "running"]
        /\ start_times' = [start_times EXCEPT ![n] = current_time]
        /\ timeline' = timeline \cup FirstProgress(n) \cup {last}
        /\ current_time' = current_time
    BY <1>3 DEF StartWork
  <2>3. \A f \in FirstProgress(n) : ~f.finish /\ f.node = n /\ f.time >= current_time
    BY <1>0, <2>1 DEF FirstProgress
  <2>4. last.time >= current_time /\ last.node = n /\ last.finish
    BY <1>0, <2>1
  <2>5. \A f \in timeline' : f \in timeline \/ f \in FirstProgress(n) \/ f = last
    BY <2>2
  <2>6. last \in timeline' /\ timeline \subseteq timeline'
    BY <2>2
  <2>7. \A f \in timeline : f.finish => f.node # n
    BY <1>0, <2>1 DEF TimelineExact
  <2> HIDE DEF n, last
  <2>8. \A m \in Node : start_times'[m] <= current_time'
    BY <1>0, <2>1, <2>2 DEF TimelineExact
  <2>9. \A f \in timeline' : f.time >= current_time'
    BY <1>0, <2>2, <2>3, <2>4, <2>5 DEF TimelineExact
  <2>10. \A f \in timeline' : f.finish => node_state'[f.node] = "running"
    BY <1>0, <2>1, <2>2, <2>3, <2>4, <2>5 DEF TimelineExact
  <2>11. \A m \in Node : node_state'[m] = "running" =>
                           \E f \in timeline' : f.finish /\ f.node = m
    BY <1>0, <2>1, <2>2, <2>4, <2>6 DEF TimelineExact, InState
  <2>12. \A f, g \in timeline' : f.finish /\ g.finish /\ f.node = g.node => f = g
    BY <1>0, <2>3, <2>4, <2>5, <2>7 DEF TimelineExact
  <2> QED  BY <2>8, <2>9, <2>10, <2>11, <2>12 DEF TimelineExact, InState
<1>4. ASSUME NEW e \in timeline, PopProgress(e)  PROVE TimelineExact'
  <2>1. /\ Top(e) /\ current_time' = e.time /\ ~e.finish
        /\ UNCHANGED <<node_state, start_times>>
        /\ timeline' \subseteq (timeline \ {e}) \cup NextProgress(e)
        /\ timeline \ {e} \subseteq timeline'
    BY <1>4 DEF PopProgress
  <2>2. /\ e.time \in Nat /\ e.time >= current_time /\ e.node \in Node
        /\ \A f \in timeline : f.time >= e.time
    BY <2>1, TopIsEarliest
  <2>3. \A f \in NextProgress(e) : ~f.finish /\ f.time >= e.time
    BY <2>2, SimGenAssumption DEF NextProgress
  <2>4. \A m \in Node : start_times[m] <= e.time
    BY <1>0, <2>2 DEF TimelineExact
  <2>5. \A f \in timeline' : f.time >= e.time
    BY <2>1, <2>2, <2>3
  <2>6. \A f \in timeline' : f.finish => f \in timeline
    BY <2>1, <2>3
  <2>7. \A f \in timeline : f.finish => f \in timeline'
    BY <2>1
  <2> QED  BY <1>0, <2>1, <2>4, <2>5, <2>6, <2>7 DEF TimelineExact, InState
<1>5. ASSUME NEW e \in timeline, PopFinish(e)  PROVE TimelineExact'
  <2>1. /\ Top(e) /\ current_time' = e.time /\ e.finish /\ start_times' = start_times
        /\ timeline' = timeline \ {e}
        /\ node_state' = [node_state EXCEPT ![e.node] = "done"]
    BY <1>5 DEF PopFinish
  <2>2. /\ e.time \in Nat /\ e.time >= current_time /\ e.node \in Node
        /\ \A f \in timeline : f.time >= e.time
    BY <2>1, TopIsEarliest
  <2>3. \A m \in Node : start_times[m] <= e.time
    BY <1>0, <2>2 DEF TimelineExact
  <2>4. \A f \in timeline' : f.finish => f.node # e.node
    BY <1>0, <2>1 DEF TimelineExact
  <2>5. \A f \in timeline' : f.finish => node_state'[f.node] = "running"
    BY <1>0, <2>1, <2>4 DEF TimelineExact
  <2>6. \A m \in Node : node_state'[m] = "running" =>
                          \E f \in timeline' : f.finish /\ f.node = m
    BY <1>0, <2>1, <2>2 DEF TimelineExact, InState
  <2> QED  BY <1>0, <2>1, <2>2, <2>3, <2>5, <2>6 DEF TimelineExact, InState
<1>6. CASE Seed
  BY <1>1, <1>2, <1>6, StateChange DEF Seed, StatesFixed, StartWork, PopFinish
<1>7. ASSUME NEW m \in wake, Wake(m)  PROVE TimelineExact'
  BY <1>1, <1>2, <1>7, StateChange DEF Wake, StatesFixed, StartWork, PopFinish
<1>8. CASE SeedDone \/ StartWorkDone \/ YieldStarted \/ YieldStartedDone \/ Exhausted
  BY <1>1, <1>8 DEF SeedDone, StartWorkDone, YieldStarted, YieldStartedDone, Exhausted
<1>9. CASE \/ YieldFullProgress \/ YieldLog \/ YieldFinished \/ WakeDone
           \/ Resume \/ Returned \/ UNCHANGED vars
  BY <1>1, <1>9 DEF YieldFullProgress, YieldLog, YieldFinished, WakeDone, Resume, Returned
<1> HIDE DEF vars, config, work, emission, output, At
<1> QED  BY <1>3, <1>4, <1>5, <1>6, <1>7, <1>8, <1>9 DEF Next, Generate

LEMMA ShownStep == SimInv /\ [Next]_vars => ShownExact'
<1> SUFFICES ASSUME SimInv, [Next]_vars PROVE ShownExact'
  OBVIOUS
<1> USE DEF vars, config, work, emission, output, At
<1>0. /\ node_state \in [Node -> {"waiting", "ready", "running", "done"}]
      /\ shown \in [Node -> {"unseen", "started", "finished"}]
      /\ started \in Seq(Node)
      /\ ShownExact
  BY DEF SimInv, TypeOK
<1>1. ASSUME UNCHANGED <<node_state, shown, started>>,
             Finishing' <=> Finishing, Finishing => idx' = idx
      PROVE  ShownExact'
  BY <1>0, <1>1 DEF ShownExact, InState
<1>2. ASSUME NEW n \in Node, BecomesReady(n)  PROVE ShownExact'
  <2>1. /\ UNCHANGED <<shown, started, pc>> /\ ~Finishing
        /\ node_state[n] = "waiting"
        /\ node_state' = [node_state EXCEPT ![n] = "ready"]
    BY <1>2 DEF BecomesReady, Finishing
  <2>2. ~Finishing'
    BY <2>1 DEF Finishing
  <2>3. InState("running")' = InState("running")
    BY <1>0, <2>1 DEF InState
  <2> QED  BY <1>0, <2>1, <2>2, <2>3 DEF ShownExact
<1>3. CASE StartWork
  <2> DEFINE n == Head(ready_queue)
  <2>1. n \in Node /\ node_state[n] = "ready" /\ shown[n] = "unseen"
    BY <1>3, HeadIsReady DEF StartWork
  <2>2. /\ node_state' = [node_state EXCEPT ![n] = "running"]
        /\ started' = Append(started, n) /\ shown' = shown
        /\ pc = "start_work" /\ pc' = pc
    BY <1>3 DEF StartWork
  <2> HIDE DEF n
  <2>3. n \notin Range(started)
    BY <1>0, <2>1 DEF ShownExact, InState
  <2>4. Range(started') = Range(started) \cup {n} /\ IsInjective(started')
    BY <1>0, <2>1, <2>2, <2>3, AppendNew DEF ShownExact
  <2>5. InState("running")' = InState("running") \cup {n}
    BY <1>0, <2>1, <2>2 DEF InState
  <2>6. ~Finishing /\ ~Finishing'
    BY <2>2 DEF Finishing
  <2>7. Range(started') = {m \in InState("running")' : shown'[m] = "unseen"}
    BY <1>0, <2>1, <2>2, <2>4, <2>5 DEF ShownExact
  <2> QED  BY <1>0, <2>1, <2>2, <2>4, <2>6, <2>7 DEF ShownExact
<1>4. CASE YieldStarted
  <2> DEFINE n == Head(started)
  <2>1. /\ started # <<>> /\ started' = Tail(started)
        /\ shown' = [shown EXCEPT ![n] = "started"]
        /\ node_state' = node_state
        /\ pc = "yield_started" /\ pc' = pc
    BY <1>4 DEF YieldStarted
  <2>2. /\ n \in Node /\ n \in Range(started)
        /\ Range(started') = Range(started) \ {n} /\ IsInjective(started')
    BY <1>0, <2>1, TailRemoves DEF ShownExact
  <2> HIDE DEF n
  <2>3. node_state[n] = "running"
    BY <1>0, <2>2 DEF ShownExact, InState
  <2>4. ~Finishing /\ ~Finishing'
    BY <2>1 DEF Finishing
  <2>5. InState("running")' = InState("running")
    BY <2>1 DEF InState
  <2>6. Range(started') = {m \in InState("running")' : shown'[m] = "unseen"}
    BY <1>0, <2>1, <2>2, <2>5 DEF ShownExact, InState
  <2> QED  BY <1>0, <2>1, <2>2, <2>3, <2>4, <2>6 DEF ShownExact
<1>5. ASSUME NEW e \in timeline, PopFinish(e)  PROVE ShownExact'
  <2> DEFINE n == e.node
  <2>1. n \in Node /\ node_state[n] = "running"
    BY <1>5, FinishHoldsSlot DEF PopFinish
  <2>2. /\ node_state' = [node_state EXCEPT ![n] = "done"]
        /\ UNCHANGED <<shown, started>> /\ idx' = n
        /\ pc = "pop" /\ pc' \in {"yield_full", "yield_log"}
    BY <1>5 DEF PopFinish
  <2> HIDE DEF n
  <2>3. started = <<>>
    BY <2>2 DEF SimInv, ControlExact
  <2>4. Range(started) = {}
    BY <2>3, EmptyRange
  <2>5. shown[n] = "started"
    BY <1>0, <2>1, <2>4 DEF ShownExact, InState
  <2>6. ~Finishing /\ Finishing'
    BY <2>2 DEF Finishing
  <2>7. InState("running")' = InState("running") \ {n}
    BY <1>0, <2>1, <2>2 DEF InState
  <2>8. Range(started') = {m \in InState("running")' : shown'[m] = "unseen"}
    BY <1>0, <2>2, <2>4, <2>7 DEF ShownExact
  <2> QED  BY <1>0, <2>1, <2>2, <2>5, <2>6, <2>8 DEF ShownExact
<1>6. CASE YieldFinished
  <2>1. /\ shown' = [shown EXCEPT ![idx] = "finished"]
        /\ UNCHANGED <<node_state, started, idx>>
        /\ pc = "yield_log" /\ pc' = "wake"
    BY <1>6 DEF YieldFinished
  <2>2. idx \in Node /\ node_state[idx] = "done" /\ Finishing /\ ~Finishing'
    BY <2>1 DEF SimInv, ControlExact, Finishing
  <2>3. InState("running")' = InState("running") /\ idx \notin InState("running")
    BY <2>1, <2>2 DEF InState
  <2>4. Range(started') = {m \in InState("running")' : shown'[m] = "unseen"}
    BY <1>0, <2>1, <2>2, <2>3 DEF ShownExact, InState
  <2> QED  BY <1>0, <2>1, <2>2, <2>4 DEF ShownExact
<1>7. CASE Seed
  <2>1. UNCHANGED <<shown, started, pc>> /\ pc = "seed"
    BY <1>7 DEF Seed
  <2>2. ~Finishing /\ ~Finishing'
    BY <2>1 DEF Finishing
  <2> QED  BY <1>1, <1>2, <1>7, <2>1, <2>2, StateChange DEF StatesFixed, StartWork, PopFinish
<1>8. ASSUME NEW m \in wake, Wake(m)  PROVE ShownExact'
  <2>1. UNCHANGED <<shown, started, pc>> /\ pc = "wake"
    BY <1>8 DEF Wake
  <2>2. ~Finishing /\ ~Finishing'
    BY <2>1 DEF Finishing
  <2> QED  BY <1>1, <1>2, <1>8, <2>1, <2>2, StateChange DEF StatesFixed, StartWork, PopFinish
<1>9. CASE SeedDone \/ StartWorkDone \/ YieldStartedDone \/ Exhausted \/ YieldFullProgress
  BY <1>1, <1>9 DEF SeedDone, StartWorkDone, YieldStartedDone, Exhausted,
                    YieldFullProgress, Finishing
<1>10. CASE YieldLog \/ WakeDone \/ Resume \/ Returned \/ UNCHANGED vars
  BY <1>1, <1>10 DEF YieldLog, WakeDone, Resume, Returned, Finishing
<1>11. ASSUME NEW e \in timeline, PopProgress(e)  PROVE ShownExact'
  BY <1>1, <1>11 DEF PopProgress, Finishing
<1> HIDE DEF vars, config, work, emission, output, At
<1> QED  BY <1>3, <1>4, <1>5, <1>6, <1>7, <1>8, <1>9, <1>10, <1>11 DEF Next, Generate

LEMMA ControlStep == SimInv /\ [Next]_vars => ControlExact'
<1> SUFFICES ASSUME SimInv, [Next]_vars PROVE ControlExact'
  OBVIOUS
<1> USE DEF vars, config, work, emission, output, At, ControlExact, Finishing
<1>0. /\ node_state \in [Node -> {"waiting", "ready", "running", "done"}]
      /\ ControlExact /\ idx \in 0 .. NumNodes
  BY DEF SimInv, TypeOK
<1>c. inputs' = inputs
  BY ConfigFixed
<1>1. CASE Seed
  <2>1. \A n \in Node : node_state'[n] \in {"waiting", "ready"}
    BY <1>0, <1>1 DEF Seed, MakeReady
  <2> QED  BY <1>0, <1>1, <2>1 DEF Seed
<1>2. CASE SeedDone \/ StartWorkDone \/ YieldStartedDone \/ Exhausted
  BY <1>0, <1>c, <1>2 DEF SeedDone, StartWorkDone, YieldStartedDone, Exhausted
<1>3. CASE StartWork
  BY <1>0, <1>c, <1>3 DEF StartWork
<1>4. CASE YieldStarted
  BY <1>0, <1>c, <1>4 DEF YieldStarted
<1>5. ASSUME NEW e \in timeline, PopProgress(e)  PROVE ControlExact'
  BY <1>0, <1>c, <1>5 DEF PopProgress
<1>6. ASSUME NEW e \in timeline, PopFinish(e)  PROVE ControlExact'
  <2>1. e.node \in Node
    BY <1>6, FinishHoldsSlot DEF PopFinish
  <2>2. started = <<>>
    BY <1>0, <1>6 DEF PopFinish
  <2> QED  BY <1>0, <1>c, <1>6, <2>1, <2>2 DEF PopFinish, Outputs
<1>7. CASE YieldFullProgress \/ YieldLog \/ YieldFinished
  BY <1>0, <1>c, <1>7 DEF YieldFullProgress, YieldLog, YieldFinished
<1>8. ASSUME NEW m \in wake, Wake(m)  PROVE ControlExact'
  <2>1. node_state'[idx] = "done"
    BY <1>0, <1>8 DEF Wake, Wakes, MakeReady
  <2> QED  BY <1>0, <1>c, <1>8, <2>1 DEF Wake
<1>9. CASE WakeDone \/ Resume \/ Returned \/ UNCHANGED vars
  BY <1>0, <1>c, <1>9 DEF WakeDone, Resume, Returned
<1> HIDE DEF vars, config, work, emission, output, At, ControlExact, Finishing
<1> QED  BY <1>1, <1>2, <1>3, <1>4, <1>5, <1>6, <1>7, <1>8, <1>9 DEF Next, Generate
-----------------------------------------------------------------------------
(* The generator keeps its books for every graph and every configuration: the
   counters, the queue, the timeline and the stream agree in every state. *)
THEOREM BooksAgree == Spec => []SimInv
<1>1. SimInv /\ [Next]_vars => SimInv'
  <2> SUFFICES ASSUME SimInv, [Next]_vars PROVE SimInv'
    OBVIOUS
  <2>1. PendingExact' /\ ReadyIffSatisfied'
    BY NodeStep DEF NodeExact, PendingExact, ReadyIffSatisfied
  <2> QED
    BY <2>1, TypeStep, SlotsStep, QueueStep, TimelineStep, ShownStep, ControlStep
       DEF SimInv
<1> QED  BY <1>1, InitOK, PTL DEF Spec

(* Type correctness of the generator. *)
THEOREM GeneratorTypes == Spec => []TypeOK
<1>1. SimInv => TypeOK
  BY DEF SimInv
<1> QED  BY <1>1, BooksAgree, PTL

(* No event is yielded with a timestamp below an earlier one. *)
THEOREM TimeNeverRunsBack == Spec => TimeForward
<1>1. SimInv /\ [Next]_vars => [current_time' >= current_time]_vars
  <2> SUFFICES ASSUME SimInv, [Next]_vars  PROVE current_time' >= current_time
    OBVIOUS
  <2> USE DEF vars, work
  <2>1. current_time \in Nat
    BY DEF SimInv, TypeOK
  <2>2. ASSUME NEW e \in timeline, PopProgress(e) \/ PopFinish(e)
        PROVE  current_time' >= current_time
    BY <2>2, TopIsEarliest DEF PopProgress, PopFinish
  <2>3. ASSUME current_time' = current_time  PROVE current_time' >= current_time
    BY <2>1, <2>3
  <2>4. CASE Seed \/ SeedDone \/ StartWork \/ StartWorkDone \/ YieldStarted \/ YieldStartedDone
    BY <2>3, <2>4 DEF Seed, SeedDone, StartWork, StartWorkDone, YieldStarted, YieldStartedDone
  <2>5. CASE Exhausted \/ YieldFullProgress \/ YieldLog \/ YieldFinished \/ WakeDone
    BY <2>3, <2>5 DEF Exhausted, YieldFullProgress, YieldLog, YieldFinished, WakeDone
  <2>6. ASSUME NEW m \in wake, Wake(m)  PROVE current_time' >= current_time
    BY <2>3, <2>6 DEF Wake
  <2>7. CASE Resume \/ Returned \/ UNCHANGED vars
    BY <2>3, <2>7 DEF Resume, Returned
  <2> HIDE DEF vars, work
  <2> QED  BY <2>2, <2>4, <2>5, <2>6, <2>7 DEF Next, Generate
<1> QED  BY <1>1, BooksAgree, PTL DEF Spec, TimeForward
-----------------------------------------------------------------------------
(* Nothing the stream shows as running has left its slot, except the node
   whose finish is being reported. *)
LEMMA ShownRuns ==
  ASSUME SimInv, ~Finishing, NEW n \in Node, shown[n] = "started"
  PROVE  node_state[n] = "running"
BY DEF SimInv, TypeOK, ShownExact

LEMMA SameCount == \A S : Plan!Cardinality(S) = Cardinality(S)
BY DEF Plan!Cardinality, Cardinality

(* A start is announced only when the abstract schedule allows it. *)
LEMMA StartAllowed == SimInv /\ YieldStarted => Plan!Start(Head(started))
<1> SUFFICES ASSUME SimInv, YieldStarted PROVE Plan!Start(Head(started))
  OBVIOUS
<1> DEFINE n == Head(started)
<1>0. /\ pc = "yield_started" /\ ~Finishing /\ started # <<>>
      /\ shown' = [shown EXCEPT ![n] = "started"]
      /\ UNCHANGED config
  BY DEF YieldStarted, At, Finishing
<1>1. n \in Node /\ n \in InState("running") /\ shown[n] = "unseen"
  BY <1>0, TailRemoves DEF SimInv, TypeOK, ShownExact
<1> HIDE DEF n
<1>2. ASSUME NEW d \in inputs[n]  PROVE shown[d] = "finished"
  <2>1. d \in Node
    BY <1>1, SimGenAssumption DEF SimInv, TypeOK
  <2>2. Unsatisfied(n) = {}
    BY <1>0, <1>1 DEF SimInv, ReadyIffSatisfied, InState
  <2>3. node_state[d] = "done"
    BY <2>2 DEF Unsatisfied
  <2> QED  BY <1>0, <2>1, <2>3 DEF SimInv, ShownExact
<1>3. Plan!SlotFor(n)
  <2> DEFINE S == InState("running") \cap will_substitute
             B == InState("running") \ will_substitute
  <2>1. /\ S \in SUBSET Node /\ B \in SUBSET Node
        /\ Cardinality(S) <= max_substitutions /\ Cardinality(B) <= max_jobs
        /\ max_jobs \in Nat /\ max_substitutions \in Nat
    BY SimGenAssumption DEF SimInv, SlotsExact, TypeOK, InState
  <2>2. /\ Plan!Running(Plan!Subs) \subseteq S \ {n}
        /\ Plan!Running(Plan!Builds) \subseteq B \ {n}
    BY <1>0, <1>1, ShownRuns DEF Plan!Running, Plan!Subs, Plan!Builds, InState
  <2>3. n \in will_substitute => n \in S
    BY <1>1
  <2>4. n \notin will_substitute => n \in B
    BY <1>1
  <2> HIDE DEF S, B
  <2>5. ASSUME NEW T \in SUBSET Node, n \in T, NEW R \in SUBSET (T \ {n}),
               NEW k \in Nat, Cardinality(T) <= k
        PROVE  Cardinality(R) < k
    <3>1. /\ Cardinality(T) \in Nat /\ Cardinality(T \ {n}) = Cardinality(T) - 1
          /\ T \ {n} \in SUBSET Node
      BY <2>5, CountNodes
    <3>2. Cardinality(R) <= Cardinality(T \ {n}) /\ Cardinality(R) \in Nat
      <4>1. R \in SUBSET Node
        OBVIOUS
      <4> QED  BY <3>1, <4>1, CountNodes
    <3> QED  BY <2>5, <3>1, <3>2
  <2>6. CASE n \in will_substitute
    <3> DEFINE R == Plan!Running(Plan!Subs)
    <3>1. n \in S /\ R \in SUBSET (S \ {n})
      BY <2>2, <2>3, <2>6
    <3> HIDE DEF R
    <3>2. Cardinality(R) < max_substitutions
      BY <2>1, <2>5, <3>1
    <3> QED  BY <2>6, <3>2, SameCount DEF R, Plan!SlotFor
  <2>7. CASE n \notin will_substitute
    <3> DEFINE R == Plan!Running(Plan!Builds)
    <3>1. n \in B /\ R \in SUBSET (B \ {n})
      BY <2>2, <2>4, <2>7
    <3> HIDE DEF R
    <3>2. Cardinality(R) < max_jobs
      BY <2>1, <2>5, <3>1
    <3> QED  BY <2>7, <3>2, SameCount DEF R, Plan!SlotFor
  <2> QED  BY <2>6, <2>7
<1>4. UNCHANGED Plan!plan
  BY <1>0 DEF config, Plan!plan
<1> QED  BY <1>0, <1>1, <1>2, <1>3, <1>4 DEF n, Plan!Start

(* The event stream of the generator implements BuildPlan: starts come after
   the finishes they depend on, within the slots. *)
THEOREM StreamImplementsPlan == Spec => Schedule
<1>1. Init => Plan!Init
  BY DEF Init, Plan!Init
<1>2. SimInv /\ [Next]_vars => [Plan!Next]_Plan!vars
  <2> SUFFICES ASSUME SimInv, [Next]_vars PROVE [Plan!Next]_Plan!vars
    OBVIOUS
  <2>c. UNCHANGED Plan!plan
    BY ConfigFixed DEF config, Plan!plan
  <2>1. CASE YieldStarted
    <3>1. Head(started) \in Node
      BY <2>1, TailRemoves DEF YieldStarted, SimInv, TypeOK, ShownExact
    <3> QED  BY <2>1, <3>1, StartAllowed DEF Plan!Next
  <2>2. CASE YieldFinished
    <3>1. /\ idx \in Node /\ node_state[idx] = "done" /\ Finishing
          /\ shown' = [shown EXCEPT ![idx] = "finished"]
      BY <2>2 DEF YieldFinished, At, SimInv, ControlExact, Finishing
    <3>2. shown[idx] = "started"
      BY <3>1 DEF SimInv, ShownExact
    <3>3. Plan!Finish(idx)
      BY <2>c, <3>1, <3>2 DEF Plan!Finish
    <3> QED  BY <3>1, <3>3 DEF Plan!Next
  <2>3. CASE shown' = shown
    BY <2>c, <2>3 DEF Plan!vars
  <2>4. ASSUME NEW e \in timeline, PopProgress(e) \/ PopFinish(e)  PROVE shown' = shown
    BY <2>4 DEF PopProgress, PopFinish, output
  <2>5. ASSUME NEW m \in wake, Wake(m)  PROVE shown' = shown
    BY <2>5 DEF Wake, output
  <2>6. CASE \/ Seed \/ SeedDone \/ StartWork \/ StartWorkDone \/ YieldStartedDone
             \/ Exhausted \/ YieldFullProgress \/ YieldLog \/ WakeDone
    BY <2>3, <2>6 DEF Seed, SeedDone, StartWork, StartWorkDone, YieldStartedDone,
          Exhausted, YieldFullProgress, YieldLog, WakeDone, output
  <2>7. CASE Resume \/ Returned \/ UNCHANGED vars
    BY <2>3, <2>7 DEF Resume, Returned, vars, output
  <2> QED  BY <2>1, <2>2, <2>3, <2>4, <2>5, <2>6, <2>7 DEF Next, Generate
<1> QED  BY <1>1, <1>2, BooksAgree, PTL DEF Spec, Schedule, Plan!Spec
-----------------------------------------------------------------------------
(* When the generator goes back to its timeline, the head of the ready queue
   is blocked by its own kind of slot: work is left waiting only behind a head
   that cannot run (a substitution may wait behind a build: the queue is FIFO
   over both kinds). *)
HeadBlocked ==
  pc \in {"yield_started", "pop", "done"} /\ ready_queue # <<>>
    => ~HasSlot(Head(ready_queue))

(* Between two pops the head of the queue is always one that cannot start. *)
LEMMA HeadIsBlocked == Spec => []HeadBlocked
<1>1. Init => HeadBlocked
  BY DEF Init, HeadBlocked
<1>2. HeadBlocked /\ [Next]_vars => HeadBlocked'
  <2> SUFFICES ASSUME HeadBlocked, [Next]_vars PROVE HeadBlocked'
    OBVIOUS
  <2> USE DEF vars, config, work, emission, output, At
  <2>1. CASE StartWorkDone
    BY <2>1 DEF StartWorkDone, HeadBlocked, HasSlot
  <2>2. ASSUME UNCHANGED <<config, ready_queue, active_builds, active_subs>>,
               pc \in {"yield_started", "pop", "done"} \/ pc' = pc
        PROVE  HeadBlocked'
    BY <2>2 DEF HeadBlocked, HasSlot
  <2>3. CASE YieldStarted \/ YieldStartedDone \/ Exhausted \/ Resume \/ Returned \/ UNCHANGED vars
    BY <2>2, <2>3 DEF YieldStarted, YieldStartedDone, Exhausted, Resume, Returned
  <2>4. ASSUME NEW e \in timeline, PopProgress(e)  PROVE HeadBlocked'
    BY <2>2, <2>4 DEF PopProgress
  <2>5. ASSUME NEW e \in timeline, PopFinish(e)  PROVE HeadBlocked'
    <3>1. pc' \in {"yield_full", "yield_log"}
      BY <2>5 DEF PopFinish
    <3> QED  BY <3>1 DEF HeadBlocked
  <2>6. ASSUME NEW m \in wake, Wake(m)  PROVE HeadBlocked'
    BY <2>6 DEF Wake, HeadBlocked
  <2>7. CASE \/ Seed \/ SeedDone \/ StartWork \/ YieldFullProgress \/ YieldLog
             \/ YieldFinished \/ WakeDone
    <3>1. pc' \notin {"yield_started", "pop", "done"}
      BY <2>7 DEF Seed, SeedDone, StartWork, YieldFullProgress, YieldLog,
                  YieldFinished, WakeDone
    <3> QED  BY <3>1 DEF HeadBlocked
  <2> HIDE DEF vars, config, work, emission, output, At
  <2> QED  BY <2>1, <2>3, <2>4, <2>5, <2>6, <2>7 DEF Next, Generate
<1> QED  BY <1>1, <1>2, PTL DEF Spec

(* With slots of both kinds and no dependency cycle, a generator that has
   returned has reported every node finished: no schedule, however unlucky
   with its ties and its blocked heads, strands work. *)
THEOREM NothingStranded == Spec => []GivesUpOnlyWithoutSlots
<1>1. SimInv /\ HeadBlocked => GivesUpOnlyWithoutSlots
  <2> SUFFICES ASSUME SimInv, HeadBlocked, pc = "done", Acyclic,
                      max_jobs > 0, max_substitutions > 0
               PROVE  \A n \in Node : shown[n] = "finished"
    BY DEF GivesUpOnlyWithoutSlots
  <2>1. InState("running") = {}
    BY DEF SimInv, ControlExact, TimelineExact
  <2>2. active_builds = 0 /\ active_subs = 0
    <3>1. /\ InState("running") \ will_substitute = {}
          /\ InState("running") \cap will_substitute = {}
      BY <2>1
    <3> QED  BY <3>1, FS_EmptySet DEF SimInv, SlotsExact
  <2>3. ready_queue = <<>>
    BY <2>2 DEF HeadBlocked, HasSlot
  <2>4. InState("ready") = {}
    BY <2>3, EmptyRange DEF SimInv, QueueExact
  <2>5. InState("waiting") = {}
    <3> SUFFICES ASSUME InState("waiting") # {} PROVE FALSE
      OBVIOUS
    <3>1. InState("waiting") \in SUBSET Node
      BY DEF InState
    <3>2. PICK n \in InState("waiting") : inputs[n] \cap InState("waiting") = {}
      BY <3>1 DEF Acyclic
    <3>3. n \in Node /\ inputs[n] \subseteq Node /\ node_state[n] = "waiting"
      BY SimGenAssumption DEF InState, SimInv, TypeOK
    <3>4. Unsatisfied(n) # {}
      BY <3>3 DEF SimInv, ReadyIffSatisfied
    <3>5. wake = {}
      BY DEF SimInv, ControlExact
    <3>6. PICK d \in inputs[n] : node_state[d] # "done"
      BY <3>4, <3>5 DEF Unsatisfied
    <3>7. d \in Node /\ node_state[d] \in {"waiting", "ready", "running"}
      BY <3>3, <3>6 DEF SimInv, TypeOK
    <3> QED  BY <2>1, <2>4, <3>2, <3>6, <3>7 DEF InState
  <2>6. \A n \in Node : node_state[n] = "done"
    BY <2>1, <2>4, <2>5 DEF InState, SimInv, TypeOK
  <2> QED  BY <2>6 DEF SimInv, ShownExact, Finishing
<1> QED  BY <1>1, BooksAgree, HeadIsBlocked, PTL
=============================================================================
