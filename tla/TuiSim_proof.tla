---------------------------- MODULE TuiSim_proof ----------------------------
(***************************************************************************)
(* Proofs about the simulation TUI, for every graph, every choice of       *)
(* durations and limits, and a shutdown at any moment.  They build on the  *)
(* invariant of the generator that the task drives.                        *)
(***************************************************************************)
EXTENDS TuiSim, SimGen_proof

Item == [id : Node, substitution : BOOLEAN, progress : Nat]

(* What the HUD has been told of a node: all that the stream has said, but *)
(* for the event that is still to be handled.                              *)
Told(n) ==
  IF event.kind = "started" /\ event.node = n THEN "unseen"
  ELSE IF event.kind = "finished" /\ event.node = n THEN "started"
  ELSE shown[n]

Showing == {n \in Node : Told(n) = "started"}
Reported == {n \in Node : Told(n) = "finished"}

(* What the event that is still to be handled says is so.                  *)
EventTrue ==
  /\ event.kind = "started" => shown[event.node] = "started"
  /\ event.kind = "finished" => shown[event.node] = "finished"

(* A list of activities s with one item for each node of N.                *)
ListOf(s, N) ==
  /\ s \in Seq(Item)
  /\ \A i \in 1 .. Len(s) : s[i].id \in N
  /\ \A i \in 1 .. Len(s) : s[i].substitution <=> s[i].id \in will_substitute
  /\ \A n \in N : \E i \in 1 .. Len(s) : s[i].id = n
  /\ \A i, j \in 1 .. Len(s) : s[i].id = s[j].id => i = j

ListExact == ListOf(active, Showing)

(* The counters, over nodes.                                               *)
CountsExact ==
  /\ hud_subs = Cardinality(Showing \cap will_substitute)
  /\ hud_builds = Cardinality(Showing \ will_substitute)
  /\ completed = Cardinality(Reported)

(* Where the task stands, and the event it cannot have shown yet.          *)
TaskExact ==
  /\ tui_pc \in {"next", "asleep", "handle", "closing", "ended"}
  /\ shutdown \in BOOLEAN /\ last_sim_time \in Nat
  /\ recent \in Seq(Node) /\ Len(recent) <= 3
  /\ late \in {0, 1}
  /\ ~shutdown => late = 0
  /\ tui_pc \in {"asleep", "handle"} => late = 0 /\ event # NoEvent
  /\ tui_pc = "closing" => pc = "done" /\ event = NoEvent

TuiInv == EventTrue /\ ListExact /\ CountsExact /\ TaskExact

(* A finish lies at the end of the node's duration.                        *)
FinishTimes == \A e \in timeline : e.finish => e.time = FinishAt(e.node)

(* The virtual times behind a progress bar.                                *)
TimesExact ==
  /\ emit_progress
  /\ FinishTimes
  /\ pc = "yield_full" => current_time = FinishAt(idx)
  /\ \A i \in 1 .. Len(active) :
       /\ active[i].progress <= durations[active[i].id]
       /\ start_times[active[i].id] + active[i].progress <= current_time

(* A progress event moves its bar forward within its bounds.               *)
ProgressForward ==
  event.kind = "progress" =>
    /\ event.done <= durations[event.node]
    /\ start_times[event.node] + event.done <= current_time
    /\ \A i \in FindActive(event.node) : active[i].progress <= event.done

(* Once the full progress of a finishing node has been handled, its bar is *)
(* full, until the finish is handled too.                                  *)
FullBeforeFinish ==
  /\ pc = "yield_log" =>
       \/ event.kind = "progress" /\ event.node = idx /\ event.done = durations[idx]
       \/ /\ event.kind # "progress"
          /\ \A i \in FindActive(idx) : active[i].progress = durations[idx]
  /\ event.kind = "finished" =>
       \A i \in FindActive(event.node) : active[i].progress = durations[event.node]

(* Where the generator waits while the consumer holds an event.            *)
EventPlace ==
  /\ event.kind = "started" => pc = "yield_started"
  /\ event.kind = "finished" => pc = "wake"

BarInv == TimesExact /\ ProgressForward /\ FullBeforeFinish /\ EventPlace
-----------------------------------------------------------------------------
(* Lists.                                                                  *)

LEMMA SeqItem ==
  ASSUME NEW s \in Seq(Item)
  PROVE  /\ Len(s) \in Nat
         /\ \A i \in 1 .. Len(s) : /\ s[i] \in Item /\ s[i].id \in Node
                                   /\ s[i].substitution \in BOOLEAN /\ s[i].progress \in Nat
<1>1. Len(s) \in Nat
  BY LenProperties
<1>2. ASSUME NEW i \in 1 .. Len(s) PROVE s[i] \in Item
  BY ElementOfSeq
<1>3. \A x \in Item : x.id \in Node /\ x.substitution \in BOOLEAN /\ x.progress \in Nat
  BY DEF Item
<1> QED
  BY <1>1, <1>2, <1>3

(* Taking the item at i out of a list.                                     *)
Out(s, i) == SubSeq(s, 1, i - 1) \o SubSeq(s, i + 1, Len(s))

LEMMA TakenOut ==
  ASSUME NEW s \in Seq(Item), NEW i \in 1 .. Len(s)
  PROVE  /\ Out(s, i) \in Seq(Item) /\ Len(Out(s, i)) = Len(s) - 1
         /\ \A j \in 1 .. Len(s) - 1 : Out(s, i)[j] = IF j < i THEN s[j] ELSE s[j + 1]
<1> DEFINE a == SubSeq(s, 1, i - 1)
           b == SubSeq(s, i + 1, Len(s))
           t == Out(s, i)
<1>1. Len(s) \in Nat /\ \A j \in 1 .. Len(s) : s[j] \in Item
  BY SeqItem
<1>2. /\ a \in Seq(Item) /\ Len(a) = i - 1
      /\ \A j \in 1 .. i - 1 : a[j] = s[j]
  <2>1. i - 1 \in Int /\ 1 \in Int /\ \A j \in 1 .. i - 1 : s[j] \in Item
    BY <1>1
  <2>2. /\ a \in Seq(Item)
        /\ Len(a) = IF 1 <= i - 1 THEN i - 1 - 1 + 1 ELSE 0
        /\ \A j \in 1 .. i - 1 - 1 + 1 : a[j] = s[1 + j - 1]
    BY <2>1, SubSeqProperties
  <2> HIDE DEF a
  <2>3. i - 1 - 1 + 1 = i - 1 /\ \A j \in 1 .. i - 1 : 1 + j - 1 = j
    BY <1>1
  <2>4. Len(a) = i - 1
    BY <1>1, <2>2
  <2> QED
    BY <2>2, <2>3, <2>4
<1>3. /\ b \in Seq(Item) /\ Len(b) = Len(s) - i
      /\ \A j \in 1 .. Len(s) - i : b[j] = s[i + j]
  <2>1. i + 1 \in Int /\ Len(s) \in Int /\ \A j \in i + 1 .. Len(s) : s[j] \in Item
    BY <1>1
  <2>2. /\ b \in Seq(Item)
        /\ Len(b) = IF i + 1 <= Len(s) THEN Len(s) - (i + 1) + 1 ELSE 0
        /\ \A j \in 1 .. Len(s) - (i + 1) + 1 : b[j] = s[(i + 1) + j - 1]
    BY <2>1, SubSeqProperties
  <2> HIDE DEF b
  <2>3. Len(s) - (i + 1) + 1 = Len(s) - i /\ \A j \in 1 .. Len(s) - i : (i + 1) + j - 1 = i + j
    BY <1>1
  <2>4. Len(b) = Len(s) - i
    BY <1>1, <2>2
  <2> QED
    BY <2>2, <2>3, <2>4
<1>4. t = a \o b
  BY DEF Out
<1> HIDE DEF a, b, t
<1>5. /\ a \o b \in Seq(Item) /\ Len(a \o b) = Len(a) + Len(b)
      /\ \A j \in 1 .. Len(a) + Len(b) : (a \o b)[j] = IF j <= Len(a) THEN a[j] ELSE b[j - Len(a)]
  BY <1>2, <1>3, ConcatProperties
<1>6. Len(t) = Len(s) - 1
  <2>1. Len(t) = Len(a) + Len(b) /\ Len(a) = i - 1 /\ Len(b) = Len(s) - i
    BY <1>2, <1>3, <1>4, <1>5
  <2>2. i \in Nat /\ Len(s) \in Nat
    BY <1>1
  <2> QED
    BY <2>1, <2>2
<1>7. ASSUME NEW j \in 1 .. Len(s) - 1 PROVE t[j] = IF j < i THEN s[j] ELSE s[j + 1]
  <2>1. t[j] = IF j <= i - 1 THEN a[j] ELSE b[j - (i - 1)]
    BY <1>1, <1>2, <1>3, <1>4, <1>5, <1>6
  <2>2. CASE j < i
    <3>1. j \in 1 .. i - 1
      BY <1>1, <1>6, <2>2
    <3> QED
      BY <1>2, <2>1, <2>2, <3>1
  <2>3. CASE ~(j < i)
    <3>1. j - (i - 1) \in 1 .. Len(s) - i /\ i + (j - (i - 1)) = j + 1 /\ ~(j <= i - 1)
      <4>1. j \in Nat /\ i \in Nat /\ Len(s) \in Nat /\ j >= i /\ j <= Len(s) - 1
        BY <1>1, <1>6, <2>3
      <4> QED
        BY <4>1
    <3> QED
      BY <1>3, <2>1, <2>3, <3>1
  <2> QED
    BY <2>2, <2>3
<1> QED
  BY <1>4, <1>5, <1>6, <1>7 DEF t

LEMMA ListAppend ==
  ASSUME NEW s, NEW N \in SUBSET Node, ListOf(s, N), NEW n \in Node, n \notin N,
         NEW x \in Item, x.id = n, x.substitution <=> n \in will_substitute
  PROVE  ListOf(Append(s, x), N \cup {n})
<1> DEFINE t == Append(s, x)
<1>1. /\ s \in Seq(Item) /\ Len(s) \in Nat
      /\ \A i \in 1 .. Len(s) : s[i].id \in N
      /\ \A i \in 1 .. Len(s) : s[i].substitution <=> s[i].id \in will_substitute
      /\ \A k \in N : \E i \in 1 .. Len(s) : s[i].id = k
      /\ \A i, j \in 1 .. Len(s) : s[i].id = s[j].id => i = j
  BY SeqItem DEF ListOf
<1>2. /\ t \in Seq(Item) /\ Len(t) = Len(s) + 1
      /\ \A i \in 1 .. Len(s) : t[i] = s[i]
      /\ t[Len(s) + 1] = x
  BY <1>1, AppendProperties
<1> HIDE DEF t
<1>3. \A i \in 1 .. Len(t) : i \in 1 .. Len(s) \/ i = Len(s) + 1
  BY <1>1, <1>2
<1>4. 1 .. Len(s) \subseteq 1 .. Len(t) /\ Len(s) + 1 \in 1 .. Len(t)
  BY <1>1, <1>2
<1>5. \A i \in 1 .. Len(t) : t[i].id \in N \cup {n}
  BY <1>1, <1>2, <1>3
<1>6. \A i \in 1 .. Len(t) : t[i].substitution <=> t[i].id \in will_substitute
  BY <1>1, <1>2, <1>3
<1>7. \A k \in N \cup {n} : \E i \in 1 .. Len(t) : t[i].id = k
  BY <1>1, <1>2, <1>4
<1>8. \A i, j \in 1 .. Len(t) : t[i].id = t[j].id => i = j
  BY <1>1, <1>2, <1>3
<1> QED
  BY <1>2, <1>5, <1>6, <1>7, <1>8 DEF ListOf, t

LEMMA ListOut ==
  ASSUME NEW s, NEW N \in SUBSET Node, ListOf(s, N), NEW i \in 1 .. Len(s)
  PROVE  ListOf(Out(s, i), N \ {s[i].id})
<1> DEFINE t == Out(s, i)
           n == Len(s)
<1>1. /\ s \in Seq(Item) /\ n \in Nat
      /\ \A k \in 1 .. n : s[k].id \in N
      /\ \A k \in 1 .. n : s[k].substitution <=> s[k].id \in will_substitute
      /\ \A k \in N : \E j \in 1 .. n : s[j].id = k
      /\ \A k, j \in 1 .. n : s[k].id = s[j].id => k = j
  BY SeqItem DEF ListOf
<1>2. /\ t \in Seq(Item) /\ Len(t) = n - 1 /\ i \in 1 .. n
      /\ \A j \in 1 .. n - 1 : t[j] = IF j < i THEN s[j] ELSE s[j + 1]
  BY <1>1, TakenOut
<1> HIDE DEF t, n
<1> DEFINE old(j) == IF j < i THEN j ELSE j + 1
<1>3. \A j \in 1 .. n - 1 : old(j) \in 1 .. n /\ old(j) # i /\ t[j] = s[old(j)]
  BY <1>1, <1>2
<1>4. \A j, k \in 1 .. n - 1 : old(j) = old(k) => j = k
  BY <1>1, <1>2
<1>5. \A k \in 1 .. n : k # i => \E j \in 1 .. n - 1 : old(j) = k
  <2> SUFFICES ASSUME NEW k \in 1 .. n, k # i PROVE \E j \in 1 .. n - 1 : old(j) = k
    OBVIOUS
  <2>1. CASE k < i
    <3>1. k \in 1 .. n - 1 /\ old(k) = k
      BY <1>1, <1>2, <2>1
    <3> QED
      BY <3>1
  <2>2. CASE k > i
    <3>1. k - 1 \in 1 .. n - 1 /\ old(k - 1) = k
      BY <1>1, <1>2, <2>2
    <3> QED
      BY <3>1
  <2> QED
    BY <1>1, <1>2, <2>1, <2>2
<1> HIDE DEF old
<1>6. \A j \in 1 .. n - 1 : t[j].id \in N \ {s[i].id}
  BY <1>1, <1>2, <1>3
<1>7. \A j \in 1 .. n - 1 : t[j].substitution <=> t[j].id \in will_substitute
  BY <1>1, <1>3
<1>8. \A k \in N \ {s[i].id} : \E j \in 1 .. n - 1 : t[j].id = k
  <2> SUFFICES ASSUME NEW k \in N, k # s[i].id PROVE \E j \in 1 .. n - 1 : t[j].id = k
    OBVIOUS
  <2>1. PICK l \in 1 .. n : s[l].id = k
    BY <1>1
  <2>2. PICK j \in 1 .. n - 1 : old(j) = l
    BY <1>5, <2>1
  <2> QED
    BY <1>3, <2>1, <2>2
<1>9. \A j, k \in 1 .. n - 1 : t[j].id = t[k].id => j = k
  BY <1>1, <1>3, <1>4
<1> QED
  BY <1>2, <1>6, <1>7, <1>8, <1>9 DEF ListOf, t

(* A list is as long as its set of nodes is large, and likewise its part   *)
(* of substitutions.                                                       *)
LEMMA ListCounts ==
  ASSUME NEW s, NEW N \in SUBSET Node, ListOf(s, N)
  PROVE  /\ {s[i].id : i \in 1 .. Len(s)} = N
         /\ Len(s) = Cardinality(N)
         /\ Cardinality({i \in 1 .. Len(s) : s[i].substitution})
              = Cardinality(N \cap will_substitute)
<1> DEFINE n == Len(s)
<1>1. /\ s \in Seq(Item) /\ n \in Nat
      /\ \A k \in 1 .. n : s[k].id \in N
      /\ \A k \in 1 .. n : s[k].substitution <=> s[k].id \in will_substitute
      /\ \A k \in N : \E j \in 1 .. n : s[j].id = k
      /\ \A k, j \in 1 .. n : s[k].id = s[j].id => k = j
  BY SeqItem DEF ListOf
<1> HIDE DEF n
<1>2. {s[i].id : i \in 1 .. n} = N
  BY <1>1
<1>3. ASSUME NEW I \in SUBSET (1 .. n), NEW M,
             \A k \in I : s[k].id \in M, \A k \in M : \E j \in I : s[j].id = k
      PROVE  Cardinality(I) = Cardinality(M)
  <2> DEFINE f == [k \in I |-> s[k].id]
  <2>1. f \in [I -> M] /\ \A k \in I : f[k] = s[k].id
    BY <1>3
  <2> HIDE DEF f
  <2>2. \A k, j \in I : f[k] = f[j] => k = j
    BY <1>1, <2>1
  <2>3. \A k \in M : \E j \in I : f[j] = k
    BY <1>3, <2>1
  <2>4. f \in Bijection(I, M)
    <3>1. f \in Injection(I, M)
      BY <2>1, <2>2 DEF Injection, IsInjective
    <3>2. f \in Surjection(I, M)
      BY <2>1, <2>3 DEF Surjection
    <3> QED
      BY <3>1, <3>2 DEF Bijection
  <2>5. IsFiniteSet(I)
    <3>1. IsFiniteSet(1 .. n)
      BY <1>1, FS_Interval
    <3> QED
      BY <1>3, <3>1, FS_Subset
  <2>6. ExistsBijection(I, M)
    BY <2>4 DEF ExistsBijection
  <2> QED
    BY <2>5, <2>6, FS_Bijection
<1>4. Cardinality(1 .. n) = Cardinality(N)
  BY <1>1, <1>3
<1>5. Cardinality(1 .. n) = n
  BY <1>1, FS_Interval
<1>6. Cardinality({i \in 1 .. n : s[i].substitution}) = Cardinality(N \cap will_substitute)
  <2> DEFINE I == {i \in 1 .. n : s[i].substitution}
             M == N \cap will_substitute
  <2>1. I \in SUBSET (1 .. n)
    OBVIOUS
  <2>2. (\A k \in I : s[k].id \in M) /\ (\A k \in M : \E j \in I : s[j].id = k)
    BY <1>1
  <2> HIDE DEF I, M
  <2>3. Cardinality(I) = Cardinality(M)
    BY <1>3, <2>1, <2>2
  <2> QED
    BY <2>3 DEF I, M
<1> QED
  BY <1>2, <1>4, <1>5, <1>6 DEF n
-----------------------------------------------------------------------------
(* The task drives the generator, so what holds of it holds here.          *)

LEMMA DrivesGenerator ==
  ASSUME EventTrue, TaskExact, [TuiNext]_tuivars
  PROVE  [Next]_vars
<1>1. CASE Produce
  BY <1>1 DEF Produce, Next
<1>2. CASE Handle
  <2>1. tui_pc = "handle" /\ event' = NoEvent /\ UNCHANGED gen
    BY <1>2 DEF Handle
  <2>2. event # NoEvent
    BY <2>1 DEF TaskExact
  <2>3. UNCHANGED <<config, pc, idx, work, emission, shown>>
    BY <2>1 DEF gen
  <2> QED
    BY <2>1, <2>2, <2>3 DEF Resume, Next
<1>3. ASSUME ~Produce, ~Handle PROVE UNCHANGED vars
  BY <1>3 DEF TuiNext, TuiStep, tuivars, Abandon, Accept, WakeUp, Complete, Close,
              RequestShutdown, Ended
<1> QED
  BY <1>1, <1>2, <1>3

LEMMA GeneratorKept ==
  ASSUME SimInv, [Next]_vars
  PROVE  SimInv'
<1>1. PendingExact' /\ ReadyIffSatisfied'
  BY NodeStep DEF NodeExact, PendingExact, ReadyIffSatisfied
<1> QED
  BY <1>1, TypeStep, SlotsStep, QueueStep, TimelineStep, ShownStep, ControlStep
     DEF SimInv

(* The generator tells the HUD nothing behind its back: what it yields is  *)
(* the one difference between what it has shown and what the HUD knows.    *)
LEMMA GenerateTells ==
  ASSUME SimInv, Generate
  PROVE  EventTrue' /\ \A n \in Node : Told(n)' = Told(n)
<1>1. event = NoEvent
  BY DEF Generate, At, Seed, SeedDone, StartWork, StartWorkDone, YieldStarted,
         YieldStartedDone, PopProgress, PopFinish, Exhausted, YieldFullProgress,
         YieldLog, YieldFinished, Wake, WakeDone
<1>2. event.kind = "none"
  BY <1>1 DEF NoEvent
<1>3. \A n \in Node : Told(n) = shown[n]
  BY <1>2 DEF Told
<1>4. ASSUME shown' = shown, event'.kind \notin {"started", "finished"}
      PROVE  EventTrue' /\ \A n \in Node : Told(n)' = Told(n)
  BY <1>3, <1>4 DEF EventTrue, Told
<1>5. shown \in [Node -> {"unseen", "started", "finished"}] /\ started \in Seq(Node)
  BY DEF SimInv, TypeOK
<1>6. CASE YieldStarted
  <2>1. /\ started # <<>> /\ event' = Event("started", Head(started), 0)
        /\ shown' = [shown EXCEPT ![Head(started)] = "started"]
    BY <1>6 DEF YieldStarted
  <2>2. Head(started) \in Node /\ Head(started) \in Range(started)
    BY <1>5, <2>1, TailRemoves DEF SimInv, ShownExact
  <2>3. shown[Head(started)] = "unseen"
    BY <2>2 DEF SimInv, ShownExact
  <2>4. event'.kind = "started" /\ event'.node = Head(started)
    BY <2>1 DEF Event
  <2>5. \A n \in Node : shown'[n] = IF n = Head(started) THEN "started" ELSE shown[n]
    BY <1>5, <2>1
  <2> QED
    BY <1>3, <2>2, <2>3, <2>4, <2>5 DEF EventTrue, Told
<1>7. CASE YieldFinished
  <2>1. /\ At("yield_log") /\ event' = Event("finished", idx, 0)
        /\ shown' = [shown EXCEPT ![idx] = "finished"]
    BY <1>7 DEF YieldFinished
  <2>2. idx \in Node /\ shown[idx] = "started"
    BY <2>1 DEF SimInv, ShownExact, ControlExact, At, Finishing
  <2>3. event'.kind = "finished" /\ event'.node = idx
    BY <2>1 DEF Event
  <2>4. \A n \in Node : shown'[n] = IF n = idx THEN "finished" ELSE shown[n]
    BY <1>5, <2>1
  <2> QED
    BY <1>3, <2>2, <2>3, <2>4 DEF EventTrue, Told
<1>8. ASSUME ~YieldStarted, ~YieldFinished
      PROVE  shown' = shown /\ event'.kind \notin {"started", "finished"}
  <2>1. ASSUME NEW e \in timeline, PopProgress(e)
        PROVE  shown' = shown /\ event'.kind \notin {"started", "finished"}
    BY <1>2, <2>1 DEF PopProgress, Event
  <2>2. CASE YieldFullProgress \/ YieldLog
    BY <2>2 DEF YieldFullProgress, YieldLog, Event
  <2>3. ASSUME UNCHANGED output
        PROVE  shown' = shown /\ event'.kind \notin {"started", "finished"}
    BY <1>2, <2>3 DEF output
  <2>4. CASE Seed \/ SeedDone \/ StartWork \/ StartWorkDone \/ YieldStartedDone
    BY <2>3, <2>4 DEF Seed, SeedDone, StartWork, StartWorkDone, YieldStartedDone, output
  <2>5. CASE Exhausted \/ WakeDone
    BY <2>3, <2>5 DEF Exhausted, WakeDone
  <2>6. ASSUME NEW e \in timeline, PopFinish(e) PROVE UNCHANGED output
    BY <2>6 DEF PopFinish, output
  <2>7. ASSUME NEW m \in wake, Wake(m) PROVE UNCHANGED output
    BY <2>7 DEF Wake, output
  <2> QED
    BY <1>8, <2>1, <2>2, <2>3, <2>4, <2>5, <2>6, <2>7 DEF Generate
<1> QED
  BY <1>4, <1>6, <1>7, <1>8

(* Handling an event catches up with it.                                   *)
LEMMA HandleTells ==
  ASSUME SimInv, EventTrue, TaskExact, Handle
  PROVE  /\ EventTrue' /\ event.node \in Node /\ event.done \in Nat
         /\ event.kind \in {"started", "progress", "log", "finished"}
         /\ event.kind = "started" =>
              /\ Showing' = Showing \cup {event.node} /\ event.node \notin Showing
              /\ Reported' = Reported
         /\ event.kind = "finished" =>
              /\ Showing' = Showing \ {event.node} /\ event.node \in Showing
              /\ Reported' = Reported \cup {event.node} /\ event.node \notin Reported
         /\ event.kind \in {"progress", "log"} => Showing' = Showing /\ Reported' = Reported
<1>1. event # NoEvent /\ event' = NoEvent /\ shown' = shown
  BY DEF Handle, TaskExact, gen
<1>2. /\ event \in [kind : {"started", "progress", "log", "finished"}, node : Node, done : Nat]
  BY <1>1 DEF SimInv, TypeOK
<1>3. /\ event.node \in Node /\ event.done \in Nat
      /\ event.kind \in {"started", "progress", "log", "finished"}
  BY <1>2
<1>4. event'.kind = "none"
  BY <1>1 DEF NoEvent
<1>5. \A n \in Node : Told(n)' = shown[n]
  BY <1>1, <1>4 DEF Told
<1>6. EventTrue'
  BY <1>4 DEF EventTrue
<1>7. Showing' = {n \in Node : shown[n] = "started"} /\ Reported' = {n \in Node : shown[n] = "finished"}
  BY <1>5 DEF Showing, Reported
<1>8. CASE event.kind = "started"
  BY <1>3, <1>6, <1>7, <1>8 DEF Showing, Reported, Told, EventTrue
<1>9. CASE event.kind = "finished"
  BY <1>3, <1>6, <1>7, <1>9 DEF Showing, Reported, Told, EventTrue
<1>10. CASE event.kind \in {"progress", "log"}
  BY <1>3, <1>6, <1>7, <1>10 DEF Showing, Reported, Told, EventTrue
<1> QED
  BY <1>3, <1>8, <1>9, <1>10

(* A progress event keeps the list, but for the progress it shows.         *)
LEMMA ListProgress ==
  ASSUME NEW N, ListOf(active, N), NEW n, OnProgress(n), event.done \in Nat
  PROVE  /\ ListOf(active', N) /\ Len(active') = Len(active)
         /\ \A i \in 1 .. Len(active) :
              /\ active'[i].id = active[i].id
              /\ active'[i].progress =
                   IF active[i].id = n THEN event.done ELSE active[i].progress
<1> DEFINE l == Len(active)
           t == [i \in 1 .. l |->
                  IF i \in FindActive(n) THEN [active[i] EXCEPT !.progress = event.done]
                                         ELSE active[i]]
<1>1. active' = t
  BY DEF OnProgress
<1>2. /\ active \in Seq(Item) /\ l \in Nat
      /\ \A i \in 1 .. l : active[i] \in Item
  BY SeqItem DEF ListOf
<1>3. \A i \in 1 .. l : (i \in FindActive(n)) <=> active[i].id = n
  BY DEF FindActive
<1> HIDE DEF l
<1>4. ASSUME NEW i \in 1 .. l
      PROVE  /\ t[i] \in Item /\ t[i].id = active[i].id
             /\ t[i].substitution = active[i].substitution
             /\ t[i].progress = IF active[i].id = n THEN event.done ELSE active[i].progress
  BY <1>2, <1>3 DEF Item
<1>5. t \in Seq(Item) /\ Len(t) = l
  <2>1. DOMAIN t = 1 .. l /\ t \in [1 .. l -> Item]
    BY <1>4
  <2> QED
    BY <1>2, <2>1, IsASeq, LenProperties
<1> HIDE DEF t
<1>6. ListOf(t, N)
  BY <1>4, <1>5 DEF ListOf, l
<1> QED
  BY <1>1, <1>4, <1>5, <1>6 DEF l

(* Builds and substitutions make up the whole.                             *)
LEMMA KindsAddUp ==
  ASSUME NEW N \in SUBSET Node, NEW W
  PROVE  Cardinality(N \ W) + Cardinality(N \cap W) = Cardinality(N)
<1> DEFINE S == N \cap W
           B == N \ W
<1>1. /\ IsFiniteSet(N) /\ IsFiniteSet(S) /\ IsFiniteSet(B)
      /\ S \cup B = N /\ S \cap B = {}
  <2>1. S \in SUBSET Node /\ B \in SUBSET Node /\ S \cup B = N /\ S \cap B = {}
    OBVIOUS
  <2> HIDE DEF S, B
  <2> QED
    BY <2>1, CountNodes
<1> HIDE DEF S, B
<1>2. Cardinality(N) = Cardinality(S) + Cardinality(B) - Cardinality({})
  BY <1>1, FS_Union
<1>3. Cardinality(S) \in Nat /\ Cardinality(B) \in Nat /\ Cardinality({}) = 0
  BY <1>1, FS_CardinalityType, FS_EmptySet
<1>4. Cardinality(B) + Cardinality(S) = Cardinality(N)
  BY <1>2, <1>3
<1> QED
  BY <1>4 DEF S, B

(* Counting a set of nodes that gains or loses one, by kind.               *)
LEMMA CountKinds ==
  ASSUME NEW N \in SUBSET Node, NEW W, NEW n \in Node
  PROVE  /\ n \notin N /\ n \in W =>
              /\ Cardinality((N \cup {n}) \cap W) = Cardinality(N \cap W) + 1
              /\ (N \cup {n}) \ W = N \ W
         /\ n \notin N /\ n \notin W =>
              /\ Cardinality((N \cup {n}) \ W) = Cardinality(N \ W) + 1
              /\ (N \cup {n}) \cap W = N \cap W
         /\ n \in N /\ n \in W =>
              /\ Cardinality((N \ {n}) \cap W) = Cardinality(N \cap W) - 1
              /\ (N \ {n}) \ W = N \ W
         /\ n \in N /\ n \notin W =>
              /\ Cardinality((N \ {n}) \ W) = Cardinality(N \ W) - 1
              /\ (N \ {n}) \cap W = N \cap W
<1> DEFINE S == N \cap W
           B == N \ W
<1>1. S \in SUBSET Node /\ B \in SUBSET Node
  OBVIOUS
<1>2. /\ n \notin N /\ n \in W => /\ (N \cup {n}) \cap W = S \cup {n} /\ n \notin S
                                  /\ (N \cup {n}) \ W = B
      /\ n \notin N /\ n \notin W => /\ (N \cup {n}) \ W = B \cup {n} /\ n \notin B
                                     /\ (N \cup {n}) \cap W = S
      /\ n \in N /\ n \in W => /\ (N \ {n}) \cap W = S \ {n} /\ n \in S
                               /\ (N \ {n}) \ W = B
      /\ n \in N /\ n \notin W => /\ (N \ {n}) \ W = B \ {n} /\ n \in B
                                  /\ (N \ {n}) \cap W = S
  OBVIOUS
<1> HIDE DEF S, B
<1>3. /\ n \notin S => Cardinality(S \cup {n}) = Cardinality(S) + 1
      /\ n \in S => Cardinality(S \ {n}) = Cardinality(S) - 1
      /\ n \notin B => Cardinality(B \cup {n}) = Cardinality(B) + 1
      /\ n \in B => Cardinality(B \ {n}) = Cardinality(B) - 1
  BY <1>1, CountNodes
<1>4. S = N \cap W /\ B = N \ W
  BY DEF S, B
<1> QED
  BY <1>2, <1>3, <1>4

(* The HUD stays exact when an event is handled.                           *)
LEMMA HandleExact ==
  ASSUME SimInv, EventTrue, TaskExact, ListExact, CountsExact, Handle
  PROVE  ListExact' /\ CountsExact'
<1> DEFINE n == event.node
           N == Showing
           W == will_substitute
<1>1. /\ n \in Node /\ event.done \in Nat
      /\ event.kind \in {"started", "progress", "log", "finished"}
      /\ event.kind = "started" =>
           Showing' = N \cup {n} /\ n \notin N /\ Reported' = Reported
      /\ event.kind = "finished" =>
           /\ Showing' = N \ {n} /\ n \in N
           /\ Reported' = Reported \cup {n} /\ n \notin Reported
      /\ event.kind \in {"progress", "log"} => Showing' = N /\ Reported' = Reported
  BY HandleTells
<1>2. N \in SUBSET Node /\ Reported \in SUBSET Node
  BY DEF Showing, Reported
<1>3. ListOf(active, N) /\ active \in Seq(Item)
  BY DEF ListExact, ListOf
<1>4. /\ hud_subs = Cardinality(N \cap W) /\ hud_builds = Cardinality(N \ W)
      /\ completed = Cardinality(Reported)
  BY DEF CountsExact
<1>5. W' = W
  BY DEF Handle, gen, config
<1>6. ASSUME NEW M, ListOf(active', M), Showing' = M PROVE ListExact'
  BY <1>5, <1>6 DEF ListExact, ListOf
<1>7. /\ event.kind = "started" => OnStarted(n)
      /\ event.kind = "finished" => OnFinished(n)
      /\ event.kind = "progress" => OnProgress(n)
      /\ event.kind = "log" => UNCHANGED <<active, hud_builds, hud_subs, completed>>
  BY <1>1 DEF Handle
<1> HIDE DEF n, N
<1>8. CASE event.kind = "started"
  <2>1. OnStarted(n) /\ n \notin N /\ Showing' = N \cup {n} /\ Reported' = Reported
    BY <1>1, <1>7, <1>8
  <2> DEFINE x == [id |-> n, substitution |-> n \in will_substitute, progress |-> 0]
  <2>2. x \in Item /\ x.id = n /\ (x.substitution <=> n \in will_substitute)
    <3> DEFINE b == n \in will_substitute
    <3>1. b \in BOOLEAN
      OBVIOUS
    <3>2. x = [id |-> n, substitution |-> b, progress |-> 0]
      OBVIOUS
    <3> HIDE DEF b, x
    <3>3. x \in Item /\ x.id = n /\ x.substitution = b
      BY <1>1, <3>1, <3>2 DEF Item
    <3> QED
      BY <3>3 DEF b
  <2>3. active' = Append(active, x)
    BY <2>1 DEF OnStarted
  <2> HIDE DEF x
  <2>4. ListOf(active', N \cup {n})
    BY <1>1, <1>2, <1>3, <2>1, <2>2, <2>3, ListAppend
  <2>5. ListExact'
    BY <1>6, <2>1, <2>4
  <2>6. /\ n \in W => hud_subs' = hud_subs + 1 /\ hud_builds' = hud_builds
        /\ n \notin W => hud_builds' = hud_builds + 1 /\ hud_subs' = hud_subs
        /\ completed' = completed
    BY <2>1 DEF OnStarted
  <2>7. /\ hud_subs' = Cardinality((N \cup {n}) \cap W)
        /\ hud_builds' = Cardinality((N \cup {n}) \ W)
    <3>1. CASE n \in W
      <4>1. /\ Cardinality((N \cup {n}) \cap W) = Cardinality(N \cap W) + 1
            /\ (N \cup {n}) \ W = N \ W
        BY <1>1, <1>2, <2>1, <3>1, CountKinds
      <4> QED
        BY <1>4, <2>6, <3>1, <4>1
    <3>2. CASE n \notin W
      <4>1. /\ Cardinality((N \cup {n}) \ W) = Cardinality(N \ W) + 1
            /\ (N \cup {n}) \cap W = N \cap W
        BY <1>1, <1>2, <2>1, <3>2, CountKinds
      <4> QED
        BY <1>4, <2>6, <3>2, <4>1
    <3> QED
      BY <3>1, <3>2
  <2> QED
    BY <1>4, <1>5, <2>1, <2>5, <2>6, <2>7 DEF CountsExact
<1>9. CASE event.kind = "finished"
  <2>1. /\ OnFinished(n) /\ n \in N /\ Showing' = N \ {n}
        /\ Reported' = Reported \cup {n} /\ n \notin Reported
    BY <1>1, <1>7, <1>9
  <2>2. PICK k \in 1 .. Len(active) : active[k].id = n
    BY <1>3, <2>1 DEF ListOf
  <2>3. FindActive(n) # {}
    BY <2>2 DEF FindActive
  <2>4. PICK i \in 1 .. Len(active) :
          /\ active[i].id = n /\ active' = Out(active, i)
          /\ IF active[i].substitution
             THEN hud_subs' = hud_subs - 1 /\ UNCHANGED hud_builds
             ELSE hud_builds' = hud_builds - 1 /\ UNCHANGED hud_subs
    BY <2>1, <2>3 DEF OnFinished, FindActive, Without, Out
  <2>5. active[i].substitution <=> n \in W
    BY <1>3, <2>4 DEF ListOf
  <2>6. ListOf(active', N \ {n})
    BY <1>2, <1>3, <2>4, ListOut
  <2>7. ListExact'
    BY <1>6, <2>1, <2>6
  <2>8. /\ hud_subs' = Cardinality((N \ {n}) \cap W)
        /\ hud_builds' = Cardinality((N \ {n}) \ W)
    <3>1. CASE n \in W
      <4>1. /\ Cardinality((N \ {n}) \cap W) = Cardinality(N \cap W) - 1
            /\ (N \ {n}) \ W = N \ W
        <5>1. (N \ {n}) \ W = N \ W
          BY <3>1
        <5>2. N \cap W \in SUBSET Node /\ n \in N \cap W /\ (N \ {n}) \cap W = (N \cap W) \ {n}
          BY <1>2, <2>1, <3>1
        <5>3. Cardinality((N \cap W) \ {n}) = Cardinality(N \cap W) - 1
          BY <5>2, CountNodes
        <5> QED
          BY <5>1, <5>2, <5>3
      <4> QED
        BY <1>4, <2>4, <2>5, <3>1, <4>1
    <3>2. CASE n \notin W
      <4>1. /\ Cardinality((N \ {n}) \ W) = Cardinality(N \ W) - 1
            /\ (N \ {n}) \cap W = N \cap W
        BY <1>1, <1>2, <2>1, <3>2, CountKinds
      <4> QED
        BY <1>4, <2>4, <2>5, <3>2, <4>1
    <3> QED
      BY <3>1, <3>2
  <2>9. completed' = Cardinality(Reported \cup {n})
    BY <1>1, <1>2, <1>4, <2>1, CountNodes DEF OnFinished
  <2> QED
    BY <1>5, <2>1, <2>7, <2>8, <2>9 DEF CountsExact
<1>10. CASE event.kind = "progress"
  <2>1. OnProgress(n) /\ Showing' = N /\ Reported' = Reported
    BY <1>1, <1>7, <1>10
  <2>2. ListOf(active', N)
    BY <1>1, <1>3, <2>1, ListProgress
  <2>3. ListExact'
    BY <1>6, <2>1, <2>2
  <2> QED
    BY <1>4, <1>5, <2>1, <2>3 DEF CountsExact, OnProgress
<1>11. CASE event.kind = "log"
  <2>1. UNCHANGED <<active, hud_builds, hud_subs, completed>> /\ Showing' = N /\ Reported' = Reported
    BY <1>1, <1>7, <1>11
  <2>2. ListExact'
    BY <1>3, <1>6, <2>1
  <2> QED
    BY <1>4, <1>5, <2>1, <2>2 DEF CountsExact
<1> QED
  BY <1>1, <1>8, <1>9, <1>10, <1>11

(* The list of recent labels keeps its type, and at most three of them.    *)
LEMMA RecentKept ==
  ASSUME NEW n \in Node, Remember(n), recent \in Seq(Node), Len(recent) <= 3
  PROVE  recent' \in Seq(Node) /\ Len(recent)' <= 3
<1> DEFINE r == <<n>> \o recent
           k == IF Len(recent) < 3 THEN Len(recent) + 1 ELSE 3
<1>1. Len(recent) \in Nat
  BY LenProperties
<1>2. <<n>> \in Seq(Node) /\ Len(<<n>>) = 1
  OBVIOUS
<1>3. r \in Seq(Node) /\ Len(r) = Len(recent) + 1
  <2>1. r \in Seq(Node) /\ Len(r) = Len(<<n>>) + Len(recent)
    BY <1>2, ConcatProperties
  <2> HIDE DEF r
  <2> QED
    BY <1>1, <1>2, <2>1
<1>4. recent' = SubSeq(r, 1, k) \/ recent' = recent
  BY DEF Remember
<1> HIDE DEF r
<1>5. k \in Nat /\ k <= 3 /\ k >= 1 /\ k <= Len(r)
  BY <1>1, <1>3
<1> HIDE DEF k
<1>6. \A i \in 1 .. k : r[i] \in Node
  <2>1. \A i \in 1 .. Len(r) : r[i] \in Node
    BY <1>3, ElementOfSeq
  <2>2. 1 .. k \subseteq 1 .. Len(r)
    BY <1>1, <1>3, <1>5
  <2> QED
    BY <2>1, <2>2
<1>7. /\ SubSeq(r, 1, k) \in Seq(Node)
      /\ Len(SubSeq(r, 1, k)) = IF 1 <= k THEN k - 1 + 1 ELSE 0
  BY <1>3, <1>5, <1>6, SubSeqProperties
<1>8. Len(SubSeq(r, 1, k)) <= 3
  <2> DEFINE l == Len(SubSeq(r, 1, k))
  <2>1. l = IF 1 <= k THEN k - 1 + 1 ELSE 0
    BY <1>7
  <2> HIDE DEF l
  <2>2. l <= 3
    BY <1>5, <2>1
  <2> QED
    BY <2>2 DEF l
<1> QED
  BY <1>4, <1>7, <1>8

LEMMA TaskKept ==
  ASSUME SimInv, EventTrue, TaskExact, [TuiNext]_tuivars
  PROVE  TaskExact'
<1> USE DEF TaskExact
<1>1. current_time \in Nat
  BY DEF SimInv, TypeOK
<1>2. CASE Produce
  BY <1>2 DEF Produce, view
<1>3. CASE Abandon
  BY <1>3 DEF Abandon, view
<1>4. CASE Accept
  <2>1. /\ tui_pc' \in {"asleep", "handle"} /\ event # NoEvent /\ ~shutdown
        /\ last_sim_time' = current_time \/ last_sim_time' = last_sim_time
        /\ event' = event /\ shutdown' = shutdown /\ late' = late /\ recent' = recent
    BY <1>4 DEF Accept, vars, output, view
  <2> QED
    BY <1>1, <2>1
<1>5. CASE WakeUp
  BY <1>1, <1>5 DEF WakeUp, vars, output, view
<1>6. CASE Handle
  <2>1. /\ tui_pc' = "next" /\ shutdown' = shutdown /\ last_sim_time' = last_sim_time
        /\ late' = (IF shutdown THEN late + 1 ELSE late) /\ late = 0
        /\ Remember(event.node)
    BY <1>6 DEF Handle
  <2>2. recent' \in Seq(Node) /\ Len(recent)' <= 3
    BY <1>6, <2>1, HandleTells, RecentKept
  <2> QED
    BY <2>1, <2>2
<1>7. CASE Complete
  BY <1>7 DEF Complete, At, vars, output, view
<1>8. CASE Close
  BY <1>8 DEF Close, view
<1>9. CASE RequestShutdown
  BY <1>9 DEF RequestShutdown, vars, output, view
<1>10. CASE UNCHANGED tuivars
  BY <1>10 DEF tuivars, vars, output, view
<1> QED
  BY <1>2, <1>3, <1>4, <1>5, <1>6, <1>7, <1>8, <1>9, <1>10 DEF TuiNext, TuiStep, Ended

(* Nothing else disturbs what the HUD shows.                               *)
LEMMA HudKept ==
  ASSUME SimInv, TuiInv, [TuiNext]_tuivars
  PROVE  EventTrue' /\ ListExact' /\ CountsExact'
<1>1. EventTrue /\ ListExact /\ CountsExact /\ TaskExact
  BY DEF TuiInv
<1>2. ASSUME EventTrue', \A n \in Node : Told(n)' = Told(n),
             UNCHANGED <<active, hud_builds, hud_subs, completed, will_substitute>>
      PROVE  EventTrue' /\ ListExact' /\ CountsExact'
  <2>1. Showing' = Showing /\ Reported' = Reported
    BY <1>2 DEF Showing, Reported
  <2> QED
    BY <1>1, <1>2, <2>1 DEF ListExact, ListOf, CountsExact
<1>3. CASE Produce
  <2>1. Generate /\ UNCHANGED <<active, hud_builds, hud_subs, completed>>
    BY <1>3 DEF Produce, view
  <2>2. UNCHANGED will_substitute
    BY <2>1, ConfigFixed DEF config, Next
  <2> QED
    BY <1>2, <2>1, <2>2, GenerateTells
<1>4. CASE Handle
  BY <1>1, <1>4, HandleTells, HandleExact
<1>5. ASSUME ~Produce, ~Handle PROVE UNCHANGED <<vars, view>>
  BY <1>5 DEF TuiNext, TuiStep, tuivars, Abandon, Accept, WakeUp, Complete, Close,
              RequestShutdown, Ended
<1>6. CASE UNCHANGED <<vars, view>>
  <2>1. UNCHANGED <<event, shown, active, hud_builds, hud_subs, completed, will_substitute>>
    BY <1>6 DEF vars, config, output, view
  <2>2. EventTrue' /\ \A n \in Node : Told(n)' = Told(n)
    BY <1>1, <2>1 DEF EventTrue, Told
  <2> QED
    BY <1>2, <2>1, <2>2
<1> QED
  BY <1>3, <1>4, <1>5, <1>6

LEMMA TuiInitOK ==
  ASSUME TuiInit
  PROVE  SimInv /\ TuiInv
<1>1. Init
  BY DEF TuiInit
<1>2. SimInv
  BY <1>1, InitOK
<1>3. event.kind = "none" /\ event = NoEvent /\ \A n \in Node : shown[n] = "unseen"
  BY <1>1 DEF Init, NoEvent
<1>4. EventTrue /\ Showing = {} /\ Reported = {}
  BY <1>3 DEF EventTrue, Showing, Reported, Told
<1>5. active = <<>> /\ Len(active) = 0 /\ active \in Seq(Item)
  BY DEF TuiInit
<1>6. ListExact
  BY <1>4, <1>5 DEF ListExact, ListOf
<1>7. CountsExact
  <2>1. Showing \cap will_substitute = {} /\ Showing \ will_substitute = {}
    BY <1>4
  <2> QED
    BY <1>4, <2>1, FS_EmptySet DEF CountsExact, TuiInit
<1>8. TaskExact
  <2>1. recent \in Seq(Node) /\ Len(recent) <= 3
    BY DEF TuiInit
  <2> QED
    BY <2>1 DEF TaskExact, TuiInit
<1> QED
  BY <1>2, <1>4, <1>6, <1>7, <1>8 DEF TuiInv

(* What the generator and the task keep between them. *)
THEOREM TaskInvariant == TuiSpec => [](SimInv /\ TuiInv)
<1>1. SimInv /\ TuiInv /\ [TuiNext]_tuivars => (SimInv /\ TuiInv)'
  <2> SUFFICES ASSUME SimInv, TuiInv, [TuiNext]_tuivars PROVE SimInv' /\ TuiInv'
    OBVIOUS
  <2>1. EventTrue /\ TaskExact
    BY DEF TuiInv
  <2> QED
    BY <2>1, DrivesGenerator, GeneratorKept, TaskKept, HudKept DEF TuiInv
<1> QED
  BY <1>1, TuiInitOK, PTL DEF TuiSpec

(* Every variable of the task has its type: neither HUD counter is cut below
   zero, and no derivation is counted as completed twice. *)
THEOREM TaskTyped == TuiSpec => []TuiTypeOK
<1>1. SimInv /\ TuiInv => TuiTypeOK
  <2> SUFFICES ASSUME SimInv, TuiInv PROVE TuiTypeOK
    OBVIOUS
  <2>1. TypeOK /\ ListExact /\ CountsExact /\ TaskExact
    BY DEF SimInv, TuiInv
  <2>2. active \in Seq([id : Node, substitution : BOOLEAN, progress : Nat])
    BY <2>1 DEF ListExact, ListOf, Item
  <2>3. /\ Showing \cap will_substitute \in SUBSET Node
        /\ Showing \ will_substitute \in SUBSET Node
        /\ Reported \in SUBSET Node /\ Node \in SUBSET Node
    BY DEF Showing, Reported
  <2>4. /\ hud_subs \in Nat /\ hud_builds \in Nat /\ completed \in Nat
        /\ completed <= Cardinality(Node)
    BY <2>1, <2>3, CountNodes DEF CountsExact
  <2>5. Cardinality(Node) = NumNodes
    BY SimGenAssumption, FS_Interval DEF Node
  <2>6. completed \in 0 .. NumNodes
    BY <2>4, <2>5, SimGenAssumption
  <2>7. late \in Nat
    BY <2>1 DEF TaskExact
  <2> QED
    BY <2>1, <2>2, <2>4, <2>6, <2>7 DEF TuiTypeOK, TaskExact
<1> QED
  BY <1>1, TaskInvariant, PTL

(* Whenever the task is back at its loop, the list of the HUD and its three
   counters agree with the stream. *)
THEOREM HudExact == TuiSpec => []HudAgrees
<1>1. SimInv /\ TuiInv => HudAgrees
  <2> SUFFICES ASSUME SimInv, TuiInv, event = NoEvent
               PROVE  /\ {active[i].id : i \in 1 .. Len(active)} = {n \in Node : shown[n] = "started"}
                      /\ \A i, j \in 1 .. Len(active) : active[i].id = active[j].id => i = j
                      /\ hud_subs = Cardinality({i \in 1 .. Len(active) : active[i].substitution})
                      /\ hud_builds + hud_subs = Len(active)
                      /\ completed = Cardinality({n \in Node : shown[n] = "finished"})
    BY DEF HudAgrees
  <2>1. ListExact /\ CountsExact
    BY DEF TuiInv
  <2>2. event.kind = "none"
    BY DEF NoEvent
  <2>3. Showing = {n \in Node : shown[n] = "started"} /\ Reported = {n \in Node : shown[n] = "finished"}
    BY <2>2 DEF Showing, Reported, Told
  <2>4. Showing \in SUBSET Node /\ ListOf(active, Showing)
    BY <2>1 DEF Showing, ListExact
  <2>5. /\ {active[i].id : i \in 1 .. Len(active)} = Showing
        /\ Len(active) = Cardinality(Showing)
        /\ Cardinality({i \in 1 .. Len(active) : active[i].substitution})
             = Cardinality(Showing \cap will_substitute)
    BY <2>4, ListCounts
  <2>6. \A i, j \in 1 .. Len(active) : active[i].id = active[j].id => i = j
    BY <2>4 DEF ListOf
  <2>7. Cardinality(Showing \ will_substitute) + Cardinality(Showing \cap will_substitute)
          = Cardinality(Showing)
    BY <2>4, KindsAddUp
  <2> QED
    BY <2>1, <2>3, <2>5, <2>6, <2>7 DEF CountsExact
<1> QED
  BY <1>1, TaskInvariant, PTL

(* At most one event is shown after the shutdown was requested. *)
THEOREM AtMostOneLate == TuiSpec => []OneLateEvent
<1>1. TuiInv => OneLateEvent
  BY DEF TuiInv, TaskExact, OneLateEvent
<1> QED
  BY <1>1, TaskInvariant, PTL

(* The task adds nothing to the stream: seen through the generator alone,
   every run of the TUI is a run of the generator. *)
THEOREM TaskRunsGenerator == TuiSpec => Spec
<1>1. TuiInit => Init
  BY DEF TuiInit
<1>2. SimInv /\ TuiInv /\ [TuiNext]_tuivars => [Next]_vars
  BY DrivesGenerator DEF TuiInv
<1> QED
  BY <1>1, <1>2, TaskInvariant, PTL DEF TuiSpec, Spec

(* Given graphs without cycles and slots of both kinds, the final count is
   the number of all derivations: the printed total is never short. *)
THEOREM AllReported ==
  ASSUME \A g \in Graphs : \A S \in SUBSET Node : S # {} => \E n \in S : g[n] \cap S = {}
  PROVE  TuiSpec => []CompleteMeansAll
<1>1. SimInv /\ TuiInv /\ GivesUpOnlyWithoutSlots => CompleteMeansAll
  <2> SUFFICES ASSUME SimInv, TuiInv, GivesUpOnlyWithoutSlots, tui_pc = "closing",
                      max_jobs > 0, max_substitutions > 0
               PROVE  completed = NumNodes
    BY DEF CompleteMeansAll
  <2>1. pc = "done" /\ event = NoEvent
    BY DEF TuiInv, TaskExact
  <2>2. Acyclic
    BY DEF Acyclic, SimInv, TypeOK
  <2>3. \A n \in Node : shown[n] = "finished"
    BY <2>1, <2>2 DEF GivesUpOnlyWithoutSlots
  <2>4. Reported = Node
    BY <2>1, <2>3 DEF Reported, Told, NoEvent
  <2>5. Cardinality(Node) = NumNodes
    BY SimGenAssumption, FS_Interval DEF Node
  <2> QED
    BY <2>4, <2>5 DEF TuiInv, CountsExact
<1> QED
  BY <1>1, TaskInvariant, TaskRunsGenerator, NothingStranded, PTL
-----------------------------------------------------------------------------
(* Progress bars.                                                          *)

(* What holds of an item of the list, and of its node.                     *)
LEMMA Running ==
  ASSUME SimInv, TuiInv, NEW i \in 1 .. Len(active)
  PROVE  /\ active[i].id \in Node /\ active[i].progress \in Nat
         /\ node_state[active[i].id] \in {"running", "done"}
         /\ event.kind = "started" => event.node # active[i].id
<1>1. ListOf(active, Showing) /\ EventTrue
  BY DEF TuiInv, ListExact
<1>2. active[i].id \in Showing /\ active[i].id \in Node /\ active[i].progress \in Nat
  BY <1>1, SeqItem DEF ListOf
<1>3. Told(active[i].id) = "started"
  BY <1>2 DEF Showing
<1>4. shown[active[i].id] # "unseen" /\ (event.kind = "started" => event.node # active[i].id)
  BY <1>1, <1>3 DEF Told, EventTrue
<1>5. node_state[active[i].id] \in {"waiting", "ready", "running", "done"}
  BY <1>2 DEF SimInv, TypeOK
<1> QED
  BY <1>2, <1>4, <1>5 DEF SimInv, ShownExact

(* No step of the generator turns time back, nor moves the start of a node *)
(* that is not ready.                                                      *)
LEMMA ClockForward ==
  ASSUME SimInv, Generate
  PROVE  /\ current_time \in Nat /\ current_time' \in Nat /\ current_time' >= current_time
         /\ \A n \in Node : node_state[n] # "ready" => start_times'[n] = start_times[n]
<1>1. current_time \in Nat /\ start_times \in [Node -> Nat]
  BY DEF SimInv, TypeOK
<1>2. ASSUME NEW e \in timeline, PopProgress(e) \/ PopFinish(e)
      PROVE  /\ current_time' \in Nat /\ current_time' >= current_time
             /\ start_times' = start_times
  BY <1>2, TopIsEarliest DEF PopProgress, PopFinish
<1>3. CASE StartWork
  <2>1. /\ current_time' = current_time /\ ready_queue # <<>>
        /\ start_times' = [start_times EXCEPT ![Head(ready_queue)] = current_time]
    BY <1>3 DEF StartWork
  <2>2. node_state[Head(ready_queue)] = "ready"
    BY <2>1, HeadIsReady
  <2> QED
    BY <1>1, <2>1, <2>2
<1>4. ASSUME NEW m \in wake, Wake(m)
      PROVE  current_time' = current_time /\ start_times' = start_times
  BY <1>4 DEF Wake
<1>5. CASE Seed \/ SeedDone \/ StartWorkDone \/ YieldStarted \/ YieldStartedDone
  BY <1>1, <1>5 DEF Seed, SeedDone, StartWorkDone, YieldStarted, YieldStartedDone, work
<1>6. CASE Exhausted \/ YieldFullProgress \/ YieldLog \/ YieldFinished \/ WakeDone
  BY <1>1, <1>6 DEF Exhausted, YieldFullProgress, YieldLog, YieldFinished, WakeDone, work
<1> QED
  BY <1>1, <1>2, <1>3, <1>4, <1>5, <1>6 DEF Generate

LEMMA FinishTimesKept ==
  ASSUME SimInv, FinishTimes, Generate
  PROVE  FinishTimes'
<1>1. /\ durations \in [Node -> Nat] /\ start_times \in [Node -> Nat]
      /\ timeline \subseteq ScheduledEvent /\ current_time \in Nat
  BY SimGenAssumption DEF SimInv, TypeOK
<1>2. UNCHANGED durations
  BY ConfigFixed DEF config, Next
<1>3. ASSUME \A e \in timeline' : e.finish => e \in timeline, start_times' = start_times
      PROVE  FinishTimes'
  BY <1>2, <1>3 DEF FinishTimes, FinishAt
<1>4. CASE StartWork
  <2> DEFINE n == Head(ready_queue)
             f == [time |-> current_time + durations[n], node |-> n, finish |-> TRUE]
  <2>1. /\ ready_queue # <<>> /\ start_times' = [start_times EXCEPT ![n] = current_time]
        /\ timeline' = timeline \cup FirstProgress(n) \cup {f}
    BY <1>4 DEF StartWork
  <2>2. n \in Node /\ node_state[n] = "ready"
    BY <2>1, HeadIsReady
  <2>3. \A e \in FirstProgress(n) : ~e.finish
    BY DEF FirstProgress
  <2>4. f.time = current_time + durations[n] /\ f.node = n
    OBVIOUS
  <2> HIDE DEF n, f
  <2>5. \A e \in timeline : e.finish => e.node \in Node /\ e.node # n
    BY <1>1, <2>2 DEF SimInv, TimelineExact, ScheduledEvent
  <2>6. ASSUME NEW e \in timeline', e.finish PROVE e.time = FinishAt(e.node)'
    <3>1. CASE e = f
      BY <1>1, <1>2, <2>1, <2>2, <2>4, <3>1 DEF FinishAt
    <3>2. CASE e \in timeline
      <4>1. e.time = FinishAt(e.node) /\ e.node \in Node /\ e.node # n
        BY <2>5, <2>6, <3>2 DEF FinishTimes
      <4> QED
        BY <1>1, <1>2, <2>1, <4>1 DEF FinishAt
    <3> QED
      BY <2>1, <2>3, <2>6, <3>1, <3>2
  <2> QED
    BY <2>6 DEF FinishTimes
<1>5. ASSUME NEW e \in timeline, PopProgress(e) PROVE FinishTimes'
  <2>1. \A f \in NextProgress(e) : ~f.finish
    BY DEF NextProgress
  <2>2. start_times' = start_times
    BY <1>5 DEF PopProgress
  <2>3. \A f \in timeline' : f.finish => f \in timeline
    BY <1>5, <2>1 DEF PopProgress
  <2> QED
    BY <1>3, <2>2, <2>3
<1>6. ASSUME NEW e \in timeline, PopFinish(e) PROVE FinishTimes'
  BY <1>3, <1>6 DEF PopFinish
<1>7. ASSUME NEW m \in wake, Wake(m) PROVE FinishTimes'
  BY <1>3, <1>7 DEF Wake
<1>8. CASE Seed \/ SeedDone \/ StartWorkDone \/ YieldStarted \/ YieldStartedDone
  BY <1>3, <1>8 DEF Seed, SeedDone, StartWorkDone, YieldStarted, YieldStartedDone, work
<1>9. CASE Exhausted \/ YieldFullProgress \/ YieldLog \/ YieldFinished \/ WakeDone
  BY <1>3, <1>9 DEF Exhausted, YieldFullProgress, YieldLog, YieldFinished, WakeDone, work
<1> QED
  BY <1>4, <1>5, <1>6, <1>7, <1>8, <1>9 DEF Generate

LEMMA ProduceBars ==
  ASSUME SimInv, TuiInv, BarInv, Produce
  PROVE  BarInv'
<1>0. TimesExact /\ FullBeforeFinish
  BY DEF BarInv
<1>1. Generate /\ active' = active
  BY DEF Produce, view
<1>2. durations' = durations /\ emit_progress' = emit_progress
  BY <1>1, ConfigFixed DEF config, Next
<1>3. /\ durations \in [Node -> Nat] /\ start_times \in [Node -> Nat]
      /\ timeline \subseteq ScheduledEvent
  BY SimGenAssumption DEF SimInv, TypeOK
<1>4. /\ current_time \in Nat /\ current_time' \in Nat /\ current_time' >= current_time
      /\ \A n \in Node : node_state[n] # "ready" => start_times'[n] = start_times[n]
  BY <1>1, ClockForward
<1>5. FinishTimes'
  BY <1>0, <1>1, FinishTimesKept DEF TimesExact
<1>6. ASSUME NEW i \in 1 .. Len(active)
      PROVE  /\ active[i].progress <= durations'[active[i].id]
             /\ start_times'[active[i].id] + active[i].progress <= current_time'
  <2>1. /\ active[i].id \in Node /\ active[i].progress \in Nat
        /\ node_state[active[i].id] # "ready"
    BY Running
  <2>2. /\ active[i].progress <= durations[active[i].id]
        /\ start_times[active[i].id] + active[i].progress <= current_time
    BY <1>0 DEF TimesExact
  <2>3. start_times'[active[i].id] = start_times[active[i].id] /\ start_times[active[i].id] \in Nat
    BY <1>3, <1>4, <2>1
  <2> QED
    BY <1>2, <1>4, <2>1, <2>2, <2>3
<1>7. ASSUME pc' = "yield_full" => current_time' = FinishAt(idx)' PROVE TimesExact'
  BY <1>0, <1>1, <1>2, <1>5, <1>6, <1>7 DEF TimesExact
<1>8. event = NoEvent /\ event.kind = "none"
  BY <1>1 DEF Generate, At, Seed, SeedDone, StartWork, StartWorkDone, YieldStarted,
         YieldStartedDone, PopProgress, PopFinish, Exhausted, YieldFullProgress,
         YieldLog, YieldFinished, Wake, WakeDone, NoEvent
<1>9. ASSUME event' = event, pc' # "yield_log", pc' # "yield_full" PROVE BarInv'
  BY <1>7, <1>8, <1>9 DEF BarInv, ProgressForward, FullBeforeFinish, EventPlace
<1>10. CASE YieldFullProgress
  <2>1. /\ pc = "yield_full" /\ pc' = "yield_log" /\ event' = Event("progress", idx, durations[idx])
        /\ UNCHANGED <<idx, work>>
    BY <1>10 DEF YieldFullProgress, At
  <2>2. event'.kind = "progress" /\ event'.node = idx /\ event'.done = durations[idx]
    BY <2>1 DEF Event
  <2>3. current_time = FinishAt(idx) /\ idx \in Node
    BY <1>0, <2>1 DEF TimesExact, SimInv, ControlExact
  <2>4. TimesExact'
    BY <1>7, <2>1
  <2>5. UNCHANGED <<start_times, current_time>>
    BY <2>1 DEF work
  <2>6. start_times'[idx] + durations[idx] <= current_time'
    <3> DEFINE x == start_times[idx] + durations[idx]
    <3>1. x \in Nat /\ current_time = x
      BY <1>3, <2>3 DEF FinishAt
    <3> HIDE DEF x
    <3>2. x <= current_time
      BY <3>1
    <3> QED
      BY <2>5, <3>2 DEF x
  <2>7. \A i \in FindActive(idx) : active[i].progress <= durations[idx]
    BY <1>0 DEF TimesExact, FindActive
  <2>8. durations[idx] <= durations[idx]
    BY <1>3, <2>3
  <2>9. ProgressForward'
    BY <1>1, <1>2, <2>2, <2>6, <2>7, <2>8 DEF ProgressForward, FindActive
  <2>10. FullBeforeFinish' /\ EventPlace'
    BY <1>2, <2>1, <2>2 DEF FullBeforeFinish, EventPlace
  <2> QED
    BY <2>4, <2>9, <2>10 DEF BarInv
<1>11. CASE YieldLog \/ YieldFinished
  <2>1. /\ pc = "yield_log" /\ UNCHANGED <<idx, work>>
        /\ \/ event'.kind = "log" /\ pc' = pc
           \/ event'.kind = "finished" /\ event'.node = idx /\ pc' = "wake"
    BY <1>11 DEF YieldLog, YieldFinished, At, Event
  <2>2. \A i \in FindActive(idx) : active[i].progress = durations[idx]
    BY <1>0, <1>8, <2>1 DEF FullBeforeFinish
  <2>3. TimesExact'
    BY <1>7, <2>1
  <2>4. FullBeforeFinish'
    BY <1>1, <1>2, <2>1, <2>2 DEF FullBeforeFinish, FindActive
  <2>5. ProgressForward' /\ EventPlace'
    BY <2>1 DEF ProgressForward, EventPlace
  <2> QED
    BY <2>3, <2>4, <2>5 DEF BarInv
<1>12. CASE YieldStarted
  <2>1. pc = "yield_started" /\ pc' = pc /\ event'.kind = "started"
    BY <1>12 DEF YieldStarted, At, Event
  <2> QED
    BY <1>7, <2>1 DEF BarInv, ProgressForward, FullBeforeFinish, EventPlace
<1>13. ASSUME NEW e \in timeline, PopProgress(e) PROVE BarInv'
  <2>1. /\ pc = "pop" /\ pc' = pc /\ current_time' = e.time /\ start_times' = start_times
    BY <1>13 DEF PopProgress, At
  <2>2. e.time \in Nat /\ e.node \in Node
    BY <1>3 DEF ScheduledEvent
  <2>3. CASE event' = event
    BY <1>9, <2>1, <2>3
  <2> DEFINE d == MinOf(e.time - start_times[e.node], durations[e.node])
  <2>4. CASE event' = Event("progress", e.node, d)
    <3>1. event'.kind = "progress" /\ event'.node = e.node /\ event'.done = d
      BY <2>4 DEF Event
    <3>2. start_times[e.node] <= e.time /\ start_times[e.node] \in Nat /\ durations[e.node] \in Nat
      <4>1. start_times[e.node] <= current_time /\ start_times[e.node] \in Nat /\ durations[e.node] \in Nat
        BY <1>3, <2>2 DEF SimInv, TimelineExact
      <4> QED
        BY <1>4, <2>1, <2>2, <4>1
    <3>3. d \in Nat /\ d <= durations[e.node] /\ start_times[e.node] + d <= e.time
      BY <2>2, <3>2 DEF MinOf
    <3>4. ASSUME NEW i \in FindActive(e.node) PROVE active[i].progress <= d
      <4>1. i \in 1 .. Len(active) /\ active[i].id = e.node
        BY DEF FindActive
      <4>2. /\ active[i].progress <= durations[e.node] /\ active[i].progress \in Nat
            /\ start_times[e.node] + active[i].progress <= e.time
        BY <1>2, <1>6, <2>1, <4>1, Running
      <4> QED
        BY <2>2, <3>2, <4>2 DEF MinOf
    <3> HIDE DEF d
    <3>5. ProgressForward'
      BY <1>1, <1>2, <2>1, <3>1, <3>3, <3>4 DEF ProgressForward, FindActive
    <3>6. TimesExact' /\ FullBeforeFinish' /\ EventPlace'
      BY <1>7, <2>1, <3>1 DEF FullBeforeFinish, EventPlace
    <3> QED
      BY <3>5, <3>6 DEF BarInv
  <2> QED
    BY <1>13, <2>3, <2>4 DEF PopProgress
<1>14. ASSUME NEW e \in timeline, PopFinish(e) PROVE BarInv'
  <2>1. /\ pc' = "yield_full" /\ event' = event /\ e.finish
        /\ current_time' = e.time /\ idx' = e.node /\ start_times' = start_times
    BY <1>0, <1>14 DEF PopFinish, TimesExact, output
  <2>2. e.time = FinishAt(e.node)
    BY <1>0, <2>1 DEF TimesExact, FinishTimes
  <2>3. current_time' = FinishAt(idx)'
    BY <1>2, <2>1, <2>2 DEF FinishAt
  <2>4. TimesExact'
    BY <1>7, <2>3
  <2> QED
    BY <1>8, <2>1, <2>4 DEF BarInv, ProgressForward, FullBeforeFinish, EventPlace
<1>15. ASSUME NEW m \in wake, Wake(m) PROVE BarInv'
  BY <1>9, <1>15 DEF Wake, At, output
<1>16. CASE Seed \/ SeedDone \/ StartWork \/ StartWorkDone \/ YieldStartedDone
  BY <1>9, <1>16 DEF Seed, SeedDone, StartWork, StartWorkDone, YieldStartedDone, At, output
<1>17. CASE Exhausted \/ WakeDone
  BY <1>9, <1>17 DEF Exhausted, WakeDone, At, output
<1> QED
  BY <1>1, <1>10, <1>11, <1>12, <1>13, <1>14, <1>15, <1>16, <1>17 DEF Generate

(* One step of the bars: none moves back, none goes before it is full.     *)
BarStep ==
  \A i \in 1 .. Len(active) :
    \/ \E j \in 1 .. Len(active') :
         active'[j].id = active[i].id /\ active'[j].progress >= active[i].progress
    \/ active[i].progress = durations[active[i].id]

(* Handling an event, by what it does to the list of items.                *)
LEMMA HandleItems ==
  ASSUME SimInv, TuiInv, BarInv, Handle
  PROVE  /\ BarStep
         /\ \A j \in 1 .. Len(active') :
              \/ /\ event.kind = "started"
                 /\ active'[j].id = event.node /\ active'[j].progress = 0
              \/ /\ event.kind = "progress"
                 /\ active'[j].id = event.node /\ active'[j].progress = event.done
              \/ \E i \in 1 .. Len(active) :
                   /\ active'[j].id = active[i].id
                   /\ active'[j].progress = active[i].progress
                   /\ event.kind = "progress" => active[i].id # event.node
<1> DEFINE n == event.node
<1>1. /\ n \in Node /\ event.done \in Nat
      /\ event.kind \in {"started", "progress", "log", "finished"}
  BY HandleTells DEF TuiInv
<1>2. /\ event.kind = "started" => OnStarted(n)
      /\ event.kind = "finished" => OnFinished(n)
      /\ event.kind = "progress" => OnProgress(n)
      /\ event.kind = "log" => active' = active
  BY <1>1 DEF Handle
<1>3. /\ ListOf(active, Showing) /\ active \in Seq(Item) /\ Len(active) \in Nat
      /\ \A i \in 1 .. Len(active) : active[i].progress \in Nat
  BY SeqItem DEF TuiInv, ListExact, ListOf
<1>4. \A i \in 1 .. Len(active) : active[i].progress >= active[i].progress
  BY <1>3
<1> HIDE DEF n
<1>5. CASE event.kind = "started"
  <2> DEFINE b == n \in will_substitute
             x == [id |-> n, substitution |-> b, progress |-> 0]
  <2>1. active' = Append(active, x)
    BY <1>2, <1>5 DEF OnStarted
  <2>2. b \in BOOLEAN
    OBVIOUS
  <2> HIDE DEF b
  <2>3. x \in Item /\ x.id = n /\ x.progress = 0
    BY <1>1, <2>2 DEF Item
  <2> HIDE DEF x
  <2>4. /\ Len(active') = Len(active) + 1 /\ active'[Len(active) + 1] = x
        /\ \A i \in 1 .. Len(active) : active'[i] = active[i]
    BY <1>3, <2>1, <2>3, AppendProperties
  <2>5. /\ \A j \in 1 .. Len(active') : j \in 1 .. Len(active) \/ j = Len(active) + 1
        /\ 1 .. Len(active) \subseteq 1 .. Len(active')
    BY <1>3, <2>4
  <2>6. BarStep
    BY <1>4, <2>4, <2>5 DEF BarStep
  <2> QED
    BY <1>5, <2>3, <2>4, <2>5, <2>6 DEF n
<1>6. CASE event.kind = "finished"
  <2>1. \A i \in FindActive(n) : active[i].progress = durations[n]
    BY <1>6 DEF BarInv, FullBeforeFinish, n
  <2>2. CASE active' = active
    BY <1>4, <1>6, <2>2 DEF BarStep
  <2>3. CASE \E k \in FindActive(n) : active' = Out(active, k)
    <3>1. PICK k \in 1 .. Len(active) : active[k].id = n /\ active' = Out(active, k)
      BY <2>3 DEF FindActive
    <3>2. active[k].progress = durations[active[k].id]
      BY <2>1, <3>1 DEF FindActive
    <3>3. /\ Len(active') = Len(active) - 1
          /\ \A j \in 1 .. Len(active) - 1 :
               active'[j] = IF j < k THEN active[j] ELSE active[j + 1]
      BY <1>3, <3>1, TakenOut
    <3>4. ASSUME NEW j \in 1 .. Len(active')
          PROVE  \E i \in 1 .. Len(active) : active'[j] = active[i]
      <4>1. j \in 1 .. Len(active) - 1 /\ j \in 1 .. Len(active) /\ j + 1 \in 1 .. Len(active)
        BY <1>3, <3>3
      <4> QED
        BY <3>3, <4>1
    <3>5. ASSUME NEW i \in 1 .. Len(active), i # k
          PROVE  \E j \in 1 .. Len(active') : active'[j] = active[i]
      <4>1. CASE i < k
        <5>1. i \in 1 .. Len(active) - 1
          BY <1>3, <4>1
        <5> QED
          BY <3>3, <4>1, <5>1
      <4>2. CASE i > k
        <5>1. i - 1 \in 1 .. Len(active) - 1 /\ ~(i - 1 < k) /\ (i - 1) + 1 = i
          BY <1>3, <4>2
        <5> QED
          BY <3>3, <5>1
      <4> QED
        BY <3>5, <4>1, <4>2
    <3>6. BarStep
      BY <1>4, <3>2, <3>5 DEF BarStep
    <3> QED
      BY <1>6, <3>4, <3>6
  <2> QED
    BY <1>2, <1>6, <2>2, <2>3 DEF OnFinished, Without, Out
<1>7. CASE event.kind = "progress"
  <2>1. /\ Len(active') = Len(active)
        /\ \A i \in 1 .. Len(active) :
             /\ active'[i].id = active[i].id
             /\ active'[i].progress = IF active[i].id = n THEN event.done ELSE active[i].progress
    BY <1>1, <1>2, <1>3, <1>7, ListProgress
  <2>2. \A i \in 1 .. Len(active) : active[i].id = n => active[i].progress <= event.done
    BY <1>7 DEF BarInv, ProgressForward, FindActive, n
  <2>3. \A i \in 1 .. Len(active) : active'[i].progress >= active[i].progress
    BY <1>1, <1>3, <1>4, <2>1, <2>2
  <2>4. BarStep
    BY <2>1, <2>3 DEF BarStep
  <2> QED
    BY <1>7, <2>1, <2>4 DEF n
<1>8. CASE event.kind = "log"
  BY <1>2, <1>4, <1>8 DEF BarStep
<1> QED
  BY <1>1, <1>5, <1>6, <1>7, <1>8

LEMMA HandleBars ==
  ASSUME SimInv, TuiInv, BarInv, Handle
  PROVE  BarInv'
<1>1. event' = NoEvent /\ UNCHANGED gen
  BY DEF Handle
<1>2. UNCHANGED <<emit_progress, durations, pc, idx, timeline, start_times, current_time>>
  BY <1>1 DEF gen, config, work
<1>3. event'.kind = "none"
  BY <1>1 DEF NoEvent
<1>4. event.node \in Node /\ event.done \in Nat
  BY HandleTells DEF TuiInv
<1>5. /\ durations \in [Node -> Nat] /\ start_times \in [Node -> Nat] /\ current_time \in Nat
      /\ start_times[event.node] <= current_time
  BY <1>4, SimGenAssumption DEF SimInv, TypeOK, TimelineExact
<1>6. /\ TimesExact /\ ProgressForward /\ FullBeforeFinish /\ EventPlace
  BY DEF BarInv
<1>7. ASSUME NEW j \in 1 .. Len(active')
      PROVE  /\ active'[j].progress <= durations[active'[j].id]
             /\ start_times[active'[j].id] + active'[j].progress <= current_time
  <2>1. CASE active'[j].id = event.node /\ active'[j].progress = 0
    <3>1. 0 <= durations[event.node] /\ start_times[event.node] + 0 <= current_time
      BY <1>4, <1>5
    <3> QED
      BY <2>1, <3>1
  <2>2. CASE event.kind = "progress" /\ active'[j].id = event.node /\ active'[j].progress = event.done
    BY <1>6, <2>2 DEF ProgressForward
  <2>3. CASE \E i \in 1 .. Len(active) :
               active'[j].id = active[i].id /\ active'[j].progress = active[i].progress
    BY <1>6, <2>3 DEF TimesExact
  <2> QED
    BY <2>1, <2>2, <2>3, HandleItems
<1>8. TimesExact'
  BY <1>2, <1>6, <1>7 DEF TimesExact, FinishTimes, FinishAt
<1>9. ASSUME pc = "yield_log", NEW j \in 1 .. Len(active'), active'[j].id = idx
      PROVE  active'[j].progress = durations[idx]
  <2>1. event.kind # "started"
    BY <1>6, <1>9 DEF EventPlace
  <2>2. CASE event.kind = "progress" /\ active'[j].id = event.node /\ active'[j].progress = event.done
    BY <1>6, <1>9, <2>2 DEF FullBeforeFinish
  <2>3. CASE \E i \in 1 .. Len(active) :
               /\ active'[j].id = active[i].id
               /\ active'[j].progress = active[i].progress
               /\ event.kind = "progress" => active[i].id # event.node
    <3>1. PICK i \in 1 .. Len(active) :
            /\ active[i].id = idx
            /\ active'[j].progress = active[i].progress
            /\ event.kind = "progress" => active[i].id # event.node
      BY <1>9, <2>3
    <3>2. event.kind # "progress" /\ i \in FindActive(idx)
      BY <1>6, <1>9, <3>1 DEF FullBeforeFinish, FindActive
    <3> QED
      BY <1>6, <1>9, <3>1, <3>2 DEF FullBeforeFinish
  <2> QED
    BY <2>1, <2>2, <2>3, HandleItems
<1>10. FullBeforeFinish' /\ ProgressForward' /\ EventPlace'
  BY <1>2, <1>3, <1>9 DEF FullBeforeFinish, FindActive, ProgressForward, EventPlace
<1> QED
  BY <1>8, <1>10 DEF BarInv

(* A progress bar never moves back, and disappears only when it is full. *)
THEOREM BarsNeverFallBack == TuiSpec => BarsFill
<1>1. TuiInit => BarInv
  <2> SUFFICES ASSUME TuiInit PROVE BarInv
    OBVIOUS
  <2>1. /\ emit_progress /\ timeline = {} /\ pc = "seed" /\ Len(active) = 0 /\ event.kind = "none"
    BY DEF TuiInit, Init, NoEvent
  <2> QED
    BY <2>1 DEF BarInv, TimesExact, FinishTimes, ProgressForward, FullBeforeFinish, EventPlace
<1>2. SimInv /\ TuiInv /\ BarInv /\ [TuiNext]_tuivars => BarInv' /\ [BarStep]_tuivars
  <2> SUFFICES ASSUME SimInv, TuiInv, BarInv, [TuiNext]_tuivars PROVE BarInv' /\ BarStep
    OBVIOUS
  <2>1. \A i \in 1 .. Len(active) : active[i].progress >= active[i].progress
    BY Running
  <2>2. ASSUME active' = active PROVE BarStep
    BY <2>1, <2>2 DEF BarStep
  <2>3. CASE Produce
    BY <2>2, <2>3, ProduceBars DEF Produce, view
  <2>4. CASE Handle
    BY <2>4, HandleItems, HandleBars
  <2>5. ASSUME ~Produce, ~Handle PROVE UNCHANGED <<vars, view>>
    BY <2>5 DEF TuiNext, TuiStep, tuivars, Abandon, Accept, WakeUp, Complete, Close,
                RequestShutdown, Ended
  <2>6. CASE UNCHANGED <<vars, view>>
    <3>1. UNCHANGED <<emit_progress, durations, pc, idx, timeline, start_times, current_time,
                      event, active>>
      BY <2>6 DEF vars, config, work, output, view
    <3>2. BarInv'
      BY <3>1 DEF BarInv, TimesExact, FinishTimes, FinishAt, ProgressForward,
                  FullBeforeFinish, FindActive, EventPlace
    <3> QED
      BY <2>2, <3>1, <3>2
  <2> QED
    BY <2>3, <2>4, <2>5, <2>6
<1>3. TuiSpec => [](SimInv /\ TuiInv /\ BarInv)
  BY <1>1, <1>2, TaskInvariant, PTL DEF TuiSpec
<1>4. [][BarStep]_tuivars => BarsFill
  BY DEF BarStep, BarsFill
<1> QED
  BY <1>2, <1>3, <1>4, PTL DEF TuiSpec
=============================================================================
