------------------------- MODULE ParallelRead_proof -------------------------
(***************************************************************************)
(* What a thread reads of a value is what the value's expression evaluates *)
(* to, and some thread can always go on, for any expressions, workers and  *)
(* domains.                                                                *)
(***************************************************************************)
EXTENDS ParallelEval_proof

-----------------------------------------------------------------------------
(* The invariant                                                           *)

Todo(f) == {f.todo[i] : i \in 1..Len(f.todo)}

(* What a frame has forced is good, but for what the frame above it is.    *)
Chain(s) ==
    \A k \in 1..Len(s) : s[k].v # NoValue =>
        /\ Todo(s[k]) \subseteq Forces(s[k].v)
        /\ k < Len(s) => /\ s[k + 1].v \in Forces(s[k].v)
                         /\ Forces(s[k].v) \subseteq Good \cup Todo(s[k]) \cup {s[k + 1].v}

(* The outcome of v: its word, and whether it is good.                     *)
Settled(v, exc, word) ==
    /\ exc = "none" => word = "value" /\ v \in Good
    /\ exc = "error" => word = "error" /\ v \notin Good
    /\ exc = "interrupted" => word = "interrupted"

Seeking == {"load", "cas", "got"} \cup Waiting

(* The frame f on top of the thread r.                                     *)
TopReads(f, r, w1) ==
    f.v # NoValue =>
        /\ r.pc \in Seeking => /\ r.at \in Forces(f.v)
                               /\ Forces(f.v) \subseteq Good \cup Todo(f) \cup {r.at}
        /\ r.pc = "eval" \/ (r.pc = "notify" /\ r.exc = "none") =>
             Forces(f.v) \subseteq Good \cup Todo(f)
        /\ r.pc \in {"throw", "notify"} /\ r.exc = "error" => f.v \notin Good
        /\ r.pc = "finish" => Settled(f.v, r.exc, w1[f.v])

(* The exception in flight.                                                *)
ExcReads(r, cut) ==
    r.pc \in {"throw", "notify", "finish"} =>
        r.exc \in {"none", "error", "interrupted"} /\ (r.exc = "interrupted" => cut)

(* What has been read of p0 is still so, or concerns the thread itself.    *)
SeekReads(t, r, w0) ==
    /\ r.pc = "got" => Final(r.read) /\ w0[r.at].pd = r.read.pd
    /\ r.pc = "wait" /\ r.read.by = t => r.at \in On(r.stack)

LastReads(g, cut) ==
    /\ g[2] = "done" => g[1] \in Good /\ g[3] = "value"
    /\ g[2] = "failed" => \/ g[3] = "error" /\ g[1] \notin Good
                          \/ g[3] = "interrupted" /\ cut

Reads(t, r, w0, w1, cut) ==
    /\ Chain(r.stack)
    /\ r.pc \in Running => TopReads(r.stack[Len(r.stack)], r, w1)
    /\ ExcReads(r, cut) /\ SeekReads(t, r, w0) /\ LastReads(r.got, cut)

WordsRead(w0, w1, cut) ==
    \A v \in Values :
        /\ w0[v].pd = "done" => w1[v] = "value" /\ v \in Good
        /\ w0[v].pd = "failed" => \/ w1[v] = "error" /\ v \notin Good
                                  \/ w1[v] = "interrupted" /\ cut

Cut == interrupted \/ quit

ReadInv ==
    ~stolen => /\ WordsRead(p0, p1, Cut)
               /\ \A t \in Threads : Reads(t, th[t], p0, p1, Cut)

-----------------------------------------------------------------------------
(* Good thunks                                                             *)

LEMMA GoodUnfolds ==
    ASSUME NEW v \in Good
    PROVE  v \in Values \ scene.broken /\ Forces(v) \subseteq Good
<1>1. Closed(Good)
  BY DEF Good, Closed
<1>2. v \in Values /\ \A S \in SUBSET Values : Closed(S) => v \in S
  BY DEF Good
<1>3. ASSUME v \in scene.broken \/ ~(Forces(v) \subseteq Good) PROVE FALSE
  <2>1. Good \ {v} \in SUBSET Values
    BY DEF Good
  <2>2. Closed(Good \ {v})
    BY <1>1, <1>3 DEF Closed
  <2> QED
    BY <1>2, <2>1, <2>2
<1> QED
  BY <1>2, <1>3

LEMMA GoodFolds ==
    ASSUME NEW v \in Values \ scene.broken, Forces(v) \subseteq Good
    PROVE  v \in Good
BY DEF Good, Closed

(* What depends on itself has no value.                                    *)
LEMMA GoodLoop ==
    ASSUME NEW C \in SUBSET Values, \A v \in C : \E u \in C : u \in Forces(v)
    PROVE  \A v \in C : v \notin Good
<1>1. Closed(Values \ C) /\ Values \ C \in SUBSET Values
  BY DEF Closed
<1> QED
  BY <1>1 DEF Good

LEMMA ForcesValues == ASSUME World, NEW v \in Values PROVE Forces(v) \subseteq Values
<1>1. scene.exprs[v] \in Seq(Values)
  BY EvalAssumption DEF World
<1>2. \A i \in 1..Len(scene.exprs[v]) : scene.exprs[v][i] \in Values
  BY <1>1, ElementOfSeq
<1> QED
  BY <1>2 DEF Forces

-----------------------------------------------------------------------------
(* Chains of frames                                                        *)

LEMMA ChainPush ==
    ASSUME NEW s, Stack(s), s # <<>>, Chain(s), NEW f \in Frame, Todo(f) \subseteq Forces(f.v),
           s[Len(s)].v # NoValue =>
               /\ f.v \in Forces(s[Len(s)].v)
               /\ Forces(s[Len(s)].v) \subseteq Good \cup Todo(s[Len(s)]) \cup {f.v}
    PROVE  Chain(Append(s, f)) /\ Append(s, f)[Len(Append(s, f))] = f
<1> DEFINE n == Len(s)
           u == Append(s, f)
<1>1. /\ s \in Seq(Frame) /\ n \in Nat
      /\ s[n].v # NoValue =>
           /\ f.v \in Forces(s[n].v)
           /\ Forces(s[n].v) \subseteq Good \cup Todo(s[n]) \cup {f.v}
  BY LenProperties DEF Stack
<1>2. Len(u) = n + 1 /\ u[n + 1] = f /\ \A k \in 1..n : u[k] = s[k]
  BY <1>1, AppendProperties
<1>3. \A k \in 1..n : s[k].v # NoValue =>
        /\ Todo(s[k]) \subseteq Forces(s[k].v)
        /\ k < n => /\ s[k + 1].v \in Forces(s[k].v)
                    /\ Forces(s[k].v) \subseteq Good \cup Todo(s[k]) \cup {s[k + 1].v}
  BY DEF Chain
<1> HIDE DEF n, u
<1>4. ASSUME NEW k \in 1..(n + 1), u[k].v # NoValue
      PROVE  /\ Todo(u[k]) \subseteq Forces(u[k].v)
             /\ k < n + 1 => /\ u[k + 1].v \in Forces(u[k].v)
                             /\ Forces(u[k].v) \subseteq Good \cup Todo(u[k]) \cup {u[k + 1].v}
  <2>1. CASE k = n + 1
    BY <1>1, <1>2, <2>1
  <2>2. CASE k = n
    <3>1. k \in 1..n
      BY <1>1, <2>2
    <3>2. u[k] = s[n] /\ u[k + 1] = f
      BY <1>2, <2>2, <3>1
    <3>3. Todo(s[n]) \subseteq Forces(s[n].v)
      BY <1>3, <1>4, <2>2, <3>1, <3>2
    <3> QED
      BY <1>1, <1>4, <3>2, <3>3
  <2>3. CASE k < n
    <3>1. k \in 1..n /\ k + 1 \in 1..n
      BY <1>1, <2>3
    <3>2. u[k] = s[k] /\ u[k + 1] = s[k + 1]
      BY <1>2, <3>1
    <3> QED
      BY <1>3, <1>4, <2>3, <3>1, <3>2
  <2> QED
    BY <1>1, <2>1, <2>2, <2>3
<1> QED
  BY <1>2, <1>4 DEF Chain, u

LEMMA ChainPop ==
    ASSUME NEW s, Stack(s), s # <<>>, s[Len(s)].v # NoValue, Chain(s)
    PROVE  /\ Chain(Pop(s))
           /\ Pop(s)[Len(Pop(s))].v # NoValue =>
                LET f == Pop(s)[Len(Pop(s))]
                IN  /\ s[Len(s)].v \in Forces(f.v)
                    /\ Forces(f.v) \subseteq Good \cup Todo(f) \cup {s[Len(s)].v}
<1> DEFINE n == Len(s)
           u == Pop(s)
<1>1. s \in Seq(Frame) /\ n \in Nat /\ n > 1
  BY EmptySeq, LenProperties DEF Stack
<1>2. Len(u) = n - 1 /\ \A k \in 1..(n - 1) : u[k] = s[k]
  BY <1>1, SubSeqProperties DEF Pop
<1>3. \A k \in 1..n : s[k].v # NoValue =>
        /\ Todo(s[k]) \subseteq Forces(s[k].v)
        /\ k < n => /\ s[k + 1].v \in Forces(s[k].v)
                    /\ Forces(s[k].v) \subseteq Good \cup Todo(s[k]) \cup {s[k + 1].v}
  BY DEF Chain
<1> HIDE DEF n, u
<1>4. ASSUME NEW k \in 1..(n - 1), u[k].v # NoValue
      PROVE  /\ Todo(u[k]) \subseteq Forces(u[k].v)
             /\ s[k + 1].v \in Forces(u[k].v)
             /\ Forces(u[k].v) \subseteq Good \cup Todo(u[k]) \cup {s[k + 1].v}
  <2>1. k \in 1..n /\ k < n
    BY <1>1
  <2> QED
    BY <1>2, <1>3, <1>4, <2>1
<1>5. \A k \in 1..(n - 1) : k < n - 1 => u[k + 1] = s[k + 1]
  BY <1>1, <1>2
<1>6. Chain(u)
  BY <1>2, <1>4, <1>5 DEF Chain
<1>7. n - 1 \in 1..(n - 1) /\ (n - 1) + 1 = n
  BY <1>1
<1>8. u[n - 1].v # NoValue =>
        /\ s[n].v \in Forces(u[n - 1].v)
        /\ Forces(u[n - 1].v) \subseteq Good \cup Todo(u[n - 1]) \cup {s[n].v}
  BY <1>4, <1>7
<1> QED
  BY <1>2, <1>6, <1>8 DEF n, u

LEMMA ChainAdvance ==
    ASSUME NEW s, Stack(s), s # <<>>, s[Len(s)].todo # <<>>, Chain(s),
           NEW u, u = [s EXCEPT ![Len(s)].todo = Tail(@)]
    PROVE  /\ Chain(u) /\ u[Len(u)].v = s[Len(s)].v
           /\ Todo(s[Len(s)]) = Todo(u[Len(u)]) \cup {Head(s[Len(s)].todo)}
<1> DEFINE n == Len(s)
           l == s[n].todo
           f == [s[n] EXCEPT !.todo = Tail(@)]
<1>1. s \in Seq(Frame) /\ n \in Nat /\ n \in 1..n
  BY EmptySeq, LenProperties DEF Stack
<1>2. s[n] \in Frame
  BY <1>1, ElementOfSeq
<1>3. l \in Seq(Values) /\ Tail(l) \in Seq(Values)
  BY <1>2, HeadTailProperties DEF Frame
<1>4. f \in Frame /\ f.v = s[n].v /\ f.todo = Tail(l)
  BY <1>2, <1>3 DEF Frame
<1>5. Todo(s[n]) = Todo(f) \cup {Head(l)}
  <2> DEFINE t == Tail(l)
             m == Len(l)
  <2>1. /\ m \in Nat /\ m >= 1 /\ Head(l) = l[1] /\ Len(t) = m - 1
        /\ \A i \in 1..(m - 1) : t[i] = l[i + 1]
    BY <1>3, HeadTailProperties, LenProperties, EmptySeq
  <2> HIDE DEF t, m
  <2>2. \A x : (\E i \in 1..m : l[i] = x) <=> (x = l[1] \/ \E i \in 1..(m - 1) : t[i] = x)
    <3> SUFFICES ASSUME NEW x
                 PROVE  (\E i \in 1..m : l[i] = x) <=> (x = l[1] \/ \E i \in 1..(m - 1) : t[i] = x)
      OBVIOUS
    <3>1. ASSUME NEW i \in 1..m, l[i] = x, i # 1 PROVE \E j \in 1..(m - 1) : t[j] = x
      <4>1. i - 1 \in 1..(m - 1) /\ (i - 1) + 1 = i
        BY <2>1, <3>1
      <4> QED
        BY <2>1, <3>1, <4>1
    <3>2. ASSUME NEW i \in 1..(m - 1), t[i] = x PROVE \E j \in 1..m : l[j] = x
      <4>1. i + 1 \in 1..m
        BY <2>1
      <4> QED
        BY <2>1, <3>2, <4>1
    <3>3. 1 \in 1..m
      BY <2>1
    <3> QED
      BY <3>1, <3>2, <3>3
  <2>3. Todo(s[n]) = {l[i] : i \in 1..m} /\ Todo(f) = {t[i] : i \in 1..(m - 1)}
    BY <1>4, <2>1 DEF Todo, t, m
  <2>4. {l[i] : i \in 1..m} = {t[i] : i \in 1..(m - 1)} \cup {l[1]}
    BY <2>2
  <2> HIDE DEF l
  <2> QED
    BY <2>1, <2>3, <2>4
<1>6. /\ Len(u) = n /\ \A k \in 1..n : u[k] = IF k = n THEN f ELSE s[k]
  <2>1. u = [s EXCEPT ![n] = f]
    OBVIOUS
  <2> HIDE DEF f
  <2>2. /\ Len(u) = n /\ \A k \in 1..n : u[k] = IF k = n THEN f ELSE s[k]
    BY ONLY <1>1, <1>4, <2>1, ExceptSeq
  <2> QED
    BY <2>2
<1>7. \A k \in 1..n : s[k].v # NoValue =>
        /\ Todo(s[k]) \subseteq Forces(s[k].v)
        /\ k < n => /\ s[k + 1].v \in Forces(s[k].v)
                    /\ Forces(s[k].v) \subseteq Good \cup Todo(s[k]) \cup {s[k + 1].v}
  BY DEF Chain
<1> HIDE DEF n, l, f
<1>8. ASSUME NEW k \in 1..n, u[k].v # NoValue
      PROVE  /\ Todo(u[k]) \subseteq Forces(u[k].v)
             /\ k < n => /\ u[k + 1].v \in Forces(u[k].v)
                         /\ Forces(u[k].v) \subseteq Good \cup Todo(u[k]) \cup {u[k + 1].v}
  <2>1. CASE k = n
    <3>1. u[k] = f /\ f.v = s[n].v /\ ~(k < n)
      BY <1>1, <1>4, <1>6, <2>1
    <3>2. Todo(s[n]) \subseteq Forces(s[n].v)
      BY <1>1, <1>7, <1>8, <3>1
    <3>3. Todo(f) \subseteq Todo(s[n])
      BY <1>5
    <3> QED
      BY <3>1, <3>2, <3>3
  <2>2. CASE k # n
    <3>1. k + 1 \in 1..n /\ k < n
      BY <1>1, <2>2
    <3>2. u[k] = s[k] /\ u[k + 1].v = s[k + 1].v
      BY <1>4, <1>6, <2>2, <3>1
    <3> QED
      BY <1>7, <1>8, <3>1, <3>2
  <2> QED
    BY <2>1, <2>2
<1>9. Chain(u)
  BY <1>6, <1>8 DEF Chain
<1>10. u[n] = f /\ Len(u) = n
  BY <1>1, <1>6
<1> QED
  BY <1>4, <1>5, <1>9, <1>10 DEF n, l

-----------------------------------------------------------------------------
(* What a step of one thread leaves to the others                          *)

LEMMA Primed ==
    ASSUME scene' = scene,
           ~stolen' => /\ WordsRead(p0', p1', Cut')
                       /\ \A t \in Threads : Reads(t, th'[t], p0', p1', Cut')
    PROVE  ReadInv'
<1>1. Good' = Good /\ \A v : Forces(v)' = Forces(v)
  BY DEF Good, Closed, Forces
<1>2. WordsRead(p0', p1', Cut') => WordsRead(p0, p1, Cut)'
  BY <1>1 DEF WordsRead
<1>3. ASSUME NEW t \in Threads, Reads(t, th'[t], p0', p1', Cut')
      PROVE  Reads(t, th[t], p0, p1, Cut)'
  <2>1. Chain(th[t].stack)'
    BY <1>1, <1>3 DEF Reads, Chain
  <2>2. th'[t].pc \in Running => TopReads(th[t].stack[Len(th[t].stack)], th[t], p1)'
    BY <1>1, <1>3 DEF Reads, TopReads, Settled
  <2>3. ExcReads(th[t], Cut)' /\ SeekReads(t, th[t], p0)' /\ LastReads(th[t].got, Cut)'
    BY <1>1, <1>3 DEF Reads, ExcReads, SeekReads, LastReads, Final, On
  <2> QED
    BY <2>1, <2>2, <2>3 DEF Reads
<1> QED
  BY <1>2, <1>3 DEF ReadInv

LEMMA StillReads ==
    ASSUME NEW t, NEW r, NEW w0, NEW w1, NEW c, NEW x0, NEW x1, NEW d,
           Reads(t, r, w0, w1, c), c => d,
           r.pc = "got" => x0[r.at].pd = w0[r.at].pd,
           r.pc = "finish" => x1[r.stack[Len(r.stack)].v] = w1[r.stack[Len(r.stack)].v]
    PROVE  Reads(t, r, x0, x1, d)
<1>1. ExcReads(r, d) /\ LastReads(r.got, d)
  BY DEF Reads, ExcReads, LastReads
<1>2. SeekReads(t, r, x0)
  BY DEF Reads, SeekReads
<1>3. r.pc \in Running => TopReads(r.stack[Len(r.stack)], r, x1)
  BY DEF Reads, TopReads
<1> QED
  BY <1>1, <1>2, <1>3 DEF Reads

LEMMA WokenReads ==
    ASSUME NEW t, NEW r \in ThreadType, NEW w0, NEW w1, NEW c, NEW e, Reads(t, r, w0, w1, c)
    PROVE  Reads(t, Woken(e, r), w0, w1, c)
<1> DEFINE u == [r EXCEPT !.pc = "woken"]
<1>1. CASE Woken(e, r) = r
  BY <1>1
<1>2. CASE r.pc = "asleep" /\ Woken(e, r) = u
  <2>1. /\ u.pc = "woken" /\ u.stack = r.stack /\ u.at = r.at /\ u.exc = r.exc /\ u.got = r.got
        /\ u.read = r.read
    BY DEF ThreadType
  <2> HIDE DEF u
  <2>2. TopReads(r.stack[Len(r.stack)], r, w1)
    BY <1>2 DEF Reads, Running, Forcing, Waiting
  <2>3. TopReads(u.stack[Len(u.stack)], u, w1)
    BY <1>2, <2>1, <2>2 DEF TopReads, Seeking, Waiting
  <2>4. ExcReads(u, c) /\ SeekReads(t, u, w0)
    BY <2>1 DEF ExcReads, SeekReads
  <2>5. Reads(t, u, w0, w1, c)
    BY <2>1, <2>3, <2>4 DEF Reads
  <2> QED
    BY <1>2, <2>5
<1> QED
  BY <1>1, <1>2 DEF Woken

(* The top of a thread's stack, if it is a value, is its own.              *)
LEMMA TopIsMine ==
    ASSUME EvalInv, ~stolen, NEW t \in Threads, th[t].pc \in Running
    PROVE  /\ th[t].stack # <<>> /\ Stack(th[t].stack) /\ Top(t) \in Frame
           /\ Top(t) = th[t].stack[Len(th[t].stack)]
           /\ Top(t).v # NoValue => Top(t).v \in Values /\ Top(t).v \in Mine(t)
<1>1. ThreadOK(th[t]) /\ th[t].stack # <<>> /\ Stack(th[t].stack)
  BY TheThread DEF ThreadOK
<1>2. Top(t) \in Frame /\ Top(t) = th[t].stack[Len(th[t].stack)]
  BY <1>1, TheTop
<1>3. ASSUME Top(t).v # NoValue PROVE Top(t).v \in Values /\ Top(t).v \in Mine(t)
  <2>1. Len(th[t].stack) \in 1..Len(th[t].stack)
    BY <1>1, EmptySeq, LenProperties DEF Stack
  <2>2. Top(t).v \in On(th[t].stack)
    BY <1>2, <1>3, <2>1 DEF On
  <2>3. On(th[t].stack) = Mine(t)
    BY DEF EvalInv, OwnInv
  <2> QED
    BY <2>2, <2>3 DEF Mine
<1> QED
  BY <1>1, <1>2, <1>3

(* A step of the thread t alone.                                           *)
LEMMA OneReads ==
    ASSUME EvalInv, ReadInv, ~stolen, scene' = scene, Cut => Cut', NEW t \in Threads, NEW r,
           th' = [th EXCEPT ![t] = r], Reads(t, r, p0', p1', Cut'), WordsRead(p0', p1', Cut'),
           \A v \in Values : Final(p0[v]) => p0'[v] = p0[v],
           \A v \in Values : v \notin Mine(t) => p1'[v] = p1[v]
    PROVE  ReadInv'
<1>1. \A s \in Threads : th'[s] = IF s = t THEN r ELSE th[s]
  BY DEF EvalInv
<1>2. ASSUME NEW s \in Threads, s # t PROVE Reads(s, th[s], p0', p1', Cut')
  <2>1. Reads(s, th[s], p0, p1, Cut) /\ ThreadOK(th[s])
    BY TheThread DEF ReadInv
  <2>2. ASSUME th[s].pc = "got" PROVE p0'[th[s].at].pd = p0[th[s].at].pd
    <3>1. th[s].at \in Values /\ Final(th[s].read) /\ p0[th[s].at].pd = th[s].read.pd
      BY <2>1, <2>2 DEF Reads, SeekReads, ThreadOK, Forcing
    <3>2. Final(p0[th[s].at])
      BY <3>1 DEF Final
    <3> QED
      BY <3>1, <3>2
  <2>3. ASSUME th[s].pc = "finish"
        PROVE  p1'[th[s].stack[Len(th[s].stack)].v] = p1[th[s].stack[Len(th[s].stack)].v]
    <3>1. th[s].pc \in Running /\ th[s].stack[Len(th[s].stack)].v # NoValue
      BY <2>1, <2>3 DEF Running, ThreadOK
    <3>2. Top(s) = th[s].stack[Len(th[s].stack)] /\ Top(s).v \in Values /\ Top(s).v \in Mine(s)
      BY <3>1, TopIsMine
    <3>3. Top(s).v \notin Mine(t)
      BY <1>2, <3>2 DEF Mine
    <3> QED
      BY <3>2, <3>3
  <2> QED
    BY <2>1, <2>2, <2>3, StillReads
<1>3. \A s \in Threads : Reads(s, th'[s], p0', p1', Cut')
  BY <1>1, <1>2
<1> QED
  BY <1>3, Primed

(* The same when the words stay as they are.                               *)
LEMMA QuietReads ==
    ASSUME EvalInv, ReadInv, ~stolen, UNCHANGED <<scene, p0, p1>>, Cut => Cut', NEW t \in Threads,
           NEW r, th' = [th EXCEPT ![t] = r], Reads(t, r, p0, p1, Cut)
    PROVE  ReadInv'
<1>1. Reads(t, r, p0', p1', Cut')
  BY StillReads
<1>2. WordsRead(p0', p1', Cut')
  BY DEF ReadInv, WordsRead
<1> QED
  BY <1>1, <1>2, OneReads

(* What is known of a thread.                                              *)
LEMMA ReadsOf ==
    ASSUME EvalInv, ReadInv, ~stolen, NEW t \in Threads
    PROVE  /\ ThreadOK(th[t]) /\ th[t] \in ThreadType /\ World
           /\ Reads(t, th[t], p0, p1, Cut) /\ WordsRead(p0, p1, Cut)
           /\ Chain(th[t].stack) /\ LastReads(th[t].got, Cut)
           /\ ExcReads(th[t], Cut) /\ SeekReads(t, th[t], p0)
           /\ th[t].pc \in Running => TopReads(Top(t), th[t], p1)
<1>1. ThreadOK(th[t]) /\ th[t] \in ThreadType /\ World
  BY TheThread
<1>2. Reads(t, th[t], p0, p1, Cut) /\ WordsRead(p0, p1, Cut)
  BY DEF ReadInv
<1>3. th[t].pc \in Running => TopReads(Top(t), th[t], p1)
  BY <1>2, TopIsMine DEF Reads
<1> QED
  BY <1>1, <1>2, <1>3 DEF Reads

-----------------------------------------------------------------------------
(* The steps                                                               *)

LEMMA ReadInit == Init => ReadInv
<1> SUFFICES ASSUME Init PROVE ReadInv
  OBVIOUS
<1>1. EvalInv /\ p0 = [v \in Values |-> [pd |-> "thunk", by |-> NoThread]]
  BY EvalInit DEF Init
<1>2. WordsRead(p0, p1, Cut)
  BY <1>1 DEF WordsRead
<1>3. ASSUME NEW t \in Threads PROVE Reads(t, th[t], p0, p1, Cut)
  <2>1. /\ th[t].pc \in {"idle", "eval"} /\ th[t].got = <<NoValue, "none", "none">>
        /\ th[t].stack = <<>> \/ th[t].stack = <<[v |-> NoValue, todo |-> scene.roots]>>
        /\ th[t].pc = "eval" => th[t].stack = <<[v |-> NoValue, todo |-> scene.roots]>>
    BY DEF Init, NewThread
  <2>2. Chain(th[t].stack)
    BY <2>1 DEF Chain
  <2>3. th[t].pc \in Running => TopReads(th[t].stack[Len(th[t].stack)], th[t], p1)
    BY <2>1 DEF TopReads, Running, Forcing, Waiting
  <2>4. ExcReads(th[t], Cut) /\ SeekReads(t, th[t], p0) /\ LastReads(th[t].got, Cut)
    BY <2>1 DEF ExcReads, SeekReads, LastReads
  <2> QED
    BY <2>2, <2>3, <2>4 DEF Reads
<1> QED
  BY <1>2, <1>3 DEF ReadInv

LEMMA ForceNextReads ==
    ASSUME EvalInv, ReadInv, ~stolen, NEW t \in Threads, ForceNext(t) PROVE ReadInv'
<1> DEFINE s == th[t].stack
           u == [s EXCEPT ![Len(s)].todo = Tail(@)]
           a == Head(Top(t).todo)
           r == [th[t] EXCEPT !.pc = "load", !.at = a, !.stack = u]
<1>1. th[t].pc = "eval" /\ th[t].pc \in Running /\ Top(t).todo # <<>>
  BY DEF ForceNext, At, Running
<1>2. /\ Stack(s) /\ s # <<>> /\ Top(t) = s[Len(s)] /\ Chain(s) /\ LastReads(th[t].got, Cut)
      /\ th[t] \in ThreadType /\ TopReads(Top(t), th[t], p1)
  BY <1>1, ReadsOf, TopIsMine
<1>3. /\ Chain(u) /\ u[Len(u)].v = Top(t).v /\ Todo(Top(t)) = Todo(u[Len(u)]) \cup {a}
  BY <1>1, <1>2, ChainAdvance
<1>4. th' = [th EXCEPT ![t] = r] /\ UNCHANGED <<scene, p0, p1, interrupted, quit>>
  BY DEF ForceNext, Become, words, pool, signal
<1> HIDE DEF u, a
<1>5. r.pc = "load" /\ r.at = a /\ r.stack = u /\ r.got = th[t].got
  BY <1>2 DEF ThreadType
<1> HIDE DEF r
<1>6. Top(t).v # NoValue => /\ Forces(Top(t).v) \subseteq Good \cup Todo(Top(t))
                            /\ Todo(Top(t)) \subseteq Forces(Top(t).v)
  <2>1. s # <<>> => Len(s) \in 1..Len(s)
    BY <1>2, EmptySeq, LenProperties DEF Stack
  <2> QED
    BY <1>1, <1>2, <2>1 DEF TopReads, Chain
<1>7. TopReads(u[Len(u)], r, p1)
  BY <1>3, <1>5, <1>6 DEF TopReads, Seeking
<1>8. Reads(t, r, p0, p1, Cut)
  BY <1>2, <1>3, <1>5, <1>7 DEF Reads, ExcReads, SeekReads
<1> QED
  BY <1>4, <1>8, QuietReads DEF Cut

LEMMA EvalInterruptedReads ==
    ASSUME EvalInv, ReadInv, ~stolen, NEW t \in Threads, EvalInterrupted(t) PROVE ReadInv'
<1> DEFINE r == [th[t] EXCEPT !.pc = "throw", !.exc = "interrupted"]
<1>1. Cut /\ th[t].pc = "eval"
  BY DEF EvalInterrupted, Interrupted, Cut, At
<1>2. th' = [th EXCEPT ![t] = r] /\ UNCHANGED <<scene, p0, p1, interrupted, quit>>
  BY DEF EvalInterrupted, Throw, words, pool, signal
<1>3. Chain(th[t].stack) /\ LastReads(th[t].got, Cut) /\ th[t] \in ThreadType
  BY ReadsOf
<1>4. r.pc = "throw" /\ r.exc = "interrupted" /\ r.stack = th[t].stack /\ r.got = th[t].got
  BY <1>3 DEF ThreadType
<1> HIDE DEF r
<1>5. TopReads(r.stack[Len(r.stack)], r, p1)
  BY <1>4 DEF TopReads, Seeking, Waiting
<1>6. Reads(t, r, p0, p1, Cut)
  BY <1>1, <1>3, <1>4, <1>5 DEF Reads, ExcReads, SeekReads
<1> QED
  BY <1>2, <1>6, QuietReads DEF Cut

LEMMA EvaluatedReads ==
    ASSUME EvalInv, ReadInv, ~stolen, NEW t \in Threads, Evaluated(t) PROVE ReadInv'
<1> DEFINE v == Top(t).v
<1>1. th[t].pc = "eval" /\ th[t].pc \in Running /\ Top(t).todo = <<>> /\ v # NoValue
  BY DEF Evaluated, At, Running
<1>2. /\ th[t] \in ThreadType /\ TopReads(Top(t), th[t], p1) /\ Chain(th[t].stack)
      /\ LastReads(th[t].got, Cut) /\ WordsRead(p0, p1, Cut) /\ World
      /\ Top(t) = th[t].stack[Len(th[t].stack)] /\ v \in Values /\ v \in Mine(t)
  BY <1>1, ReadsOf, TopIsMine
<1>3. Todo(Top(t)) = {}
  BY <1>1 DEF Todo
<1>4. Forces(v) \subseteq Good
  BY <1>1, <1>2, <1>3 DEF TopReads
<1>5. v \in Good <=> v \notin scene.broken
  BY <1>2, <1>4, GoodFolds, GoodUnfolds
<1>6. UNCHANGED <<scene, p0, interrupted, quit>>
  BY DEF Evaluated, words, pool, signal
<1>7. CASE v \in scene.broken
  <2> DEFINE r == [th[t] EXCEPT !.pc = "throw", !.exc = "error"]
  <2>1. th' = [th EXCEPT ![t] = r] /\ p1' = p1
    BY <1>7 DEF Evaluated, Throw, words
  <2>2. r.pc = "throw" /\ r.exc = "error" /\ r.stack = th[t].stack /\ r.got = th[t].got
    BY <1>2 DEF ThreadType
  <2> HIDE DEF r
  <2>3. TopReads(Top(t), r, p1)
    BY <1>5, <1>7, <2>2 DEF TopReads, Seeking, Waiting
  <2>4. Reads(t, r, p0, p1, Cut)
    BY <1>2, <2>2, <2>3 DEF Reads, ExcReads, SeekReads
  <2> QED
    BY <1>6, <2>1, <2>4, QuietReads DEF Cut
<1>8. CASE v \notin scene.broken
  <2> DEFINE r == [th[t] EXCEPT !.pc = "finish", !.exc = "none"]
  <2>1. th' = [th EXCEPT ![t] = r] /\ p1' = [p1 EXCEPT ![v] = "value"]
    BY <1>8 DEF Evaluated, Become
  <2>2. r.pc = "finish" /\ r.exc = "none" /\ r.stack = th[t].stack /\ r.got = th[t].got
    BY <1>2 DEF ThreadType
  <2> HIDE DEF r
  <2>3. \A x \in Values : p1'[x] = IF x = v THEN "value" ELSE p1[x]
    BY <1>2, <2>1 DEF World
  <2>4. TopReads(Top(t), r, p1')
    BY <1>2, <1>5, <1>8, <2>2, <2>3 DEF TopReads, Seeking, Waiting, Settled
  <2>5. Reads(t, r, p0', p1', Cut)
    BY <1>2, <2>2, <2>4 DEF Reads, ExcReads, SeekReads
  <2>6. Cut' = Cut
    BY <1>6 DEF Cut
  <2>7. p0[v].pd \notin {"done", "failed"}
    BY <1>2 DEF Mine, Busy
  <2>8. WordsRead(p0', p1', Cut')
    BY <1>2, <1>6, <2>3, <2>6, <2>7 DEF WordsRead
  <2>9. \A x \in Values : /\ Final(p0[x]) => p0'[x] = p0[x]
                          /\ x \notin Mine(t) => p1'[x] = p1[x]
    BY <1>2, <1>6, <2>3
  <2> QED
    BY <1>6, <2>1, <2>5, <2>6, <2>8, <2>9, OneReads
<1> QED
  BY <1>7, <1>8

(* A thread that looks at the word of the value it forces, which is not a  *)
(* thunk, and finds it final or is going to wait for it.                   *)
LEMMA LooksReads ==
    ASSUME EvalInv, ReadInv, ~stolen, NEW t \in Threads, UNCHANGED <<scene, p0, p1, interrupted, quit>>,
           th[t].pc \in {"load", "cas"} \cup Waiting, NEW r \in ThreadType,
           th' = [th EXCEPT ![t] = r], r.at = th[t].at, r.stack = th[t].stack, r.got = th[t].got,
           \/ r.pc = "cas" \/ r.pc = "sleep" \/ r.pc = "asleep"
           \/ r.pc = "got" /\ Final(p0[r.at]) /\ r.read = p0[r.at]
           \/ r.pc = "wait" /\ ~Final(p0[r.at]) /\ p0[r.at].pd # "thunk" /\ r.read = p0[r.at]
    PROVE  ReadInv'
<1>1. th[t].pc \in Running /\ th[t].pc \in Seeking /\ th[t].pc \in Forcing
  BY DEF Running, Forcing, Seeking
<1>2. r.pc \in Seeking /\ r.pc # "notify" /\ r.pc \notin {"eval", "throw", "finish"}
  BY DEF Seeking, Waiting
<1>3. /\ ThreadOK(th[t]) /\ TopReads(Top(t), th[t], p1) /\ Chain(th[t].stack)
      /\ LastReads(th[t].got, Cut) /\ World /\ Top(t) = th[t].stack[Len(th[t].stack)]
  BY <1>1, ReadsOf, TopIsMine
<1>4. th[t].at \in Values
  BY <1>1, <1>3 DEF ThreadOK
<1>5. TopReads(Top(t), r, p1)
  BY <1>1, <1>2, <1>3 DEF TopReads
<1>6. ASSUME r.pc = "wait", r.read.by = t PROVE r.at \in On(r.stack)
  <2>1. p0[r.at].pd \in Busy /\ p0[r.at].by = t
    BY <1>3, <1>4, <1>6 DEF World, Word0, Busy, Final
  <2>2. r.at \in Mine(t)
    BY <1>4, <2>1 DEF Mine
  <2> QED
    BY <2>2 DEF EvalInv, OwnInv
<1>7. SeekReads(t, r, p0)
  BY <1>6 DEF SeekReads
<1>8. Reads(t, r, p0, p1, Cut)
  BY <1>2, <1>3, <1>5, <1>7 DEF Reads, ExcReads
<1> QED
  BY <1>8, QuietReads DEF Cut

LEMMA LoadReads ==
    ASSUME EvalInv, ReadInv, ~stolen, NEW t \in Threads, Load(t) PROVE ReadInv'
<1> DEFINE x == p0[th[t].at]
           pc == IF x.pd = "thunk" THEN "cas" ELSE IF Final(x) THEN "got" ELSE "wait"
           r == [th[t] EXCEPT !.read = x, !.inTry = FALSE, !.pc = pc]
<1>1. ThreadOK(th[t]) /\ th[t] \in ThreadType /\ World /\ th[t].pc = "load" /\ th[t].at \in Values
  BY TheThread DEF Load, At, ThreadOK, Forcing
<1>2. x \in Word0
  BY <1>1 DEF World
<1>3. th' = [th EXCEPT ![t] = r] /\ UNCHANGED <<scene, p0, p1, interrupted, quit>>
  BY DEF Load, Become, words, pool, signal
<1>4. /\ r \in ThreadType /\ r.at = th[t].at /\ r.stack = th[t].stack /\ r.got = th[t].got
      /\ r.read = x /\ r.pc = pc
  BY <1>1, <1>2 DEF ThreadType, Running, Forcing, Waiting
<1> HIDE DEF r
<1>5. \/ r.pc = "cas"
      \/ r.pc = "got" /\ Final(p0[r.at]) /\ r.read = p0[r.at]
      \/ r.pc = "wait" /\ ~Final(p0[r.at]) /\ p0[r.at].pd # "thunk" /\ r.read = p0[r.at]
  BY <1>4
<1> QED
  BY <1>1, <1>3, <1>4, <1>5, LooksReads

LEMMA ClaimReads ==
    ASSUME EvalInv, ReadInv, ~stolen, NEW t \in Threads, Claim(t) PROVE ReadInv'
<1> DEFINE v == th[t].at
           x == p0[v]
           f == [v |-> v, todo |-> scene.exprs[v]]
           s == th[t].stack
<1>1. /\ ThreadOK(th[t]) /\ th[t] \in ThreadType /\ World /\ th[t].pc = "cas" /\ v \in Values
      /\ th[t].pc \in Running
  BY TheThread DEF Claim, At, ThreadOK, Running, Forcing
<1>2. x \in Word0 /\ UNCHANGED <<scene, p1, interrupted, quit>>
  BY <1>1 DEF World, Claim, pool, signal
<1>3. CASE x.pd # "thunk"
  <2> DEFINE pc == IF Final(x) THEN "got" ELSE "wait"
             r == [th[t] EXCEPT !.read = x, !.inTry = TRUE, !.pc = pc]
  <2>1. th' = [th EXCEPT ![t] = r] /\ p0' = p0
    BY <1>3 DEF Claim, Become
  <2>2. /\ r \in ThreadType /\ r.at = th[t].at /\ r.stack = th[t].stack /\ r.got = th[t].got
        /\ r.read = x /\ r.pc = pc
    BY <1>1, <1>2 DEF ThreadType, Running, Forcing, Waiting
  <2> HIDE DEF r
  <2>3. \/ r.pc = "got" /\ Final(p0[r.at]) /\ r.read = p0[r.at]
        \/ r.pc = "wait" /\ ~Final(p0[r.at]) /\ p0[r.at].pd # "thunk" /\ r.read = p0[r.at]
    BY <1>3, <2>2
  <2> QED
    BY <1>1, <1>2, <2>1, <2>2, <2>3, LooksReads
<1>4. CASE x.pd = "thunk"
  <2> DEFINE u == Append(s, f)
             mine == [pd |-> "pending", by |-> t]
             r == [th[t] EXCEPT !.pc = "eval", !.stack = u]
  <2>1. th' = [th EXCEPT ![t] = r] /\ p0' = [p0 EXCEPT ![v] = mine]
    BY <1>4 DEF Claim, Become
  <2>2. f \in Frame /\ f.v = v /\ v # NoValue /\ Todo(f) = Forces(v)
    BY <1>1, EvalAssumption DEF Frame, World, Todo, Forces
  <2>3. /\ Stack(s) /\ s # <<>> /\ Top(t) = s[Len(s)] /\ Chain(s) /\ LastReads(th[t].got, Cut)
        /\ TopReads(Top(t), th[t], p1) /\ WordsRead(p0, p1, Cut)
    BY <1>1, ReadsOf, TopIsMine
  <2>4. Top(t).v # NoValue => /\ v \in Forces(Top(t).v)
                              /\ Forces(Top(t).v) \subseteq Good \cup Todo(Top(t)) \cup {v}
    BY <1>1, <2>3 DEF TopReads, Seeking
  <2> HIDE DEF f
  <2>5. Chain(u) /\ u[Len(u)] = f
    BY <2>2, <2>3, <2>4, ChainPush
  <2> HIDE DEF u
  <2>6. r.pc = "eval" /\ r.stack = u /\ r.got = th[t].got
    BY <1>1 DEF ThreadType
  <2> HIDE DEF r
  <2>7. TopReads(f, r, p1')
    BY <2>2, <2>6 DEF TopReads, Seeking, Waiting
  <2>8. Reads(t, r, p0', p1', Cut)
    BY <2>3, <2>5, <2>6, <2>7 DEF Reads, ExcReads, SeekReads
  <2>9. \A y \in Values : p0'[y] = IF y = v THEN mine ELSE p0[y]
    BY <1>1, <2>1 DEF World
  <2>10. Cut' = Cut
    BY <1>2 DEF Cut
  <2>11. WordsRead(p0', p1', Cut')
    BY <1>2, <2>3, <2>9, <2>10 DEF WordsRead
  <2>12. \A y \in Values : Final(p0[y]) => p0'[y] = p0[y]
    BY <1>4, <2>9 DEF Final
  <2> QED
    BY <1>2, <2>1, <2>8, <2>10, <2>11, <2>12, OneReads
<1> QED
  BY <1>3, <1>4

LEMMA GotReads ==
    ASSUME EvalInv, ReadInv, ~stolen, NEW t \in Threads, Got(t) PROVE ReadInv'
<1> DEFINE v == th[t].at
           pd == th[t].read.pd
           g == <<v, pd, p1[v]>>
           pc == IF pd = "failed" THEN "throw" ELSE "eval"
           exc == IF pd = "failed" THEN p1[v] ELSE "none"
           r == [th[t] EXCEPT !.got = g, !.pc = pc, !.exc = exc]
<1>1. /\ ThreadOK(th[t]) /\ th[t] \in ThreadType /\ World /\ th[t].pc = "got" /\ v \in Values
      /\ th[t].pc \in Running
  BY TheThread DEF Got, At, ThreadOK, Running, Forcing
<1>2. /\ Top(t) = th[t].stack[Len(th[t].stack)] /\ Chain(th[t].stack) /\ SeekReads(t, th[t], p0)
      /\ TopReads(Top(t), th[t], p1) /\ WordsRead(p0, p1, Cut)
      /\ Top(t).v # NoValue => Top(t).v \in Values
  BY <1>1, ReadsOf, TopIsMine
<1>3. th' = [th EXCEPT ![t] = r] /\ UNCHANGED <<scene, p0, p1, interrupted, quit>>
  BY DEF Got, Become, words, pool, signal
<1>4. pd \in {"done", "failed"} /\ p0[v].pd = pd
  BY <1>1, <1>2 DEF SeekReads, Final
<1>5. /\ pd = "done" => p1[v] = "value" /\ v \in Good
      /\ pd = "failed" => \/ p1[v] = "error" /\ v \notin Good
                          \/ p1[v] = "interrupted" /\ Cut
  BY <1>1, <1>2, <1>4 DEF WordsRead
<1>6. Top(t).v # NoValue => /\ v \in Forces(Top(t).v)
                            /\ Forces(Top(t).v) \subseteq Good \cup Todo(Top(t)) \cup {v}
  BY <1>1, <1>2 DEF TopReads, Seeking
<1>7. r.pc = pc /\ r.exc = exc /\ r.stack = th[t].stack /\ r.got = g
  BY <1>1 DEF ThreadType
<1> HIDE DEF r
<1>8. TopReads(Top(t), r, p1)
  <2>1. CASE pd = "done"
    <3>1. r.pc = "eval" /\ v \in Good
      BY <1>5, <1>7, <2>1
    <3> QED
      BY <1>6, <3>1 DEF TopReads, Seeking, Waiting
  <2>2. CASE pd = "failed"
    <3>1. r.pc = "throw" /\ r.exc = p1[v]
      BY <1>7, <2>2
    <3>2. ASSUME Top(t).v # NoValue, r.exc = "error" PROVE Top(t).v \notin Good
      <4>1. v \notin Good
        BY <1>5, <2>2, <3>1, <3>2
      <4> QED
        BY <1>6, <3>2, <4>1, GoodUnfolds
    <3> QED
      BY <3>1, <3>2 DEF TopReads, Seeking, Waiting
  <2> QED
    BY <1>4, <2>1, <2>2
<1>9. LastReads(r.got, Cut)
  BY <1>5, <1>7 DEF LastReads
<1>10. ExcReads(r, Cut)
  BY <1>4, <1>5, <1>7 DEF ExcReads
<1>11. Reads(t, r, p0, p1, Cut)
  BY <1>2, <1>7, <1>8, <1>9, <1>10 DEF Reads, SeekReads
<1> QED
  BY <1>3, <1>11, QuietReads DEF Cut

LEMMA FailReads ==
    ASSUME EvalInv, ReadInv, ~stolen, NEW t \in Threads, Fail(t) PROVE ReadInv'
<1> DEFINE v == Top(t).v
           exc == th[t].exc
           r == [th[t] EXCEPT !.pc = "finish"]
<1>1. th[t].pc = "throw" /\ th[t].pc \in Running /\ v # NoValue
  BY DEF Fail, At, Running
<1>2. /\ th[t] \in ThreadType /\ TopReads(Top(t), th[t], p1) /\ Chain(th[t].stack)
      /\ LastReads(th[t].got, Cut) /\ WordsRead(p0, p1, Cut) /\ World /\ ExcReads(th[t], Cut)
      /\ Top(t) = th[t].stack[Len(th[t].stack)] /\ v \in Values /\ v \in Mine(t)
      /\ th[t].exc # "none"
  BY <1>1, ReadsOf, TopIsMine DEF ThreadOK
<1>3. th' = [th EXCEPT ![t] = r] /\ UNCHANGED <<scene, p0, interrupted, quit>>
  BY DEF Fail, Goto, pool, signal
<1>4. \A x \in Values : p1'[x] = IF x = v THEN exc ELSE p1[x]
  BY <1>2 DEF World, Fail
<1>5. r.pc = "finish" /\ r.exc = exc /\ r.stack = th[t].stack /\ r.got = th[t].got
  BY <1>2 DEF ThreadType
<1> HIDE DEF r
<1>6. exc \in {"error", "interrupted"} /\ (exc = "error" => v \notin Good)
  BY <1>1, <1>2 DEF ExcReads, TopReads
<1>7. TopReads(Top(t), r, p1')
  BY <1>2, <1>4, <1>5, <1>6 DEF TopReads, Seeking, Waiting, Settled
<1>8. ExcReads(r, Cut)
  BY <1>1, <1>2, <1>5 DEF ExcReads
<1>9. Reads(t, r, p0', p1', Cut)
  BY <1>2, <1>5, <1>7, <1>8 DEF Reads, SeekReads
<1>10. Cut' = Cut
  BY <1>3 DEF Cut
<1>11. p0[v].pd \notin {"done", "failed"}
  BY <1>2 DEF Mine, Busy
<1>12. WordsRead(p0', p1', Cut')
  BY <1>2, <1>3, <1>4, <1>10, <1>11 DEF WordsRead
<1>13. \A x \in Values : /\ Final(p0[x]) => p0'[x] = p0[x]
                         /\ x \notin Mine(t) => p1'[x] = p1[x]
  BY <1>2, <1>3, <1>4
<1> QED
  BY <1>3, <1>9, <1>10, <1>12, <1>13, OneReads

LEMMA FinishReads ==
    ASSUME EvalInv, ReadInv, ~stolen, NEW t \in Threads, Finish(t) PROVE ReadInv'
<1> DEFINE s == th[t].stack
           v == Top(t).v
           exc == th[t].exc
           final == [pd |-> IF exc = "none" THEN "done" ELSE "failed", by |-> NoThread]
           u == Pop(s)
           pc == IF p0[v].pd = "awaited" THEN "notify" ELSE After(t)
           r == [th[t] EXCEPT !.pc = pc, !.at = v, !.stack = u]
<1>1. th[t].pc = "finish" /\ th[t].pc \in Running
  BY DEF Finish, At, Running
<1>2. /\ th[t] \in ThreadType /\ TopReads(Top(t), th[t], p1) /\ Chain(s) /\ Stack(s) /\ s # <<>>
      /\ LastReads(th[t].got, Cut) /\ WordsRead(p0, p1, Cut) /\ World /\ ExcReads(th[t], Cut)
      /\ Top(t) = s[Len(s)] /\ v # NoValue /\ v \in Values /\ v \in Mine(t)
  BY <1>1, ReadsOf, TopIsMine DEF ThreadOK
<1>3. /\ Chain(u)
      /\ u[Len(u)].v # NoValue =>
           /\ v \in Forces(u[Len(u)].v)
           /\ Forces(u[Len(u)].v) \subseteq Good \cup Todo(u[Len(u)]) \cup {v}
  BY <1>2, ChainPop
<1>4. /\ th' = [th EXCEPT ![t] = r] /\ p0' = [p0 EXCEPT ![v] = final]
      /\ UNCHANGED <<scene, p1, interrupted, quit>>
  BY DEF Finish, Become, pool, signal
<1>5. Settled(v, exc, p1[v]) /\ exc \in {"none", "error", "interrupted"} /\ (exc = "interrupted" => Cut)
  BY <1>1, <1>2 DEF TopReads, ExcReads
<1>6. pc = "notify" \/ pc = IF exc = "none" THEN "eval" ELSE "throw"
  BY DEF After
<1> HIDE DEF u, pc
<1>7. r.pc = pc /\ r.stack = u /\ r.got = th[t].got /\ r.exc = exc
  BY <1>2 DEF ThreadType
<1>8. final.pd = IF exc = "none" THEN "done" ELSE "failed"
  OBVIOUS
<1>9. \A y \in Values : p0'[y] = IF y = v THEN final ELSE p0[y]
  BY <1>2, <1>4 DEF World
<1> HIDE DEF r, final, v, exc
<1>10. TopReads(u[Len(u)], r, p1)
  <2>1. CASE exc = "none"
    <3>1. v \in Good
      BY <1>5, <2>1 DEF Settled
    <3> QED
      BY <1>3, <1>6, <1>7, <2>1, <3>1 DEF TopReads, Seeking, Waiting
  <2>2. CASE exc = "error"
    <3>1. v \notin Good
      BY <1>5, <2>2 DEF Settled
    <3>2. u[Len(u)].v # NoValue => u[Len(u)].v \notin Good
      BY <1>3, <3>1, GoodUnfolds
    <3> QED
      BY <1>6, <1>7, <2>2, <3>2 DEF TopReads, Seeking, Waiting
  <2>3. CASE exc = "interrupted"
    BY <1>6, <1>7, <2>3 DEF TopReads, Seeking, Waiting
  <2> QED
    BY <1>5, <2>1, <2>2, <2>3
<1>11. ExcReads(r, Cut)
  BY <1>5, <1>7 DEF ExcReads
<1>12. SeekReads(t, r, p0')
  BY <1>6, <1>7 DEF SeekReads
<1>13. Reads(t, r, p0', p1', Cut)
  <2>1. TopReads(u[Len(u)], r, p1')
    BY <1>4, <1>10
  <2> QED
    BY <1>2, <1>3, <1>7, <1>11, <1>12, <2>1 DEF Reads
<1>14. Cut' = Cut
  BY <1>4 DEF Cut
<1>15. WordsRead(p0', p1', Cut')
  <2> SUFFICES ASSUME NEW y \in Values
               PROVE  /\ p0'[y].pd = "done" => p1[y] = "value" /\ y \in Good
                      /\ p0'[y].pd = "failed" => \/ p1[y] = "error" /\ y \notin Good
                                                 \/ p1[y] = "interrupted" /\ Cut
    BY <1>4, <1>14 DEF WordsRead
  <2>1. CASE y = v
    BY <1>5, <1>8, <1>9, <2>1 DEF Settled
  <2>2. CASE y # v
    BY <1>2, <1>9, <2>2 DEF WordsRead
  <2> QED
    BY <2>1, <2>2
<1>16. \A y \in Values : Final(p0[y]) => p0'[y] = p0[y]
  BY <1>2, <1>9 DEF Mine, Busy, Final
<1> QED
  BY <1>4, <1>13, <1>14, <1>15, <1>16, OneReads

(* What forces something that it is evaluated for has no value.            *)
LEMMA SelfWait ==
    ASSUME NEW s, Stack(s), s # <<>>, Chain(s), NEW a \in On(s),
           s[Len(s)].v # NoValue => a \in Forces(s[Len(s)].v)
    PROVE  s[Len(s)].v \notin Good
<1> DEFINE n == Len(s)
<1>1. s \in Seq(Frame) /\ n \in Nat /\ n >= 1
  BY EmptySeq, LenProperties DEF Stack
<1>2. \A k \in 1..n : s[k].v \in Values \cup {NoValue} /\ (s[k].v = NoValue <=> k = 1)
  <2>1. \A k \in 1..n : s[k] \in Frame
    BY <1>1, ElementOfSeq
  <2>2. \A k \in 1..n : s[k].v = NoValue <=> k = 1
    BY DEF Stack
  <2> QED
    BY <2>1, <2>2 DEF Frame
<1>3. \A k \in 1..n : s[k].v # NoValue /\ k < n => s[k + 1].v \in Forces(s[k].v)
  BY DEF Chain
<1>4. PICK m \in 1..n : s[m].v = a /\ a # NoValue
  BY DEF On
<1>5. s[n].v # NoValue => a \in Forces(s[n].v)
  OBVIOUS
<1> HIDE DEF n
<1> DEFINE C == {s[k].v : k \in m..n}
<1>6. ASSUME NEW k \in m..n
      PROVE  /\ s[k].v \in Values
             /\ \E j \in m..n : s[j].v \in Forces(s[k].v)
  <2>1. k \in 1..n /\ k # 1
    BY <1>1, <1>2, <1>4, <1>6
  <2>2. s[k].v \in Values /\ s[k].v # NoValue
    BY <1>2, <2>1
  <2>3. CASE k = n
    <3>1. m \in m..n /\ s[m].v \in Forces(s[k].v)
      BY <1>1, <1>4, <1>5, <2>2, <2>3
    <3> QED
      BY <2>2, <3>1
  <2>4. CASE k # n
    <3>1. k + 1 \in m..n /\ k < n
      BY <1>1, <2>1, <2>4
    <3>2. s[k + 1].v \in Forces(s[k].v)
      BY <1>3, <2>1, <2>2, <3>1
    <3> QED
      BY <2>2, <3>1, <3>2
  <2> QED
    BY <2>3, <2>4
<1>7. C \in SUBSET Values /\ \A v \in C : \E u \in C : u \in Forces(v)
  BY <1>6
<1>8. n \in m..n
  BY <1>1
<1>9. s[n].v \in C
  BY <1>8
<1> HIDE DEF C
<1>10. s[n].v \notin Good
  BY <1>7, <1>9, GoodLoop
<1> QED
  BY <1>10 DEF n

LEMMA WaitOnThunkReads ==
    ASSUME EvalInv, ReadInv, ~stolen, NEW t \in Threads, WaitOnThunk(t) PROVE ReadInv'
<1> DEFINE s == th[t].stack
           v == th[t].at
           x == p0[v]
           awaited == [x EXCEPT !.pd = "awaited"]
<1>1. /\ ThreadOK(th[t]) /\ th[t] \in ThreadType /\ World /\ th[t].pc = "wait" /\ v \in Values
      /\ th[t].pc \in Running
  BY TheThread DEF WaitOnThunk, At, ThreadOK, Running, Forcing, Waiting
<1>2. x \in Word0 /\ UNCHANGED <<scene, p1, interrupted, quit>>
  BY <1>1 DEF World, WaitOnThunk, pool, signal
<1>3. CASE Final(x)
  <2> DEFINE r == [th[t] EXCEPT !.read = x, !.pc = "got"]
  <2>1. th' = [th EXCEPT ![t] = r] /\ p0' = p0
    BY <1>3 DEF WaitOnThunk, Become
  <2>2. /\ r \in ThreadType /\ r.at = th[t].at /\ r.stack = th[t].stack /\ r.got = th[t].got
        /\ r.read = x /\ r.pc = "got"
    BY <1>1, <1>2 DEF ThreadType, Running, Forcing, Waiting
  <2> HIDE DEF r
  <2> QED
    BY <1>1, <1>2, <1>3, <2>1, <2>2, LooksReads DEF Waiting
<1>4. CASE ~Final(x)
  <2>1. p0' = [p0 EXCEPT ![v] = awaited]
    BY <1>4 DEF WaitOnThunk
  <2>2. \A y \in Values : p0'[y] = IF y = v THEN awaited ELSE p0[y]
    BY <1>1, <2>1 DEF World
  <2>3. awaited.pd = "awaited"
    BY <1>2 DEF Word0
  <2> HIDE DEF awaited
  <2>4. /\ Top(t) = s[Len(s)] /\ Chain(s) /\ Stack(s) /\ s # <<>> /\ TopReads(Top(t), th[t], p1)
        /\ WordsRead(p0, p1, Cut) /\ LastReads(th[t].got, Cut) /\ SeekReads(t, th[t], p0)
    BY <1>1, ReadsOf, TopIsMine
  <2>5. Cut' = Cut
    BY <1>2 DEF Cut
  <2>6. WordsRead(p0', p1', Cut')
    BY <1>2, <2>2, <2>3, <2>4, <2>5 DEF WordsRead
  <2>7. \A y \in Values : Final(p0[y]) => p0'[y] = p0[y]
    BY <1>4, <2>2
  <2>8. Top(t).v # NoValue => /\ v \in Forces(Top(t).v)
                              /\ Forces(Top(t).v) \subseteq Good \cup Todo(Top(t)) \cup {v}
    BY <1>1, <2>4 DEF TopReads, Seeking, Waiting
  <2>9. CASE th[t].read.by = t
    <3> DEFINE r == [th[t] EXCEPT !.pc = "throw", !.exc = "error"]
    <3>1. th' = [th EXCEPT ![t] = r]
      BY <1>4, <2>9 DEF WaitOnThunk, Throw
    <3>2. r.pc = "throw" /\ r.exc = "error" /\ r.stack = s /\ r.got = th[t].got
      BY <1>1 DEF ThreadType
    <3> HIDE DEF r
    <3>3. v \in On(s)
      BY <1>1, <2>4, <2>9 DEF SeekReads
    <3>4. Top(t).v \notin Good
      BY <2>4, <2>8, <3>3, SelfWait
    <3>5. TopReads(Top(t), r, p1')
      BY <3>2, <3>4 DEF TopReads, Seeking, Waiting
    <3>6. Reads(t, r, p0', p1', Cut)
      BY <2>4, <3>2, <3>5 DEF Reads, ExcReads, SeekReads
    <3> QED
      BY <1>2, <2>5, <2>6, <2>7, <3>1, <3>6, OneReads
  <2>10. CASE th[t].read.by # t
    <3> DEFINE r == [th[t] EXCEPT !.pc = "sleep"]
    <3>1. th' = [th EXCEPT ![t] = r]
      BY <1>4, <2>10 DEF WaitOnThunk, Goto
    <3>2. r.pc = "sleep" /\ r.at = v /\ r.stack = s /\ r.got = th[t].got
      BY <1>1 DEF ThreadType
    <3> HIDE DEF r
    <3>3. TopReads(Top(t), r, p1')
      BY <2>8, <3>2 DEF TopReads
    <3>4. Reads(t, r, p0', p1', Cut)
      BY <2>4, <3>2, <3>3 DEF Reads, ExcReads, SeekReads
    <3> QED
      BY <1>2, <2>5, <2>6, <2>7, <3>1, <3>4, OneReads
  <2> QED
    BY <2>9, <2>10
<1> QED
  BY <1>3, <1>4

LEMMA SleepReads ==
    ASSUME EvalInv, ReadInv, ~stolen, NEW t \in Threads, Sleep(t) PROVE ReadInv'
<1> DEFINE r == [th[t] EXCEPT !.pc = "asleep"]
<1>1. th[t] \in ThreadType /\ th[t].pc = "sleep"
  BY TheThread DEF Sleep, At
<1>2. th' = [th EXCEPT ![t] = r] /\ UNCHANGED <<scene, p0, p1, interrupted, quit>>
  BY DEF Sleep, Goto, words, pool, signal
<1>3. r \in ThreadType /\ r.at = th[t].at /\ r.stack = th[t].stack /\ r.got = th[t].got /\ r.pc = "asleep"
  BY <1>1 DEF ThreadType, Running, Forcing, Waiting
<1> HIDE DEF r
<1> QED
  BY <1>1, <1>2, <1>3, LooksReads DEF Waiting

LEMMA WakeReads ==
    ASSUME EvalInv, ReadInv, ~stolen, NEW t \in Threads, Wake(t) PROVE ReadInv'
<1> DEFINE v == th[t].at
           x == p0[v]
           interrupts == ~Final(x) /\ Interrupted(t)
<1>1. /\ ThreadOK(th[t]) /\ th[t] \in ThreadType /\ World /\ th[t].pc = "woken" /\ v \in Values
      /\ th[t].pc \in Waiting
  BY TheThread DEF Wake, At, ThreadOK, Forcing, Waiting
<1>2. x \in Word0 /\ UNCHANGED <<scene, p0, p1, interrupted, quit>>
  BY <1>1 DEF World, Wake, pool, signal
<1>3. CASE Final(x)
  <2> DEFINE r == [th[t] EXCEPT !.read = x, !.pc = "got"]
  <2>1. th' = [th EXCEPT ![t] = r]
    BY <1>1, <1>3 DEF Wake, Become
  <2>2. /\ r \in ThreadType /\ r.at = th[t].at /\ r.stack = th[t].stack /\ r.got = th[t].got
        /\ r.read = x /\ r.pc = "got"
    BY <1>1, <1>2 DEF ThreadType, Running, Forcing, Waiting
  <2> HIDE DEF r
  <2> QED
    BY <1>1, <1>2, <1>3, <2>1, <2>2, LooksReads
<1>4. CASE ~Final(x) /\ ~Interrupted(t)
  <2> DEFINE r == [th[t] EXCEPT !.pc = "sleep"]
  <2>1. th' = [th EXCEPT ![t] = r]
    BY <1>1, <1>4 DEF Wake, Become
  <2>2. r \in ThreadType /\ r.at = th[t].at /\ r.stack = th[t].stack /\ r.got = th[t].got /\ r.pc = "sleep"
    BY <1>1 DEF ThreadType, Running, Forcing, Waiting
  <2> HIDE DEF r
  <2> QED
    BY <1>1, <1>2, <2>1, <2>2, LooksReads
<1>5. CASE interrupts /\ ~th[t].inTry
  <2> DEFINE s == th[t].stack
             r == [th[t] EXCEPT !.pc = "throw", !.exc = "interrupted", !.stack = s]
  <2>1. th' = [th EXCEPT ![t] = r]
    BY <1>1, <1>5 DEF Wake, Become
  <2>2. r.pc = "throw" /\ r.exc = "interrupted" /\ r.stack = s /\ r.got = th[t].got
    BY <1>1 DEF ThreadType
  <2> HIDE DEF r
  <2>3. Cut /\ Chain(s) /\ LastReads(th[t].got, Cut)
    BY <1>5, ReadsOf DEF Cut, Interrupted
  <2>4. TopReads(s[Len(s)], r, p1)
    BY <2>2 DEF TopReads, Seeking, Waiting
  <2>5. Reads(t, r, p0, p1, Cut)
    BY <2>2, <2>3, <2>4 DEF Reads, ExcReads, SeekReads
  <2> QED
    BY <1>2, <2>1, <2>5, QuietReads DEF Cut
<1>6. CASE interrupts /\ th[t].inTry
  <2>1. stolen'
    BY <1>6 DEF Wake
  <2> QED
    BY <2>1 DEF ReadInv
<1> QED
  BY <1>3, <1>4, <1>5, <1>6

(* A thread that has nothing on its stack but what it works for.           *)
LEMMA RestReads ==
    ASSUME EvalInv, ReadInv, ~stolen, UNCHANGED <<scene, p0, p1>>, Cut => Cut', NEW t \in Threads,
           NEW r, th' = [th EXCEPT ![t] = r], r.got = th[t].got, Chain(r.stack),
           \/ r.pc \in {"idle", "waiting", "end", "collect"}
           \/ r.pc = "eval" /\ r.stack[Len(r.stack)].v = NoValue
    PROVE  ReadInv'
<1>1. LastReads(r.got, Cut)
  BY ReadsOf
<1>2. r.pc \in Running => TopReads(r.stack[Len(r.stack)], r, p1)
  BY DEF Running, Forcing, Waiting, TopReads
<1>3. Reads(t, r, p0, p1, Cut)
  BY <1>1, <1>2 DEF Reads, ExcReads, SeekReads
<1> QED
  BY <1>3, QuietReads

LEMMA TakeItemReads ==
    ASSUME EvalInv, ReadInv, ~stolen, NEW t \in Threads, TakeItem(t) PROVE ReadInv'
<1>1. th[t] \in ThreadType
  BY TheThread
<1>2. PICK i \in queue :
        th' = [th EXCEPT ![t] = [th[t] EXCEPT !.pc = "eval", !.item = i,
                                              !.stack = <<[v |-> NoValue, todo |-> <<i>>]>>]]
  BY DEF TakeItem, Become
<1> DEFINE s == <<[v |-> NoValue, todo |-> <<i>>]>>
           r == [th[t] EXCEPT !.pc = "eval", !.item = i, !.stack = s]
<1>3. Chain(s) /\ s[Len(s)].v = NoValue
  BY DEF Chain
<1>4. th' = [th EXCEPT ![t] = r] /\ UNCHANGED <<scene, p0, p1, interrupted, quit>>
  BY <1>2 DEF TakeItem, words, signal
<1> HIDE DEF s
<1>5. r.pc = "eval" /\ r.stack = s /\ r.got = th[t].got
  BY <1>1 DEF ThreadType
<1> HIDE DEF r
<1> QED
  BY <1>3, <1>4, <1>5, RestReads DEF Cut

LEMMA PauseReads ==
    ASSUME EvalInv, ReadInv, ~stolen, NEW t \in Threads,
           WaitForItems(t) \/ Leave(t) \/ (Join /\ t = Main)
    PROVE  ReadInv'
<1>1. th[t] \in ThreadType /\ Chain(th[t].stack)
  BY ReadsOf
<1>2. PICK r \in {[th[t] EXCEPT !.pc = "waiting"], [th[t] EXCEPT !.pc = "end"]} :
        th' = [th EXCEPT ![t] = r]
  BY DEF WaitForItems, Leave, Join, Goto
<1>3. r.pc \in {"waiting", "end"} /\ r.stack = th[t].stack /\ r.got = th[t].got
  BY <1>1 DEF ThreadType
<1>4. UNCHANGED <<scene, p0, p1, interrupted, quit>>
  BY DEF WaitForItems, Leave, Join, words, pool, signal
<1> QED
  BY <1>1, <1>2, <1>3, <1>4, RestReads DEF Cut

LEMMA WorkOverReads ==
    ASSUME EvalInv, ReadInv, ~stolen, NEW t \in Threads, WorkOver(t) PROVE ReadInv'
<1>1. th[t] \in ThreadType /\ Chain(th[t].stack) /\ Chain(<<>>)
  <2>1. Chain(<<>>)
    BY DEF Chain
  <2> QED
    BY <2>1, ReadsOf
<1>2. UNCHANGED <<scene, p0, p1, interrupted>>
  BY DEF WorkOver, words, signal
<1>3. Cut => Cut'
  BY DEF WorkOver, Cut, signal, pool
<1>4. CASE t = Main
  <2> DEFINE r == [th[t] EXCEPT !.pc = "collect"]
  <2>1. th' = [th EXCEPT ![t] = r]
    BY <1>4 DEF WorkOver, Goto
  <2>2. r.pc = "collect" /\ r.stack = th[t].stack /\ r.got = th[t].got
    BY <1>1 DEF ThreadType
  <2> HIDE DEF r
  <2> QED
    BY <1>1, <1>2, <1>3, <2>1, <2>2, RestReads
<1>5. CASE t # Main
  <2> DEFINE r == [th[t] EXCEPT !.pc = "idle", !.item = NoValue, !.stack = <<>>]
  <2>1. th' = [th EXCEPT ![t] = r]
    BY <1>5 DEF WorkOver, Become
  <2>2. r.pc = "idle" /\ r.stack = <<>> /\ r.got = th[t].got
    BY <1>1 DEF ThreadType
  <2> HIDE DEF r
  <2> QED
    BY <1>1, <1>2, <1>3, <2>1, <2>2, RestReads
<1> QED
  BY <1>4, <1>5

(* Steps of several threads, none of which changes a word.                 *)
LEMMA ManyReads ==
    ASSUME EvalInv, ReadInv, ~stolen, UNCHANGED <<scene, p0, p1>>, Cut => Cut',
           \A s \in Threads : Reads(s, th'[s], p0, p1, Cut)
    PROVE  ReadInv'
<1>1. \A s \in Threads : Reads(s, th'[s], p0', p1', Cut')
  BY StillReads
<1>2. WordsRead(p0', p1', Cut')
  BY DEF ReadInv, WordsRead
<1> QED
  BY <1>1, <1>2, Primed

LEMMA NotifyReads ==
    ASSUME EvalInv, ReadInv, ~stolen, NEW t \in Threads, Notify(t) PROVE ReadInv'
<1> DEFINE d == Domain[th[t].at]
           r == [th[t] EXCEPT !.pc = After(t)]
<1>1. /\ th[t] \in ThreadType /\ th[t].pc = "notify" /\ th[t].pc \in Running
      /\ ThreadOK(th[t])
  BY TheThread DEF Notify, At, Running, Forcing
<1>2. \A s \in Threads : th'[s] = IF s = t THEN r ELSE Woken(d, th[s])
  <2>1. Woken(d, th[t]) = th[t]
    BY <1>1, WokenOK
  <2>2. th' = [[s \in Threads |-> Woken(d, th[s])] EXCEPT ![t].pc = After(t)]
    BY DEF Notify
  <2> HIDE DEF d
  <2> QED
    BY <2>1, <2>2
<1>3. UNCHANGED <<scene, p0, p1, interrupted, quit>>
  BY DEF Notify, words, pool, signal
<1>4. r.pc = After(t) /\ r.stack = th[t].stack /\ r.got = th[t].got /\ r.exc = th[t].exc
  BY <1>1 DEF ThreadType
<1> HIDE DEF r, d
<1>5. /\ TopReads(Top(t), th[t], p1) /\ Chain(th[t].stack) /\ LastReads(th[t].got, Cut)
      /\ ExcReads(th[t], Cut) /\ Top(t) = th[t].stack[Len(th[t].stack)]
  BY <1>1, ReadsOf, TopIsMine
<1>6. r.pc = IF r.exc = "none" THEN "eval" ELSE "throw"
  BY <1>4 DEF After
<1>7. TopReads(Top(t), r, p1)
  BY <1>1, <1>4, <1>5, <1>6 DEF TopReads, Seeking, Waiting
<1>8. ExcReads(r, Cut)
  BY <1>1, <1>4, <1>5 DEF ExcReads
<1>9. Reads(t, r, p0, p1, Cut)
  BY <1>4, <1>5, <1>6, <1>7, <1>8 DEF Reads, SeekReads
<1>10. \A s \in Threads : Reads(s, Woken(d, th[s]), p0, p1, Cut)
  BY ReadsOf, WokenReads
<1> QED
  BY <1>2, <1>3, <1>9, <1>10, ManyReads DEF Cut

LEMMA NotifyInterruptReads ==
    ASSUME EvalInv, ReadInv, ~stolen, NotifyInterrupt PROVE ReadInv'
<1>1. PICK d \in notifying : th' = [s \in Threads |-> Woken(d, th[s])]
  BY DEF NotifyInterrupt
<1>2. UNCHANGED <<scene, p0, p1, interrupted, quit>>
  BY DEF NotifyInterrupt, words, pool
<1>3. \A s \in Threads : Reads(s, Woken(d, th[s]), p0, p1, Cut)
  BY ReadsOf, WokenReads
<1> QED
  BY <1>1, <1>2, <1>3, ManyReads DEF Cut

LEMMA CollectItemsReads ==
    ASSUME EvalInv, ReadInv, ~stolen, CollectItems PROVE ReadInv'
<1>1. /\ th' = [t \in Threads |->
               IF t = Main THEN [th[t] EXCEPT !.pc = "join"]
               ELSE IF th[t].pc = "waiting" THEN [th[t] EXCEPT !.pc = "idle"] ELSE th[t]]
      /\ UNCHANGED <<scene, p0, p1>> /\ quit'
  BY DEF CollectItems, At, words
<1>2. ASSUME NEW t \in Threads PROVE Reads(t, th'[t], p0, p1, Cut)
  <2>1. /\ Reads(t, th[t], p0, p1, Cut) /\ th[t] \in ThreadType
        /\ Chain(th[t].stack) /\ LastReads(th[t].got, Cut)
    BY ReadsOf
  <2>2. CASE th'[t] = th[t]
    BY <2>1, <2>2
  <2>3. CASE th'[t] # th[t]
    <3>1. th'[t].pc \in {"join", "idle"} /\ th'[t].stack = th[t].stack /\ th'[t].got = th[t].got
      BY <1>1, <2>1, <2>3 DEF ThreadType
    <3> QED
      BY <2>1, <3>1 DEF Reads, ExcReads, SeekReads, Running, Forcing, Waiting
  <2> QED
    BY <2>2, <2>3
<1> QED
  BY <1>1, <1>2, ManyReads DEF Cut

LEMMA ReadStays == EvalInv /\ ReadInv /\ [Next]_vars => ReadInv'
<1> SUFFICES ASSUME EvalInv, ReadInv, [Next]_vars PROVE ReadInv'
  OBVIOUS
<1>1. CASE stolen
  <2>1. stolen'
    BY <1>1 DEF Next, ThreadStep, ForceNext, Evaluated, EvalInterrupted, Load, Claim, Got, Fail, Finish,
                Notify, WaitOnThunk, Sleep, Wake, TakeItem, WaitForItems, Leave, WorkOver,
                CollectItems, Join, Interrupt, NotifyInterrupt, words, vars
  <2> QED
    BY <2>1 DEF ReadInv
<1>2. CASE ~stolen
  <2>1. ASSUME NEW t \in Threads, ThreadStep(t) PROVE ReadInv'
    BY <1>2, <2>1, ForceNextReads, EvaluatedReads, EvalInterruptedReads, LoadReads, ClaimReads,
       GotReads, FailReads, FinishReads, NotifyReads, WaitOnThunkReads, SleepReads, WakeReads,
       TakeItemReads, PauseReads, WorkOverReads DEF ThreadStep
  <2>2. CASE Join
    BY <1>2, <2>2, PauseReads DEF Threads
  <2>3. CASE Interrupt
    <3>1. UNCHANGED <<scene, p0, p1, th>> /\ (Cut => Cut')
      BY <2>3 DEF Interrupt, words, pool, Cut
    <3>2. \A s \in Threads : Reads(s, th'[s], p0, p1, Cut)
      BY <1>2, <3>1 DEF ReadInv
    <3> QED
      BY <1>2, <3>1, <3>2, ManyReads
  <2>4. CASE UNCHANGED vars
    <3>1. UNCHANGED <<scene, p0, p1, th>> /\ (Cut => Cut')
      BY <2>4 DEF vars, Cut
    <3>2. \A s \in Threads : Reads(s, th'[s], p0, p1, Cut)
      BY <1>2, <3>1 DEF ReadInv
    <3> QED
      BY <1>2, <3>1, <3>2, ManyReads
  <2> QED
    BY <1>2, <2>1, <2>2, <2>3, <2>4, NotifyInterruptReads, CollectItemsReads DEF Next
<1> QED
  BY <1>1, <1>2

LEMMA ReadInvWhole == ReadInv => ReadsWhole
<1> SUFFICES ASSUME ReadInv, ~stolen, NEW t \in Threads
             PROVE  LastReads(th[t].got, interrupted \/ quit)
  BY DEF ReadsWhole, LastReads
<1> QED
  BY DEF ReadInv, Reads, Cut

(* What a thread reads as the value of a thunk is what the thunk's         *)
(* expression evaluates to, whichever thread evaluated it and however many *)
(* waited for it; and it reads an exception only of an expression that     *)
(* throws, or that needs itself, or when there was an interrupt.           *)
THEOREM WordsBelongTogether == Spec => []ReadsWhole
<1>1. Init => EvalInv /\ ReadInv
  BY EvalInit, ReadInit
<1>2. EvalInv /\ ReadInv /\ [Next]_vars => (EvalInv /\ ReadInv)'
  BY EvalStays, ReadStays
<1> QED
  BY <1>1, <1>2, ReadInvWhole, PTL DEF Spec


-----------------------------------------------------------------------------
(* Nobody sleeps that nobody will wake                                     *)

Napping == {"sleep", "asleep"}
Called(d) == \E s \in Threads : At(s, "notify") /\ Domain[th[s].at] = d

(* Who is about to sleep has the lock of the domain; the thunk that a      *)
(* thread sleeps for is awaited, or somebody is about to notify the domain.*)
WakeInv ==
    \A t \in Threads :
        /\ th[t].pc = "sleep" => lock[Domain[th[t].at]] = t
        /\ th[t].pc \in Napping \cup {"woken"} => p0[th[t].at].pd # "pending"
        /\ th[t].pc \in Napping => p0[th[t].at].pd = "awaited" \/ Called(Domain[th[t].at])

LEMMA WakeInit == Init => WakeInv
<1>1. Init => \A t \in Threads : th[t].pc \in {"idle", "eval"}
  BY DEF Init, NewThread
<1> QED
  BY <1>1 DEF WakeInv, Napping

(* A step of the thread t, which neither notifies nor sleeps.              *)
LEMMA WakeStep ==
    ASSUME EvalInv, WakeInv, NEW t \in Threads, NEW r, th' = [th EXCEPT ![t] = r], lock' = lock,
           th[t].pc \notin {"notify", "sleep"}, r.pc \notin Napping \cup {"woken"},
           \A v \in Values : p0'[v].pd = "pending" => p0[v].pd \in {"pending", "thunk"},
           \A v \in Values : p0[v].pd = "awaited" =>
               p0'[v].pd = "awaited" \/ (r.pc = "notify" /\ r.at = v)
    PROVE  WakeInv'
<1>1. \A s \in Threads : th'[s] = IF s = t THEN r ELSE th[s]
  BY DEF EvalInv
<1>2. ASSUME NEW d, Called(d) PROVE Called(d)'
  BY <1>1, <1>2 DEF Called, At
<1>3. ASSUME NEW s \in Threads, s # t, th[s].pc \in Napping \cup {"woken"}
      PROVE  /\ p0'[th[s].at].pd # "pending"
             /\ th[s].pc \in Napping => p0'[th[s].at].pd = "awaited" \/ Called(Domain[th[s].at])'
  <2>1. th[s].at \in Values /\ p0[th[s].at].pd # "thunk" /\ p0[th[s].at].pd # "pending"
    BY <1>3 DEF EvalInv, ThreadOK, Forcing, Waiting, WakeInv, Napping
  <2>2. CASE p0[th[s].at].pd = "awaited"
    <3>1. r.pc = "notify" /\ r.at = th[s].at => Called(Domain[th[s].at])'
      BY <1>1 DEF Called, At
    <3> QED
      BY <2>1, <2>2, <3>1
  <2>3. CASE p0[th[s].at].pd # "awaited"
    BY <1>2, <1>3, <2>1, <2>3 DEF WakeInv
  <2> QED
    BY <2>2, <2>3
<1> QED
  BY <1>1, <1>3 DEF WakeInv, Napping

LEMMA WakeMoves ==
    ASSUME EvalInv, WakeInv, NEW t \in Threads,
           \/ Evaluated(t) \/ EvalInterrupted(t) \/ Load(t) \/ Got(t) \/ Fail(t) \/ WaitForItems(t)
           \/ Leave(t) \/ (Join /\ t = Main)
    PROVE  WakeInv'
<1>1. th[t] \in ThreadType /\ World
  BY TheThread
<1>2. UNCHANGED <<p0, lock>> /\ th[t].pc \in {"eval", "load", "got", "throw", "idle", "join"}
  BY DEF Evaluated, EvalInterrupted, Load, Got, Fail, WaitForItems, Leave, Join, At, words
<1>3. CASE Load(t)
  <2> DEFINE x == p0[th[t].at]
             pc == IF x.pd = "thunk" THEN "cas" ELSE IF Final(x) THEN "got" ELSE "wait"
             r == [th[t] EXCEPT !.read = x, !.inTry = FALSE, !.pc = pc]
  <2>1. th' = [th EXCEPT ![t] = r]
    BY <1>3 DEF Load, Become
  <2>2. r.pc \in {"cas", "got", "wait"}
    BY <1>1 DEF ThreadType
  <2> HIDE DEF r
  <2> QED
    BY <1>2, <2>1, <2>2, WakeStep DEF Napping
<1>4. CASE Got(t)
  <2> DEFINE pd == th[t].read.pd
             word == p1[th[t].at]
             r == [th[t] EXCEPT !.got = <<th[t].at, pd, word>>,
                                !.pc = IF pd = "failed" THEN "throw" ELSE "eval",
                                !.exc = IF pd = "failed" THEN word ELSE "none"]
  <2>1. th' = [th EXCEPT ![t] = r]
    BY <1>4 DEF Got, Become
  <2>2. r.pc \in {"throw", "eval"}
    BY <1>1 DEF ThreadType
  <2> HIDE DEF r
  <2> QED
    BY <1>2, <2>1, <2>2, WakeStep DEF Napping
<1>5. CASE ~Load(t) /\ ~Got(t)
  <2>1. PICK r \in {[th[t] EXCEPT !.pc = "throw", !.exc = "error"],
                    [th[t] EXCEPT !.pc = "throw", !.exc = "interrupted"],
                    [th[t] EXCEPT !.pc = "finish", !.exc = "none"],
                    [th[t] EXCEPT !.pc = "finish"],
                    [th[t] EXCEPT !.pc = "waiting"],
                    [th[t] EXCEPT !.pc = "end"]} : th' = [th EXCEPT ![t] = r]
    BY <1>5 DEF Evaluated, EvalInterrupted, Fail, WaitForItems, Leave, Join, Become, Throw, Goto
  <2>2. r.pc \in {"throw", "finish", "waiting", "end"}
    BY <1>1 DEF ThreadType
  <2> QED
    BY <1>2, <2>1, <2>2, WakeStep DEF Napping
<1> QED
  BY <1>3, <1>4, <1>5

LEMMA WakeForceNext == ASSUME EvalInv, WakeInv, NEW t \in Threads, ForceNext(t) PROVE WakeInv'
<1> DEFINE n == Len(th[t].stack)
           u == [th[t].stack EXCEPT ![n].todo = Tail(@)]
           r == [th[t] EXCEPT !.pc = "load", !.at = Head(Top(t).todo), !.stack = u]
<1>1. th[t] \in ThreadType
  BY TheThread
<1>2. th' = [th EXCEPT ![t] = r] /\ UNCHANGED <<p0, lock>> /\ th[t].pc = "eval"
  BY DEF ForceNext, Become, At, words
<1> HIDE DEF u
<1>3. r.pc = "load"
  BY <1>1 DEF ThreadType
<1> HIDE DEF r
<1> QED
  BY <1>2, <1>3, WakeStep DEF Napping

LEMMA WakeClaim == ASSUME EvalInv, WakeInv, NEW t \in Threads, Claim(t) PROVE WakeInv'
<1> DEFINE v == th[t].at
           x == p0[v]
           mine == [pd |-> "pending", by |-> t]
<1>1. th[t] \in ThreadType /\ th[t].pc = "cas" /\ v \in Values /\ World /\ lock' = lock
  BY TheThread DEF Claim, At, ThreadOK, Forcing
<1>2. CASE x.pd # "thunk"
  <2> DEFINE r == [th[t] EXCEPT !.read = x, !.inTry = TRUE, !.pc = IF Final(x) THEN "got" ELSE "wait"]
  <2>1. th' = [th EXCEPT ![t] = r] /\ p0' = p0
    BY <1>2 DEF Claim, Become
  <2>2. r.pc \in {"got", "wait"}
    BY <1>1 DEF ThreadType
  <2> HIDE DEF r
  <2> QED
    BY <1>1, <2>1, <2>2, WakeStep DEF Napping
<1>3. CASE x.pd = "thunk"
  <2> DEFINE u == Append(th[t].stack, [v |-> v, todo |-> scene.exprs[v]])
             r == [th[t] EXCEPT !.pc = "eval", !.stack = u]
  <2>1. th' = [th EXCEPT ![t] = r] /\ p0' = [p0 EXCEPT ![v] = mine]
    BY <1>3 DEF Claim, Become
  <2> HIDE DEF u
  <2>2. r.pc = "eval"
    BY <1>1 DEF ThreadType
  <2> HIDE DEF r
  <2>3. \A y \in Values : p0'[y] = IF y = v THEN mine ELSE p0[y]
    BY <1>1, <2>1 DEF World
  <2> QED
    BY <1>1, <1>3, <2>1, <2>2, <2>3, WakeStep DEF Napping
<1> QED
  BY <1>2, <1>3

(* Who finishes an awaited thunk notifies its waiters next.                *)
LEMMA WakeFinish == ASSUME EvalInv, WakeInv, NEW t \in Threads, Finish(t) PROVE WakeInv'
<1> DEFINE v == Top(t).v
           final == [pd |-> IF th[t].exc = "none" THEN "done" ELSE "failed", by |-> NoThread]
           u == Pop(th[t].stack)
           pc == IF p0[v].pd = "awaited" THEN "notify" ELSE After(t)
           r == [th[t] EXCEPT !.pc = pc, !.at = v, !.stack = u]
<1>1. ThreadOK(th[t]) /\ th[t] \in ThreadType /\ World /\ th[t].pc = "finish"
  BY TheThread DEF Finish, At
<1>2. v \in Values
  BY <1>1, TheTop DEF ThreadOK, Frame, Running
<1>3. th' = [th EXCEPT ![t] = r] /\ p0' = [p0 EXCEPT ![v] = final] /\ lock' = lock
  BY DEF Finish, Become
<1> HIDE DEF v, u
<1>4. r.pc = pc /\ r.at = v
  BY <1>1 DEF ThreadType
<1> HIDE DEF r
<1>5. \A y \in Values : p0'[y] = IF y = v THEN final ELSE p0[y]
  BY <1>1, <1>3 DEF World
<1>6. final.pd \in {"done", "failed"}
  OBVIOUS
<1>7. pc \in {"notify", "eval", "throw"} /\ (p0[v].pd = "awaited" => pc = "notify")
  BY DEF After
<1> HIDE DEF pc, final
<1>8. \A y \in Values : p0'[y].pd = "pending" => p0[y].pd \in {"pending", "thunk"}
  BY <1>5, <1>6
<1>9. \A y \in Values : p0[y].pd = "awaited" => p0'[y].pd = "awaited" \/ (r.pc = "notify" /\ r.at = y)
  BY <1>4, <1>5, <1>7
<1>10. r.pc \notin Napping \cup {"woken"} /\ th[t].pc \notin {"notify", "sleep"}
  BY <1>1, <1>4, <1>7 DEF Napping
<1> QED
  BY <1>3, <1>8, <1>9, <1>10, WakeStep

LEMMA WakeTakeItem == ASSUME EvalInv, WakeInv, NEW t \in Threads, TakeItem(t) PROVE WakeInv'
<1>1. th[t] \in ThreadType /\ th[t].pc = "idle" /\ UNCHANGED <<p0, lock>>
  BY TheThread DEF TakeItem, At, words
<1>2. PICK i \in queue :
        th' = [th EXCEPT ![t] = [th[t] EXCEPT !.pc = "eval", !.item = i,
                                              !.stack = <<[v |-> NoValue, todo |-> <<i>>]>>]]
  BY DEF TakeItem, Become
<1> DEFINE s == <<[v |-> NoValue, todo |-> <<i>>]>>
           r == [th[t] EXCEPT !.pc = "eval", !.item = i, !.stack = s]
<1>3. th' = [th EXCEPT ![t] = r]
  BY <1>2
<1> HIDE DEF s
<1>4. r.pc = "eval"
  BY <1>1 DEF ThreadType
<1> HIDE DEF r
<1> QED
  BY <1>1, <1>3, <1>4, WakeStep DEF Napping

LEMMA WakeWorkOver == ASSUME EvalInv, WakeInv, NEW t \in Threads, WorkOver(t) PROVE WakeInv'
<1>1. th[t] \in ThreadType /\ th[t].pc \in {"eval", "throw"} /\ UNCHANGED <<p0, lock>>
  BY TheThread DEF WorkOver, At, words
<1>2. PICK r \in {[th[t] EXCEPT !.pc = "collect"],
                  [th[t] EXCEPT !.pc = "idle", !.item = NoValue, !.stack = <<>>]} :
        th' = [th EXCEPT ![t] = r]
  BY DEF WorkOver, Goto, Become
<1>3. r.pc \in {"collect", "idle"}
  BY <1>1 DEF ThreadType
<1> QED
  BY <1>1, <1>2, <1>3, WakeStep DEF Napping

(* A thread begins to sleep with the lock, for a thunk that is awaited.    *)
LEMMA WakeToSleep ==
    ASSUME EvalInv, WakeInv, NEW t \in Threads, NEW r, th' = [th EXCEPT ![t] = r],
           th[t].pc \in {"wait", "woken"}, r.pc = "sleep", r.at = th[t].at, th[t].at \in Values,
           lock[Domain[r.at]] = NoThread, lock' = [lock EXCEPT ![Domain[r.at]] = t],
           p0'[r.at].pd = "awaited", \A v \in Values : v # r.at => p0'[v] = p0[v]
    PROVE  WakeInv'
<1>1. \A s \in Threads : th'[s] = IF s = t THEN r ELSE th[s]
  BY DEF EvalInv
<1>2. ASSUME NEW d, Called(d) PROVE Called(d)'
  BY <1>1, <1>2 DEF Called, At
<1>3. \A d \in Domains : lock'[d] = IF d = Domain[r.at] THEN t ELSE lock[d]
  BY DEF EvalInv, World
<1>4. \A v \in Values : Domain[v] \in Domains
  BY DEF Domains
<1>5. ASSUME NEW s \in Threads, s # t, th[s].pc \in Napping \cup {"woken"}
      PROVE  /\ th[s].pc = "sleep" => lock'[Domain[th[s].at]] = s
             /\ p0'[th[s].at].pd # "pending"
             /\ th[s].pc \in Napping => p0'[th[s].at].pd = "awaited" \/ Called(Domain[th[s].at])'
  <2>1. th[s].at \in Values /\ p0[th[s].at].pd # "pending"
    BY <1>5 DEF EvalInv, ThreadOK, Forcing, Waiting, WakeInv, Napping
  <2>2. th[s].pc = "sleep" => lock[Domain[th[s].at]] = s
    BY DEF WakeInv
  <2>3. th[s].pc = "sleep" => lock'[Domain[th[s].at]] = s
    BY <1>3, <1>4, <2>1, <2>2, EvalAssumption
  <2>4. th[s].pc \in Napping => p0[th[s].at].pd = "awaited" \/ Called(Domain[th[s].at])
    BY DEF WakeInv
  <2>5. p0'[th[s].at].pd # "pending"
    BY <2>1
  <2> QED
    BY <1>2, <2>1, <2>3, <2>4, <2>5
<1>6. /\ lock'[Domain[r.at]] = t /\ p0'[r.at].pd = "awaited"
  BY <1>3, <1>4
<1> QED
  BY <1>1, <1>5, <1>6 DEF WakeInv, Napping

LEMMA WakeWaitOnThunk == ASSUME EvalInv, WakeInv, NEW t \in Threads, WaitOnThunk(t) PROVE WakeInv'
<1> DEFINE v == th[t].at
           x == p0[v]
           awaited == [x EXCEPT !.pd = "awaited"]
<1>1. /\ th[t] \in ThreadType /\ th[t].pc = "wait" /\ v \in Values /\ World
      /\ lock[Domain[v]] = NoThread /\ x \in Word0
  BY TheThread DEF WaitOnThunk, At, ThreadOK, Forcing, Waiting, World
<1>2. CASE Final(x)
  <2> DEFINE r == [th[t] EXCEPT !.read = x, !.pc = "got"]
  <2>1. th' = [th EXCEPT ![t] = r] /\ UNCHANGED <<p0, lock>>
    BY <1>2 DEF WaitOnThunk, Become
  <2>2. r.pc = "got"
    BY <1>1 DEF ThreadType
  <2> HIDE DEF r
  <2> QED
    BY <1>1, <2>1, <2>2, WakeStep DEF Napping
<1>3. CASE ~Final(x)
  <2>1. p0' = [p0 EXCEPT ![v] = awaited]
    BY <1>3 DEF WaitOnThunk
  <2>2. \A y \in Values : p0'[y] = IF y = v THEN awaited ELSE p0[y]
    BY <1>1, <2>1 DEF World
  <2>3. awaited.pd = "awaited"
    BY <1>1 DEF Word0
  <2> HIDE DEF awaited
  <2>4. CASE th[t].read.by = t
    <3> DEFINE r == [th[t] EXCEPT !.pc = "throw", !.exc = "error"]
    <3>1. th' = [th EXCEPT ![t] = r] /\ lock' = lock
      BY <1>3, <2>4 DEF WaitOnThunk, Throw
    <3>2. r.pc = "throw"
      BY <1>1 DEF ThreadType
    <3> HIDE DEF r
    <3> QED
      BY <1>1, <2>2, <2>3, <3>1, <3>2, WakeStep DEF Napping
  <2>5. CASE th[t].read.by # t
    <3> DEFINE r == [th[t] EXCEPT !.pc = "sleep"]
    <3>1. th' = [th EXCEPT ![t] = r] /\ lock' = [lock EXCEPT ![Domain[v]] = t]
      BY <1>3, <2>5 DEF WaitOnThunk, Goto
    <3>2. r.pc = "sleep" /\ r.at = v
      BY <1>1 DEF ThreadType
    <3> HIDE DEF r
    <3> QED
      BY <1>1, <2>2, <2>3, <3>1, <3>2, WakeToSleep
  <2> QED
    BY <2>4, <2>5
<1> QED
  BY <1>2, <1>3

(* The lock goes when the thread sleeps, and no sooner.                    *)
LEMMA WakeSleep == ASSUME EvalInv, WakeInv, NEW t \in Threads, Sleep(t) PROVE WakeInv'
<1> DEFINE d == Domain[th[t].at]
           r == [th[t] EXCEPT !.pc = "asleep"]
<1>1. th[t] \in ThreadType /\ th[t].pc = "sleep" /\ th[t].at \in Values /\ World /\ p0' = p0
  BY TheThread DEF Sleep, At, ThreadOK, Forcing, Waiting, words
<1>2. th' = [th EXCEPT ![t] = r] /\ lock' = [lock EXCEPT ![d] = NoThread]
  BY DEF Sleep, Goto
<1>3. r.pc = "asleep" /\ r.at = th[t].at
  BY <1>1 DEF ThreadType
<1> HIDE DEF r
<1>4. \A s \in Threads : th'[s] = IF s = t THEN r ELSE th[s]
  BY <1>2 DEF EvalInv
<1>5. \A e \in Domains : e # d => lock'[e] = lock[e]
  BY <1>1, <1>2 DEF World
<1>6. lock[d] = t
  BY <1>1 DEF WakeInv
<1>7. ASSUME NEW s \in Threads, s # t, th[s].pc = "sleep" PROVE lock'[Domain[th[s].at]] = s
  <2>1. th[s].at \in Values /\ lock[Domain[th[s].at]] = s
    BY <1>7 DEF EvalInv, ThreadOK, Forcing, Waiting, WakeInv
  <2>2. Domain[th[s].at] \in Domains /\ Domain[th[s].at] # d
    BY <1>6, <1>7, <2>1 DEF Domains
  <2> QED
    BY <1>5, <2>1, <2>2
<1>8. ASSUME NEW e, Called(e) PROVE Called(e)'
  BY <1>1, <1>4, <1>8 DEF Called, At
<1>9. ASSUME NEW s \in Threads, th'[s].pc \in Napping \cup {"woken"}
      PROVE  /\ th[s].pc \in Napping \cup {"woken"} /\ th'[s].at = th[s].at
             /\ th'[s].pc \in Napping => th[s].pc \in Napping
  BY <1>1, <1>3, <1>4, <1>9 DEF Napping
<1> QED
  BY <1>1, <1>3, <1>4, <1>7, <1>8, <1>9 DEF WakeInv

LEMMA WakeWake == ASSUME EvalInv, WakeInv, NEW t \in Threads, Wake(t) PROVE WakeInv'
<1> DEFINE v == th[t].at
           x == p0[v]
           interrupts == ~Final(x) /\ Interrupted(t)
<1>1. /\ th[t] \in ThreadType /\ th[t].pc = "woken" /\ v \in Values /\ World
      /\ lock[Domain[v]] = NoThread /\ x \in Word0 /\ p0' = p0
  BY TheThread DEF Wake, At, ThreadOK, Forcing, Waiting, World
<1>2. CASE Final(x)
  <2> DEFINE r == [th[t] EXCEPT !.read = x, !.pc = "got"]
  <2>1. th' = [th EXCEPT ![t] = r] /\ lock' = lock
    BY <1>2 DEF Wake, Become
  <2>2. r.pc = "got"
    BY <1>1 DEF ThreadType
  <2> HIDE DEF r
  <2> QED
    BY <1>1, <2>1, <2>2, WakeStep DEF Napping
<1>3. CASE ~Final(x) /\ ~Interrupted(t)
  <2> DEFINE r == [th[t] EXCEPT !.pc = "sleep"]
  <2>1. th' = [th EXCEPT ![t] = r] /\ lock' = [lock EXCEPT ![Domain[v]] = t]
    BY <1>3 DEF Wake, Become
  <2>2. r.pc = "sleep" /\ r.at = v
    BY <1>1 DEF ThreadType
  <2>3. x.pd = "awaited"
    <3>1. x.pd # "pending" /\ x.pd # "thunk"
      BY <1>1 DEF WakeInv, EvalInv, Waiting
    <3> QED
      BY <1>1, <1>3, <3>1 DEF Word0, Final
  <2> HIDE DEF r
  <2> QED
    BY <1>1, <2>1, <2>2, <2>3, WakeToSleep
<1>4. CASE interrupts
  <2> DEFINE u == IF th[t].inTry THEN Append(th[t].stack, [v |-> v, todo |-> <<>>]) ELSE th[t].stack
             r == [th[t] EXCEPT !.pc = "throw", !.exc = "interrupted", !.stack = u]
  <2>1. th' = [th EXCEPT ![t] = r] /\ lock' = lock
    BY <1>4 DEF Wake, Become
  <2> HIDE DEF u
  <2>2. r.pc = "throw"
    BY <1>1 DEF ThreadType
  <2> HIDE DEF r
  <2> QED
    BY <1>1, <2>1, <2>2, WakeStep DEF Napping
<1> QED
  BY <1>2, <1>3, <1>4

(* Steps that wake others: in the domain d, and its lock is free.          *)
LEMMA WakeDomain ==
    ASSUME EvalInv, WakeInv, NEW d, UNCHANGED <<p0, lock>>,
           \A s \in Threads :
               \/ th'[s] = Woken(d, th[s])
               \/ th[s].pc = "notify" /\ Domain[th[s].at] = d /\ lock[d] = NoThread
                  /\ th'[s].pc \in {"eval", "throw"}
    PROVE  WakeInv'
<1>1. ASSUME NEW s \in Threads, th'[s].pc \in Napping \cup {"woken"}
      PROVE  /\ th[s].pc \in Napping \cup {"woken"} /\ th'[s].at = th[s].at
             /\ th'[s].pc = "sleep" => th[s].pc = "sleep"
             /\ th'[s].pc \in Napping => th'[s] = th[s]
             /\ th'[s].pc = "asleep" => Domain[th[s].at] # d
  <2>1. th'[s] = Woken(d, th[s]) /\ th[s] \in ThreadType
    BY <1>1, TheThread DEF Napping
  <2> QED
    BY <1>1, <2>1 DEF Woken, ThreadType, Napping
<1>2. ASSUME NEW s \in Threads, th'[s].pc \in Napping, Called(Domain[th[s].at])
      PROVE  Called(Domain[th[s].at])'
  <2>1. PICK q \in Threads : th[q].pc = "notify" /\ Domain[th[q].at] = Domain[th[s].at]
    BY <1>2 DEF Called, At
  <2>2. CASE th'[q] = Woken(d, th[q])
    <3>1. th'[q] = th[q]
      BY <2>1, <2>2 DEF Woken
    <3>2. th'[s].at = th[s].at
      BY <1>1, <1>2
    <3> QED
      BY <2>1, <3>1, <3>2 DEF Called, At
  <2>3. CASE th'[q] # Woken(d, th[q])
    <3>1. Domain[th[s].at] = d /\ lock[d] = NoThread
      BY <2>1, <2>3
    <3>2. th[s].pc = "sleep"
      BY <1>1, <1>2, <3>1 DEF Napping
    <3>3. lock[d] = s
      BY <3>1, <3>2 DEF WakeInv
    <3> QED
      BY <3>1, <3>3, EvalAssumption
  <2> QED
    BY <2>2, <2>3
<1> QED
  BY <1>1, <1>2 DEF WakeInv, Napping

LEMMA WakeNotify == ASSUME EvalInv, WakeInv, NEW t \in Threads, Notify(t) PROVE WakeInv'
<1> DEFINE d == Domain[th[t].at]
           r == [th[t] EXCEPT !.pc = After(t)]
<1>1. th[t] \in ThreadType /\ th[t].pc = "notify" /\ UNCHANGED <<p0, lock>> /\ lock[d] = NoThread
  BY TheThread DEF Notify, At, words
<1>2. \A s \in Threads : th'[s] = IF s = t THEN r ELSE Woken(d, th[s])
  <2>1. Woken(d, th[t]) = th[t]
    BY <1>1 DEF Woken
  <2>2. th' = [[s \in Threads |-> Woken(d, th[s])] EXCEPT ![t].pc = After(t)]
    BY DEF Notify
  <2> HIDE DEF d
  <2> QED
    BY <2>1, <2>2
<1>3. r.pc \in {"eval", "throw"}
  BY <1>1 DEF ThreadType, After
<1> HIDE DEF r
<1> QED
  BY <1>1, <1>2, <1>3, WakeDomain

LEMMA WakeNotifyInterrupt == ASSUME EvalInv, WakeInv, NotifyInterrupt PROVE WakeInv'
<1>1. PICK d \in notifying : th' = [s \in Threads |-> Woken(d, th[s])]
  BY DEF NotifyInterrupt
<1> QED
  BY <1>1, WakeDomain DEF NotifyInterrupt, words

LEMMA WakeRest ==
    ASSUME EvalInv, WakeInv, CollectItems \/ Interrupt \/ UNCHANGED vars PROVE WakeInv'
<1>1. UNCHANGED <<p0, lock>>
  BY DEF CollectItems, Interrupt, vars, words
<1>2. ASSUME NEW s \in Threads
      PROVE  th'[s] = th[s] \/ (th[s].pc \in {"collect", "waiting"} /\ th'[s].pc \in {"join", "idle"})
  <2>1. th[s] \in ThreadType
    BY TheThread
  <2> QED
    BY <2>1 DEF CollectItems, Interrupt, vars, At, ThreadType
<1>3. \A d : Called(d) => Called(d)'
  BY <1>2 DEF Called, At
<1> QED
  BY <1>1, <1>2, <1>3 DEF WakeInv, Napping

LEMMA WakeStays == EvalInv /\ WakeInv /\ [Next]_vars => WakeInv'
<1> SUFFICES ASSUME EvalInv, WakeInv, [Next]_vars PROVE WakeInv'
  OBVIOUS
<1>1. ASSUME NEW t \in Threads, ThreadStep(t) PROVE WakeInv'
  BY <1>1, WakeMoves, WakeForceNext, WakeClaim, WakeFinish, WakeTakeItem, WakeWorkOver,
     WakeWaitOnThunk, WakeSleep, WakeWake, WakeNotify DEF ThreadStep
<1>2. CASE Join
  BY <1>2, WakeMoves DEF Threads
<1> QED
  BY <1>1, <1>2, WakeNotifyInterrupt, WakeRest DEF Next

-----------------------------------------------------------------------------
(* The executor's items                                                    *)

Outcomes == {"none", "value", "exception"}
AtWork(i, T) == \E t \in Workers : T[t].pc \in Running /\ T[t].item = i

(* Workers wait or end when there is nothing to take, and none waits when  *)
(* the executor is destroyed; an item whose promise is not kept is in the  *)
(* queue, or a worker is at it.                                            *)
WorkInv ==
    /\ promise \in [scene.items -> Outcomes]
    /\ th[Main].pc \in Running \cup {"collect", "join", "end"}
    /\ th[Main].pc \in {"join", "end"} => quit /\ \A t \in Workers : th[t].pc # "waiting"
    /\ \A t \in Workers :
         /\ th[t].pc \in Running \cup {"idle", "waiting", "end"}
         /\ th[t].pc \in {"waiting", "end"} => queue = {}
    /\ \A i \in scene.items : promise[i] # "none" \/ i \in queue \/ AtWork(i, th)

LEMMA WorkInit == Init => WorkInv
<1> SUFFICES ASSUME Init PROVE WorkInv
  OBVIOUS
<1>1. /\ promise = [i \in scene.items |-> "none"] /\ queue = scene.items
      /\ th[Main].pc = "eval" /\ \A t \in Workers : th[t].pc = "idle"
  BY EvalAssumption DEF Init, NewThread, Threads
<1> QED
  BY <1>1 DEF WorkInv, Outcomes, Running, Forcing, Waiting

EvalStep(t) ==
    \/ ForceNext(t) \/ Evaluated(t) \/ EvalInterrupted(t) \/ Load(t) \/ Claim(t) \/ Got(t) \/ Fail(t)
    \/ Finish(t) \/ Notify(t) \/ WaitOnThunk(t) \/ Sleep(t) \/ Wake(t)

(* Evaluation takes nobody from the item that it works on.                 *)
LEMMA EvalMoves ==
    ASSUME EvalInv, NEW t \in Threads, EvalStep(t)
    PROVE  /\ UNCHANGED <<scene, queue, promise, quit>>
           /\ \A s \in Threads : /\ th'[s].item = th[s].item
                                 /\ th'[s].pc = th[s].pc \/ (th[s].pc \in Running /\ th'[s].pc \in Running)
<1>1. UNCHANGED <<scene, queue, promise, quit>>
  BY DEF EvalStep, ForceNext, Evaluated, EvalInterrupted, Load, Claim, Got, Fail, Finish, Notify,
         WaitOnThunk, Sleep, Wake, pool
<1>2. ASSUME NEW s \in Threads
      PROVE  /\ th'[s].item = th[s].item
             /\ th'[s].pc = th[s].pc \/ (th[s].pc \in Running /\ th'[s].pc \in Running)
  <2>1. th[s] \in ThreadType /\ th[t] \in ThreadType
    BY TheThread
  <2>2. th[t].pc \in Running
    BY DEF EvalStep, ForceNext, Evaluated, EvalInterrupted, Load, Claim, Got, Fail, Finish, Notify,
           WaitOnThunk, Sleep, Wake, At, Running, Forcing, Waiting
  <2>3. CASE ForceNext(t)
    <3> DEFINE n == Len(th[t].stack)
               u == [th[t].stack EXCEPT ![n].todo = Tail(@)]
               r == [th[t] EXCEPT !.pc = "load", !.at = Head(Top(t).todo), !.stack = u]
    <3>1. th' = [th EXCEPT ![t] = r]
      BY <2>3 DEF ForceNext, Become
    <3> HIDE DEF u
    <3>2. r.pc \in Running /\ r.item = th[t].item
      BY <2>1 DEF ThreadType, Running, Forcing
    <3> HIDE DEF r
    <3> QED
      BY <2>2, <3>1, <3>2 DEF EvalInv
  <2>4. CASE Notify(t)
    <3> DEFINE d == Domain[th[t].at]
               r == [th[t] EXCEPT !.pc = After(t)]
    <3>1. th' = [[q \in Threads |-> Woken(d, th[q])] EXCEPT ![t].pc = After(t)]
      BY <2>4 DEF Notify
    <3>2. Woken(d, th[s]).item = th[s].item
          /\ (Woken(d, th[s]) = th[s] \/ (th[s].pc = "asleep" /\ Woken(d, th[s]).pc = "woken"))
      BY <2>1 DEF Woken, ThreadType
    <3> HIDE DEF d
    <3>3. s # t => th'[s] = Woken(d, th[s])
      BY <3>1
    <3>4. s = t => th'[s].item = th[s].item /\ th'[s].pc \in {"eval", "throw"}
      <4>1. Woken(d, th[t]) = th[t]
        BY <2>4 DEF Notify, At, Woken
      <4> QED
        BY <2>1, <3>1, <4>1 DEF After, ThreadType
    <3> QED
      BY <2>2, <3>2, <3>3, <3>4 DEF Running, Forcing, Waiting
  <2>5. CASE Claim(t)
    <3> DEFINE v == th[t].at
               x == p0[v]
               u == Append(th[t].stack, [v |-> v, todo |-> scene.exprs[v]])
    <3>1. PICK r \in {[th[t] EXCEPT !.pc = "eval", !.stack = u],
                      [th[t] EXCEPT !.read = x, !.inTry = TRUE, !.pc = IF Final(x) THEN "got" ELSE "wait"]} :
            th' = [th EXCEPT ![t] = r]
      BY <2>5 DEF Claim, Become
    <3> HIDE DEF u
    <3>2. r.item = th[t].item /\ r.pc \in {"eval", "got", "wait"}
      BY <2>1 DEF ThreadType
    <3> QED
      BY <2>2, <3>1, <3>2 DEF EvalInv, Running, Forcing, Waiting
  <2>6. CASE Load(t)
    <3>1. /\ \A q \in Threads : q # t => th'[q] = th[q]
          /\ th'[t].item = th[t].item /\ th'[t].pc \in {"cas", "got", "wait"}
      BY <2>1, <2>6 DEF Load, Become, EvalInv, ThreadType
    <3> QED
      BY <2>2, <3>1 DEF Running, Forcing, Waiting
  <2>7. CASE Got(t)
    <3>1. /\ \A q \in Threads : q # t => th'[q] = th[q]
          /\ th'[t].item = th[t].item /\ th'[t].pc \in {"throw", "eval"}
      BY <2>1, <2>7 DEF Got, Become, EvalInv, ThreadType
    <3> QED
      BY <2>2, <3>1 DEF Running, Forcing, Waiting
  <2>8. CASE Finish(t)
    <3>1. /\ \A q \in Threads : q # t => th'[q] = th[q]
          /\ th'[t].item = th[t].item /\ th'[t].pc \in {"notify", "throw", "eval"}
      BY <2>1, <2>8 DEF Finish, Become, After, EvalInv, ThreadType
    <3> QED
      BY <2>2, <3>1 DEF Running, Forcing, Waiting
  <2>9. CASE Wake(t)
    <3>1. /\ \A q \in Threads : q # t => th'[q] = th[q]
          /\ th'[t].item = th[t].item /\ th'[t].pc \in {"got", "throw", "sleep"}
      BY <2>1, <2>9 DEF Wake, Become, EvalInv, ThreadType
    <3> QED
      BY <2>2, <3>1 DEF Running, Forcing, Waiting
  <2>10. CASE WaitOnThunk(t)
    <3> DEFINE x == p0[th[t].at]
    <3>1. PICK r \in {[th[t] EXCEPT !.read = x, !.pc = "got"],
                      [th[t] EXCEPT !.pc = "throw", !.exc = "error"],
                      [th[t] EXCEPT !.pc = "sleep"]} : th' = [th EXCEPT ![t] = r]
      BY <2>10 DEF WaitOnThunk, Become, Goto, Throw
    <3>2. r.item = th[t].item /\ r.pc \in {"got", "throw", "sleep"}
      BY <2>1 DEF ThreadType
    <3> QED
      BY <2>2, <3>1, <3>2 DEF EvalInv, Running, Forcing, Waiting
  <2>11. CASE Evaluated(t) \/ EvalInterrupted(t) \/ Fail(t) \/ Sleep(t)
    <3>1. PICK r \in {[th[t] EXCEPT !.pc = "throw", !.exc = "error"],
                      [th[t] EXCEPT !.pc = "throw", !.exc = "interrupted"],
                      [th[t] EXCEPT !.pc = "finish", !.exc = "none"],
                      [th[t] EXCEPT !.pc = "finish"],
                      [th[t] EXCEPT !.pc = "asleep"]} : th' = [th EXCEPT ![t] = r]
      BY <2>11 DEF Evaluated, EvalInterrupted, Fail, Sleep, Become, Goto, Throw
    <3>2. r.item = th[t].item /\ r.pc \in {"finish", "throw", "asleep"}
      BY <2>1 DEF ThreadType
    <3> QED
      BY <2>2, <3>1, <3>2 DEF EvalInv, Running, Forcing, Waiting
  <2> QED
    BY <2>3, <2>4, <2>5, <2>6, <2>7, <2>8, <2>9, <2>10, <2>11 DEF EvalStep
<1> QED
  BY <1>1, <1>2

LEMMA WorkEval ==
    ASSUME EvalInv, WorkInv, NEW t \in Threads, EvalStep(t) PROVE WorkInv'
<1>1. UNCHANGED <<scene, queue, promise, quit>>
  BY EvalMoves
<1>2. \A s \in Threads : /\ th'[s].item = th[s].item
                         /\ th'[s].pc = th[s].pc \/ (th[s].pc \in Running /\ th'[s].pc \in Running)
  BY EvalMoves
<1>3. Main \in Threads /\ Workers \subseteq Threads
  BY DEF Threads
<1>4. \A i : AtWork(i, th) => AtWork(i, th')
  BY <1>2, <1>3 DEF AtWork
<1>5. {"collect", "join", "end", "idle", "waiting"} \cap Running = {}
  BY DEF Running, Forcing, Waiting
<1>6. ASSUME NEW s \in Threads, th'[s].pc \in {"collect", "join", "end", "idle", "waiting"}
      PROVE  th'[s].pc = th[s].pc
  BY <1>2, <1>5, <1>6
<1>7. \A s \in Threads : th[s].pc \in Running => th'[s].pc \in Running
  BY <1>2
<1>8. \A i \in scene.items : promise[i] # "none" \/ i \in queue \/ AtWork(i, th')
  BY <1>4 DEF WorkInv
<1>9. \A s \in Workers : /\ th'[s].pc \in Running \cup {"idle", "waiting", "end"}
                         /\ th'[s].pc \in {"waiting", "end"} => queue = {}
  BY <1>2, <1>3, <1>6 DEF WorkInv
<1>10. /\ th'[Main].pc \in Running \cup {"collect", "join", "end"}
       /\ th'[Main].pc \in {"join", "end"} => quit /\ \A s \in Workers : th'[s].pc # "waiting"
  BY <1>2, <1>3, <1>6 DEF WorkInv
<1> QED
  BY <1>1, <1>8, <1>9, <1>10 DEF WorkInv

(* A step of the thread t outside evaluation.                              *)
LEMMA WorkTakeItem == ASSUME EvalInv, WorkInv, NEW t \in Threads, TakeItem(t) PROVE WorkInv'
<1>1. th[t] \in ThreadType /\ th[t].pc = "idle" /\ UNCHANGED <<scene, promise, quit>>
  BY TheThread DEF TakeItem, At
<1>2. PICK i \in queue :
        /\ queue' = queue \ {i}
        /\ th' = [th EXCEPT ![t] = [th[t] EXCEPT !.pc = "eval", !.item = i,
                                                 !.stack = <<[v |-> NoValue, todo |-> <<i>>]>>]]
  BY DEF TakeItem, Become
<1> DEFINE s == <<[v |-> NoValue, todo |-> <<i>>]>>
           r == [th[t] EXCEPT !.pc = "eval", !.item = i, !.stack = s]
<1>3. th' = [th EXCEPT ![t] = r]
  BY <1>2
<1> HIDE DEF s
<1>4. r.pc = "eval" /\ r.item = i
  BY <1>1 DEF ThreadType
<1> HIDE DEF r
<1>5. \A q \in Threads : th'[q] = IF q = t THEN r ELSE th[q]
  BY <1>3 DEF EvalInv
<1>6. t \in Workers /\ Workers \subseteq Threads /\ Main \in Threads /\ Main # t
  BY <1>1 DEF WorkInv, Threads, Running, Forcing, Waiting
<1>7. "eval" \in Running /\ "idle" \notin Running
  BY DEF Running, Forcing, Waiting
<1>8. AtWork(i, th')
  BY <1>4, <1>5, <1>6, <1>7 DEF AtWork
<1>9. \A j : AtWork(j, th) => AtWork(j, th')
  BY <1>1, <1>5, <1>6, <1>7 DEF AtWork
<1>10. \A j \in scene.items : promise[j] # "none" \/ j \in queue' \/ AtWork(j, th')
  BY <1>2, <1>8, <1>9 DEF WorkInv
<1>11. /\ th'[Main] = th[Main] /\ \A q \in Workers : th'[q].pc = th[q].pc \/ th'[q].pc = "eval"
  BY <1>4, <1>5, <1>6
<1>12. \A q \in Workers : /\ th'[q].pc \in Running \cup {"idle", "waiting", "end"}
                          /\ th'[q].pc \in {"waiting", "end"} => queue' = {}
  BY <1>2, <1>7, <1>11 DEF WorkInv
<1>13. th'[Main].pc \in {"join", "end"} => quit /\ \A q \in Workers : th'[q].pc # "waiting"
  BY <1>11 DEF WorkInv
<1> QED
  BY <1>1, <1>10, <1>11, <1>12, <1>13 DEF WorkInv

LEMMA WorkWait == ASSUME EvalInv, WorkInv, NEW t \in Threads, WaitForItems(t) PROVE WorkInv'
<1> DEFINE r == [th[t] EXCEPT !.pc = "waiting"]
<1>1. th[t] \in ThreadType /\ th[t].pc = "idle" /\ ~quit /\ queue = {}
  BY TheThread DEF WaitForItems, At
<1>2. th' = [th EXCEPT ![t] = r] /\ UNCHANGED <<scene, queue, promise, quit>>
  BY DEF WaitForItems, Goto, pool
<1>3. r.pc = "waiting"
  BY <1>1 DEF ThreadType
<1> HIDE DEF r
<1>4. \A q \in Threads : th'[q] = IF q = t THEN r ELSE th[q]
  BY <1>2 DEF EvalInv
<1>5. t \in Workers /\ Workers \subseteq Threads /\ Main \in Threads /\ Main # t
  BY <1>1 DEF WorkInv, Threads, Running, Forcing, Waiting
<1>6. \A j : AtWork(j, th) => AtWork(j, th')
  <2>1. "idle" \notin Running
    BY DEF Running, Forcing, Waiting
  <2> QED
    BY <1>1, <1>4, <1>5, <2>1 DEF AtWork
<1>7. \A j \in scene.items : promise[j] # "none" \/ j \in queue \/ AtWork(j, th')
  BY <1>6 DEF WorkInv
<1>8. th[Main].pc \notin {"join", "end"} /\ th'[Main] = th[Main]
  BY <1>1, <1>4, <1>5 DEF WorkInv
<1>9. \A q \in Workers : th'[q].pc \in Running \cup {"idle", "waiting", "end"}
  BY <1>3, <1>4, <1>5 DEF WorkInv
<1> QED
  BY <1>1, <1>2, <1>7, <1>8, <1>9 DEF WorkInv

LEMMA WorkLeave == ASSUME EvalInv, WorkInv, NEW t \in Threads, Leave(t) PROVE WorkInv'
<1> DEFINE r == [th[t] EXCEPT !.pc = "end"]
<1>1. th[t] \in ThreadType /\ th[t].pc = "idle" /\ quit
  BY TheThread DEF Leave, At
<1>2. /\ th' = [th EXCEPT ![t] = r] /\ UNCHANGED <<scene, quit>> /\ queue' = {}
      /\ promise' = [i \in scene.items |-> IF i \in queue THEN "exception" ELSE promise[i]]
  BY DEF Leave, Goto
<1>3. r.pc = "end"
  BY <1>1 DEF ThreadType
<1> HIDE DEF r
<1>4. \A q \in Threads : th'[q] = IF q = t THEN r ELSE th[q]
  BY <1>2 DEF EvalInv
<1>5. t \in Workers /\ Workers \subseteq Threads /\ Main \in Threads /\ Main # t
  BY <1>1 DEF WorkInv, Threads, Running, Forcing, Waiting
<1>6. \A j : AtWork(j, th) => AtWork(j, th')
  <2>1. "idle" \notin Running
    BY DEF Running, Forcing, Waiting
  <2> QED
    BY <1>1, <1>4, <1>5, <2>1 DEF AtWork
<1>7. promise' \in [scene.items -> Outcomes]
  BY <1>2 DEF WorkInv, Outcomes
<1>8. \A j \in scene.items : promise'[j] # "none" \/ AtWork(j, th')
  BY <1>2, <1>6 DEF WorkInv
<1>9. /\ th'[Main] = th[Main]
      /\ \A q \in Workers : th'[q].pc = th[q].pc \/ th'[q].pc = "end"
  BY <1>3, <1>4, <1>5
<1>10. \A q \in Workers : th'[q].pc \in Running \cup {"idle", "waiting", "end"}
  BY <1>9 DEF WorkInv
<1>11. th'[Main].pc \in {"join", "end"} => quit /\ \A q \in Workers : th'[q].pc # "waiting"
  BY <1>9 DEF WorkInv
<1> QED
  BY <1>2, <1>7, <1>8, <1>9, <1>10, <1>11 DEF WorkInv

LEMMA WorkWorkOver == ASSUME EvalInv, WorkInv, NEW t \in Threads, WorkOver(t) PROVE WorkInv'
<1>1. /\ th[t] \in ThreadType /\ th[t].pc \in {"eval", "throw"} /\ UNCHANGED <<scene, queue>>
      /\ Workers \subseteq Threads /\ Main \in Threads
  BY TheThread DEF WorkOver, At, pool, Threads
<1>2. {"eval", "throw"} \subseteq Running
  BY DEF Running
<1>3. CASE t = Main
  <2> DEFINE r == [th[t] EXCEPT !.pc = "collect"]
  <2>1. th' = [th EXCEPT ![t] = r] /\ UNCHANGED <<promise, quit>>
    BY <1>3 DEF WorkOver, Goto, pool
  <2>2. r.pc = "collect"
    BY <1>1 DEF ThreadType
  <2> HIDE DEF r
  <2>3. th'[Main] = r /\ \A q \in Workers : th'[q] = th[q]
    BY <1>1, <1>3, <2>1, EvalAssumption DEF EvalInv
  <2>4. \A j : AtWork(j, th) => AtWork(j, th')
    BY <2>3 DEF AtWork
  <2>5. \A j \in scene.items : promise[j] # "none" \/ j \in queue \/ AtWork(j, th')
    BY <2>4 DEF WorkInv
  <2> QED
    BY <1>1, <2>1, <2>2, <2>3, <2>5 DEF WorkInv
<1>4. CASE t # Main
  <2> DEFINE r == [th[t] EXCEPT !.pc = "idle", !.item = NoValue, !.stack = <<>>]
             exc == IF th[t].pc = "throw" THEN th[t].exc ELSE "none"
             out == IF exc = "none" THEN "value" ELSE "exception"
  <2>1. /\ th' = [th EXCEPT ![t] = r] /\ (quit => quit')
        /\ promise' = [promise EXCEPT ![th[t].item] = out]
    BY <1>4 DEF WorkOver, Become, At
  <2>2. r.pc = "idle"
    BY <1>1 DEF ThreadType
  <2>3. out \in {"value", "exception"}
    OBVIOUS
  <2> HIDE DEF r, out
  <2>4. \A q \in Threads : th'[q] = IF q = t THEN r ELSE th[q]
    BY <2>1 DEF EvalInv
  <2>5. promise' \in [scene.items -> Outcomes]
    BY <2>1, <2>3 DEF WorkInv, Outcomes
  <2>6. \A j \in scene.items : promise'[j] = IF j = th[t].item THEN out ELSE promise[j]
    BY <2>1 DEF WorkInv
  <2>7. \A j : j # th[t].item /\ AtWork(j, th) => AtWork(j, th')
    BY <1>1, <2>4 DEF AtWork
  <2>8. \A j \in scene.items : promise'[j] # "none" \/ j \in queue \/ AtWork(j, th')
    BY <2>3, <2>6, <2>7 DEF WorkInv
  <2>9. /\ th'[Main] = th[Main]
        /\ \A q \in Workers : th'[q].pc = th[q].pc \/ th'[q].pc = "idle"
    BY <1>1, <1>4, <2>2, <2>4
  <2>10. \A q \in Workers : /\ th'[q].pc \in Running \cup {"idle", "waiting", "end"}
                            /\ th'[q].pc \in {"waiting", "end"} => queue = {}
    BY <2>9 DEF WorkInv
  <2>11. th'[Main].pc \in {"join", "end"} => quit' /\ \A q \in Workers : th'[q].pc # "waiting"
    BY <2>1, <2>9 DEF WorkInv
  <2> QED
    BY <1>1, <2>5, <2>8, <2>9, <2>10, <2>11 DEF WorkInv
<1> QED
  BY <1>3, <1>4

LEMMA WorkMain ==
    ASSUME EvalInv, WorkInv,
           CollectItems \/ Join \/ Interrupt \/ NotifyInterrupt \/ UNCHANGED vars
    PROVE  WorkInv'
<1>1. /\ UNCHANGED <<scene, queue, promise>> /\ (quit => quit')
      /\ Workers \subseteq Threads /\ Main \in Threads /\ Main \notin Workers
  BY EvalAssumption DEF CollectItems, Join, Interrupt, NotifyInterrupt, vars, pool, Threads
<1>2. \A s \in Threads : th[s] \in ThreadType
  BY TheThread
<1>3. CASE CollectItems
  <2>1. /\ quit' /\ th'[Main].pc = "join"
        /\ \A s \in Workers : th'[s] = IF th[s].pc = "waiting" THEN [th[s] EXCEPT !.pc = "idle"] ELSE th[s]
    BY <1>1, <1>2, <1>3 DEF CollectItems, At, ThreadType
  <2>2. \A s \in Workers : /\ th'[s].pc # "waiting"
                           /\ th'[s] = th[s] \/ (th[s].pc = "waiting" /\ th'[s].pc = "idle")
    BY <1>1, <1>2, <2>1 DEF ThreadType
  <2>3. \A j : AtWork(j, th) => AtWork(j, th')
    <3>1. "waiting" \notin Running
      BY DEF Running, Forcing, Waiting
    <3> QED
      BY <2>2, <3>1 DEF AtWork
  <2>4. \A j \in scene.items : promise[j] # "none" \/ j \in queue \/ AtWork(j, th')
    BY <2>3 DEF WorkInv
  <2>5. \A q \in Workers : /\ th'[q].pc \in Running \cup {"idle", "waiting", "end"}
                           /\ th'[q].pc \in {"waiting", "end"} => queue = {}
    BY <2>2 DEF WorkInv
  <2> QED
    BY <1>1, <2>1, <2>2, <2>4, <2>5 DEF WorkInv
<1>4. CASE Join
  <2>1. th[Main].pc = "join" /\ th'[Main].pc = "end" /\ \A s \in Workers : th'[s] = th[s]
    BY <1>1, <1>2, <1>4 DEF Join, Goto, At, ThreadType, EvalInv
  <2>2. \A j : AtWork(j, th) => AtWork(j, th')
    BY <2>1 DEF AtWork
  <2>3. \A j \in scene.items : promise[j] # "none" \/ j \in queue \/ AtWork(j, th')
    BY <2>2 DEF WorkInv
  <2> QED
    BY <1>1, <2>1, <2>3 DEF WorkInv
<1>5. CASE Interrupt \/ NotifyInterrupt \/ UNCHANGED vars
  <2>1. ASSUME NEW s \in Threads
        PROVE  /\ th'[s].item = th[s].item
               /\ th'[s].pc = th[s].pc \/ (th[s].pc = "asleep" /\ th'[s].pc = "woken")
    BY <1>2, <1>5 DEF Interrupt, NotifyInterrupt, Woken, vars, ThreadType
  <2>2. {"asleep", "woken"} \subseteq Running
    BY DEF Running, Forcing, Waiting
  <2>3. \A j : AtWork(j, th) => AtWork(j, th')
    BY <1>1, <2>1, <2>2 DEF AtWork
  <2>4. \A j \in scene.items : promise[j] # "none" \/ j \in queue \/ AtWork(j, th')
    BY <2>3 DEF WorkInv
  <2>5. \A q \in Workers : /\ th'[q].pc \in Running \cup {"idle", "waiting", "end"}
                           /\ th'[q].pc \in {"waiting", "end"} => queue = {}
    BY <1>1, <2>1, <2>2 DEF WorkInv
  <2>6. /\ th'[Main].pc \in Running \cup {"collect", "join", "end"}
        /\ th'[Main].pc \in {"join", "end"} => quit /\ \A q \in Workers : th'[q].pc # "waiting"
    BY <1>1, <2>1, <2>2 DEF WorkInv
  <2> QED
    BY <1>1, <2>4, <2>5, <2>6 DEF WorkInv
<1> QED
  BY <1>3, <1>4, <1>5

LEMMA WorkStays == EvalInv /\ WorkInv /\ [Next]_vars => WorkInv'
<1> SUFFICES ASSUME EvalInv, WorkInv, [Next]_vars PROVE WorkInv'
  OBVIOUS
<1>1. ASSUME NEW t \in Threads, ThreadStep(t) PROVE WorkInv'
  BY <1>1, WorkEval, WorkTakeItem, WorkWait, WorkLeave, WorkWorkOver DEF ThreadStep, EvalStep
<1> QED
  BY <1>1, WorkMain DEF Next

-----------------------------------------------------------------------------
(* Somebody can go on                                                      *)

(* If no thread is ready then each of them is parked: who holds a domain   *)
(* that another wants is ready.                                            *)
LEMMA AllParked ==
    ASSUME EvalInv, \A t \in Threads : ~Ready(t)
    PROVE  \A t \in Threads : th[t].pc \in Parked
<1> SUFFICES ASSUME NEW t \in Threads, th[t].pc \notin Parked PROVE FALSE
  OBVIOUS
<1>1. th[t].pc \in {"notify", "wait", "woken"} /\ lock[Domain[th[t].at]] # NoThread
  BY DEF Ready
<1>2. th[t].at \in Values
  BY <1>1 DEF EvalInv, ThreadOK, Forcing, Waiting
<1>3. PICK s \in Threads : th[s].pc = "sleep"
  BY <1>1, <1>2 DEF EvalInv, World, LockInv, At, Domains
<1>4. Ready(s)
  BY <1>3 DEF Ready, Parked
<1> QED
  BY <1>4

(* Nor is any asleep: the values that are evaluated would wait for each    *)
(* other in a cycle.                                                       *)
LEMMA NoneAsleep ==
    ASSUME EvalInv, ReadInv, WakeInv, ~stolen, Acyclic, \A t \in Threads : th[t].pc \in Parked
    PROVE  \A t \in Threads : th[t].pc # "asleep"
<1> SUFFICES ASSUME NEW t0 \in Threads, th[t0].pc = "asleep" PROVE FALSE
  OBVIOUS
<1> DEFINE S == {v \in Values : p0[v].pd \in Busy}
<1>1. \A t \in Threads : th[t].pc = "asleep" => th[t].at \in S
  <2>1. \A d : ~Called(d)
    BY DEF Called, At, Parked
  <2> QED
    BY <2>1 DEF WakeInv, Napping, EvalInv, ThreadOK, Forcing, Waiting, Busy
<1>2. PICK x \in S : Forces(x) \cap S = {}
  BY <1>1 DEF Acyclic
<1> DEFINE t == p0[x].by
           s == th[t].stack
<1>3. t \in Threads /\ x \in Mine(t)
  BY DEF EvalInv, OwnInv, Mine
<1>4. On(s) = Mine(t) /\ Mine(t) \subseteq S
  BY <1>3 DEF EvalInv, OwnInv, Mine
<1>5. ThreadOK(th[t]) /\ th[t].pc \in Parked
  BY <1>3, TheThread
<1>6. th[t].pc = "asleep" /\ th[t].pc \in Running /\ th[t].pc \in Seeking
  BY <1>3, <1>4, <1>5 DEF ThreadOK, Parked, Running, Forcing, Waiting, Seeking
<1>7. th[t].at \in S
  BY <1>1, <1>3, <1>6
<1> HIDE DEF t
<1>8. /\ Chain(s) /\ TopReads(Top(t), th[t], p1) /\ Stack(s) /\ s # <<>> /\ Top(t) = s[Len(s)]
      /\ Len(s) \in Nat
  BY <1>3, <1>6, ReadsOf, TopIsMine, LenProperties DEF Stack
<1>9. PICK k \in 1..Len(s) : s[k].v = x
  BY <1>3, <1>4 DEF On
<1>10. x # NoValue
  BY EvalAssumption
<1>11. CASE k = Len(s)
  <2>1. th[t].at \in Forces(x)
    BY <1>6, <1>8, <1>9, <1>10, <1>11 DEF TopReads
  <2> QED
    BY <1>2, <1>7, <2>1
<1>12. CASE k # Len(s)
  <2>1. k < Len(s) /\ k + 1 \in 1..Len(s) /\ k + 1 # 1
    BY <1>8, <1>12
  <2>2. s[k + 1].v \in Forces(x)
    BY <1>8, <1>9, <1>10, <2>1 DEF Chain
  <2>3. s[k + 1].v # NoValue
    BY <1>8, <2>1 DEF Stack
  <2>4. s[k + 1].v \in S
    BY <1>4, <2>1, <2>3 DEF On
  <2> QED
    BY <1>2, <2>2, <2>4
<1> QED
  BY <1>11, <1>12

LEMMA InvNeverStuck == EvalInv /\ ReadInv /\ WakeInv /\ WorkInv => EvalNeverStuck
<1> SUFFICES ASSUME EvalInv, ReadInv, WakeInv, WorkInv, ~stolen, Acyclic, th[Main].pc # "end",
                    \A t \in Threads : ~Ready(t)
             PROVE  \/ th[Main].pc = "collect" /\ (scene.waits => \A i \in scene.items : promise[i] # "none")
                    \/ th[Main].pc = "join" /\ \A t \in Workers : th[t].pc = "end"
  BY DEF EvalNeverStuck, At
<1>1. \A t \in Threads : th[t].pc \in Parked \ {"asleep"}
  BY AllParked, NoneAsleep
<1>2. (Parked \ {"asleep"}) \cap Running = {}
  BY DEF Parked, Running, Forcing, Waiting
<1>3. Main \in Threads /\ Workers \subseteq Threads /\ Workers # {}
  BY EvalAssumption DEF Threads
<1>4. th[Main].pc \in {"collect", "join"}
  BY <1>1, <1>2, <1>3 DEF WorkInv
<1>5. \A t \in Workers : th[t].pc \in {"waiting", "end"}
  BY <1>1, <1>2, <1>3 DEF WorkInv, Parked
<1>6. queue = {}
  BY <1>3, <1>5 DEF WorkInv
<1>7. \A i : ~AtWork(i, th)
  BY <1>1, <1>2, <1>3 DEF AtWork
<1>8. \A i \in scene.items : promise[i] # "none"
  BY <1>6, <1>7 DEF WorkInv
<1>9. th[Main].pc = "join" => \A t \in Workers : th[t].pc = "end"
  BY <1>5 DEF WorkInv
<1> QED
  BY <1>4, <1>8, <1>9

(* Threads that force each other's values never come to a stop, however    *)
(* many share a domain, as long as no expression needs itself: no wakeup   *)
(* is lost between the decision to wait and the sleep, no item is left     *)
(* when all the workers wait for items, and an interrupt, of a thread or   *)
(* of an item, changes nothing of that.                                    *)
THEOREM NobodyStuck == Spec => []EvalNeverStuck
<1>1. Init => EvalInv /\ ReadInv /\ WakeInv /\ WorkInv
  BY EvalInit, ReadInit, WakeInit, WorkInit
<1>2. EvalInv /\ ReadInv /\ WakeInv /\ WorkInv /\ [Next]_vars => (EvalInv /\ ReadInv /\ WakeInv /\ WorkInv)'
  BY EvalStays, ReadStays, WakeStays, WorkStays
<1> QED
  BY <1>1, <1>2, InvNeverStuck, PTL DEF Spec
=============================================================================
