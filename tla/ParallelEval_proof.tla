------------------------- MODULE ParallelEval_proof -------------------------
(***************************************************************************)
(* What holds of parallel evaluation for any number of workers, values,    *)
(* domains and expressions, interrupted or not.                            *)
(***************************************************************************)
EXTENDS ParallelEval, SequenceTheorems, TLAPS

-----------------------------------------------------------------------------
(* The stack of a thread                                                   *)

Frame == [v : Values \cup {NoValue}, todo : Seq(Values)]

(* What is evaluated; only the bottom of the stack is not a value.         *)
On(s) == {s[n].v : n \in 1..Len(s)} \ {NoValue}
Distinct(s) == \A m, n \in 1..Len(s) : s[m].v = s[n].v => m = n
Stack(s) == s \in Seq(Frame) /\ \A n \in 1..Len(s) : s[n].v = NoValue <=> n = 1

LEMMA Pushed ==
    ASSUME NEW s, Stack(s), s # <<>>, NEW f \in Frame, f.v # NoValue
    PROVE  /\ Stack(Append(s, f)) /\ Append(s, f) # <<>>
           /\ On(Append(s, f)) = On(s) \cup {f.v}
           /\ Distinct(s) /\ f.v \notin On(s) => Distinct(Append(s, f))
<1>1. s \in Seq(Frame) /\ Len(s) \in Nat /\ Len(s) # 0
  BY EmptySeq, LenProperties DEF Stack
<1>2. /\ Append(s, f) \in Seq(Frame) /\ Append(s, f) # <<>>
      /\ Len(Append(s, f)) = Len(s) + 1
      /\ \A n \in 1..Len(s) : Append(s, f)[n] = s[n]
      /\ Append(s, f)[Len(s) + 1] = f
  BY <1>1, AppendProperties
<1>3. Stack(Append(s, f))
  BY <1>1, <1>2 DEF Stack
<1>4. On(Append(s, f)) = On(s) \cup {f.v}
  <2>1. 1..(Len(s) + 1) = 1..Len(s) \cup {Len(s) + 1}
    BY <1>1
  <2> QED
    BY <1>2, <2>1 DEF On
<1>5. ASSUME Distinct(s), f.v \notin On(s) PROVE Distinct(Append(s, f))
  <2>1. \A n \in 1..Len(s) : s[n].v # f.v
    BY <1>5 DEF On
  <2> QED
    BY <1>1, <1>2, <1>5, <2>1 DEF Distinct
<1> QED
  BY <1>2, <1>3, <1>4, <1>5

LEMMA Popped ==
    ASSUME NEW s, Stack(s), s # <<>>, s[Len(s)].v # NoValue
    PROVE  /\ Stack(Pop(s)) /\ Pop(s) # <<>>
           /\ Distinct(s) => On(Pop(s)) = On(s) \ {s[Len(s)].v} /\ Distinct(Pop(s))
<1>1. s \in Seq(Frame) /\ Len(s) \in Nat /\ Len(s) > 1
  BY EmptySeq, LenProperties DEF Stack
<1>2. /\ Pop(s) \in Seq(Frame) /\ Len(Pop(s)) = Len(s) - 1
      /\ \A n \in 1..(Len(s) - 1) : Pop(s)[n] = s[n]
  BY <1>1, SubSeqProperties DEF Pop
<1>3. Stack(Pop(s)) /\ Pop(s) # <<>>
  BY <1>1, <1>2, EmptySeq DEF Stack
<1>4. ASSUME Distinct(s) PROVE On(Pop(s)) = On(s) \ {s[Len(s)].v} /\ Distinct(Pop(s))
  <2>1. 1..Len(s) = 1..(Len(s) - 1) \cup {Len(s)}
    BY <1>1
  <2>2. \A n \in 1..(Len(s) - 1) : s[n].v # s[Len(s)].v
    BY <1>1, <1>4 DEF Distinct
  <2> QED
    BY <1>1, <1>2, <1>4, <2>1, <2>2 DEF On, Distinct
<1> QED
  BY <1>3, <1>4

(* A frame that forces its next value.                                     *)
LEMMA Advanced ==
    ASSUME NEW s, Stack(s), s # <<>>, s[Len(s)].todo # <<>>,
           NEW u, u = [s EXCEPT ![Len(s)].todo = Tail(@)]
    PROVE  /\ Stack(u) /\ u # <<>> /\ On(u) = On(s)
           /\ Distinct(s) => Distinct(u)
           /\ Head(s[Len(s)].todo) \in Values
<1> DEFINE f == [s[Len(s)] EXCEPT !.todo = Tail(@)]
<1>1. s \in Seq(Frame) /\ Len(s) \in Nat /\ Len(s) \in 1..Len(s)
  BY EmptySeq, LenProperties DEF Stack
<1>2. s[Len(s)] \in Frame
  BY <1>1, ElementOfSeq
<1>3. Head(s[Len(s)].todo) \in Values /\ Tail(s[Len(s)].todo) \in Seq(Values)
  BY <1>2, HeadTailProperties DEF Frame
<1>4. f \in Frame /\ f.v = s[Len(s)].v
  BY <1>2, <1>3 DEF Frame
<1>5. /\ u \in Seq(Frame) /\ Len(u) = Len(s)
      /\ \A n \in 1..Len(s) : u[n].v = s[n].v
  <2>1. u = [s EXCEPT ![Len(s)] = f]
    OBVIOUS
  <2> HIDE DEF f
  <2>2. /\ u \in Seq(Frame) /\ Len(u) = Len(s)
        /\ \A n \in 1..Len(s) : u[n] = IF n = Len(s) THEN f ELSE s[n]
    BY ONLY <1>1, <1>4, <2>1, ExceptSeq
  <2> QED
    BY <1>4, <2>2
<1>6. u # <<>>
  BY <1>1, <1>5, EmptySeq
<1>7. Stack(u) /\ On(u) = On(s)
  BY <1>1, <1>5 DEF Stack, On
<1>8. Distinct(s) => Distinct(u)
  BY <1>1, <1>5 DEF Distinct
<1> QED
  BY <1>3, <1>6, <1>7, <1>8

-----------------------------------------------------------------------------
(* The invariant                                                           *)

Words == {"code", "value", "error", "interrupted"}
Word0 == [pd : {"thunk", "pending", "awaited", "done", "failed"}, by : Threads \cup {NoThread}]
Busy == {"pending", "awaited"}

Waiting == {"wait", "sleep", "asleep", "woken"}
Forcing == {"load", "cas", "got", "notify"} \cup Waiting
Running == {"eval", "throw", "finish"} \cup Forcing

Gots == {<<v, pd, x>> : v \in Values \cup {NoValue},
                        pd \in {"none", "thunk", "pending", "awaited", "done", "failed"},
                        x \in Words \cup {"none"}}

ThreadType ==
    [pc : {"idle", "waiting", "end", "collect", "join"} \cup Running,
     at : Values \cup {NoValue}, read : Word0, inTry : BOOLEAN, stack : Seq(Frame),
     item : Values \cup {NoValue}, exc : Words \cup {"none"},
     got : Gots]

ThreadOK(r) ==
    /\ r \in ThreadType
    /\ Stack(r.stack)
    /\ r.pc \in Running => r.stack # <<>>
    /\ r.pc \notin Running => On(r.stack) = {}
    /\ r.pc \in Forcing => r.at \in Values
    /\ r.pc = "finish" => r.stack[Len(r.stack)].v # NoValue
    /\ r.pc = "throw" => r.exc # "none"

World ==
    /\ scene \in Scenarios
    /\ p0 \in [Values -> Word0] /\ p1 \in [Values -> Words]
    /\ lock \in [Domains -> Threads \cup {NoThread}]
    /\ queue \subseteq scene.items /\ notifying \subseteq Domains /\ stolen \in BOOLEAN

(* Who holds a domain is about to sleep in it.                             *)
LockInv ==
    \A d \in Domains : lock[d] # NoThread =>
        At(lock[d], "sleep") /\ Domain[th[lock[d]].at] = d

(* A thread evaluates what its name is on, each once.                      *)
Mine(t) == {v \in Values : p0[v].pd \in Busy /\ p0[v].by = t}
OwnInv ==
    /\ \A t \in Threads : Distinct(th[t].stack) /\ On(th[t].stack) = Mine(t)
    /\ \A v \in Values : p0[v].pd \in Busy => p0[v].by \in Threads

EvalInv ==
    /\ World
    /\ th \in [Threads -> ThreadType] /\ \A t \in Threads : ThreadOK(th[t])
    /\ LockInv
    /\ \A t \in Threads : th[t].pc \in Waiting => p0[th[t].at].pd # "thunk"
    /\ ~stolen => OwnInv

LEMMA EvalInvTypes == EvalInv => EvalTypeOK
<1> SUFFICES ASSUME EvalInv PROVE EvalTypeOK
  OBVIOUS
<1>1. ASSUME ~stolen, NEW v \in Values
      PROVE Evaluators(v) = IF p0[v].pd \in Busy THEN {p0[v].by} ELSE {}
  <2>1. \A t \in Threads : t \in Evaluators(v) <=> v \in On(th[t].stack)
    BY EvalAssumption DEF Evaluators, On
  <2>2. \A t \in Threads : t \in Evaluators(v) <=> p0[v].pd \in Busy /\ p0[v].by = t
    BY <1>1, <2>1 DEF EvalInv, OwnInv, Mine
  <2>3. p0[v].pd \in Busy => p0[v].by \in Threads
    BY <1>1 DEF EvalInv, OwnInv
  <2>4. Evaluators(v) \subseteq Threads
    BY DEF Evaluators
  <2> QED
    BY <2>2, <2>3, <2>4
<1>2. \A v \in Values : p0[v].pd \in {"thunk", "pending", "awaited", "done", "failed"}
  BY DEF EvalInv, World, Word0
<1> QED
  BY <1>1, <1>2 DEF EvalTypeOK, EvalInv, World, LockInv, Waiting, Words, Busy

LEMMA EvalInit == Init => EvalInv
<1> SUFFICES ASSUME Init PROVE EvalInv
  OBVIOUS
<1>1. /\ scene \in Scenarios /\ scene.roots \in Seq(Values) /\ scene.items \subseteq Values
      /\ p0 = [v \in Values |-> [pd |-> "thunk", by |-> NoThread]]
      /\ p1 = [v \in Values |-> "code"] /\ lock = [d \in Domains |-> NoThread]
      /\ queue = scene.items /\ notifying = {} /\ stolen = FALSE
  BY EvalAssumption DEF Init
<1>2. World
  BY <1>1 DEF World, Words, Word0
<1> DEFINE bottom == <<[v |-> NoValue, todo |-> scene.roots]>>
           main == [NewThread EXCEPT !.pc = "eval", !.stack = bottom]
<1>3. th = [t \in Threads |-> IF t = Main THEN main ELSE NewThread]
  BY DEF Init
<1>4. ThreadOK(NewThread) /\ NewThread.pc = "idle" /\ NewThread.stack = <<>>
  <2>1. Stack(<<>>) /\ On(<<>>) = {} /\ <<>> \in Seq(Frame)
    BY EmptySeq DEF Stack, On
  <2>2. <<NoValue, "none", "none">> \in Gots
    BY DEF Gots
  <2>3. NewThread \in ThreadType
    BY <2>1, <2>2 DEF NewThread, ThreadType, Words, Word0
  <2> QED
    BY <2>1, <2>3 DEF ThreadOK, NewThread, Running, Forcing, Waiting
<1>5. /\ Stack(bottom) /\ bottom # <<>> /\ On(bottom) = {} /\ Distinct(bottom)
      /\ On(<<>>) = {} /\ Distinct(<<>>)
  BY <1>1 DEF Stack, Frame, On, Distinct
<1>6. ThreadOK(main) /\ main.pc = "eval" /\ main.stack = bottom
  <2> HIDE DEF bottom
  <2> QED
    BY <1>4, <1>5 DEF ThreadOK, NewThread, ThreadType, Stack, Words, Word0, Running, Forcing, Waiting
<1> HIDE DEF main, bottom
<1>7. \A t \in Threads : /\ ThreadOK(th[t]) /\ th[t].pc \notin Waiting
                         /\ On(th[t].stack) = {} /\ Distinct(th[t].stack)
  BY <1>3, <1>4, <1>5, <1>6 DEF Waiting
<1>8. th \in [Threads -> ThreadType]
  BY <1>3, <1>4, <1>6 DEF ThreadOK
<1>9. LockInv /\ OwnInv
  BY <1>1, <1>7 DEF LockInv, OwnInv, Mine, Busy
<1> QED
  BY <1>2, <1>7, <1>8, <1>9 DEF EvalInv

-----------------------------------------------------------------------------
(* Steps that leave the words and the locks alone                          *)

SameStack(s, u) == On(u) = On(s) /\ (Distinct(s) => Distinct(u))

LEMMA Quiet ==
    ASSUME EvalInv, World', UNCHANGED <<p0, lock, stolen>>, th' \in [Threads -> ThreadType],
           \A s \in Threads :
               /\ ThreadOK(th'[s]) /\ SameStack(th[s].stack, th'[s].stack)
               /\ th[s].pc = "sleep" => th'[s] = th[s]
               /\ th'[s].pc \in Waiting => p0[th'[s].at].pd # "thunk"
    PROVE  EvalInv'
<1>1. LockInv'
  BY DEF EvalInv, World, LockInv, At
<1>2. ~stolen => OwnInv'
  BY DEF EvalInv, OwnInv, Mine, SameStack
<1> QED
  BY <1>1, <1>2 DEF EvalInv

LEMMA QuietOne ==
    ASSUME EvalInv, World', UNCHANGED <<p0, lock, stolen>>, NEW t \in Threads, NEW r,
           th' = [th EXCEPT ![t] = r], ThreadOK(r), SameStack(th[t].stack, r.stack),
           th[t].pc # "sleep", r.pc \in Waiting => p0[r.at].pd # "thunk"
    PROVE  EvalInv'
<1>1. th' \in [Threads -> ThreadType]
  BY DEF EvalInv, ThreadOK
<1>2. \A s \in Threads : th'[s] = IF s = t THEN r ELSE th[s]
  BY DEF EvalInv
<1>3. \A s \in Threads :
        /\ ThreadOK(th'[s]) /\ SameStack(th[s].stack, th'[s].stack)
        /\ th[s].pc = "sleep" => th'[s] = th[s]
        /\ th'[s].pc \in Waiting => p0[th'[s].at].pd # "thunk"
  BY <1>2 DEF EvalInv, SameStack
<1> QED
  BY <1>1, <1>3, Quiet

LEMMA TheThread ==
    ASSUME EvalInv, NEW t \in Threads
    PROVE  ThreadOK(th[t]) /\ th[t] \in ThreadType /\ World /\ SameStack(th[t].stack, th[t].stack)
BY DEF EvalInv, SameStack

(* The top of a stack with something on it.                                *)
LEMMA TheTop ==
    ASSUME NEW t \in Threads, ThreadOK(th[t]), th[t].stack # <<>>
    PROVE  /\ Top(t) \in Frame /\ Top(t) = th[t].stack[Len(th[t].stack)]
           /\ Top(t).v = NoValue => On(th[t].stack) = {}
<1>1. /\ th[t].stack \in Seq(Frame) /\ Len(th[t].stack) \in Nat
      /\ Len(th[t].stack) \in 1..Len(th[t].stack)
  BY EmptySeq, LenProperties DEF ThreadOK, Stack
<1>2. Top(t) \in Frame /\ Top(t) = th[t].stack[Len(th[t].stack)]
  BY <1>1, ElementOfSeq DEF Top
<1>3. ASSUME Top(t).v = NoValue PROVE On(th[t].stack) = {}
  <2>1. Len(th[t].stack) = 1
    BY <1>1, <1>2, <1>3 DEF ThreadOK, Stack
  <2> QED
    BY <1>2, <1>3, <2>1 DEF On
<1> QED
  BY <1>2, <1>3

(* A thread that changes what it does, and not its stack.                  *)
LEMMA Moves ==
    ASSUME EvalInv, World', UNCHANGED <<p0, lock, stolen>>, NEW t \in Threads, NEW r,
           th' = [th EXCEPT ![t] = r], ThreadOK(r), r.stack = th[t].stack, th[t].pc # "sleep",
           r.pc \in Waiting => p0[r.at].pd # "thunk"
    PROVE  EvalInv'
  BY QuietOne DEF SameStack

LEMMA ForceNextOK == ASSUME EvalInv, NEW t \in Threads, ForceNext(t) PROVE EvalInv'
<1> DEFINE s == th[t].stack
           u == [s EXCEPT ![Len(s)].todo = Tail(@)]
           r == [th[t] EXCEPT !.pc = "load", !.at = Head(Top(t).todo), !.stack = u]
<1>1. ThreadOK(th[t]) /\ World /\ th[t].pc = "eval"
  BY TheThread DEF ForceNext, At
<1>2. Stack(s) /\ s # <<>> /\ s[Len(s)].todo # <<>> /\ Top(t) = s[Len(s)]
  BY <1>1, TheTop DEF ThreadOK, Running, ForceNext
<1>3. /\ Stack(u) /\ u # <<>> /\ On(u) = On(s) /\ (Distinct(s) => Distinct(u))
      /\ Head(Top(t).todo) \in Values
  BY <1>2, Advanced
<1>4. u \in Seq(Frame)
  BY <1>3 DEF Stack
<1>5. th' = [th EXCEPT ![t] = r]
  BY DEF ForceNext, Become
<1> HIDE DEF u
<1>6. ThreadOK(r) /\ r.pc = "load" /\ r.stack = u
  BY <1>1, <1>3, <1>4 DEF ThreadOK, ThreadType, Running, Forcing
<1>7. World' /\ UNCHANGED <<p0, lock, stolen>>
  BY <1>1 DEF World, ForceNext, words, pool, signal
<1> HIDE DEF r
<1> QED
  BY <1>1, <1>3, <1>5, <1>6, <1>7, QuietOne DEF SameStack, Waiting

LEMMA EvaluatedOK == ASSUME EvalInv, NEW t \in Threads, Evaluated(t) PROVE EvalInv'
<1>1. ThreadOK(th[t]) /\ World /\ th[t].pc = "eval" /\ th[t].stack # <<>> /\ Top(t).v # NoValue
  BY TheThread DEF Evaluated, At, ThreadOK, Running
<1>2. PICK r \in {[th[t] EXCEPT !.pc = "throw", !.exc = "error"],
                  [th[t] EXCEPT !.pc = "finish", !.exc = "none"]} : th' = [th EXCEPT ![t] = r]
  BY DEF Evaluated, Throw, Become
<1>3. ThreadOK(r) /\ r.stack = th[t].stack /\ r.pc \notin Waiting
  BY <1>1, TheTop DEF ThreadOK, ThreadType, Running, Forcing, Waiting, Words
<1>4. World' /\ UNCHANGED <<p0, lock, stolen>>
  BY <1>1 DEF World, Words, Evaluated, words, pool, signal
<1> QED
  BY <1>1, <1>2, <1>3, <1>4, Moves

LEMMA EvalInterruptedOK == ASSUME EvalInv, NEW t \in Threads, EvalInterrupted(t) PROVE EvalInv'
<1> DEFINE r == [th[t] EXCEPT !.pc = "throw", !.exc = "interrupted"]
<1>1. ThreadOK(th[t]) /\ World /\ th[t].pc = "eval"
  BY TheThread DEF EvalInterrupted, At
<1>2. th' = [th EXCEPT ![t] = r]
  BY DEF EvalInterrupted, Throw
<1>3. ThreadOK(r) /\ r.stack = th[t].stack /\ r.pc \notin Waiting
  BY <1>1 DEF ThreadOK, ThreadType, Running, Forcing, Waiting, Words
<1>4. World' /\ UNCHANGED <<p0, lock, stolen>>
  BY <1>1 DEF World, EvalInterrupted, words, pool, signal
<1> HIDE DEF r
<1> QED
  BY <1>1, <1>2, <1>3, <1>4, Moves

LEMMA LoadOK == ASSUME EvalInv, NEW t \in Threads, Load(t) PROVE EvalInv'
<1> DEFINE x == p0[th[t].at]
           r == [th[t] EXCEPT !.read = x, !.inTry = FALSE,
                              !.pc = IF x.pd = "thunk" THEN "cas" ELSE IF Final(x) THEN "got" ELSE "wait"]
<1>1. ThreadOK(th[t]) /\ World /\ th[t].pc = "load" /\ th[t].at \in Values
  BY TheThread DEF Load, At, ThreadOK, Forcing
<1>2. th' = [th EXCEPT ![t] = r]
  BY DEF Load, Become
<1>3. x \in Word0
  BY <1>1 DEF World
<1>4. ThreadOK(r) /\ r.stack = th[t].stack /\ (r.pc \in Waiting => p0[r.at].pd # "thunk")
  BY <1>1, <1>3 DEF ThreadOK, ThreadType, Running, Forcing, Waiting
<1>5. World' /\ UNCHANGED <<p0, lock, stolen>>
  BY <1>1 DEF World, Load, words, pool, signal
<1> HIDE DEF r
<1> QED
  BY <1>1, <1>2, <1>4, <1>5, Moves

LEMMA GotOK == ASSUME EvalInv, NEW t \in Threads, Got(t) PROVE EvalInv'
<1> DEFINE v == th[t].at
           pd == th[t].read.pd
           g == <<v, pd, p1[v]>>
           r == [th[t] EXCEPT !.got = g, !.pc = IF pd = "failed" THEN "throw" ELSE "eval",
                              !.exc = IF pd = "failed" THEN p1[v] ELSE "none"]
<1>1. ThreadOK(th[t]) /\ World /\ th[t].pc = "got" /\ v \in Values
  BY TheThread DEF Got, At, ThreadOK, Forcing
<1>2. th' = [th EXCEPT ![t] = r]
  BY DEF Got, Become
<1>3. p1[v] \in Words /\ th[t].read \in Word0
  BY <1>1 DEF World, ThreadOK, ThreadType
<1>4. g \in Gots
  BY <1>1, <1>3 DEF Gots, Word0
<1> HIDE DEF g
<1>5. ThreadOK(r) /\ r.stack = th[t].stack /\ r.pc \notin Waiting
  BY <1>1, <1>3, <1>4 DEF ThreadOK, ThreadType, Running, Forcing, Waiting, Words
<1>6. World' /\ UNCHANGED <<p0, lock, stolen>>
  BY <1>1 DEF World, Got, words, pool, signal
<1> HIDE DEF r
<1> QED
  BY <1>1, <1>2, <1>5, <1>6, Moves

LEMMA FailOK == ASSUME EvalInv, NEW t \in Threads, Fail(t) PROVE EvalInv'
<1> DEFINE r == [th[t] EXCEPT !.pc = "finish"]
<1>1. ThreadOK(th[t]) /\ World /\ th[t].pc = "throw" /\ th[t].stack # <<>> /\ Top(t).v # NoValue
  BY TheThread DEF Fail, At, ThreadOK, Running
<1>2. th' = [th EXCEPT ![t] = r]
  BY DEF Fail, Goto
<1>3. ThreadOK(r) /\ r.stack = th[t].stack /\ r.pc \notin Waiting
  BY <1>1, TheTop DEF ThreadOK, ThreadType, Running, Forcing, Waiting
<1>4. World' /\ UNCHANGED <<p0, lock, stolen>>
  BY <1>1 DEF World, Fail, ThreadOK, ThreadType, pool, signal
<1> HIDE DEF r
<1> QED
  BY <1>1, <1>2, <1>3, <1>4, Moves

-----------------------------------------------------------------------------
(* The executor                                                            *)

LEMMA TakeItemOK == ASSUME EvalInv, NEW t \in Threads, TakeItem(t) PROVE EvalInv'
<1>1. ThreadOK(th[t]) /\ World /\ th[t].pc = "idle"
  BY TheThread DEF TakeItem, At
<1>2. PICK i \in queue :
        /\ queue' = queue \ {i}
        /\ th' = [th EXCEPT ![t] = [th[t] EXCEPT !.pc = "eval", !.item = i,
                                                 !.stack = <<[v |-> NoValue, todo |-> <<i>>]>>]]
  BY DEF TakeItem, Become
<1> DEFINE s == <<[v |-> NoValue, todo |-> <<i>>]>>
           r == [th[t] EXCEPT !.pc = "eval", !.item = i, !.stack = s]
<1>3. i \in Values
  BY <1>1, EvalAssumption DEF World
<1>4. <<i>> \in Seq(Values)
  BY <1>3
<1>5. Stack(s) /\ s # <<>> /\ s \in Seq(Frame) /\ On(s) = {} /\ Distinct(s)
  BY <1>4 DEF Stack, Frame, On, Distinct
<1> HIDE DEF s
<1>6. ThreadOK(r) /\ r.stack = s /\ r.pc \notin Waiting
  BY <1>1, <1>3, <1>5 DEF ThreadOK, ThreadType, Running, Forcing, Waiting
<1>7. World' /\ UNCHANGED <<p0, lock, stolen>>
  BY <1>1, <1>2 DEF World, TakeItem, words, signal
<1>8. SameStack(th[t].stack, s)
  BY <1>1, <1>5 DEF SameStack, ThreadOK, Running, Forcing, Waiting
<1>9. th' = [th EXCEPT ![t] = r]
  BY <1>2 DEF s
<1> HIDE DEF r
<1> QED
  BY <1>1, <1>6, <1>7, <1>8, <1>9, QuietOne

LEMMA RestOK ==
    ASSUME EvalInv, NEW t \in Threads, WaitForItems(t) \/ Leave(t) \/ (Join /\ t = Main)
    PROVE  EvalInv'
<1>1. ThreadOK(th[t]) /\ World /\ th[t].pc \in {"idle", "join"}
  BY TheThread DEF WaitForItems, Leave, Join, At
<1>2. PICK r \in {[th[t] EXCEPT !.pc = "waiting"], [th[t] EXCEPT !.pc = "end"]} :
        th' = [th EXCEPT ![t] = r]
  BY DEF WaitForItems, Leave, Join, Goto
<1>3. ThreadOK(r) /\ r.stack = th[t].stack /\ r.pc \notin Waiting
  BY <1>1 DEF ThreadOK, ThreadType, Running, Forcing, Waiting
<1>4. World' /\ UNCHANGED <<p0, lock, stolen>>
  BY <1>1 DEF World, WaitForItems, Leave, Join, words, pool, signal
<1> QED
  BY <1>1, <1>2, <1>3, <1>4, Moves

LEMMA WorkOverOK == ASSUME EvalInv, NEW t \in Threads, WorkOver(t) PROVE EvalInv'
<1>1. ThreadOK(th[t]) /\ World /\ th[t].pc \in {"eval", "throw"} /\ th[t].stack # <<>>
      /\ Top(t).v = NoValue
  BY TheThread DEF WorkOver, At, ThreadOK, Running
<1>2. On(th[t].stack) = {}
  BY <1>1, TheTop
<1>3. World' /\ UNCHANGED <<p0, lock, stolen>>
  BY <1>1 DEF World, WorkOver, words, pool, signal
<1>4. CASE t = Main
  <2> DEFINE r == [th[t] EXCEPT !.pc = "collect"]
  <2>1. th' = [th EXCEPT ![t] = r]
    BY <1>4 DEF WorkOver, Goto
  <2>2. ThreadOK(r) /\ r.stack = th[t].stack /\ r.pc \notin Waiting
    BY <1>1, <1>2 DEF ThreadOK, ThreadType, Running, Forcing, Waiting
  <2> HIDE DEF r
  <2> QED
    BY <1>1, <1>3, <2>1, <2>2, Moves
<1>5. CASE t # Main
  <2> DEFINE r == [th[t] EXCEPT !.pc = "idle", !.item = NoValue, !.stack = <<>>]
  <2>1. th' = [th EXCEPT ![t] = r]
    BY <1>5 DEF WorkOver, Become
  <2>2. Stack(<<>>) /\ On(<<>>) = {} /\ <<>> \in Seq(Frame) /\ Distinct(<<>>)
    BY EmptySeq DEF Stack, On, Distinct
  <2>3. ThreadOK(r) /\ r.stack = <<>> /\ r.pc \notin Waiting
    BY <1>1, <2>2 DEF ThreadOK, ThreadType, Running, Forcing, Waiting
  <2> HIDE DEF r
  <2> QED
    BY <1>1, <1>2, <1>3, <2>1, <2>2, <2>3, QuietOne DEF SameStack
<1> QED
  BY <1>4, <1>5

(* Steps that wake others.                                                 *)
LEMMA CollectItemsOK == ASSUME EvalInv, CollectItems PROVE EvalInv'
<1>1. th' = [t \in Threads |->
               IF t = Main THEN [th[t] EXCEPT !.pc = "join"]
               ELSE IF th[t].pc = "waiting" THEN [th[t] EXCEPT !.pc = "idle"] ELSE th[t]]
      /\ th[Main].pc = "collect"
  BY DEF CollectItems, At
<1>2. World' /\ UNCHANGED <<p0, lock, stolen>>
  BY DEF EvalInv, World, CollectItems, words, signal
<1>3. ASSUME NEW t \in Threads
      PROVE  /\ ThreadOK(th'[t]) /\ th'[t].stack = th[t].stack
             /\ th[t].pc = "sleep" => th'[t] = th[t]
             /\ th'[t].pc \in Waiting => th'[t] = th[t]
  <2>1. ThreadOK(th[t])
    BY TheThread
  <2> QED
    BY <1>1, <2>1 DEF ThreadOK, ThreadType, Running, Forcing, Waiting
<1>4. th' \in [Threads -> ThreadType]
  BY <1>1, <1>3 DEF ThreadOK
<1> QED
  BY <1>2, <1>3, <1>4, Quiet DEF SameStack, EvalInv

LEMMA WokenOK ==
    ASSUME NEW d, NEW r, ThreadOK(r)
    PROVE  /\ ThreadOK(Woken(d, r)) /\ Woken(d, r).stack = r.stack /\ Woken(d, r).at = r.at
           /\ r.pc \in {"sleep", "notify"} => Woken(d, r) = r
           /\ Woken(d, r).pc \in Waiting => r.pc \in Waiting
BY DEF Woken, ThreadOK, ThreadType, Running, Forcing, Waiting

LEMMA NotifyOK == ASSUME EvalInv, NEW t \in Threads, Notify(t) PROVE EvalInv'
<1> DEFINE d == Domain[th[t].at]
           r == [th[t] EXCEPT !.pc = After(t)]
<1>1. ThreadOK(th[t]) /\ World /\ th[t].pc = "notify"
  BY TheThread DEF Notify, At
<1>2. World' /\ UNCHANGED <<p0, lock, stolen>>
  BY <1>1 DEF World, Notify, words, pool, signal
<1>3. \A s \in Threads : th'[s] = IF s = t THEN r ELSE Woken(d, th[s])
  <2>1. Woken(d, th[t]) = th[t]
    BY <1>1, WokenOK
  <2>2. th' = [[s \in Threads |-> Woken(d, th[s])] EXCEPT ![t].pc = After(t)]
    BY DEF Notify
  <2> HIDE DEF d
  <2> QED
    BY <2>1, <2>2
<1>4. ThreadOK(r) /\ r.stack = th[t].stack /\ r.pc \notin Waiting
  BY <1>1 DEF After, ThreadOK, ThreadType, Running, Forcing, Waiting
<1> HIDE DEF r, d
<1>5. \A s \in Threads :
        /\ ThreadOK(th'[s]) /\ th'[s].stack = th[s].stack
        /\ th[s].pc = "sleep" => th'[s] = th[s]
        /\ th'[s].pc \in Waiting => th[s].pc \in Waiting /\ th'[s].at = th[s].at
  BY <1>1, <1>3, <1>4, WokenOK, TheThread
<1>6. th' \in [Threads -> ThreadType]
  <2>1. th' = [s \in Threads |-> th'[s]]
    BY DEF Notify
  <2> QED
    BY <1>5, <2>1 DEF ThreadOK
<1> QED
  BY <1>2, <1>5, <1>6, Quiet DEF SameStack, EvalInv

LEMMA NotifyInterruptOK == ASSUME EvalInv, NotifyInterrupt PROVE EvalInv'
<1>1. PICK d \in notifying : notifying' = notifying \ {d} /\ th' = [s \in Threads |-> Woken(d, th[s])]
  BY DEF NotifyInterrupt
<1>2. World' /\ UNCHANGED <<p0, lock, stolen>>
  BY <1>1 DEF EvalInv, World, NotifyInterrupt, words, pool
<1>3. \A s \in Threads :
        /\ ThreadOK(th'[s]) /\ th'[s].stack = th[s].stack
        /\ th[s].pc = "sleep" => th'[s] = th[s]
        /\ th'[s].pc \in Waiting => th[s].pc \in Waiting /\ th'[s].at = th[s].at
  BY <1>1, WokenOK, TheThread
<1>4. th' \in [Threads -> ThreadType]
  BY <1>1, <1>3 DEF ThreadOK
<1> QED
  BY <1>2, <1>3, <1>4, Quiet DEF SameStack, EvalInv

LEMMA InterruptOK == ASSUME EvalInv, Interrupt PROVE EvalInv'
<1>1. World' /\ UNCHANGED <<p0, lock, stolen, th>>
  BY DEF EvalInv, World, Interrupt, words, pool
<1> QED
  BY <1>1, Quiet DEF SameStack, EvalInv

-----------------------------------------------------------------------------
(* Steps that change the words or the locks                                *)

LEMMA Update ==
    ASSUME EvalInv, World', NEW t \in Threads, NEW r, th' = [th EXCEPT ![t] = r], ThreadOK(r),
           \A v \in Values : p0'[v].pd = "thunk" => p0[v].pd = "thunk",
           r.pc \in Waiting => p0'[r.at].pd # "thunk", LockInv', ~stolen' => OwnInv'
    PROVE  EvalInv'
<1>1. th' \in [Threads -> ThreadType]
  BY DEF EvalInv, ThreadOK
<1>2. \A s \in Threads : th'[s] = IF s = t THEN r ELSE th[s]
  BY DEF EvalInv
<1>3. \A s \in Threads : ThreadOK(th'[s])
  BY <1>2 DEF EvalInv
<1>4. \A s \in Threads : th[s].pc \in Waiting => th[s].at \in Values
  BY DEF EvalInv, ThreadOK, Forcing
<1>5. \A s \in Threads : th'[s].pc \in Waiting => p0'[th'[s].at].pd # "thunk"
  BY <1>2, <1>4 DEF EvalInv
<1> QED
  BY <1>1, <1>3, <1>5 DEF EvalInv

LEMMA LockKept ==
    ASSUME EvalInv, NEW t \in Threads, NEW r, th' = [th EXCEPT ![t] = r],
           lock' = lock, th[t].pc # "sleep"
    PROVE  LockInv'
<1>1. \A s \in Threads : th'[s] = IF s = t THEN r ELSE th[s]
  BY DEF EvalInv
<1> QED
  BY <1>1 DEF EvalInv, World, LockInv, At

LEMMA ClaimOK == ASSUME EvalInv, NEW t \in Threads, Claim(t) PROVE EvalInv'
<1> DEFINE v == th[t].at
           x == p0[v]
           f == [v |-> v, todo |-> scene.exprs[v]]
           mine == [pd |-> "pending", by |-> t]
           s == th[t].stack
<1>1. ThreadOK(th[t]) /\ World /\ th[t].pc = "cas" /\ v \in Values
  BY TheThread DEF Claim, At, ThreadOK, Forcing
<1>2. x \in Word0 /\ mine \in Word0
  BY <1>1 DEF World, Word0
<1>3. World'
  BY <1>1, <1>2 DEF World, Claim, pool, signal
<1>4. CASE x.pd # "thunk"
  <2> DEFINE r == [th[t] EXCEPT !.read = x, !.inTry = TRUE, !.pc = IF Final(x) THEN "got" ELSE "wait"]
  <2>1. th' = [th EXCEPT ![t] = r] /\ UNCHANGED <<p0, lock, stolen>>
    BY <1>4 DEF Claim, Become
  <2>2. ThreadOK(r) /\ r.stack = th[t].stack /\ (r.pc \in Waiting => p0[r.at].pd # "thunk")
    BY <1>1, <1>2, <1>4 DEF ThreadOK, ThreadType, Running, Forcing, Waiting
  <2> HIDE DEF r
  <2> QED
    BY <1>1, <1>3, <2>1, <2>2, Moves
<1>5. CASE x.pd = "thunk"
  <2> DEFINE u == Append(s, f)
             r == [th[t] EXCEPT !.pc = "eval", !.stack = u]
  <2>1. /\ th' = [th EXCEPT ![t] = r] /\ p0' = [p0 EXCEPT ![v] = mine]
        /\ UNCHANGED <<lock, stolen>>
    BY <1>5 DEF Claim, Become
  <2>2. f \in Frame /\ f.v = v /\ v # NoValue
    BY <1>1, EvalAssumption DEF Frame, World
  <2>3. Stack(s) /\ s # <<>>
    BY <1>1 DEF ThreadOK, Running, Forcing
  <2> HIDE DEF f
  <2>4. Stack(u) /\ u # <<>> /\ On(u) = On(s) \cup {v} /\ (Distinct(s) /\ v \notin On(s) => Distinct(u))
    BY <2>2, <2>3, Pushed
  <2> HIDE DEF u
  <2>5. ThreadOK(r) /\ r.pc \notin Waiting /\ r.stack = u
    BY <1>1, <2>4 DEF Stack, ThreadOK, ThreadType, Running, Forcing, Waiting
  <2> HIDE DEF r
  <2>6. \A y \in Values : p0'[y] = IF y = v THEN mine ELSE p0[y]
    BY <1>1, <2>1 DEF World
  <2>7. LockInv'
    BY <1>1, <2>1, LockKept
  <2>8. ASSUME ~stolen PROVE OwnInv'
    <3>1. \A q \in Threads : th'[q].stack = IF q = t THEN u ELSE th[q].stack
      BY <2>1, <2>5 DEF EvalInv
    <3>2. \A q \in Threads : v \notin On(th[q].stack)
      BY <1>5, <2>8 DEF EvalInv, OwnInv, Mine, Busy
    <3>3. \A q \in Threads : Mine(q)' = IF q = t THEN Mine(t) \cup {v} ELSE Mine(q)
      BY <1>1, <1>5, <2>6 DEF Mine, Busy
    <3>4. \A q \in Threads : Distinct(th[q].stack) /\ On(th[q].stack) = Mine(q)
      BY <2>8 DEF EvalInv, OwnInv
    <3>5. \A q \in Threads : Distinct(th'[q].stack) /\ On(th'[q].stack) = Mine(q)'
      BY <2>4, <3>1, <3>2, <3>3, <3>4
    <3>6. \A y \in Values : p0'[y].pd \in Busy => p0'[y].by \in Threads
      BY <2>6, <2>8 DEF EvalInv, OwnInv
    <3> QED
      BY <3>5, <3>6 DEF OwnInv
  <2> QED
    BY <1>3, <1>5, <2>1, <2>5, <2>6, <2>7, <2>8, Update
<1> QED
  BY <1>4, <1>5

LEMMA FinishOK == ASSUME EvalInv, NEW t \in Threads, Finish(t) PROVE EvalInv'
<1> DEFINE s == th[t].stack
           v == Top(t).v
           final == [pd |-> IF th[t].exc = "none" THEN "done" ELSE "failed", by |-> NoThread]
           u == Pop(s)
           pc == IF p0[v].pd = "awaited" THEN "notify" ELSE After(t)
           r == [th[t] EXCEPT !.pc = pc, !.at = v, !.stack = u]
<1>1. ThreadOK(th[t]) /\ World /\ th[t].pc = "finish" /\ s # <<>>
  BY TheThread DEF Finish, At, ThreadOK, Running
<1>2. v \in Values /\ v = s[Len(s)].v /\ v # NoValue
  BY <1>1, TheTop DEF ThreadOK, Frame
<1>3. Stack(u) /\ u # <<>> /\ (Distinct(s) => On(u) = On(s) \ {v} /\ Distinct(u))
  BY <1>1, <1>2, Popped DEF ThreadOK
<1>4. /\ th' = [th EXCEPT ![t] = r] /\ p0' = [p0 EXCEPT ![v] = final]
      /\ UNCHANGED <<lock, stolen>>
  BY DEF Finish, Become
<1>5. World'
  BY <1>1, <1>2 DEF World, Finish, Word0, pool, signal
<1> HIDE DEF v, u
<1>6. ThreadOK(r) /\ r.pc \notin Waiting /\ r.stack = u
  BY <1>1, <1>2, <1>3 DEF After, Stack, ThreadOK, ThreadType, Running, Forcing, Waiting
<1>7. \A y \in Values : p0'[y] = IF y = v THEN final ELSE p0[y]
  BY <1>1, <1>4 DEF World
<1>8. final.pd \notin Busy /\ final.pd # "thunk"
  BY DEF Busy
<1> HIDE DEF r, final
<1>9. LockInv'
  BY <1>1, <1>4, LockKept
<1>10. ASSUME ~stolen PROVE OwnInv'
  <2>1. \A q \in Threads : th'[q].stack = IF q = t THEN u ELSE th[q].stack
    BY <1>4, <1>6 DEF EvalInv
  <2>2. \A q \in Threads : Distinct(th[q].stack) /\ On(th[q].stack) = Mine(q)
    BY <1>10 DEF EvalInv, OwnInv
  <2>3. v \in On(s)
    BY <1>1, <1>2, EmptySeq, LenProperties DEF On, ThreadOK, Stack
  <2>4. p0[v].by = t
    BY <2>2, <2>3 DEF Mine
  <2>5. \A q \in Threads : Mine(q)' = Mine(q) \ {v}
    BY <1>7, <1>8 DEF Mine
  <2>6. \A q \in Threads : q # t => v \notin Mine(q)
    BY <2>4 DEF Mine
  <2>7. ASSUME NEW q \in Threads
        PROVE  Distinct(th'[q].stack) /\ On(th'[q].stack) = Mine(q)'
    <3>1. CASE q = t
      <4>1. On(u) = Mine(t) \ {v} /\ Distinct(u) /\ th'[t].stack = u
        BY <1>3, <2>1, <2>2
      <4> QED
        BY <2>5, <3>1, <4>1
    <3>2. CASE q # t
      <4>1. Mine(q)' = Mine(q)
        BY <2>5, <2>6, <3>2
      <4> QED
        BY <2>1, <2>2, <3>2, <4>1
    <3> QED
      BY <3>1, <3>2
  <2>8. \A y \in Values : p0'[y].pd \in Busy => p0'[y].by \in Threads
    BY <1>7, <1>8, <1>10 DEF EvalInv, OwnInv
  <2> QED
    BY <2>7, <2>8 DEF OwnInv
<1> QED
  BY <1>4, <1>5, <1>6, <1>7, <1>8, <1>9, <1>10, Update

(* Who takes a free domain goes to sleep in it.                            *)
LEMMA LockTaken ==
    ASSUME EvalInv, NEW t \in Threads, NEW r, th' = [th EXCEPT ![t] = r], ThreadOK(r),
           r.pc = "sleep", r.at = th[t].at, th[t].at \in Values, th[t].pc # "sleep",
           lock' = [lock EXCEPT ![Domain[th[t].at]] = t]
    PROVE  LockInv' /\ lock' \in [Domains -> Threads \cup {NoThread}]
<1>1. \A s \in Threads : th'[s] = IF s = t THEN r ELSE th[s]
  BY DEF EvalInv
<1>2. Domain[th[t].at] \in Domains
  BY DEF Domains
<1>3. \A d \in Domains : lock'[d] = IF d = Domain[th[t].at] THEN t ELSE lock[d]
  BY DEF EvalInv, World
<1>4. lock' \in [Domains -> Threads \cup {NoThread}]
  BY DEF EvalInv, World
<1> QED
  BY <1>1, <1>3, <1>4 DEF EvalInv, World, LockInv, At

(* A thunk that is evaluated is awaited from now on.                       *)
LEMMA WaitOnThunkOK == ASSUME EvalInv, NEW t \in Threads, WaitOnThunk(t) PROVE EvalInv'
<1> DEFINE v == th[t].at
           x == p0[v]
           d == Domain[v]
           awaited == [x EXCEPT !.pd = "awaited"]
<1>1. ThreadOK(th[t]) /\ World /\ th[t].pc = "wait" /\ v \in Values
  BY TheThread DEF WaitOnThunk, At, ThreadOK, Forcing, Waiting
<1>2. x \in Word0 /\ awaited \in Word0 /\ x.pd # "thunk"
  BY <1>1 DEF EvalInv, World, Word0, Waiting
<1>3. CASE Final(x)
  <2> DEFINE r == [th[t] EXCEPT !.read = x, !.pc = "got"]
  <2>1. th' = [th EXCEPT ![t] = r] /\ UNCHANGED <<p0, lock, stolen>>
    BY <1>3 DEF WaitOnThunk, Become
  <2>2. ThreadOK(r) /\ r.stack = th[t].stack /\ r.pc \notin Waiting
    BY <1>1, <1>2 DEF ThreadOK, ThreadType, Running, Forcing, Waiting
  <2>3. World'
    BY <1>1, <2>1 DEF World, WaitOnThunk, pool, signal
  <2> HIDE DEF r
  <2> QED
    BY <1>1, <2>1, <2>2, <2>3, Moves
<1>4. CASE ~Final(x)
  <2>1. /\ p0' = [p0 EXCEPT ![v] = awaited] /\ UNCHANGED <<scene, p1, queue, notifying, stolen>>
        /\ \/ th' = [th EXCEPT ![t] = [th[t] EXCEPT !.pc = "throw", !.exc = "error"]] /\ lock' = lock
           \/ th' = [th EXCEPT ![t] = [th[t] EXCEPT !.pc = "sleep"]] /\ lock' = [lock EXCEPT ![d] = t]
    BY <1>4 DEF WaitOnThunk, Throw, Goto, pool, signal
  <2>2. \A y \in Values : p0'[y] = IF y = v THEN awaited ELSE p0[y]
    BY <1>1, <2>1 DEF World
  <2>3. x.pd \in Busy /\ awaited.pd = "awaited" /\ awaited.by = x.by
    BY <1>2, <1>4 DEF Final, Word0, Busy
  <2> HIDE DEF awaited
  <2>4. PICK r \in {[th[t] EXCEPT !.pc = "throw", !.exc = "error"], [th[t] EXCEPT !.pc = "sleep"]} :
          /\ th' = [th EXCEPT ![t] = r]
          /\ IF r.pc = "sleep" THEN lock' = [lock EXCEPT ![d] = t] ELSE lock' = lock
    <3>1. [th[t] EXCEPT !.pc = "throw", !.exc = "error"].pc = "throw"
          /\ [th[t] EXCEPT !.pc = "sleep"].pc = "sleep"
      BY <1>1 DEF ThreadOK, ThreadType
    <3> QED
      BY <2>1, <3>1
  <2>5. ThreadOK(r) /\ r.stack = th[t].stack /\ r.at = v /\ r.pc \in {"throw", "sleep"}
    BY <1>1 DEF ThreadOK, ThreadType, Running, Forcing, Waiting, Words
  <2>6. LockInv' /\ lock' \in [Domains -> Threads \cup {NoThread}]
    <3>1. CASE r.pc = "sleep"
      BY <1>1, <2>4, <2>5, <3>1, LockTaken
    <3>2. CASE r.pc # "sleep"
      BY <1>1, <2>4, <3>2, LockKept DEF World
    <3> QED
      BY <3>1, <3>2
  <2>7. World'
    BY <1>1, <1>2, <2>1, <2>6 DEF World, awaited
  <2>8. ~stolen => OwnInv'
    <3>1. \A q \in Threads : th'[q].stack = th[q].stack
      BY <2>4, <2>5 DEF EvalInv
    <3>2. \A q \in Threads : Mine(q)' = Mine(q)
      BY <2>2, <2>3 DEF Mine, Busy
    <3>3. \A y \in Values : p0'[y].pd \in Busy => p0[y].pd \in Busy /\ p0'[y].by = p0[y].by
      BY <2>2, <2>3
    <3> QED
      BY <3>1, <3>2, <3>3 DEF EvalInv, OwnInv
  <2>9. \A y \in Values : p0'[y].pd = "thunk" => p0[y].pd = "thunk"
    BY <2>2, <2>3
  <2>10. p0'[r.at].pd # "thunk"
    BY <1>1, <2>2, <2>3, <2>5
  <2> QED
    BY <2>1, <2>4, <2>5, <2>6, <2>7, <2>8, <2>9, <2>10, Update
<1> QED
  BY <1>3, <1>4

LEMMA SleepOK == ASSUME EvalInv, NEW t \in Threads, Sleep(t) PROVE EvalInv'
<1> DEFINE d == Domain[th[t].at]
           r == [th[t] EXCEPT !.pc = "asleep"]
<1>1. ThreadOK(th[t]) /\ World /\ th[t].pc = "sleep" /\ th[t].at \in Values
  BY TheThread DEF Sleep, At, ThreadOK, Forcing, Waiting
<1>2. /\ th' = [th EXCEPT ![t] = r] /\ lock' = [lock EXCEPT ![d] = NoThread]
      /\ UNCHANGED <<p0, stolen>>
  BY DEF Sleep, Goto, words
<1>3. ThreadOK(r) /\ r.stack = th[t].stack /\ r.at = th[t].at
  BY <1>1 DEF ThreadOK, ThreadType, Running, Forcing, Waiting
<1>4. p0[r.at].pd # "thunk"
  BY <1>1, <1>3 DEF EvalInv, Waiting
<1> HIDE DEF r
<1>5. \A s \in Threads : th'[s] = IF s = t THEN r ELSE th[s]
  BY <1>2 DEF EvalInv
<1>6. World'
  BY <1>1, <1>2 DEF World, Sleep, words, pool, signal
<1>7. LockInv'
  <2>1. \A e \in Domains : lock'[e] = IF e = d THEN NoThread ELSE lock[e]
    BY <1>1, <1>2 DEF World
  <2>2. \A e \in Domains : e # d => lock[e] # t
    BY EvalAssumption DEF EvalInv, LockInv
  <2> QED
    BY <1>1, <1>5, <2>1, <2>2 DEF EvalInv, World, LockInv, At
<1>8. ~stolen => OwnInv'
  BY <1>2, <1>3, <1>5 DEF EvalInv, OwnInv, Mine
<1> QED
  BY <1>2, <1>3, <1>4, <1>6, <1>7, <1>8, Update

LEMMA WakeOK == ASSUME EvalInv, NEW t \in Threads, Wake(t) PROVE EvalInv'
<1> DEFINE v == th[t].at
           x == p0[v]
           s == th[t].stack
           interrupts == ~Final(x) /\ Interrupted(t)
           f == [v |-> v, todo |-> <<>>]
<1>1. /\ ThreadOK(th[t]) /\ World /\ th[t].pc = "woken" /\ v \in Values
      /\ x \in Word0 /\ x.pd # "thunk"
  BY TheThread DEF Wake, At, EvalInv, World, ThreadOK, Forcing, Waiting
<1>2. UNCHANGED <<scene, p0, p1, queue, notifying>>
  BY DEF Wake, pool, signal
<1>3. CASE Final(x)
  <2> DEFINE r == [th[t] EXCEPT !.read = x, !.pc = "got"]
  <2>1. th' = [th EXCEPT ![t] = r] /\ UNCHANGED <<p0, lock, stolen>>
    BY <1>1, <1>3 DEF Wake, Become, World
  <2>2. ThreadOK(r) /\ r.stack = th[t].stack /\ r.pc \notin Waiting
    BY <1>1 DEF ThreadOK, ThreadType, Running, Forcing, Waiting
  <2>3. World'
    BY <1>1, <1>2, <2>1 DEF World
  <2> HIDE DEF r
  <2> QED
    BY <1>1, <2>1, <2>2, <2>3, Moves
<1>4. CASE ~Final(x) /\ ~Interrupted(t)
  <2> DEFINE r == [th[t] EXCEPT !.pc = "sleep"]
  <2>1. /\ th' = [th EXCEPT ![t] = r] /\ lock' = [lock EXCEPT ![Domain[v]] = t]
        /\ UNCHANGED <<p0, stolen>>
    BY <1>1, <1>4 DEF Wake, Become, World
  <2>2. ThreadOK(r) /\ r.stack = th[t].stack /\ r.at = v /\ r.pc = "sleep"
    BY <1>1 DEF ThreadOK, ThreadType, Running, Forcing, Waiting
  <2> HIDE DEF r
  <2>3. LockInv' /\ lock' \in [Domains -> Threads \cup {NoThread}]
    BY <1>1, <2>1, <2>2, LockTaken
  <2>4. World'
    BY <1>1, <1>2, <2>1, <2>3 DEF World
  <2>5. ~stolen => OwnInv'
    <3>1. \A q \in Threads : th'[q].stack = th[q].stack
      BY <2>1, <2>2 DEF EvalInv
    <3> QED
      BY <2>1, <3>1 DEF EvalInv, OwnInv, Mine
  <2> QED
    BY <1>1, <2>1, <2>2, <2>3, <2>4, <2>5, Update
<1>5. CASE interrupts /\ ~th[t].inTry
  <2> DEFINE r == [th[t] EXCEPT !.pc = "throw", !.exc = "interrupted", !.stack = s]
  <2>1. th' = [th EXCEPT ![t] = r] /\ UNCHANGED <<p0, lock, stolen>>
    BY <1>1, <1>5 DEF Wake, Become, World
  <2>2. ThreadOK(r) /\ r.stack = th[t].stack /\ r.pc \notin Waiting
    BY <1>1 DEF ThreadOK, ThreadType, Running, Forcing, Waiting, Words
  <2>3. World'
    BY <1>1, <1>2, <2>1 DEF World
  <2> HIDE DEF r
  <2> QED
    BY <1>1, <2>1, <2>2, <2>3, Moves
<1>6. CASE interrupts /\ th[t].inTry
  <2> DEFINE u == Append(s, f)
             r == [th[t] EXCEPT !.pc = "throw", !.exc = "interrupted", !.stack = u]
  <2>1. th' = [th EXCEPT ![t] = r] /\ stolen' = TRUE /\ UNCHANGED <<p0, lock>>
    BY <1>1, <1>6 DEF Wake, Become, World
  <2>2. f \in Frame /\ f.v # NoValue
    BY <1>1, EvalAssumption, EmptySeq DEF Frame
  <2>3. Stack(s) /\ s # <<>>
    BY <1>1 DEF ThreadOK, Running, Forcing, Waiting
  <2> HIDE DEF f
  <2>4. Stack(u) /\ u # <<>>
    BY <2>2, <2>3, Pushed
  <2> HIDE DEF u
  <2>5. ThreadOK(r) /\ r.pc \notin Waiting
    BY <1>1, <2>4 DEF Stack, ThreadOK, ThreadType, Running, Forcing, Waiting, Words
  <2>6. World'
    BY <1>1, <1>2, <2>1 DEF World
  <2> HIDE DEF r
  <2>7. LockInv'
    BY <1>1, <2>1, LockKept
  <2> QED
    BY <2>1, <2>5, <2>6, <2>7, Update
<1> QED
  BY <1>3, <1>4, <1>5, <1>6

LEMMA EvalStays == EvalInv /\ [Next]_vars => EvalInv'
<1> SUFFICES ASSUME EvalInv, [Next]_vars PROVE EvalInv'
  OBVIOUS
<1>1. ASSUME NEW t \in Threads, ThreadStep(t) PROVE EvalInv'
  BY <1>1, ForceNextOK, EvaluatedOK, EvalInterruptedOK, LoadOK, ClaimOK, GotOK, FailOK, FinishOK,
     NotifyOK, WaitOnThunkOK, SleepOK, WakeOK, TakeItemOK, RestOK, WorkOverOK DEF ThreadStep
<1>2. CASE Join
  BY <1>2, RestOK DEF Threads
<1>3. CASE UNCHANGED vars
  BY <1>3 DEF vars, EvalInv, World, ThreadOK, LockInv, At, OwnInv, Mine
<1> QED
  BY <1>1, <1>2, <1>3, CollectItemsOK, InterruptOK, NotifyInterruptOK DEF Next

(* A value is pending or awaited exactly while one thread evaluates it,    *)
(* the one that its p0 names; only what is evaluated or final is waited    *)
(* for; who holds a domain is about to sleep in it.                        *)
THEOREM OneEvaluator == Spec => []EvalTypeOK
  BY EvalInit, EvalStays, EvalInvTypes, PTL DEF Spec
=============================================================================
