---------------------------- MODULE ParallelEval ----------------------------
(***************************************************************************)
(* Parallel evaluation: threads force values that they share, and wait for *)
(* each other's thunks.                                                    *)
(*                                                                         *)
(* A value is two words.  The first, p0, is atomic and says what the value *)
(* is; the second, p1, is not, and is valid only for the p0 it was written *)
(* for.  A thunk is evaluated by the thread that sets it to pending;       *)
(* others mark it awaited and sleep on the condition variable of the       *)
(* value's domain, which several values share.  The executor's workers     *)
(* force the items of a queue, the main thread forces values of its own,   *)
(* waits for the items and destroys the executor.                          *)
(*                                                                         *)
(* Each step reads or writes one shared word, or is what is done under a   *)
(* lock.  The lock of a domain is a variable because a waiter holds it     *)
(* from its decision to wait until it sleeps.  An expression is the        *)
(* sequence of the values it forces, and whether it throws after that.     *)
(* Not modelled: the order of the queue (random among equal priorities),   *)
(* items that spawn items, the collector, statistics.                      *)
(***************************************************************************)
EXTENDS Naturals, Sequences, FiniteSets

CONSTANTS Workers,   \* the threads of the executor
          Main,      \* the main thread
          Values,    \* the values, all of them thunks at first
          Domain,    \* Domain[v]: the waiter domain of v
          NoValue,   \* what a thread forces that forces nothing
          Scenarios  \* the expressions and the work of a behaviour, see Init

Threads == Workers \cup {Main}
Domains == {Domain[v] : v \in Values}

VARIABLES scene,        \* the scenario; it never changes
          p0, p1,       \* the two words of each value
          lock,         \* lock[d]: the thread that holds domain d, or NoThread
          queue,        \* the items that no worker has taken
          promise,      \* promise[i]: what has become of item i
          quit,         \* Executor::quit
          interrupted,  \* the user's interrupt
          notifying,    \* the domains its callback has still to notify
          th,           \* th[t]: the state of thread t
          stolen        \* an interrupted wait has overwritten another's thunk

vars == <<scene, p0, p1, lock, queue, promise, quit, interrupted, notifying, th, stolen>>
words == <<p0, p1, stolen>>
pool == <<queue, promise, quit>>
signal == <<interrupted, notifying>>

NoThread == "nobody"

ASSUME EvalAssumption ==
    /\ Workers # {} /\ Main \notin Workers /\ NoThread \notin Threads /\ NoValue \notin Values
    /\ \A s \in Scenarios : /\ DOMAIN s.exprs = Values
                            /\ \A v \in Values : s.exprs[v] \in Seq(Values)
                            /\ s.items \subseteq Values /\ s.roots \in Seq(Values)

(* A thread: where it is, the value it forces (at), the p0 it has read for *)
(* it, whether the wait is inside force's try, the thunks it evaluates     *)
(* with what each has still to force, its item, the exception in flight,   *)
(* and the last value that it has read, as it has read it.                 *)
NewThread == [pc |-> "idle", at |-> NoValue, read |-> [pd |-> "thunk", by |-> NoThread],
              inTry |-> FALSE, stack |-> <<>>, item |-> NoValue, exc |-> "none",
              got |-> <<NoValue, "none", "none">>]

(* scene: exprs (the values each thunk forces, in order), broken (the      *)
(* thunks that throw), items, roots (what the main thread forces), waits   *)
(* (whether it waits for the items) and interrupts (whether there is one). *)
Init ==
    /\ scene \in Scenarios
    /\ p0 = [v \in Values |-> [pd |-> "thunk", by |-> NoThread]]
    /\ p1 = [v \in Values |-> "code"]
    /\ lock = [d \in Domains |-> NoThread]
    /\ queue = scene.items
    /\ promise = [i \in scene.items |-> "none"]
    /\ quit = FALSE /\ interrupted = FALSE /\ notifying = {} /\ stolen = FALSE
    /\ th = [t \in Threads |->
               IF t = Main
               THEN [NewThread EXCEPT !.pc = "eval", !.stack = <<[v |-> NoValue, todo |-> scene.roots]>>]
               ELSE NewThread]

-----------------------------------------------------------------------------
At(t, pc) == th[t].pc = pc
Become(t, r) == th' = [th EXCEPT ![t] = r]
Goto(t, pc) == th' = [th EXCEPT ![t].pc = pc]
Throw(t, e) == th' = [th EXCEPT ![t].pc = "throw", ![t].exc = e]

Final(x) == x.pd \in {"done", "failed"}
Top(t) == th[t].stack[Len(th[t].stack)]
Pop(s) == SubSeq(s, 1, Len(s) - 1)

(* checkInterrupt: a worker is also interrupted when the executor quits.   *)
Interrupted(t) == interrupted \/ (t # Main /\ quit)

-----------------------------------------------------------------------------
(* Evaluation                                                              *)

(* The topmost thunk of the thread forces its next value.                  *)
ForceNext(t) ==
    /\ At(t, "eval") /\ Top(t).todo # <<>>
    /\ LET n == Len(th[t].stack)
       IN  Become(t, [th[t] EXCEPT !.pc = "load", !.at = Head(Top(t).todo),
                                   !.stack[n].todo = Tail(@)])
    /\ UNCHANGED <<scene, words, lock, pool, signal>>

(* It has forced them all: it has a value, which finish() writes to p1     *)
(* first, or it throws.                                                    *)
Evaluated(t) ==
    /\ At(t, "eval") /\ Top(t).todo = <<>> /\ Top(t).v # NoValue
    /\ IF Top(t).v \in scene.broken
       THEN Throw(t, "error") /\ UNCHANGED words
       ELSE /\ p1' = [p1 EXCEPT ![Top(t).v] = "value"]
            /\ Become(t, [th[t] EXCEPT !.pc = "finish", !.exc = "none"])
            /\ UNCHANGED <<p0, stolen>>
    /\ UNCHANGED <<scene, lock, pool, signal>>

EvalInterrupted(t) ==
    /\ At(t, "eval") /\ Interrupted(t)
    /\ Throw(t, "interrupted")
    /\ UNCHANGED <<scene, words, lock, pool, signal>>

(* force(): the load of p0.                                                *)
Load(t) ==
    /\ At(t, "load")
    /\ LET x == p0[th[t].at]
       IN  Become(t, [th[t] EXCEPT !.read = x, !.inTry = FALSE,
                                   !.pc = IF x.pd = "thunk" THEN "cas"
                                          ELSE IF Final(x) THEN "got" ELSE "wait"])
    /\ UNCHANGED <<scene, words, lock, pool, signal>>

(* Mutant: thunk to pending without the comparison.                        *)
Claim_Blind(t) ==
    /\ At(t, "cas")
    /\ LET v == th[t].at
       IN  /\ p0' = [p0 EXCEPT ![v] = [pd |-> "pending", by |-> t]]
           /\ Become(t, [th[t] EXCEPT !.pc = "eval",
                                      !.stack = Append(@, [v |-> v, todo |-> scene.exprs[v]])])
    /\ UNCHANGED <<scene, p1, stolen, lock, pool, signal>>

(* Its compare-exchange from thunk to pending: this thread evaluates the   *)
(* thunk, or another does or did.                                          *)
Claim(t) ==
    /\ At(t, "cas")
    /\ LET v == th[t].at
           x == p0[v]
       IN  IF x.pd = "thunk"
           THEN /\ p0' = [p0 EXCEPT ![v] = [pd |-> "pending", by |-> t]]
                /\ Become(t, [th[t] EXCEPT !.pc = "eval",
                                           !.stack = Append(@, [v |-> v, todo |-> scene.exprs[v]])])
           ELSE /\ Become(t, [th[t] EXCEPT !.read = x, !.inTry = TRUE,
                                           !.pc = IF Final(x) THEN "got" ELSE "wait"])
                /\ UNCHANGED p0
    /\ UNCHANGED <<scene, p1, stolen, lock, pool, signal>>

(* The value is final: p1 is read, and a stored exception thrown again.    *)
Got(t) ==
    /\ At(t, "got")
    /\ LET v == th[t].at
           pd == th[t].read.pd
       IN  Become(t, [th[t] EXCEPT !.got = <<v, pd, p1[v]>>,
                                   !.pc = IF pd = "failed" THEN "throw" ELSE "eval",
                                   !.exc = IF pd = "failed" THEN p1[v] ELSE "none"])
    /\ UNCHANGED <<scene, words, lock, pool, signal>>

(* An exception reaches the topmost thunk: force's catch-all stores it,    *)
(* p1 first.                                                               *)
Fail(t) ==
    /\ At(t, "throw") /\ Top(t).v # NoValue
    /\ p1' = [p1 EXCEPT ![Top(t).v] = th[t].exc]
    /\ Goto(t, "finish")
    /\ UNCHANGED <<scene, p0, stolen, lock, pool, signal>>

(* After finish: force() returns, or throws again.                         *)
After(t) == IF th[t].exc = "none" THEN "eval" ELSE "throw"

(* finish(): p0 is exchanged; if the value was awaited, its waiters are    *)
(* notified.                                                               *)
Finish(t) ==
    /\ At(t, "finish")
    /\ LET v == Top(t).v
       IN  /\ p0' = [p0 EXCEPT ![v] = [pd |-> IF th[t].exc = "none" THEN "done" ELSE "failed",
                                       by |-> NoThread]]
           /\ Become(t, [th[t] EXCEPT !.pc = IF p0[v].pd = "awaited" THEN "notify" ELSE After(t),
                                      !.at = v, !.stack = Pop(@)])
    /\ UNCHANGED <<scene, p1, stolen, lock, pool, signal>>

-----------------------------------------------------------------------------
(* Waiting                                                                 *)

Woken(d, s) == IF s.pc = "asleep" /\ Domain[s.at] = d THEN [s EXCEPT !.pc = "woken"] ELSE s

(* Mutant: the waiters are notified without the domain's lock.             *)
Notify_NoLock(t) ==
    /\ At(t, "notify")
    /\ th' = [[s \in Threads |-> Woken(Domain[th[t].at], th[s])] EXCEPT ![t].pc = After(t)]
    /\ UNCHANGED <<scene, words, lock, pool, signal>>

(* notifyWaiters.                                                          *)
Notify(t) ==
    /\ At(t, "notify")
    /\ lock[Domain[th[t].at]] = NoThread
    /\ th' = [[s \in Threads |-> Woken(Domain[th[t].at], th[s])] EXCEPT ![t].pc = After(t)]
    /\ UNCHANGED <<scene, words, lock, pool, signal>>

(* waitOnThunk, with the domain's lock: the thunk is marked as awaited,    *)
(* unless it is final by now; a thread does not wait for itself.           *)
WaitOnThunk(t) ==
    /\ At(t, "wait")
    /\ LET v == th[t].at
           x == p0[v]
           d == Domain[v]
       IN  /\ lock[d] = NoThread
           /\ IF Final(x)
              THEN Become(t, [th[t] EXCEPT !.read = x, !.pc = "got"]) /\ UNCHANGED <<p0, lock>>
              ELSE /\ p0' = [p0 EXCEPT ![v].pd = "awaited"]
                   /\ IF th[t].read.by = t
                      THEN Throw(t, "error") /\ UNCHANGED lock
                      ELSE Goto(t, "sleep") /\ lock' = [lock EXCEPT ![d] = t]
    /\ UNCHANGED <<scene, p1, stolen, pool, signal>>

(* The condition variable releases the lock.                               *)
Sleep(t) ==
    /\ At(t, "sleep")
    /\ lock' = [lock EXCEPT ![Domain[th[t].at]] = NoThread]
    /\ Goto(t, "asleep")
    /\ UNCHANGED <<scene, words, pool, signal>>

(* Mutant: a thread that is woken does not look again.                     *)
Wake_NoLook(t) ==
    /\ At(t, "woken") /\ lock[Domain[th[t].at]] = NoThread
    /\ Become(t, [th[t] EXCEPT !.read = [pd |-> "done", by |-> NoThread], !.pc = "got"])
    /\ UNCHANGED <<scene, words, lock, pool, signal>>

(* Woken, with the lock: the value is final, or the wait is interrupted,   *)
(* or goes on.  An interrupt inside force's try is stored in the value as  *)
(* if this thread had evaluated it.                                        *)
Wake(t) ==
    /\ At(t, "woken") /\ lock[Domain[th[t].at]] = NoThread
    /\ LET v == th[t].at
           x == p0[v]
           interrupts == ~Final(x) /\ Interrupted(t)
           catches == interrupts /\ th[t].inTry
       IN  /\ Become(t, IF Final(x) THEN [th[t] EXCEPT !.read = x, !.pc = "got"]
                        ELSE IF ~interrupts THEN [th[t] EXCEPT !.pc = "sleep"]
                        ELSE [th[t] EXCEPT !.pc = "throw", !.exc = "interrupted",
                                           !.stack = IF catches THEN Append(@, [v |-> v, todo |-> <<>>])
                                                     ELSE @])
           /\ stolen' = (stolen \/ catches)
           /\ lock' = IF Final(x) \/ interrupts THEN lock ELSE [lock EXCEPT ![Domain[v]] = t]
    /\ UNCHANGED <<scene, p0, p1, pool, signal>>

-----------------------------------------------------------------------------
(* The executor                                                            *)

(* A worker takes an item, waits for one, or, when the executor quits,     *)
(* gives up all that are left.                                             *)
TakeItem(t) ==
    /\ At(t, "idle") /\ ~quit
    /\ \E i \in queue :
         /\ queue' = queue \ {i}
         /\ Become(t, [th[t] EXCEPT !.pc = "eval", !.item = i,
                                    !.stack = <<[v |-> NoValue, todo |-> <<i>>]>>])
    /\ UNCHANGED <<scene, words, lock, promise, quit, signal>>

WaitForItems(t) ==
    /\ At(t, "idle") /\ ~quit /\ queue = {}
    /\ Goto(t, "waiting")
    /\ UNCHANGED <<scene, words, lock, pool, signal>>

Leave(t) ==
    /\ At(t, "idle") /\ quit
    /\ queue' = {}
    /\ promise' = [i \in scene.items |-> IF i \in queue THEN "exception" ELSE promise[i]]
    /\ Goto(t, "end")
    /\ UNCHANGED <<scene, words, lock, quit, signal>>

(* An item or the main thread's work is over; an interrupted item ends the *)
(* executor, without waking the workers that wait for items.               *)
WorkOver(t) ==
    /\ \/ At(t, "eval") /\ Top(t).todo = <<>>
       \/ At(t, "throw")
    /\ Top(t).v = NoValue
    /\ LET exc == IF At(t, "throw") THEN th[t].exc ELSE "none"
       IN  IF t = Main
           THEN Goto(t, "collect") /\ UNCHANGED pool
           ELSE /\ promise' = [promise EXCEPT ![th[t].item] = IF exc = "none" THEN "value" ELSE "exception"]
                /\ quit' = (quit \/ exc = "interrupted")
                /\ Become(t, [th[t] EXCEPT !.pc = "idle", !.item = NoValue, !.stack = <<>>])
                /\ UNCHANGED queue
    /\ UNCHANGED <<scene, words, lock, signal>>

(* Mutant: the executor quits without waking the workers.                  *)
CollectItems_Silent ==
    /\ At(Main, "collect")
    /\ scene.waits => \A i \in scene.items : promise[i] # "none"
    /\ quit' = TRUE
    /\ Goto(Main, "join")
    /\ UNCHANGED <<scene, words, lock, queue, promise, signal>>

(* FutureVector::finishAll, where the main thread waits for the items, and *)
(* then ~Executor, which wakes and joins the workers.                      *)
CollectItems ==
    /\ At(Main, "collect")
    /\ scene.waits => \A i \in scene.items : promise[i] # "none"
    /\ quit' = TRUE
    /\ th' = [t \in Threads |->
                IF t = Main THEN [th[t] EXCEPT !.pc = "join"]
                ELSE IF At(t, "waiting") THEN [th[t] EXCEPT !.pc = "idle"] ELSE th[t]]
    /\ UNCHANGED <<scene, words, lock, queue, promise, signal>>

Join ==
    /\ At(Main, "join") /\ \A t \in Workers : At(t, "end")
    /\ Goto(Main, "end")
    /\ UNCHANGED <<scene, words, lock, pool, signal>>

(* triggerInterrupt: the flag, and then the executor's callback, which     *)
(* notifies every domain.                                                  *)
Interrupt ==
    /\ scene.interrupts /\ ~interrupted
    /\ interrupted' = TRUE
    /\ notifying' = Domains
    /\ UNCHANGED <<scene, words, lock, pool, th>>

NotifyInterrupt ==
    /\ \E d \in notifying :
         /\ lock[d] = NoThread
         /\ notifying' = notifying \ {d}
         /\ th' = [s \in Threads |-> Woken(d, th[s])]
    /\ UNCHANGED <<scene, words, lock, pool, interrupted>>

-----------------------------------------------------------------------------
ThreadStep(t) ==
    \/ ForceNext(t) \/ Evaluated(t) \/ EvalInterrupted(t)
    \/ Load(t) \/ Claim(t) \/ Got(t) \/ Fail(t) \/ Finish(t)
    \/ Notify(t) \/ WaitOnThunk(t) \/ Sleep(t) \/ Wake(t)
    \/ TakeItem(t) \/ WaitForItems(t) \/ Leave(t) \/ WorkOver(t)

Next ==
    \/ \E t \in Threads : ThreadStep(t)
    \/ CollectItems \/ Join
    \/ Interrupt \/ NotifyInterrupt

(* Threads run.                                                            *)
Fairness ==
    /\ \A t \in Threads : WF_vars(ThreadStep(t))
    /\ WF_vars(CollectItems \/ Join)

Spec == Init /\ [][Next]_vars /\ Fairness

-----------------------------------------------------------------------------
(* Properties                                                              *)

Evaluators(v) == {t \in Threads : \E n \in 1..Len(th[t].stack) : th[t].stack[n].v = v}

(* The types, and the states of a value (value.hh, "a value can have the   *)
(* following states"): it is pending or awaited exactly while one thread   *)
(* evaluates it, the thread that its p0 names; a thunk is never waited     *)
(* for; who holds a domain is about to sleep in it.                        *)
EvalTypeOK ==
    /\ p1 \in [Values -> {"code", "value", "error", "interrupted"}]
    /\ queue \subseteq scene.items /\ notifying \subseteq Domains
    /\ \A d \in Domains : lock[d] # NoThread =>
         At(lock[d], "sleep") /\ Domain[th[lock[d]].at] = d
    /\ \A t \in Threads : th[t].pc \in {"wait", "sleep", "asleep", "woken"} =>
         p0[th[t].at].pd # "thunk"
    /\ ~stolen => \A v \in Values :
         /\ p0[v].pd \in {"thunk", "pending", "awaited", "done", "failed"}
         /\ Evaluators(v) = IF p0[v].pd \in {"pending", "awaited"} THEN {p0[v].by} ELSE {}

(* The thunks that have a value, the least set closed under evaluation: a  *)
(* thunk that does not throw and forces only such thunks is one.  None of  *)
(* them depends on itself.                                                 *)
Forces(v) == {scene.exprs[v][i] : i \in 1..Len(scene.exprs[v])}
Closed(S) == \A v \in Values \ scene.broken : Forces(v) \subseteq S => v \in S
Good == {v \in Values : \A S \in SUBSET Values : Closed(S) => v \in S}

(* The two words of a value that a thread has read belong together and are *)
(* what its expression evaluates to, whoever evaluated it; only a value    *)
(* that threw, or was interrupted, is read as failed.  Exempt is what      *)
(* follows after an interrupted wait has written into another's thunk.     *)
ReadsWhole ==
    ~stolen => \A t \in Threads :
        LET v == th[t].got[1]
            pd == th[t].got[2]
            word == th[t].got[3]
        IN  /\ pd = "done" => v \in Good /\ word = "value"
            /\ pd = "failed" => \/ word = "error" /\ v \notin Good
                                \/ word = "interrupted" /\ (interrupted \/ quit)

(* A thread that has a step to make: it does not sleep until it is         *)
(* notified, wait for items, collect or join, and the domain that it wants *)
(* is free.                                                                *)
Parked == {"asleep", "waiting", "collect", "join", "end"}
Ready(t) ==
    /\ th[t].pc \notin Parked
    /\ th[t].pc \in {"notify", "wait", "woken"} => lock[Domain[th[t].at]] = NoThread

Acyclic == \A S \in SUBSET Values : S # {} => \E v \in S : Forces(v) \cap S = {}

(* No deadlock and no lost wakeup: until the main thread has ended, some   *)
(* thread has a step to make, whoever sleeps on a domain, on the queue or  *)
(* in a future.  Exempt are expressions that need themselves, where two    *)
(* threads that enter a cycle wait for each other.                         *)
EvalNeverStuck ==
    ~stolen /\ Acyclic /\ ~At(Main, "end") =>
        \/ \E t \in Threads : Ready(t)
        \/ At(Main, "collect") /\ (scene.waits => \A i \in scene.items : promise[i] # "none")
        \/ At(Main, "join") /\ \A t \in Workers : At(t, "end")

(* Nobody sleeps for ever: everything that is forced is finished, the main *)
(* thread gets its items and joins the workers, interrupted or not.  This  *)
(* is for expressions in which no cycle is entered by two threads.         *)
EverythingReturns == <>At(Main, "end")
=============================================================================
