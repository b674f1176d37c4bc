----------------------------- MODULE Worker_proof -----------------------------
(***************************************************************************)
(* What holds of the goal scheduler for any derivations, settings and      *)
(* environment.                                                            *)
(***************************************************************************)
EXTENDS Worker, FiniteSetTheorems, WellFoundedInduction, TLAPS

-----------------------------------------------------------------------------
(* The invariant of a worker v.  A goal of rd is to be resumed in this     *)
(* round; a goal of cur is being resumed.                                  *)

Events == {"none", "eof", "timeout"}
Errors == {"none", "assertion", "input not valid", "reference not valid", "substituter", "join"}
ChildStates == {"none", "running", "locked", "ok", "bad", "gone"}

GoalType == [pc : Pcs, waitees : SUBSET Goals, waiters : SUBSET Goals, nrFailed : Nat,
             nrNoSubstituters : Nat, sub : Nat, subFailed : BOOLEAN, event : Events]

WorkerType == [goal : [Goals -> GoalType], awake : SUBSET Goals, wanting : SUBSET Goals,
               awhile : SUBSET Goals, top : SUBSET Goals, child : [Goals -> ChildStates],
               nrBuilds : Nat, nrSubs : Nat, code : [Goals -> Codes], valid : SUBSET Outputs,
               error : Errors, misled : BOOLEAN]

(* Where a goal of each kind may be, and what it may wait for.             *)
PcsOf(g) ==
    {"none", "new"} \cup
    CASE Kind(g) = "T" -> {"outs"}
      [] Kind(g) = "D" -> {"subst", "resolve", "build"}
      [] Kind(g) = "R" -> {"inputs"}
      [] Kind(g) = "B" -> {"try", "start", "child"}
      [] OTHER -> {"refs", "run", "child"}

RefGoals(d) == {S(x[1], x[2]) : x \in Needed(d)}

MayAwait(g) ==
    CASE Kind(g) = "T" -> OutputGoals(Drv(g))
      [] Kind(g) = "D" -> {S(g[2], g[3]), R(Drv(g)), B(Drv(g))}
      [] Kind(g) = "R" -> InputGoals(Drv(g))
      [] Kind(g) = "S" -> RefGoals(Drv(g))
      [] OTHER -> {}

(* Waiting is mutual, among goals that exist.                              *)
Linked(v) ==
    /\ \A g \in Goals : v.goal[g].waiters \cup v.goal[g].waitees \subseteq Live(v)
    /\ \A g, h \in Goals : h \in v.goal[g].waitees <=> g \in v.goal[h].waiters
    /\ \A g \in Goals : v.goal[g].waitees \subseteq MayAwait(g)

(* Each goal that exists is suspended for one reason.                      *)
Reasons(v, rd, cur) ==
    /\ v.awake \cup v.wanting \cup v.awhile \cup v.top \cup rd \cup cur \subseteq Live(v)
    /\ rd \cap (v.awake \cup v.wanting \cup v.awhile) = {}
    /\ cur \cap (v.awake \cup v.wanting \cup v.awhile \cup rd) = {}
    /\ v.awake \cap (v.wanting \cup v.awhile) = {} /\ v.wanting \cap v.awhile = {}
    /\ \A g \in v.awake \cup v.wanting \cup v.awhile \cup rd \cup cur : v.goal[g].waitees = {}
    /\ \A g \in v.awake \cup rd : Pc(v, g) = "child" => v.goal[g].event # "none"
    /\ \A g \in v.wanting \cup v.awhile : Pc(v, g) # "child"

HasReason(v, rd, cur) ==
    v.error = "none" =>
        \A g \in Live(v) : \/ g \in v.awake \cup v.wanting \cup v.awhile \cup rd \cup cur
                           \/ v.goal[g].waitees # {} \/ v.child[g] # "none"

(* The children and their slots.                                           *)
Running(v, k) == {g \in Goals : v.child[g] # "none" /\ Kind(g) = k}
Slots(v, cur) ==
    /\ \A g \in Goals : v.child[g] # "none" => Pc(v, g) = "child" /\ v.goal[g].waitees = {}
    /\ \A g \in Goals \ cur : Pc(v, g) = "child" => v.child[g] # "none"
    /\ \A g \in Goals : Pc(v, g) = "start" => set.maxJobs > 0
    /\ v.nrBuilds = Cardinality(Running(v, "B")) /\ v.nrBuilds <= set.maxJobs
    /\ v.nrSubs = Cardinality(Running(v, "S")) /\ (v.nrSubs <= 1 \/ v.nrSubs <= set.maxSubs)
    /\ v.wanting # {} => Children(v) # {}

(* With --keep-going a goal is on top, or somebody waits for it.           *)
Kept(v) == set.keepGoing => \A g \in Live(v) : g \in v.top \/ v.goal[g].waiters # {}

Inv(v, rd, cur) ==
    /\ v \in WorkerType
    /\ \A g \in Goals : Pc(v, g) \in PcsOf(g)
    /\ Linked(v) /\ Reasons(v, rd, cur) /\ HasReason(v, rd, cur) /\ Slots(v, cur) /\ Kept(v)

(* What a goal has been promised by those that it has waited for.          *)
Promised(pc, g) ==
    CASE pc = "resolve" -> {R(Drv(g))}
      [] pc = "build" -> {B(Drv(g))}
      [] pc = "inputs" -> InputGoals(Drv(g))
      [] pc = "refs" -> RefGoals(Drv(g))
      [] OTHER -> {}

SoundOf(v, g) ==
    /\ v.code[g] = "ok" => Provides(g) \subseteq v.valid
    /\ v.goal[g].nrFailed = 0 =>
         \A h \in Promised(Pc(v, g), g) : h \in v.goal[g].waitees \/ Provides(h) \subseteq v.valid
    /\ Kind(g) = "B" /\ Pc(v, g) # "none" => Needed(Drv(g)) \subseteq v.valid
    /\ Kind(g) = "S" /\ Pc(v, g) \in {"run", "child"} => Needed(Drv(g)) \subseteq v.valid
    /\ Kind(g) = "S" /\ v.child[g] = "ok" => Out(g) \in v.valid

Sound(v) ==
    ~v.misled => /\ v.error \notin {"input not valid", "reference not valid"}
                 /\ \A g \in Goals : SoundOf(v, g)

WorkerInv ==
    /\ set \in Scenarios /\ foreign \subseteq Drvs
    /\ round \subseteq held /\ held \subseteq Goals
    /\ Inv(w, round, {}) /\ Sound(w)

-----------------------------------------------------------------------------
(* Goals, settings and ranks                                               *)

LEMMA TheGoals ==
    ASSUME NEW g
    PROVE  g \in Goals <=> \/ \E d \in Drvs : g \in {T(d), R(d), B(d)}
                           \/ \E x \in Outputs : g \in {D(x[1], x[2]), S(x[1], x[2])}
<1> DEFINE X == UNION {{T(d), R(d), B(d)} : d \in Drvs}
           Y == UNION {{D(x[1], x[2]), S(x[1], x[2])} : x \in Outputs}
<1>1. g \in X <=> \E d \in Drvs : g \in {T(d), R(d), B(d)}
  OBVIOUS
<1>2. g \in Y <=> \E x \in Outputs : g \in {D(x[1], x[2]), S(x[1], x[2])}
  OBVIOUS
<1>3. Goals = X \cup Y
  BY DEF Goals
<1> HIDE DEF X, Y
<1> QED
  BY <1>1, <1>2, <1>3

LEMMA KindsOf ==
    ASSUME NEW d \in Drvs
    PROVE  /\ T(d) \in Goals /\ Kind(T(d)) = "T" /\ Drv(T(d)) = d
           /\ R(d) \in Goals /\ Kind(R(d)) = "R" /\ Drv(R(d)) = d
           /\ B(d) \in Goals /\ Kind(B(d)) = "B" /\ Drv(B(d)) = d
           /\ \A o \in Outs[d] :
                /\ <<d, o>> \in Outputs
                /\ D(d, o) \in Goals /\ Kind(D(d, o)) = "D" /\ Drv(D(d, o)) = d /\ Out(D(d, o)) = <<d, o>>
                /\ S(d, o) \in Goals /\ Kind(S(d, o)) = "S" /\ Drv(S(d, o)) = d /\ Out(S(d, o)) = <<d, o>>
<1>1. /\ Kind(T(d)) = "T" /\ Drv(T(d)) = d /\ Kind(R(d)) = "R" /\ Drv(R(d)) = d
      /\ Kind(B(d)) = "B" /\ Drv(B(d)) = d
      /\ \A o : /\ Kind(D(d, o)) = "D" /\ Drv(D(d, o)) = d /\ Out(D(d, o)) = <<d, o>>
                /\ Kind(S(d, o)) = "S" /\ Drv(S(d, o)) = d /\ Out(S(d, o)) = <<d, o>>
  BY DEF Kind, Drv, Out, T, R, B, D, S
<1>2. \A o \in Outs[d] : <<d, o>> \in Outputs
  BY DEF Outputs, OutputsOf
<1>3. T(d) \in Goals /\ R(d) \in Goals /\ B(d) \in Goals
  BY TheGoals
<1>4. ASSUME NEW o \in Outs[d] PROVE D(d, o) \in Goals /\ S(d, o) \in Goals
  <2> DEFINE x == <<d, o>>
  <2>1. x \in Outputs /\ x[1] = d /\ x[2] = o
    BY <1>2
  <2> HIDE DEF x
  <2>2. D(d, o) \in {D(x[1], x[2]), S(x[1], x[2])} /\ S(d, o) \in {D(x[1], x[2]), S(x[1], x[2])}
    BY <2>1
  <2> QED
    BY <2>1, <2>2, TheGoals
<1> QED
  BY <1>1, <1>2, <1>3, <1>4

LEMMA OutputPairs ==
    ASSUME NEW ds \in SUBSET Drvs, NEW x \in OutputsOf(ds)
    PROVE  x \in Outputs /\ x[1] \in ds /\ x[2] \in Outs[x[1]] /\ x = <<x[1], x[2]>>
<1>1. PICK d \in ds : x \in {<<d, o>> : o \in Outs[d]}
  BY DEF OutputsOf
<1>2. PICK o \in Outs[d] : x = <<d, o>>
  BY <1>1
<1>3. x[1] = d /\ x[2] = o
  BY <1>2
<1> QED
  BY <1>1, <1>2, <1>3 DEF OutputsOf, Outputs

LEMMA KindsOnly ==
    ASSUME NEW g \in Goals
    PROVE  /\ Drv(g) \in Drvs /\ Kind(g) \in {"T", "R", "B", "D", "S"}
           /\ Kind(g) = "T" => g = T(Drv(g))
           /\ Kind(g) = "R" => g = R(Drv(g))
           /\ Kind(g) = "B" => g = B(Drv(g))
           /\ Kind(g) \in {"D", "S"} => Out(g) \in Outputs /\ g[2] = Drv(g) /\ g[3] \in Outs[Drv(g)]
           /\ Kind(g) = "D" => g = D(g[2], g[3])
           /\ Kind(g) = "S" => g = S(g[2], g[3])
<1>1. CASE \E d \in Drvs : g \in {T(d), R(d), B(d)}
  <2>1. PICK d \in Drvs : g \in {T(d), R(d), B(d)}
    BY <1>1
  <2> QED
    BY <2>1, KindsOf
<1>2. CASE \E x \in Outputs : g \in {D(x[1], x[2]), S(x[1], x[2])}
  <2>1. PICK x \in Outputs : g \in {D(x[1], x[2]), S(x[1], x[2])}
    BY <1>2
  <2>2. x[1] \in Drvs /\ x[2] \in Outs[x[1]] /\ x = <<x[1], x[2]>>
    BY OutputPairs DEF Outputs
  <2> DEFINE d == x[1]
             o == x[2]
  <2>3. /\ d \in Drvs /\ o \in Outs[d] /\ x = <<d, o>> /\ (g = D(d, o) \/ g = S(d, o))
    BY <2>1, <2>2
  <2> HIDE DEF d, o
  <2>4. /\ Kind(g) \in {"D", "S"} /\ Drv(g) = d /\ Out(g) = x
        /\ (Kind(g) = "D" => g = D(d, o)) /\ (Kind(g) = "S" => g = S(d, o))
    BY <2>3, KindsOf
  <2>5. g[2] = d /\ g[3] = o
    BY <2>3 DEF D, S
  <2> QED
    BY <2>3, <2>4, <2>5
<1>3. (\E d \in Drvs : g \in {T(d), R(d), B(d)}) \/ (\E x \in Outputs : g \in {D(x[1], x[2]), S(x[1], x[2])})
  BY TheGoals
<1> QED
  BY <1>1, <1>2, <1>3

LEMMA Setting ==
    ASSUME set \in Scenarios
    PROVE  /\ set.maxJobs \in Nat /\ set.maxSubs \in Nat /\ set.substituters \subseteq Nat
           /\ \A d \in Drvs : set.inputs[d] \subseteq Drvs
           /\ \A d \in Drvs : OutputGoals(d) \subseteq Goals /\ OutputGoals(d) # {}
           /\ \A d \in Drvs : InputGoals(d) \subseteq Goals /\ RefGoals(d) \subseteq Goals
           /\ \A d \in Drvs : Needed(d) \subseteq Outputs /\ OutputsOf({d}) \subseteq Outputs
           /\ \A g \in Goals : MayAwait(g) \subseteq Goals
<1>1. /\ set.maxJobs \in Nat /\ set.maxSubs \in Nat /\ set.substituters \subseteq Nat
      /\ \A d \in Drvs : set.inputs[d] \subseteq Drvs
  BY WorkerAssumption
<1>2. \A d \in Drvs : OutputGoals(d) \subseteq Goals /\ OutputGoals(d) # {}
  <2> SUFFICES ASSUME NEW d \in Drvs PROVE OutputGoals(d) \subseteq Goals /\ OutputGoals(d) # {}
    OBVIOUS
  <2>1. First[d] \in Outs[d]
    BY WorkerAssumption
  <2>2. D(d, First[d]) \in OutputGoals(d)
    BY <2>1 DEF OutputGoals
  <2>3. OutputGoals(d) \subseteq Goals
    BY KindsOf DEF OutputGoals
  <2> QED
    BY <2>2, <2>3
<1>3. ASSUME NEW d \in Drvs
      PROVE  /\ InputGoals(d) \subseteq Goals /\ RefGoals(d) \subseteq Goals
             /\ Needed(d) \subseteq Outputs /\ OutputsOf({d}) \subseteq Outputs
  <2>1. InputGoals(d) \subseteq Goals
    BY <1>1, KindsOf DEF InputGoals
  <2>2. \A x \in Needed(d) : x \in Outputs /\ x[1] \in Drvs /\ x[2] \in Outs[x[1]]
    BY <1>1, OutputPairs DEF Needed
  <2>3. RefGoals(d) \subseteq Goals
    BY <2>2, KindsOf DEF RefGoals
  <2>4. OutputsOf({d}) \subseteq Outputs
    BY OutputPairs
  <2> QED
    BY <2>1, <2>2, <2>3, <2>4
<1>4. ASSUME NEW g \in Goals PROVE MayAwait(g) \subseteq Goals
  <2>1. Drv(g) \in Drvs /\ (Kind(g) = "D" => g[2] = Drv(g) /\ g[3] \in Outs[Drv(g)])
    BY KindsOnly
  <2>2. Kind(g) = "D" => {S(g[2], g[3]), R(Drv(g)), B(Drv(g))} \subseteq Goals
    BY <2>1, KindsOf
  <2> QED
    BY <1>2, <1>3, <2>1, <2>2 DEF MayAwait
<1> QED
  BY <1>1, <1>2, <1>3, <1>4

LEMMA Least == ASSUME NEW X \in SUBSET Nat, X # {} PROVE \E x \in X : \A y \in X : x <= y
<1>1. \E x \in X : \A y \in X : <<y, x>> \notin OpToRel(<, Nat)
  BY NatLessThanWellFounded, WFMin
<1>2. \A x, y \in Nat : y < x => <<y, x>> \in OpToRel(<, Nat)
  BY DEF OpToRel
<1>3. \A x, y \in Nat : x <= y \/ y < x
  OBVIOUS
<1> QED
  BY <1>1, <1>2, <1>3

LEMMA Ranks ==
    ASSUME set \in Scenarios
    PROVE  \E N \in Nat : \E rank \in [Goals -> 0..N] :
             \A g \in Goals : \A h \in MayAwait(g) : rank[h] < rank[g]
<1> DEFINE M == Cardinality(Drvs)
<1>1. M \in Nat
  BY WorkerAssumption, FS_CardinalityType
<1>2. PICK r \in [Drvs -> 0..M] : \A d \in Drvs : \A e \in set.inputs[d] : r[e] < r[d]
  BY WorkerAssumption
<1> HIDE DEF M
<1>3. \A d \in Drvs : r[d] \in Nat /\ r[d] <= M
  BY <1>1, <1>2
<1> DEFINE k(g) == CASE Kind(g) = "T" -> 3 [] Kind(g) = "D" -> 2 [] Kind(g) = "R" -> 1 [] OTHER -> 0
           rank == [g \in Goals |-> 4 * r[Drv(g)] + k(g)]
<1>4. \A g \in Goals : k(g) \in 0..3 /\ Drv(g) \in Drvs
  BY KindsOnly
<1>5. ASSUME NEW g \in Goals, NEW h \in MayAwait(g)
      PROVE  4 * r[Drv(h)] + k(h) < 4 * r[Drv(g)] + k(g)
  <2>1. h \in Goals /\ Drv(h) \in Drvs /\ Drv(g) \in Drvs /\ r[Drv(h)] \in Nat /\ r[Drv(g)] \in Nat
    BY <1>3, Setting, KindsOnly
  <2>2. CASE Kind(g) = "T"
    <3>1. PICK o \in Outs[Drv(g)] : h = D(Drv(g), o)
      BY <2>2 DEF MayAwait, OutputGoals
    <3>2. Drv(h) = Drv(g) /\ k(h) = 2 /\ k(g) = 3
      BY <2>1, <2>2, <3>1, KindsOf
    <3> QED
      BY <2>1, <3>2
  <2>3. CASE Kind(g) = "D"
    <3>1. h \in {S(g[2], g[3]), R(Drv(g)), B(Drv(g))} /\ g[2] = Drv(g) /\ g[3] \in Outs[Drv(g)]
      BY <2>3, KindsOnly DEF MayAwait
    <3>2. Drv(h) = Drv(g) /\ Kind(h) \in {"S", "R", "B"}
      <4> DEFINE d == Drv(g)
                 o == g[3]
      <4>1. d \in Drvs /\ o \in Outs[d] /\ h \in {S(d, o), R(d), B(d)}
        BY <2>1, <3>1
      <4> HIDE DEF d, o
      <4>2. Drv(h) = d /\ Kind(h) \in {"S", "R", "B"}
        BY <4>1, KindsOf
      <4> QED
        BY <4>2 DEF d
    <3>3. k(h) \in {0, 1} /\ k(g) = 2
      BY <2>3, <3>2
    <3> QED
      BY <2>1, <3>2, <3>3
  <2>4. CASE Kind(g) = "R"
    <3>1. PICK e \in set.inputs[Drv(g)] : h = T(e)
      BY <2>4 DEF MayAwait, InputGoals
    <3>2. e \in Drvs
      BY <2>1, Setting
    <3>3. Drv(h) = e /\ k(h) = 3 /\ k(g) = 1
      BY <2>4, <3>1, <3>2, KindsOf
    <3>4. r[e] < r[Drv(g)]
      BY <1>2, <2>1, <3>1
    <3> HIDE DEF k
    <3> QED
      BY <2>1, <3>3, <3>4
  <2>5. CASE Kind(g) = "S"
    <3>1. PICK x \in Needed(Drv(g)) : h = S(x[1], x[2])
      BY <2>5 DEF MayAwait, RefGoals
    <3>2. x[1] \in set.inputs[Drv(g)] /\ x[1] \in Drvs /\ x[2] \in Outs[x[1]]
      BY <2>1, <3>1, Setting, OutputPairs DEF Needed
    <3>3. Drv(h) = x[1] /\ k(h) = 0 /\ k(g) = 0
      BY <2>5, <3>1, <3>2, KindsOf
    <3>4. r[x[1]] < r[Drv(g)]
      BY <1>2, <2>1, <3>2
    <3> HIDE DEF k
    <3> QED
      BY <2>1, <3>3, <3>4
  <2>6. CASE Kind(g) = "B"
    BY <2>6 DEF MayAwait
  <2> QED
    BY <2>2, <2>3, <2>4, <2>5, <2>6, KindsOnly
<1> HIDE DEF k
<1>6. rank \in [Goals -> 0..(4 * M + 3)]
  <2> SUFFICES ASSUME NEW g \in Goals PROVE 4 * r[Drv(g)] + k(g) \in 0..(4 * M + 3)
    OBVIOUS
  <2>1. r[Drv(g)] \in Nat /\ r[Drv(g)] <= M /\ k(g) \in 0..3
    BY <1>3, <1>4
  <2> QED
    BY <1>1, <2>1
<1>7. \A g \in Goals : \A h \in MayAwait(g) : rank[h] < rank[g]
  BY <1>5, Setting
<1>8. 4 * M + 3 \in Nat
  BY <1>1
<1> QED
  BY <1>6, <1>7, <1>8

(* In a set of goals one waits for no other, and for one no other waits.   *)
LEMMA NoCircle ==
    ASSUME set \in Scenarios, NEW X \in SUBSET Goals, X # {}
    PROVE  /\ \E g \in X : \A h \in X : h \notin MayAwait(g)
           /\ \E h \in X : \A g \in X : h \notin MayAwait(g)
<1>1. PICK N \in Nat : \E rank \in [Goals -> 0..N] :
                         \A g \in Goals : \A h \in MayAwait(g) : rank[h] < rank[g]
  BY Ranks
<1>2. PICK rank \in [Goals -> 0..N] : \A g \in Goals : \A h \in MayAwait(g) : rank[h] < rank[g]
  BY <1>1
<1>3. \A g \in X : rank[g] \in Nat /\ N - rank[g] \in Nat
  <2>1. \A g \in X : rank[g] \in 0..N
    BY <1>2
  <2> QED
    BY <2>1
<1>4. \E g \in X : \A h \in X : rank[g] <= rank[h]
  <2>1. {rank[g] : g \in X} \in SUBSET Nat /\ {rank[g] : g \in X} # {}
    BY <1>3
  <2>2. \E x \in {rank[g] : g \in X} : \A y \in {rank[g] : g \in X} : x <= y
    BY <2>1, Least
  <2> QED
    BY <2>2
<1>5. \E h \in X : \A g \in X : N - rank[h] <= N - rank[g]
  <2>1. {N - rank[g] : g \in X} \in SUBSET Nat /\ {N - rank[g] : g \in X} # {}
    BY <1>3
  <2>2. \E x \in {N - rank[g] : g \in X} : \A y \in {N - rank[g] : g \in X} : x <= y
    BY <2>1, Least
  <2> QED
    BY <2>2
<1>6. \A a, b \in X : rank[a] <= rank[b] => ~(rank[b] < rank[a])
  BY <1>3
<1>7. \A a, b \in X : N - rank[a] <= N - rank[b] => ~(rank[a] < rank[b])
  BY <1>3
<1> QED
  BY <1>2, <1>4, <1>5, <1>6, <1>7

LEMMA NotItself == ASSUME set \in Scenarios, NEW g \in Goals PROVE g \notin MayAwait(g)
<1>1. {g} \in SUBSET Goals /\ {g} # {}
  OBVIOUS
<1> QED
  BY <1>1, NoCircle

-----------------------------------------------------------------------------
(* What the functions of the worker do                                     *)

(* Both have the same of what only children, results and errors change.    *)
Alike(u, v) ==
    /\ u.child = v.child /\ u.nrBuilds = v.nrBuilds /\ u.nrSubs = v.nrSubs
    /\ u.code = v.code /\ u.valid = v.valid /\ u.error = v.error /\ u.misled = v.misled

LEMMA Typed ==
    ASSUME NEW v \in WorkerType
    PROVE  /\ v.goal \in [Goals -> GoalType] /\ v.awake \subseteq Goals /\ v.wanting \subseteq Goals
           /\ v.awhile \subseteq Goals /\ v.top \subseteq Goals /\ v.child \in [Goals -> ChildStates]
           /\ v.nrBuilds \in Nat /\ v.nrSubs \in Nat /\ v.code \in [Goals -> Codes]
           /\ v.valid \subseteq Outputs /\ v.error \in Errors
BY DEF WorkerType

(* A worker of which only the goals and the three sets of sleepers differ. *)
Put(v, goal, A, W, H) == [v EXCEPT !.goal = goal, !.awake = A, !.wanting = W, !.awhile = H]

LEMMA PutFields ==
    ASSUME NEW v \in WorkerType, NEW goal \in [Goals -> GoalType], NEW A \in SUBSET Goals,
           NEW W \in SUBSET Goals, NEW H \in SUBSET Goals
    PROVE  /\ Put(v, goal, A, W, H) \in WorkerType /\ Alike(Put(v, goal, A, W, H), v)
           /\ Put(v, goal, A, W, H).top = v.top /\ Put(v, goal, A, W, H).goal = goal
           /\ Put(v, goal, A, W, H).awake = A /\ Put(v, goal, A, W, H).wanting = W
           /\ Put(v, goal, A, W, H).awhile = H
BY DEF WorkerType, Put, Alike

LEMMA WithPc ==
    ASSUME NEW r \in GoalType, NEW pc \in Pcs
    PROVE  /\ [r EXCEPT !.pc = pc] \in GoalType
           /\ [r EXCEPT !.pc = pc].pc = pc
           /\ [r EXCEPT !.pc = pc].waitees = r.waitees /\ [r EXCEPT !.pc = pc].waiters = r.waiters
           /\ [r EXCEPT !.pc = pc].event = r.event /\ [r EXCEPT !.pc = pc].nrFailed = r.nrFailed
BY DEF GoalType

(* A goal that goes to sleep for another reason than a goal or a child.    *)
Sleeps(u, v, g, pc) ==
    /\ u \in WorkerType /\ Alike(u, v) /\ u.top = v.top
    /\ \A h \in Goals \ {g} : u.goal[h] = v.goal[h]
    /\ u.goal[g].pc = pc /\ u.goal[g].waitees = v.goal[g].waitees
    /\ u.goal[g].waiters = v.goal[g].waiters /\ u.goal[g].event = v.goal[g].event
    /\ u.goal[g].nrFailed = v.goal[g].nrFailed
    /\ \/ u.awake = v.awake \cup {g} /\ u.wanting = v.wanting /\ u.awhile = v.awhile
       \/ u.awake = v.awake /\ u.wanting = v.wanting /\ u.awhile = v.awhile \cup {g}
       \/ /\ u.awake = v.awake /\ u.wanting = v.wanting \cup {g} /\ u.awhile = v.awhile
          /\ IF Kind(g) = "S" THEN v.nrSubs >= set.maxSubs ELSE v.nrBuilds >= set.maxJobs

LEMMA Sleepers ==
    ASSUME NEW v \in WorkerType, NEW g \in Goals, NEW pc \in Pcs, set \in Scenarios
    PROVE  /\ Sleeps(Yield(v, g, pc), v, g, pc)
           /\ Sleeps(WaitForAWhile(Goto(v, g, pc), g), v, g, pc)
           /\ Sleeps(WaitForBuildSlot(Goto(v, g, pc), g), v, g, pc)
           /\ pc = v.goal[g].pc => Sleeps(WaitForBuildSlot(v, g), v, g, pc)
<1> DEFINE r == [v.goal[g] EXCEPT !.pc = pc]
           goal == [v.goal EXCEPT ![g] = r]
           v1 == [v EXCEPT !.goal[g] = r]
           awake == v.awake \cup {g}
           wanting == v.wanting \cup {g}
           awhile == v.awhile \cup {g}
<1>1. /\ v.goal \in [Goals -> GoalType] /\ v.goal[g] \in GoalType /\ v.awake \subseteq Goals
      /\ v.wanting \subseteq Goals /\ v.awhile \subseteq Goals /\ v.nrBuilds \in Nat /\ v.nrSubs \in Nat
      /\ set.maxJobs \in Nat /\ set.maxSubs \in Nat
  BY Typed, Setting
<1>2. /\ r \in GoalType /\ r.pc = pc /\ r.waitees = v.goal[g].waitees /\ r.waiters = v.goal[g].waiters
      /\ r.event = v.goal[g].event /\ r.nrFailed = v.goal[g].nrFailed
  BY <1>1, WithPc
<1>3. Goto(v, g, pc) = v1
  BY DEF Goto
<1>4. pc = v.goal[g].pc => r = v.goal[g] /\ v1 = v
  BY <1>1 DEF GoalType, WorkerType
<1> HIDE DEF r
<1>5. /\ v1.awake = v.awake /\ v1.wanting = v.wanting /\ v1.awhile = v.awhile
      /\ v1.nrBuilds = v.nrBuilds /\ v1.nrSubs = v.nrSubs
  BY DEF WorkerType
<1>6. /\ [v1 EXCEPT !.awake = @ \cup {g}] = Put(v, goal, awake, v.wanting, v.awhile)
      /\ [v1 EXCEPT !.wanting = @ \cup {g}] = Put(v, goal, v.awake, wanting, v.awhile)
      /\ [v1 EXCEPT !.awhile = @ \cup {g}] = Put(v, goal, v.awake, v.wanting, awhile)
  BY DEF WorkerType, Put
<1>7. goal \in [Goals -> GoalType] /\ goal[g] = r /\ \A h \in Goals \ {g} : goal[h] = v.goal[h]
  BY <1>1, <1>2
<1>8. awake \in SUBSET Goals /\ wanting \in SUBSET Goals /\ awhile \in SUBSET Goals
  BY <1>1
<1>9. awake = v.awake \cup {g} /\ wanting = v.wanting \cup {g} /\ awhile = v.awhile \cup {g}
  OBVIOUS
<1>10. v.awake \in SUBSET Goals /\ v.wanting \in SUBSET Goals /\ v.awhile \in SUBSET Goals
  BY <1>1
<1> HIDE DEF v1, goal, awake, wanting, awhile
<1>11. Sleeps([v1 EXCEPT !.awake = @ \cup {g}], v, g, pc)
  <2> DEFINE u == Put(v, goal, awake, v.wanting, v.awhile)
  <2>1. /\ u \in WorkerType /\ Alike(u, v) /\ u.top = v.top /\ u.goal = goal
        /\ u.awake = awake /\ u.wanting = v.wanting /\ u.awhile = v.awhile
    BY <1>7, <1>8, <1>10, PutFields
  <2> HIDE DEF u
  <2>2. Sleeps(u, v, g, pc)
    BY <1>2, <1>7, <1>9, <2>1 DEF Sleeps
  <2> QED
    BY <1>6, <2>2 DEF u
<1>12. Sleeps([v1 EXCEPT !.awhile = @ \cup {g}], v, g, pc)
  <2> DEFINE u == Put(v, goal, v.awake, v.wanting, awhile)
  <2>1. /\ u \in WorkerType /\ Alike(u, v) /\ u.top = v.top /\ u.goal = goal
        /\ u.awake = v.awake /\ u.wanting = v.wanting /\ u.awhile = awhile
    BY <1>7, <1>8, <1>10, PutFields
  <2> HIDE DEF u
  <2>2. Sleeps(u, v, g, pc)
    BY <1>2, <1>7, <1>9, <2>1 DEF Sleeps
  <2> QED
    BY <1>6, <2>2 DEF u
<1>13. Sleeps(WaitForBuildSlot(v1, g), v, g, pc)
  <2> DEFINE free == \/ Kind(g) # "S" /\ v1.nrBuilds < set.maxJobs
                     \/ Kind(g) = "S" /\ v1.nrSubs < set.maxSubs
             u == Put(v, goal, v.awake, wanting, v.awhile)
  <2>1. WaitForBuildSlot(v1, g) = IF free THEN [v1 EXCEPT !.awake = @ \cup {g}] ELSE u
    BY <1>6 DEF WaitForBuildSlot, WakeUp
  <2>2. ASSUME ~free PROVE Sleeps(u, v, g, pc)
    <3>1. IF Kind(g) = "S" THEN v.nrSubs >= set.maxSubs ELSE v.nrBuilds >= set.maxJobs
      BY <1>1, <1>5, <2>2
    <3>2. /\ u \in WorkerType /\ Alike(u, v) /\ u.top = v.top /\ u.goal = goal
          /\ u.awake = v.awake /\ u.wanting = wanting /\ u.awhile = v.awhile
      BY <1>7, <1>8, <1>10, PutFields
    <3> HIDE DEF u, free
    <3> QED
      BY <1>2, <1>7, <1>9, <3>1, <3>2 DEF Sleeps
  <2> HIDE DEF u, free
  <2> QED
    BY <1>11, <2>1, <2>2
<1> QED
  BY <1>3, <1>4, <1>11, <1>12, <1>13 DEF Yield, WakeUp, WaitForAWhile

-----------------------------------------------------------------------------
(* What the functions of the worker preserve                               *)

LEMMA Sleeping ==
    ASSUME NEW v, NEW u, NEW g \in Goals, NEW pc \in PcsOf(g), NEW rd,
           set \in Scenarios, Inv(v, rd, {g}), Sleeps(u, v, g, pc),
           v.child[g] = "none", pc \notin {"none", "child"}, pc = "start" => set.maxJobs > 0,
           u.wanting # v.wanting => Children(v) # {}
    PROVE  Inv(u, rd, {})
<1>1. /\ u \in WorkerType /\ v \in WorkerType
      /\ u.child = v.child /\ u.nrBuilds = v.nrBuilds /\ u.nrSubs = v.nrSubs
      /\ u.error = v.error /\ u.top = v.top
  BY DEF Sleeps, Alike, Inv
<1>2. /\ \A h \in Goals \ {g} : u.goal[h] = v.goal[h]
      /\ u.goal[g].pc = pc /\ u.goal[g].waitees = v.goal[g].waitees
      /\ u.goal[g].waiters = v.goal[g].waiters /\ u.goal[g].event = v.goal[g].event
  BY DEF Sleeps
<1>3. /\ v.awake \subseteq u.awake /\ v.wanting \subseteq u.wanting /\ v.awhile \subseteq u.awhile
      /\ u.awake \cup u.wanting \cup u.awhile = v.awake \cup v.wanting \cup v.awhile \cup {g}
      /\ \/ u.awake = v.awake \cup {g} /\ u.wanting = v.wanting /\ u.awhile = v.awhile
         \/ u.awake = v.awake /\ u.wanting = v.wanting /\ u.awhile = v.awhile \cup {g}
         \/ u.awake = v.awake /\ u.wanting = v.wanting \cup {g} /\ u.awhile = v.awhile
  BY DEF Sleeps
<1>4. /\ \A h \in Goals : Pc(v, h) \in PcsOf(h)
      /\ Linked(v) /\ Reasons(v, rd, {g}) /\ HasReason(v, rd, {g}) /\ Slots(v, {g}) /\ Kept(v)
  BY DEF Inv
<1>5. g \in Live(v)
  BY <1>4 DEF Reasons
<1>6. Live(u) = Live(v)
  BY <1>2, <1>5 DEF Live, Pc
<1>7. Linked(u)
  <2>1. \A h \in Goals : u.goal[h].waiters = v.goal[h].waiters /\ u.goal[h].waitees = v.goal[h].waitees
    BY <1>2
  <2> QED
    BY <1>4, <1>6, <2>1 DEF Linked
<1>8. Reasons(u, rd, {})
  <2>1. \A h \in Goals : /\ u.goal[h].waitees = v.goal[h].waitees /\ u.goal[h].event = v.goal[h].event
                         /\ h # g => Pc(u, h) = Pc(v, h)
    BY <1>2 DEF Pc
  <2>2. Pc(u, g) # "child"
    BY <1>2 DEF Pc
  <2>3. /\ v.awake \cup v.wanting \cup v.awhile \cup v.top \cup rd \subseteq Goals
        /\ g \notin v.awake \cup v.wanting \cup v.awhile \cup rd
    BY <1>4 DEF Reasons, Live
  <2>4. u.awake \cup u.wanting \cup u.awhile \cup u.top \cup rd \subseteq Live(u)
    BY <1>1, <1>3, <1>4, <1>5, <1>6 DEF Reasons
  <2>5. /\ rd \cap (u.awake \cup u.wanting \cup u.awhile) = {}
        /\ u.awake \cap (u.wanting \cup u.awhile) = {} /\ u.wanting \cap u.awhile = {}
    BY <1>3, <1>4, <2>3 DEF Reasons
  <2>6. \A h \in u.awake \cup u.wanting \cup u.awhile \cup rd : u.goal[h].waitees = {}
    BY <1>3, <1>4, <2>1, <2>3 DEF Reasons
  <2>7. \A h \in u.awake \cup rd : Pc(u, h) = "child" => u.goal[h].event # "none"
    BY <1>3, <1>4, <2>1, <2>2, <2>3 DEF Reasons
  <2>8. \A h \in u.wanting \cup u.awhile : Pc(u, h) # "child"
    BY <1>3, <1>4, <2>1, <2>2, <2>3 DEF Reasons
  <2> QED
    BY <2>4, <2>5, <2>6, <2>7, <2>8 DEF Reasons
<1>9. HasReason(u, rd, {})
  <2>1. \A h \in Goals : u.goal[h].waitees = v.goal[h].waitees
    BY <1>2
  <2> QED
    BY <1>1, <1>3, <1>4, <1>6, <2>1 DEF HasReason, Live
<1>10. Slots(u, {})
  <2>1. \A h \in Goals : h # g => Pc(u, h) = Pc(v, h)
    BY <1>2 DEF Pc
  <2>2. Pc(u, g) = pc
    BY <1>2 DEF Pc
  <2>3. Running(u, "B") = Running(v, "B") /\ Running(u, "S") = Running(v, "S") /\ Children(u) = Children(v)
    BY <1>1 DEF Running, Children
  <2>4. \A h \in Goals : u.goal[h].waitees = v.goal[h].waitees
    BY <1>2
  <2> QED
    BY <1>1, <1>4, <2>1, <2>2, <2>3, <2>4 DEF Slots
<1>11. Kept(u)
  <2>1. \A h \in Goals : u.goal[h].waiters = v.goal[h].waiters
    BY <1>2
  <2> QED
    BY <1>1, <1>4, <1>6, <2>1 DEF Kept, Live
<1>12. \A h \in Goals : Pc(u, h) \in PcsOf(h)
  BY <1>2, <1>4 DEF Pc
<1> QED
  BY <1>1, <1>7, <1>8, <1>9, <1>10, <1>11, <1>12 DEF Inv

(* Changes to what neither wakes a goal nor counts a child; a goal of G may *)
(* go back to its start.                                                   *)
Back(u, v, h) == Pc(u, h) = "new" /\ Pc(v, h) # "none"

SameBut(u, v, G) ==
    /\ u.awake = v.awake /\ u.wanting = v.wanting /\ u.awhile = v.awhile /\ u.top = v.top
    /\ u.child = v.child /\ u.nrBuilds = v.nrBuilds /\ u.nrSubs = v.nrSubs
    /\ \A h \in Goals : /\ u.goal[h].waitees = v.goal[h].waitees
                        /\ u.goal[h].waiters = v.goal[h].waiters
                        /\ h \notin G => /\ u.goal[h].event = v.goal[h].event
                                         /\ Pc(u, h) = Pc(v, h)
                        /\ \/ Pc(u, h) = Pc(v, h)
                           \/ Back(u, v, h) /\ v.child[h] = "none"

LEMMA Inert ==
    ASSUME NEW v, NEW u, NEW rd, NEW cur, NEW G,
           Inv(v, rd, cur), u \in WorkerType, SameBut(u, v, G), G \subseteq cur,
           u.error = v.error \/ u.error # "none"
    PROVE  Inv(u, rd, cur)
<1>1. /\ u.awake = v.awake /\ u.wanting = v.wanting /\ u.awhile = v.awhile /\ u.top = v.top
      /\ u.child = v.child /\ u.nrBuilds = v.nrBuilds /\ u.nrSubs = v.nrSubs
      /\ \A h \in Goals : /\ u.goal[h].waitees = v.goal[h].waitees
                          /\ u.goal[h].waiters = v.goal[h].waiters
                          /\ h \notin cur => /\ u.goal[h].event = v.goal[h].event
                                             /\ Pc(u, h) = Pc(v, h)
                          /\ \/ Pc(u, h) = Pc(v, h)
                             \/ Pc(u, h) = "new" /\ Pc(v, h) # "none" /\ v.child[h] = "none"
  BY DEF SameBut, Back
<1>2. /\ \A h \in Goals : Pc(v, h) \in PcsOf(h)
      /\ Linked(v) /\ Reasons(v, rd, cur) /\ HasReason(v, rd, cur) /\ Slots(v, cur) /\ Kept(v)
  BY DEF Inv
<1>3. Live(u) = Live(v) /\ Children(u) = Children(v) /\ Running(u, "B") = Running(v, "B") /\ Running(u, "S") = Running(v, "S")
  BY <1>1 DEF Live, Children, Running
<1>4. Linked(u)
  BY <1>1, <1>2, <1>3 DEF Linked
<1>5. Reasons(u, rd, cur)
  <2>1. /\ v.awake \cup v.wanting \cup v.awhile \cup v.top \cup rd \cup cur \subseteq Goals
        /\ \A h \in v.awake \cup v.wanting \cup v.awhile \cup rd : h \notin cur
    BY <1>2 DEF Live, Reasons
  <2>2. \A h \in v.awake \cup v.wanting \cup v.awhile \cup rd :
          Pc(u, h) = Pc(v, h) /\ u.goal[h].event = v.goal[h].event
    BY <1>1, <2>1
  <2> QED
    BY <1>1, <1>2, <1>3, <2>1, <2>2 DEF Reasons
<1>6. HasReason(u, rd, cur)
  BY <1>1, <1>2, <1>3 DEF HasReason, Live
<1>7. Slots(u, cur)
  <2>1. \A h \in Goals : /\ u.child[h] # "none" => Pc(u, h) = "child" /\ u.goal[h].waitees = {}
                         /\ h \notin cur => (Pc(u, h) = "child" => u.child[h] # "none")
                         /\ Pc(u, h) = "start" => set.maxJobs > 0
    BY <1>1, <1>2 DEF Slots
  <2> QED
    BY <1>1, <1>2, <1>3, <2>1 DEF Slots
<1>8. Kept(u)
  BY <1>1, <1>2, <1>3 DEF Kept, Live
<1>9. \A h \in Goals : Pc(u, h) \in PcsOf(h)
  BY <1>1, <1>2 DEF PcsOf
<1> QED
  BY <1>4, <1>5, <1>6, <1>7, <1>8, <1>9 DEF Inv

(* An error ends the run.                                                  *)
LEMMA Thrown ==
    ASSUME NEW v, NEW rd, NEW g \in Goals, NEW e \in Errors \ {"none"},
           Inv(v, rd, {g}), Pc(v, g) # "child"
    PROVE  Inv(Throw(v, e), rd, {})
<1> DEFINE u == Throw(v, e)
<1>1. v \in WorkerType
  BY DEF Inv
<1>2. /\ u \in WorkerType /\ u.error = e /\ SameBut(u, v, {})
  BY <1>1 DEF Throw, SameBut, WorkerType, Pc
<1> HIDE DEF u
<1>3. Inv(u, rd, {g})
  BY <1>2, Inert
<1>4. /\ u \in WorkerType /\ \A h \in Goals : Pc(u, h) \in PcsOf(h)
      /\ Linked(u) /\ Reasons(u, rd, {g}) /\ Slots(u, {g}) /\ Kept(u)
  BY <1>3 DEF Inv
<1>5. Reasons(u, rd, {})
  BY <1>4 DEF Reasons
<1>6. HasReason(u, rd, {})
  BY <1>2 DEF HasReason
<1>7. Slots(u, {})
  BY <1>2, <1>4 DEF Slots, SameBut, Pc
<1>8. Inv(u, rd, {})
  BY <1>4, <1>5, <1>6, <1>7 DEF Inv
<1> QED
  BY <1>8 DEF u

(* The slots of children that are gone.                                    *)
LEMMA Counted ==
    ASSUME NEW v, NEW u, NEW K, K \subseteq Children(v), NEW k,
           \A h \in Goals : (u.child[h] # "none") <=> (v.child[h] # "none" /\ h \notin K)
    PROVE  LET K1 == {g \in K : Kind(g) = k}
           IN  /\ Cardinality(Running(u, k)) = Cardinality(Running(v, k)) - Cardinality(K1)
               /\ Cardinality(Running(v, k)) \in Nat /\ Cardinality(K1) \in Nat
               /\ Cardinality(Running(u, k)) \in Nat
<1> DEFINE K1 == {g \in K : Kind(g) = k}
<1>1. IsFiniteSet(Running(v, k)) /\ IsFiniteSet(Running(u, k))
  <2>1. Running(v, k) \subseteq Goals /\ Running(u, k) \subseteq Goals
    BY DEF Running
  <2> QED
    BY <2>1, WorkerAssumption, FS_Subset
<1>2. K1 \subseteq Running(v, k) /\ Running(u, k) = Running(v, k) \ K1
  BY DEF Children, Running
<1>3. IsFiniteSet(K1) /\ Running(v, k) \cap K1 = K1
  BY <1>1, <1>2, FS_Subset
<1> HIDE DEF K1
<1>4. Cardinality(Running(v, k) \ K1) = Cardinality(Running(v, k)) - Cardinality(Running(v, k) \cap K1)
  BY <1>1, FS_Difference
<1>5. Cardinality(Running(v, k)) \in Nat /\ Cardinality(K1) \in Nat /\ Cardinality(Running(u, k)) \in Nat
  BY <1>1, <1>3, FS_CardinalityType
<1>6. /\ Cardinality(Running(u, k)) = Cardinality(Running(v, k)) - Cardinality(K1)
      /\ Cardinality(Running(v, k)) \in Nat /\ Cardinality(K1) \in Nat
      /\ Cardinality(Running(u, k)) \in Nat
  BY <1>2, <1>3, <1>4, <1>5
<1> QED
  BY <1>6 DEF K1

LEMMA Freed ==
    ASSUME NEW v \in WorkerType, NEW K \in SUBSET Children(v),
           v.nrBuilds = Cardinality(Running(v, "B")), v.nrSubs = Cardinality(Running(v, "S"))
    PROVE  LET u == ChildTerminated(v, K)
           IN  /\ u \in WorkerType /\ u.goal = v.goal /\ u.top = v.top /\ u.awhile = v.awhile
               /\ u.code = v.code /\ u.valid = v.valid /\ u.error = v.error /\ u.misled = v.misled
               /\ u.awake = v.awake \cup v.wanting /\ u.wanting = {}
               /\ \A h \in Goals : u.child[h] = IF h \in K THEN "none" ELSE v.child[h]
               /\ u.nrBuilds = Cardinality(Running(u, "B")) /\ u.nrBuilds <= v.nrBuilds
               /\ u.nrSubs = Cardinality(Running(u, "S")) /\ u.nrSubs <= v.nrSubs
<1> DEFINE u == ChildTerminated(v, K)
           child == [h \in Goals |-> IF h \in K THEN "none" ELSE v.child[h]]
           KB == {g \in K : Kind(g) = "B"}
           KS == {g \in K : Kind(g) = "S"}
<1>1. v.child \in [Goals -> ChildStates] /\ v.awake \subseteq Goals /\ v.wanting \subseteq Goals
  BY Typed
<1>2. child \in [Goals -> ChildStates] /\ \A h \in Goals : child[h] = IF h \in K THEN "none" ELSE v.child[h]
  BY <1>1 DEF ChildStates
<1>3. u = [v EXCEPT !.child = child, !.nrSubs = v.nrSubs - Cardinality(KS),
                    !.nrBuilds = v.nrBuilds - Cardinality(KB),
                    !.awake = v.awake \cup v.wanting, !.wanting = {}]
  <2>1. \A h \in Goals : v.child[h] = v.child[h]
    OBVIOUS
  <2> QED
    BY DEF ChildTerminated
<1> HIDE DEF child, KB, KS, u
<1>4. /\ u.child = child /\ u.goal = v.goal /\ u.top = v.top /\ u.awhile = v.awhile
      /\ u.code = v.code /\ u.valid = v.valid /\ u.error = v.error /\ u.misled = v.misled
      /\ u.awake = v.awake \cup v.wanting /\ u.wanting = {}
      /\ u.nrSubs = v.nrSubs - Cardinality(KS) /\ u.nrBuilds = v.nrBuilds - Cardinality(KB)
  BY <1>3 DEF WorkerType
<1>5. \A h \in Goals : (u.child[h] # "none") <=> (v.child[h] # "none" /\ h \notin K)
  BY <1>2, <1>4
<1>6. /\ Cardinality(Running(u, "B")) = Cardinality(Running(v, "B")) - Cardinality(KB)
      /\ Cardinality(Running(v, "B")) \in Nat /\ Cardinality(KB) \in Nat
      /\ Cardinality(Running(u, "B")) \in Nat
  BY <1>5, Counted DEF KB
<1>7. /\ Cardinality(Running(u, "S")) = Cardinality(Running(v, "S")) - Cardinality(KS)
      /\ Cardinality(Running(v, "S")) \in Nat /\ Cardinality(KS) \in Nat
      /\ Cardinality(Running(u, "S")) \in Nat
  BY <1>5, Counted DEF KS
<1>8. /\ u.nrBuilds = Cardinality(Running(u, "B")) /\ u.nrBuilds <= v.nrBuilds
      /\ u.nrSubs = Cardinality(Running(u, "S")) /\ u.nrSubs <= v.nrSubs
      /\ v.nrSubs - Cardinality(KS) \in Nat /\ v.nrBuilds - Cardinality(KB) \in Nat
  BY <1>4, <1>6, <1>7
<1>9. u \in WorkerType
  BY <1>1, <1>2, <1>3, <1>8 DEF WorkerType
<1>10. /\ u \in WorkerType /\ u.goal = v.goal /\ u.top = v.top /\ u.awhile = v.awhile
       /\ u.code = v.code /\ u.valid = v.valid /\ u.error = v.error /\ u.misled = v.misled
       /\ u.awake = v.awake \cup v.wanting /\ u.wanting = {}
       /\ \A h \in Goals : u.child[h] = IF h \in K THEN "none" ELSE v.child[h]
       /\ u.nrBuilds = Cardinality(Running(u, "B")) /\ u.nrBuilds <= v.nrBuilds
       /\ u.nrSubs = Cardinality(Running(u, "S")) /\ u.nrSubs <= v.nrSubs
  BY <1>2, <1>4, <1>8, <1>9
<1> QED
  BY <1>10 DEF u

LEMMA Terminated ==
    ASSUME NEW v, NEW rd, NEW g \in Goals, set \in Scenarios, Inv(v, rd, {g}), v.child[g] # "none"
    PROVE  /\ Inv(ChildTerminated(v, {g}), rd, {g})
           /\ ChildTerminated(v, {g}).child[g] = "none" /\ ChildTerminated(v, {g}).goal = v.goal
<1> DEFINE u == ChildTerminated(v, {g})
<1>1. /\ v \in WorkerType /\ \A h \in Goals : Pc(v, h) \in PcsOf(h)
      /\ Linked(v) /\ Reasons(v, rd, {g}) /\ HasReason(v, rd, {g}) /\ Slots(v, {g}) /\ Kept(v)
  BY DEF Inv
<1>2. {g} \in SUBSET Children(v)
  BY DEF Children
<1>3. /\ u \in WorkerType /\ u.goal = v.goal /\ u.top = v.top /\ u.awhile = v.awhile /\ u.error = v.error
      /\ u.awake = v.awake \cup v.wanting /\ u.wanting = {}
      /\ \A h \in Goals : u.child[h] = IF h = g THEN "none" ELSE v.child[h]
      /\ u.nrBuilds = Cardinality(Running(u, "B")) /\ u.nrBuilds <= v.nrBuilds
      /\ u.nrSubs = Cardinality(Running(u, "S")) /\ u.nrSubs <= v.nrSubs
  BY <1>1, <1>2, Freed DEF Slots
<1> HIDE DEF u
<1>4. Live(u) = Live(v) /\ (\A h \in Goals : Pc(u, h) = Pc(v, h)) /\ Live(v) \subseteq Goals
  BY <1>3 DEF Live, Pc
<1>5. Linked(u) /\ Kept(u)
  BY <1>1, <1>3, <1>4 DEF Linked, Kept
<1>6. Reasons(u, rd, {g})
  BY <1>1, <1>3, <1>4 DEF Reasons
<1>7. HasReason(u, rd, {g})
  BY <1>1, <1>3, <1>4 DEF HasReason
<1>8. Slots(u, {g})
  <2>1. u.nrBuilds \in Nat /\ v.nrBuilds \in Nat /\ u.nrSubs \in Nat /\ v.nrSubs \in Nat
    BY <1>1, <1>3, Typed
  <2>2. set.maxJobs \in Nat /\ set.maxSubs \in Nat
    BY Setting
  <2>3. v.nrBuilds <= set.maxJobs /\ (v.nrSubs <= 1 \/ v.nrSubs <= set.maxSubs)
    BY <1>1 DEF Slots
  <2>4. u.nrBuilds <= set.maxJobs /\ (u.nrSubs <= 1 \/ u.nrSubs <= set.maxSubs)
    BY <1>3, <2>1, <2>2, <2>3
  <2>5. \A h \in Goals : u.child[h] # "none" => v.child[h] # "none"
    BY <1>3
  <2>6. \A h \in Goals \ {g} : u.child[h] = v.child[h]
    BY <1>3
  <2> QED
    BY <1>1, <1>3, <1>4, <2>4, <2>5, <2>6 DEF Slots
<1>9. Inv(u, rd, {g}) /\ u.child[g] = "none" /\ u.goal = v.goal
  BY <1>1, <1>3, <1>4, <1>5, <1>6, <1>7, <1>8 DEF Inv
<1> QED
  BY <1>9 DEF u

LEMMA OneMore ==
    ASSUME NEW v, NEW u, NEW g \in Goals, v.child[g] = "none", NEW k,
           \A h \in Goals : (u.child[h] # "none") <=> (v.child[h] # "none" \/ h = g)
    PROVE  /\ Cardinality(Running(u, k)) = IF Kind(g) = k THEN Cardinality(Running(v, k)) + 1
                                           ELSE Cardinality(Running(v, k))
           /\ Cardinality(Running(v, k)) \in Nat
<1>1. IsFiniteSet(Running(v, k))
  <2>1. Running(v, k) \subseteq Goals
    BY DEF Running
  <2> QED
    BY <2>1, WorkerAssumption, FS_Subset
<1>2. /\ Kind(g) = k => Running(u, k) = Running(v, k) \cup {g}
      /\ Kind(g) # k => Running(u, k) = Running(v, k)
      /\ g \notin Running(v, k)
  BY DEF Running
<1>3. Cardinality(Running(v, k) \cup {g}) = Cardinality(Running(v, k)) + 1
  BY <1>1, <1>2, FS_AddElement
<1> QED
  BY <1>1, <1>2, <1>3, FS_CardinalityType

LEMMA Started ==
    ASSUME NEW v, NEW rd, NEW g \in Goals, set \in Scenarios, Inv(v, rd, {g}), v.child[g] = "none",
           \/ Kind(g) = "B" /\ v.nrBuilds < set.maxJobs
           \/ Kind(g) = "S" /\ v.nrSubs < IF set.maxSubs = 0 THEN 1 ELSE set.maxSubs
    PROVE  Inv(ChildStarted(v, g), rd, {})
<1> DEFINE u == ChildStarted(v, g)
           r == [v.goal[g] EXCEPT !.pc = "child"]
           goal == [v.goal EXCEPT ![g] = r]
           child == [v.child EXCEPT ![g] = "running"]
           nrSubs == IF Kind(g) = "S" THEN v.nrSubs + 1 ELSE v.nrSubs
           nrBuilds == IF Kind(g) = "B" THEN v.nrBuilds + 1 ELSE v.nrBuilds
<1>1. /\ v \in WorkerType /\ \A h \in Goals : Pc(v, h) \in PcsOf(h)
      /\ Linked(v) /\ Reasons(v, rd, {g}) /\ HasReason(v, rd, {g}) /\ Slots(v, {g}) /\ Kept(v)
  BY DEF Inv
<1>2. /\ v.goal \in [Goals -> GoalType] /\ v.goal[g] \in GoalType /\ v.child \in [Goals -> ChildStates]
      /\ v.nrBuilds \in Nat /\ v.nrSubs \in Nat /\ set.maxJobs \in Nat /\ set.maxSubs \in Nat
  BY <1>1, Typed, Setting
<1>3. /\ r \in GoalType /\ r.pc = "child" /\ r.waitees = v.goal[g].waitees
      /\ r.waiters = v.goal[g].waiters /\ r.event = v.goal[g].event
  BY <1>2, WithPc DEF Pcs
<1>4. u = [v EXCEPT !.child = child, !.goal = goal, !.nrSubs = nrSubs, !.nrBuilds = nrBuilds]
  BY DEF ChildStarted
<1>5. /\ child \in [Goals -> ChildStates] /\ child[g] = "running"
      /\ \A h \in Goals \ {g} : child[h] = v.child[h]
  BY <1>2 DEF ChildStates
<1> HIDE DEF r
<1>6. goal \in [Goals -> GoalType] /\ goal[g] = r /\ \A h \in Goals \ {g} : goal[h] = v.goal[h]
  BY <1>2, <1>3
<1>7. nrSubs \in Nat /\ nrBuilds \in Nat /\ nrBuilds <= set.maxJobs /\ (nrSubs <= 1 \/ nrSubs <= set.maxSubs)
  <2>1. v.nrBuilds <= set.maxJobs /\ (v.nrSubs <= 1 \/ v.nrSubs <= set.maxSubs)
    BY <1>1 DEF Slots
  <2> QED
    BY <1>2, <2>1
<1>8. /\ nrSubs = IF Kind(g) = "S" THEN v.nrSubs + 1 ELSE v.nrSubs
      /\ nrBuilds = IF Kind(g) = "B" THEN v.nrBuilds + 1 ELSE v.nrBuilds
  OBVIOUS
<1> HIDE DEF u, goal, child, nrSubs, nrBuilds
<1>9. /\ u.child = child /\ u.goal = goal /\ u.nrSubs = nrSubs /\ u.nrBuilds = nrBuilds
      /\ u.awake = v.awake /\ u.wanting = v.wanting /\ u.awhile = v.awhile /\ u.top = v.top
      /\ u.error = v.error /\ u \in WorkerType
  BY <1>1, <1>4, <1>5, <1>6, <1>7 DEF WorkerType
<1>10. /\ \A h \in Goals : (u.child[h] # "none") <=> (v.child[h] # "none" \/ h = g)
       /\ \A h \in Goals \ {g} : u.child[h] = v.child[h] /\ u.goal[h] = v.goal[h] /\ Pc(u, h) = Pc(v, h)
       /\ Pc(u, g) = "child" /\ u.child[g] = "running"
       /\ \A h \in Goals : u.goal[h].waitees = v.goal[h].waitees /\ u.goal[h].waiters = v.goal[h].waiters
                           /\ u.goal[h].event = v.goal[h].event
  BY <1>3, <1>5, <1>6, <1>9 DEF Pc
<1>11. g \in Live(v) /\ g \notin v.awake \cup v.wanting \cup v.awhile \cup rd
       /\ v.awake \cup v.wanting \cup v.awhile \cup v.top \cup rd \subseteq Goals
  BY <1>1 DEF Reasons, Live
<1>12. Live(u) = Live(v)
  BY <1>10, <1>11 DEF Live
<1>13. Linked(u) /\ Kept(u)
  <2>1. Live(v) \subseteq Goals
    BY DEF Live
  <2> QED
    BY <1>1, <1>9, <1>10, <1>12, <2>1 DEF Linked, Kept
<1>14. Reasons(u, rd, {})
  BY <1>1, <1>9, <1>10, <1>11, <1>12 DEF Reasons
<1>15. HasReason(u, rd, {})
  <2>1. Live(v) \subseteq Goals
    BY DEF Live
  <2> QED
    BY <1>1, <1>9, <1>10, <1>12, <2>1 DEF HasReason
<1>16. Slots(u, {})
  <2>1. u.nrBuilds = Cardinality(Running(u, "B")) /\ u.nrSubs = Cardinality(Running(u, "S"))
    <3>1. v.nrBuilds = Cardinality(Running(v, "B")) /\ v.nrSubs = Cardinality(Running(v, "S"))
      BY <1>1 DEF Slots
    <3> QED
      BY <1>8, <1>9, <1>10, <3>1, OneMore
  <2>2. Children(u) # {}
    BY <1>10 DEF Children
  <2>3. /\ \A h \in Goals : u.child[h] # "none" => Pc(u, h) = "child" /\ u.goal[h].waitees = {}
        /\ \A h \in Goals : Pc(u, h) = "child" => u.child[h] # "none"
        /\ \A h \in Goals : Pc(u, h) = "start" => set.maxJobs > 0
    <3>1. v.goal[g].waitees = {}
      BY <1>1 DEF Reasons
    <3> QED
      BY <1>1, <1>10, <3>1 DEF Slots
  <2> QED
    BY <1>7, <1>9, <2>1, <2>2, <2>3 DEF Slots
<1>17. \A h \in Goals : Pc(u, h) \in PcsOf(h)
  <2>1. "child" \in PcsOf(g)
    BY DEF PcsOf
  <2> QED
    BY <1>1, <1>10, <2>1
<1>18. Inv(u, rd, {})
  BY <1>9, <1>13, <1>14, <1>15, <1>16, <1>17 DEF Inv
<1> QED
  BY <1>18 DEF u

(* A goal that waits for others, of which some may be new.                 *)
Asks(u, v, g, G, pc) ==
    LET fresh == G \ Live(v)
    IN  /\ u \in WorkerType
        /\ u.wanting = v.wanting /\ u.awhile = v.awhile /\ u.top = v.top /\ u.child = v.child
        /\ u.nrBuilds = v.nrBuilds /\ u.nrSubs = v.nrSubs
        /\ u.valid = v.valid /\ u.error = v.error /\ u.misled = v.misled
        /\ u.awake = v.awake \cup fresh
        /\ \A h \in Goals : u.code[h] = IF h \in fresh THEN "busy" ELSE v.code[h]
        /\ u.goal[g].pc = pc /\ u.goal[g].waitees = G /\ u.goal[g].waiters = v.goal[g].waiters
        /\ u.goal[g].event = v.goal[g].event /\ u.goal[g].nrFailed = v.goal[g].nrFailed
        /\ \A h \in fresh : /\ u.goal[h].pc = "new" /\ u.goal[h].waitees = {} /\ u.goal[h].waiters = {g}
                            /\ u.goal[h].event = "none" /\ u.goal[h].nrFailed = 0
        /\ \A h \in G \cap Live(v) :
             /\ u.goal[h].pc = v.goal[h].pc /\ u.goal[h].waitees = v.goal[h].waitees
             /\ u.goal[h].waiters = v.goal[h].waiters \cup {g}
             /\ u.goal[h].event = v.goal[h].event /\ u.goal[h].nrFailed = v.goal[h].nrFailed
        /\ \A h \in Goals \ (G \cup {g}) : u.goal[h] = v.goal[h]

Waits(r, G, pc) == [r EXCEPT !.waitees = G, !.pc = pc]

LEMMA WithWaits ==
    ASSUME NEW r \in GoalType, NEW G \in SUBSET Goals, NEW pc \in Pcs
    PROVE  /\ Waits(r, G, pc) \in GoalType /\ Waits(r, G, pc).pc = pc
           /\ Waits(r, G, pc).waitees = G /\ Waits(r, G, pc).waiters = r.waiters
           /\ Waits(r, G, pc).event = r.event /\ Waits(r, G, pc).nrFailed = r.nrFailed
BY DEF GoalType, Waits

LEMMA WithWaiter ==
    ASSUME NEW r \in GoalType, NEW g \in Goals
    PROVE  /\ [r EXCEPT !.waiters = @ \cup {g}] \in GoalType
           /\ [r EXCEPT !.waiters = @ \cup {g}].pc = r.pc
           /\ [r EXCEPT !.waiters = @ \cup {g}].waitees = r.waitees
           /\ [r EXCEPT !.waiters = @ \cup {g}].waiters = r.waiters \cup {g}
           /\ [r EXCEPT !.waiters = @ \cup {g}].event = r.event
           /\ [r EXCEPT !.waiters = @ \cup {g}].nrFailed = r.nrFailed
BY DEF GoalType

LEMMA TheNewGoal ==
    /\ NoGoal \in GoalType /\ NoGoal.pc = "none" /\ NoGoal.waitees = {} /\ NoGoal.waiters = {}
    /\ NoGoal.event = "none" /\ NoGoal.nrFailed = 0
    /\ NewGoal \in GoalType /\ NewGoal.pc = "new" /\ NewGoal.waitees = {} /\ NewGoal.waiters = {}
    /\ NewGoal.event = "none" /\ NewGoal.nrFailed = 0
BY DEF NoGoal, NewGoal, GoalType, Pcs, Events

LEMMA Asking ==
    ASSUME NEW v \in WorkerType, NEW g \in Goals, NEW G \in SUBSET Goals, NEW pc \in Pcs,
           g \notin G, g \in Live(v)
    PROVE  Asks(Await(Make(v, G), g, G, pc), v, g, G, pc)
<1> DEFINE fresh == G \ Live(v)
           goal1 == [h \in Goals |-> IF h \in fresh THEN NewGoal ELSE v.goal[h]]
           code == [h \in Goals |-> IF h \in fresh THEN "busy" ELSE v.code[h]]
           awake == v.awake \cup fresh
           goal2 == [h \in Goals |->
                       IF h = g THEN Waits(goal1[h], G, pc)
                       ELSE IF h \in G THEN [goal1[h] EXCEPT !.waiters = @ \cup {g}]
                       ELSE goal1[h]]
           v1 == [v EXCEPT !.goal = goal1, !.code = code, !.awake = awake]
           u == [v1 EXCEPT !.goal = goal2]
<1>1. /\ v.goal \in [Goals -> GoalType] /\ v.awake \subseteq Goals /\ v.code \in [Goals -> Codes]
      /\ Live(v) \subseteq Goals
  BY Typed DEF Live
<1>2. /\ goal1 \in [Goals -> GoalType]
      /\ \A h \in Goals : goal1[h] = IF h \in fresh THEN NewGoal ELSE v.goal[h]
  BY <1>1, TheNewGoal
<1>3. /\ code \in [Goals -> Codes] /\ awake \subseteq Goals
      /\ \A h \in Goals : code[h] = IF h \in fresh THEN "busy" ELSE v.code[h]
  BY <1>1 DEF Codes
<1>4. Make(v, G) = v1
  BY DEF Make, WakeUp, WorkerType
<1>5. v1.goal = goal1
  BY DEF WorkerType
<1> HIDE DEF goal1, code
<1>6. \A h \in Goals : /\ h = g => goal2[h] = Waits(goal1[h], G, pc)
                       /\ h # g /\ h \in G => goal2[h] = [goal1[h] EXCEPT !.waiters = @ \cup {g}]
                       /\ h # g /\ h \notin G => goal2[h] = goal1[h]
  OBVIOUS
<1> HIDE DEF v1
<1>7. Await(v1, g, G, pc) = u
  BY <1>5 DEF Await, Waits
<1>8. /\ DOMAIN goal2 = Goals /\ goal2 = [h \in Goals |-> goal2[h]]
  OBVIOUS
<1> HIDE DEF goal2
<1>9. /\ goal2[g] \in GoalType /\ goal2[g].pc = pc /\ goal2[g].waitees = G
      /\ goal2[g].waiters = v.goal[g].waiters /\ goal2[g].event = v.goal[g].event
      /\ goal2[g].nrFailed = v.goal[g].nrFailed
  <2> DEFINE r == goal1[g]
  <2>1. r = v.goal[g] /\ r \in GoalType
    BY <1>1, <1>2
  <2>2. goal2[g] = Waits(r, G, pc)
    BY <1>6
  <2> HIDE DEF r
  <2>3. /\ goal2[g] \in GoalType /\ goal2[g].pc = pc /\ goal2[g].waitees = G
        /\ goal2[g].waiters = r.waiters /\ goal2[g].event = r.event /\ goal2[g].nrFailed = r.nrFailed
    BY <2>1, <2>2, WithWaits
  <2> QED
    BY <2>1, <2>3
<1>10. ASSUME NEW h \in G
       PROVE  /\ goal2[h] \in GoalType /\ goal2[h].pc = goal1[h].pc /\ goal2[h].waitees = goal1[h].waitees
              /\ goal2[h].waiters = goal1[h].waiters \cup {g} /\ goal2[h].event = goal1[h].event
              /\ goal2[h].nrFailed = goal1[h].nrFailed
  <2>1. goal2[h] = [goal1[h] EXCEPT !.waiters = @ \cup {g}] /\ goal1[h] \in GoalType
    BY <1>2, <1>6
  <2> QED
    BY <2>1, WithWaiter
<1>11. \A h \in Goals \ (G \cup {g}) : goal2[h] = v.goal[h] /\ goal2[h] \in GoalType
  BY <1>1, <1>2, <1>6
<1>12. goal2 \in [Goals -> GoalType]
  <2>1. \A h \in Goals : goal2[h] \in GoalType
    BY <1>9, <1>10, <1>11
  <2> QED
    BY <1>8, <2>1
<1>13. fresh = G \ Live(v) /\ awake = v.awake \cup fresh
  OBVIOUS
<1> HIDE DEF fresh, awake
<1>14. /\ u \in WorkerType /\ u.goal = goal2 /\ u.code = code /\ u.awake = awake
       /\ u.wanting = v.wanting /\ u.awhile = v.awhile /\ u.top = v.top /\ u.child = v.child
       /\ u.nrBuilds = v.nrBuilds /\ u.nrSubs = v.nrSubs
       /\ u.valid = v.valid /\ u.error = v.error /\ u.misled = v.misled
  BY <1>2, <1>3, <1>12 DEF WorkerType, v1
<1> HIDE DEF u
<1>15. \A h \in fresh : /\ goal2[h].pc = "new" /\ goal2[h].waitees = {} /\ goal2[h].waiters = {g}
                        /\ goal2[h].event = "none" /\ goal2[h].nrFailed = 0
  <2> SUFFICES ASSUME NEW h \in fresh
               PROVE  /\ goal2[h].pc = "new" /\ goal2[h].waitees = {} /\ goal2[h].waiters = {g}
                      /\ goal2[h].event = "none" /\ goal2[h].nrFailed = 0
    OBVIOUS
  <2>1. goal1[h] = NewGoal /\ h \in G
    BY <1>2, <1>13
  <2> QED
    BY <1>10, <2>1, TheNewGoal
<1>16. \A h \in G \cap Live(v) :
             /\ goal2[h].pc = v.goal[h].pc /\ goal2[h].waitees = v.goal[h].waitees
             /\ goal2[h].waiters = v.goal[h].waiters \cup {g}
             /\ goal2[h].event = v.goal[h].event /\ goal2[h].nrFailed = v.goal[h].nrFailed
  BY <1>2, <1>10, <1>13
<1>17. Asks(u, v, g, G, pc)
  BY <1>3, <1>9, <1>11, <1>13, <1>14, <1>15, <1>16 DEF Asks
<1> QED
  BY <1>4, <1>7, <1>17

LEMMA Idle ==
    ASSUME NEW v, Linked(v), NEW h \in Goals \ Live(v)
    PROVE  v.goal[h].waitees = {} /\ v.goal[h].waiters = {} /\ Pc(v, h) = "none"
<1>1. ASSUME NEW x \in v.goal[h].waitees PROVE FALSE
  <2>1. x \in Goals /\ h \in v.goal[x].waiters
    BY DEF Linked, Live
  <2> QED
    BY <2>1 DEF Linked
<1>2. ASSUME NEW x \in v.goal[h].waiters PROVE FALSE
  <2>1. x \in Goals /\ h \in v.goal[x].waitees
    BY DEF Linked, Live
  <2> QED
    BY <2>1 DEF Linked
<1> QED
  BY <1>1, <1>2 DEF Live

LEMMA Waiting ==
    ASSUME NEW v, NEW rd, NEW g \in Goals, NEW G \in SUBSET MayAwait(g), G # {},
           NEW pc \in PcsOf(g) \cap Pcs, set \in Scenarios, Inv(v, rd, {g}),
           v.child[g] = "none", pc \notin {"none", "child", "start"}
    PROVE  Inv(Await(Make(v, G), g, G, pc), rd, {})
<1> DEFINE u == Await(Make(v, G), g, G, pc)
           fresh == G \ Live(v)
<1>1. /\ v \in WorkerType /\ \A h \in Goals : Pc(v, h) \in PcsOf(h)
      /\ Linked(v) /\ Reasons(v, rd, {g}) /\ HasReason(v, rd, {g}) /\ Slots(v, {g}) /\ Kept(v)
  BY DEF Inv
<1>2. G \in SUBSET Goals /\ g \notin G
  BY Setting, NotItself
<1>3. /\ g \in Live(v) /\ Live(v) \subseteq Goals /\ v.goal[g].waitees = {}
      /\ v.awake \cup v.wanting \cup v.awhile \cup v.top \cup rd \subseteq Live(v)
      /\ g \notin v.awake \cup v.wanting \cup v.awhile \cup rd
  BY <1>1 DEF Reasons, Live
<1>4. Asks(u, v, g, G, pc)
  BY <1>1, <1>2, <1>3, Asking
<1> HIDE DEF u
<1>5. /\ u \in WorkerType
      /\ u.wanting = v.wanting /\ u.awhile = v.awhile /\ u.top = v.top /\ u.child = v.child
      /\ u.nrBuilds = v.nrBuilds /\ u.nrSubs = v.nrSubs /\ u.error = v.error
      /\ u.awake = v.awake \cup fresh
      /\ u.goal[g].pc = pc /\ u.goal[g].waitees = G /\ u.goal[g].waiters = v.goal[g].waiters
  BY <1>4 DEF Asks
<1>6. \A h \in fresh : /\ u.goal[h].pc = "new" /\ u.goal[h].waitees = {} /\ u.goal[h].waiters = {g}
                       /\ v.goal[h].pc = "none" /\ v.goal[h].waitees = {} /\ v.goal[h].waiters = {}
  BY <1>1, <1>2, <1>4, Idle DEF Asks, Pc
<1>7. \A h \in Goals \ fresh : h # g =>
        /\ u.goal[h].pc = v.goal[h].pc /\ u.goal[h].waitees = v.goal[h].waitees
        /\ u.goal[h].waiters = v.goal[h].waiters \cup (IF h \in G THEN {g} ELSE {})
        /\ u.goal[h].event = v.goal[h].event
  <2>1. ASSUME NEW h \in Goals \ fresh, h # g, h \in G
        PROVE  /\ u.goal[h].pc = v.goal[h].pc /\ u.goal[h].waitees = v.goal[h].waitees
               /\ u.goal[h].waiters = v.goal[h].waiters \cup {g} /\ u.goal[h].event = v.goal[h].event
    BY <1>4, <2>1 DEF Asks
  <2>2. ASSUME NEW h \in Goals, h # g, h \notin G PROVE u.goal[h] = v.goal[h]
    BY <1>4, <2>2 DEF Asks
  <2> QED
    BY <2>1, <2>2
<1>8. fresh \subseteq G /\ fresh \cap Live(v) = {} /\ G \subseteq fresh \cup Live(v)
  OBVIOUS
<1> HIDE DEF fresh
<1>9. Live(u) = Live(v) \cup fresh
  <2>1. \A h \in Goals : Pc(u, h) # "none" <=> (Pc(v, h) # "none" \/ h \in fresh)
    <3> SUFFICES ASSUME NEW h \in Goals
                 PROVE  Pc(u, h) # "none" <=> (Pc(v, h) # "none" \/ h \in fresh)
      OBVIOUS
    <3>1. CASE h = g
      BY <1>3, <1>5, <3>1 DEF Live, Pc
    <3>2. CASE h # g /\ h \in fresh
      BY <1>6, <3>2 DEF Pc
    <3>3. CASE h # g /\ h \notin fresh
      BY <1>7, <3>3 DEF Pc
    <3> QED
      BY <3>1, <3>2, <3>3
  <2> QED
    BY <1>2, <1>8, <2>1 DEF Live
<1>10. \A h \in Goals \ {g} : u.goal[h].waitees = v.goal[h].waitees
  BY <1>6, <1>7
<1>11. \A h \in Goals : u.goal[h].waiters = v.goal[h].waiters \cup (IF h \in G THEN {g} ELSE {})
  BY <1>2, <1>5, <1>6, <1>7, <1>8
<1>12. Linked(u)
  <2>1. \A h \in Goals : v.goal[h].waiters \cup v.goal[h].waitees \subseteq Live(v)
    BY <1>1 DEF Linked
  <2>2. \A h, x \in Goals : x \in v.goal[h].waitees <=> h \in v.goal[x].waiters
    BY <1>1 DEF Linked
  <2>3. \A h \in Goals : v.goal[h].waitees \subseteq MayAwait(h)
    BY <1>1 DEF Linked
  <2>4. \A h \in Goals : u.goal[h].waiters \cup u.goal[h].waitees \subseteq Live(u)
    BY <1>3, <1>5, <1>8, <1>9, <1>10, <1>11, <2>1
  <2>5. \A h, x \in Goals : x \in u.goal[h].waitees <=> h \in u.goal[x].waiters
    BY <1>3, <1>5, <1>10, <1>11, <2>2
  <2>6. \A h \in Goals : u.goal[h].waitees \subseteq MayAwait(h)
    BY <1>5, <1>10, <2>3
  <2> QED
    BY <2>4, <2>5, <2>6 DEF Linked
<1>13. Reasons(u, rd, {})
  <2>1. \A h \in v.awake \cup v.wanting \cup v.awhile \cup rd :
            h # g /\ h \notin fresh /\ Pc(u, h) = Pc(v, h) /\ u.goal[h].event = v.goal[h].event
            /\ u.goal[h].waitees = v.goal[h].waitees
    BY <1>3, <1>7, <1>8 DEF Pc
  <2>2. \A h \in fresh : Pc(u, h) # "child" /\ u.goal[h].waitees = {}
    BY <1>6 DEF Pc
  <2> QED
    BY <1>1, <1>3, <1>5, <1>8, <1>9, <2>1, <2>2 DEF Reasons
<1>14. HasReason(u, rd, {})
  BY <1>1, <1>3, <1>5, <1>9, <1>10 DEF HasReason
<1>15. Slots(u, {})
  <2>1. Running(u, "B") = Running(v, "B") /\ Running(u, "S") = Running(v, "S") /\ Children(u) = Children(v)
    BY <1>5 DEF Running, Children
  <2>2. \A h \in Goals : h # g => Pc(u, h) = Pc(v, h) \/ (Pc(u, h) = "new" /\ Pc(v, h) = "none")
    BY <1>6, <1>7 DEF Pc
  <2>3. Pc(u, g) = pc
    BY <1>5 DEF Pc
  <2>4. \A h \in Goals : /\ v.child[h] # "none" => Pc(v, h) = "child" /\ v.goal[h].waitees = {}
                         /\ h # g => (Pc(v, h) = "child" => v.child[h] # "none")
                         /\ Pc(v, h) = "start" => set.maxJobs > 0
    BY <1>1 DEF Slots
  <2>5. \A h \in Goals : /\ u.child[h] # "none" => Pc(u, h) = "child" /\ u.goal[h].waitees = {}
                         /\ Pc(u, h) = "child" => u.child[h] # "none"
                         /\ Pc(u, h) = "start" => set.maxJobs > 0
    BY <1>5, <1>10, <2>2, <2>3, <2>4
  <2> QED
    BY <1>1, <1>5, <2>1, <2>5 DEF Slots
<1>16. Kept(u)
  <2>1. \A h \in Goals : v.goal[h].waiters # {} \/ h \in G => u.goal[h].waiters # {}
    BY <1>11
  <2>2. \A h \in Live(u) : h \in Live(v) \/ h \in G
    BY <1>8, <1>9
  <2> QED
    BY <1>1, <1>2, <1>3, <1>5, <2>1, <2>2 DEF Kept
<1>17. \A h \in Goals : Pc(u, h) \in PcsOf(h)
  <2>1. \A h \in Goals : "new" \in PcsOf(h)
    BY DEF PcsOf
  <2> QED
    BY <1>1, <1>5, <1>6, <1>7, <2>1 DEF Pc
<1>18. Inv(u, rd, {})
  BY <1>5, <1>12, <1>13, <1>14, <1>15, <1>16, <1>17 DEF Inv
<1> QED
  BY <1>18 DEF u

(* A goal that ends.                                                       *)
Left(v, g, code, h) ==
    IF h \notin v.goal[g].waiters THEN v.goal[h].waitees
    ELSE v.goal[h].waitees \ (IF Stops(code) THEN Goals ELSE {g})

Quits(v, g, code) == IF Stops(code) THEN v.goal[g].waiters ELSE {}

Ends(u, v, g, code) ==
    /\ u \in WorkerType
    /\ u.wanting = v.wanting /\ u.awhile = v.awhile /\ u.child = v.child
    /\ u.nrBuilds = v.nrBuilds /\ u.nrSubs = v.nrSubs
    /\ u.valid = v.valid /\ u.error = v.error /\ u.misled = v.misled
    /\ u.awake = v.awake \cup {h \in v.goal[g].waiters : Left(v, g, code, h) = {}}
    /\ u.top = IF g \in v.top /\ Stops(code) THEN {} ELSE v.top \ {g}
    /\ u.code[g] = code /\ \A h \in Goals \ {g} : u.code[h] = v.code[h]
    /\ u.goal[g] = NoGoal
    /\ \A h \in Goals \ {g} :
         /\ u.goal[h].pc = v.goal[h].pc /\ u.goal[h].event = v.goal[h].event
         /\ u.goal[h].waitees = Left(v, g, code, h)
         /\ u.goal[h].waiters = v.goal[h].waiters \ Quits(v, g, code)
         /\ u.goal[h].nrFailed = v.goal[h].nrFailed
              + IF h \in v.goal[g].waiters /\ code \in {"failed", "nosub"} THEN 1 ELSE 0

Told(r, L, f, n, W) == [r EXCEPT !.waitees = L, !.nrFailed = @ + f, !.nrNoSubstituters = @ + n, !.waiters = W]

LEMMA WithTold ==
    ASSUME NEW r \in GoalType, NEW L \in SUBSET Goals, NEW f \in Nat, NEW n \in Nat, NEW W \in SUBSET Goals
    PROVE  /\ Told(r, L, f, n, W) \in GoalType /\ Told(r, L, f, n, W).pc = r.pc
           /\ Told(r, L, f, n, W).event = r.event /\ Told(r, L, f, n, W).waitees = L
           /\ Told(r, L, f, n, W).waiters = W /\ Told(r, L, f, n, W).nrFailed = r.nrFailed + f
<1> DEFINE a == r.nrFailed + f
           b == r.nrNoSubstituters + n
           t == [r EXCEPT !.waitees = L, !.nrFailed = a, !.nrNoSubstituters = b, !.waiters = W]
<1>1. a \in Nat /\ b \in Nat
  BY DEF GoalType
<1>2. Told(r, L, f, n, W) = t
  BY DEF Told, GoalType
<1> HIDE DEF a, b
<1>3. /\ t \in GoalType /\ t.pc = r.pc /\ t.event = r.event /\ t.waitees = L
      /\ t.waiters = W /\ t.nrFailed = a
  BY <1>1 DEF GoalType
<1> QED
  BY <1>2, <1>3 DEF a

LeftBy(r, W) == [r EXCEPT !.waiters = W]

LEMMA WithLeftBy ==
    ASSUME NEW r \in GoalType, NEW W \in SUBSET Goals
    PROVE  /\ LeftBy(r, W) \in GoalType /\ LeftBy(r, W).pc = r.pc /\ LeftBy(r, W).event = r.event
           /\ LeftBy(r, W).waitees = r.waitees /\ LeftBy(r, W).waiters = W
           /\ LeftBy(r, W).nrFailed = r.nrFailed
BY DEF GoalType, LeftBy

LEMMA Ending ==
    ASSUME NEW v \in WorkerType, NEW g \in Goals, NEW code \in Codes, g \notin v.goal[g].waiters
    PROVE  Ends(AmDone(v, g, code), v, g, code)
<1> DEFINE failures == IF code \in {"failed", "nosub"} THEN 1 ELSE 0
           nosubs == IF code = "nosub" THEN 1 ELSE 0
           waiters == v.goal[g].waiters
           quits == Quits(v, g, code)
           left(p) == v.goal[p].waitees \ (IF p \in quits THEN Goals ELSE {g})
           goal == [h \in Goals |->
                      IF h = g THEN NoGoal
                      ELSE IF h \in waiters
                      THEN Told(v.goal[h], left(h), failures, nosubs, v.goal[h].waiters \ quits)
                      ELSE LeftBy(v.goal[h], v.goal[h].waiters \ quits)]
           codes == [v.code EXCEPT ![g] = code]
           woken == {p \in waiters : left(p) = {}}
           awake == v.awake \cup woken
           top == IF g \in v.top /\ Stops(code) THEN {} ELSE v.top \ {g}
           u == [v EXCEPT !.goal = goal, !.code = codes, !.top = top, !.awake = awake]
<1>1. /\ v.goal \in [Goals -> GoalType] /\ v.awake \subseteq Goals /\ v.code \in [Goals -> Codes]
      /\ v.top \subseteq Goals /\ v.goal[g] \in GoalType
  BY Typed
<1>2. AmDone(v, g, code) = u
  <2> HIDE DEF failures, nosubs
  <2>1. [v EXCEPT !.goal = goal, !.code[g] = code,
                  !.top = IF g \in @ /\ Stops(code) THEN {} ELSE @ \ {g}]
        = [v EXCEPT !.goal = goal, !.code = codes, !.top = top]
    OBVIOUS
  <2>2. WakeUp([v EXCEPT !.goal = goal, !.code = codes, !.top = top], woken) = u
    BY DEF WakeUp, WorkerType
  <2> QED
    BY <2>1, <2>2 DEF AmDone, Told, LeftBy, WaitersLeft, Quits, failures, nosubs
<1>3. failures \in Nat /\ nosubs \in Nat /\ waiters \subseteq Goals
  BY <1>1 DEF GoalType
<1>4. failures = IF code \in {"failed", "nosub"} THEN 1 ELSE 0
  OBVIOUS
<1>5. \A h \in waiters : left(h) = Left(v, g, code, h)
  BY DEF Left, Quits
<1>6. \A h \in Goals : left(h) \subseteq Goals /\ v.goal[h].waiters \ quits \subseteq Goals /\ v.goal[h] \in GoalType
  BY <1>1 DEF GoalType
<1>7. \A h \in Goals : /\ h = g => goal[h] = NoGoal
                       /\ h # g /\ h \in waiters =>
                            goal[h] = Told(v.goal[h], left(h), failures, nosubs, v.goal[h].waiters \ quits)
                       /\ h # g /\ h \notin waiters => goal[h] = LeftBy(v.goal[h], v.goal[h].waiters \ quits)
  OBVIOUS
<1>8. goal = [h \in Goals |-> goal[h]] /\ quits = Quits(v, g, code)
  OBVIOUS
<1>9. woken = {h \in waiters : Left(v, g, code, h) = {}}
  BY <1>5
<1>10. awake = v.awake \cup woken /\ awake \subseteq Goals
  BY <1>1, <1>3
<1>11. top \subseteq Goals /\ top = IF g \in v.top /\ Stops(code) THEN {} ELSE v.top \ {g}
  BY <1>1
<1>12. codes \in [Goals -> Codes] /\ codes[g] = code /\ \A h \in Goals \ {g} : codes[h] = v.code[h]
  BY <1>1
<1> HIDE DEF failures, nosubs, quits, left, goal, codes, woken, awake, top
<1>13. ASSUME NEW h \in waiters
       PROVE  /\ goal[h] \in GoalType /\ goal[h].pc = v.goal[h].pc /\ goal[h].event = v.goal[h].event
              /\ goal[h].waitees = left(h) /\ goal[h].waiters = v.goal[h].waiters \ quits
              /\ goal[h].nrFailed = v.goal[h].nrFailed + failures
  <2> DEFINE W == v.goal[h].waiters \ quits
  <2>1. h \in Goals /\ h # g
    BY <1>3
  <2>2. goal[h] = Told(v.goal[h], left(h), failures, nosubs, W)
    BY <1>7, <2>1
  <2>3. v.goal[h] \in GoalType /\ left(h) \in SUBSET Goals /\ W \in SUBSET Goals
    BY <1>6, <2>1
  <2>4. W = v.goal[h].waiters \ quits
    OBVIOUS
  <2> HIDE DEF waiters, W
  <2> QED
    BY <1>3, <2>2, <2>3, <2>4, WithTold
<1>14. ASSUME NEW h \in Goals, h # g, h \notin waiters
       PROVE  /\ goal[h] \in GoalType /\ goal[h].pc = v.goal[h].pc /\ goal[h].event = v.goal[h].event
              /\ goal[h].waitees = v.goal[h].waitees /\ goal[h].waiters = v.goal[h].waiters \ quits
              /\ goal[h].nrFailed = v.goal[h].nrFailed
  <2> DEFINE W == v.goal[h].waiters \ quits
  <2>1. goal[h] = LeftBy(v.goal[h], W)
    BY <1>7, <1>14
  <2>2. v.goal[h] \in GoalType /\ W \in SUBSET Goals
    BY <1>6
  <2> QED
    BY <2>1, <2>2, WithLeftBy
<1>15. goal[g] = NoGoal
  BY <1>7
<1>16. goal \in [Goals -> GoalType]
  <2>1. \A h \in Goals : goal[h] \in GoalType
    BY <1>13, <1>14, <1>15, TheNewGoal
  <2> QED
    BY <1>8, <2>1
<1>17. /\ u \in WorkerType /\ u.goal = goal /\ u.code = codes /\ u.top = top /\ u.awake = awake
       /\ u.wanting = v.wanting /\ u.awhile = v.awhile /\ u.child = v.child
       /\ u.nrBuilds = v.nrBuilds /\ u.nrSubs = v.nrSubs
       /\ u.valid = v.valid /\ u.error = v.error /\ u.misled = v.misled
  BY <1>10, <1>11, <1>12, <1>16 DEF WorkerType
<1> HIDE DEF u
<1>18. ASSUME NEW h \in Goals \ {g}
       PROVE  /\ goal[h].pc = v.goal[h].pc /\ goal[h].event = v.goal[h].event
              /\ goal[h].waitees = Left(v, g, code, h)
              /\ goal[h].waiters = v.goal[h].waiters \ Quits(v, g, code)
              /\ goal[h].nrFailed = v.goal[h].nrFailed
                   + IF h \in v.goal[g].waiters /\ code \in {"failed", "nosub"} THEN 1 ELSE 0
  <2>1. CASE h \in waiters
    BY <1>4, <1>5, <1>8, <1>13, <2>1
  <2>2. CASE h \notin waiters
    <3>1. v.goal[h].nrFailed + 0 = v.goal[h].nrFailed
      BY <1>6 DEF GoalType
    <3>2. Left(v, g, code, h) = v.goal[h].waitees
      BY <2>2 DEF Left
    <3> QED
      BY <1>8, <1>14, <2>2, <3>1, <3>2
  <2> QED
    BY <2>1, <2>2
<1>19. Ends(u, v, g, code)
  BY <1>9, <1>10, <1>11, <1>12, <1>15, <1>17, <1>18 DEF Ends
<1> QED
  BY <1>2, <1>19

LEMMA Done ==
    ASSUME NEW v, NEW rd, NEW g \in Goals, NEW code \in Codes, set \in Scenarios,
           Inv(v, rd, {g}), v.child[g] = "none"
    PROVE  Inv(AmDone(v, g, code), rd, {})
<1> DEFINE u == AmDone(v, g, code)
           quits == Quits(v, g, code)
<1>1. /\ v \in WorkerType /\ \A h \in Goals : Pc(v, h) \in PcsOf(h)
      /\ Linked(v) /\ Reasons(v, rd, {g}) /\ HasReason(v, rd, {g}) /\ Slots(v, {g}) /\ Kept(v)
  BY DEF Inv
<1>2. /\ g \in Live(v) /\ Live(v) \subseteq Goals /\ v.goal[g].waitees = {}
      /\ v.awake \cup v.wanting \cup v.awhile \cup v.top \cup rd \subseteq Live(v)
      /\ g \notin v.awake \cup v.wanting \cup v.awhile \cup rd
  BY <1>1 DEF Reasons, Live
<1>3. /\ \A h \in Goals : v.goal[h].waiters \cup v.goal[h].waitees \subseteq Live(v)
      /\ \A h, x \in Goals : x \in v.goal[h].waitees <=> h \in v.goal[x].waiters
      /\ \A h \in Goals : v.goal[h].waitees \subseteq MayAwait(h)
  BY <1>1 DEF Linked
<1>4. /\ g \notin v.goal[g].waiters /\ v.goal[g].waiters \subseteq Goals
      /\ \A h \in Goals : h \in v.goal[g].waiters <=> g \in v.goal[h].waitees
      /\ \A h \in Goals : g \notin v.goal[h].waiters
  BY <1>2, <1>3
<1>5. Ends(u, v, g, code)
  BY <1>1, <1>4, Ending
<1> HIDE DEF u
<1>6. /\ u \in WorkerType
      /\ u.wanting = v.wanting /\ u.awhile = v.awhile /\ u.child = v.child
      /\ u.nrBuilds = v.nrBuilds /\ u.nrSubs = v.nrSubs /\ u.error = v.error
      /\ u.awake = v.awake \cup {h \in v.goal[g].waiters : Left(v, g, code, h) = {}}
      /\ u.top \subseteq v.top \ {g} /\ (set.keepGoing => u.top = v.top \ {g})
  BY <1>5 DEF Ends, Stops
<1>7. u.goal[g].pc = "none" /\ u.goal[g].waitees = {} /\ u.goal[g].waiters = {}
  BY <1>5, TheNewGoal DEF Ends
<1>8. \A h \in Goals \ {g} :
         /\ u.goal[h].pc = v.goal[h].pc /\ u.goal[h].event = v.goal[h].event
         /\ u.goal[h].waitees = Left(v, g, code, h)
         /\ u.goal[h].waiters = v.goal[h].waiters \ quits
  BY <1>5 DEF Ends
<1>9. /\ \A h \in quits : g \in v.goal[h].waitees
      /\ set.keepGoing => quits = {}
      /\ quits \subseteq Goals
  BY <1>4 DEF Quits, Stops
<1>10. \A h \in Goals \ {g} :
         /\ h \in quits => Left(v, g, code, h) = {}
         /\ h \notin quits => Left(v, g, code, h) = v.goal[h].waitees \ {g}
         /\ h \notin v.goal[g].waiters => Left(v, g, code, h) = v.goal[h].waitees
  BY <1>2, <1>3, <1>4 DEF Left, Quits
<1> HIDE DEF quits
<1>11. Live(u) = Live(v) \ {g}
  BY <1>7, <1>8 DEF Live, Pc
<1>12. Linked(u)
  <2>1. \A h \in Goals : u.goal[h].waitees \subseteq v.goal[h].waitees \ {g}
    BY <1>2, <1>7, <1>8, <1>10
  <2>2. \A h \in Goals : u.goal[h].waiters \subseteq v.goal[h].waiters \ {g}
    BY <1>4, <1>7, <1>8
  <2>3. \A h \in Goals : u.goal[h].waiters \cup u.goal[h].waitees \subseteq Live(u)
    BY <1>3, <1>11, <2>1, <2>2
  <2>4. \A h \in Goals : u.goal[h].waitees \subseteq MayAwait(h)
    BY <1>3, <2>1
  <2>5. ASSUME NEW h \in Goals, NEW x \in Goals
        PROVE  x \in u.goal[h].waitees <=> h \in u.goal[x].waiters
    <3>1. CASE h = g
      BY <1>7, <2>2, <3>1
    <3>2. CASE x = g
      BY <1>7, <2>1, <3>2
    <3>3. CASE h # g /\ x # g /\ h \in quits
      BY <1>8, <1>10, <3>3
    <3>4. CASE h # g /\ x # g /\ h \notin quits
      BY <1>3, <1>8, <1>10, <3>4
    <3> QED
      BY <3>1, <3>2, <3>3, <3>4
  <2> QED
    BY <2>3, <2>4, <2>5 DEF Linked
<1>13. \A h \in v.goal[g].waiters : /\ h \in Live(v) /\ h # g /\ v.goal[h].waitees # {}
                                   /\ h \notin v.awake \cup v.wanting \cup v.awhile \cup rd
                                   /\ Pc(v, h) # "child"
  <2> SUFFICES ASSUME NEW h \in v.goal[g].waiters
               PROVE  /\ h \in Live(v) /\ h # g /\ v.goal[h].waitees # {}
                      /\ h \notin v.awake \cup v.wanting \cup v.awhile \cup rd
                      /\ Pc(v, h) # "child"
    OBVIOUS
  <2>1. h \in Live(v) /\ h # g /\ v.goal[h].waitees # {}
    BY <1>2, <1>3, <1>4
  <2>2. h \notin v.awake \cup v.wanting \cup v.awhile \cup rd
    BY <1>1, <2>1 DEF Reasons
  <2>3. Pc(v, h) # "child"
    BY <1>1, <1>2, <2>1 DEF Slots
  <2> QED
    BY <2>1, <2>2, <2>3
<1> DEFINE woken == {h \in v.goal[g].waiters : Left(v, g, code, h) = {}}
<1>14. /\ u.awake = v.awake \cup woken
       /\ \A h \in woken : h \in v.goal[g].waiters /\ Left(v, g, code, h) = {}
  BY <1>6
<1>15. \A h \in v.goal[g].waiters : Left(v, g, code, h) = {} => h \in woken
  OBVIOUS
<1> HIDE DEF woken
<1>16. Reasons(u, rd, {})
  <2>1. \A h \in woken : /\ h \in Live(u) /\ h \notin v.awake \cup v.wanting \cup v.awhile \cup rd
                         /\ Pc(u, h) # "child" /\ u.goal[h].waitees = {}
    BY <1>2, <1>8, <1>11, <1>13, <1>14 DEF Pc
  <2>2. \A h \in v.awake \cup v.wanting \cup v.awhile \cup rd :
            /\ h \in Live(u) /\ Pc(u, h) = Pc(v, h) /\ u.goal[h].event = v.goal[h].event
            /\ u.goal[h].waitees = {}
    <3> SUFFICES ASSUME NEW h \in v.awake \cup v.wanting \cup v.awhile \cup rd
                 PROVE  /\ h \in Live(u) /\ Pc(u, h) = Pc(v, h) /\ u.goal[h].event = v.goal[h].event
                        /\ u.goal[h].waitees = {}
      OBVIOUS
    <3>1. h \in Goals \ {g} /\ h \in Live(v)
      BY <1>2
    <3>2. v.goal[h].waitees = {}
      BY <1>1 DEF Reasons
    <3> QED
      BY <1>8, <1>10, <1>11, <3>1, <3>2 DEF Pc
  <2>3. u.awake \cup u.wanting \cup u.awhile \cup u.top \cup rd \subseteq Live(u)
    BY <1>2, <1>6, <1>11, <1>14, <2>1, <2>2
  <2>4. /\ rd \cap (u.awake \cup u.wanting \cup u.awhile) = {}
        /\ u.awake \cap (u.wanting \cup u.awhile) = {} /\ u.wanting \cap u.awhile = {}
    BY <1>1, <1>6, <1>14, <2>1 DEF Reasons
  <2>5. \A h \in u.awake \cup u.wanting \cup u.awhile \cup rd : u.goal[h].waitees = {}
    BY <1>6, <1>14, <2>1, <2>2
  <2>6. /\ \A h \in u.awake \cup rd : Pc(u, h) = "child" => u.goal[h].event # "none"
        /\ \A h \in u.wanting \cup u.awhile : Pc(u, h) # "child"
    BY <1>1, <1>6, <1>14, <2>1, <2>2 DEF Reasons
  <2> QED
    BY <2>3, <2>4, <2>5, <2>6 DEF Reasons
<1>17. HasReason(u, rd, {})
  <2>1. ASSUME v.error = "none", NEW h \in Live(u)
        PROVE  \/ h \in u.awake \cup u.wanting \cup u.awhile \cup rd
               \/ u.goal[h].waitees # {} \/ u.child[h] # "none"
    <3>1. h \in Goals \ {g} /\ h \in Live(v)
      BY <1>2, <1>11, <2>1
    <3>2. \/ h \in v.awake \cup v.wanting \cup v.awhile \cup rd
          \/ v.goal[h].waitees # {} \/ v.child[h] # "none"
      BY <1>1, <2>1, <3>1 DEF HasReason
    <3>3. h \in v.goal[g].waiters /\ Left(v, g, code, h) = {} => h \in u.awake
      BY <1>14, <1>15
    <3>4. h \notin v.goal[g].waiters => u.goal[h].waitees = v.goal[h].waitees
      BY <1>8, <1>10, <3>1
    <3> QED
      BY <1>6, <1>8, <1>14, <3>1, <3>2, <3>3, <3>4
  <2> QED
    BY <1>6, <2>1 DEF HasReason
<1>18. Slots(u, {})
  <2>1. Running(u, "B") = Running(v, "B") /\ Running(u, "S") = Running(v, "S") /\ Children(u) = Children(v)
    BY <1>6 DEF Running, Children
  <2>2. Pc(u, g) = "none" /\ \A h \in Goals \ {g} : Pc(u, h) = Pc(v, h)
    BY <1>7, <1>8 DEF Pc
  <2>3. \A h \in Goals : v.goal[h].waitees = {} => u.goal[h].waitees = {}
    BY <1>7, <1>8, <1>10
  <2>4. \A h \in Goals : /\ v.child[h] # "none" => Pc(v, h) = "child" /\ v.goal[h].waitees = {}
                         /\ h # g => (Pc(v, h) = "child" => v.child[h] # "none")
                         /\ Pc(v, h) = "start" => set.maxJobs > 0
    BY <1>1 DEF Slots
  <2>5. \A h \in Goals : /\ u.child[h] # "none" => Pc(u, h) = "child" /\ u.goal[h].waitees = {}
                         /\ Pc(u, h) = "child" => u.child[h] # "none"
                         /\ Pc(u, h) = "start" => set.maxJobs > 0
    BY <1>6, <2>2, <2>3, <2>4
  <2> QED
    BY <1>1, <1>6, <2>1, <2>5 DEF Slots
<1>19. Kept(u)
  <2>1. ASSUME set.keepGoing, NEW h \in Live(u) PROVE h \in u.top \/ u.goal[h].waiters # {}
    <3>1. h \in Live(v) /\ h # g /\ h \in Goals
      BY <1>2, <1>11
    <3>2. u.goal[h].waiters = v.goal[h].waiters
      BY <1>8, <1>9, <2>1, <3>1
    <3> QED
      BY <1>1, <1>6, <2>1, <3>1, <3>2 DEF Kept
  <2> QED
    BY <2>1 DEF Kept
<1>20. \A h \in Goals : Pc(u, h) \in PcsOf(h)
  <2>1. "none" \in PcsOf(g)
    BY DEF PcsOf
  <2> QED
    BY <1>1, <1>7, <1>8, <2>1 DEF Pc
<1>21. Inv(u, rd, {})
  BY <1>6, <1>12, <1>16, <1>17, <1>18, <1>19, <1>20 DEF Inv
<1> QED
  BY <1>21 DEF u

-----------------------------------------------------------------------------
(* The same functions, and what goals have been promised                   *)

(* Nothing is taken away from a goal.                                      *)
LEMMA SoundStill ==
    ASSUME NEW u, NEW v, NEW h \in Goals, SoundOf(v, h), v.valid \subseteq u.valid,
           u.code[h] = v.code[h], Pc(u, h) = Pc(v, h) \/ Back(u, v, h),
           u.goal[h].waitees = v.goal[h].waitees,
           u.goal[h].nrFailed = v.goal[h].nrFailed \/ Promised(Pc(v, h), h) = {},
           u.child[h] \in {v.child[h], "none"}
    PROVE  SoundOf(u, h)
<1>1. CASE Pc(u, h) = Pc(v, h)
  BY <1>1 DEF SoundOf
<1>2. CASE Back(u, v, h)
  <2>1. Promised(Pc(u, h), h) = {} /\ Pc(u, h) = "new" /\ Pc(v, h) # "none"
    BY <1>2 DEF Promised, Back
  <2> QED
    BY <2>1 DEF SoundOf
<1> QED
  BY <1>1, <1>2

LEMMA SoundSleep ==
    ASSUME NEW v, NEW u, NEW g \in Goals, NEW pc, Sound(v), Sleeps(u, v, g, pc), Pc(v, g) # "none",
           pc \in {"try", "start", "run"},
           ~v.misled /\ Kind(g) = "S" => Needed(Drv(g)) \subseteq v.valid
    PROVE  Sound(u)
<1>1. /\ u.child = v.child /\ u.code = v.code /\ u.valid = v.valid /\ u.error = v.error /\ u.misled = v.misled
      /\ \A h \in Goals \ {g} : u.goal[h] = v.goal[h]
      /\ Pc(u, g) = pc
  BY DEF Sleeps, Alike, Pc
<1>2. SUFFICES ASSUME ~u.misled, NEW h \in Goals PROVE SoundOf(u, h)
  BY <1>1, <1>2 DEF Sound
<1>3. SoundOf(v, h) /\ SoundOf(v, g)
  BY <1>1, <1>2 DEF Sound
<1>4. CASE h = g
  <2>1. Promised(Pc(u, g), g) = {}
    BY <1>1 DEF Promised
  <2> QED
    BY <1>1, <1>2, <1>3, <1>4, <2>1 DEF SoundOf
<1>5. CASE h # g
  BY <1>1, <1>3, <1>5, SoundStill DEF Pc
<1> QED
  BY <1>4, <1>5

LEMMA SoundThrow ==
    ASSUME NEW v \in WorkerType, NEW e, Sound(v),
           e \notin {"input not valid", "reference not valid"} \/ v.misled
    PROVE  Sound(Throw(v, e))
<1> DEFINE u == Throw(v, e)
<1>1. /\ u.child = v.child /\ u.code = v.code /\ u.valid = v.valid /\ u.misled = v.misled
      /\ u.goal = v.goal /\ u.error = e
  BY DEF Throw, WorkerType
<1> HIDE DEF u
<1>2. SUFFICES ASSUME ~u.misled, NEW h \in Goals PROVE SoundOf(u, h)
  BY <1>1, <1>2 DEF Sound, u
<1> QED
  BY <1>1, <1>2, SoundStill DEF Sound, Pc

LEMMA SoundWait ==
    ASSUME NEW v, NEW u, NEW g \in Goals, NEW G \in SUBSET Goals, NEW pc, Sound(v), Asks(u, v, g, G, pc),
           g \in Live(v), Linked(v), pc \notin {"none", "run", "child"}, Promised(pc, g) \subseteq G,
           \A h \in G : ~v.misled /\ Kind(h) = "B" => Needed(Drv(h)) \subseteq v.valid
    PROVE  Sound(u)
<1> DEFINE fresh == G \ Live(v)
<1>1. /\ u.child = v.child /\ u.valid = v.valid /\ u.error = v.error /\ u.misled = v.misled
      /\ \A h \in Goals : u.code[h] = IF h \in fresh THEN "busy" ELSE v.code[h]
      /\ u.goal[g].pc = pc /\ u.goal[g].waitees = G
  BY DEF Asks
<1>2. \A h \in fresh : u.goal[h].pc = "new"
  BY DEF Asks
<1>3. \A h \in Goals \ fresh : h # g =>
        /\ u.goal[h].pc = v.goal[h].pc /\ u.goal[h].waitees = v.goal[h].waitees
        /\ u.goal[h].nrFailed = v.goal[h].nrFailed
  <2>1. ASSUME NEW h \in Goals \ fresh, h # g, h \in G
        PROVE  /\ u.goal[h].pc = v.goal[h].pc /\ u.goal[h].waitees = v.goal[h].waitees
               /\ u.goal[h].nrFailed = v.goal[h].nrFailed
    BY <2>1 DEF Asks
  <2>2. ASSUME NEW h \in Goals, h # g, h \notin G PROVE u.goal[h] = v.goal[h]
    BY <2>2 DEF Asks
  <2> QED
    BY <2>1, <2>2
<1>4. fresh \subseteq G /\ g \notin fresh
  OBVIOUS
<1> HIDE DEF fresh
<1>5. SUFFICES ASSUME ~u.misled, NEW h \in Goals PROVE SoundOf(u, h)
  BY <1>1, <1>5 DEF Sound
<1>6. SoundOf(v, h)
  BY <1>1, <1>5 DEF Sound
<1>7. CASE h = g
  <2>1. u.code[g] = v.code[g] /\ Pc(u, g) = pc /\ Pc(v, g) # "none"
    BY <1>1, <1>4 DEF Live, Pc
  <2> QED
    BY <1>1, <1>6, <1>7, <2>1 DEF SoundOf
<1>8. CASE h \in fresh
  <2>1. u.code[h] = "busy" /\ Pc(u, h) = "new" /\ h \in G
    BY <1>1, <1>2, <1>4, <1>8 DEF Pc
  <2>2. Promised(Pc(u, h), h) = {}
    BY <2>1 DEF Promised
  <2> QED
    BY <1>1, <1>5, <1>6, <2>1, <2>2 DEF SoundOf
<1>9. CASE h # g /\ h \notin fresh
  BY <1>1, <1>3, <1>6, <1>9, SoundStill DEF Pc
<1> QED
  BY <1>7, <1>8, <1>9

LEMMA SoundDone ==
    ASSUME NEW v \in WorkerType, NEW u, NEW g \in Goals, NEW code \in Codes \ {"busy"}, Sound(v),
           Ends(u, v, g, code), code = "ok" /\ ~v.misled => Provides(g) \subseteq v.valid
    PROVE  Sound(u)
<1>1. /\ u.child = v.child /\ u.valid = v.valid /\ u.error = v.error /\ u.misled = v.misled
      /\ u.code[g] = code /\ \A h \in Goals \ {g} : u.code[h] = v.code[h]
      /\ u.goal[g] = NoGoal
  BY DEF Ends
<1>2. SUFFICES ASSUME ~u.misled, NEW h \in Goals PROVE SoundOf(u, h)
  BY <1>1, <1>2 DEF Sound
<1>3. SoundOf(v, h)
  BY <1>1, <1>2 DEF Sound
<1>4. CASE h = g
  <2>1. Pc(u, g) = "none"
    BY <1>1, TheNewGoal DEF Pc
  <2>2. Promised(Pc(u, g), g) = {}
    BY <2>1 DEF Promised
  <2> QED
    BY <1>1, <1>2, <1>3, <1>4, <2>1, <2>2 DEF SoundOf
<1>5. CASE h # g
  <2>1. /\ Pc(u, h) = Pc(v, h) /\ u.code[h] = v.code[h] /\ u.goal[h].waitees = Left(v, g, code, h)
        /\ u.goal[h].nrFailed = v.goal[h].nrFailed
             + IF h \in v.goal[g].waiters /\ code \in {"failed", "nosub"} THEN 1 ELSE 0
    BY <1>1, <1>5 DEF Ends, Pc
  <2>2. v.goal[h].nrFailed \in Nat
    BY Typed DEF GoalType
  <2>3. CASE h \notin v.goal[g].waiters
    <3>1. u.goal[h].waitees = v.goal[h].waitees /\ u.goal[h].nrFailed = v.goal[h].nrFailed
      BY <2>1, <2>2, <2>3 DEF Left
    <3> QED
      BY <1>1, <1>3, <2>1, <3>1, SoundStill
  <2>4. CASE h \in v.goal[g].waiters /\ code \in {"failed", "nosub"}
    <3>1. u.goal[h].nrFailed # 0
      BY <2>1, <2>2, <2>4
    <3> QED
      BY <1>1, <1>3, <2>1, <3>1 DEF SoundOf
  <2>5. CASE h \in v.goal[g].waiters /\ code = "ok"
    <3>1. u.goal[h].nrFailed = v.goal[h].nrFailed
      BY <2>1, <2>2, <2>5
    <3>2. u.goal[h].waitees = v.goal[h].waitees \ {g}
      BY <2>1, <2>5 DEF Left, Stops
    <3>3. Provides(g) \subseteq u.valid
      BY <1>1, <1>2, <2>5
    <3>4. u.goal[h].nrFailed = 0 =>
            \A x \in Promised(Pc(u, h), h) : x \in u.goal[h].waitees \/ Provides(x) \subseteq u.valid
      BY <1>1, <1>3, <2>1, <3>1, <3>2, <3>3 DEF SoundOf
    <3> QED
      BY <1>1, <1>3, <2>1, <3>4 DEF SoundOf
  <2> QED
    BY <2>3, <2>4, <2>5 DEF Codes
<1> QED
  BY <1>4, <1>5

LEMMA SoundStart ==
    ASSUME NEW v \in WorkerType, NEW g \in Goals, Sound(v), Pc(v, g) # "none",
           ~v.misled /\ Kind(g) = "S" => Needed(Drv(g)) \subseteq v.valid
    PROVE  Sound(ChildStarted(v, g))
<1> DEFINE u == ChildStarted(v, g)
           goal == [v.goal EXCEPT ![g] = [@ EXCEPT !.pc = "child"]]
           child == [v.child EXCEPT ![g] = "running"]
<1>1. v.goal \in [Goals -> GoalType] /\ v.child \in [Goals -> ChildStates]
  BY Typed
<1>2. /\ u.code = v.code /\ u.valid = v.valid /\ u.misled = v.misled /\ u.error = v.error
      /\ u.goal = goal /\ u.child = child
  BY DEF ChildStarted, WorkerType
<1>3. /\ goal[g].pc = "child" /\ \A h \in Goals \ {g} : goal[h] = v.goal[h] /\ child[h] = v.child[h]
      /\ child[g] = "running"
  BY <1>1 DEF GoalType
<1> HIDE DEF u, goal, child
<1>4. SUFFICES ASSUME ~u.misled, NEW h \in Goals PROVE SoundOf(u, h)
  BY <1>2, <1>4 DEF Sound, u
<1>5. SoundOf(v, h)
  BY <1>2, <1>4 DEF Sound
<1>6. CASE h = g
  <2>1. Pc(u, g) = "child" /\ u.child[g] = "running"
    BY <1>2, <1>3 DEF Pc
  <2>2. Promised(Pc(u, g), g) = {}
    BY <2>1 DEF Promised
  <2> QED
    BY <1>2, <1>4, <1>5, <1>6, <2>1, <2>2 DEF SoundOf
<1>7. CASE h # g
  BY <1>2, <1>3, <1>5, <1>7, SoundStill DEF Pc
<1> QED
  BY <1>6, <1>7

(* What is valid stays so, and a goal that has been promised nothing may   *)
(* forget its failures.                                                    *)
LEMMA SoundInert ==
    ASSUME NEW v, NEW u, Sound(v), v.misled => u.misled, u.error = v.error,
           v.valid \subseteq u.valid, u.code = v.code,
           \A h \in Goals : /\ Pc(u, h) = Pc(v, h) \/ Back(u, v, h)
                            /\ u.goal[h].waitees = v.goal[h].waitees
                            /\ u.goal[h].nrFailed = v.goal[h].nrFailed \/ Promised(Pc(v, h), h) = {}
                            /\ u.child[h] \in {v.child[h], "none"}
    PROVE  Sound(u)
<1>1. SUFFICES ASSUME ~u.misled, NEW h \in Goals PROVE SoundOf(u, h)
  BY <1>1 DEF Sound
<1> QED
  BY <1>1, SoundStill DEF Sound

-----------------------------------------------------------------------------
(* A goal is resumed                                                       *)

Good(v, rd, cur) == Inv(v, rd, cur) /\ Sound(v)

LEMMA Current ==
    ASSUME NEW v, NEW rd, NEW g \in Goals, set \in Scenarios, Inv(v, rd, {g})
    PROVE  /\ v \in WorkerType /\ Linked(v) /\ g \in Live(v) /\ Pc(v, g) # "none"
           /\ Pc(v, g) \in PcsOf(g) /\ v.goal[g].waitees = {} /\ g \notin v.goal[g].waiters
           /\ v.goal[g] \in GoalType /\ v.goal[g].nrFailed \in Nat
           /\ Pc(v, g) # "child" => v.child[g] = "none"
<1>1. v \in WorkerType /\ Linked(v) /\ g \in Live(v) /\ Pc(v, g) \in PcsOf(g) /\ v.goal[g].waitees = {}
  BY DEF Inv, Reasons
<1>2. v.goal[g] \in GoalType /\ v.goal[g].nrFailed \in Nat
  BY <1>1, Typed DEF GoalType
<1>3. g \notin v.goal[g].waiters
  BY <1>1 DEF Linked
<1>4. Pc(v, g) # "child" => v.child[g] = "none"
  BY DEF Inv, Slots
<1> QED
  BY <1>1, <1>2, <1>3, <1>4 DEF Live

LEMMA GoodDone ==
    ASSUME NEW v, NEW rd, NEW g \in Goals, NEW code \in {"ok", "failed", "nosub"}, set \in Scenarios,
           Good(v, rd, {g}), v.child[g] = "none",
           code = "ok" /\ ~v.misled => Provides(g) \subseteq v.valid
    PROVE  Good(AmDone(v, g, code), rd, {})
<1>1. code \in Codes \ {"busy"}
  BY DEF Codes
<1>2. Inv(v, rd, {g}) /\ Sound(v)
  BY DEF Good
<1>3. Ends(AmDone(v, g, code), v, g, code)
  BY <1>1, <1>2, Current, Ending
<1>4. Sound(AmDone(v, g, code))
  BY <1>1, <1>2, <1>3, Current, SoundDone
<1> QED
  BY <1>1, <1>2, <1>4, Done DEF Good

LEMMA GoodWait ==
    ASSUME NEW v, NEW rd, NEW g \in Goals, NEW G \in SUBSET MayAwait(g), G # {},
           NEW pc \in PcsOf(g) \cap Pcs, set \in Scenarios, Good(v, rd, {g}), v.child[g] = "none",
           pc \in {"outs", "subst", "resolve", "build", "inputs", "refs"}, Promised(pc, g) \subseteq G,
           \A h \in G : ~v.misled /\ Kind(h) = "B" => Needed(Drv(h)) \subseteq v.valid
    PROVE  Good(Await(Make(v, G), g, G, pc), rd, {})
<1>1. Inv(v, rd, {g}) /\ Sound(v)
  BY DEF Good
<1>2. G \in SUBSET Goals /\ g \notin G
  BY Setting, NotItself
<1>3. v \in WorkerType /\ Linked(v) /\ g \in Live(v)
  BY <1>1, Current
<1> DEFINE u == Await(Make(v, G), g, G, pc)
<1>4. Asks(u, v, g, G, pc)
  BY <1>2, <1>3, Asking
<1>5. Inv(u, rd, {})
  BY <1>1, Waiting
<1> HIDE DEF u
<1>6. Sound(u)
  BY <1>1, <1>2, <1>3, <1>4, SoundWait
<1> QED
  BY <1>5, <1>6 DEF Good, u

LEMMA GoodSleep ==
    ASSUME NEW v, NEW u, NEW rd, NEW g \in Goals, NEW pc \in PcsOf(g), set \in Scenarios,
           Good(v, rd, {g}), v.child[g] = "none", Sleeps(u, v, g, pc), pc \in {"try", "start", "run"},
           pc = "start" => set.maxJobs > 0, u.wanting # v.wanting => Children(v) # {},
           ~v.misled /\ Kind(g) = "S" => Needed(Drv(g)) \subseteq v.valid
    PROVE  Good(u, rd, {})
<1>1. Inv(v, rd, {g}) /\ Sound(v)
  BY DEF Good
<1>2. Inv(u, rd, {})
  BY <1>1, Sleeping
<1>3. Sound(u)
  BY <1>1, Current, SoundSleep
<1> QED
  BY <1>2, <1>3 DEF Good

LEMMA GoodThrow ==
    ASSUME NEW v, NEW rd, NEW g \in Goals, NEW e \in Errors \ {"none"}, set \in Scenarios,
           Good(v, rd, {g}), Pc(v, g) # "child",
           e \notin {"input not valid", "reference not valid"} \/ v.misled
    PROVE  Good(Throw(v, e), rd, {})
<1>1. Inv(v, rd, {g}) /\ Sound(v)
  BY DEF Good
<1>2. Inv(Throw(v, e), rd, {})
  BY <1>1, Thrown
<1>3. Sound(Throw(v, e))
  BY <1>1, Current, SoundThrow
<1> QED
  BY <1>2, <1>3 DEF Good

LEMMA GoodJoin ==
    ASSUME NEW v, NEW rd, Good(v, rd, {}) PROVE Good(Throw(v, "join"), rd, {})
<1> DEFINE u == Throw(v, "join")
<1>1. Inv(v, rd, {}) /\ Sound(v) /\ v \in WorkerType
  BY DEF Good, Inv
<1>2. /\ u \in WorkerType /\ u.error = "join" /\ SameBut(u, v, {})
  BY <1>1 DEF Throw, SameBut, WorkerType, Errors, Pc
<1>3. Sound(u)
  BY <1>1, SoundThrow
<1> HIDE DEF u
<1>4. Inv(u, rd, {})
  BY <1>1, <1>2, Inert
<1>5. Good(u, rd, {})
  BY <1>3, <1>4 DEF Good
<1> QED
  BY <1>5 DEF u

LEMMA GoodStart ==
    ASSUME NEW v, NEW rd, NEW g \in Goals, set \in Scenarios, Good(v, rd, {g}), v.child[g] = "none",
           \/ Kind(g) = "B" /\ v.nrBuilds < set.maxJobs
           \/ Kind(g) = "S" /\ v.nrSubs < IF set.maxSubs = 0 THEN 1 ELSE set.maxSubs,
           ~v.misled /\ Kind(g) = "S" => Needed(Drv(g)) \subseteq v.valid
    PROVE  Good(ChildStarted(v, g), rd, {})
<1>1. Inv(v, rd, {g}) /\ Sound(v)
  BY DEF Good
<1>2. Inv(ChildStarted(v, g), rd, {})
  BY <1>1, Started
<1>3. Sound(ChildStarted(v, g))
  BY <1>1, Current, SoundStart
<1> QED
  BY <1>2, <1>3 DEF Good

LEMMA GoodFreed ==
    ASSUME NEW v, NEW rd, NEW g \in Goals, set \in Scenarios, Good(v, rd, {g}), v.child[g] # "none"
    PROVE  /\ Good(ChildTerminated(v, {g}), rd, {g})
           /\ ChildTerminated(v, {g}).child[g] = "none" /\ ChildTerminated(v, {g}).goal = v.goal
           /\ ChildTerminated(v, {g}).valid = v.valid /\ ChildTerminated(v, {g}).misled = v.misled
<1> DEFINE u == ChildTerminated(v, {g})
<1>1. Inv(v, rd, {g}) /\ Sound(v)
  BY DEF Good
<1>2. Inv(u, rd, {g}) /\ u.child[g] = "none" /\ u.goal = v.goal
  BY <1>1, Terminated
<1>3. {g} \in SUBSET Children(v) /\ v \in WorkerType /\ v.nrBuilds = Cardinality(Running(v, "B"))
      /\ v.nrSubs = Cardinality(Running(v, "S"))
  BY <1>1 DEF Children, Inv, Slots
<1>4. /\ u.code = v.code /\ u.valid = v.valid /\ u.error = v.error /\ u.misled = v.misled
      /\ \A h \in Goals : u.child[h] = IF h \in {g} THEN "none" ELSE v.child[h]
  BY <1>3, Freed
<1> HIDE DEF u
<1>5. Sound(u)
  BY <1>1, <1>2, <1>4, SoundInert DEF Pc
<1>6. Good(u, rd, {g}) /\ u.child[g] = "none" /\ u.goal = v.goal /\ u.valid = v.valid /\ u.misled = v.misled
  BY <1>2, <1>4, <1>5 DEF Good
<1> QED
  BY <1>6 DEF u

(* Changes to a goal's own counters, and to what is valid.                 *)
Tweak(v, g, r) == [v EXCEPT !.goal[g] = r]

LEMMA GoodTweak ==
    ASSUME NEW v, NEW rd, NEW g \in Goals, NEW r \in GoalType, set \in Scenarios,
           Good(v, rd, {g}),
           r.pc = v.goal[g].pc \/ (r.pc = "new" /\ v.child[g] = "none"),
           r.waitees = v.goal[g].waitees, r.waiters = v.goal[g].waiters,
           r.nrFailed = v.goal[g].nrFailed \/ Promised(Pc(v, g), g) = {}
    PROVE  LET u == Tweak(v, g, r)
           IN  /\ Good(u, rd, {g}) /\ u.goal[g] = r /\ u.child = v.child
               /\ u.valid = v.valid /\ u.misled = v.misled /\ Pc(u, g) = r.pc
<1>1. Inv(v, rd, {g}) /\ Sound(v)
  BY DEF Good
<1> DEFINE goal == [v.goal EXCEPT ![g] = r]
           u == Tweak(v, g, r)
<1>2. v \in WorkerType /\ v.goal \in [Goals -> GoalType]
  BY <1>1, Typed DEF Inv
<1>3. goal \in [Goals -> GoalType] /\ goal[g] = r /\ \A h \in Goals \ {g} : goal[h] = v.goal[h]
  BY <1>2
<1>4. u = [v EXCEPT !.goal = goal]
  BY DEF Tweak
<1> HIDE DEF goal, u
<1>5. /\ u.goal = goal /\ u.awake = v.awake /\ u.wanting = v.wanting /\ u.awhile = v.awhile
      /\ u.top = v.top /\ u.child = v.child /\ u.nrBuilds = v.nrBuilds /\ u.nrSubs = v.nrSubs
      /\ u.code = v.code /\ u.valid = v.valid /\ u.error = v.error /\ u.misled = v.misled
      /\ u \in WorkerType
  BY <1>2, <1>3, <1>4 DEF WorkerType
<1>6. Pc(v, g) # "none" /\ Pc(u, g) = r.pc /\ \A h \in Goals \ {g} : Pc(u, h) = Pc(v, h)
  BY <1>1, <1>3, <1>5, Current DEF Pc
<1>10. SameBut(u, v, {g})
  <2>1. CASE r.pc = v.goal[g].pc
    BY <1>3, <1>5, <1>6, <2>1 DEF SameBut, Pc
  <2>2. CASE r.pc = "new" /\ v.child[g] = "none"
    <3>1. Back(u, v, g)
      BY <1>6, <2>2 DEF Back
    <3> QED
      BY <1>3, <1>5, <1>6, <2>2, <3>1 DEF SameBut
  <2> QED
    BY <2>1, <2>2
<1>7. Inv(u, rd, {g})
  BY <1>1, <1>5, <1>10, Inert
<1>8. \A h \in Goals : /\ Pc(u, h) = Pc(v, h) \/ Back(u, v, h)
                       /\ u.goal[h].waitees = v.goal[h].waitees
                       /\ u.goal[h].nrFailed = v.goal[h].nrFailed \/ Promised(Pc(v, h), h) = {}
                       /\ u.child[h] \in {v.child[h], "none"}
  <2> SUFFICES ASSUME NEW h \in Goals
               PROVE  /\ Pc(u, h) = Pc(v, h) \/ Back(u, v, h)
                      /\ u.goal[h].waitees = v.goal[h].waitees
                      /\ u.goal[h].nrFailed = v.goal[h].nrFailed \/ Promised(Pc(v, h), h) = {}
                      /\ u.child[h] \in {v.child[h], "none"}
    OBVIOUS
  <2>1. CASE h = g
    BY <1>3, <1>5, <1>6, <2>1 DEF Pc, Back
  <2>2. CASE h # g
    BY <1>3, <1>5, <2>2 DEF Pc
  <2> QED
    BY <2>1, <2>2
<1>9. Sound(u)
  BY <1>1, <1>5, <1>8, SoundInert
<1> QED
  BY <1>3, <1>5, <1>6, <1>7, <1>8, <1>9 DEF Good, u

LEMMA GoodMore ==
    ASSUME NEW v, NEW rd, NEW cur, NEW u \in WorkerType, Good(v, rd, cur),
           u.goal = v.goal, u.awake = v.awake, u.wanting = v.wanting, u.awhile = v.awhile,
           u.top = v.top, u.child = v.child, u.nrBuilds = v.nrBuilds, u.nrSubs = v.nrSubs,
           u.code = v.code, u.error = v.error, v.valid \subseteq u.valid, v.misled => u.misled
    PROVE  Good(u, rd, cur)
<1>1. Inv(v, rd, cur) /\ Sound(v)
  BY DEF Good
<1>2. SameBut(u, v, {}) /\ {} \subseteq cur
  BY DEF SameBut, Pc
<1>3. Inv(u, rd, cur)
  BY <1>1, <1>2, Inert
<1>4. Sound(u)
  <2>1. \A h \in Goals : /\ Pc(u, h) = Pc(v, h) /\ u.goal[h].waitees = v.goal[h].waitees
                         /\ u.goal[h].nrFailed = v.goal[h].nrFailed
                         /\ u.child[h] \in {v.child[h], "none"}
    BY DEF Pc
  <2> QED
    BY <1>1, <2>1, SoundInert
<1> QED
  BY <1>3, <1>4 DEF Good

LEMMA GoodT ==
    ASSUME NEW v, NEW rd, NEW g \in Goals, set \in Scenarios, Good(v, rd, {g}), Kind(g) = "T"
    PROVE  Good(WorkT(v, g), rd, {})
<1> DEFINE d == Drv(g)
           x == D(d, First[d])
           m == v.misled \/ (v.code[x] = "ok" /\ \E y \in OutputGoals(d) : v.code[y] # "ok")
<1>1. Inv(v, rd, {g}) /\ Sound(v)
  BY DEF Good
<1>2. /\ v \in WorkerType /\ Pc(v, g) \in PcsOf(g) /\ Pc(v, g) # "none" /\ v.goal[g].waitees = {}
      /\ Pc(v, g) # "child" => v.child[g] = "none"
  BY <1>1, Current
<1>3. Pc(v, g) \in {"new", "outs"} /\ v.child[g] = "none"
  BY <1>2 DEF PcsOf
<1>4. d \in Drvs
  BY KindsOnly
<1>5. CASE Pc(v, g) = "new"
  <2> DEFINE G == OutputGoals(d)
  <2>1. G \in SUBSET MayAwait(g) /\ G # {}
    BY <1>4, Setting DEF MayAwait
  <2>2. "outs" \in PcsOf(g) \cap Pcs /\ Promised("outs", g) = {}
    BY DEF PcsOf, Pcs, Promised
  <2>3. \A h \in G : Kind(h) # "B"
    BY <1>4, KindsOf DEF OutputGoals
  <2>4. WorkT(v, g) = Await(Make(v, G), g, G, "outs")
    BY <1>5 DEF WorkT
  <2> HIDE DEF G
  <2>5. Good(Await(Make(v, G), g, G, "outs"), rd, {})
    BY <1>3, <2>1, <2>2, <2>3, GoodWait
  <2> QED
    BY <2>4, <2>5
<1>6. CASE Pc(v, g) = "outs" /\ v.code[x] = "busy"
  <2>1. WorkT(v, g) = Throw(v, "assertion")
    BY <1>6 DEF WorkT
  <2>2. "assertion" \in Errors \ {"none"}
    BY DEF Errors
  <2> QED
    BY <1>3, <1>6, <2>1, <2>2, GoodThrow
<1>7. CASE Pc(v, g) = "outs" /\ v.code[x] # "busy"
  <2> DEFINE v1 == [v EXCEPT !.misled = m]
  <2>1. First[d] \in Outs[d]
    BY <1>4, WorkerAssumption
  <2>2. x \in OutputGoals(d) /\ x \in Goals
    BY <1>4, <2>1, KindsOf DEF OutputGoals
  <2>3. v.code[x] \in {"ok", "failed", "nosub"}
    BY <1>2, <1>7, <2>2, Typed DEF Codes
  <2>4. m \in BOOLEAN /\ (v.misled => m)
    BY <1>2 DEF WorkerType
  <2>6. WorkT(v, g) = AmDone(v1, g, v.code[x])
    BY <1>7 DEF WorkT
  <2>7. v.code[x] = "ok" /\ ~m => \A y \in OutputGoals(d) : v.code[y] = "ok"
    OBVIOUS
  <2>8. ~m => ~v.misled
    OBVIOUS
  <2> HIDE DEF m
  <2>9. /\ v1 \in WorkerType /\ v1.goal = v.goal /\ v1.awake = v.awake /\ v1.wanting = v.wanting
        /\ v1.awhile = v.awhile /\ v1.top = v.top /\ v1.child = v.child /\ v1.nrBuilds = v.nrBuilds
        /\ v1.nrSubs = v.nrSubs /\ v1.code = v.code /\ v1.error = v.error /\ v1.valid = v.valid
        /\ v1.misled = m
    BY <1>2, <2>4 DEF WorkerType
  <2> HIDE DEF v1
  <2>10. ASSUME v.code[x] = "ok", ~v1.misled PROVE Provides(g) \subseteq v1.valid
    <3>1. ASSUME NEW y \in OutputsOf({d}) PROVE y \in v.valid
      <4>1. PICK o \in Outs[d] : y = <<d, o>>
        BY <1>4, <3>1 DEF OutputsOf
      <4>2. D(d, o) \in OutputGoals(d) /\ D(d, o) \in Goals /\ Kind(D(d, o)) = "D" /\ Out(D(d, o)) = y
        BY <1>4, <4>1, KindsOf DEF OutputGoals
      <4>3. v.code[D(d, o)] = "ok"
        BY <2>7, <2>9, <2>10, <4>2
      <4>4. Provides(D(d, o)) = {y}
        BY <4>2 DEF Provides
      <4>5. SoundOf(v, D(d, o))
        BY <1>1, <2>8, <2>9, <2>10, <4>2 DEF Sound
      <4> QED
        BY <4>3, <4>4, <4>5 DEF SoundOf
    <3>2. Provides(g) = OutputsOf({d})
      BY DEF Provides
    <3> QED
      BY <2>9, <3>1, <3>2
  <2>11. Good(AmDone(v1, g, v.code[x]), rd, {})
    <3>1. Good(v1, rd, {g})
      BY <2>4, <2>9, GoodMore
    <3> QED
      BY <1>3, <2>3, <2>9, <2>10, <3>1, GoodDone
  <2> QED
    BY <2>6, <2>11
<1> QED
  BY <1>3, <1>5, <1>6, <1>7

LEMMA GoodR ==
    ASSUME NEW v, NEW rd, NEW g \in Goals, set \in Scenarios, Good(v, rd, {g}), Kind(g) = "R"
    PROVE  Good(WorkR(v, g), rd, {})
<1> DEFINE d == Drv(g)
           G == InputGoals(d)
           code == IF v.goal[g].nrFailed # 0 THEN "failed" ELSE "ok"
<1>1. Inv(v, rd, {g}) /\ Sound(v)
  BY DEF Good
<1>2. /\ v \in WorkerType /\ Pc(v, g) \in PcsOf(g) /\ Pc(v, g) # "none" /\ v.goal[g].waitees = {}
      /\ Pc(v, g) # "child" => v.child[g] = "none"
  BY <1>1, Current
<1>3. Pc(v, g) \in {"new", "inputs"} /\ v.child[g] = "none"
  BY <1>2 DEF PcsOf
<1>4. d \in Drvs /\ \A e \in set.inputs[d] : e \in Drvs
  BY KindsOnly, Setting
<1>5. CASE Pc(v, g) = "new" /\ G # {}
  <2>1. G \in SUBSET MayAwait(g)
    BY DEF MayAwait
  <2>2. "inputs" \in PcsOf(g) \cap Pcs /\ Promised("inputs", g) \subseteq G
    BY DEF PcsOf, Pcs, Promised
  <2>3. \A h \in G : Kind(h) # "B"
    BY <1>4, KindsOf DEF InputGoals
  <2>4. WorkR(v, g) = Await(Make(v, G), g, G, "inputs")
    BY <1>5 DEF WorkR
  <2> HIDE DEF G
  <2>5. Good(Await(Make(v, G), g, G, "inputs"), rd, {})
    BY <1>3, <1>5, <2>1, <2>2, <2>3, GoodWait
  <2> QED
    BY <2>4, <2>5
<1>6. CASE ~(Pc(v, g) = "new" /\ G # {})
  <2>1. WorkR(v, g) = AmDone(v, g, code)
    BY <1>6 DEF WorkR
  <2>2. code \in {"ok", "failed", "nosub"}
    OBVIOUS
  <2>3. ASSUME code = "ok", ~v.misled PROVE Provides(g) \subseteq v.valid
    <3>1. Provides(g) = Needed(d)
      BY DEF Provides
    <3>2. ASSUME NEW x \in Needed(d) PROVE x \in v.valid
      <4>1. x[1] \in set.inputs[d] /\ x[1] \in Drvs /\ x[2] \in Outs[x[1]] /\ x = <<x[1], x[2]>>
        BY <1>4, <3>2, OutputPairs, Setting DEF Needed
      <4> DEFINE t == T(x[1])
      <4>2. t \in G /\ Kind(t) = "T" /\ Drv(t) = x[1]
        BY <4>1, KindsOf DEF InputGoals
      <4>3. Pc(v, g) = "inputs"
        BY <1>3, <1>6, <4>2
      <4>4. t \in Promised(Pc(v, g), g)
        BY <4>2, <4>3 DEF Promised
      <4>5. SoundOf(v, g)
        BY <1>1, <2>3 DEF Sound
      <4>6. Provides(t) \subseteq v.valid
        BY <1>2, <2>3, <4>4, <4>5 DEF SoundOf
      <4>7. Provides(t) = OutputsOf({x[1]})
        BY <4>2 DEF Provides
      <4>8. x \in OutputsOf({x[1]})
        BY <4>1 DEF OutputsOf
      <4> QED
        BY <4>6, <4>7, <4>8
    <3> QED
      BY <3>1, <3>2
  <2> HIDE DEF code
  <2>4. Good(AmDone(v, g, code), rd, {})
    BY <1>3, <2>2, <2>3, GoodDone
  <2> QED
    BY <2>1, <2>4
<1> QED
  BY <1>5, <1>6

LEMMA GoodAfter ==
    ASSUME NEW v, NEW rd, NEW g \in Goals, set \in Scenarios, Good(v, rd, {g}), Kind(g) = "D",
           Pc(v, g) \in {"new", "subst"}
    PROVE  Good(AfterSubstitution(v, g), rd, {})
<1> DEFINE d == Drv(g)
           G == {R(d)}
           r == [v.goal[g] EXCEPT !.nrFailed = 0, !.nrNoSubstituters = 0]
           v1 == Tweak(v, g, r)
<1>1. Inv(v, rd, {g}) /\ Sound(v)
  BY DEF Good
<1>2. v \in WorkerType /\ v.goal[g] \in GoalType /\ v.child[g] = "none"
  BY <1>1, Current
<1>3. r \in GoalType /\ r.pc = v.goal[g].pc /\ r.waitees = v.goal[g].waitees /\ r.waiters = v.goal[g].waiters
  BY <1>2 DEF GoalType
<1>4. Promised(Pc(v, g), g) = {}
  BY DEF Promised
<1>5. [v EXCEPT !.goal[g].nrFailed = 0, !.goal[g].nrNoSubstituters = 0] = v1
  BY <1>2 DEF Tweak, WorkerType
<1>6. d \in Drvs /\ R(d) \in Goals /\ Kind(R(d)) = "R"
  BY KindsOnly, KindsOf
<1>7. AfterSubstitution(v, g) = IF GiveUp(v, g) THEN AmDone(v, g, "failed")
                                ELSE IF Out(g) \in v.valid THEN AmDone(v1, g, "ok")
                                ELSE Await(Make(v1, G), g, G, "resolve")
  BY <1>5 DEF AfterSubstitution
<1> HIDE DEF r, v1
<1>8. Good(v1, rd, {g}) /\ v1.child = v.child /\ v1.valid = v.valid
  BY <1>3, <1>4, GoodTweak DEF v1
<1>9. Good(AmDone(v, g, "failed"), rd, {})
  BY <1>2, GoodDone
<1>10. ASSUME Out(g) \in v.valid PROVE Good(AmDone(v1, g, "ok"), rd, {})
  <2>1. Provides(g) \subseteq v1.valid
    BY <1>8, <1>10 DEF Provides
  <2> QED
    BY <1>2, <1>8, <2>1, GoodDone
<1>11. Good(Await(Make(v1, G), g, G, "resolve"), rd, {})
  <2>1. G \in SUBSET MayAwait(g) /\ G # {}
    BY DEF MayAwait
  <2>2. "resolve" \in PcsOf(g) \cap Pcs /\ Promised("resolve", g) \subseteq G
    BY DEF PcsOf, Pcs, Promised
  <2>3. \A h \in G : Kind(h) # "B"
    BY <1>6
  <2> HIDE DEF G
  <2> QED
    BY <1>2, <1>8, <2>1, <2>2, <2>3, GoodWait
<1> QED
  BY <1>7, <1>9, <1>10, <1>11

LEMMA GoodD ==
    ASSUME NEW v, NEW rd, NEW g \in Goals, set \in Scenarios, Good(v, rd, {g}), Kind(g) = "D"
    PROVE  Good(WorkD(v, g), rd, {})
<1> DEFINE d == Drv(g)
           s == S(g[2], g[3])
           GS == {s}
           GB == {B(d)}
<1>1. Inv(v, rd, {g}) /\ Sound(v)
  BY DEF Good
<1>2. /\ v \in WorkerType /\ Pc(v, g) \in PcsOf(g) /\ Pc(v, g) # "none" /\ v.goal[g].waitees = {}
      /\ Pc(v, g) # "child" => v.child[g] = "none"
  BY <1>1, Current
<1>3. Pc(v, g) \in {"new", "subst", "resolve", "build"} /\ v.child[g] = "none"
  BY <1>2 DEF PcsOf
<1>4. /\ d \in Drvs /\ Out(g) \in Outputs /\ g[2] = d /\ g[3] \in Outs[d]
      /\ Out(g) \in OutputsOf({d})
  <2>1. d \in Drvs /\ Out(g) \in Outputs /\ g[2] = d /\ g[3] \in Outs[d]
    BY KindsOnly
  <2> QED
    BY <2>1 DEF Out, OutputsOf
<1>5. s \in Goals /\ Kind(s) = "S" /\ R(d) \in Goals /\ Kind(R(d)) = "R" /\ Drv(R(d)) = d
      /\ B(d) \in Goals /\ Kind(B(d)) = "B" /\ Drv(B(d)) = d
  BY <1>4, KindsOf
<1>6. SoundOf(v, g) \/ v.misled
  BY <1>1 DEF Sound
<1>7. CASE Pc(v, g) = "new"
  <2>1. WorkD(v, g) = IF Out(g) \in v.valid THEN AmDone(v, g, "ok")
                      ELSE IF set.substituters # {} THEN Await(Make(v, GS), g, GS, "subst")
                      ELSE AfterSubstitution(v, g)
    BY <1>7 DEF WorkD
  <2>2. ASSUME Out(g) \in v.valid PROVE Good(AmDone(v, g, "ok"), rd, {})
    <3>1. Provides(g) \subseteq v.valid
      BY <2>2 DEF Provides
    <3> QED
      BY <1>3, <3>1, GoodDone
  <2>3. Good(Await(Make(v, GS), g, GS, "subst"), rd, {})
    <3>1. GS \in SUBSET MayAwait(g) /\ GS # {}
      BY DEF MayAwait
    <3>2. "subst" \in PcsOf(g) \cap Pcs /\ Promised("subst", g) = {}
      BY DEF PcsOf, Pcs, Promised
    <3>3. \A h \in GS : Kind(h) # "B"
      BY <1>5
    <3> HIDE DEF GS
    <3> QED
      BY <1>3, <3>1, <3>2, <3>3, GoodWait
  <2> QED
    BY <1>7, <2>1, <2>2, <2>3, GoodAfter
<1>8. CASE Pc(v, g) = "subst"
  <2>1. WorkD(v, g) = AfterSubstitution(v, g)
    BY <1>8 DEF WorkD
  <2> QED
    BY <1>8, <2>1, GoodAfter
<1>9. CASE Pc(v, g) = "resolve"
  <2>1. WorkD(v, g) = IF v.goal[g].nrFailed # 0 THEN AmDone(v, g, "failed")
                      ELSE Await(Make(v, GB), g, GB, "build")
    BY <1>9 DEF WorkD
  <2>2. Good(AmDone(v, g, "failed"), rd, {})
    BY <1>3, GoodDone
  <2>3. ASSUME v.goal[g].nrFailed = 0 PROVE Good(Await(Make(v, GB), g, GB, "build"), rd, {})
    <3>1. GB \in SUBSET MayAwait(g) /\ GB # {}
      BY DEF MayAwait
    <3>2. "build" \in PcsOf(g) \cap Pcs /\ Promised("build", g) \subseteq GB
      BY DEF PcsOf, Pcs, Promised
    <3>3. ASSUME ~v.misled PROVE Needed(d) \subseteq v.valid
      <4>1. Promised(Pc(v, g), g) = {R(d)}
        BY <1>9 DEF Promised
      <4>2. Provides(R(d)) = Needed(d)
        BY <1>5 DEF Provides
      <4> QED
        BY <1>2, <1>6, <2>3, <3>3, <4>1, <4>2 DEF SoundOf
    <3>4. \A h \in GB : ~v.misled /\ Kind(h) = "B" => Needed(Drv(h)) \subseteq v.valid
      BY <1>5, <3>3
    <3> HIDE DEF GB
    <3> QED
      BY <1>3, <3>1, <3>2, <3>4, GoodWait
  <2> QED
    BY <2>1, <2>2, <2>3
<1>10. CASE Pc(v, g) = "build"
  <2> DEFINE code == IF v.goal[g].nrFailed # 0 THEN "failed" ELSE "ok"
  <2>1. WorkD(v, g) = AmDone(v, g, code)
    BY <1>10 DEF WorkD, BuildDone
  <2>2. code \in {"ok", "failed", "nosub"}
    OBVIOUS
  <2>3. ASSUME code = "ok", ~v.misled PROVE Provides(g) \subseteq v.valid
    <3>1. Promised(Pc(v, g), g) = {B(d)}
      BY <1>10 DEF Promised
    <3>2. Provides(B(d)) = OutputsOf({d}) /\ Provides(g) = {Out(g)}
      BY <1>5 DEF Provides
    <3> QED
      BY <1>2, <1>4, <1>6, <2>3, <3>1, <3>2 DEF SoundOf
  <2> HIDE DEF code
  <2>4. Good(AmDone(v, g, code), rd, {})
    BY <1>3, <2>2, <2>3, GoodDone
  <2> QED
    BY <2>1, <2>4
<1> QED
  BY <1>3, <1>7, <1>8, <1>9, <1>10

LEMMA SomeRun ==
    ASSUME NEW v, NEW rd, NEW cur, NEW n \in Nat, n > 0, Inv(v, rd, cur), v.nrBuilds >= n \/ v.nrSubs >= n
    PROVE  Children(v) # {}
<1>1. v.nrBuilds = Cardinality(Running(v, "B")) /\ v.nrSubs = Cardinality(Running(v, "S"))
  BY DEF Inv, Slots
<1>2. Cardinality({}) = 0
  BY FS_EmptySet
<1>3. Running(v, "B") # {} \/ Running(v, "S") # {}
  BY <1>1, <1>2
<1> QED
  BY <1>3 DEF Running, Children

LEMMA GoodB ==
    ASSUME NEW v, NEW rd, NEW g \in Goals, set \in Scenarios, Good(v, rd, {g}), Kind(g) = "B",
           Pc(v, g) = "child" => v.child[g] # "none"
    PROVE  Good(WorkB(v, g), rd, {})
<1> DEFINE d == Drv(g)
<1>1. Inv(v, rd, {g}) /\ Sound(v)
  BY DEF Good
<1>2. /\ v \in WorkerType /\ Pc(v, g) \in PcsOf(g) /\ Pc(v, g) # "none" /\ v.goal[g].waitees = {}
      /\ Pc(v, g) # "child" => v.child[g] = "none"
      /\ set.maxJobs \in Nat /\ v.nrBuilds \in Nat
  BY <1>1, Current, Typed, Setting
<1>3. Pc(v, g) \in {"new", "try", "start", "child"} /\ "try" \in PcsOf(g) \cap Pcs /\ "start" \in PcsOf(g) \cap Pcs
  BY <1>2 DEF PcsOf, Pcs
<1>4. d \in Drvs /\ OutputsOf({d}) \subseteq Outputs /\ Provides(g) = OutputsOf({d})
  <2>1. d \in Drvs /\ Provides(g) = OutputsOf({d})
    BY KindsOnly DEF Provides
  <2> QED
    BY <2>1, Setting
<1>5. SoundOf(v, g) \/ v.misled
  BY <1>1 DEF Sound
<1>6. CASE Pc(v, g) = "new"
  <2>1. WorkB(v, g) = IF Needed(d) \subseteq v.valid THEN Yield(v, g, "try")
                      ELSE Throw(v, "input not valid")
    BY <1>6 DEF WorkB
  <2>2. Good(Yield(v, g, "try"), rd, {})
    <3>1. Sleeps(Yield(v, g, "try"), v, g, "try")
      BY <1>2, <1>3, Sleepers
    <3>2. Yield(v, g, "try").wanting = v.wanting
      BY <1>2 DEF Yield, Goto, WakeUp, WorkerType
    <3> QED
      BY <1>2, <1>3, <1>6, <3>1, <3>2, GoodSleep
  <2>3. ASSUME ~(Needed(d) \subseteq v.valid) PROVE Good(Throw(v, "input not valid"), rd, {})
    <3>1. v.misled
      BY <1>2, <1>5, <2>3 DEF SoundOf
    <3>2. "input not valid" \in Errors \ {"none"}
      BY DEF Errors
    <3> QED
      BY <1>6, <3>1, <3>2, GoodThrow
  <2> QED
    BY <2>1, <2>2, <2>3
<1>7. CASE Pc(v, g) = "try"
  <2>1. WorkB(v, g) = IF d \in foreign \/ ThreadLocks(v, d) THEN WaitForAWhile(Goto(v, g, "try"), g)
                      ELSE IF AllValid(v, d) THEN AmDone(v, g, "ok")
                      ELSE IF set.maxJobs = 0 THEN AmDone(v, g, "failed")
                      ELSE Yield(v, g, "start")
    BY <1>7 DEF WorkB, TryToBuild
  <2>2. Good(WaitForAWhile(Goto(v, g, "try"), g), rd, {})
    <3> DEFINE u == WaitForAWhile(Goto(v, g, "try"), g)
    <3>1. Sleeps(u, v, g, "try")
      BY <1>2, <1>3, Sleepers
    <3>2. u.wanting = v.wanting
      BY <1>2 DEF WaitForAWhile, Goto, WorkerType
    <3> HIDE DEF u
    <3>3. Good(u, rd, {})
      BY <1>2, <1>3, <1>7, <3>1, <3>2, GoodSleep
    <3> QED
      BY <3>3 DEF u
  <2>3. ASSUME AllValid(v, d) PROVE Good(AmDone(v, g, "ok"), rd, {})
    <3>1. Provides(g) \subseteq v.valid
      BY <1>4, <2>3 DEF AllValid
    <3> QED
      BY <1>2, <1>7, <3>1, GoodDone
  <2>4. Good(AmDone(v, g, "failed"), rd, {})
    BY <1>2, <1>7, GoodDone
  <2>5. ASSUME set.maxJobs # 0 PROVE Good(Yield(v, g, "start"), rd, {})
    <3>1. Sleeps(Yield(v, g, "start"), v, g, "start")
      BY <1>2, <1>3, Sleepers
    <3>2. Yield(v, g, "start").wanting = v.wanting
      BY <1>2 DEF Yield, Goto, WakeUp, WorkerType
    <3>3. set.maxJobs > 0
      BY <1>2, <2>5
    <3> QED
      BY <1>2, <1>3, <1>7, <3>1, <3>2, <3>3, GoodSleep
  <2> QED
    BY <2>1, <2>2, <2>3, <2>4, <2>5
<1>8. CASE Pc(v, g) = "start"
  <2>1. WorkB(v, g) = IF v.nrBuilds >= set.maxJobs THEN WaitForBuildSlot(Goto(v, g, "try"), g)
                      ELSE ChildStarted(v, g)
    BY <1>8 DEF WorkB, StartBuild
  <2>2. ASSUME v.nrBuilds >= set.maxJobs PROVE Good(WaitForBuildSlot(Goto(v, g, "try"), g), rd, {})
    <3> DEFINE u == WaitForBuildSlot(Goto(v, g, "try"), g)
    <3>1. Sleeps(u, v, g, "try")
      BY <1>2, <1>3, Sleepers
    <3>2. set.maxJobs > 0
      BY <1>1, <1>8 DEF Inv, Slots
    <3>3. Children(v) # {}
      BY <1>1, <1>2, <2>2, <3>2, SomeRun
    <3> HIDE DEF u
    <3>4. Good(u, rd, {})
      BY <1>2, <1>3, <1>8, <3>1, <3>3, GoodSleep
    <3> QED
      BY <3>4 DEF u
  <2>3. ASSUME ~(v.nrBuilds >= set.maxJobs) PROVE Good(ChildStarted(v, g), rd, {})
    <3>1. v.nrBuilds < set.maxJobs
      BY <1>2, <2>3
    <3> QED
      BY <1>2, <1>8, <3>1, GoodStart
  <2> QED
    BY <2>1, <2>2, <2>3
<1>9. CASE Pc(v, g) = "child"
  <2> DEFINE v1 == ChildTerminated(v, {g})
             v2 == [v1 EXCEPT !.valid = @ \cup OutputsOf({d})]
  <2>1. WorkB(v, g) = IF v.goal[g].event = "eof" /\ v.child[g] = "ok" THEN AmDone(v2, g, "ok")
                      ELSE AmDone(v1, g, "failed")
    BY <1>9 DEF WorkB
  <2>2. Good(v1, rd, {g}) /\ v1.child[g] = "none"
    BY <1>9, GoodFreed
  <2> HIDE DEF v1
  <2>3. Good(AmDone(v1, g, "failed"), rd, {})
    BY <2>2, GoodDone
  <2>4. Good(AmDone(v2, g, "ok"), rd, {})
    <3>1. v1 \in WorkerType
      BY <2>2 DEF Good, Inv
    <3> DEFINE X == OutputsOf({d})
               valid == v1.valid \cup X
    <3>2. valid \subseteq Outputs /\ v1.valid \subseteq valid /\ X \subseteq valid
      BY <1>4, <3>1, Typed
    <3>3. v2 = [v1 EXCEPT !.valid = valid]
      OBVIOUS
    <3> HIDE DEF X, valid, v2
    <3>4. /\ v2 \in WorkerType /\ v2.goal = v1.goal /\ v2.awake = v1.awake /\ v2.wanting = v1.wanting
          /\ v2.awhile = v1.awhile /\ v2.top = v1.top /\ v2.child = v1.child /\ v2.nrBuilds = v1.nrBuilds
          /\ v2.nrSubs = v1.nrSubs /\ v2.code = v1.code /\ v2.error = v1.error /\ v2.valid = valid
          /\ v2.misled = v1.misled
      BY <3>1, <3>2, <3>3 DEF WorkerType
    <3>5. Good(v2, rd, {g})
      BY <2>2, <3>2, <3>4, GoodMore
    <3>6. Provides(g) \subseteq v2.valid /\ v2.child[g] = "none"
      BY <1>4, <2>2, <3>2, <3>4 DEF X
    <3> QED
      BY <3>5, <3>6, GoodDone
  <2> QED
    BY <2>1, <2>3, <2>4
<1> QED
  BY <1>3, <1>6, <1>7, <1>8, <1>9

LEMMA GoodTryToRun ==
    ASSUME NEW v, NEW rd, NEW g \in Goals, set \in Scenarios, Good(v, rd, {g}), Kind(g) = "S",
           v.child[g] = "none", Pc(v, g) = "refs" \/ Needed(Drv(g)) = {}
    PROVE  Good(TryToRun(v, g), rd, {})
<1> DEFINE d == Drv(g)
           code == IF v.goal[g].nrNoSubstituters > 0 THEN "nosub" ELSE "failed"
<1>1. Inv(v, rd, {g}) /\ Sound(v)
  BY DEF Good
<1>2. /\ v \in WorkerType /\ Pc(v, g) # "none" /\ v.goal[g].waitees = {} /\ v.goal[g].nrFailed \in Nat
      /\ "run" \in PcsOf(g) \cap Pcs /\ d \in Drvs
  BY <1>1, Current, KindsOnly DEF PcsOf, Pcs
<1>3. TryToRun(v, g) = IF v.goal[g].nrFailed > 0 THEN AmDone(v, g, code)
                       ELSE IF ~(Needed(d) \subseteq v.valid) THEN Throw(v, "reference not valid")
                       ELSE Yield(v, g, "run")
  BY DEF TryToRun
<1>4. Good(AmDone(v, g, code), rd, {})
  <2>1. code \in {"ok", "failed", "nosub"} /\ code # "ok"
    OBVIOUS
  <2> HIDE DEF code
  <2> QED
    BY <2>1, GoodDone
<1>5. ASSUME ~(v.goal[g].nrFailed > 0), ~(Needed(d) \subseteq v.valid)
      PROVE  Good(Throw(v, "reference not valid"), rd, {})
  <2>1. Pc(v, g) = "refs" /\ v.goal[g].nrFailed = 0
    BY <1>2, <1>5
  <2>2. ASSUME ~v.misled, NEW x \in Needed(d) PROVE x \in v.valid
    <3>1. SoundOf(v, g)
      BY <1>1, <2>2 DEF Sound
    <3> DEFINE s == S(x[1], x[2])
    <3>2. s \in Promised(Pc(v, g), g)
      BY <2>1 DEF Promised, RefGoals
    <3>3. Provides(s) \subseteq v.valid
      BY <1>2, <2>1, <3>1, <3>2 DEF SoundOf
    <3>4. x[1] \in Drvs /\ x[2] \in Outs[x[1]] /\ x = <<x[1], x[2]>>
      BY <1>2, OutputPairs, Setting DEF Needed
    <3>5. Kind(s) = "S" /\ Out(s) = x
      BY <3>4, KindsOf
    <3>6. Provides(s) = {x}
      BY <3>5 DEF Provides
    <3> QED
      BY <3>3, <3>6
  <2>3. v.misled
    BY <1>5, <2>2
  <2>4. "reference not valid" \in Errors \ {"none"}
    BY DEF Errors
  <2> QED
    BY <2>1, <2>3, <2>4, GoodThrow
<1>6. ASSUME Needed(d) \subseteq v.valid PROVE Good(Yield(v, g, "run"), rd, {})
  <2>1. Sleeps(Yield(v, g, "run"), v, g, "run")
    BY <1>2, Sleepers
  <2>2. Yield(v, g, "run").wanting = v.wanting
    BY <1>2 DEF Yield, Goto, WakeUp, WorkerType
  <2> QED
    BY <1>2, <1>6, <2>1, <2>2, GoodSleep
<1> QED
  BY <1>3, <1>4, <1>5, <1>6

LEMMA GoodNext ==
    ASSUME NEW v, NEW rd, NEW g \in Goals, set \in Scenarios, Good(v, rd, {g}), Kind(g) = "S",
           v.child[g] = "none", Pc(v, g) = "new"
    PROVE  Good(NextSubstituter(v, g), rd, {})
<1> DEFINE d == Drv(g)
           offering == {i \in set.substituters \ set.broken : i > v.goal[g].sub /\ <<i, Out(g)>> \in set.offers}
           next == CHOOSE i \in offering : \A j \in offering : i <= j
           r == [v.goal[g] EXCEPT !.sub = next]
           v1 == Tweak(v, g, r)
           needed == RefGoals(d)
           code == IF v.goal[g].subFailed THEN "failed" ELSE "nosub"
<1>1. Inv(v, rd, {g}) /\ Sound(v)
  BY DEF Good
<1>2. v \in WorkerType /\ v.goal[g] \in GoalType /\ set.substituters \subseteq Nat /\ d \in Drvs
  BY <1>1, Current, Setting, KindsOnly
<1>3. [v EXCEPT !.goal[g].sub = next] = v1
  BY DEF Tweak
<1>4. NextSubstituter(v, g) = IF offering = {} /\ LastBroken THEN Throw(v, "substituter")
                              ELSE IF offering = {} THEN AmDone(v, g, code)
                              ELSE IF needed = {} THEN TryToRun(v1, g)
                              ELSE Await(Make(v1, needed), g, needed, "refs")
  BY <1>3 DEF NextSubstituter, RefGoals
<1>5. Good(AmDone(v, g, code), rd, {})
  <2>1. code \in {"ok", "failed", "nosub"} /\ code # "ok"
    OBVIOUS
  <2> HIDE DEF code
  <2> QED
    BY <2>1, GoodDone
<1>6. ASSUME offering # {} PROVE Good(v1, rd, {g}) /\ v1.child = v.child
  <2>1. offering \in SUBSET Nat
    BY <1>2
  <2> HIDE DEF offering
  <2>2. next \in Nat
    BY <1>6, <2>1, Least
  <2> HIDE DEF next
  <2>3. r \in GoalType /\ r.pc = v.goal[g].pc /\ r.waitees = v.goal[g].waitees
        /\ r.waiters = v.goal[g].waiters /\ r.nrFailed = v.goal[g].nrFailed
    BY <1>2, <2>2 DEF GoalType
  <2> HIDE DEF r
  <2> QED
    BY <2>3, GoodTweak
<1> HIDE DEF v1, offering
<1>9. Good(Throw(v, "substituter"), rd, {})
  <2>1. "substituter" \in Errors \ {"none"}
    BY DEF Errors
  <2> QED
    BY <2>1, GoodThrow
<1>7. ASSUME offering # {}, needed = {} PROVE Good(TryToRun(v1, g), rd, {})
  <2>1. Needed(d) = {}
    BY <1>7 DEF RefGoals
  <2> QED
    BY <1>6, <1>7, <2>1, GoodTryToRun
<1>8. ASSUME offering # {}, needed # {} PROVE Good(Await(Make(v1, needed), g, needed, "refs"), rd, {})
  <2>1. needed \in SUBSET MayAwait(g)
    BY DEF MayAwait
  <2>2. "refs" \in PcsOf(g) \cap Pcs /\ Promised("refs", g) \subseteq needed
    BY DEF PcsOf, Pcs, Promised
  <2>3. \A h \in needed : Kind(h) # "B"
    <3> SUFFICES ASSUME NEW h \in needed PROVE Kind(h) # "B"
      OBVIOUS
    <3>1. PICK x \in Needed(d) : h = S(x[1], x[2])
      BY DEF RefGoals
    <3>2. x[1] \in Drvs /\ x[2] \in Outs[x[1]]
      BY <1>2, OutputPairs, Setting DEF Needed
    <3> QED
      BY <3>1, <3>2, KindsOf
  <2> HIDE DEF needed
  <2> QED
    BY <1>6, <1>8, <2>1, <2>2, <2>3, GoodWait
<1> QED
  BY <1>4, <1>5, <1>7, <1>8, <1>9

LEMMA GoodS ==
    ASSUME NEW v, NEW rd, NEW g \in Goals, set \in Scenarios, Good(v, rd, {g}), Kind(g) = "S",
           Pc(v, g) = "child" => v.child[g] # "none"
    PROVE  Good(WorkS(v, g), rd, {})
<1>1. Inv(v, rd, {g}) /\ Sound(v)
  BY DEF Good
<1>2. /\ v \in WorkerType /\ Pc(v, g) \in PcsOf(g) /\ Pc(v, g) # "none"
      /\ Pc(v, g) # "child" => v.child[g] = "none"
      /\ set.maxSubs \in Nat /\ v.nrSubs \in Nat
  BY <1>1, Current, Typed, Setting
<1>3. Pc(v, g) \in {"new", "refs", "run", "child"} /\ "run" \in PcsOf(g) \cap Pcs
  BY <1>2 DEF PcsOf, Pcs
<1>4. Provides(g) = {Out(g)}
  BY DEF Provides
<1>5. SoundOf(v, g) \/ v.misled
  BY <1>1 DEF Sound
<1>6. CASE Pc(v, g) = "new"
  <2>1. WorkS(v, g) = IF Out(g) \in v.valid THEN AmDone(v, g, "ok") ELSE NextSubstituter(v, g)
    BY <1>6 DEF WorkS
  <2>2. ASSUME Out(g) \in v.valid PROVE Good(AmDone(v, g, "ok"), rd, {})
    <3>1. Provides(g) \subseteq v.valid
      BY <1>4, <2>2
    <3> QED
      BY <1>2, <1>6, <3>1, GoodDone
  <2>3. Good(NextSubstituter(v, g), rd, {})
    BY <1>2, <1>6, GoodNext
  <2> QED
    BY <2>1, <2>2, <2>3
<1>7. CASE Pc(v, g) = "refs"
  <2>1. WorkS(v, g) = TryToRun(v, g)
    BY <1>7 DEF WorkS
  <2> QED
    BY <1>2, <1>7, <2>1, GoodTryToRun
<1>8. CASE Pc(v, g) = "run"
  <2> DEFINE n == IF set.maxSubs = 0 THEN 1 ELSE set.maxSubs
  <2>1. WorkS(v, g) = IF v.nrSubs >= n THEN WaitForBuildSlot(v, g) ELSE ChildStarted(v, g)
    BY <1>8 DEF WorkS
  <2>2. ~v.misled => Needed(Drv(g)) \subseteq v.valid
    BY <1>5, <1>8 DEF SoundOf
  <2>3. ASSUME v.nrSubs >= n PROVE Good(WaitForBuildSlot(v, g), rd, {})
    <3> DEFINE u == WaitForBuildSlot(v, g)
    <3>1. "run" = v.goal[g].pc
      BY <1>8 DEF Pc
    <3>2. Sleeps(u, v, g, "run")
      BY <1>2, <1>3, <3>1, Sleepers
    <3>3. Children(v) # {}
      <4>1. n \in Nat /\ n > 0
        BY <1>2
      <4> HIDE DEF n
      <4> QED
        BY <1>1, <2>3, <4>1, SomeRun
    <3> HIDE DEF u
    <3>4. Good(u, rd, {})
      BY <1>2, <1>3, <1>8, <2>2, <3>2, <3>3, GoodSleep
    <3> QED
      BY <3>4 DEF u
  <2>4. ASSUME ~(v.nrSubs >= n) PROVE Good(ChildStarted(v, g), rd, {})
    <3>1. v.nrSubs < IF set.maxSubs = 0 THEN 1 ELSE set.maxSubs
      BY <1>2, <2>4
    <3> QED
      BY <1>2, <1>8, <2>2, <3>1, GoodStart
  <2> QED
    BY <2>1, <2>3, <2>4
<1>9. CASE Pc(v, g) = "child"
  <2> DEFINE v0 == ChildTerminated(v, {g})
             r1 == [v0.goal[g] EXCEPT !.event = "none", !.pc = "new"]
             v1 == Tweak(v0, g, r1)
             r2 == [v1.goal[g] EXCEPT !.subFailed = TRUE]
             v2 == Tweak(v1, g, r2)
  <2>1. [v0 EXCEPT !.goal[g].event = "none", !.goal[g].pc = "new"] = v1
    BY DEF Tweak
  <2>2. [v1 EXCEPT !.goal[g].subFailed = TRUE] = v2
    BY DEF Tweak
  <2>3. WorkS(v, g) = CASE v.child[g] = "ok" -> AmDone(v1, g, "ok")
                        [] v.child[g] = "gone" -> NextSubstituter(v1, g)
                        [] OTHER -> NextSubstituter(v2, g)
    BY <1>9, <2>1, <2>2 DEF WorkS
  <2>4. Good(v0, rd, {g}) /\ v0.child[g] = "none" /\ v0.valid = v.valid /\ v0.misled = v.misled
    BY <1>9, GoodFreed
  <2> HIDE DEF v0
  <2>5. /\ Good(v1, rd, {g}) /\ v1.child[g] = "none" /\ v1.valid = v.valid /\ v1.misled = v.misled
        /\ Pc(v1, g) = "new"
    <3>1. v0.goal[g] \in GoalType
      BY <2>4, Current DEF Good
    <3>2. r1 \in GoalType /\ r1.pc = "new" /\ r1.waitees = v0.goal[g].waitees
          /\ r1.waiters = v0.goal[g].waiters /\ r1.nrFailed = v0.goal[g].nrFailed
      BY <3>1 DEF GoalType, Events, Pcs
    <3> HIDE DEF r1
    <3> QED
      BY <2>4, <3>2, GoodTweak
  <2> HIDE DEF v1
  <2>6. Good(v2, rd, {g}) /\ v2.child[g] = "none" /\ Pc(v2, g) = "new"
    <3>1. v1.goal[g] \in GoalType
      BY <2>5, Current DEF Good
    <3>2. r2 \in GoalType /\ r2.pc = v1.goal[g].pc /\ r2.waitees = v1.goal[g].waitees
          /\ r2.waiters = v1.goal[g].waiters /\ r2.nrFailed = v1.goal[g].nrFailed
      BY <3>1 DEF GoalType
    <3> HIDE DEF r2
    <3> QED
      BY <2>5, <3>2, GoodTweak DEF Pc
  <2> HIDE DEF v2
  <2>7. ASSUME v.child[g] = "ok" PROVE Good(AmDone(v1, g, "ok"), rd, {})
    <3>1. ~v1.misled => Provides(g) \subseteq v1.valid
      BY <1>4, <1>5, <2>5, <2>7 DEF SoundOf
    <3> QED
      BY <2>5, <3>1, GoodDone
  <2>8. Good(NextSubstituter(v1, g), rd, {}) /\ Good(NextSubstituter(v2, g), rd, {})
    BY <2>5, <2>6, GoodNext
  <2>9. CASE v.child[g] = "ok"
    BY <2>3, <2>7, <2>9
  <2>10. CASE v.child[g] # "ok"
    BY <2>3, <2>8, <2>10
  <2> QED
    BY <2>9, <2>10
<1> QED
  BY <1>3, <1>6, <1>7, <1>8, <1>9

LEMMA GoodWork ==
    ASSUME NEW v, NEW rd, NEW g \in Goals, set \in Scenarios, Good(v, rd, {g}),
           Pc(v, g) = "child" => v.child[g] # "none"
    PROVE  Good(Work(v, g), rd, {})
<1>1. CASE Kind(g) = "T"
  <2>1. Work(v, g) = WorkT(v, g)
    BY <1>1 DEF Work
  <2> QED
    BY <1>1, <2>1, GoodT
<1>2. CASE Kind(g) = "D"
  <2>1. Work(v, g) = WorkD(v, g)
    BY <1>2 DEF Work
  <2> QED
    BY <1>2, <2>1, GoodD
<1>3. CASE Kind(g) = "R"
  <2>1. Work(v, g) = WorkR(v, g)
    BY <1>3 DEF Work
  <2> QED
    BY <1>3, <2>1, GoodR
<1>4. CASE Kind(g) = "B"
  <2>1. Work(v, g) = WorkB(v, g)
    BY <1>4 DEF Work
  <2> QED
    BY <1>4, <2>1, GoodB
<1>5. CASE Kind(g) = "S"
  <2>1. Work(v, g) = WorkS(v, g)
    BY <1>5 DEF Work
  <2> QED
    BY <1>5, <2>1, GoodS
<1> QED
  BY <1>1, <1>2, <1>3, <1>4, <1>5, KindsOnly

-----------------------------------------------------------------------------
(* The goals that nobody owns                                              *)

Step(v, X) == UNION {{g} \cup Owns(v, g) : g \in X}
Closed(v, X) == \A g \in X : Owns(v, g) \subseteq X

LEMMA InStep ==
    ASSUME NEW v, NEW X
    PROVE  /\ X \subseteq Step(v, X) /\ \A g \in X : Owns(v, g) \subseteq Step(v, X)
           /\ Closed(v, X) => Step(v, X) = X
<1>1. \A x : x \in Step(v, X) <=> \E g \in X : x \in {g} \cup Owns(v, g)
  BY DEF Step
<1> QED
  BY <1>1 DEF Closed

(* The recursive function of Owned exists.                                 *)
LEMMA Reaches ==
    ASSUME NEW v, NEW roots, NEW N \in Nat
    PROVE  \E f : f = [n \in 0..N |-> IF n = 0 THEN roots ELSE Step(v, f[n - 1])]
<1> DEFINE P(m) == \E f : f = [n \in 0..m |-> IF n = 0 THEN roots ELSE Step(v, f[n - 1])]
           X == {m \in Nat : ~P(m)}
<1>1. SUFFICES ASSUME X # {} PROVE FALSE
  BY <1>1
<1>2. X \in SUBSET Nat
  OBVIOUS
<1>3. \A m \in Nat : m \in X <=> ~P(m)
  OBVIOUS
<1> HIDE DEF X
<1>4. PICK m \in X : \A y \in X : m <= y
  BY <1>1, <1>2, Least
<1>5. m \in Nat
  BY <1>2
<1>6. CASE m = 0
  <2> DEFINE f == [n \in 0..0 |-> roots]
  <2>1. f = [n \in 0..0 |-> IF n = 0 THEN roots ELSE Step(v, f[n - 1])]
    OBVIOUS
  <2>2. P(0)
    BY <2>1
  <2> QED
    BY <1>3, <1>4, <1>6, <2>2
<1>7. CASE m # 0
  <2> DEFINE k == m - 1
  <2>1. k \in Nat /\ m = k + 1 /\ ~(m <= k)
    BY <1>5, <1>7
  <2>2. P(k)
    BY <1>3, <1>4, <2>1
  <2> HIDE DEF k
  <2>3. PICK f : f = [n \in 0..k |-> IF n = 0 THEN roots ELSE Step(v, f[n - 1])]
    BY <2>2
  <2> DEFINE e == [n \in 0..m |-> IF n = m THEN Step(v, f[k]) ELSE f[n]]
  <2>4. ASSUME NEW n \in 0..m PROVE e[n] = IF n = 0 THEN roots ELSE Step(v, e[n - 1])
    <3>1. CASE n = m
      <4>1. e[n] = Step(v, f[k]) /\ n # 0 /\ n - 1 = k /\ k \in 0..m /\ k # m
        BY <1>5, <1>7, <2>1, <3>1
      <4>2. e[k] = f[k]
        BY <4>1
      <4> QED
        BY <4>1, <4>2
    <3>2. CASE n = 0
      <4>1. 0 \in 0..k /\ n # m /\ 0 \in 0..m
        BY <1>7, <2>1, <3>2
      <4>2. f[0] = roots
        BY <2>3, <4>1
      <4> QED
        BY <3>2, <4>1, <4>2
    <3>3. CASE n # m /\ n # 0
      <4>1. n \in 0..k /\ n - 1 \in 0..m /\ n - 1 # m
        BY <2>1, <3>3
      <4>2. f[n] = Step(v, f[n - 1])
        BY <2>3, <3>3, <4>1
      <4>3. e[n] = f[n] /\ e[n - 1] = f[n - 1]
        BY <3>3, <4>1
      <4> QED
        BY <3>3, <4>2, <4>3
    <3> QED
      BY <3>1, <3>2, <3>3
  <2>5. e = [n \in 0..m |-> IF n = 0 THEN roots ELSE Step(v, e[n - 1])]
    <3>1. e = [n \in 0..m |-> e[n]]
      OBVIOUS
    <3> HIDE DEF e
    <3> QED
      BY <2>4, <3>1
  <2>6. P(m)
    BY <2>5
  <2> QED
    BY <1>3, <1>4, <1>5, <2>6
<1> QED
  BY <1>6, <1>7

LEMMA OwnedClosed ==
    ASSUME NEW v, NEW roots \in SUBSET Goals, \A g \in Goals : Owns(v, g) \subseteq Goals
    PROVE  roots \subseteq Owned(v, roots) /\ Closed(v, Owned(v, roots)) /\ Owned(v, roots) \subseteq Goals
<1> DEFINE N == Cardinality(Goals)
           reach == CHOOSE f : f = [n \in 0..N |-> IF n = 0 THEN roots ELSE Step(v, f[n - 1])]
<1>1. N \in Nat /\ IsFiniteSet(Goals)
  BY WorkerAssumption, FS_CardinalityType
<1>2. Owned(v, roots) = reach[N]
  BY DEF Owned, Step
<1>3. reach = [n \in 0..N |-> IF n = 0 THEN roots ELSE Step(v, reach[n - 1])]
  BY <1>1, Reaches
<1> HIDE DEF N, reach
<1>4. reach[0] = roots
  BY <1>1, <1>3
<1>5. \A n \in Nat : n < N => reach[n + 1] = Step(v, reach[n])
  BY <1>1, <1>3
<1> DEFINE P(n) == /\ roots \subseteq reach[n] /\ reach[n] \subseteq Goals
                   /\ Closed(v, reach[n]) \/ Cardinality(reach[n]) >= n
           X == {n \in 0..N : ~P(n)}
<1>6. P(0)
  <2>1. IsFiniteSet(roots)
    BY <1>1, FS_Subset
  <2> QED
    BY <1>4, <2>1, FS_CardinalityType
<1>7. ASSUME NEW n \in Nat, n < N, P(n) PROVE P(n + 1)
  <2> DEFINE A == reach[n]
             E == reach[n + 1]
  <2>1. E = Step(v, A) /\ roots \subseteq A /\ A \subseteq Goals /\ (Closed(v, A) \/ Cardinality(A) >= n)
    BY <1>5, <1>7
  <2> HIDE DEF A, E
  <2>2. A \subseteq E /\ (Closed(v, A) => E = A) /\ (E = A => Closed(v, A))
    BY <2>1, InStep DEF Closed
  <2>3. E \subseteq Goals
    <3>1. \A x : x \in E => \E g \in A : x \in {g} \cup Owns(v, g)
      BY <2>1 DEF Step
    <3> QED
      BY <2>1, <3>1
  <2>4. CASE E = A
    BY <2>1, <2>2, <2>3, <2>4 DEF A, E
  <2>5. CASE E # A
    <3>1. IsFiniteSet(E) /\ IsFiniteSet(A)
      BY <1>1, <2>1, <2>3, FS_Subset
    <3>2. Cardinality(A) <= Cardinality(E) /\ Cardinality(A) # Cardinality(E)
      BY <2>2, <2>5, <3>1, FS_Subset
    <3>3. Cardinality(A) \in Nat /\ Cardinality(E) \in Nat
      BY <3>1, FS_CardinalityType
    <3>4. Cardinality(A) >= n
      BY <2>1, <2>2, <2>5
    <3>5. Cardinality(E) >= n + 1
      BY <3>2, <3>3, <3>4
    <3> QED
      BY <2>1, <2>2, <2>3, <3>5 DEF E
  <2> QED
    BY <2>4, <2>5
<1> HIDE DEF P
<1>8. P(N)
  <2>1. SUFFICES ASSUME X # {} PROVE FALSE
    BY <1>1, <2>1
  <2>2. X \in SUBSET Nat /\ \A n \in X : n \in 0..N /\ ~P(n)
    BY <1>1
  <2>3. \A n \in 0..N : ~P(n) => n \in X
    OBVIOUS
  <2> HIDE DEF X
  <2>4. PICK m \in X : \A y \in X : m <= y
    BY <2>1, <2>2, Least
  <2>5. m \in Nat /\ m <= N /\ m # 0
    BY <1>1, <1>6, <2>2
  <2> DEFINE k == m - 1
  <2>6. k \in Nat /\ k < N /\ k + 1 = m /\ ~(m <= k) /\ k \in 0..N
    BY <1>1, <2>5
  <2> HIDE DEF k
  <2>7. P(k)
    BY <2>3, <2>4, <2>6
  <2>8. P(m)
    BY <1>7, <2>6, <2>7
  <2> QED
    BY <2>2, <2>8
<1>9. Closed(v, reach[N])
  <2>1. /\ roots \subseteq reach[N] /\ reach[N] \subseteq Goals
        /\ Closed(v, reach[N]) \/ Cardinality(reach[N]) >= N
    BY <1>8 DEF P
  <2>2. CASE Cardinality(reach[N]) >= N
    <3>1. Cardinality(reach[N]) <= N /\ IsFiniteSet(reach[N])
      BY <1>1, <2>1, FS_Subset DEF N
    <3>2. Cardinality(reach[N]) \in Nat
      BY <3>1, FS_CardinalityType
    <3>3. Cardinality(reach[N]) = N
      BY <1>1, <2>2, <3>1, <3>2
    <3>4. reach[N] = Goals
      BY <1>1, <2>1, <3>3, FS_Subset DEF N
    <3> QED
      BY <3>4 DEF Closed
  <2> QED
    BY <2>1, <2>2
<1> QED
  BY <1>2, <1>8, <1>9 DEF P

LEMMA GoodSweep ==
    ASSUME NEW v, NEW rd, NEW roots \in SUBSET Goals, NEW V \in SUBSET Outputs, set \in Scenarios,
           Good(v, rd, {}), v.top \subseteq roots, rd \subseteq roots
    PROVE  /\ Good(Sweep(v, roots, V), rd, {}) /\ Sweep(v, roots, V).top = v.top
           /\ Live(Sweep(v, roots, V)) \subseteq Live(v)
<1> DEFINE owned == Owned(v, roots)
           dead == Live(v) \ owned
           killed == dead \cap Children(v)
           v1 == IF killed = {} THEN v ELSE ChildTerminated(v, killed)
           goal == [h \in Goals |-> IF h \in dead THEN NoGoal ELSE LeftBy(v.goal[h], v.goal[h].waiters \ dead)]
           awake == v1.awake \ dead
           wanting == v1.wanting \ dead
           awhile == v1.awhile \ dead
           valid == v1.valid \cup V
           u == [v1 EXCEPT !.goal = goal, !.awake = awake, !.wanting = wanting, !.awhile = awhile,
                           !.valid = valid]
<1>1. Inv(v, rd, {}) /\ Sound(v)
  BY DEF Good
<1>2. /\ v \in WorkerType /\ \A h \in Goals : Pc(v, h) \in PcsOf(h)
      /\ Linked(v) /\ Reasons(v, rd, {}) /\ HasReason(v, rd, {}) /\ Slots(v, {}) /\ Kept(v)
  BY <1>1 DEF Inv
<1>3. /\ \A h \in Goals : v.goal[h].waiters \cup v.goal[h].waitees \subseteq Live(v)
      /\ \A h, x \in Goals : x \in v.goal[h].waitees <=> h \in v.goal[x].waiters
      /\ \A h \in Goals : v.goal[h].waitees \subseteq MayAwait(h)
      /\ Live(v) \subseteq Goals
      /\ v.awake \cup v.wanting \cup v.awhile \cup v.top \cup rd \subseteq Live(v)
  BY <1>2 DEF Linked, Live, Reasons
<1>4. /\ v.goal \in [Goals -> GoalType] /\ \A h \in Goals : v.goal[h] \in GoalType
  BY <1>2, Typed
<1>5. \A h \in Goals : Owns(v, h) \subseteq Goals /\ v.goal[h].waitees \subseteq Owns(v, h)
  <2> SUFFICES ASSUME NEW h \in Goals
               PROVE  Owns(v, h) \subseteq Goals /\ v.goal[h].waitees \subseteq Owns(v, h)
    OBVIOUS
  <2>1. OutputGoals(Drv(h)) \subseteq Goals /\ InputGoals(Drv(h)) \subseteq Goals
    BY Setting, KindsOnly
  <2>2. v.goal[h].waitees \subseteq Goals
    BY <1>3
  <2> QED
    BY <2>1, <2>2 DEF Owns
<1>6. roots \subseteq owned /\ \A h \in owned : h \in Goals /\ v.goal[h].waitees \subseteq owned
  BY <1>5, OwnedClosed DEF Closed
<1>7. Sweep(v, roots, V) = u
  <2>1. Sweep(v, roots, V) = [v1 EXCEPT !.goal = goal, !.awake = @ \ dead, !.wanting = @ \ dead,
                                        !.awhile = @ \ dead, !.valid = @ \cup V]
    BY DEF Sweep, LeftBy
  <2> HIDE DEF v1, goal, dead
  <2> QED
    BY <2>1
<1> HIDE DEF owned
<1>8. /\ v1 \in WorkerType /\ v1.top = v.top /\ v1.awhile = v.awhile
      /\ v1.code = v.code /\ v1.valid = v.valid /\ v1.error = v.error /\ v1.misled = v.misled
      /\ \/ killed = {} /\ v1.awake = v.awake /\ v1.wanting = v.wanting
         \/ v1.awake = v.awake \cup v.wanting /\ v1.wanting = {}
      /\ \A h \in Goals : v1.child[h] = IF h \in killed THEN "none" ELSE v.child[h]
      /\ v1.nrBuilds = Cardinality(Running(v1, "B")) /\ v1.nrBuilds <= v.nrBuilds
      /\ v1.nrSubs = Cardinality(Running(v1, "S")) /\ v1.nrSubs <= v.nrSubs
  <2>1. v.nrBuilds = Cardinality(Running(v, "B")) /\ v.nrSubs = Cardinality(Running(v, "S"))
    BY <1>2 DEF Slots
  <2>2. CASE killed = {}
    <3>1. v1 = v
      BY <2>2
    <3>2. v.nrBuilds \in Nat /\ v.nrSubs \in Nat
      BY <1>2, Typed
    <3> HIDE DEF v1, killed
    <3> QED
      BY <1>2, <2>1, <2>2, <3>1, <3>2
  <2>3. CASE killed # {}
    <3>1. v1 = ChildTerminated(v, killed) /\ killed \in SUBSET Children(v)
      BY <2>3
    <3> HIDE DEF v1, killed
    <3> QED
      BY <1>2, <2>1, <3>1, Freed
  <2> QED
    BY <2>2, <2>3
<1> HIDE DEF v1
<1>9. \A h \in Goals : /\ h \in dead => goal[h] = NoGoal
                       /\ h \notin dead => goal[h] = LeftBy(v.goal[h], v.goal[h].waiters \ dead)
  OBVIOUS
<1>10. goal = [h \in Goals |-> goal[h]]
  OBVIOUS
<1>11. \A h : /\ h \in dead <=> h \in Live(v) /\ h \notin owned
              /\ h \in killed <=> h \in dead /\ h \in Children(v)
  OBVIOUS
<1> HIDE DEF goal, killed, dead
<1>12. ASSUME NEW h \in Goals \ dead
       PROVE  /\ goal[h] \in GoalType /\ goal[h].pc = v.goal[h].pc /\ goal[h].event = v.goal[h].event
              /\ goal[h].waitees = v.goal[h].waitees /\ goal[h].waiters = v.goal[h].waiters \ dead
              /\ goal[h].nrFailed = v.goal[h].nrFailed
  <2> DEFINE W == v.goal[h].waiters \ dead
  <2>1. W \in SUBSET Goals /\ goal[h] = LeftBy(v.goal[h], W) /\ v.goal[h] \in GoalType
    BY <1>4, <1>9 DEF GoalType
  <2>2. W = v.goal[h].waiters \ dead
    OBVIOUS
  <2> HIDE DEF W
  <2> QED
    BY <2>1, <2>2, WithLeftBy
<1>13. \A h \in dead : h \in Goals /\ goal[h] = NoGoal
  BY <1>3, <1>9, <1>11
<1>14. goal \in [Goals -> GoalType]
  <2>1. \A h \in Goals : goal[h] \in GoalType
    BY <1>12, <1>13, TheNewGoal
  <2> QED
    BY <1>10, <2>1
<1>15. /\ awake \subseteq Goals /\ wanting \subseteq Goals /\ awhile \subseteq Goals /\ valid \subseteq Outputs
       /\ awake = v1.awake \ dead /\ wanting = v1.wanting \ dead /\ awhile = v.awhile \ dead
       /\ valid = v.valid \cup V
  BY <1>8, Typed
<1> HIDE DEF awake, wanting, awhile, valid
<1>16. /\ u \in WorkerType /\ u.goal = goal /\ u.awake = awake /\ u.wanting = wanting /\ u.awhile = awhile
       /\ u.valid = valid /\ u.top = v1.top /\ u.child = v1.child /\ u.nrBuilds = v1.nrBuilds
       /\ u.nrSubs = v1.nrSubs /\ u.code = v1.code /\ u.error = v1.error /\ u.misled = v1.misled
  BY <1>8, <1>14, <1>15 DEF WorkerType
<1> HIDE DEF u
<1>17. \A h \in Goals \ dead :
         /\ Pc(u, h) = Pc(v, h) /\ u.goal[h].event = v.goal[h].event
         /\ u.goal[h].waitees = v.goal[h].waitees /\ u.goal[h].waiters = v.goal[h].waiters \ dead
         /\ u.goal[h].nrFailed = v.goal[h].nrFailed
  BY <1>12, <1>16 DEF Pc
<1>18. \A h \in dead : /\ Pc(u, h) = "none" /\ u.goal[h].waitees = {} /\ u.goal[h].waiters = {}
                       /\ h \in Goals
  BY <1>13, <1>16, TheNewGoal DEF Pc
<1>19. /\ u.awake \cup u.wanting \cup u.awhile = (v.awake \cup v.wanting \cup v.awhile) \ dead
       /\ v.awake \ dead \subseteq u.awake /\ u.awake \subseteq v.awake \cup v.wanting
       /\ u.wanting \subseteq v.wanting /\ u.awhile = v.awhile \ dead /\ u.awake \cap u.wanting = {}
  <2>1. v.awake \cap v.wanting = {}
    BY <1>2 DEF Reasons
  <2> QED
    BY <1>8, <1>15, <1>16, <2>1
<1>20. /\ u.top = v.top /\ u.error = v.error
       /\ \A h \in Goals : u.child[h] = IF h \in killed THEN "none" ELSE v.child[h]
  BY <1>8, <1>16
<1>21. rd \cap dead = {} /\ v.top \cap dead = {}
  BY <1>6, <1>11
<1>22. Live(u) = Live(v) \ dead
  BY <1>17, <1>18 DEF Live
<1>23. \A h \in Goals \ dead : v.goal[h].waitees \cap dead = {}
  <2> SUFFICES ASSUME NEW h \in Goals \ dead, NEW x \in v.goal[h].waitees PROVE x \notin dead
    OBVIOUS
  <2>1. h \in Live(v)
    BY <1>2, Idle
  <2>2. h \in owned
    BY <1>11, <2>1
  <2> QED
    BY <1>6, <1>11, <2>2
<1>24. Linked(u)
  <2>1. \A h \in Goals : u.goal[h].waiters \cup u.goal[h].waitees \subseteq Live(u)
    BY <1>3, <1>17, <1>18, <1>22, <1>23
  <2>2. \A h \in Goals : u.goal[h].waitees \subseteq MayAwait(h)
    BY <1>3, <1>17, <1>18
  <2>3. ASSUME NEW h \in Goals, NEW x \in Goals
        PROVE  x \in u.goal[h].waitees <=> h \in u.goal[x].waiters
    <3>1. CASE h \in dead /\ x \in dead
      BY <1>18, <3>1
    <3>2. CASE h \in dead /\ x \notin dead
      BY <1>17, <1>18, <3>2
    <3>3. CASE h \notin dead /\ x \in dead
      BY <1>17, <1>18, <1>23, <3>3
    <3>4. CASE h \notin dead /\ x \notin dead
      BY <1>3, <1>17, <3>4
    <3> QED
      BY <3>1, <3>2, <3>3, <3>4
  <2> QED
    BY <2>1, <2>2, <2>3 DEF Linked
<1>25. Reasons(u, rd, {})
  <2>1. u.awake \cup u.wanting \cup u.awhile \cup u.top \cup rd \subseteq Live(u)
    BY <1>3, <1>19, <1>20, <1>21, <1>22
  <2>2. /\ rd \cap (v.awake \cup v.wanting \cup v.awhile) = {}
        /\ v.awake \cap (v.wanting \cup v.awhile) = {} /\ v.wanting \cap v.awhile = {}
        /\ \A g \in v.awake \cup v.wanting \cup v.awhile \cup rd : v.goal[g].waitees = {}
        /\ \A g \in v.awake \cup rd : Pc(v, g) = "child" => v.goal[g].event # "none"
        /\ \A g \in v.wanting \cup v.awhile : Pc(v, g) # "child"
    BY <1>2 DEF Reasons
  <2>3. /\ rd \cap (u.awake \cup u.wanting \cup u.awhile) = {}
        /\ u.awake \cap (u.wanting \cup u.awhile) = {} /\ u.wanting \cap u.awhile = {}
    BY <1>19, <2>2
  <2>4. \A h \in u.awake \cup u.wanting \cup u.awhile \cup rd :
            h \in Goals \ dead /\ h \in v.awake \cup v.wanting \cup v.awhile \cup rd
    BY <1>3, <1>19, <1>21
  <2>5. \A h \in u.awake \cup u.wanting \cup u.awhile \cup rd : u.goal[h].waitees = {}
    BY <1>17, <2>2, <2>4
  <2>6. \A h \in u.awake \cup rd : Pc(u, h) = "child" => u.goal[h].event # "none"
    <3>1. \A h \in u.awake \cup rd : h \in v.awake \cup v.wanting \cup rd
      BY <1>19
    <3> QED
      BY <1>17, <2>2, <2>4, <3>1
  <2>7. \A h \in u.wanting \cup u.awhile : Pc(u, h) # "child"
    <3>1. \A h \in u.wanting \cup u.awhile : h \in v.wanting \cup v.awhile
      BY <1>19
    <3> QED
      BY <1>17, <2>2, <2>4, <3>1
  <2> QED
    BY <2>1, <2>3, <2>5, <2>6, <2>7 DEF Reasons
<1>26. HasReason(u, rd, {})
  <2>1. ASSUME v.error = "none", NEW h \in Live(u)
        PROVE  \/ h \in u.awake \cup u.wanting \cup u.awhile \cup rd
               \/ u.goal[h].waitees # {} \/ u.child[h] # "none"
    <3>1. h \in Live(v) /\ h \in Goals \ dead /\ h \notin killed
      BY <1>3, <1>11, <1>22, <2>1
    <3>2. \/ h \in v.awake \cup v.wanting \cup v.awhile \cup rd
          \/ v.goal[h].waitees # {} \/ v.child[h] # "none"
      BY <1>2, <2>1, <3>1 DEF HasReason
    <3> QED
      BY <1>17, <1>19, <1>20, <3>1, <3>2
  <2> QED
    BY <1>20, <2>1 DEF HasReason
<1>27. Slots(u, {})
  <2>1. \A h \in Goals : /\ v.child[h] # "none" => Pc(v, h) = "child" /\ v.goal[h].waitees = {}
                         /\ Pc(v, h) = "child" => v.child[h] # "none"
                         /\ Pc(v, h) = "start" => set.maxJobs > 0
    BY <1>2 DEF Slots
  <2>2. ASSUME NEW h \in Goals
        PROVE  /\ u.child[h] # "none" => Pc(u, h) = "child" /\ u.goal[h].waitees = {}
               /\ Pc(u, h) = "child" => u.child[h] # "none"
               /\ Pc(u, h) = "start" => set.maxJobs > 0
    <3>1. CASE h \in dead
      <4>1. u.child[h] = "none"
        BY <1>11, <1>20, <3>1 DEF Children
      <4> QED
        BY <1>18, <3>1, <4>1
    <3>2. CASE h \notin dead
      BY <1>11, <1>17, <1>20, <2>1, <3>2
    <3> QED
      BY <3>1, <3>2
  <2>3. u.nrBuilds = Cardinality(Running(u, "B")) /\ u.nrSubs = Cardinality(Running(u, "S"))
    <3>1. Running(u, "B") = Running(v1, "B") /\ Running(u, "S") = Running(v1, "S")
      BY <1>16 DEF Running
    <3> QED
      BY <1>8, <1>16, <3>1
  <2>4. u.nrBuilds <= set.maxJobs /\ (u.nrSubs <= 1 \/ u.nrSubs <= set.maxSubs)
    <3>1. v.nrBuilds <= set.maxJobs /\ (v.nrSubs <= 1 \/ v.nrSubs <= set.maxSubs)
      BY <1>2 DEF Slots
    <3>2. u.nrBuilds \in Nat /\ v.nrBuilds \in Nat /\ u.nrSubs \in Nat /\ v.nrSubs \in Nat
          /\ set.maxJobs \in Nat /\ set.maxSubs \in Nat
      BY <1>2, <1>16, Typed, Setting
    <3>3. u.nrBuilds <= v.nrBuilds /\ u.nrSubs <= v.nrSubs
      BY <1>8, <1>16
    <3> QED
      BY <3>1, <3>2, <3>3
  <2>5. u.wanting # {} => Children(u) # {}
    <3>1. SUFFICES ASSUME u.wanting # {} PROVE Children(u) # {}
      OBVIOUS
    <3>2. killed = {} /\ v.wanting # {}
      BY <1>8, <1>15, <1>16, <3>1
    <3>3. Children(v) # {}
      BY <1>2, <3>2 DEF Slots
    <3> QED
      BY <1>20, <3>2, <3>3 DEF Children
  <2> QED
    BY <2>2, <2>3, <2>4, <2>5 DEF Slots
<1>28. Kept(u)
  <2>1. SUFFICES ASSUME set.keepGoing PROVE \A h \in Live(u) : h \in u.top \/ u.goal[h].waiters # {}
    BY <2>1 DEF Kept
  <2>2. dead = {}
    <3>1. SUFFICES ASSUME dead # {} PROVE FALSE
      BY <3>1
    <3>2. dead \in SUBSET Goals
      BY <1>18
    <3>3. PICK h \in dead : \A g \in dead : h \notin MayAwait(g)
      BY <3>1, <3>2, NoCircle
    <3>4. h \in Goals /\ h \in Live(v) /\ h \notin owned /\ h \notin v.top
      BY <1>11, <1>21, <3>2, <3>3
    <3>5. PICK p : p \in v.goal[h].waiters
      BY <1>2, <2>1, <3>4 DEF Kept
    <3>6. p \in Live(v) /\ p \in Goals /\ h \in v.goal[p].waitees /\ h \in MayAwait(p)
      BY <1>3, <3>4, <3>5
    <3>7. p \in owned
      BY <1>11, <3>3, <3>6
    <3> QED
      BY <1>6, <3>4, <3>6, <3>7
  <2> QED
    BY <1>2, <1>3, <1>17, <1>20, <1>22, <2>1, <2>2 DEF Kept
<1>29. \A h \in Goals : Pc(u, h) \in PcsOf(h)
  <2>1. \A h \in Goals : "none" \in PcsOf(h)
    BY DEF PcsOf
  <2> QED
    BY <1>2, <1>17, <1>18, <2>1
<1>30. Inv(u, rd, {})
  BY <1>16, <1>24, <1>25, <1>26, <1>27, <1>28, <1>29 DEF Inv
<1>31. Sound(u)
  <2>1. SUFFICES ASSUME ~u.misled, NEW h \in Goals PROVE SoundOf(u, h)
    BY <1>1, <1>8, <1>16, <2>1 DEF Sound
  <2>2. SoundOf(v, h) /\ v.valid \subseteq u.valid /\ u.code = v.code
    BY <1>1, <1>8, <1>15, <1>16, <2>1 DEF Sound
  <2>3. u.child[h] \in {v.child[h], "none"}
    BY <1>20
  <2>4. CASE h \in dead
    <3>1. Pc(u, h) = "none"
      BY <1>18, <2>4
    <3>2. Promised(Pc(u, h), h) = {}
      BY <3>1 DEF Promised
    <3> QED
      BY <2>2, <2>3, <3>1, <3>2 DEF SoundOf
  <2>5. CASE h \notin dead
    BY <1>17, <2>2, <2>3, <2>5, SoundStill
  <2> QED
    BY <2>4, <2>5
<1> QED
  BY <1>7, <1>20, <1>22, <1>30, <1>31 DEF Good

-----------------------------------------------------------------------------
(* The steps of the specification                                          *)

LEMMA InitHolds == Init => WorkerInv
<1> SUFFICES ASSUME Init PROVE WorkerInv
  OBVIOUS
<1> DEFINE goal == [g \in Goals |-> IF g \in set.top THEN NewGoal ELSE NoGoal]
<1>1. /\ set \in Scenarios /\ foreign = set.foreign /\ round = {} /\ held = {}
      /\ w.goal = goal /\ w.awake = set.top /\ w.wanting = {} /\ w.awhile = {} /\ w.top = set.top
      /\ w.child = [g \in Goals |-> "none"] /\ w.nrBuilds = 0 /\ w.nrSubs = 0
      /\ w.code = [g \in Goals |-> "busy"] /\ w.valid = set.stock /\ w.error = "none" /\ w.misled = FALSE
      /\ w = [goal |-> goal, awake |-> set.top, wanting |-> {}, awhile |-> {}, top |-> set.top,
              child |-> [g \in Goals |-> "none"], nrBuilds |-> 0, nrSubs |-> 0,
              code |-> [g \in Goals |-> "busy"], valid |-> set.stock, error |-> "none", misled |-> FALSE]
  BY DEF Init
<1>2. /\ set.top \subseteq Goals /\ \A g \in set.top : Kind(g) \in {"T", "S"}
      /\ set.stock \subseteq Outputs /\ set.foreign \subseteq Drvs /\ set.maxJobs \in Nat
  BY <1>1, WorkerAssumption
<1>3. goal \in [Goals -> GoalType] /\ \A g \in Goals : goal[g] = IF g \in set.top THEN NewGoal ELSE NoGoal
  BY TheNewGoal
<1> HIDE DEF goal
<1>4. w \in WorkerType
  <2>1. "none" \in ChildStates /\ "busy" \in Codes /\ "none" \in Errors
    BY DEF ChildStates, Codes, Errors
  <2> QED
    BY <1>1, <1>2, <1>3, <2>1 DEF WorkerType
<1>5. \A g \in Goals : /\ Pc(w, g) = IF g \in set.top THEN "new" ELSE "none"
                       /\ w.goal[g].waitees = {} /\ w.goal[g].waiters = {}
  BY <1>1, <1>3, TheNewGoal DEF Pc
<1>6. Live(w) = set.top
  BY <1>2, <1>5 DEF Live
<1>7. Running(w, "B") = {} /\ Running(w, "S") = {} /\ \A g \in Goals : w.child[g] = "none"
  BY <1>1 DEF Running
<1>8. Linked(w)
  BY <1>5 DEF Linked
<1>9. Reasons(w, {}, {})
  BY <1>1, <1>2, <1>5, <1>6 DEF Reasons
<1>10. HasReason(w, {}, {})
  BY <1>1, <1>6 DEF HasReason
<1>11. Slots(w, {})
  <2>1. Cardinality({}) = 0
    BY FS_EmptySet
  <2>2. \A g \in Goals : Pc(w, g) # "child" /\ Pc(w, g) # "start"
    BY <1>5
  <2>3. w.nrBuilds = Cardinality(Running(w, "B")) /\ w.nrSubs = Cardinality(Running(w, "S"))
    BY <1>1, <1>7, <2>1
  <2>4. w.nrBuilds <= set.maxJobs /\ w.nrSubs <= 1
    BY <1>1, <1>2
  <2>5. w.wanting = {}
    BY <1>1
  <2> QED
    BY <1>7, <2>2, <2>3, <2>4, <2>5 DEF Slots
<1>12. Kept(w)
  BY <1>1, <1>6 DEF Kept
<1>13. \A g \in Goals : Pc(w, g) \in PcsOf(g)
  BY <1>5 DEF PcsOf
<1>14. Sound(w)
  <2> SUFFICES ASSUME NEW g \in Goals PROVE SoundOf(w, g)
    BY <1>1 DEF Sound
  <2>1. w.code[g] = "busy" /\ w.child[g] = "none" /\ Pc(w, g) \in {"new", "none"}
    BY <1>1, <1>5
  <2>2. Promised(Pc(w, g), g) = {}
    BY <2>1 DEF Promised
  <2>3. Kind(g) = "B" => Pc(w, g) = "none"
    BY <1>2, <1>5
  <2> QED
    BY <2>1, <2>2, <2>3 DEF SoundOf
<1> QED
  BY <1>1, <1>2, <1>4, <1>8, <1>9, <1>10, <1>11, <1>12, <1>13, <1>14 DEF WorkerInv, Inv

(* The scenario never changes, so the invariant of w' may be read with it. *)
LEMMA Afterwards ==
    ASSUME set' = set, set \in Scenarios, foreign' \subseteq Drvs, round' \subseteq held',
           held' \subseteq Goals, Good(w', round', {})
    PROVE  WorkerInv'
<1>1. /\ w' \in WorkerType /\ \A h \in Goals : Pc(w', h) \in PcsOf(h)
      /\ Linked(w') /\ Reasons(w', round', {}) /\ HasReason(w', round', {}) /\ Slots(w', {}) /\ Kept(w')
      /\ Sound(w')
  BY DEF Good, Inv
<1>2. \A d : Needed(d)' = Needed(d) /\ InputGoals(d)' = InputGoals(d)
  BY DEF Needed, InputGoals
<1>3. \A g : MayAwait(g)' = MayAwait(g) /\ Provides(g)' = Provides(g)
  BY <1>2 DEF MayAwait, RefGoals, Provides
<1>4. \A pc, g : Promised(pc, g)' = Promised(pc, g)
  BY <1>2 DEF Promised, RefGoals
<1>5. Linked(w)'
  BY <1>1, <1>3 DEF Linked
<1>6. Slots(w, {})'
  BY <1>1 DEF Slots
<1>7. Kept(w)'
  BY <1>1 DEF Kept
<1>8. Sound(w)'
  <2>1. SUFFICES ASSUME ~w'.misled, NEW g \in Goals PROVE SoundOf(w, g)'
    BY <1>1, <2>1 DEF Sound
  <2>2. SoundOf(w', g)
    BY <1>1, <2>1 DEF Sound
  <2> QED
    BY <1>2, <1>3, <1>4, <2>2 DEF SoundOf
<1>9. Inv(w, round, {})'
  BY <1>1, <1>5, <1>6, <1>7 DEF Inv
<1> QED
  BY <1>8, <1>9 DEF WorkerInv

LEMMA Joiners ==
    ASSUME NEW v, NEW roots PROVE Joined(v, roots) \subseteq Outputs
<1>1. \A g \in Goals : Kind(g) = "S" => Out(g) \in Outputs
  BY KindsOnly
<1> QED
  BY <1>1 DEF Joined, Joining, Live

LEMMA Destroyed ==
    ASSUME set \in Scenarios, NEW v, NEW u, NEW rd, NEW roots \in SUBSET Goals,
           Good(v, rd, {}), v.top \subseteq roots, rd \subseteq roots,
           u = Throw(v, "join") \/ \E V \in SUBSET Joined(v, roots) : u = Sweep(v, roots, V)
    PROVE  Good(u, rd, {})
<1>1. CASE u = Throw(v, "join")
  BY <1>1, GoodJoin
<1>2. CASE \E V \in SUBSET Joined(v, roots) : u = Sweep(v, roots, V)
  <2>1. PICK V \in SUBSET Joined(v, roots) : u = Sweep(v, roots, V)
    BY <1>2
  <2>2. V \in SUBSET Outputs
    BY Joiners
  <2> QED
    BY <2>1, <2>2, GoodSweep
<1> QED
  BY <1>1, <1>2

LEMMA ResumeHolds ==
    ASSUME WorkerInv, NEW g \in Goals, Resume(g)
    PROVE  WorkerInv'
<1> DEFINE v == Work(w, g)
           rd == round \ {g}
           keep == held \cap Live(v)
           roots == v.top \cup keep
<1>1. /\ set \in Scenarios /\ foreign \subseteq Drvs /\ round \subseteq held /\ held \subseteq Goals
      /\ Inv(w, round, {}) /\ Sound(w)
  BY DEF WorkerInv
<1>2. /\ g \in round /\ round' = rd /\ held' = keep /\ set' = set /\ foreign' = foreign
      /\ \/ w' = v
         \/ w' = Throw(v, "join") \/ \E V \in SUBSET Joined(v, roots) : w' = Sweep(v, roots, V)
  BY DEF Resume, Destroy
<1>3. Inv(w, rd, {g})
  <2>1. /\ w \in WorkerType /\ \A h \in Goals : Pc(w, h) \in PcsOf(h)
        /\ Linked(w) /\ Reasons(w, round, {}) /\ HasReason(w, round, {}) /\ Slots(w, {}) /\ Kept(w)
    BY <1>1 DEF Inv
  <2>2. rd \cup {g} = round /\ g \notin rd
    BY <1>2
  <2>3. Reasons(w, rd, {g})
    BY <1>2, <2>1, <2>2 DEF Reasons
  <2>4. HasReason(w, rd, {g})
    BY <2>1, <2>2 DEF HasReason
  <2>5. Slots(w, {g})
    BY <2>1 DEF Slots
  <2> QED
    BY <2>1, <2>3, <2>4, <2>5 DEF Inv
<1>4. Pc(w, g) = "child" => w.child[g] # "none"
  BY <1>1 DEF Inv, Slots
<1>5. Good(v, rd, {})
  BY <1>1, <1>3, <1>4, GoodWork DEF Good
<1> HIDE DEF v
<1>6. v.top \subseteq Goals /\ rd \subseteq Live(v) /\ Live(v) \subseteq Goals
  BY <1>5 DEF Good, Inv, Reasons, Live
<1>7. rd \subseteq keep /\ keep \subseteq Goals /\ roots \in SUBSET Goals /\ v.top \subseteq roots /\ rd \subseteq roots
  BY <1>1, <1>6
<1>8. Good(w', rd, {})
  <2>1. CASE w' = v
    BY <1>5, <2>1
  <2> HIDE DEF roots, rd
  <2>2. CASE w' = Throw(v, "join") \/ \E V \in SUBSET Joined(v, roots) : w' = Sweep(v, roots, V)
    <3> DEFINE u == w'
    <3>1. u = Throw(v, "join") \/ \E V \in SUBSET Joined(v, roots) : u = Sweep(v, roots, V)
      BY <2>2
    <3> HIDE DEF u
    <3>2. Good(u, rd, {})
      BY <1>1, <1>5, <1>7, <3>1, Destroyed
    <3> QED
      BY <3>2 DEF u
  <2> QED
    BY <1>2, <2>1, <2>2
<1>9. round' \subseteq held' /\ held' \subseteq Goals /\ Good(w', round', {})
  BY <1>2, <1>7, <1>8
<1> QED
  BY <1>1, <1>2, <1>9, Afterwards

LEMMA Suspended ==
    ASSUME NEW v, NEW rd, Reasons(v, rd, {})
    PROVE  /\ v.awake \cup v.wanting \cup v.awhile \cup v.top \subseteq Live(v)
           /\ v.wanting \cup v.awhile \cup v.top \subseteq Live(v)
           /\ v.awake \cap (v.wanting \cup v.awhile) = {} /\ v.wanting \cap v.awhile = {}
           /\ \A g \in v.awake \cup v.wanting \cup v.awhile : v.goal[g].waitees = {}
           /\ \A g \in v.wanting \cup v.awhile : v.goal[g].waitees = {}
           /\ \A g \in v.awake : Pc(v, g) = "child" => v.goal[g].event # "none"
           /\ \A g \in v.wanting \cup v.awhile : Pc(v, g) # "child"
<1>1. v.awake \cup v.wanting \cup v.awhile \cup v.top \cup rd \cup {} \subseteq Live(v)
  BY DEF Reasons
<1>2. /\ v.awake \cap (v.wanting \cup v.awhile) = {} /\ v.wanting \cap v.awhile = {}
      /\ \A g \in v.wanting \cup v.awhile : Pc(v, g) # "child"
  BY DEF Reasons
<1>3. \A g \in v.awake \cup v.wanting \cup v.awhile \cup rd \cup {} : v.goal[g].waitees = {}
  BY DEF Reasons
<1>4. \A g \in v.awake \cup rd : Pc(v, g) = "child" => v.goal[g].event # "none"
  BY DEF Reasons
<1>5. v.awake \cup v.wanting \cup v.awhile \cup v.top \subseteq Live(v)
  BY <1>1
<1> QED
  BY <1>2, <1>3, <1>4, <1>5

LEMMA RoundStarts ==
    ASSUME NEW v, NEW u, Reasons(v, {}, {}),
           u.awake = {}, u.wanting = v.wanting, u.awhile = v.awhile, u.top = v.top,
           u.goal = v.goal, Live(u) = Live(v), v.awake \subseteq Goals, v.wanting \cup v.awhile \subseteq Goals,
           \A g \in Goals : Pc(u, g) = Pc(v, g)
    PROVE  Reasons(u, v.awake, {})
<1>1. /\ v.awake \cup v.wanting \cup v.awhile \cup v.top \subseteq Live(v)
      /\ v.awake \cap (v.wanting \cup v.awhile) = {} /\ v.wanting \cap v.awhile = {}
      /\ \A g \in v.awake \cup v.wanting \cup v.awhile : v.goal[g].waitees = {}
      /\ \A g \in v.awake : Pc(v, g) = "child" => v.goal[g].event # "none"
      /\ \A g \in v.wanting \cup v.awhile : Pc(v, g) # "child"
  BY Suspended
<1> DEFINE rd == v.awake
           cur == {}
<1>2. u.awake \cup u.wanting \cup u.awhile \cup u.top \cup rd \cup cur \subseteq Live(u)
  BY <1>1
<1>3. rd \cap (u.awake \cup u.wanting \cup u.awhile) = {}
  BY <1>1
<1>4. /\ cur \cap (u.awake \cup u.wanting \cup u.awhile \cup rd) = {}
      /\ u.awake \cap (u.wanting \cup u.awhile) = {} /\ u.wanting \cap u.awhile = {}
  BY <1>1
<1>5. \A g \in u.awake \cup u.wanting \cup u.awhile \cup rd \cup cur : u.goal[g].waitees = {}
  BY <1>1
<1>6. \A g \in u.awake \cup rd : Pc(u, g) = "child" => u.goal[g].event # "none"
  BY <1>1
<1>7. \A g \in u.wanting \cup u.awhile : Pc(u, g) # "child"
  BY <1>1
<1> HIDE DEF rd, cur
<1>8. Reasons(u, rd, cur)
  BY <1>2, <1>3, <1>4, <1>5, <1>6, <1>7 DEF Reasons
<1> QED
  BY <1>8 DEF rd, cur

LEMMA StartRoundHolds ==
    ASSUME WorkerInv, StartRound
    PROVE  WorkerInv'
<1>1. /\ set \in Scenarios /\ foreign \subseteq Drvs /\ round \subseteq held
      /\ Inv(w, round, {}) /\ Sound(w)
  BY DEF WorkerInv
<1>2. /\ held = {} /\ round' = w.awake /\ held' = w.awake /\ w' = [w EXCEPT !.awake = {}]
      /\ set' = set /\ foreign' = foreign
  BY DEF StartRound
<1>3. /\ w \in WorkerType /\ (\A h \in Goals : Pc(w, h) \in PcsOf(h)) /\ Linked(w) /\ Reasons(w, {}, {})
      /\ HasReason(w, {}, {}) /\ Slots(w, {}) /\ Kept(w)
  <2>1. round = {}
    BY <1>1, <1>2
  <2> QED
    BY <1>1, <2>1 DEF Inv
<1> DEFINE u == [w EXCEPT !.awake = {}]
<1>4. /\ u \in WorkerType /\ u.awake = {} /\ u.goal = w.goal /\ u.wanting = w.wanting /\ u.awhile = w.awhile
      /\ u.top = w.top /\ u.child = w.child /\ u.nrBuilds = w.nrBuilds /\ u.nrSubs = w.nrSubs
      /\ u.code = w.code /\ u.valid = w.valid /\ u.error = w.error /\ u.misled = w.misled
  BY <1>3 DEF WorkerType
<1> HIDE DEF u
<1>5. /\ Live(u) = Live(w) /\ Children(u) = Children(w) /\ \A h \in Goals : Pc(u, h) = Pc(w, h)
      /\ Running(u, "B") = Running(w, "B") /\ Running(u, "S") = Running(w, "S")
  BY <1>4 DEF Live, Children, Running, Pc
<1>6. Linked(u) /\ Kept(u)
  BY <1>3, <1>4, <1>5 DEF Linked, Kept
<1>7. Reasons(u, w.awake, {})
  <2>1. w.awake \subseteq Goals /\ w.wanting \cup w.awhile \subseteq Goals
    BY <1>3, Typed
  <2>2. Reasons(w, {}, {})
    BY <1>3
  <2>3. /\ u.awake = {} /\ u.wanting = w.wanting /\ u.awhile = w.awhile /\ u.top = w.top
        /\ u.goal = w.goal /\ Live(u) = Live(w) /\ \A g \in Goals : Pc(u, g) = Pc(w, g)
    BY <1>4, <1>5
  <2> QED
    BY <2>1, <2>2, <2>3, RoundStarts
<1>8. HasReason(u, w.awake, {})
  BY <1>3, <1>4, <1>5 DEF HasReason
<1>9. Slots(u, {})
  BY <1>3, <1>4, <1>5 DEF Slots
<1>10. Sound(u)
  <2>1. w.valid \subseteq u.valid /\ (w.misled => u.misled)
    BY <1>4
  <2>2. \A h \in Goals : /\ Pc(u, h) = Pc(w, h) /\ u.goal[h].waitees = w.goal[h].waitees
                         /\ u.goal[h].nrFailed = w.goal[h].nrFailed
                         /\ u.child[h] \in {w.child[h], "none"}
    BY <1>4, <1>5
  <2> QED
    BY <1>1, <1>4, <2>1, <2>2, SoundInert
<1>11. Good(u, w.awake, {})
  BY <1>3, <1>4, <1>5, <1>6, <1>7, <1>8, <1>9, <1>10 DEF Good, Inv
<1>12. w' = u /\ round' = w.awake /\ held' = w.awake /\ w.awake \subseteq Goals
  BY <1>2, <1>3, Typed DEF u
<1>13. Good(w', round', {}) /\ round' \subseteq held' /\ held' \subseteq Goals
  BY <1>11, <1>12
<1> QED
  BY <1>1, <1>2, <1>13, Afterwards

LEMMA EndRoundHolds ==
    ASSUME WorkerInv, EndRound
    PROVE  WorkerInv'
<1>1. /\ set \in Scenarios /\ foreign \subseteq Drvs /\ Good(w, round, {})
  BY DEF WorkerInv, Good
<1>2. /\ round = {} /\ held' = {} /\ round' = round /\ set' = set /\ foreign' = foreign
      /\ w' = Throw(w, "join") \/ \E V \in SUBSET Joined(w, w.top) : w' = Sweep(w, w.top, V)
  BY DEF EndRound, Destroy
<1>3. w.top \in SUBSET Goals
  BY <1>1, Typed DEF Good, Inv
<1> DEFINE roots == w.top
           u == w'
<1>4. /\ roots \in SUBSET Goals /\ w.top \subseteq roots /\ round \subseteq roots
      /\ u = Throw(w, "join") \/ \E V \in SUBSET Joined(w, roots) : u = Sweep(w, roots, V)
  BY <1>2, <1>3
<1> HIDE DEF roots, u
<1>5. Good(u, round, {})
  BY <1>1, <1>4, Destroyed
<1>6. Good(w', round', {}) /\ round' \subseteq held' /\ held' \subseteq Goals
  BY <1>2, <1>5 DEF u
<1> QED
  BY <1>1, <1>2, <1>6, Afterwards

LEMMA WithEvent ==
    ASSUME NEW r \in GoalType, NEW e \in Events
    PROVE  /\ [r EXCEPT !.event = e] \in GoalType /\ [r EXCEPT !.event = e].pc = r.pc
           /\ [r EXCEPT !.event = e].waitees = r.waitees /\ [r EXCEPT !.event = e].waiters = r.waiters
           /\ [r EXCEPT !.event = e].event = e /\ [r EXCEPT !.event = e].nrFailed = r.nrFailed
BY DEF GoalType

LEMMA WaitForInputHolds ==
    ASSUME WorkerInv, WaitForInput
    PROVE  WorkerInv'
<1>1. /\ set \in Scenarios /\ foreign \subseteq Drvs /\ round \subseteq held
      /\ Inv(w, round, {}) /\ Sound(w)
  BY DEF WorkerInv
<1> DEFINE eof == Exited
           goal(late) == [g \in Goals |->
                            IF g \in late THEN [w.goal[g] EXCEPT !.event = "timeout"]
                            ELSE IF g \in eof THEN [w.goal[g] EXCEPT !.event = "eof"]
                            ELSE w.goal[g]]
<1>2. /\ held = {} /\ w.awake = {} /\ round' = round /\ held' = held /\ set' = set /\ foreign' = foreign
      /\ \E late \in SUBSET {g \in Children(w) : set.timeouts /\ Kind(g) = "B"}, over \in BOOLEAN :
           LET slept == IF over THEN w.awhile ELSE {}
           IN  w' = [w EXCEPT !.awake = late \cup eof \cup slept, !.awhile = w.awhile \ slept,
                              !.goal = goal(late)]
  BY DEF WaitForInput
<1>3. round = {} /\ round' = {} /\ held' = {}
  BY <1>1, <1>2
<1>4. /\ w \in WorkerType /\ (\A h \in Goals : Pc(w, h) \in PcsOf(h)) /\ Linked(w) /\ Reasons(w, {}, {})
      /\ HasReason(w, {}, {}) /\ Slots(w, {}) /\ Kept(w)
  BY <1>1, <1>3 DEF Inv
<1>5. PICK late \in SUBSET Children(w), over \in BOOLEAN :
           LET slept == IF over THEN w.awhile ELSE {}
           IN  w' = [w EXCEPT !.awake = late \cup eof \cup slept, !.awhile = w.awhile \ slept,
                              !.goal = goal(late)]
  <2>1. {g \in Children(w) : set.timeouts /\ Kind(g) = "B"} \subseteq Children(w)
    OBVIOUS
  <2> HIDE DEF eof, goal
  <2> QED
    BY <1>2, <2>1
<1> DEFINE slept == IF over THEN w.awhile ELSE {}
           woken == late \cup eof
           awake == woken \cup slept
           awhile == w.awhile \ slept
           goal1 == goal(late)
           u == [w EXCEPT !.awake = awake, !.awhile = awhile, !.goal = goal1]
<1>6. w' = u
  BY <1>5
<1>7. slept \subseteq w.awhile
  OBVIOUS
<1>8. \A g \in woken : g \in Goals /\ w.child[g] # "none"
  BY DEF Children, Exited
<1>9. w.goal \in [Goals -> GoalType] /\ w.awhile \subseteq Goals /\ w.wanting \subseteq Goals
  BY <1>4, Typed
<1>10. /\ goal1 = [g \in Goals |-> goal1[g]]
       /\ \A g \in Goals : \/ g \in woken /\ goal1[g] = [w.goal[g] EXCEPT !.event = "timeout"]
                           \/ g \in woken /\ goal1[g] = [w.goal[g] EXCEPT !.event = "eof"]
                           \/ g \notin woken /\ goal1[g] = w.goal[g]
  OBVIOUS
<1> HIDE DEF slept, woken, goal1, eof, goal
<1>11. \A g \in Goals : /\ goal1[g] \in GoalType /\ goal1[g].pc = w.goal[g].pc
                        /\ goal1[g].waitees = w.goal[g].waitees /\ goal1[g].waiters = w.goal[g].waiters
                        /\ goal1[g].nrFailed = w.goal[g].nrFailed
                        /\ g \in woken => goal1[g].event # "none"
                        /\ g \notin woken => goal1[g].event = w.goal[g].event
  <2> SUFFICES ASSUME NEW g \in Goals
               PROVE  /\ goal1[g] \in GoalType /\ goal1[g].pc = w.goal[g].pc
                      /\ goal1[g].waitees = w.goal[g].waitees /\ goal1[g].waiters = w.goal[g].waiters
                      /\ goal1[g].nrFailed = w.goal[g].nrFailed
                      /\ g \in woken => goal1[g].event # "none"
                      /\ g \notin woken => goal1[g].event = w.goal[g].event
    OBVIOUS
  <2>1. w.goal[g] \in GoalType /\ "timeout" \in Events /\ "eof" \in Events
    BY <1>9 DEF Events
  <2>2. CASE g \in woken /\ goal1[g] = [w.goal[g] EXCEPT !.event = "timeout"]
    BY <2>1, <2>2, WithEvent
  <2>3. CASE g \in woken /\ goal1[g] = [w.goal[g] EXCEPT !.event = "eof"]
    BY <2>1, <2>3, WithEvent
  <2>4. CASE g \notin woken /\ goal1[g] = w.goal[g]
    BY <2>1, <2>4
  <2> QED
    BY <1>10, <2>2, <2>3, <2>4
<1>12. goal1 \in [Goals -> GoalType]
  <2>1. \A g \in Goals : goal1[g] \in GoalType
    BY <1>11
  <2> QED
    BY <1>10, <2>1
<1>13. awake \subseteq Goals /\ awhile \subseteq Goals /\ awake = woken \cup slept /\ awhile = w.awhile \ slept
  BY <1>7, <1>8, <1>9
<1> HIDE DEF awake, awhile
<1>14. /\ u \in WorkerType /\ u.awake = awake /\ u.goal = goal1 /\ u.wanting = w.wanting /\ u.awhile = awhile
       /\ u.top = w.top /\ u.child = w.child /\ u.nrBuilds = w.nrBuilds /\ u.nrSubs = w.nrSubs
       /\ u.code = w.code /\ u.valid = w.valid /\ u.error = w.error /\ u.misled = w.misled
  BY <1>4, <1>12, <1>13 DEF WorkerType
<1> HIDE DEF u
<1>15. \A h \in Goals : /\ Pc(u, h) = Pc(w, h) /\ u.goal[h].waitees = w.goal[h].waitees
                        /\ u.goal[h].waiters = w.goal[h].waiters /\ u.goal[h].nrFailed = w.goal[h].nrFailed
                        /\ h \in woken => u.goal[h].event # "none"
  BY <1>11, <1>14 DEF Pc
<1>16. /\ Live(u) = Live(w) /\ Children(u) = Children(w)
       /\ Running(u, "B") = Running(w, "B") /\ Running(u, "S") = Running(w, "S")
  BY <1>14, <1>15 DEF Live, Children, Running
<1>17. Linked(u) /\ Kept(u)
  <2>1. Live(w) \subseteq Goals
    BY DEF Live
  <2> QED
    BY <1>4, <1>14, <1>15, <1>16, <2>1 DEF Linked, Kept
<1>18. Reasons(u, {}, {})
  <2>1. \A h \in woken : h \in Live(w) /\ h \in Goals /\ w.goal[h].waitees = {} /\ Pc(w, h) = "child"
    <3> SUFFICES ASSUME NEW h \in woken
                 PROVE h \in Live(w) /\ h \in Goals /\ w.goal[h].waitees = {} /\ Pc(w, h) = "child"
      OBVIOUS
    <3>1. h \in Goals /\ w.child[h] # "none"
      BY <1>8
    <3>2. Pc(w, h) = "child" /\ w.goal[h].waitees = {}
      BY <1>4, <3>1 DEF Slots
    <3> QED
      BY <3>1, <3>2 DEF Live
  <2>2. /\ w.wanting \cup w.awhile \cup w.top \subseteq Live(w)
        /\ w.wanting \cap w.awhile = {} /\ \A g \in w.wanting \cup w.awhile : w.goal[g].waitees = {}
        /\ \A g \in w.wanting \cup w.awhile : Pc(w, g) # "child"
    BY <1>4, Suspended
  <2>3. u.awake \cup u.wanting \cup u.awhile \cup u.top \subseteq Live(u)
    BY <1>7, <1>13, <1>14, <1>16, <2>1, <2>2
  <2>4. u.awake \cap (u.wanting \cup u.awhile) = {} /\ u.wanting \cap u.awhile = {}
    BY <1>7, <1>13, <1>14, <2>1, <2>2
  <2>5. \A g \in u.awake \cup u.wanting \cup u.awhile : g \in Goals /\ u.goal[g].waitees = {}
    BY <1>7, <1>9, <1>13, <1>14, <1>15, <2>1, <2>2
  <2>6. \A g \in u.awake : Pc(u, g) = "child" => u.goal[g].event # "none"
    BY <1>7, <1>9, <1>13, <1>14, <1>15, <2>1, <2>2
  <2>7. \A g \in u.wanting \cup u.awhile : Pc(u, g) # "child"
    BY <1>7, <1>9, <1>13, <1>14, <1>15, <2>2
  <2> QED
    BY <2>3, <2>4, <2>5, <2>6, <2>7 DEF Reasons
<1>19. HasReason(u, {}, {})
  <2>1. Live(w) \subseteq Goals
    BY DEF Live
  <2>2. w.awake \cup w.wanting \cup w.awhile \subseteq u.awake \cup u.wanting \cup u.awhile
    BY <1>2, <1>13, <1>14
  <2> QED
    BY <1>4, <1>14, <1>15, <1>16, <2>1, <2>2 DEF HasReason
<1>20. Slots(u, {})
  BY <1>4, <1>14, <1>15, <1>16 DEF Slots
<1>21. Sound(u)
  <2>1. w.valid \subseteq u.valid /\ (w.misled => u.misled)
    BY <1>14
  <2>2. \A h \in Goals : /\ Pc(u, h) = Pc(w, h) /\ u.goal[h].waitees = w.goal[h].waitees
                         /\ u.goal[h].nrFailed = w.goal[h].nrFailed
                         /\ u.child[h] \in {w.child[h], "none"}
    BY <1>14, <1>15
  <2> QED
    BY <1>1, <1>14, <2>1, <2>2, SoundInert
<1>22. \A h \in Goals : Pc(u, h) \in PcsOf(h)
  BY <1>4, <1>15
<1>23. Good(u, {}, {})
  BY <1>14, <1>17, <1>18, <1>19, <1>20, <1>21, <1>22 DEF Good, Inv
<1>24. Good(w', round', {}) /\ round' \subseteq held' /\ held' \subseteq Goals
  BY <1>3, <1>6, <1>23
<1> QED
  BY <1>1, <1>2, <1>24, Afterwards

(* A child gets on, or ends.                                               *)
LEMMA ChildHolds ==
    ASSUME WorkerInv, NEW g \in Goals, ThreadLocksPath(g) \/ ChildEnds(g) \/ ThreadEndsEarly(g)
    PROVE  WorkerInv'
<1>1. /\ set \in Scenarios /\ foreign \subseteq Drvs /\ round \subseteq held /\ held \subseteq Goals
      /\ Inv(w, round, {}) /\ Sound(w)
  BY DEF WorkerInv
<1>0. w \in WorkerType
  BY <1>1 DEF Inv
<1>2. w.child[g] # "none" /\ round' = round /\ held' = held /\ set' = set /\ foreign' = foreign
  BY DEF ThreadLocksPath, ChildEnds, ThreadEndsEarly
<1>3. PICK how \in ChildStates \ {"none"} :
           w' = [w EXCEPT !.child[g] = how,
                          !.valid = IF Kind(g) = "S" /\ how = "ok" THEN w.valid \cup {Out(g)} ELSE w.valid]
  <2>1. CASE ThreadLocksPath(g)
    <3>1. w' = [w EXCEPT !.child[g] = "locked"] /\ w.valid = w.valid
      BY <2>1 DEF ThreadLocksPath
    <3>2. w' = [w EXCEPT !.child[g] = "locked", !.valid = w.valid]
      BY <1>0, <3>1 DEF WorkerType
    <3> QED
      BY <3>2 DEF ChildStates
  <2>2. CASE ChildEnds(g)
    BY <2>2 DEF ChildEnds, ChildStates
  <2>3. CASE ThreadEndsEarly(g)
    <3>1. PICK how \in {"bad"} \cup (IF Out(g) \in w.valid THEN {"ok"} ELSE {}) :
                w' = [w EXCEPT !.child[g] = how]
      BY <2>3 DEF ThreadEndsEarly
    <3> DEFINE valid == IF Kind(g) = "S" /\ how = "ok" THEN w.valid \cup {Out(g)} ELSE w.valid
    <3>2. valid = w.valid /\ how \in {"bad", "ok"}
      <4>1. how = "bad" \/ (how = "ok" /\ Out(g) \in w.valid)
        BY <3>1
      <4> QED
        BY <4>1
    <3> HIDE DEF valid
    <3>3. w' = [w EXCEPT !.child[g] = how, !.valid = valid]
      BY <1>0, <3>1, <3>2 DEF WorkerType
    <3> QED
      BY <3>2, <3>3 DEF ChildStates, valid
  <2> QED
    BY <2>1, <2>2, <2>3
<1> DEFINE valid == IF Kind(g) = "S" /\ how = "ok" THEN w.valid \cup {Out(g)} ELSE w.valid
           child == [w.child EXCEPT ![g] = how]
           u == [w EXCEPT !.child = child, !.valid = valid]
<1>4. w \in WorkerType /\ w.child \in [Goals -> ChildStates] /\ w.valid \subseteq Outputs
  BY <1>1, Typed DEF Inv
<1>5. /\ child \in [Goals -> ChildStates] /\ child[g] = how /\ \A h \in Goals \ {g} : child[h] = w.child[h]
  BY <1>4 DEF ChildStates
<1>6. /\ valid \subseteq Outputs /\ w.valid \subseteq valid
      /\ (Kind(g) = "S" /\ how = "ok" => Out(g) \in valid)
  <2>1. Kind(g) = "S" => Out(g) \in Outputs
    BY KindsOnly
  <2> QED
    BY <1>4, <2>1
<1>7. w' = u
  BY <1>3
<1> HIDE DEF valid, child
<1>8. /\ u \in WorkerType /\ u.awake = w.awake /\ u.goal = w.goal /\ u.wanting = w.wanting
      /\ u.awhile = w.awhile /\ u.top = w.top /\ u.child = child /\ u.nrBuilds = w.nrBuilds
      /\ u.nrSubs = w.nrSubs /\ u.code = w.code /\ u.valid = valid /\ u.error = w.error
      /\ u.misled = w.misled
  BY <1>4, <1>5, <1>6 DEF WorkerType
<1> HIDE DEF u
<1>9. \A h \in Goals : /\ Pc(u, h) = Pc(w, h) /\ u.goal[h] = w.goal[h]
                       /\ u.child[h] # "none" <=> w.child[h] # "none"
                       /\ u.child[h] = w.child[h] \/ (h = g /\ u.child[h] = how)
  BY <1>2, <1>5, <1>8 DEF Pc
<1>10. /\ Live(u) = Live(w) /\ Children(u) = Children(w)
       /\ Running(u, "B") = Running(w, "B") /\ Running(u, "S") = Running(w, "S")
  BY <1>9 DEF Live, Children, Running
<1>11. /\ Linked(w) /\ Kept(w) /\ Reasons(w, round, {}) /\ HasReason(w, round, {}) /\ Slots(w, {})
       /\ \A h \in Goals : Pc(w, h) \in PcsOf(h)
  BY <1>1 DEF Inv
<1>12. \A h \in Goals : Pc(u, h) \in PcsOf(h)
  BY <1>9, <1>11
<1>13. Linked(u) /\ Kept(u)
  BY <1>8, <1>10, <1>11 DEF Linked, Kept
<1>14. Live(w) \subseteq Goals /\ w.awake \subseteq Goals /\ w.wanting \subseteq Goals /\ w.awhile \subseteq Goals
  BY <1>4, Typed DEF Live
<1>15. Reasons(u, round, {})
  <2>1. \A h : Pc(u, h) = Pc(w, h)
    BY <1>8 DEF Pc
  <2> QED
    BY <1>8, <1>10, <1>11, <2>1 DEF Reasons
<1>16. HasReason(u, round, {})
  BY <1>8, <1>9, <1>10, <1>11, <1>14 DEF HasReason
<1>17. Slots(u, {})
  BY <1>8, <1>9, <1>10, <1>11 DEF Slots
<1>18. Sound(u)
  <2> SUFFICES ASSUME ~u.misled
               PROVE  /\ u.error \notin {"input not valid", "reference not valid"}
                      /\ \A h \in Goals : SoundOf(u, h)
    BY DEF Sound
  <2>1. w.error \notin {"input not valid", "reference not valid"} /\ \A h \in Goals : SoundOf(w, h)
    BY <1>1, <1>8 DEF Sound
  <2>2. ASSUME NEW h \in Goals PROVE SoundOf(u, h)
    <3>1. SoundOf(w, h) /\ w.valid \subseteq u.valid
      BY <1>6, <1>8, <2>1
    <3>2. Kind(h) = "S" /\ u.child[h] = "ok" => Out(h) \in u.valid
      BY <1>6, <1>8, <1>9, <3>1 DEF SoundOf
    <3>3. /\ Pc(u, h) = Pc(w, h) /\ u.goal[h].waitees = w.goal[h].waitees
          /\ u.goal[h].nrFailed = w.goal[h].nrFailed /\ u.code[h] = w.code[h]
      BY <1>8, <1>9
    <3>4. u.code[h] = "ok" => Provides(h) \subseteq u.valid
      BY <3>1, <3>3 DEF SoundOf
    <3>5. u.goal[h].nrFailed = 0 =>
            \A k \in Promised(Pc(u, h), h) : k \in u.goal[h].waitees \/ Provides(k) \subseteq u.valid
      BY <3>1, <3>3 DEF SoundOf
    <3>6. /\ Kind(h) = "B" /\ Pc(u, h) # "none" => Needed(Drv(h)) \subseteq u.valid
          /\ Kind(h) = "S" /\ Pc(u, h) \in {"run", "child"} => Needed(Drv(h)) \subseteq u.valid
      BY <3>1, <3>3 DEF SoundOf
    <3> QED
      BY <3>2, <3>4, <3>5, <3>6 DEF SoundOf
  <2> QED
    BY <1>8, <2>1, <2>2
<1>19. Good(u, round, {})
  BY <1>8, <1>12, <1>13, <1>15, <1>16, <1>17, <1>18 DEF Good, Inv
<1>20. Good(w', round', {}) /\ round' \subseteq held' /\ held' \subseteq Goals
  BY <1>1, <1>2, <1>7, <1>19
<1> QED
  BY <1>1, <1>2, <1>20, Afterwards

LEMMA ForeignDoneHolds ==
    ASSUME WorkerInv, NEW d \in Drvs, ForeignDone(d)
    PROVE  WorkerInv'
<1>1. /\ set \in Scenarios /\ foreign \subseteq Drvs /\ round \subseteq held /\ held \subseteq Goals
      /\ Good(w, round, {}) /\ w \in WorkerType /\ w.valid \subseteq Outputs
  BY Typed DEF WorkerInv, Good, Inv
<1>2. /\ foreign' \subseteq Drvs /\ round' = round /\ held' = held /\ set' = set
      /\ w' = w \/ w' = [w EXCEPT !.valid = w.valid \cup OutputsOf({d})]
  BY <1>1 DEF ForeignDone
<1> DEFINE valid == w.valid \cup OutputsOf({d})
           u == [w EXCEPT !.valid = valid]
<1>3. valid \subseteq Outputs /\ w.valid \subseteq valid
  BY <1>1, Setting
<1> HIDE DEF valid
<1>4. /\ u \in WorkerType /\ u.awake = w.awake /\ u.goal = w.goal /\ u.wanting = w.wanting
      /\ u.awhile = w.awhile /\ u.top = w.top /\ u.child = w.child /\ u.nrBuilds = w.nrBuilds
      /\ u.nrSubs = w.nrSubs /\ u.code = w.code /\ w.valid \subseteq u.valid /\ u.error = w.error
      /\ (w.misled => u.misled)
  BY <1>1, <1>3 DEF WorkerType
<1>5. w' = w \/ w' = u
  BY <1>2 DEF valid
<1> HIDE DEF u
<1>6. Good(u, round, {})
  BY <1>1, <1>4, GoodMore
<1>7. Good(w', round', {}) /\ round' \subseteq held' /\ held' \subseteq Goals
  BY <1>1, <1>2, <1>5, <1>6
<1> QED
  BY <1>1, <1>2, <1>7, Afterwards

LEMMA NextHolds == WorkerInv /\ [Next]_vars => WorkerInv'
<1> SUFFICES ASSUME WorkerInv, [Next]_vars PROVE WorkerInv'
  OBVIOUS
<1>1. CASE StartRound
  BY <1>1, StartRoundHolds
<1>2. ASSUME NEW g \in Goals, Resume(g) PROVE WorkerInv'
  BY <1>2, ResumeHolds
<1>3. CASE EndRound
  BY <1>3, EndRoundHolds
<1>4. CASE WaitForInput
  BY <1>4, WaitForInputHolds
<1>5. ASSUME NEW g \in Goals, ThreadLocksPath(g) \/ ChildEnds(g) \/ ThreadEndsEarly(g)
      PROVE  WorkerInv'
  BY <1>5, ChildHolds
<1>6. ASSUME NEW d \in Drvs, ForeignDone(d) PROVE WorkerInv'
  BY <1>6, ForeignDoneHolds
<1>7. CASE UNCHANGED vars
  <2>1. /\ set \in Scenarios /\ foreign \subseteq Drvs /\ round \subseteq held /\ held \subseteq Goals
        /\ Good(w, round, {})
    BY DEF WorkerInv, Good
  <2>2. /\ set' = set /\ foreign' = foreign /\ round' = round /\ held' = held /\ w' = w
    BY <1>7 DEF vars
  <2>3. Good(w', round', {}) /\ round' \subseteq held' /\ held' \subseteq Goals /\ foreign' \subseteq Drvs
    BY <2>1, <2>2
  <2> QED
    BY <2>1, <2>2, <2>3, Afterwards
<1> QED
  BY <1>1, <1>2, <1>3, <1>4, <1>5, <1>6, <1>7 DEF Next, RunStep

-----------------------------------------------------------------------------
(* The theorems                                                            *)

LEMMA InvAlways == Spec => []WorkerInv
BY InitHolds, NextHolds, PTL DEF Spec

LEMMA Parts ==
    ASSUME WorkerInv
    PROVE  /\ set \in Scenarios /\ foreign \subseteq Drvs /\ round \subseteq held /\ held \subseteq Goals
           /\ w \in WorkerType /\ Linked(w) /\ Reasons(w, round, {}) /\ HasReason(w, round, {})
           /\ Slots(w, {}) /\ Kept(w) /\ Sound(w)
BY DEF WorkerInv, Inv

(* The types, and waiting is mutual: whatever resumes, ends or is          *)
(* destroyed, a goal is among the waiters of exactly those it waits for.   *)
THEOREM TypesAndLinks == Spec => []WorkerTypeOK
<1>1. WorkerInv => WorkerTypeOK
  <2> SUFFICES ASSUME WorkerInv PROVE WorkerTypeOK
    OBVIOUS
  <2>1. w \in WorkerType /\ Linked(w) /\ round \subseteq held /\ foreign \subseteq Drvs
    BY Parts
  <2>2. /\ w.goal \in [Goals -> GoalType] /\ w.awake \cup w.wanting \cup w.awhile \cup w.top \subseteq Goals
        /\ w.child \in [Goals -> {"none", "running", "locked", "ok", "bad", "gone"}]
        /\ w.code \in [Goals -> Codes] /\ w.valid \subseteq Outputs
    BY <2>1, Typed DEF ChildStates
  <2>3. ASSUME NEW g \in Goals
        PROVE  /\ w.goal[g].pc \in Pcs
               /\ w.goal[g].waiters \cup w.goal[g].waitees \subseteq Live(w)
               /\ \A h \in Goals : h \in w.goal[g].waitees <=> g \in w.goal[h].waiters
    <3>1. w.goal[g] \in GoalType
      BY <2>2
    <3>2. w.goal[g].pc \in Pcs
      BY <3>1 DEF GoalType
    <3> QED
      BY <2>1, <3>2 DEF Linked
  <2> QED
    BY <2>1, <2>2, <2>3 DEF WorkerTypeOK
<1> QED
  BY <1>1, InvAlways, PTL

(* The slots are counted right, also when a goal with a child is           *)
(* destroyed, and no more builders and substitutions run than may.         *)
THEOREM SlotsAlwaysCounted == Spec => []SlotsCounted
<1>1. WorkerInv => SlotsCounted
  <2> SUFFICES ASSUME WorkerInv PROVE SlotsCounted
    OBVIOUS
  <2>1. Slots(w, {})
    BY Parts
  <2>2. \A k : {g \in Children(w) : Kind(g) = k} = Running(w, k)
    BY DEF Children, Running
  <2>3. /\ w.nrBuilds = Cardinality(Running(w, "B")) /\ w.nrBuilds <= set.maxJobs
        /\ w.nrSubs = Cardinality(Running(w, "S")) /\ (w.nrSubs <= 1 \/ w.nrSubs <= set.maxSubs)
    BY <2>1 DEF Slots
  <2> QED
    BY <2>2, <2>3 DEF SlotsCounted
<1> QED
  BY <1>1, InvAlways, PTL

(* No goal is resumed that is done, that still waits for another goal, or  *)
(* whose child has no event for it.                                        *)
THEOREM AlwaysResumedForAReason == Spec => []ResumedForAReason
<1>1. WorkerInv => ResumedForAReason
  <2> SUFFICES ASSUME WorkerInv PROVE ResumedForAReason
    OBVIOUS
  <2>1. Reasons(w, round, {}) /\ Slots(w, {}) /\ w \in WorkerType
    BY Parts
  <2>2. Children(w) \subseteq Live(w)
    BY <2>1 DEF Slots, Children, Live
  <2>3. ASSUME NEW g \in round \cup (w.awake \cap Live(w))
        PROVE  /\ Pc(w, g) # "none" /\ w.goal[g].waitees = {}
               /\ Pc(w, g) = "child" => w.goal[g].event # "none" /\ w.child[g] # "none"
    <3>1. g \in w.awake \cup round
      OBVIOUS
    <3>2. g \in Live(w) /\ w.goal[g].waitees = {} /\ (Pc(w, g) = "child" => w.goal[g].event # "none")
      BY <2>1, <3>1 DEF Reasons
    <3>3. g \in Goals /\ Pc(w, g) # "none"
      BY <3>2 DEF Live
    <3>4. Pc(w, g) = "child" => w.child[g] # "none"
      BY <2>1, <3>3 DEF Slots
    <3> QED
      BY <3>2, <3>3, <3>4
  <2> QED
    BY <2>2, <2>3 DEF ResumedForAReason
<1> QED
  BY <1>1, InvAlways, PTL

(* Worker::run never finds nothing to do while a goal is on top: goals     *)
(* wait for each other only downwards, so that the lowest of those that    *)
(* exist waits for no goal, hence for a slot, a child or a lock; and who   *)
(* waits for a slot has left a child running.                              *)
THEOREM AlwaysSomethingToDo == Spec => []NeverStuck
<1>1. WorkerInv => NeverStuck
  <2> SUFFICES ASSUME WorkerInv, Going, held = {}
               PROVE  w.awake # {} \/ Children(w) # {} \/ w.awhile # {}
    BY DEF NeverStuck
  <2>1. /\ set \in Scenarios /\ round = {} /\ Linked(w) /\ Reasons(w, round, {})
        /\ HasReason(w, round, {}) /\ Slots(w, {}) /\ w.top # {} /\ w.error = "none"
    BY Parts DEF Going
  <2>2. w.top \subseteq Live(w)
    BY <2>1, Suspended
  <2>3. Live(w) \in SUBSET Goals /\ Live(w) # {}
    BY <2>1, <2>2 DEF Live
  <2>4. PICK g \in Live(w) : \A h \in Live(w) : h \notin MayAwait(g)
    BY <2>1, <2>3, NoCircle
  <2>5. g \in Goals /\ w.goal[g].waitees \subseteq Live(w) /\ w.goal[g].waitees \subseteq MayAwait(g)
    BY <2>1, <2>3 DEF Linked
  <2>6. w.goal[g].waitees = {}
    BY <2>4, <2>5
  <2>7. g \in w.awake \cup w.wanting \cup w.awhile \cup round \cup {} \/ w.child[g] # "none"
    BY <2>1, <2>6 DEF HasReason
  <2>8. w.wanting # {} => Children(w) # {}
    BY <2>1 DEF Slots
  <2>9. w.child[g] # "none" => Children(w) # {}
    BY <2>5 DEF Children
  <2> QED
    BY <2>1, <2>7, <2>8, <2>9
<1> QED
  BY <1>1, InvAlways, PTL

(* With --keep-going a run that is over has nothing awake, wanting a slot  *)
(* or running: each goal that exists is on top or is waited for, and the   *)
(* highest of them is waited for by none.                                  *)
THEOREM NothingLeftBehind == Spec => []KeepGoingLeavesNothing
<1>1. WorkerInv => KeepGoingLeavesNothing
  <2> SUFFICES ASSUME WorkerInv, set.keepGoing, w.top = {}
               PROVE  /\ w.awake \cap Live(w) = {} /\ w.wanting \cap Live(w) = {}
                      /\ Children(w) = {}
    BY DEF KeepGoingLeavesNothing
  <2>1. set \in Scenarios /\ Linked(w) /\ Slots(w, {}) /\ Kept(w)
    BY Parts
  <2>2. Live(w) \in SUBSET Goals
    BY DEF Live
  <2>3. \A g \in Live(w) : w.goal[g].waiters # {}
    BY <2>1 DEF Kept
  <2>4. Live(w) = {}
    <3> SUFFICES ASSUME Live(w) # {} PROVE FALSE
      OBVIOUS
    <3>1. PICK h \in Live(w) : \A g \in Live(w) : h \notin MayAwait(g)
      BY <2>1, <2>2, NoCircle
    <3>2. PICK p : p \in w.goal[h].waiters
      BY <2>3
    <3>3. h \in Goals /\ p \in Live(w) /\ p \in Goals
      BY <2>1, <2>2, <3>2 DEF Linked
    <3>4. h \in w.goal[p].waitees /\ w.goal[p].waitees \subseteq MayAwait(p)
      BY <2>1, <3>2, <3>3 DEF Linked
    <3> QED
      BY <3>1, <3>3, <3>4
  <2>5. Children(w) \subseteq Live(w)
    BY <2>1 DEF Slots, Children, Live
  <2> QED
    BY <2>4, <2>5
<1> QED
  BY <1>1, InvAlways, PTL

(* A child runs only with all its inputs valid, as long as no trampoline   *)
(* has reported one output's success for another's failure.                *)
THEOREM InputsValidBeforeChild == Spec => []InputsBeforeChild
<1>1. WorkerInv => InputsBeforeChild
  <2> SUFFICES ASSUME WorkerInv, ~w.misled
               PROVE  /\ w.error \notin {"input not valid", "reference not valid"}
                      /\ \A g \in Children(w) : Needed(Drv(g)) \subseteq w.valid
    BY DEF InputsBeforeChild
  <2>1. Sound(w) /\ Slots(w, {}) /\ \A g \in Goals : Pc(w, g) \in PcsOf(g)
    BY DEF WorkerInv, Inv
  <2>2. w.error \notin {"input not valid", "reference not valid"} /\ \A g \in Goals : SoundOf(w, g)
    BY <2>1 DEF Sound
  <2>3. ASSUME NEW g \in Children(w) PROVE Needed(Drv(g)) \subseteq w.valid
    <3>1. g \in Goals /\ w.child[g] # "none"
      BY DEF Children
    <3>2. Pc(w, g) = "child"
      BY <2>1, <3>1 DEF Slots
    <3>3. Kind(g) \in {"B", "S"}
      BY <2>1, <3>1, <3>2, KindsOnly DEF PcsOf
    <3> QED
      BY <2>2, <3>1, <3>2, <3>3 DEF SoundOf
  <2> QED
    BY <2>2, <2>3
<1> QED
  BY <1>1, InvAlways, PTL

(* A goal that has succeeded leaves what it provides in the store, as long *)
(* as no trampoline has reported one output's success for another's        *)
(* failure: each goal ends well only after those it was promised by have.  *)
THEOREM SuccessIsValid == Spec => []SuccessMeansValid
<1>1. WorkerInv => SuccessMeansValid
  <2> SUFFICES ASSUME WorkerInv, ~w.misled, NEW g \in Goals, w.code[g] = "ok"
               PROVE  Provides(g) \subseteq w.valid
    BY DEF SuccessMeansValid
  <2>1. SoundOf(w, g)
    BY Parts DEF Sound
  <2> QED
    BY <2>1 DEF SoundOf
<1> QED
  BY <1>1, InvAlways, PTL
=============================================================================
