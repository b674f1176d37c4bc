--------------------------- MODULE StoreGC_proof ---------------------------
(***************************************************************************)
(* What holds of the store and its collector for any processes, paths and  *)
(* reference graph, any number of collections, and wherever a process or   *)
(* the collector is killed.                                                *)
(***************************************************************************)
EXTENDS StoreGC, TLAPS

-----------------------------------------------------------------------------
(* The processes                                                           *)

EnvInv ==
    /\ bound \in Scenarios
    /\ valid \subseteq Paths /\ disk \subseteq Paths /\ gcroots \subseteq Paths
    /\ unsafe \subseteq Procs \X Paths /\ inUse \in BOOLEAN /\ epoch \in Nat

(* A process's record.  TypeOK is not inductive: that what a process uses  *)
(* is in its file rests on the root that precedes addToStore.              *)
RecordOK(r) ==
    /\ r \in ProcType
    /\ r.used \subseteq r.roots
    /\ r.pc = "shared" => gc.pc = "idle"
    /\ r.pc \in RootPcs \cup AddPcs => r.target \in Paths
    /\ r.pc \in AddPcs => r.target \in r.roots

ProcInv ==
    /\ EnvInv
    /\ proc \in [Procs -> ProcType]
    /\ \A p \in Procs : RecordOK(proc[p])

LEMMA ProcInvType == ProcInv => TypeOK
BY PathsAssumption DEF ProcInv, EnvInv, RecordOK, TypeOK, At

LEMMA NewProcOK == RecordOK(NewProc)
BY DEF RecordOK, NewProc, ProcType, RootPcs, AddPcs

LEMMA ProcInit == Init => ProcInv
<1> SUFFICES ASSUME Init PROVE ProcInv
  OBVIOUS
<1>1. EnvInv
  BY PathsAssumption DEF Init, EnvInv
<1>2. proc = [p \in Procs |-> NewProc]
  BY DEF Init
<1>3. NewProc \in ProcType
  BY NewProcOK DEF RecordOK
<1>4. ASSUME NEW p \in Procs PROVE RecordOK(proc[p])
  BY <1>2, NewProcOK
<1> QED
  BY <1>1, <1>2, <1>3, <1>4 DEF ProcInv

(* One process changes its record.                                         *)
LEMMA Update ==
    ASSUME ProcInv, NEW p \in Procs, NEW r, RecordOK(r), proc' = [proc EXCEPT ![p] = r],
           gc.pc = "idle" => gc' = gc, EnvInv'
    PROVE  ProcInv'
<1>1. proc' \in [Procs -> ProcType]
  BY DEF ProcInv, RecordOK
<1>2. ASSUME NEW q \in Procs PROVE RecordOK(proc'[q])
  <2>1. proc'[q] = IF q = p THEN r ELSE proc[q]
    BY DEF ProcInv
  <2> QED
    BY <2>1 DEF ProcInv
<1>3. ASSUME NEW q \in Procs PROVE proc'[q].pc = "shared" => gc'.pc = "idle"
  BY <1>2 DEF RecordOK
<1> QED
  BY <1>1, <1>2, <1>3 DEF ProcInv, RecordOK

(* No process changes its record, and no collection begins over a shared   *)
(* lock.                                                                   *)
LEMMA Frame ==
    ASSUME ProcInv, proc' = proc, EnvInv',
           \/ gc' = gc
           \/ gc.pc # "idle"
           \/ \A p \in Procs : ~At(p, "shared")
    PROVE  ProcInv'
BY DEF ProcInv, RecordOK, At

(* The record of a process, and what it may become.                        *)
LEMMA TheRecord ==
    ASSUME ProcInv, NEW p \in Procs
    PROVE  /\ RecordOK(proc[p]) /\ proc[p] \in ProcType
           /\ EnvInv
BY DEF ProcInv

(* The steps of one process, its server thread included.                   *)
LEMMA ProcStepStays ==
    ASSUME ProcInv, NEW p \in Procs, ProcStep(p) \/ ServerStep(p) \/ LinkRoot(p) \/ Exit(p)
           \/ \E x \in Paths : AddTempRoot(p, x)
    PROVE  ProcInv'
<1> DEFINE done == [proc[p] EXCEPT !.pc = "idle", !.target = NoPath, !.used = @ \cup {}]
           used == [proc[p] EXCEPT !.pc = "idle", !.target = NoPath,
                                   !.used = @ \cup {proc[p].target}]
<1> USE TheRecord
<1>0. /\ RecordOK(done)
      /\ proc[p].pc \in AddPcs => RecordOK(used)
  BY DEF RecordOK, ProcType, RootPcs, AddPcs
<1>00. /\ Done(p, {}) => proc' = [proc EXCEPT ![p] = done]
       /\ Done(p, {proc[p].target}) => proc' = [proc EXCEPT ![p] = used]
  BY DEF Done
<1> HIDE DEF done, used
<1>1. CASE OpenTempRoots(p)
  <2> DEFINE r == [proc[p] EXCEPT !.file = "opened", !.pc = "lock"]
  <2>1. RecordOK(r)
    BY <1>1 DEF OpenTempRoots, At, EnvInv, RecordOK, ProcType, RootPcs, AddPcs
  <2>2. proc' = [proc EXCEPT ![p] = r]
    BY <1>1 DEF OpenTempRoots
  <2>3. EnvInv' /\ gc' = gc
    BY <1>1 DEF OpenTempRoots, EnvInv, RecordOK, At, ProcType, RootPcs, AddPcs, storeVars, ghosts
  <2> HIDE DEF r
  <2> QED
    BY <2>1, <2>2, <2>3, Update
<1>2. CASE LockTempRoots(p)
  <2> DEFINE r == IF proc[p].file = "opened" THEN [proc[p] EXCEPT !.file = "held", !.pc = "try"]
                    ELSE [proc[p] EXCEPT !.pc = "open"]
  <2>1. RecordOK(r)
    BY <1>2 DEF LockTempRoots, At, EnvInv, RecordOK, ProcType, RootPcs, AddPcs
  <2>2. proc' = [proc EXCEPT ![p] = r]
    BY <1>2 DEF LockTempRoots
  <2>3. EnvInv' /\ gc' = gc
    BY <1>2 DEF LockTempRoots, EnvInv, RecordOK, At, ProcType, RootPcs, AddPcs, storeVars, ghosts
  <2> HIDE DEF r
  <2> QED
    BY <2>1, <2>2, <2>3, Update
<1>3. CASE TryShared(p)
  <2> DEFINE r == [proc[p] EXCEPT !.pc = IF gc.pc = "idle" THEN "shared" ELSE "connect"]
  <2>1. RecordOK(r)
    BY <1>3 DEF TryShared, At, EnvInv, RecordOK, ProcType, RootPcs, AddPcs
  <2>2. proc' = [proc EXCEPT ![p] = r]
    BY <1>3 DEF TryShared, Goto
  <2>3. EnvInv' /\ gc' = gc
    BY <1>3 DEF TryShared, EnvInv, RecordOK, At, ProcType, RootPcs, AddPcs, storeVars, ghosts
  <2> HIDE DEF r
  <2> QED
    BY <2>1, <2>2, <2>3, Update
<1>4. CASE Connect(p)
  <2> DEFINE r == IF Serving /\ proc[p].conn \in {0, epoch} THEN [proc[p] EXCEPT !.conn = epoch, !.pc = "sent"]
                    ELSE [proc[p] EXCEPT !.conn = 0, !.pc = "try"]
  <2>1. RecordOK(r)
    BY <1>4 DEF Connect, Serving, At, EnvInv, RecordOK, ProcType, RootPcs, AddPcs
  <2>2. proc' = [proc EXCEPT ![p] = r]
    BY <1>4 DEF Connect
  <2>3. EnvInv' /\ gc' = gc
    BY <1>4 DEF Connect, EnvInv, RecordOK, At, ProcType, RootPcs, AddPcs, storeVars, ghosts
  <2> HIDE DEF r
  <2> QED
    BY <2>1, <2>2, <2>3, Update
<1>5. CASE Disconnected(p)
  <2> DEFINE r == [proc[p] EXCEPT !.conn = 0, !.pc = "try"]
  <2>1. RecordOK(r)
    BY <1>5 DEF Disconnected, At, EnvInv, RecordOK, ProcType, RootPcs, AddPcs
  <2>2. proc' = [proc EXCEPT ![p] = r]
    BY <1>5 DEF Disconnected
  <2>3. EnvInv' /\ gc' = gc
    BY <1>5 DEF Disconnected, EnvInv, RecordOK, At, ProcType, RootPcs, AddPcs, storeVars, ghosts
  <2> HIDE DEF r
  <2> QED
    BY <2>1, <2>2, <2>3, Update
<1>6. CASE AppendRoot(p)
  <2> DEFINE r == [proc[p] EXCEPT !.roots = @ \cup {proc[p].target}, !.pc = "rooted"]
  <2>1. RecordOK(r)
    BY <1>6 DEF AppendRoot, At, EnvInv, RecordOK, ProcType, RootPcs, AddPcs
  <2>2. proc' = [proc EXCEPT ![p] = r]
    BY <1>6 DEF AppendRoot
  <2>3. EnvInv' /\ gc' = gc
    BY <1>6 DEF AppendRoot, EnvInv, RecordOK, At, ProcType, RootPcs, AddPcs, storeVars, ghosts
  <2> HIDE DEF r
  <2> QED
    BY <2>1, <2>2, <2>3, Update
<1>7. CASE LockOutput(p)
  <2> DEFINE r == [proc[p] EXCEPT !.pc = "locked"]
  <2>1. RecordOK(r)
    BY <1>7 DEF LockOutput, At, EnvInv, RecordOK, ProcType, RootPcs, AddPcs
  <2>2. proc' = [proc EXCEPT ![p] = r]
    BY <1>7 DEF LockOutput, Goto
  <2>3. EnvInv' /\ gc' = gc
    BY <1>7 DEF LockOutput, EnvInv, RecordOK, At, ProcType, RootPcs, AddPcs, storeVars, ghosts
  <2> HIDE DEF r
  <2> QED
    BY <2>1, <2>2, <2>3, Update
<1>8. CASE Restore(p)
  <2> DEFINE r == [proc[p] EXCEPT !.pc = "restored"]
  <2>1. RecordOK(r)
    BY <1>8 DEF Restore, At, EnvInv, RecordOK, ProcType, RootPcs, AddPcs
  <2>2. proc' = [proc EXCEPT ![p] = r]
    BY <1>8 DEF Restore, Goto
  <2>3. EnvInv' /\ gc' = gc
    BY <1>8 DEF Restore, EnvInv, RecordOK, At, ProcType, RootPcs, AddPcs, storeVars, ghosts
  <2> HIDE DEF r
  <2> QED
    BY <2>1, <2>2, <2>3, Update
<1>9. CASE QueryValid(p)
  <2> DEFINE r == [proc[p] EXCEPT !.pc = "locking"]
  <2>1. proc[p].pc \in AddPcs /\ EnvInv' /\ gc' = gc
    BY <1>9 DEF QueryValid, EnvInv, At, AddPcs, storeVars, ghosts
  <2>2. RecordOK(r)
    BY <2>1 DEF RecordOK, ProcType, RootPcs, AddPcs
  <2>3. proc' = [proc EXCEPT ![p] = r] \/ Done(p, {}) \/ Done(p, {proc[p].target})
    BY <1>9 DEF QueryValid, Goto
  <2> HIDE DEF r
  <2> QED
    BY <1>0, <1>00, <2>1, <2>2, <2>3, Update
<1>10. CASE Recheck(p)
  <2> DEFINE r == [proc[p] EXCEPT !.pc = "wiped"]
  <2>1. proc[p].pc \in AddPcs /\ EnvInv' /\ gc' = gc
    BY <1>10 DEF Recheck, EnvInv, At, AddPcs, ghosts
  <2>2. RecordOK(r)
    BY <2>1 DEF RecordOK, ProcType, RootPcs, AddPcs
  <2>3. proc' = [proc EXCEPT ![p] = r] \/ Done(p, {proc[p].target})
    BY <1>10 DEF Recheck, Goto
  <2> HIDE DEF r
  <2> QED
    BY <1>0, <1>00, <2>1, <2>2, <2>3, Update
<1>11. CASE Register(p)
  <2>1. proc[p].pc \in AddPcs /\ proc[p].target \in Paths /\ gc' = gc
    BY <1>11 DEF Register, At, AddPcs, RecordOK
  <2>2. EnvInv'
    BY <1>11, <2>1 DEF Register, EnvInv, ghosts
  <2>3. Done(p, {}) \/ Done(p, {proc[p].target})
    BY <1>11 DEF Register
  <2> QED
    BY <1>0, <1>00, <2>1, <2>2, <2>3, Update
<1>12. CASE LinkRoot(p)
  <2>1. proc[p].pc \in AddPcs /\ proc[p].target \in Paths /\ gc' = gc
    BY <1>12 DEF LinkRoot, At, AddPcs, RecordOK
  <2>2. EnvInv'
    BY <1>12, <2>1 DEF LinkRoot, EnvInv, ghosts
  <2>3. Done(p, {})
    BY <1>12 DEF LinkRoot
  <2> QED
    BY <1>0, <1>00, <2>1, <2>2, <2>3, Update
<1>13. CASE ServerTake(p)
  <2> DEFINE r == [proc[p] EXCEPT !.pc = "queued"]
  <2>1. proc[p].pc = "sent" /\ EnvInv' /\ gc.pc # "idle"
    BY <1>13 DEF ServerTake, Connected, Serving, EnvInv, At, storeVars, ghosts
  <2>2. RecordOK(r)
    BY <2>1 DEF RecordOK, ProcType, RootPcs, AddPcs
  <2>3. proc' = [proc EXCEPT ![p] = r]
    BY <1>13 DEF ServerTake, Goto
  <2> HIDE DEF r
  <2> QED
    BY <2>1, <2>2, <2>3, Update
<1>14. CASE ServerAck(p)
  <2> DEFINE r == [proc[p] EXCEPT !.pc = "acked"]
  <2>1. proc[p].pc = "queued" /\ gc' = gc
    BY <1>14 DEF ServerAck, At
  <2>2. RecordOK(r) /\ proc[p].target \in Paths
    BY <2>1 DEF RecordOK, ProcType, RootPcs, AddPcs
  <2>3. proc' = [proc EXCEPT ![p] = r]
    BY <1>14 DEF ServerAck, Goto
  <2>4. EnvInv'
    BY <1>14, <2>2 DEF ServerAck, EnvInv, storeVars
  <2> HIDE DEF r
  <2> QED
    BY <2>1, <2>2, <2>3, <2>4, Update
<1>15. CASE Exit(p)
  <2>1. PICK f \in {"none", "stale"} :
          proc' = [proc EXCEPT ![p] = [NewProc EXCEPT !.pc = "dead",
                               !.file = IF proc[p].file = "none" THEN "none" ELSE f]]
    BY <1>15 DEF Exit
  <2> DEFINE r == [NewProc EXCEPT !.pc = "dead", !.file = IF proc[p].file = "none" THEN "none" ELSE f]
  <2>2. RecordOK(r)
    BY DEF RecordOK, NewProc, ProcType, RootPcs, AddPcs
  <2>3. EnvInv' /\ gc' = gc
    BY <1>15 DEF Exit, EnvInv, storeVars
  <2> HIDE DEF r
  <2> QED
    BY <2>1, <2>2, <2>3, Update DEF r
<1>16. CASE \E x \in Paths : AddTempRoot(p, x)
  <2>1. PICK x \in Paths : AddTempRoot(p, x)
    BY <1>16
  <2> DEFINE r == [proc[p] EXCEPT !.target = x, !.pc = IF proc[p].file = "held" THEN "try" ELSE "open"]
  <2>2. RecordOK(r)
    BY DEF RecordOK, ProcType, RootPcs, AddPcs
  <2>3. proc' = [proc EXCEPT ![p] = r]
    BY <2>1 DEF AddTempRoot
  <2>4. EnvInv' /\ gc' = gc
    BY <2>1 DEF AddTempRoot, EnvInv, storeVars, ghosts
  <2> HIDE DEF r
  <2> QED
    BY <2>2, <2>3, <2>4, Update
<1> QED
  BY <1>1, <1>2, <1>3, <1>4, <1>5, <1>6, <1>7, <1>8, <1>9, <1>10, <1>11, <1>12, <1>13, <1>14, <1>15, <1>16 DEF ProcStep, ServerStep

(* The collector's steps.                                                  *)
LEMMA GcStepStays == ProcInv /\ (GcStep \/ GcLock \/ GcCrash) => ProcInv'
<1> SUFFICES ASSUME ProcInv, GcStep \/ GcLock \/ GcCrash PROVE ProcInv'
  OBVIOUS
<1>0. EnvInv
  BY DEF ProcInv
<1>1. ASSUME NEW p \in Procs, GcFindTempRoots(p) PROVE ProcInv'
  <2> DEFINE r == [proc[p] EXCEPT !.file = CASE @ = "opened" -> "marked"
                                             [] @ = "stale" -> "none"
                                             [] OTHER -> @]
  <2>1. RecordOK(r)
    BY TheRecord DEF RecordOK, ProcType
  <2>2. proc' = [proc EXCEPT ![p] = r] /\ gc.pc # "idle"
    BY <1>1 DEF GcFindTempRoots
  <2>3. EnvInv'
    <3>1. proc[p].pc = "acked" => proc[p].target \in Paths
      BY TheRecord DEF RecordOK, RootPcs
    <3> QED
      BY <1>0, <1>1, <3>1 DEF GcFindTempRoots, EnvInv, At, storeVars
  <2> HIDE DEF r
  <2> QED
    BY <2>1, <2>2, <2>3, Update
<1>2. ASSUME NEW x \in Paths, GcInvalidate(x) PROVE ProcInv'
  BY <1>0, <1>2, Frame DEF GcInvalidate, EnvInv
<1>3. CASE GcUnlink
  BY <1>0, <1>3, Frame DEF GcUnlink, EnvInv, ghosts
<1>4. CASE GcLock
  BY <1>0, <1>4, Frame DEF GcLock, EnvInv, storeVars, ghosts
<1>5. ASSUME gc.pc # "idle", UNCHANGED <<storeVars, proc, epoch, ghosts>> PROVE ProcInv'
  BY <1>0, <1>5, Frame DEF EnvInv, storeVars, ghosts
<1>6. ASSUME GcListen \/ GcFindRoots \/ GcOpenStore \/ GcExpand \/ GcCondemn \/ GcRelease
             \/ GcDone \/ GcCrash
      PROVE ProcInv'
  BY <1>5, <1>6 DEF GcListen, GcFindRoots, GcOpenStore, GcExpand, GcCondemn, GcRelease, GcDone, GcCrash
<1>7. ASSUME NEW x \in Paths, GcStart(x) \/ GcVisit(x) PROVE ProcInv'
  BY <1>5, <1>7 DEF GcStart, GcVisit
<1> QED
  BY <1>1, <1>2, <1>3, <1>4, <1>6, <1>7 DEF GcStep

LEMMA ProcStays == ProcInv /\ [Next]_vars => ProcInv'
<1> SUFFICES ASSUME ProcInv, [Next]_vars PROVE ProcInv'
  OBVIOUS
<1>1. ASSUME NEW x \in Paths, UnlinkRoot(x) PROVE ProcInv'
  BY <1>1, Frame DEF ProcInv, UnlinkRoot, EnvInv, ghosts
<1>2. CASE UNCHANGED vars
  BY <1>2 DEF vars, ProcInv, EnvInv, RecordOK
<1> QED
  BY <1>1, <1>2, ProcStepStays, GcStepStays DEF Next

LEMMA ProcAlways == Spec => []ProcInv
  BY ProcInit, ProcStays, PTL DEF Spec

(* The type invariant: what a process uses it has rooted, and nobody holds *)
(* the shared lock of addTempRoot while a collection runs.                 *)
THEOREM TypeCorrect == Spec => []TypeOK
  BY ProcInvType, ProcAlways, PTL

-----------------------------------------------------------------------------
(* The database                                                            *)

LEMMA ValidStays == ProcInv /\ ValidClosed /\ [Next]_vars => ValidClosed'
<1> SUFFICES ASSUME ProcInv, ValidClosed, [Next]_vars, valid' # valid PROVE ValidClosed'
  BY DEF ValidClosed, Closed
<1>0. valid \subseteq Paths
  BY DEF ProcInv, EnvInv
<1>1. ASSUME NEW p \in Procs, Register(p) PROVE ValidClosed'
  BY <1>0, <1>1 DEF Register, ValidClosed, Closed
<1>2. ASSUME NEW x \in Paths, GcInvalidate(x) PROVE ValidClosed'
  <2>1. ~StillReferred(x) /\ x \in valid /\ valid' = valid \ {x}
    BY <1>2 DEF GcInvalidate
  <2> QED
    BY <2>1 DEF StillReferred, Referrers, ValidClosed, Closed
<1>3. ASSUME NEW p \in Procs, ProcStep(p) \/ ServerStep(p) \/ LinkRoot(p) \/ Exit(p)
                              \/ \E x \in Paths : AddTempRoot(p, x)
      PROVE Register(p)
  BY <1>3 DEF ProcStep, ServerStep, LinkRoot, Exit, AddTempRoot, OpenTempRoots, LockTempRoots,
       TryShared, Connect, Disconnected, AppendRoot, QueryValid, LockOutput, Recheck, Restore,
       ServerTake, ServerAck, storeVars
<1>4. ASSUME GcStep \/ GcLock \/ GcCrash PROVE \E x \in Paths : GcInvalidate(x)
  BY <1>4 DEF GcStep, GcLock, GcCrash, GcListen, GcFindRoots, GcFindTempRoots, GcOpenStore,
       GcStart, GcVisit, GcExpand, GcCondemn, GcUnlink, GcRelease, GcDone, storeVars
<1>5. ~UNCHANGED vars /\ \A x \in Paths : ~UnlinkRoot(x)
  BY DEF vars, UnlinkRoot
<1> QED
  BY <1>1, <1>2, <1>3, <1>4, <1>5 DEF Next

(* The database never holds a path without its references: a path is       *)
(* registered in the transaction that finds its references valid, and      *)
(* invalidated in the one that finds no referrer.                          *)
THEOREM ValidIsClosed == Spec => []ValidClosed
<1>1. Init => ValidClosed
  BY DEF Init, ValidClosed
<1> QED
  BY <1>1, ProcAlways, ValidStays, PTL DEF Spec

-----------------------------------------------------------------------------
(* Closures                                                                *)

LEMMA ClosureHolds == ASSUME NEW S \in SUBSET Paths PROVE S \subseteq Closure(S)
BY DEF Closure

LEMMA ClosureGrows ==
    ASSUME NEW S, NEW T, S \subseteq T
    PROVE  Closure(S) \subseteq Closure(T)
BY DEF Closure

LEMMA ClosureTransitive ==
    ASSUME NEW S \in SUBSET Paths, NEW x \in Closure(S)
    PROVE  Closure({x}) \subseteq Closure(S)
BY DEF Closure

(* What is reachable from a path is reachable from its referrers.          *)
LEMMA ClosureReferrer ==
    ASSUME NEW z \in Paths, NEW x \in refs[z], NEW s \in Closure({x})
    PROVE  s \in Closure({z})
<1>1. x \in Closure({z})
  BY PathsAssumption DEF Closure, Closed
<1> QED
  BY <1>1, ClosureTransitive

-----------------------------------------------------------------------------
(* The collector                                                           *)

(* What it remembers of a path are referrers of it.                        *)
Caches == UNION {{c \in [S -> SUBSET Paths] : \A x \in S : \A z \in c[x] : x \in refs[z]}
                 : S \in SUBSET Paths}

GcType == [pc : {"idle", "exclusive", "listen", "temp", "next", "pop", "expand", "doom", "unlink"},
           roots : SUBSET Paths, temp : SUBSET Paths, files : SUBSET Procs,
           unread : SUBSET Paths, start : Paths \cup {NoPath}, visited : SUBSET Paths,
           todo : SUBSET Paths, cur : Paths \cup {NoPath}, pending : Paths \cup {NoPath},
           doomed : SUBSET Paths, dead : SUBSET Paths, alive : SUBSET Paths, cache : Caches]

(* Every visited path reaches the one where the search began.              *)
SearchOK(g) ==
    /\ g \in GcType
    /\ g.todo \subseteq g.visited
    /\ g.pc = "expand" => g.cur \in g.visited
    /\ \A v \in g.visited : g.start \in Closure({v})
    /\ g.pc \in {"idle", "exclusive", "listen"} => g.roots = {}
    /\ g.alive \subseteq Closure(g.roots \cup g.temp)

LEMMA CacheEmpty == [x \in {} |-> {}] \in Caches
<1>1. [x \in {} |-> {}] \in [{} -> SUBSET Paths]
  OBVIOUS
<1> QED
  BY <1>1 DEF Caches

LEMMA CacheTyped ==
    ASSUME NEW c \in Caches
    PROVE  /\ DOMAIN c \subseteq Paths
           /\ \A x \in DOMAIN c : c[x] \subseteq Paths /\ \A z \in c[x] : x \in refs[z]
BY DEF Caches

LEMMA CacheAdds ==
    ASSUME NEW c \in Caches, NEW x \in Paths, NEW F \in SUBSET Paths, \A z \in F : x \in refs[z]
    PROVE  [z \in DOMAIN c \cup {x} |-> IF z = x THEN F ELSE c[z]] \in Caches
<1> DEFINE S == DOMAIN c \cup {x}
           d == [z \in S |-> IF z = x THEN F ELSE c[z]]
<1>1. S \in SUBSET Paths
  BY CacheTyped
<1>2. d \in [S -> SUBSET Paths]
  BY CacheTyped
<1>3. \A y \in S : \A z \in d[y] : y \in refs[z]
  BY CacheTyped
<1> QED
  BY <1>1, <1>2, <1>3 DEF Caches

LEMMA CacheDrops ==
    ASSUME NEW c \in Caches, NEW x
    PROVE  [z \in DOMAIN c \ {x} |-> c[z]] \in Caches
<1> DEFINE S == DOMAIN c \ {x}
           d == [z \in S |-> c[z]]
<1>1. S \in SUBSET Paths
  BY CacheTyped
<1>2. d \in [S -> SUBSET Paths]
  BY CacheTyped
<1>3. \A y \in S : \A z \in d[y] : y \in refs[z]
  BY CacheTyped
<1> QED
  BY <1>1, <1>2, <1>3 DEF Caches

LEMMA NoGCOK == SearchOK(NoGC)
  BY CacheEmpty DEF SearchOK, NoGC, GcType

(* More roots, no other change to the search.                              *)
LEMMA MoreRoots ==
    ASSUME SearchOK(gc), NEW S \in SUBSET Paths, NEW F \in SUBSET Procs
    PROVE  SearchOK([gc EXCEPT !.temp = @ \cup S, !.files = F])
<1> DEFINE g == [gc EXCEPT !.temp = @ \cup S, !.files = F]
<1>1. g \in GcType
  BY DEF SearchOK, GcType
<1>2. gc.roots \cup gc.temp \subseteq g.roots \cup g.temp
  BY DEF SearchOK, GcType
<1>3. Closure(gc.roots \cup gc.temp) \subseteq Closure(g.roots \cup g.temp)
  BY <1>2, ClosureGrows
<1> QED
  BY <1>1, <1>3 DEF SearchOK, GcType

(* A search that ends with more known to be alive.                         *)
LEMMA LeaveOK ==
    ASSUME SearchOK(gc), gc.pc \notin {"idle", "exclusive", "listen"},
           NEW T, NEW A, A \subseteq Closure(gc.roots \cup gc.temp)
    PROVE  /\ SearchOK(Leave([[gc EXCEPT !.todo = T] EXCEPT !.alive = @ \cup A]))
           /\ SearchOK(Leave(gc))
<1>1. A \subseteq Paths
  BY DEF Closure
<1> QED
  BY <1>1 DEF SearchOK, Leave, GcType

LEMMA SearchInit == Init => SearchOK(gc)
  BY NoGCOK DEF Init

(* The server's thread and the reading of a file only add roots.           *)
LEMMA RootsArrive ==
    ASSUME ProcInv, SearchOK(gc), NEW p \in Procs, ServerTake(p) \/ GcFindTempRoots(p)
    PROVE  SearchOK(gc')
<1>1. CASE ServerTake(p)
  <2>1. proc[p].target \in Paths
    BY <1>1, TheRecord DEF ServerTake, At, RecordOK, RootPcs
  <2>2. gc' = [gc EXCEPT !.temp = @ \cup {proc[p].target}, !.files = gc.files]
    BY <1>1 DEF ServerTake, SearchOK, GcType
  <2>3. gc.files \in SUBSET Procs
    BY DEF SearchOK, GcType
  <2> QED
    BY <2>1, <2>2, <2>3, MoreRoots
<1>2. CASE GcFindTempRoots(p)
  <2> DEFINE F == gc.files \ {p}
             S == IF proc[p].file = "held" THEN proc[p].roots ELSE {}
  <2>1. S \in SUBSET Paths
    BY TheRecord DEF RecordOK, ProcType
  <2>2. F \in SUBSET Procs
    BY DEF SearchOK, GcType
  <2>3. gc' = [gc EXCEPT !.temp = @ \cup S, !.files = F]
    BY <1>2 DEF GcFindTempRoots, SearchOK, GcType
  <2> QED
    BY <2>1, <2>2, <2>3, MoreRoots
<1> QED
  BY <1>1, <1>2

LEMMA VisitOK == ASSUME SearchOK(gc), NEW x \in Paths, GcVisit(x) PROVE SearchOK(gc')
<1> DEFINE R == gc.roots \cup gc.temp
           g == [gc EXCEPT !.todo = @ \ {x}]
<1>1. R \in SUBSET Paths /\ gc.pc = "pop" /\ x \in gc.todo /\ gc.start \in Closure({x})
  BY DEF GcVisit, SearchOK, GcType
<1>2. CASE x \in gc.alive
  <2>1. {gc.start} \subseteq Closure(R)
    BY <1>1, <1>2, ClosureTransitive DEF SearchOK
  <2>2. gc' = Leave([g EXCEPT !.alive = @ \cup {gc.start}])
    BY <1>2 DEF GcVisit
  <2> QED
    BY <1>1, <2>1, <2>2, LeaveOK
<1>3. CASE x \notin gc.alive /\ IsRoot(x) /\ x \notin gc.dead
  <2>1. x \in Closure(R)
    BY <1>1, <1>3, ClosureHolds DEF IsRoot
  <2>2. MarkAlive(x) \subseteq Closure(R)
    BY <1>1, <2>1, ClosureTransitive DEF MarkAlive
  <2>3. gc' = Leave([g EXCEPT !.alive = @ \cup MarkAlive(x)])
    BY <1>3 DEF GcVisit
  <2> QED
    BY <1>1, <2>2, <2>3, LeaveOK
<1>4. CASE gc' = g
  BY <1>4 DEF SearchOK, GcType
<1>5. CASE gc' = [g EXCEPT !.pc = "expand", !.cur = x, !.pending = x]
  BY <1>1, <1>5 DEF SearchOK, GcType
<1> QED
  BY <1>2, <1>3, <1>4, <1>5 DEF GcVisit

LEMMA ExpandOK == ASSUME ProcInv, SearchOK(gc), GcExpand PROVE SearchOK(gc')
<1> DEFINE x == gc.cur
           found == IF x \notin valid THEN {}
                    ELSE IF x \in DOMAIN gc.cache THEN gc.cache[x] ELSE Referrers(x)
           c == IF x \in valid
                THEN [z \in DOMAIN gc.cache \cup {x} |-> IF z = x THEN found ELSE gc.cache[z]]
                ELSE gc.cache
<1>1. gc.pc = "expand" /\ x \in gc.visited /\ x \in Paths /\ gc.cache \in Caches
  BY DEF GcExpand, SearchOK, GcType
<1>2. found \in SUBSET Paths /\ \A z \in found : x \in refs[z]
  <2>1. valid \subseteq Paths
    BY DEF ProcInv, EnvInv
  <2> QED
    BY <1>1, <2>1, CacheTyped DEF Referrers
<1>3. c \in Caches
  BY <1>1, <1>2, CacheAdds
<1>4. gc' = [gc EXCEPT !.pc = "pop", !.cur = NoPath, !.visited = @ \cup found,
                       !.todo = @ \cup (found \ gc.visited), !.cache = c]
  BY DEF GcExpand
<1>5. \A v \in gc.visited \cup found : gc.start \in Closure({v})
  <2>1. gc.start \in Closure({x})
    BY <1>1 DEF SearchOK
  <2> QED
    BY <1>2, <2>1, ClosureReferrer DEF SearchOK
<1> HIDE DEF found, c
<1> QED
  BY <1>1, <1>2, <1>3, <1>4, <1>5 DEF SearchOK, GcType

LEMMA SearchStays == ProcInv /\ SearchOK(gc) /\ [Next]_vars => SearchOK(gc)'
<1> SUFFICES ASSUME ProcInv, SearchOK(gc), [Next]_vars, gc' # gc PROVE SearchOK(gc')
  BY DEF SearchOK
<1>1. ASSUME NEW p \in Procs, ProcStep(p) \/ ServerStep(p) \/ LinkRoot(p) \/ Exit(p)
                              \/ \E x \in Paths : AddTempRoot(p, x)
      PROVE ServerTake(p)
  BY <1>1 DEF ProcStep, ServerStep, LinkRoot, Exit, AddTempRoot, OpenTempRoots, LockTempRoots,
       TryShared, Connect, Disconnected, AppendRoot, QueryValid, LockOutput, Recheck, Restore,
       Register, ServerAck
<1>2. ~UNCHANGED vars /\ \A x \in Paths : ~UnlinkRoot(x)
  BY DEF vars, UnlinkRoot
<1>3. CASE GcLock \/ GcListen
  BY <1>3 DEF GcLock, GcListen, SearchOK, GcType
<1>4. CASE GcFindRoots
  <2>1. gc.pc = "listen" /\ valid \subseteq Paths
    BY <1>4 DEF GcFindRoots, ProcInv, EnvInv
  <2>2. gc' = [gc EXCEPT !.pc = "temp", !.roots = gcroots \cap valid, !.files = Procs]
    BY <1>4 DEF GcFindRoots
  <2>3. gc.roots \cup gc.temp \subseteq gc'.roots \cup gc'.temp
    BY <2>1, <2>2 DEF SearchOK, GcType
  <2>4. gc.alive \subseteq Closure(gc'.roots \cup gc'.temp)
    BY <2>3, ClosureGrows DEF SearchOK
  <2> QED
    BY <2>1, <2>2, <2>4 DEF SearchOK, GcType
<1>5. CASE GcOpenStore
  <2>1. disk \subseteq Paths
    BY DEF ProcInv, EnvInv
  <2> QED
    BY <1>5, <2>1 DEF GcOpenStore, SearchOK, GcType
<1>6. ASSUME NEW x \in Paths, GcStart(x) PROVE SearchOK(gc')
  <2>1. x \in Closure({x})
    BY ClosureHolds
  <2> QED
    BY <1>6, <2>1 DEF GcStart, SearchOK, GcType
<1>7. CASE GcCondemn
  BY <1>7 DEF GcCondemn, SearchOK, GcType
<1>8. ASSUME NEW x \in Paths, GcInvalidate(x) PROVE SearchOK(gc')
  <2> DEFINE g == [gc EXCEPT !.doomed = @ \ {x}, !.dead = @ \cup {x}]
  <2>1. gc.pc = "doom" /\ (gc' = g \/ gc' = [g EXCEPT !.pc = "unlink", !.cur = x])
    BY <1>8 DEF GcInvalidate
  <2>2. SearchOK(g) /\ g.pc = "doom"
    BY <2>1 DEF SearchOK, GcType
  <2> HIDE DEF g
  <2>3. SearchOK([g EXCEPT !.pc = "unlink", !.cur = x])
    BY <2>2 DEF SearchOK, GcType
  <2> QED
    BY <2>1, <2>2, <2>3
<1>9. CASE GcUnlink
  <2> DEFINE c == [z \in DOMAIN gc.cache \ {gc.cur} |-> gc.cache[z]]
  <2>1. c \in Caches
    BY CacheDrops DEF SearchOK, GcType
  <2>2. gc.pc = "unlink"
        /\ (gc' = NoGC \/ gc' = [gc EXCEPT !.pc = "doom", !.cur = NoPath, !.cache = c])
    BY <1>9 DEF GcUnlink
  <2> HIDE DEF c
  <2> QED
    BY <2>1, <2>2, NoGCOK DEF SearchOK, GcType
<1>10. CASE GcRelease
  BY <1>10, LeaveOK DEF GcRelease
<1>11. CASE GcDone \/ GcCrash
  BY <1>11, NoGCOK DEF GcDone, GcCrash
<1> QED
  BY <1>1, <1>2, <1>3, <1>4, <1>5, <1>6, <1>7, <1>8, <1>9, <1>10, <1>11,
     RootsArrive, VisitOK, ExpandOK DEF Next, GcStep

(* The collector keeps only what a root reaches: each path its search      *)
(* visits reaches the one where the search began, so a root found on the   *)
(* way keeps that path alive and no other, and the referrers it remembers  *)
(* are referrers for good, because references do not change.               *)
THEOREM AliveOnlyReachable == Spec => []AliveIsReachable
<1>1. SearchOK(gc) => AliveIsReachable
  BY DEF SearchOK, AliveIsReachable
<1> QED
  BY <1>1, SearchInit, SearchStays, ProcAlways, PTL DEF Spec

-----------------------------------------------------------------------------
(* What the collector may not touch.  The four properties below are about  *)
(* all parts of the state at once; their invariant is stated of a state    *)
(* (pr, g, e, v, d, gr): processes, collector, epoch, valid, disk,         *)
(* gcroots.                                                                *)

Early(g) == g.pc \in {"idle", "exclusive", "listen"}
Late(g) == g.pc \in {"next", "pop", "expand", "doom", "unlink"}

(* The collector will still read the file of process p.                    *)
ToBeRead(p, g) == Early(g) \/ (g.pc = "temp" /\ p \in g.files)

(* The connection of a process is to the collection that runs.             *)
Heard(r, g, e) == g.pc \notin {"idle", "exclusive"} /\ r.conn = e

(* The roots that the collector knows.                                     *)
Known(g) == g.roots \cup g.temp

(* The roots that it has to honour: permanent ones, those in files, and    *)
(* those acknowledged but not yet in a file.                               *)
Rooted(pr, gr) ==
    gr \cup {x \in Paths : \E p \in Procs : \/ x \in pr[p].roots
                                            \/ pr[p].pc = "acked" /\ x = pr[p].target}

(* The paths that it has found not to be roots, in the search that goes on.*)
Judged(g) == (g.visited \ g.todo) \ g.dead

RefersIn(v, x) == {z \in v : x \in refs[z]}

Locked == {"try", "connect", "sent", "queued", "shared", "acked"} \cup AddPcs

(* One process: every root in its file, or acknowledged, is known to the   *)
(* collector or will be; what it uses is valid; it adds a path only to the *)
(* references that it uses.                                                *)
Rec(p, r, g, e, v, d) ==
    /\ r.roots # {} \/ r.pc \in Locked => r.file = "held"
    /\ r.pc \in {"open", "lock"} => r.file # "held"
    /\ r.conn <= e /\ (g.pc = "exclusive" => r.conn < e)
    /\ r.pc \in {"queued", "acked"} /\ Heard(r, g, e) => r.target \in g.temp
    /\ ToBeRead(p, g) \/ r.roots \subseteq g.temp
    /\ r.pc = "acked" => ToBeRead(p, g) \/ Heard(r, g, e)
    /\ r.used \subseteq v
    /\ r.pc = "restored" => r.target \in d
    /\ r.pc \in AddPcs \ {"rooted"} => refs[r.target] \subseteq r.used

(* A permanent root is known, or the process that linked it still has it   *)
(* in a file that will be read.                                            *)
Links(pr, g, gr) ==
    \A x \in gr : \/ Early(g) \/ x \in Known(g)
                  \/ g.pc = "temp" /\ \E p \in g.files : x \in pr[p].roots

(* One process at a time holds the lock of an output.                      *)
Apart(pr) ==
    \A p, q \in Procs : p # q /\ pr[p].pc \in HoldsOutput /\ pr[q].pc \in HoldsOutput
                        => pr[p].target # pr[q].target

(* Where the collector is in its search.                                   *)
Order(g) ==
    /\ ~Late(g) => g.visited = {} /\ g.todo = {} /\ g.dead = {} /\ g.doomed = {} /\ DOMAIN g.cache = {}
    /\ g.pc \in {"doom", "unlink"} =>
         g.todo = {} /\ g.doomed \subseteq g.visited /\ g.visited \subseteq g.doomed \cup g.dead
    /\ g.pc = "expand" => g.cur \in Judged(g)

(* No root, of U, is judged.  The referrers of a judged path are visited:  *)
(* a path is registered only by who has rooted its references, so a judged *)
(* path gains no referrer, and the cache of referrers is complete but for  *)
(* roots.  A path deleted in this collection and registered again refers   *)
(* to roots only.                                                          *)
Search(g, v, U) ==
    /\ U \cap Judged(g) = {}
    /\ g.pc = "unlink" => g.cur \notin U /\ g.cur \notin v
    /\ \A x \in Judged(g) : ~(g.pc = "expand" /\ g.cur = x) => RefersIn(v, x) \subseteq g.visited
    /\ g.pc = "expand" /\ g.cur \in DOMAIN g.cache => RefersIn(v, g.cur) \subseteq g.cache[g.cur]
    /\ \A x \in DOMAIN g.cache : x \in Known(g) \/ RefersIn(v, x) \subseteq g.cache[x]
    /\ \A y \in v \cap g.dead : refs[y] \subseteq Known(g) /\ refs[y] \cap Judged(g) = {}

Safe(pr, g, e, v, d, gr) ==
    /\ \A p \in Procs : Rec(p, pr[p], g, e, v, d)
    /\ Links(pr, g, gr) /\ Apart(pr)
    /\ gr \subseteq v /\ v \subseteq d
    /\ Order(g) /\ Search(g, v, Rooted(pr, gr))

SafeInv == unsafe = {} => ~inUse /\ Safe(proc, gc, epoch, valid, disk, gcroots)

(* Everything that is proved of a state.                                   *)
AllInv == ProcInv /\ ValidClosed /\ SearchOK(gc) /\ SafeInv

LEMMA SafeInit == Init => SafeInv
<1> SUFFICES ASSUME Init PROVE ~inUse /\ Safe(proc, gc, epoch, valid, disk, gcroots)
  BY DEF SafeInv
<1>1. /\ proc = [p \in Procs |-> NewProc] /\ gc = NoGC /\ epoch = 0 /\ ~inUse
      /\ gcroots \subseteq valid /\ valid = disk
  BY DEF Init
<1>2. \A p \in Procs : Rec(p, proc[p], gc, epoch, valid, disk)
  BY <1>1 DEF Rec, NewProc, NoGC, Locked, AddPcs, ToBeRead, Early, Heard
<1>3. Links(proc, gc, gcroots) /\ Apart(proc)
  BY <1>1 DEF Links, Apart, Early, NoGC, NewProc, HoldsOutput
<1>4. Order(gc)
  BY <1>1 DEF Order, NoGC, Late
<1>5. Search(gc, valid, Rooted(proc, gcroots))
  BY <1>1 DEF Search, NoGC, Judged
<1> QED
  BY <1>1, <1>2, <1>3, <1>4, <1>5 DEF Safe

(* While the collector searches it knows every root.                       *)
LEMMA RootsKnown ==
    ASSUME NEW pr, NEW g, NEW e, NEW v, NEW d, NEW gr, Safe(pr, g, e, v, d, gr), Late(g)
    PROVE  Rooted(pr, gr) \subseteq Known(g)
<1>1. \A p : ~ToBeRead(p, g)
  BY DEF ToBeRead, Late, Early
<1>2. \A p \in Procs : pr[p].roots \subseteq g.temp /\ (pr[p].pc = "acked" => pr[p].target \in g.temp)
  BY <1>1 DEF Safe, Rec
<1>3. gr \subseteq Known(g)
  BY DEF Safe, Links, Late, Early
<1> QED
  BY <1>2, <1>3 DEF Rooted, Known

(* Fewer roots, or more of which none is judged.                           *)
LEMMA SearchRoots ==
    ASSUME NEW g, NEW v, NEW U, NEW W, Search(g, v, U),
           \A x \in W : x \in U \/ (x \notin Judged(g) /\ ~(g.pc = "unlink" /\ x = g.cur))
    PROVE  Search(g, v, W)
BY DEF Search

(* A path whose references are roots, itself a root, becomes valid.        *)
LEMMA SearchRegisters ==
    ASSUME NEW g, NEW v, NEW U, Search(g, v, U), Order(g), Late(g) => U \subseteq Known(g),
           NEW y, y \in U, refs[y] \subseteq U
    PROVE  Search(g, v \cup {y}, U)
<1>1. \A x \in Judged(g) : RefersIn(v \cup {y}, x) \subseteq RefersIn(v, x)
  BY DEF Search, RefersIn
<1>2. \A x \in DOMAIN g.cache : x \in Known(g) \/ RefersIn(v \cup {y}, x) \subseteq RefersIn(v, x)
  BY DEF Order, RefersIn
<1>3. \A z \in (v \cup {y}) \cap g.dead : refs[z] \subseteq Known(g) /\ refs[z] \cap Judged(g) = {}
  BY DEF Order, Search
<1>4. g.pc = "expand" => g.cur \in Judged(g)
  BY DEF Order
<1> QED
  BY <1>1, <1>2, <1>3, <1>4 DEF Search

(* More roots become known.                                                *)
LEMMA SearchLearns ==
    ASSUME NEW g \in GcType, NEW v, NEW U, Search(g, v, U), NEW S
    PROVE  Search([g EXCEPT !.temp = @ \cup S], v, U)
<1> DEFINE h == [g EXCEPT !.temp = @ \cup S]
<1>1. /\ h.pc = g.pc /\ h.cur = g.cur /\ h.visited = g.visited /\ h.cache = g.cache /\ h.dead = g.dead
      /\ h.todo = g.todo /\ Known(g) \subseteq Known(h)
  BY DEF GcType, Known
<1>2. Judged(h) = Judged(g)
  BY <1>1 DEF Judged
<1> HIDE DEF h
<1>3. /\ U \cap Judged(h) = {} /\ (h.pc = "unlink" => h.cur \notin U /\ h.cur \notin v)
      /\ h.pc = "expand" /\ h.cur \in DOMAIN h.cache => RefersIn(v, h.cur) \subseteq h.cache[h.cur]
  BY <1>1, <1>2 DEF Search
<1>4. \A x \in Judged(h) : ~(h.pc = "expand" /\ h.cur = x) => RefersIn(v, x) \subseteq h.visited
  BY <1>1, <1>2 DEF Search
<1>5. \A x \in DOMAIN h.cache : x \in Known(h) \/ RefersIn(v, x) \subseteq h.cache[x]
  BY <1>1 DEF Search
<1>6. \A y \in v \cap h.dead : refs[y] \subseteq Known(h) /\ refs[y] \cap Judged(h) = {}
  <2>1. \A y \in v \cap h.dead : refs[y] \subseteq Known(g) /\ refs[y] \cap Judged(g) = {}
    BY <1>1 DEF Search
  <2> QED
    BY <1>1, <1>2, <2>1
<1>7. Search(h, v, U)
  BY <1>3, <1>4, <1>5, <1>6 DEF Search
<1> QED
  BY <1>7 DEF h

-----------------------------------------------------------------------------
(* The steps of a process                                                  *)

Alone(pr, p, r) ==
    r.pc \in HoldsOutput =>
        \A q \in Procs \ {p} : pr[q].pc \in HoldsOutput => pr[q].target # r.target

LEMMA Moved ==
    ASSUME NEW pr \in [Procs -> ProcType], NEW g, NEW e, NEW v, NEW d, NEW gr, Safe(pr, g, e, v, d, gr),
           NEW p \in Procs, NEW r, NEW s, s = [pr EXCEPT ![p] = r],
           NEW h, NEW w, NEW c, NEW l,
           Rec(p, r, h, e, w, c), \A q \in Procs \ {p} : Rec(q, pr[q], h, e, w, c),
           Alone(pr, p, r), Links(s, h, l), l \subseteq w, w \subseteq c, Order(h),
           Search(h, w, Rooted(s, l))
    PROVE  Safe(s, h, e, w, c, l)
<1>1. s[p] = r /\ \A q \in Procs \ {p} : s[q] = pr[q]
  OBVIOUS
<1>2. \A q \in Procs : Rec(q, s[q], h, e, w, c)
  BY <1>1
<1>3. Apart(s)
  <2>1. Apart(pr)
    BY DEF Safe
  <2> QED
    BY <1>1, <2>1 DEF Apart, Alone
<1> QED
  BY <1>2, <1>3 DEF Safe

(* Its roots are known, or not judged.                                     *)
LEMMA MovedRooting ==
    ASSUME NEW pr \in [Procs -> ProcType], NEW g \in GcType, NEW e, NEW v, NEW d, NEW gr,
           Safe(pr, g, e, v, d, gr), NEW p \in Procs, NEW r, pr[p].roots \subseteq r.roots,
           \A x \in Paths : x \in r.roots \/ (r.pc = "acked" /\ x = r.target) =>
               \/ x \in Rooted(pr, gr)
               \/ x \notin Judged(g) /\ ~(g.pc = "unlink" /\ x = g.cur),
           Rec(p, r, g, e, v, d), Alone(pr, p, r)
    PROVE  Safe([pr EXCEPT ![p] = r], g, e, v, d, gr)
<1> DEFINE s == [pr EXCEPT ![p] = r]
<1>1. s[p] = r /\ \A q \in Procs \ {p} : s[q] = pr[q]
  OBVIOUS
<1>2. s = [pr EXCEPT ![p] = r]
  OBVIOUS
<1> HIDE DEF s
<1>3. \A x \in Rooted(s, gr) : \/ x \in Rooted(pr, gr)
                               \/ x \notin Judged(g) /\ ~(g.pc = "unlink" /\ x = g.cur)
  BY <1>1 DEF Rooted
<1>4. Links(s, g, gr)
  <2>1. \A x \in gr : \/ Early(g) \/ x \in Known(g)
                      \/ g.pc = "temp" /\ \E q \in g.files : x \in pr[q].roots
    BY DEF Safe, Links
  <2>2. g.files \subseteq Procs
    BY DEF GcType
  <2> QED
    BY <1>1, <2>1, <2>2 DEF Links
<1>5. /\ gr \subseteq v /\ v \subseteq d /\ Order(g) /\ Search(g, v, Rooted(pr, gr))
      /\ \A q \in Procs \ {p} : Rec(q, pr[q], g, e, v, d)
  BY DEF Safe
<1>6. Search(g, v, Rooted(s, gr))
  BY <1>3, <1>5, SearchRoots
<1>7. Safe(s, g, e, v, d, gr)
  BY <1>2, <1>4, <1>5, <1>6, Moved
<1> QED
  BY <1>7 DEF s

(* One that appends no root and has none acknowledged.                     *)
LEMMA MovedOnly ==
    ASSUME NEW pr \in [Procs -> ProcType], NEW g \in GcType, NEW e, NEW v, NEW d, NEW gr,
           Safe(pr, g, e, v, d, gr), NEW p \in Procs, NEW r, r.roots = pr[p].roots, r.pc # "acked",
           Rec(p, r, g, e, v, d), Alone(pr, p, r)
    PROVE  Safe([pr EXCEPT ![p] = r], g, e, v, d, gr)
<1>1. \A x \in Paths : x \in r.roots => x \in Rooted(pr, gr)
  BY DEF Rooted
<1> QED
  BY <1>1, MovedRooting

SafeNext == ~inUse' /\ Safe(proc', gc', epoch', valid', disk', gcroots')

(* The facts about a process that the steps below use.                     *)
LEMMA SafeParts ==
    ASSUME AllInv, unsafe = {}, NEW p \in Procs
    PROVE  /\ Safe(proc, gc, epoch, valid, disk, gcroots) /\ ~inUse
           /\ proc \in [Procs -> ProcType] /\ gc \in GcType /\ epoch \in Nat
           /\ proc[p] \in ProcType /\ RecordOK(proc[p])
           /\ Rec(p, proc[p], gc, epoch, valid, disk)
           /\ valid \subseteq Paths /\ disk \subseteq Paths /\ Closed(valid)
           /\ gcroots \subseteq valid /\ valid \subseteq disk
           /\ Order(gc) /\ Search(gc, valid, Rooted(proc, gcroots))
           /\ Links(proc, gc, gcroots) /\ Apart(proc)
BY DEF AllInv, SafeInv, Safe, SearchOK, ProcInv, EnvInv, ValidClosed

LEMMA Quietly ==
    ASSUME AllInv, unsafe = {}, NEW p \in Procs, NEW r, proc' = [proc EXCEPT ![p] = r],
           r.roots = proc[p].roots, r.pc # "acked", Rec(p, r, gc, epoch, valid, disk), Alone(proc, p, r),
           UNCHANGED <<valid, disk, gcroots, gc, epoch, inUse>>
    PROVE  SafeNext
<1>1. /\ Safe(proc, gc, epoch, valid, disk, gcroots) /\ ~inUse
      /\ proc \in [Procs -> ProcType] /\ gc \in GcType
  BY SafeParts
<1>2. Safe([proc EXCEPT ![p] = r], gc, epoch, valid, disk, gcroots)
  BY <1>1, MovedOnly
<1> QED
  BY <1>1, <1>2 DEF SafeNext

(* The steps of addTempRoot before the root is recorded.                   *)
LEMMA AskingSafe ==
    ASSUME AllInv, unsafe = {}, NEW p \in Procs,
           \/ OpenTempRoots(p) \/ LockTempRoots(p) \/ TryShared(p) \/ Connect(p) \/ Disconnected(p)
           \/ \E x \in Paths : AddTempRoot(p, x)
    PROVE  SafeNext
<1>1. /\ proc[p] \in ProcType /\ Rec(p, proc[p], gc, epoch, valid, disk) /\ epoch \in Nat
      /\ proc[p].conn \in Nat
  BY SafeParts DEF ProcType
<1>2. ASSUME NEW r, proc' = [proc EXCEPT ![p] = r], r.roots = proc[p].roots,
             r.pc \in {"open", "lock", "try", "connect", "sent", "shared"},
             Rec(p, r, gc, epoch, valid, disk), UNCHANGED <<storeVars, gc, epoch, ghosts>>
      PROVE  SafeNext
  <2>1. Alone(proc, p, r)
    BY <1>2 DEF Alone, HoldsOutput
  <2> QED
    BY <1>2, <2>1, Quietly DEF storeVars, ghosts
<1>3. CASE OpenTempRoots(p)
  <2> DEFINE r == [proc[p] EXCEPT !.file = "opened", !.pc = "lock"]
  <2>1. proc' = [proc EXCEPT ![p] = r] /\ UNCHANGED <<storeVars, gc, epoch, ghosts>>
    BY <1>3 DEF OpenTempRoots
  <2>2. proc[p].pc = "open"
    BY <1>3 DEF OpenTempRoots, At
  <2>3. r.roots = proc[p].roots /\ r.pc \in {"open", "lock", "try", "connect", "sent", "shared"}
    BY <1>1 DEF ProcType
  <2>4. Rec(p, r, gc, epoch, valid, disk)
    BY <1>1, <2>2 DEF Rec, ProcType, Locked, AddPcs, Heard, Serving
  <2> HIDE DEF r
  <2> QED
    BY <1>2, <2>1, <2>3, <2>4
<1>4. CASE LockTempRoots(p)
  <2> DEFINE r == IF proc[p].file = "opened" THEN [proc[p] EXCEPT !.file = "held", !.pc = "try"]
               ELSE [proc[p] EXCEPT !.pc = "open"]
  <2>1. proc' = [proc EXCEPT ![p] = r] /\ UNCHANGED <<storeVars, gc, epoch, ghosts>>
    BY <1>4 DEF LockTempRoots
  <2>2. proc[p].pc = "lock"
    BY <1>4 DEF LockTempRoots, At
  <2>3. r.roots = proc[p].roots /\ r.pc \in {"open", "lock", "try", "connect", "sent", "shared"}
    BY <1>1 DEF ProcType
  <2>4. Rec(p, r, gc, epoch, valid, disk)
    BY <1>1, <2>2 DEF Rec, ProcType, Locked, AddPcs, Heard, Serving
  <2> HIDE DEF r
  <2> QED
    BY <1>2, <2>1, <2>3, <2>4
<1>5. CASE TryShared(p)
  <2> DEFINE r == [proc[p] EXCEPT !.pc = IF gc.pc = "idle" THEN "shared" ELSE "connect"]
  <2>1. proc' = [proc EXCEPT ![p] = r] /\ UNCHANGED <<storeVars, gc, epoch, ghosts>>
    BY <1>5 DEF TryShared, Goto
  <2>2. proc[p].pc = "try"
    BY <1>5 DEF TryShared, At
  <2>3. r.roots = proc[p].roots /\ r.pc \in {"open", "lock", "try", "connect", "sent", "shared"}
    BY <1>1 DEF ProcType
  <2>4. Rec(p, r, gc, epoch, valid, disk)
    BY <1>1, <2>2 DEF Rec, ProcType, Locked, AddPcs, Heard, Serving
  <2> HIDE DEF r
  <2> QED
    BY <1>2, <2>1, <2>3, <2>4
<1>6. CASE Connect(p)
  <2> DEFINE r == IF Serving /\ proc[p].conn \in {0, epoch}
               THEN [proc[p] EXCEPT !.conn = epoch, !.pc = "sent"]
               ELSE [proc[p] EXCEPT !.conn = 0, !.pc = "try"]
  <2>1. proc' = [proc EXCEPT ![p] = r] /\ UNCHANGED <<storeVars, gc, epoch, ghosts>>
    BY <1>6 DEF Connect
  <2>2. proc[p].pc = "connect"
    BY <1>6 DEF Connect, At
  <2>3. r.roots = proc[p].roots /\ r.pc \in {"open", "lock", "try", "connect", "sent", "shared"}
    BY <1>1 DEF ProcType
  <2>4. Rec(p, r, gc, epoch, valid, disk)
    BY <1>1, <2>2 DEF Rec, ProcType, Locked, AddPcs, Heard, Serving
  <2> HIDE DEF r
  <2> QED
    BY <1>2, <2>1, <2>3, <2>4
<1>7. CASE Disconnected(p)
  <2> DEFINE r == [proc[p] EXCEPT !.conn = 0, !.pc = "try"]
  <2>1. proc' = [proc EXCEPT ![p] = r] /\ UNCHANGED <<storeVars, gc, epoch, ghosts>>
    BY <1>7 DEF Disconnected
  <2>2. proc[p].pc \in {"sent", "queued"}
    BY <1>7 DEF Disconnected
  <2>3. r.roots = proc[p].roots /\ r.pc \in {"open", "lock", "try", "connect", "sent", "shared"}
    BY <1>1 DEF ProcType
  <2>4. Rec(p, r, gc, epoch, valid, disk)
    BY <1>1, <2>2 DEF Rec, ProcType, Locked, AddPcs, Heard, Serving
  <2> HIDE DEF r
  <2> QED
    BY <1>2, <2>1, <2>3, <2>4
<1>8. CASE \E x \in Paths : AddTempRoot(p, x)
  <2>1. PICK x \in Paths : AddTempRoot(p, x)
    BY <1>8
  <2> DEFINE r == [proc[p] EXCEPT !.target = x, !.pc = IF proc[p].file = "held" THEN "try" ELSE "open"]
  <2>2. proc' = [proc EXCEPT ![p] = r] /\ UNCHANGED <<storeVars, gc, epoch, ghosts>>
    BY <2>1 DEF AddTempRoot
  <2>3. r.roots = proc[p].roots /\ r.pc \in {"open", "lock", "try", "connect", "sent", "shared"}
    BY <1>1 DEF ProcType
  <2>4. Rec(p, r, gc, epoch, valid, disk)
    BY <1>1 DEF Rec, ProcType, Locked, AddPcs, Heard
  <2> HIDE DEF r
  <2> QED
    BY <1>2, <2>2, <2>3, <2>4
<1> QED
  BY <1>3, <1>4, <1>5, <1>6, <1>7, <1>8

(* The server's thread records a root.                                     *)
LEMMA TakeSafe ==
    ASSUME AllInv, unsafe = {}, NEW p \in Procs, ServerTake(p)
    PROVE  SafeNext
<1>1. /\ Safe(proc, gc, epoch, valid, disk, gcroots) /\ ~inUse
      /\ proc \in [Procs -> ProcType] /\ gc \in GcType /\ epoch \in Nat /\ proc[p] \in ProcType
      /\ gcroots \subseteq valid /\ valid \subseteq disk /\ Order(gc) /\ Links(proc, gc, gcroots)
      /\ Search(gc, valid, Rooted(proc, gcroots))
  BY SafeParts
<1> DEFINE r == [proc[p] EXCEPT !.pc = "queued"]
           S == {proc[p].target}
           h == [gc EXCEPT !.temp = @ \cup S]
           s == [proc EXCEPT ![p] = r]
<1>2. /\ proc[p].pc = "sent" /\ proc' = s /\ gc' = h
      /\ UNCHANGED <<valid, disk, gcroots, epoch, inUse>>
  BY DEF ServerTake, At, Goto, storeVars, ghosts
<1>3. /\ h.pc = gc.pc /\ h.files = gc.files /\ h.roots = gc.roots /\ gc.temp \subseteq h.temp
      /\ proc[p].target \in h.temp /\ h.visited = gc.visited /\ h.todo = gc.todo /\ h.dead = gc.dead
      /\ h.doomed = gc.doomed /\ h.cache = gc.cache /\ h.cur = gc.cur
  BY <1>1 DEF GcType
<1>4. Search(h, valid, Rooted(proc, gcroots))
  BY <1>1, SearchLearns
<1> HIDE DEF h
<1>5. Order(h)
  BY <1>1, <1>3 DEF Order, Late, Judged
<1>6. ASSUME NEW q \in Procs, NEW a, Rec(q, a, gc, epoch, valid, disk)
      PROVE  Rec(q, a, h, epoch, valid, disk)
  BY <1>3, <1>6 DEF Rec, ToBeRead, Early, Heard
<1>7. Rec(p, proc[p], h, epoch, valid, disk) /\ \A q \in Procs \ {p} : Rec(q, proc[q], h, epoch, valid, disk)
  BY <1>1, <1>6 DEF Safe
<1>8. Rec(p, r, h, epoch, valid, disk)
  BY <1>1, <1>2, <1>3, <1>7 DEF Rec, ProcType, Locked, AddPcs
<1>9. r.roots = proc[p].roots /\ r.pc = "queued"
  BY <1>1 DEF ProcType
<1>10. s[p] = r /\ \A q \in Procs \ {p} : s[q] = proc[q]
  BY <1>1
<1>11. s = [proc EXCEPT ![p] = r]
  OBVIOUS
<1> HIDE DEF r, s
<1>12. \A q \in Procs : s[q].roots = proc[q].roots /\ (s[q].pc = "acked" => s[q] = proc[q])
  BY <1>9, <1>10
<1>13. Rooted(s, gcroots) \subseteq Rooted(proc, gcroots)
  BY <1>12 DEF Rooted
<1>14. Search(h, valid, Rooted(s, gcroots))
  BY <1>4, <1>13, SearchRoots
<1>15. Links(s, h, gcroots)
  <2>1. gc.files \subseteq Procs
    BY <1>1 DEF GcType
  <2> QED
    BY <1>1, <1>3, <1>12, <2>1 DEF Links, Known, Early
<1>16. Alone(proc, p, r)
  BY <1>9 DEF Alone, HoldsOutput
<1>17. Safe(s, h, epoch, valid, disk, gcroots)
  BY <1>1, <1>5, <1>7, <1>8, <1>11, <1>14, <1>15, <1>16, Moved
<1> QED
  BY <1>1, <1>2, <1>17 DEF SafeNext

(* Acknowledged outside the window, or appended to the file.               *)
LEMMA AckSafe ==
    ASSUME AllInv, unsafe = {}, unsafe' = {}, NEW p \in Procs, ServerAck(p)
    PROVE  SafeNext
<1>1. /\ Safe(proc, gc, epoch, valid, disk, gcroots) /\ ~inUse
      /\ proc \in [Procs -> ProcType] /\ gc \in GcType /\ proc[p] \in ProcType
      /\ Rec(p, proc[p], gc, epoch, valid, disk)
  BY SafeParts
<1> DEFINE r == [proc[p] EXCEPT !.pc = "acked"]
<1>2. /\ proc[p].pc = "queued" /\ Heard(proc[p], gc, epoch) /\ proc' = [proc EXCEPT ![p] = r]
      /\ UNCHANGED <<valid, disk, gcroots, gc, epoch, inUse>> /\ ~Condemned(proc[p].target)
  BY DEF ServerAck, At, Goto, Connected, Serving, Heard, storeVars
<1>3. r.roots = proc[p].roots /\ r.pc = "acked" /\ r.target = proc[p].target
  BY <1>1 DEF ProcType
<1>4. Rec(p, r, gc, epoch, valid, disk)
  BY <1>1, <1>2 DEF Rec, ProcType, Locked, AddPcs, Heard
<1>5. proc[p].target \notin Judged(gc) /\ ~(gc.pc = "unlink" /\ proc[p].target = gc.cur)
  BY <1>2 DEF Condemned, Judged
<1>6. \A x \in Paths : x \in r.roots => x \in Rooted(proc, gcroots)
  BY <1>3 DEF Rooted
<1>7. Alone(proc, p, r)
  BY <1>3 DEF Alone, HoldsOutput
<1> HIDE DEF r
<1>8. Safe([proc EXCEPT ![p] = r], gc, epoch, valid, disk, gcroots)
  BY <1>1, <1>3, <1>4, <1>5, <1>6, <1>7, MovedRooting
<1> QED
  BY <1>1, <1>2, <1>8 DEF SafeNext

LEMMA AppendSafe ==
    ASSUME AllInv, unsafe = {}, NEW p \in Procs, AppendRoot(p)
    PROVE  SafeNext
<1>1. /\ Safe(proc, gc, epoch, valid, disk, gcroots) /\ ~inUse /\ RecordOK(proc[p])
      /\ proc \in [Procs -> ProcType] /\ gc \in GcType /\ proc[p] \in ProcType
      /\ Rec(p, proc[p], gc, epoch, valid, disk) /\ Order(gc)
  BY SafeParts
<1> DEFINE r == [proc[p] EXCEPT !.roots = @ \cup {proc[p].target}, !.pc = "rooted"]
<1>2. /\ proc[p].pc \in {"shared", "acked"} /\ proc' = [proc EXCEPT ![p] = r]
      /\ UNCHANGED <<valid, disk, gcroots, gc, epoch, inUse>>
  BY DEF AppendRoot, storeVars, ghosts
<1>3. r.roots = proc[p].roots \cup {proc[p].target} /\ r.pc = "rooted"
  BY <1>1 DEF ProcType
<1>4. ToBeRead(p, gc) \/ r.roots \subseteq gc.temp
  <2>1. CASE proc[p].pc = "acked"
    BY <1>1, <1>3, <2>1 DEF Rec
  <2>2. CASE proc[p].pc = "shared"
    BY <1>1, <2>2 DEF RecordOK, ToBeRead, Early
  <2> QED
    BY <1>2, <2>1, <2>2
<1>5. Rec(p, r, gc, epoch, valid, disk)
  BY <1>1, <1>2, <1>4 DEF Rec, ProcType, Locked, AddPcs
<1>6. \A x \in Paths : x \in r.roots =>
        \/ x \in Rooted(proc, gcroots)
        \/ x \notin Judged(gc) /\ ~(gc.pc = "unlink" /\ x = gc.cur)
  <2>1. CASE proc[p].pc = "acked"
    BY <1>3, <2>1 DEF Rooted
  <2>2. CASE proc[p].pc = "shared"
    BY <1>1, <2>2 DEF RecordOK, Order, Late, Judged
  <2> QED
    BY <1>2, <2>1, <2>2
<1>7. Alone(proc, p, r)
  BY <1>3 DEF Alone, HoldsOutput
<1> HIDE DEF r
<1>8. Safe([proc EXCEPT ![p] = r], gc, epoch, valid, disk, gcroots)
  BY <1>1, <1>3, <1>5, <1>6, <1>7, MovedRooting
<1> QED
  BY <1>1, <1>2, <1>8 DEF SafeNext

(* What a process does with a rooted path, up to the registration.         *)
LEMMA QuerySafe ==
    ASSUME AllInv, unsafe = {}, NEW p \in Procs, QueryValid(p)
    PROVE  SafeNext
<1>1. /\ proc[p] \in ProcType /\ RecordOK(proc[p]) /\ Rec(p, proc[p], gc, epoch, valid, disk)
      /\ valid \subseteq disk
  BY SafeParts
<1>2. proc[p].pc = "rooted" /\ UNCHANGED <<valid, disk, gcroots, gc, epoch, inUse>>
  BY DEF QueryValid, At, storeVars, ghosts
<1>3. ASSUME NEW r, proc' = [proc EXCEPT ![p] = r], r.roots = proc[p].roots,
             r.pc \in {"idle", "locking"}, Rec(p, r, gc, epoch, valid, disk)
      PROVE  SafeNext
  <2>1. Alone(proc, p, r)
    BY <1>3 DEF Alone, HoldsOutput
  <2> QED
    BY <1>2, <1>3, <2>1, Quietly
<1>4. ASSUME NEW U, U \subseteq valid, Done(p, U)
      PROVE  SafeNext
  <2> DEFINE r == [proc[p] EXCEPT !.pc = "idle", !.target = NoPath, !.used = @ \cup U]
  <2>1. proc' = [proc EXCEPT ![p] = r]
    BY <1>4 DEF Done
  <2>2. r.roots = proc[p].roots /\ r.pc = "idle"
    BY <1>1 DEF ProcType
  <2>3. Rec(p, r, gc, epoch, valid, disk)
    BY <1>1, <1>2, <1>4 DEF Rec, ProcType, Locked, AddPcs, Heard
  <2> HIDE DEF r
  <2> QED
    BY <1>3, <2>1, <2>2, <2>3
<1>5. CASE refs[proc[p].target] \subseteq proc[p].used /\ Goto(p, "locking")
  <2> DEFINE r == [proc[p] EXCEPT !.pc = "locking"]
  <2>1. proc' = [proc EXCEPT ![p] = r]
    BY <1>5 DEF Goto
  <2>2. r.roots = proc[p].roots /\ r.pc = "locking"
    BY <1>1 DEF ProcType
  <2>3. Rec(p, r, gc, epoch, valid, disk)
    BY <1>1, <1>2, <1>5 DEF Rec, ProcType, Locked, AddPcs, Heard
  <2> HIDE DEF r
  <2> QED
    BY <1>3, <2>1, <2>2, <2>3
<1> QED
  BY <1>4, <1>5 DEF QueryValid

LEMMA LockOutputSafe ==
    ASSUME AllInv, unsafe = {}, NEW p \in Procs, LockOutput(p)
    PROVE  SafeNext
<1>1. proc[p] \in ProcType /\ Rec(p, proc[p], gc, epoch, valid, disk)
  BY SafeParts
<1> DEFINE r == [proc[p] EXCEPT !.pc = "locked"]
<1>2. /\ proc[p].pc = "locking" /\ proc' = [proc EXCEPT ![p] = r]
      /\ UNCHANGED <<valid, disk, gcroots, gc, epoch, inUse>>
      /\ \A q \in Procs : proc[q].target = proc[p].target => proc[q].pc \notin HoldsOutput
  BY DEF LockOutput, At, Goto, storeVars, ghosts
<1>3. r.roots = proc[p].roots /\ r.pc = "locked" /\ r.target = proc[p].target
  BY <1>1 DEF ProcType
<1>4. Rec(p, r, gc, epoch, valid, disk)
  BY <1>1, <1>2 DEF Rec, ProcType, Locked, AddPcs, Heard
<1> HIDE DEF r
<1>5. Alone(proc, p, r)
  BY <1>2, <1>3 DEF Alone
<1> QED
  BY <1>2, <1>3, <1>4, <1>5, Quietly

(* A process that keeps its roots, with no root acknowledged.              *)
LEMMA SameRoots ==
    ASSUME NEW pr \in [Procs -> ProcType], NEW g \in GcType, NEW gr, NEW p \in Procs, NEW r,
           r.roots = pr[p].roots, r.pc # "acked"
    PROVE  /\ Rooted([pr EXCEPT ![p] = r], gr) \subseteq Rooted(pr, gr)
           /\ Links(pr, g, gr) => Links([pr EXCEPT ![p] = r], g, gr)
<1> DEFINE s == [pr EXCEPT ![p] = r]
<1>1. s[p] = r /\ \A q \in Procs \ {p} : s[q] = pr[q]
  OBVIOUS
<1> HIDE DEF s
<1>2. \A q \in Procs : s[q].roots = pr[q].roots /\ (s[q].pc = "acked" => s[q] = pr[q])
  BY <1>1
<1>3. Rooted(s, gr) \subseteq Rooted(pr, gr)
  BY <1>2 DEF Rooted
<1>4. Links(pr, g, gr) => Links(s, g, gr)
  <2>1. g.files \subseteq Procs
    BY DEF GcType
  <2> QED
    BY <1>2, <2>1 DEF Links
<1> QED
  BY <1>3, <1>4 DEF s

(* It changes the contents on disk, too, or the database.                  *)
LEMMA Filling ==
    ASSUME AllInv, unsafe = {}, NEW p \in Procs, NEW r, proc' = [proc EXCEPT ![p] = r],
           r.roots = proc[p].roots, r.pc # "acked", Alone(proc, p, r),
           UNCHANGED <<gcroots, gc, epoch, inUse>>,
           Rec(p, r, gc, epoch, valid', disk'),
           valid \subseteq valid', valid' \subseteq disk',
           \A q \in Procs \ {p} : proc[q].pc = "restored" /\ proc[q].target \in disk
                                  => proc[q].target \in disk',
           Search(gc, valid', Rooted(proc, gcroots))
    PROVE  SafeNext
<1>1. /\ Safe(proc, gc, epoch, valid, disk, gcroots) /\ ~inUse /\ gcroots \subseteq valid
      /\ proc \in [Procs -> ProcType] /\ gc \in GcType /\ Order(gc) /\ Links(proc, gc, gcroots)
  BY SafeParts
<1>2. \A q \in Procs : Rec(q, proc[q], gc, epoch, valid, disk)
  BY <1>1 DEF Safe
<1>3. \A q \in Procs \ {p} : Rec(q, proc[q], gc, epoch, valid', disk')
  BY <1>2 DEF Rec
<1>4. Search(gc, valid', Rooted([proc EXCEPT ![p] = r], gcroots))
  BY <1>1, SameRoots, SearchRoots
<1>5. Links([proc EXCEPT ![p] = r], gc, gcroots)
  BY <1>1, SameRoots
<1>6. gcroots \subseteq valid'
  BY <1>1
<1>7. Safe([proc EXCEPT ![p] = r], gc, epoch, valid', disk', gcroots)
  BY <1>1, <1>3, <1>4, <1>5, <1>6, Moved
<1> QED
  BY <1>1, <1>7 DEF SafeNext

(* Wiping what is there spares what is valid, and what other processes     *)
(* have restored.                                                          *)
LEMMA RecheckSafe ==
    ASSUME AllInv, unsafe = {}, NEW p \in Procs, Recheck(p)
    PROVE  SafeNext
<1>1. /\ proc[p] \in ProcType /\ Rec(p, proc[p], gc, epoch, valid, disk) /\ Apart(proc)
      /\ valid \subseteq disk /\ Search(gc, valid, Rooted(proc, gcroots))
  BY SafeParts
<1>2. proc[p].pc = "locked" /\ UNCHANGED <<valid, gcroots, gc, epoch, inUse>>
  BY DEF Recheck, At, ghosts
<1>3. CASE proc[p].target \in valid /\ Done(p, {proc[p].target}) /\ disk' = disk
  <2> DEFINE r == [proc[p] EXCEPT !.pc = "idle", !.target = NoPath, !.used = @ \cup {proc[p].target}]
  <2>1. proc' = [proc EXCEPT ![p] = r]
    BY <1>3 DEF Done
  <2>2. r.roots = proc[p].roots /\ r.pc = "idle"
    BY <1>1 DEF ProcType
  <2>3. Rec(p, r, gc, epoch, valid, disk)
    BY <1>1, <1>2, <1>3 DEF Rec, ProcType, Locked, AddPcs, Heard
  <2> HIDE DEF r
  <2>4. Alone(proc, p, r)
    BY <2>2 DEF Alone, HoldsOutput
  <2> QED
    BY <1>2, <1>3, <2>1, <2>2, <2>3, <2>4, Quietly
<1>4. CASE proc[p].target \notin valid /\ Goto(p, "wiped") /\ disk' = disk \ {proc[p].target}
  <2> DEFINE r == [proc[p] EXCEPT !.pc = "wiped"]
  <2>1. proc' = [proc EXCEPT ![p] = r]
    BY <1>4 DEF Goto
  <2>2. r.roots = proc[p].roots /\ r.pc = "wiped" /\ r.target = proc[p].target
    BY <1>1 DEF ProcType
  <2>3. Rec(p, r, gc, epoch, valid, disk')
    BY <1>1, <1>2 DEF Rec, ProcType, Locked, AddPcs, Heard
  <2> HIDE DEF r
  <2>4. Alone(proc, p, r)
    BY <1>1, <1>2, <2>2 DEF Alone, Apart, HoldsOutput
  <2>5. \A q \in Procs \ {p} : proc[q].pc = "restored" => proc[q].target # proc[p].target
    BY <1>1, <1>2 DEF Apart, HoldsOutput
  <2>6. valid' \subseteq disk'
    BY <1>1, <1>2, <1>4
  <2>7. \A q \in Procs \ {p} : proc[q].pc = "restored" /\ proc[q].target \in disk
                               => proc[q].target \in disk'
    BY <1>4, <2>5
  <2>8. r.pc # "acked"
    BY <2>2
  <2> QED
    BY <1>1, <1>2, <2>1, <2>2, <2>3, <2>4, <2>6, <2>7, <2>8, Filling
<1> QED
  BY <1>3, <1>4 DEF Recheck

LEMMA RestoreSafe ==
    ASSUME AllInv, unsafe = {}, NEW p \in Procs, Restore(p)
    PROVE  SafeNext
<1>1. /\ proc[p] \in ProcType /\ Rec(p, proc[p], gc, epoch, valid, disk) /\ Apart(proc)
      /\ valid \subseteq disk /\ Search(gc, valid, Rooted(proc, gcroots))
  BY SafeParts
<1> DEFINE r == [proc[p] EXCEPT !.pc = "restored"]
<1>2. /\ proc[p].pc = "wiped" /\ proc' = [proc EXCEPT ![p] = r]
      /\ UNCHANGED <<valid, gcroots, gc, epoch, inUse>> /\ disk' = disk \cup {proc[p].target}
  BY DEF Restore, At, Goto, ghosts
<1>3. r.roots = proc[p].roots /\ r.pc = "restored" /\ r.target = proc[p].target
  BY <1>1 DEF ProcType
<1>4. Rec(p, r, gc, epoch, valid, disk')
  BY <1>1, <1>2 DEF Rec, ProcType, Locked, AddPcs, Heard
<1> HIDE DEF r
<1>5. Alone(proc, p, r)
  BY <1>1, <1>2, <1>3 DEF Alone, Apart, HoldsOutput
<1>6. valid' \subseteq disk' /\ disk \subseteq disk' /\ r.pc # "acked"
  BY <1>1, <1>2, <1>3
<1> QED
  BY <1>1, <1>2, <1>3, <1>4, <1>5, <1>6, Filling

(* The registration: the references of the path are roots, as the path is. *)
LEMMA RegisterSafe ==
    ASSUME AllInv, unsafe = {}, NEW p \in Procs, Register(p)
    PROVE  SafeNext
<1>1. /\ proc[p] \in ProcType /\ Rec(p, proc[p], gc, epoch, valid, disk) /\ RecordOK(proc[p])
      /\ valid \subseteq disk /\ Search(gc, valid, Rooted(proc, gcroots)) /\ Order(gc)
      /\ Safe(proc, gc, epoch, valid, disk, gcroots)
  BY SafeParts
<1> DEFINE x == proc[p].target
<1>2. proc[p].pc = "restored" /\ UNCHANGED <<disk, gcroots, gc, epoch, inUse>>
  BY DEF Register, At, ghosts
<1>3. x \in Paths /\ x \in disk /\ x \in proc[p].roots /\ refs[x] \subseteq proc[p].roots
  BY <1>1, <1>2 DEF RecordOK, Rec, AddPcs
<1>4. ASSUME NEW U, U \subseteq valid', Done(p, U), valid \subseteq valid', valid' \subseteq disk,
             Search(gc, valid', Rooted(proc, gcroots))
      PROVE  SafeNext
  <2> DEFINE r == [proc[p] EXCEPT !.pc = "idle", !.target = NoPath, !.used = @ \cup U]
  <2>1. proc' = [proc EXCEPT ![p] = r]
    BY <1>4 DEF Done
  <2>2. r.roots = proc[p].roots /\ r.pc = "idle"
    BY <1>1 DEF ProcType
  <2>3. Rec(p, r, gc, epoch, valid', disk')
    BY <1>1, <1>2, <1>4 DEF Rec, ProcType, Locked, AddPcs, Heard
  <2> HIDE DEF r
  <2>4. Alone(proc, p, r)
    BY <2>2 DEF Alone, HoldsOutput
  <2>5. r.pc # "acked" /\ valid' \subseteq disk'
    BY <1>2, <1>4, <2>2
  <2> QED
    BY <1>1, <1>2, <1>4, <2>1, <2>2, <2>3, <2>4, <2>5, Filling
<1>5. x \in Rooted(proc, gcroots) /\ refs[x] \subseteq Rooted(proc, gcroots)
  BY <1>3, PathsAssumption DEF Rooted
<1>6. Late(gc) => Rooted(proc, gcroots) \subseteq Known(gc)
  BY <1>1, RootsKnown
<1>7. CASE valid' = valid \cup {x} /\ Done(p, {x})
  <2>1. Search(gc, valid \cup {x}, Rooted(proc, gcroots))
    <3> HIDE DEF x
    <3> QED
      BY <1>1, <1>5, <1>6, SearchRegisters
  <2>2. {x} \subseteq valid' /\ valid \subseteq valid' /\ valid' \subseteq disk
    BY <1>1, <1>3, <1>7
  <2> QED
    BY <1>4, <1>7, <2>1, <2>2
<1>8. CASE valid' = valid /\ Done(p, {})
  BY <1>1, <1>4, <1>8
<1> QED
  BY <1>7, <1>8 DEF Register

(* A permanent root is linked to a path that is already a root.            *)
LEMMA LinkSafe ==
    ASSUME AllInv, unsafe = {}, NEW p \in Procs, LinkRoot(p)
    PROVE  SafeNext
<1>1. /\ proc[p] \in ProcType /\ Rec(p, proc[p], gc, epoch, valid, disk) /\ RecordOK(proc[p])
      /\ gcroots \subseteq valid /\ valid \subseteq disk /\ Links(proc, gc, gcroots) /\ Order(gc)
      /\ Search(gc, valid, Rooted(proc, gcroots)) /\ proc \in [Procs -> ProcType] /\ gc \in GcType
      /\ Safe(proc, gc, epoch, valid, disk, gcroots) /\ ~inUse
  BY SafeParts
<1> DEFINE x == proc[p].target
           r == [proc[p] EXCEPT !.pc = "idle", !.target = NoPath, !.used = @ \cup {}]
<1>2. /\ proc[p].pc = "rooted" /\ proc' = [proc EXCEPT ![p] = r] /\ x \in proc[p].used
      /\ gcroots' = gcroots \cup {x} /\ UNCHANGED <<valid, disk, gc, epoch, inUse>>
  BY DEF LinkRoot, Done, At, ghosts
<1>3. r.roots = proc[p].roots /\ r.pc = "idle"
  BY <1>1 DEF ProcType
<1>4. Rec(p, r, gc, epoch, valid, disk)
  BY <1>1, <1>2 DEF Rec, ProcType, Locked, AddPcs, Heard
<1>5. x \in proc[p].roots /\ x \in valid /\ x \in Paths
  BY <1>1, <1>2 DEF RecordOK, Rec, AddPcs
<1> DEFINE s == [proc EXCEPT ![p] = r]
<1>6. s[p] = r /\ s = [proc EXCEPT ![p] = r]
  BY <1>1
<1> HIDE DEF r, x
<1>7. Rooted(s, gcroots) \subseteq Rooted(proc, gcroots) /\ Links(s, gc, gcroots)
  BY <1>1, <1>3, SameRoots
<1> HIDE DEF s
<1>8. Rooted(s, gcroots') \subseteq Rooted(proc, gcroots)
  <2>1. x \in Rooted(proc, gcroots)
    BY <1>5 DEF Rooted
  <2> QED
    BY <1>2, <1>7, <2>1 DEF Rooted
<1>9. Search(gc, valid, Rooted(s, gcroots'))
  BY <1>1, <1>8, SearchRoots
<1>10. Links(s, gc, gcroots')
  <2>1. ToBeRead(p, gc) \/ x \in gc.temp
    BY <1>1, <1>5 DEF Rec
  <2>2. x \in s[p].roots
    BY <1>3, <1>5, <1>6
  <2>3. Early(gc) \/ x \in Known(gc) \/ (gc.pc = "temp" /\ \E q \in gc.files : x \in s[q].roots)
    BY <2>1, <2>2 DEF ToBeRead, Known
  <2> QED
    BY <1>2, <1>7, <2>3 DEF Links
<1>11. Alone(proc, p, r)
  BY <1>3 DEF Alone, HoldsOutput
<1>12. gcroots' \subseteq valid /\ \A q \in Procs \ {p} : Rec(q, proc[q], gc, epoch, valid, disk)
  BY <1>1, <1>2, <1>5 DEF Safe
<1>13. Safe(s, gc, epoch, valid, disk, gcroots')
  BY <1>1, <1>4, <1>6, <1>9, <1>10, <1>11, <1>12, Moved
<1> QED
  BY <1>1, <1>2, <1>6, <1>13 DEF SafeNext

LEMMA UnlinkSafe ==
    ASSUME AllInv, unsafe = {}, NEW x \in Paths, UnlinkRoot(x)
    PROVE  SafeNext
<1>1. Safe(proc, gc, epoch, valid, disk, gcroots) /\ ~inUse
  BY DEF AllInv, SafeInv
<1>2. gcroots' = gcroots \ {x} /\ UNCHANGED <<valid, disk, proc, gc, epoch, inUse>>
  BY DEF UnlinkRoot, ghosts
<1>3. Rooted(proc, gcroots') \subseteq Rooted(proc, gcroots) /\ gcroots' \subseteq gcroots
  BY <1>2 DEF Rooted
<1>4. Search(gc, valid, Rooted(proc, gcroots'))
  BY <1>1, <1>3, SearchRoots DEF Safe
<1>5. Links(proc, gc, gcroots')
  BY <1>1, <1>3 DEF Safe, Links
<1>6. Safe(proc, gc, epoch, valid, disk, gcroots')
  BY <1>1, <1>3, <1>4, <1>5 DEF Safe
<1> QED
  BY <1>1, <1>2, <1>6 DEF SafeNext

(* A process ends, and the collector has read the roots that it linked.    *)
LEMMA ExitSafe ==
    ASSUME AllInv, unsafe = {}, unsafe' = {}, NEW p \in Procs, Exit(p)
    PROVE  SafeNext
<1>1. /\ proc[p] \in ProcType /\ Rec(p, proc[p], gc, epoch, valid, disk) /\ RecordOK(proc[p])
      /\ gcroots \subseteq valid /\ valid \subseteq disk /\ Links(proc, gc, gcroots) /\ Order(gc)
      /\ Search(gc, valid, Rooted(proc, gcroots)) /\ proc \in [Procs -> ProcType] /\ gc \in GcType
      /\ Safe(proc, gc, epoch, valid, disk, gcroots) /\ ~inUse /\ epoch \in Nat
  BY SafeParts
<1>2. PICK f \in {"none", "stale"} :
        proc' = [proc EXCEPT ![p] = [NewProc EXCEPT !.pc = "dead",
                             !.file = IF proc[p].file = "none" THEN "none" ELSE f]]
  BY DEF Exit
<1> DEFINE r == [NewProc EXCEPT !.pc = "dead", !.file = IF proc[p].file = "none" THEN "none" ELSE f]
           s == [proc EXCEPT ![p] = r]
<1>3. proc' = s /\ UNCHANGED <<valid, disk, gcroots, gc, epoch, inUse>>
  BY <1>2 DEF Exit, storeVars
<1>4. r.roots = {} /\ r.pc = "dead" /\ r.conn = 0 /\ r.used = {}
  BY DEF NewProc
<1>5. s[p] = r /\ s = [proc EXCEPT ![p] = r] /\ \A q \in Procs \ {p} : s[q] = proc[q]
  BY <1>1
<1> HIDE DEF r, s
<1>6. Rec(p, r, gc, epoch, valid, disk)
  BY <1>1, <1>4 DEF Rec, ProcType, Locked, AddPcs, Heard
<1>7. Rooted(s, gcroots) \subseteq Rooted(proc, gcroots)
  BY <1>4, <1>5 DEF Rooted
<1>8. Search(gc, valid, Rooted(s, gcroots))
  BY <1>1, <1>7, SearchRoots
<1>9. Links(s, gc, gcroots)
  <2>1. ASSUME gc.pc = "temp", p \in gc.files, NEW x \in gcroots, x \in proc[p].roots
        PROVE  x \in gc.roots
    <3>1. {p} \X ((gcroots \cap proc[p].roots) \ gc.roots) = {}
      BY <2>1 DEF Exit
    <3> DEFINE S == (gcroots \cap proc[p].roots) \ gc.roots
    <3>2. \A y \in S : <<p, y>> \in {p} \X S
      OBVIOUS
    <3>3. S = {}
      BY <3>1, <3>2
    <3> QED
      BY <2>1, <3>3
  <2>2. gc.files \subseteq Procs
    BY <1>1 DEF GcType
  <2> QED
    BY <1>1, <1>5, <2>1, <2>2 DEF Links, Known
<1>10. Alone(proc, p, r)
  BY <1>4 DEF Alone, HoldsOutput
<1>11. \A q \in Procs \ {p} : Rec(q, proc[q], gc, epoch, valid, disk)
  BY <1>1 DEF Safe
<1>12. Safe(s, gc, epoch, valid, disk, gcroots)
  BY <1>1, <1>5, <1>6, <1>8, <1>9, <1>10, <1>11, Moved
<1> QED
  BY <1>1, <1>3, <1>12 DEF SafeNext

LEMMA ProcSafe ==
    ASSUME AllInv, unsafe = {}, unsafe' = {}, NEW p \in Procs,
           \/ \E x \in Paths : AddTempRoot(p, x)
           \/ ProcStep(p) \/ ServerStep(p) \/ LinkRoot(p) \/ Exit(p)
    PROVE  SafeNext
BY AskingSafe, TakeSafe, AckSafe, AppendSafe, QuerySafe, LockOutputSafe, RecheckSafe, RestoreSafe,
   RegisterSafe, LinkSafe, ExitSafe DEF ProcStep, ServerStep

-----------------------------------------------------------------------------
(* The steps of the collector                                              *)

LEMMA NotSearching ==
    ASSUME NEW g, NEW v, NEW U, g.visited = {}, g.dead = {}, DOMAIN g.cache = {},
           g.pc \notin {"expand", "unlink"}
    PROVE  Search(g, v, U)
BY DEF Search, Judged

(* It ends, or is killed, and may have deleted contents before.            *)
LEMMA StopSafe ==
    ASSUME AllInv, unsafe = {}, gc' = NoGC, UNCHANGED <<valid, gcroots, proc, epoch, inUse>>,
           valid \subseteq disk', disk \cap Rooted(proc, gcroots) \subseteq disk'
    PROVE  SafeNext
<1>1. /\ Safe(proc, gc, epoch, valid, disk, gcroots) /\ ~inUse /\ gcroots \subseteq valid
      /\ \A p \in Procs : Rec(p, proc[p], gc, epoch, valid, disk) /\ RecordOK(proc[p])
      /\ Apart(proc)
  BY DEF AllInv, SafeInv, Safe, ProcInv
<1>2. /\ NoGC.pc = "idle" /\ NoGC.visited = {} /\ NoGC.todo = {} /\ NoGC.dead = {}
      /\ NoGC.doomed = {} /\ DOMAIN NoGC.cache = {}
  BY DEF NoGC
<1>3. Early(NoGC) /\ Order(NoGC)
  BY <1>2 DEF Early, Order, Late
<1>4. ASSUME NEW p \in Procs
      PROVE  Rec(p, proc[p], NoGC, epoch, valid, disk')
  <2>1. proc[p].pc = "restored" => proc[p].target \in Rooted(proc, gcroots)
    BY <1>1 DEF RecordOK, AddPcs, Rooted
  <2> QED
    BY <1>1, <1>2, <1>3, <2>1 DEF Rec, ToBeRead, Heard
<1>5. Links(proc, NoGC, gcroots)
  BY <1>3 DEF Links
<1>6. Search(NoGC, valid, Rooted(proc, gcroots))
  BY <1>2, NotSearching
<1>7. Safe(proc, NoGC, epoch, valid, disk', gcroots)
  BY <1>1, <1>3, <1>4, <1>5, <1>6 DEF Safe
<1> QED
  BY <1>1, <1>7 DEF SafeNext

(* It goes on searching and deleting, and deletes no root.                 *)
LEMMA SearchingSafe ==
    ASSUME AllInv, unsafe = {}, Late(gc), Late(gc'), gc'.roots = gc.roots, gc'.temp = gc.temp,
           UNCHANGED <<gcroots, proc, epoch, inUse>>,
           valid \cap Rooted(proc, gcroots) \subseteq valid', valid' \subseteq disk',
           disk \cap Rooted(proc, gcroots) \subseteq disk',
           Order(gc'), Search(gc', valid', Rooted(proc, gcroots))
    PROVE  SafeNext
<1>1. /\ Safe(proc, gc, epoch, valid, disk, gcroots) /\ ~inUse /\ gcroots \subseteq valid
      /\ \A p \in Procs : Rec(p, proc[p], gc, epoch, valid, disk) /\ RecordOK(proc[p])
      /\ Apart(proc)
  BY DEF AllInv, SafeInv, Safe, ProcInv
<1>2. ASSUME NEW p \in Procs
      PROVE  Rec(p, proc[p], gc', epoch, valid', disk')
  <2>1. proc[p].pc = "restored" => proc[p].target \in Rooted(proc, gcroots)
    BY <1>1 DEF RecordOK, AddPcs, Rooted
  <2>2. proc[p].used \subseteq Rooted(proc, gcroots)
    BY <1>1 DEF RecordOK, ProcType, Rooted
  <2>3. ~ToBeRead(p, gc) /\ (Heard(proc[p], gc', epoch) <=> Heard(proc[p], gc, epoch))
        /\ gc'.pc # "exclusive"
    BY DEF ToBeRead, Late, Early, Heard
  <2> QED
    BY <1>1, <2>1, <2>2, <2>3 DEF Rec
<1>3. Links(proc, gc', gcroots)
  <2>1. gcroots \subseteq Known(gc)
    BY <1>1 DEF Safe, Links, Late, Early
  <2> QED
    BY <2>1 DEF Links, Known
<1>4. gcroots \subseteq valid'
  BY <1>1 DEF Rooted
<1>5. Safe(proc, gc', epoch, valid', disk', gcroots)
  BY <1>1, <1>2, <1>3, <1>4 DEF Safe
<1> QED
  BY <1>1, <1>5 DEF SafeNext

(* Up to the reading of the permanent roots, every file is still to be     *)
(* read, and no process has a connection to this collection before it      *)
(* listens.                                                                *)
LEMMA BeginSafe ==
    ASSUME AllInv, unsafe = {}, GcLock \/ GcListen \/ GcFindRoots
    PROVE  SafeNext
<1>1. /\ Safe(proc, gc, epoch, valid, disk, gcroots) /\ ~inUse /\ gcroots \subseteq valid
      /\ \A p \in Procs : Rec(p, proc[p], gc, epoch, valid, disk) /\ proc[p].conn \in Nat
      /\ Apart(proc) /\ gc \in GcType /\ Order(gc) /\ epoch \in Nat /\ valid \subseteq disk
  BY DEF AllInv, SafeInv, Safe, ProcInv, SearchOK, EnvInv, RecordOK, ProcType
<1>2. UNCHANGED <<valid, disk, gcroots, proc, inUse>>
  BY DEF GcLock, GcListen, GcFindRoots, storeVars, ghosts
<1>3. /\ gc'.visited = gc.visited /\ gc'.todo = gc.todo /\ gc'.dead = gc.dead
      /\ gc'.doomed = gc.doomed /\ gc'.cache = gc.cache /\ gc'.temp = gc.temp
  BY <1>1 DEF GcLock, GcListen, GcFindRoots, GcType
<1>4. \/ gc.pc = "idle" /\ gc'.pc = "exclusive" /\ epoch' = epoch + 1
      \/ gc.pc = "exclusive" /\ gc'.pc = "listen" /\ epoch' = epoch
      \/ gc.pc = "listen" /\ gc'.pc = "temp" /\ gc'.files = Procs /\ gc'.roots = gcroots /\ epoch' = epoch
  <2>1. CASE GcLock
    BY <1>1, <2>1 DEF GcLock, GcType
  <2>2. CASE GcListen
    BY <1>1, <2>2 DEF GcListen, GcType
  <2>3. CASE GcFindRoots
    <3>1. gcroots \cap valid = gcroots
      BY <1>1
    <3> QED
      BY <1>1, <2>3, <3>1 DEF GcFindRoots, GcType
  <2> QED
    BY <2>1, <2>2, <2>3
<1>5. Order(gc') /\ Search(gc', valid, Rooted(proc, gcroots))
  BY <1>1, <1>3, <1>4, NotSearching DEF Order, Late
<1>6. Links(proc, gc', gcroots)
  BY <1>4 DEF Links, Known, Early
<1>7. ASSUME NEW p \in Procs
      PROVE  Rec(p, proc[p], gc', epoch', valid, disk)
  <2>1. ToBeRead(p, gc')
    BY <1>4 DEF ToBeRead, Early
  <2>2. proc[p].conn <= epoch /\ (gc.pc = "exclusive" => proc[p].conn < epoch)
    BY <1>1 DEF Rec
  <2>3. Heard(proc[p], gc', epoch') => Heard(proc[p], gc, epoch)
    BY <1>1, <1>4, <2>2 DEF Heard
  <2>4. proc[p].conn <= epoch' /\ (gc'.pc = "exclusive" => proc[p].conn < epoch')
    BY <1>1, <1>4, <2>2
  <2> QED
    BY <1>1, <1>3, <2>1, <2>3, <2>4 DEF Rec
<1>8. Safe(proc, gc', epoch', valid, disk, gcroots)
  BY <1>1, <1>5, <1>6, <1>7 DEF Safe
<1> QED
  BY <1>1, <1>2, <1>8 DEF SafeNext

(* A file is read: its process has sent its unwritten roots to the         *)
(* collector, unless one was acknowledged by an earlier collection.        *)
LEMMA ReadFileSafe ==
    ASSUME AllInv, unsafe = {}, unsafe' = {}, NEW p \in Procs, GcFindTempRoots(p)
    PROVE  SafeNext
<1>1. /\ Safe(proc, gc, epoch, valid, disk, gcroots) /\ ~inUse /\ gcroots \subseteq valid
      /\ \A q \in Procs : Rec(q, proc[q], gc, epoch, valid, disk) /\ proc[q] \in ProcType
      /\ Apart(proc) /\ gc \in GcType /\ Order(gc) /\ valid \subseteq disk
      /\ Links(proc, gc, gcroots) /\ proc \in [Procs -> ProcType]
  BY DEF AllInv, SafeInv, Safe, ProcInv, SearchOK, EnvInv, RecordOK
<1> DEFINE r == [proc[p] EXCEPT !.file = CASE @ = "opened" -> "marked"
                                           [] @ = "stale" -> "none"
                                           [] OTHER -> @]
           s == [proc EXCEPT ![p] = r]
           h == [gc EXCEPT !.files = @ \ {p},
                           !.temp = IF proc[p].file = "held" THEN @ \cup proc[p].roots ELSE @]
<1>2. /\ gc.pc = "temp" /\ p \in gc.files /\ proc' = s /\ gc' = h
      /\ UNCHANGED <<valid, disk, gcroots, epoch, inUse>>
  BY DEF GcFindTempRoots, storeVars
<1>3. ~(proc[p].pc = "acked" /\ proc[p].conn # epoch)
  BY DEF GcFindTempRoots, At
<1>4. /\ h.pc = "temp" /\ h.files = gc.files \ {p} /\ h.roots = gc.roots /\ gc.temp \subseteq h.temp
      /\ h.visited = gc.visited /\ h.todo = gc.todo /\ h.dead = gc.dead /\ h.doomed = gc.doomed
      /\ h.cache = gc.cache /\ (proc[p].file = "held" => proc[p].roots \subseteq h.temp)
  BY <1>1, <1>2 DEF GcType
<1>5. /\ r.pc = proc[p].pc /\ r.target = proc[p].target /\ r.roots = proc[p].roots
      /\ r.used = proc[p].used /\ r.conn = proc[p].conn
      /\ (r.file = "held" <=> proc[p].file = "held")
  BY <1>1 DEF ProcType
<1>6. s[p] = r /\ s = [proc EXCEPT ![p] = r] /\ \A q \in Procs \ {p} : s[q] = proc[q]
  BY <1>1
<1> HIDE DEF r, s, h
<1>7. proc[p].roots \subseteq h.temp
  BY <1>1, <1>4 DEF Rec
<1>8. Rec(p, r, h, epoch, valid, disk)
  BY <1>1, <1>2, <1>3, <1>4, <1>5, <1>7 DEF Rec, Heard
<1>9. \A q \in Procs \ {p} : Rec(q, proc[q], h, epoch, valid, disk)
  BY <1>1, <1>2, <1>4 DEF Rec, Heard, ToBeRead, Early
<1>10. Links(s, h, gcroots)
  <2>1. gc.files \subseteq Procs
    BY <1>1 DEF GcType
  <2>2. \A x \in gcroots : x \in Known(gc) \/ \E q \in gc.files : x \in proc[q].roots
    BY <1>1, <1>2 DEF Links, Early
  <2>3. \A x \in gcroots : x \in Known(h) \/ \E q \in gc.files \ {p} : x \in s[q].roots
    BY <1>4, <1>6, <1>7, <2>1, <2>2 DEF Known
  <2> QED
    BY <1>4, <2>3 DEF Links
<1>11. Alone(proc, p, r)
  BY <1>1, <1>5 DEF Alone, Apart
<1>12. Order(h) /\ Search(h, valid, Rooted(s, gcroots))
  BY <1>1, <1>2, <1>4, NotSearching DEF Order, Late
<1>13. Safe(s, h, epoch, valid, disk, gcroots)
  BY <1>1, <1>6, <1>8, <1>9, <1>10, <1>11, <1>12, Moved
<1> QED
  BY <1>1, <1>2, <1>13 DEF SafeNext

LEMMA OpenStoreSafe ==
    ASSUME AllInv, unsafe = {}, GcOpenStore
    PROVE  SafeNext
<1>1. /\ Safe(proc, gc, epoch, valid, disk, gcroots) /\ ~inUse /\ gcroots \subseteq valid
      /\ \A q \in Procs : Rec(q, proc[q], gc, epoch, valid, disk)
      /\ Apart(proc) /\ gc \in GcType /\ Order(gc) /\ valid \subseteq disk /\ Links(proc, gc, gcroots)
  BY DEF AllInv, SafeInv, Safe, SearchOK
<1>2. /\ gc.pc = "temp" /\ gc.files = {} /\ gc' = [gc EXCEPT !.pc = "next", !.unread = disk]
      /\ UNCHANGED <<valid, disk, gcroots, proc, epoch, inUse>>
  BY DEF GcOpenStore, storeVars, ghosts
<1>3. /\ gc'.pc = "next" /\ gc'.roots = gc.roots /\ gc'.temp = gc.temp
      /\ gc'.visited = {} /\ gc'.dead = {} /\ DOMAIN gc'.cache = {}
  BY <1>1, <1>2 DEF GcType, Order, Late
<1>4. Order(gc') /\ Search(gc', valid, Rooted(proc, gcroots))
  BY <1>3, NotSearching DEF Order, Late
<1>5. \A q \in Procs : Rec(q, proc[q], gc', epoch, valid, disk)
  BY <1>1, <1>2, <1>3 DEF Rec, Heard, ToBeRead, Early
<1>6. Links(proc, gc', gcroots)
  BY <1>1, <1>2, <1>3 DEF Links, Known, Early
<1>7. Safe(proc, gc', epoch, valid, disk, gcroots)
  BY <1>1, <1>4, <1>5, <1>6 DEF Safe
<1> QED
  BY <1>1, <1>2, <1>7 DEF SafeNext

(* The facts about the collector that the steps below use.                 *)
LEMMA GcParts ==
    ASSUME AllInv, unsafe = {}
    PROVE  /\ Safe(proc, gc, epoch, valid, disk, gcroots) /\ ~inUse /\ gc \in GcType
           /\ gc.todo \subseteq gc.visited /\ Closed(valid) /\ valid \subseteq disk
           /\ valid \subseteq Paths /\ Order(gc) /\ Search(gc, valid, Rooted(proc, gcroots))
BY DEF AllInv, SafeInv, Safe, SearchOK, ValidClosed, ProcInv, EnvInv

(* Nothing is judged when a search begins, and when it is left.            *)
LEMMA FreshSafe ==
    ASSUME AllInv, unsafe = {}, Late(gc), UNCHANGED <<storeVars, proc, epoch, ghosts>>,
           gc'.pc \in {"next", "pop"}, gc'.roots = gc.roots, gc'.temp = gc.temp,
           gc'.dead = gc.dead, gc'.cache = gc.cache, gc'.visited = gc'.todo
    PROVE  SafeNext
<1>1. Search(gc, valid, Rooted(proc, gcroots)) /\ valid \subseteq disk
  BY GcParts
<1>2. Judged(gc') = {} /\ Known(gc') = Known(gc) /\ Late(gc')
  BY DEF Judged, Known, Late
<1>3. Search(gc', valid, Rooted(proc, gcroots))
  BY <1>1, <1>2 DEF Search
<1>4. Order(gc')
  BY <1>2 DEF Order
<1> QED
  BY <1>1, <1>2, <1>3, <1>4, SearchingSafe DEF storeVars, ghosts

LEMMA LeaveSafe ==
    ASSUME AllInv, unsafe = {}, Late(gc), UNCHANGED <<storeVars, proc, epoch, ghosts>>,
           NEW g \in GcType, gc' = Leave(g), g.roots = gc.roots, g.temp = gc.temp,
           g.dead = gc.dead, g.cache = gc.cache
    PROVE  SafeNext
<1>1. /\ gc'.pc = "next" /\ gc'.roots = g.roots /\ gc'.temp = g.temp /\ gc'.dead = g.dead
      /\ gc'.cache = g.cache /\ gc'.visited = {} /\ gc'.todo = {}
  BY DEF Leave, GcType
<1> QED
  BY <1>1, FreshSafe

LEMMA StartSafe == ASSUME AllInv, unsafe = {}, NEW x \in Paths, GcStart(x) PROVE SafeNext
<1>1. /\ gc.pc = "next" /\ UNCHANGED <<storeVars, proc, epoch, ghosts>>
      /\ gc' = [gc EXCEPT !.pc = "pop", !.unread = @ \ {x}, !.start = x,
                          !.visited = {x}, !.todo = {x}]
  BY DEF GcStart
<1>2. /\ gc'.pc = "pop" /\ gc'.roots = gc.roots /\ gc'.temp = gc.temp /\ gc'.dead = gc.dead
      /\ gc'.cache = gc.cache /\ gc'.visited = gc'.todo
  BY <1>1, GcParts DEF GcType
<1> QED
  BY <1>1, <1>2, FreshSafe DEF Late

(* A path that becomes pending is not known as a root, so it is none.      *)
LEMMA VisitSafe == ASSUME AllInv, unsafe = {}, NEW x \in Paths, GcVisit(x) PROVE SafeNext
<1>1. /\ gc.pc = "pop" /\ x \in gc.todo /\ UNCHANGED <<storeVars, proc, epoch, ghosts>>
      /\ Late(gc)
  BY DEF GcVisit, Late
<1>2. /\ gc \in GcType /\ gc.todo \subseteq gc.visited /\ valid \subseteq disk /\ Order(gc)
      /\ Search(gc, valid, Rooted(proc, gcroots)) /\ Safe(proc, gc, epoch, valid, disk, gcroots)
  BY GcParts
<1> DEFINE g == [gc EXCEPT !.todo = @ \ {x}]
<1>3. CASE x \in gc.alive
  <2> DEFINE h == [g EXCEPT !.alive = @ \cup {gc.start}]
  <2>1. gc' = Leave(h)
    BY <1>3 DEF GcVisit
  <2>2. h.roots = gc.roots /\ h.temp = gc.temp /\ h.dead = gc.dead /\ h.cache = gc.cache
        /\ gc'.pc = "next" /\ gc'.roots = h.roots /\ gc'.temp = h.temp /\ gc'.dead = h.dead
        /\ gc'.cache = h.cache /\ gc'.visited = {} /\ gc'.todo = {}
    BY <1>2, <2>1 DEF GcType, Leave
  <2> QED
    BY <1>1, <2>2, FreshSafe
<1>4. CASE x \notin gc.alive /\ x \in gc.dead
  <2>1. gc' = g
    BY <1>4 DEF GcVisit
  <2>2. /\ gc'.pc = gc.pc /\ gc'.roots = gc.roots /\ gc'.temp = gc.temp /\ gc'.dead = gc.dead
        /\ gc'.cache = gc.cache /\ gc'.visited = gc.visited /\ gc'.todo = gc.todo \ {x}
    BY <1>2, <2>1 DEF GcType
  <2>3. Judged(gc') = Judged(gc) /\ Known(gc') = Known(gc) /\ Late(gc')
    BY <1>1, <1>4, <2>2 DEF Judged, Known, Late
  <2>4. Order(gc')
    BY <1>1, <2>2, <2>3 DEF Order
  <2>5. Search(gc', valid, Rooted(proc, gcroots))
    BY <1>1, <1>2, <2>2, <2>3 DEF Search
  <2> QED
    BY <1>1, <1>2, <2>2, <2>3, <2>4, <2>5, SearchingSafe DEF storeVars, ghosts
<1>5. CASE x \notin gc.alive /\ x \notin gc.dead /\ IsRoot(x)
  <2> DEFINE h == [g EXCEPT !.alive = @ \cup MarkAlive(x)]
  <2>1. gc' = Leave(h)
    BY <1>5 DEF GcVisit
  <2>2. h.roots = gc.roots /\ h.temp = gc.temp /\ h.dead = gc.dead /\ h.cache = gc.cache
        /\ gc'.pc = "next" /\ gc'.roots = h.roots /\ gc'.temp = h.temp /\ gc'.dead = h.dead
        /\ gc'.cache = h.cache /\ gc'.visited = {} /\ gc'.todo = {}
    BY <1>2, <2>1 DEF GcType, Leave
  <2> QED
    BY <1>1, <2>2, FreshSafe
<1>6. CASE x \notin gc.alive /\ x \notin gc.dead /\ ~IsRoot(x)
  <2>1. gc' = [g EXCEPT !.pc = "expand", !.cur = x, !.pending = x]
    BY <1>6 DEF GcVisit
  <2>2. /\ gc'.pc = "expand" /\ gc'.roots = gc.roots /\ gc'.temp = gc.temp /\ gc'.dead = gc.dead
        /\ gc'.cache = gc.cache /\ gc'.visited = gc.visited /\ gc'.todo = gc.todo \ {x}
        /\ gc'.cur = x
    BY <1>2, <2>1 DEF GcType
  <2>3. Judged(gc') = Judged(gc) \cup {x} /\ Known(gc') = Known(gc) /\ Late(gc')
    BY <1>1, <1>2, <1>6, <2>2 DEF Judged, Known, Late
  <2>4. Order(gc')
    BY <2>2, <2>3 DEF Order
  <2>5. x \notin Known(gc) /\ x \notin Rooted(proc, gcroots)
    <3>1. Rooted(proc, gcroots) \subseteq Known(gc)
      BY <1>1, <1>2, RootsKnown
    <3> QED
      BY <1>6, <3>1 DEF IsRoot, Known
  <2>6. Search(gc', valid, Rooted(proc, gcroots))
    <3>1. Rooted(proc, gcroots) \cap Judged(gc') = {}
      BY <1>2, <2>3, <2>5 DEF Search
    <3>2. \A y \in Judged(gc') : y # x => RefersIn(valid, y) \subseteq gc'.visited
      BY <1>1, <1>2, <2>2, <2>3 DEF Search
    <3>3. \A y \in DOMAIN gc'.cache : y \in Known(gc') \/ RefersIn(valid, y) \subseteq gc'.cache[y]
      BY <1>2, <2>2, <2>3 DEF Search
    <3>4. x \in DOMAIN gc'.cache => RefersIn(valid, x) \subseteq gc'.cache[x]
      BY <2>3, <2>5, <3>3
    <3>5. \A y \in valid \cap gc'.dead : refs[y] \subseteq Known(gc') /\ refs[y] \cap Judged(gc') = {}
      <4>1. \A y \in valid \cap gc.dead : refs[y] \subseteq Known(gc) /\ refs[y] \cap Judged(gc) = {}
        BY <1>2 DEF Search
      <4> QED
        BY <2>2, <2>3, <2>5, <4>1
    <3> QED
      BY <2>2, <3>1, <3>2, <3>3, <3>4, <3>5 DEF Search
  <2> QED
    BY <1>1, <1>2, <2>2, <2>3, <2>4, <2>6, SearchingSafe DEF storeVars, ghosts
<1> QED
  BY <1>3, <1>4, <1>5, <1>6

(* All of the referrers of the path are visited, also when they come from  *)
(* the cache.                                                              *)
LEMMA ExpandSafe == ASSUME AllInv, unsafe = {}, GcExpand PROVE SafeNext
<1>1. gc.pc = "expand" /\ UNCHANGED <<storeVars, proc, epoch, ghosts>> /\ Late(gc)
  BY DEF GcExpand, Late
<1>2. /\ gc \in GcType /\ Closed(valid) /\ valid \subseteq disk /\ Order(gc)
      /\ Search(gc, valid, Rooted(proc, gcroots))
  BY GcParts
<1> DEFINE x == gc.cur
           found == IF x \notin valid THEN {} ELSE IF x \in DOMAIN gc.cache THEN gc.cache[x]
                    ELSE Referrers(x)
           c == [z \in DOMAIN gc.cache \cup {x} |-> IF z = x THEN found ELSE gc.cache[z]]
<1>3. RefersIn(valid, x) \subseteq found
  <2>1. x \notin valid => RefersIn(valid, x) = {}
    BY <1>2 DEF RefersIn, Closed
  <2>2. RefersIn(valid, x) = Referrers(x)
    BY DEF RefersIn, Referrers
  <2>3. x \in DOMAIN gc.cache => RefersIn(valid, x) \subseteq gc.cache[x]
    BY <1>1, <1>2 DEF Search
  <2> QED
    BY <2>1, <2>2, <2>3
<1>4. gc' = [gc EXCEPT !.pc = "pop", !.cur = NoPath, !.visited = @ \cup found,
                       !.todo = @ \cup (found \ gc.visited),
                       !.cache = IF x \in valid THEN c ELSE @]
  BY DEF GcExpand
<1>5. DOMAIN c = DOMAIN gc.cache \cup {x} /\ \A z \in DOMAIN c : c[z] = IF z = x THEN found ELSE gc.cache[z]
  OBVIOUS
<1> HIDE DEF found, c
<1>6. /\ gc'.pc = "pop" /\ gc'.roots = gc.roots /\ gc'.temp = gc.temp /\ gc'.dead = gc.dead
      /\ gc'.visited = gc.visited \cup found /\ gc'.todo = gc.todo \cup (found \ gc.visited)
      /\ gc'.cache \in {c, gc.cache}
  BY <1>2, <1>4 DEF GcType
<1>7. Judged(gc') = Judged(gc) /\ Known(gc') = Known(gc) /\ Late(gc')
  BY <1>6 DEF Judged, Known, Late
<1>8. Order(gc')
  BY <1>6, <1>7 DEF Order
<1>9. \A y \in Judged(gc') : RefersIn(valid, y) \subseteq gc'.visited
  BY <1>1, <1>2, <1>3, <1>6, <1>7 DEF Search
<1>10. \A y \in DOMAIN gc'.cache : y \in Known(gc') \/ RefersIn(valid, y) \subseteq gc'.cache[y]
  <2>1. \A y \in DOMAIN gc.cache : y \in Known(gc) \/ RefersIn(valid, y) \subseteq gc.cache[y]
    BY <1>2 DEF Search
  <2> QED
    BY <1>3, <1>5, <1>6, <1>7, <2>1
<1>11. Search(gc', valid, Rooted(proc, gcroots))
  BY <1>2, <1>6, <1>7, <1>9, <1>10 DEF Search
<1> QED
  BY <1>1, <1>2, <1>6, <1>7, <1>8, <1>11, SearchingSafe DEF storeVars, ghosts

LEMMA CondemnSafe == ASSUME AllInv, unsafe = {}, GcCondemn PROVE SafeNext
<1>1. /\ gc.pc = "pop" /\ gc.todo = {} /\ UNCHANGED <<storeVars, proc, epoch, ghosts>> /\ Late(gc)
      /\ gc' = [gc EXCEPT !.pc = "doom", !.doomed = gc.visited]
  BY DEF GcCondemn, Late
<1>2. /\ gc \in GcType /\ valid \subseteq disk /\ Search(gc, valid, Rooted(proc, gcroots))
  BY GcParts
<1>3. /\ gc'.pc = "doom" /\ gc'.roots = gc.roots /\ gc'.temp = gc.temp /\ gc'.dead = gc.dead
      /\ gc'.visited = gc.visited /\ gc'.todo = gc.todo /\ gc'.cache = gc.cache
      /\ gc'.doomed = gc.visited
  BY <1>1, <1>2 DEF GcType
<1>4. Judged(gc') = Judged(gc) /\ Known(gc') = Known(gc) /\ Late(gc')
  BY <1>3 DEF Judged, Known, Late
<1>5. Order(gc')
  BY <1>1, <1>3, <1>4 DEF Order
<1>6. Search(gc', valid, Rooted(proc, gcroots))
  BY <1>1, <1>2, <1>3, <1>4 DEF Search
<1> QED
  BY <1>1, <1>2, <1>3, <1>4, <1>5, <1>6, SearchingSafe DEF storeVars, ghosts

(* The path to be invalidated is judged; what refers to it has been        *)
(* invalidated before, and has not been registered again.                  *)
LEMMA NotReferred ==
    ASSUME AllInv, unsafe = {}, gc.pc = "doom", NEW x \in gc.doomed \ gc.dead,
           \A z \in gc.doomed : x \notin refs[z]
    PROVE  x \in Judged(gc) /\ ~StillReferred(x)
<1>1. Order(gc) /\ Search(gc, valid, Rooted(proc, gcroots))
  BY GcParts
<1>2. x \in Judged(gc) /\ gc.visited \subseteq gc.doomed \cup gc.dead
  BY <1>1 DEF Order, Judged
<1>3. ASSUME NEW y \in Referrers(x) PROVE FALSE
  <2>1. y \in valid /\ x \in refs[y] /\ y \in RefersIn(valid, x)
    BY <1>3 DEF Referrers, RefersIn
  <2>2. y \in gc.visited /\ y \notin gc.doomed
    BY <1>1, <1>2, <2>1 DEF Search
  <2>3. y \in valid \cap gc.dead
    BY <1>2, <2>1, <2>2
  <2> QED
    BY <1>1, <1>2, <2>1, <2>3 DEF Search
<1> QED
  BY <1>2, <1>3 DEF StillReferred

LEMMA InvalidateSafe == ASSUME AllInv, unsafe = {}, NEW x \in Paths, GcInvalidate(x) PROVE SafeNext
<1>1. /\ gc.pc = "doom" /\ x \in gc.doomed /\ \A z \in gc.doomed : x \notin refs[z]
      /\ UNCHANGED <<disk, gcroots, proc, epoch, unsafe>> /\ Late(gc)
  BY DEF GcInvalidate, Late
<1>2. /\ gc \in GcType /\ valid \subseteq disk /\ Search(gc, valid, Rooted(proc, gcroots)) /\ Order(gc)
  BY GcParts
<1> DEFINE g == [gc EXCEPT !.doomed = @ \ {x}, !.dead = @ \cup {x}]
<1>3. CASE x \in gc.dead
  <2>1. gc' = g /\ UNCHANGED <<valid, inUse>>
    BY <1>3 DEF GcInvalidate
  <2>2. /\ gc'.pc = "doom" /\ gc'.roots = gc.roots /\ gc'.temp = gc.temp /\ gc'.dead = gc.dead
        /\ gc'.visited = gc.visited /\ gc'.todo = gc.todo /\ gc'.cache = gc.cache
        /\ gc'.doomed = gc.doomed \ {x}
    BY <1>1, <1>2, <1>3, <2>1 DEF GcType
  <2>3. Judged(gc') = Judged(gc) /\ Known(gc') = Known(gc) /\ Late(gc')
    BY <2>2 DEF Judged, Known, Late
  <2>4. Order(gc')
    BY <1>1, <1>2, <1>3, <2>2, <2>3 DEF Order
  <2>5. Search(gc', valid, Rooted(proc, gcroots))
    BY <1>1, <1>2, <2>2, <2>3 DEF Search
  <2> QED
    BY <1>1, <1>2, <2>1, <2>2, <2>3, <2>4, <2>5, SearchingSafe
<1>4. CASE x \notin gc.dead
  <2>1. x \in Judged(gc) /\ ~StillReferred(x)
    BY <1>1, <1>4, NotReferred
  <2>2. gc' = [g EXCEPT !.pc = "unlink", !.cur = x] /\ valid' = valid \ {x} /\ inUse' = inUse
    BY <1>4, <2>1 DEF GcInvalidate
  <2>3. /\ gc'.pc = "unlink" /\ gc'.roots = gc.roots /\ gc'.temp = gc.temp
        /\ gc'.dead = gc.dead \cup {x} /\ gc'.cur = x
        /\ gc'.visited = gc.visited /\ gc'.todo = gc.todo /\ gc'.cache = gc.cache
        /\ gc'.doomed = gc.doomed \ {x}
    BY <1>2, <2>2 DEF GcType
  <2>4. Judged(gc') = Judged(gc) \ {x} /\ Known(gc') = Known(gc) /\ Late(gc')
    BY <2>3 DEF Judged, Known, Late
  <2>5. Order(gc')
    BY <1>1, <1>2, <2>3, <2>4 DEF Order
  <2>6. x \notin Rooted(proc, gcroots)
    BY <1>2, <2>1 DEF Search
  <2>7. Search(gc', valid', Rooted(proc, gcroots))
    <3>1. \A y : RefersIn(valid', y) \subseteq RefersIn(valid, y)
      BY <2>2 DEF RefersIn
    <3>2. \A y \in Judged(gc') : RefersIn(valid', y) \subseteq gc'.visited
      BY <1>1, <1>2, <2>3, <2>4, <3>1 DEF Search
    <3>3. \A y \in DOMAIN gc'.cache : y \in Known(gc') \/ RefersIn(valid', y) \subseteq gc'.cache[y]
      BY <1>2, <2>3, <2>4, <3>1 DEF Search
    <3>4. \A y \in valid' \cap gc'.dead : refs[y] \subseteq Known(gc') /\ refs[y] \cap Judged(gc') = {}
      <4>1. \A y \in valid \cap gc.dead : refs[y] \subseteq Known(gc) /\ refs[y] \cap Judged(gc) = {}
        BY <1>2 DEF Search
      <4> QED
        BY <2>2, <2>3, <2>4, <4>1
    <3>5. Rooted(proc, gcroots) \cap Judged(gc') = {}
      BY <1>2, <2>4 DEF Search
    <3> QED
      BY <2>2, <2>3, <2>6, <3>2, <3>3, <3>4, <3>5 DEF Search
  <2>8. valid \cap Rooted(proc, gcroots) \subseteq valid' /\ valid' \subseteq disk'
    BY <1>1, <1>2, <2>2, <2>6
  <2>9. disk \cap Rooted(proc, gcroots) \subseteq disk'
    BY <1>1
  <2> QED
    BY <1>1, <2>2, <2>3, <2>4, <2>5, <2>7, <2>8, <2>9, SearchingSafe
<1> QED
  BY <1>3, <1>4

(* The contents that are deleted are no root's.                            *)
LEMMA UnlinkContentsSafe == ASSUME AllInv, unsafe = {}, GcUnlink PROVE SafeNext
<1>1. /\ gc.pc = "unlink" /\ disk' = disk \ {gc.cur} /\ Late(gc)
      /\ UNCHANGED <<valid, gcroots, proc, epoch, inUse>>
  BY DEF GcUnlink, Late, ghosts
<1>2. /\ gc \in GcType /\ valid \subseteq disk /\ Search(gc, valid, Rooted(proc, gcroots)) /\ Order(gc)
  BY GcParts
<1>3. gc.cur \notin Rooted(proc, gcroots) /\ gc.cur \notin valid
  BY <1>1, <1>2 DEF Search
<1>4. valid \subseteq disk' /\ disk \cap Rooted(proc, gcroots) \subseteq disk'
  BY <1>1, <1>2, <1>3
<1>5. CASE gc' = NoGC
  BY <1>1, <1>4, <1>5, StopSafe
<1> DEFINE c == [z \in DOMAIN gc.cache \ {gc.cur} |-> gc.cache[z]]
<1>6. CASE gc' = [gc EXCEPT !.pc = "doom", !.cur = NoPath, !.cache = c]
  <2>1. DOMAIN c \subseteq DOMAIN gc.cache /\ \A z \in DOMAIN c : c[z] = gc.cache[z]
    OBVIOUS
  <2> HIDE DEF c
  <2>2. /\ gc'.pc = "doom" /\ gc'.roots = gc.roots /\ gc'.temp = gc.temp /\ gc'.dead = gc.dead
        /\ gc'.visited = gc.visited /\ gc'.todo = gc.todo /\ gc'.cache = c
        /\ gc'.doomed = gc.doomed
    BY <1>2, <1>6 DEF GcType
  <2>3. Judged(gc') = Judged(gc) /\ Known(gc') = Known(gc) /\ Late(gc')
    BY <2>2 DEF Judged, Known, Late
  <2>4. Order(gc')
    BY <1>1, <1>2, <2>2, <2>3 DEF Order
  <2>5. \A y \in DOMAIN gc'.cache : y \in Known(gc') \/ RefersIn(valid, y) \subseteq gc'.cache[y]
    <3>1. \A y \in DOMAIN gc.cache : y \in Known(gc) \/ RefersIn(valid, y) \subseteq gc.cache[y]
      BY <1>2 DEF Search
    <3> QED
      BY <2>1, <2>2, <2>3, <3>1
  <2>6. Search(gc', valid, Rooted(proc, gcroots))
    BY <1>1, <1>2, <2>2, <2>3, <2>5 DEF Search
  <2> QED
    BY <1>1, <1>2, <1>4, <2>2, <2>3, <2>4, <2>6, SearchingSafe
<1> QED
  BY <1>5, <1>6 DEF GcUnlink

LEMMA GcSafe ==
    ASSUME AllInv, unsafe = {}, unsafe' = {}, GcLock \/ GcStep \/ GcCrash
    PROVE  SafeNext
<1>1. CASE GcRelease
  <2>1. gc.pc = "doom" /\ gc' = Leave(gc) /\ UNCHANGED <<storeVars, proc, epoch, ghosts>> /\ gc \in GcType
    BY <1>1, GcParts DEF GcRelease
  <2> QED
    BY <2>1, LeaveSafe DEF Late
<1>2. CASE GcDone \/ GcCrash
  <2>1. gc' = NoGC /\ UNCHANGED <<storeVars, proc, epoch, ghosts>> /\ valid \subseteq disk
    BY <1>2, GcParts DEF GcDone, GcCrash
  <2> QED
    BY <2>1, StopSafe DEF storeVars, ghosts
<1> QED
  BY <1>1, <1>2, BeginSafe, ReadFileSafe, OpenStoreSafe, StartSafe, VisitSafe, ExpandSafe,
     CondemnSafe, InvalidateSafe, UnlinkContentsSafe DEF GcStep

-----------------------------------------------------------------------------
(* Every step                                                              *)

(* A root acknowledged in one of the windows stays recorded.               *)
LEMMA UnsafeGrows == [Next]_vars => unsafe \subseteq unsafe'
BY DEF Next, vars, ProcStep, ServerStep, GcStep, storeVars, ghosts, AddTempRoot, OpenTempRoots,
   LockTempRoots, TryShared, Connect, Disconnected, ServerTake, ServerAck, AppendRoot, QueryValid,
   LockOutput, Recheck, Restore, Register, LinkRoot, UnlinkRoot, Exit, GcLock, GcListen,
   GcFindRoots, GcFindTempRoots, GcOpenStore, GcStart, GcVisit, GcExpand, GcCondemn, GcInvalidate,
   GcUnlink, GcRelease, GcDone, GcCrash

LEMMA AllStays == AllInv /\ [Next]_vars => AllInv'
<1> SUFFICES ASSUME AllInv, [Next]_vars PROVE AllInv'
  OBVIOUS
<1>1. ASSUME unsafe' = {} PROVE SafeNext
  <2>1. unsafe = {}
    BY <1>1, UnsafeGrows
  <2>2. CASE UNCHANGED vars
    BY <2>1, <2>2 DEF AllInv, SafeInv, SafeNext, vars
  <2> QED
    BY <1>1, <2>1, <2>2, ProcSafe, UnlinkSafe, GcSafe DEF Next
<1>2. SafeInv'
  BY <1>1 DEF SafeInv, SafeNext
<1> QED
  BY <1>2, ProcStays, ValidStays, SearchStays DEF AllInv

LEMMA AllInit == Init => AllInv
<1>1. Init => ValidClosed
  BY DEF Init, ValidClosed
<1> QED
  BY <1>1, ProcInit, SearchInit, SafeInit DEF AllInv

LEMMA AllAlways == Spec => []AllInv
  BY AllInit, AllStays, PTL DEF Spec

(* The contents of a valid path are on disk: the collector deletes only    *)
(* what it has invalidated and nobody has rooted, and who adds a path      *)
(* roots it first and wipes only what is not valid.                        *)
THEOREM ContentsStay == Spec => []ValidOnDisk
<1>1. AllInv => ValidOnDisk
  BY DEF AllInv, SafeInv, Safe, ValidOnDisk
<1> QED
  BY <1>1, AllAlways, PTL

LEMMA ClosureWithin ==
    ASSUME NEW T \in SUBSET Paths, Closed(T), NEW S, S \subseteq T
    PROVE  Closure(S) \subseteq T
BY DEF Closure

(* What a process has seen valid under its own root stays valid and on     *)
(* disk, with its closure.                                                 *)
THEOREM UsedPathsStay == Spec => []UsedStays
<1>1. AllInv => UsedStays
  <2> SUFFICES ASSUME AllInv, unsafe = {}, NEW p \in Procs
               PROVE  Closure(proc[p].used) \subseteq valid \cap disk
    BY DEF UsedStays
  <2>1. proc[p].used \subseteq valid /\ valid \subseteq disk /\ Closed(valid) /\ valid \subseteq Paths
    BY SafeParts DEF Rec
  <2> QED
    BY <2>1, ClosureWithin
<1> QED
  BY <1>1, AllAlways, PTL

(* Permanent roots protect their closure, from whichever of its two        *)
(* readings, the symlinks or the files, the collector knows them.          *)
THEOREM RootsAreKept == Spec => []PermRootsStay
<1>1. AllInv => PermRootsStay
  <2> SUFFICES ASSUME AllInv, unsafe = {} PROVE Closure(gcroots) \subseteq valid
    BY DEF PermRootsStay
  <2>1. gcroots \subseteq valid /\ Closed(valid) /\ valid \subseteq Paths
    BY GcParts DEF Safe
  <2> QED
    BY <2>1, ClosureWithin
<1> QED
  BY <1>1, AllAlways, PTL

(* The check for referrers in the transaction never fires: who could       *)
(* register a referrer has rooted the path, and roots are not invalidated. *)
THEOREM NeverFoundInUse == Spec => []NeverInUse
<1>1. AllInv => NeverInUse
  BY DEF AllInv, SafeInv, NeverInUse
<1> QED
  BY <1>1, AllAlways, PTL
=============================================================================
