------------------------------ MODULE StoreGC ------------------------------
(***************************************************************************)
(* The garbage collector of the local store against the processes that     *)
(* use and fill the store: gc.cc, the temporary-roots files, the global    *)
(* GC lock, the collector's root server, and addToStore.                   *)
(*                                                                         *)
(* A path is a model value; its references are fixed by its contents, so   *)
(* they are a constant.  The database (valid) and the file system (disk)   *)
(* are separate, because the code changes them in separate steps.  One     *)
(* database transaction is one step.  Processes have one thread, and a     *)
(* process that ends does not come back (a new one has another pid).       *)
(* Not modelled: keep-outputs, keep-derivations, gcDeleteSpecific, runtime *)
(* roots, the optimised links, repair.                                     *)
(***************************************************************************)
EXTENDS Naturals, FiniteSets

CONSTANTS Procs,          \* the processes that use the store
          Paths,          \* the store paths
          refs,           \* refs[x]: the references of path x
          NoPath,         \* no path
          Scenarios       \* the bounds of a behaviour, chosen by Init: the paths each
                          \* process may ask for, those it may ask for again to link
                          \* them, those that may be there at first, the processes
                          \* that may exit, the number of collections

Closed(S) == \A x \in S : refs[x] \subseteq S

ASSUME PathsAssumption ==
    /\ IsFiniteSet(Paths) /\ NoPath \notin Paths
    /\ refs \in [Paths -> SUBSET Paths]
    /\ \A x \in Paths : x \notin refs[x]
    /\ \A S \in SUBSET Paths : S # {} => \E x \in S : \A z \in S : x \notin refs[z]
    /\ \A s \in Scenarios : /\ s.wants \in [Procs -> SUBSET Paths]
                           /\ s.links \subseteq Paths
                           /\ s.stock \subseteq Paths /\ s.mortal \subseteq Procs
                           /\ s.collections \in Nat

VARIABLES bound,    \* the scenario; it never changes
          valid,    \* the paths registered in the database
          disk,     \* the paths whose contents are in the store directory
          gcroots,  \* the targets of the symlinks under gcroots
          proc,     \* the processes
          gc,       \* the collector
          epoch,    \* the number of collections begun
          unsafe,   \* history: roots acknowledged in a window where the collector does not honour them
          inUse     \* history: "BUG", an invalidation refused with PathInUse

vars == <<bound, valid, disk, gcroots, proc, gc, epoch, unsafe, inUse>>

-----------------------------------------------------------------------------
(* The paths reachable from S along references: computeFSClosure.          *)
Closure(S) == {x \in Paths :
                 \A T \in SUBSET Paths : S \subseteq T /\ Closed(T) => x \in T}

Referrers(x) == {z \in valid : x \in refs[z]}

RootPcs == {"open", "lock", "try", "connect", "sent", "queued", "shared", "acked"}
AddPcs == {"rooted", "locking", "locked", "wiped", "restored"}
HoldsOutput == {"locked", "wiped", "restored"}

(* pc: where the process is in addTempRoot and then addToStore of target;  *)
(* file: its temporary-roots file; roots: what it has appended to it;      *)
(* used: the paths it has since seen valid; conn: the collection its       *)
(* socket is connected to, 0 if closed.                                    *)
NewProc == [pc |-> "idle", target |-> NoPath, file |-> "none",
            roots |-> {}, used |-> {}, conn |-> 0]

NoGC == [pc |-> "idle", roots |-> {}, temp |-> {}, files |-> {}, unread |-> {},
         start |-> NoPath, visited |-> {}, todo |-> {}, cur |-> NoPath,
         pending |-> NoPath, doomed |-> {}, dead |-> {}, alive |-> {},
         cache |-> [x \in {} |-> {}]]

(* The store starts closed under references, with some of it rooted, no    *)
(* process in an operation and no collection.                              *)
Init ==
    /\ bound \in Scenarios
    /\ valid \in {S \in SUBSET bound.stock : Closed(S)}
    /\ disk = valid
    /\ gcroots \in SUBSET valid
    /\ proc = [p \in Procs |-> NewProc]
    /\ gc = NoGC
    /\ epoch = 0
    /\ unsafe = {}
    /\ inUse = FALSE

storeVars == <<bound, valid, disk, gcroots>>
ghosts == <<unsafe, inUse>>

At(p, c) == proc[p].pc = c
Goto(p, c) == proc' = [proc EXCEPT ![p].pc = c]

(* The collector's socket accepts connections and its server answers.      *)
Serving == gc.pc \notin {"idle", "exclusive"}
Connected(p) == Serving /\ proc[p].conn = epoch

-----------------------------------------------------------------------------
(* addTempRoot                                                             *)

(* A process asks for a temporary root on x; the file is created once.     *)
AddTempRoot(p, x) ==
    /\ At(p, "idle")
    /\ x \in bound.wants[p] /\ (x \in proc[p].used => x \in bound.links)
    /\ proc' = [proc EXCEPT ![p].target = x,
                            ![p].pc = IF proc[p].file = "held" THEN "try" ELSE "open"]
    /\ UNCHANGED <<storeVars, gc, epoch, ghosts>>

(* createTempRootsFile: unlink what is there, create the file.             *)
OpenTempRoots(p) ==
    /\ At(p, "open")
    /\ proc' = [proc EXCEPT ![p].file = "opened", ![p].pc = "lock"]
    /\ UNCHANGED <<storeVars, gc, epoch, ghosts>>

(* The write lock is granted; a file that the collector has marked is of   *)
(* no use, and the process starts over.                                    *)
LockTempRoots(p) ==
    /\ At(p, "lock")
    /\ proc' = IF proc[p].file = "opened"
               THEN [proc EXCEPT ![p].file = "held", ![p].pc = "try"]
               ELSE [proc EXCEPT ![p].pc = "open"]
    /\ UNCHANGED <<storeVars, gc, epoch, ghosts>>

(* A shared global GC lock, without waiting: only if nobody collects.      *)
TryShared(p) ==
    /\ At(p, "try")
    /\ Goto(p, IF gc.pc = "idle" THEN "shared" ELSE "connect")
    /\ UNCHANGED <<storeVars, gc, epoch, ghosts>>

(* Connect, or use the open socket, and send the path; a collector that is *)
(* not listening yet, or no longer, means starting over.                   *)
Connect(p) ==
    /\ At(p, "connect")
    /\ proc' = IF Serving /\ proc[p].conn \in {0, epoch}
               THEN [proc EXCEPT ![p].conn = epoch, ![p].pc = "sent"]
               ELSE [proc EXCEPT ![p].conn = 0, ![p].pc = "try"]
    /\ UNCHANGED <<storeVars, gc, epoch, ghosts>>

(* End of file, reset or broken pipe while waiting for the answer.         *)
Disconnected(p) ==
    /\ proc[p].pc \in {"sent", "queued"}
    /\ ~Connected(p)
    /\ proc' = [proc EXCEPT ![p].conn = 0, ![p].pc = "try"]
    /\ UNCHANGED <<storeVars, gc, epoch, ghosts>>

(* The server thread of the connection records the root.                   *)
ServerTake(p) ==
    /\ At(p, "sent")
    /\ Connected(p)
    /\ gc' = [gc EXCEPT !.temp = @ \cup {proc[p].target}]
    /\ Goto(p, "queued")
    /\ UNCHANGED <<storeVars, epoch, ghosts>>

(* x has been visited, is no longer the pending path, and is still to be   *)
(* deleted: the collector will not look at its roots again.                *)
Condemned(x) ==
    \/ x \in gc.visited \ gc.todo /\ x \notin gc.dead
    \/ gc.pc = "unlink" /\ gc.cur = x

MustWait(x) == gc.pending = x

(* The answer, once the path is not the one being deleted.                 *)
ServerAck(p) ==
    /\ At(p, "queued")
    /\ Connected(p)
    /\ ~MustWait(proc[p].target)
    /\ Goto(p, "acked")
    /\ unsafe' = IF Condemned(proc[p].target)
                 THEN unsafe \cup {<<p, proc[p].target>>} ELSE unsafe
    /\ UNCHANGED <<storeVars, gc, epoch, inUse>>

(* Append to the file and return, releasing the shared lock if held.       *)
AppendRoot(p) ==
    /\ proc[p].pc \in {"shared", "acked"}
    /\ proc' = [proc EXCEPT ![p].roots = @ \cup {proc[p].target}, ![p].pc = "rooted"]
    /\ UNCHANGED <<storeVars, gc, epoch, ghosts>>

-----------------------------------------------------------------------------
(* addToStore and addPermRoot, after the temporary root is in place        *)

Done(p, used) == proc' = [proc EXCEPT ![p].pc = "idle", ![p].target = NoPath,
                                      ![p].used = @ \cup used]

(* isValidPath without the output lock: a valid path is used as it is.     *)
(* Only a path whose references the process already uses is added:         *)
(* callers add closures in topological order.                              *)
QueryValid(p) ==
    /\ At(p, "rooted")
    /\ LET x == proc[p].target
       IN  \/ x \in valid /\ Done(p, {x})
           \/ x \notin valid /\ refs[x] \subseteq proc[p].used /\ Goto(p, "locking")
           \/ x \notin valid /\ ~(refs[x] \subseteq proc[p].used) /\ Done(p, {})
    /\ UNCHANGED <<storeVars, gc, epoch, ghosts>>

(* The lock on the output path.                                            *)
LockOutput(p) ==
    /\ At(p, "locking")
    /\ \A q \in Procs : proc[q].target = proc[p].target => proc[q].pc \notin HoldsOutput
    /\ Goto(p, "locked")
    /\ UNCHANGED <<storeVars, gc, epoch, ghosts>>

(* Mutant: the path is not checked again under the lock.                   *)
Recheck_Not(p) ==
    /\ At(p, "locked")
    /\ Goto(p, "wiped") /\ disk' = disk \ {proc[p].target}
    /\ UNCHANGED <<bound, valid, gcroots, gc, epoch, ghosts>>

(* isValidPath again under the lock; otherwise remove what is there.       *)
Recheck(p) ==
    /\ At(p, "locked")
    /\ LET x == proc[p].target
       IN  \/ x \in valid /\ Done(p, {x}) /\ disk' = disk
           \/ x \notin valid /\ Goto(p, "wiped") /\ disk' = disk \ {x}
    /\ UNCHANGED <<bound, valid, gcroots, gc, epoch, ghosts>>

(* Restore the contents.                                                   *)
Restore(p) ==
    /\ At(p, "wiped")
    /\ disk' = disk \cup {proc[p].target}
    /\ Goto(p, "restored")
    /\ UNCHANGED <<bound, valid, gcroots, gc, epoch, ghosts>>

(* registerValidPaths: one transaction, rolled back if a reference is not  *)
(* valid.                                                                  *)
Register(p) ==
    /\ At(p, "restored")
    /\ LET x == proc[p].target
       IN  \/ refs[x] \subseteq valid /\ valid' = valid \cup {x} /\ Done(p, {x})
           \/ ~(refs[x] \subseteq valid) /\ valid' = valid /\ Done(p, {})
    /\ UNCHANGED <<bound, disk, gcroots, gc, epoch, ghosts>>

(* addPermRoot: a symlink, for a path the process uses, after a temporary  *)
(* root on it.                                                             *)
LinkRoot(p) ==
    /\ At(p, "rooted")
    /\ proc[p].target \in proc[p].used
    /\ gcroots' = gcroots \cup {proc[p].target}
    /\ Done(p, {})
    /\ UNCHANGED <<bound, valid, disk, gc, epoch, ghosts>>

(* Somebody removes a root.                                                *)
UnlinkRoot(x) ==
    /\ x \in gcroots
    /\ gcroots' = gcroots \ {x}
    /\ UNCHANGED <<bound, valid, disk, proc, gc, epoch, ghosts>>

(* A process exits, removing its file, or is killed, leaving it unlocked.  *)
(* A root it linked after the collector read gcroots is then in neither of *)
(* the collector's two readings.                                           *)
Exit(p) ==
    /\ p \in bound.mortal /\ proc[p].pc # "dead"
    /\ \E f \in {"none", "stale"} :
         proc' = [proc EXCEPT ![p] = [NewProc EXCEPT !.pc = "dead",
                              !.file = IF proc[p].file = "none" THEN "none" ELSE f]]
    /\ unsafe' = IF gc.pc = "temp" /\ p \in gc.files
                 THEN unsafe \cup ({p} \X ((gcroots \cap proc[p].roots) \ gc.roots))
                 ELSE unsafe
    /\ UNCHANGED <<storeVars, gc, epoch, inUse>>

-----------------------------------------------------------------------------
(* collectGarbage                                                          *)

(* Mutant: the lock is not exclusive.                                      *)
GcLock_NoWait ==
    /\ gc.pc = "idle"
    /\ epoch < bound.collections
    /\ gc' = [gc EXCEPT !.pc = "exclusive"]
    /\ epoch' = epoch + 1
    /\ UNCHANGED <<storeVars, proc, ghosts>>

(* The exclusive lock, once no process holds the shared one.               *)
GcLock ==
    /\ gc.pc = "idle"
    /\ epoch < bound.collections
    /\ \A p \in Procs : ~At(p, "shared")
    /\ gc' = [gc EXCEPT !.pc = "exclusive"]
    /\ epoch' = epoch + 1
    /\ UNCHANGED <<storeVars, proc, ghosts>>

GcListen ==
    /\ gc.pc = "exclusive"
    /\ gc' = [gc EXCEPT !.pc = "listen"]
    /\ UNCHANGED <<storeVars, proc, epoch, ghosts>>

(* findRootsNoTemp.                                                        *)
GcFindRoots ==
    /\ gc.pc = "listen"
    /\ gc' = [gc EXCEPT !.pc = "temp", !.roots = gcroots \cap valid, !.files = Procs]
    /\ UNCHANGED <<storeVars, proc, epoch, ghosts>>

(* findTempRoots, one file: one that nobody has locked is removed, one     *)
(* that is locked is read.                                                 *)
GcFindTempRoots(p) ==
    /\ gc.pc = "temp"
    /\ p \in gc.files
    /\ gc' = [gc EXCEPT !.files = @ \ {p},
                        !.temp = IF proc[p].file = "held" THEN @ \cup proc[p].roots ELSE @]
    /\ proc' = [proc EXCEPT ![p].file = CASE @ = "opened" -> "marked"
                                          [] @ = "stale" -> "none"
                                          [] OTHER -> @]
    /\ unsafe' = IF At(p, "acked") /\ proc[p].conn # epoch
                 THEN unsafe \cup {<<p, proc[p].target>>} ELSE unsafe
    /\ UNCHANGED <<storeVars, epoch, inUse>>

(* Open the store directory.                                               *)
GcOpenStore ==
    /\ gc.pc = "temp"
    /\ gc.files = {}
    /\ gc' = [gc EXCEPT !.pc = "next", !.unread = disk]
    /\ UNCHANGED <<storeVars, proc, epoch, ghosts>>

(* deleteReferrersClosure begins with the next entry of the directory.     *)
GcStart(x) ==
    /\ gc.pc = "next"
    /\ x \in gc.unread
    /\ gc' = [gc EXCEPT !.pc = "pop", !.unread = @ \ {x}, !.start = x,
                        !.visited = {x}, !.todo = {x}]
    /\ UNCHANGED <<storeVars, proc, epoch, ghosts>>

(* Mutant: the pending path is not released.                               *)
Leave_KeepsPending(g) ==
    [g EXCEPT !.pc = "next", !.start = NoPath, !.visited = {}, !.todo = {},
              !.cur = NoPath, !.doomed = {}]

(* Leaving deleteReferrersClosure, which releases the pending path.        *)
Leave(g) == [g EXCEPT !.pc = "next", !.start = NoPath, !.visited = {}, !.todo = {},
                      !.cur = NoPath, !.pending = NoPath, !.doomed = {}]

(* Mutants: only the roots sent or read from the files; only the symlinks. *)
IsRoot_TempOnly(x) == x \in gc.temp
IsRoot_PermOnly(x) == x \in gc.roots

IsRoot(x) == x \in gc.roots \/ x \in gc.temp

(* Mutant: the closure in the other direction.                             *)
MarkAlive_Flipped(x) == {x, gc.start} \cup {z \in valid : x \in Closure({z})}

(* markAlive: the path, where the search began, and the path's closure.    *)
MarkAlive(x) == {x, gc.start} \cup (IF x \in valid THEN Closure({x}) ELSE {})

(* One path of the queue: known alive, known dead, a root, or a candidate, *)
(* which becomes the pending path.                                         *)
GcVisit(x) ==
    /\ gc.pc = "pop"
    /\ x \in gc.todo
    /\ LET g == [gc EXCEPT !.todo = @ \ {x}]
       IN  gc' = IF x \in gc.alive THEN Leave([g EXCEPT !.alive = @ \cup {gc.start}])
                 ELSE IF x \in gc.dead THEN g
                 ELSE IF IsRoot(x) THEN Leave([g EXCEPT !.alive = @ \cup MarkAlive(x)])
                 ELSE [g EXCEPT !.pc = "expand", !.cur = x, !.pending = x]
    /\ UNCHANGED <<storeVars, proc, epoch, ghosts>>

(* Mutant: the referrers are not visited.                                  *)
GcExpand_NoReferrers ==
    /\ gc.pc = "expand"
    /\ gc' = [gc EXCEPT !.pc = "pop", !.cur = NoPath]
    /\ UNCHANGED <<storeVars, proc, epoch, ghosts>>

(* Its referrers join the queue; they are read from the database once.     *)
GcExpand ==
    /\ gc.pc = "expand"
    /\ LET x == gc.cur
           known == x \in DOMAIN gc.cache
           found == IF x \notin valid THEN {} ELSE IF known THEN gc.cache[x] ELSE Referrers(x)
       IN  gc' = [gc EXCEPT !.pc = "pop", !.cur = NoPath,
                            !.visited = @ \cup found,
                            !.todo = @ \cup (found \ gc.visited),
                            !.cache = IF x \in valid
                                      THEN [z \in DOMAIN @ \cup {x} |->
                                              IF z = x THEN found ELSE @[z]]
                                      ELSE @]
    /\ UNCHANGED <<storeVars, proc, epoch, ghosts>>

(* The queue is empty: what was visited is garbage.                        *)
GcCondemn ==
    /\ gc.pc = "pop"
    /\ gc.todo = {}
    /\ gc' = [gc EXCEPT !.pc = "doom", !.doomed = gc.visited]
    /\ UNCHANGED <<storeVars, proc, epoch, ghosts>>

(* Mutant: the transaction does not look for referrers.                    *)
StillReferred_Not(x) == FALSE

(* The check inside the transaction of invalidatePathChecked.              *)
StillReferred(x) == x \in valid /\ Referrers(x) # {}

(* invalidatePathChecked, referrers before what they refer to.             *)
GcInvalidate(x) ==
    /\ gc.pc = "doom"
    /\ x \in gc.doomed
    /\ \A z \in gc.doomed : x \notin refs[z]
    /\ LET g == [gc EXCEPT !.doomed = @ \ {x}, !.dead = @ \cup {x}]
       IN  \/ /\ x \in gc.dead
              /\ gc' = g /\ UNCHANGED <<bound, valid, inUse>>
           \/ /\ x \notin gc.dead /\ StillReferred(x)
              /\ gc' = g /\ inUse' = TRUE /\ valid' = valid
           \/ /\ x \notin gc.dead /\ ~StillReferred(x)
              /\ gc' = [g EXCEPT !.pc = "unlink", !.cur = x]
              /\ valid' = valid \ {x} /\ inUse' = inUse
    /\ UNCHANGED <<bound, disk, gcroots, proc, epoch, unsafe>>

(* deleteFromStore; enough may have been freed (GCLimitReached).           *)
GcUnlink ==
    /\ gc.pc = "unlink"
    /\ disk' = disk \ {gc.cur}
    /\ \/ gc' = NoGC
       \/ gc' = [gc EXCEPT !.pc = "doom", !.cur = NoPath,
                           !.cache = [z \in DOMAIN @ \ {gc.cur} |-> @[z]]]
    /\ UNCHANGED <<bound, valid, gcroots, proc, epoch, ghosts>>

GcRelease ==
    /\ gc.pc = "doom"
    /\ gc.doomed = {}
    /\ gc' = Leave(gc)
    /\ UNCHANGED <<storeVars, proc, epoch, ghosts>>

(* The end of the directory: the server's threads are joined, which needs  *)
(* that none of them waits for a deletion, and the lock is released.       *)
GcDone ==
    /\ gc.pc = "next"
    /\ gc.unread = {}
    /\ \A p \in Procs : At(p, "queued") /\ Connected(p) => ~MustWait(proc[p].target)
    /\ gc' = NoGC
    /\ UNCHANGED <<storeVars, proc, epoch, ghosts>>

(* The collector is killed.                                                *)
GcCrash ==
    /\ gc.pc # "idle"
    /\ gc' = NoGC
    /\ UNCHANGED <<storeVars, proc, epoch, ghosts>>

-----------------------------------------------------------------------------
ProcStep(p) ==
    \/ OpenTempRoots(p) \/ LockTempRoots(p) \/ TryShared(p) \/ Connect(p)
    \/ Disconnected(p) \/ AppendRoot(p)
    \/ QueryValid(p) \/ LockOutput(p) \/ Recheck(p) \/ Restore(p) \/ Register(p)

ServerStep(p) == ServerTake(p) \/ ServerAck(p)

GcStep ==
    \/ GcListen \/ GcFindRoots \/ (\E p \in Procs : GcFindTempRoots(p)) \/ GcOpenStore
    \/ (\E x \in Paths : GcStart(x) \/ GcVisit(x) \/ GcInvalidate(x))
    \/ GcExpand \/ GcCondemn \/ GcUnlink \/ GcRelease \/ GcDone

Next ==
    \/ \E p \in Procs : \/ \E x \in Paths : AddTempRoot(p, x)
                        \/ ProcStep(p) \/ ServerStep(p)
                        \/ LinkRoot(p) \/ Exit(p)
    \/ \E x \in Paths : UnlinkRoot(x)
    \/ GcLock \/ GcStep \/ GcCrash

(* The processes, the server's threads and a collection that has begun are *)
(* scheduled; nobody has to ask for a root, collect, exit or crash.        *)
Fairness ==
    /\ \A p \in Procs : WF_vars(ProcStep(p)) /\ WF_vars(ServerStep(p))
    /\ WF_vars(GcStep)

Spec == Init /\ [][Next]_vars /\ Fairness

-----------------------------------------------------------------------------
(* Properties                                                              *)

ProcType == [pc : {"idle", "dead"} \cup RootPcs \cup AddPcs,
             target : Paths \cup {NoPath},
             file : {"none", "opened", "marked", "held", "stale"},
             roots : SUBSET Paths, used : SUBSET Paths, conn : Nat]

(* The shape of the state; what a process uses is in its file, the pending *)
(* path is not yet deleted, and nobody holds the shared lock during a      *)
(* collection.                                                             *)
TypeOK ==
    /\ valid \subseteq Paths /\ disk \subseteq Paths /\ gcroots \subseteq Paths
    /\ proc \in [Procs -> ProcType]
    /\ unsafe \subseteq Procs \X Paths /\ inUse \in BOOLEAN /\ epoch \in Nat
    /\ \A p \in Procs : /\ proc[p].used \subseteq proc[p].roots
                        /\ At(p, "shared") => gc.pc = "idle"
                        /\ proc[p].pc \in RootPcs \cup AddPcs => proc[p].target # NoPath

(* The database never holds a path without its references, whatever the    *)
(* collector and the processes do and wherever they are killed.            *)
ValidClosed == Closed(valid)

(* The four properties below hold as long as no root has been acknowledged *)
(* in one of the windows where the collector no longer looks at it.        *)

(* A path that the database says is valid has its contents on disk: nobody *)
(* deletes contents that somebody else has registered in between.          *)
ValidOnDisk == unsafe = {} => valid \subseteq disk

(* The comment in the server: a process that asks for a path that is being *)
(* deleted waits until the deletion is finished, so that it does not       *)
(* re-create the path too early.  Registered contents would stay then.     *)
NoEarlyRecreation == valid \subseteq disk

(* What a process has seen valid under its own temporary root stays valid  *)
(* and on disk, with everything it refers to, for as long as it lives.     *)
UsedStays == unsafe = {} =>
    \A p \in Procs : Closure(proc[p].used) \subseteq valid \cap disk

(* The target of a permanent root, and its closure, is never collected,    *)
(* also when the process that linked it exits during the collection.       *)
PermRootsStay == unsafe = {} => Closure(gcroots) \subseteq valid

(* The check for referrers that guards each invalidation never fires: what *)
(* the collector found to be garbage gains no referrer in the meantime.    *)
NeverInUse == unsafe = {} => ~inUse

(* The collector keeps only what a root reaches: a path is not declared    *)
(* alive because of where its search happened to start.                    *)
AliveIsReachable == gc.alive \subseteq Closure(gc.roots \cup gc.temp)

(* addTempRoot returns: a collector that begins, ends or is killed at any  *)
(* point, and a pending deletion, only delay the process.                  *)
RootRequestReturns ==
    \A p \in Procs : proc[p].pc \in RootPcs ~> proc[p].pc \notin RootPcs
=============================================================================
