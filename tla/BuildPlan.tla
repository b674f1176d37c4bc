------------------------------ MODULE BuildPlan ------------------------------
(***************************************************************************)
(* What the simulated build promises to whoever watches its event stream:  *)
(* an activity starts only after everything it depends on has finished,    *)
(* never more builds or substitutions run than there are slots, and a      *)
(* finished activity stays finished.  Nothing is said about queues, time   *)
(* or the order in which ready work is picked.                             *)
(***************************************************************************)
EXTENDS Naturals, FiniteSets

CONSTANTS
  Node,        (* The derivations of the graph.                            *)
  Graphs,      (* The dependency relations considered, node -> its inputs. *)
  JobLimits,   (* Admissible numbers of concurrent builds.                 *)
  SubLimits    (* Admissible numbers of concurrent substitutions.          *)

VARIABLES
  inputs,              (* The graph of this run.                           *)
  will_substitute,     (* The nodes that are substituted, not built.       *)
  max_jobs,
  max_substitutions,
  status               (* What the stream has said of each node so far.    *)

plan == <<inputs, will_substitute, max_jobs, max_substitutions>>
vars == <<plan, status>>

Running(S) == {n \in S : status[n] = "started"}
Builds     == Node \ will_substitute
Subs       == Node \cap will_substitute

TypeOK ==
  /\ inputs \in Graphs
  /\ will_substitute \in SUBSET Node
  /\ max_jobs \in JobLimits
  /\ max_substitutions \in SubLimits
  /\ status \in [Node -> {"unseen", "started", "finished"}]

Init ==
  /\ inputs \in Graphs
  /\ will_substitute \in SUBSET Node
  /\ max_jobs \in JobLimits
  /\ max_substitutions \in SubLimits
  /\ status = [n \in Node |-> "unseen"]

SlotFor(n) ==
  IF n \in will_substitute
  THEN Cardinality(Running(Subs)) < max_substitutions
  ELSE Cardinality(Running(Builds)) < max_jobs

Start(n) ==
  /\ status[n] = "unseen"
  /\ \A d \in inputs[n] : status[d] = "finished"
  /\ SlotFor(n)
  /\ status' = [status EXCEPT ![n] = "started"]
  /\ UNCHANGED plan

Finish(n) ==
  /\ status[n] = "started"
  /\ status' = [status EXCEPT ![n] = "finished"]
  /\ UNCHANGED plan

Next == \E n \in Node : Start(n) \/ Finish(n)

Spec == Init /\ [][Next]_vars
=============================================================================
