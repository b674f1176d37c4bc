------------------------------- MODULE TuiSim -------------------------------
(***************************************************************************)
(* run_tui_simulation of src/nxb-main.cpp: the task that pulls events from *)
(* the generator, sleeps to each virtual timestamp and keeps the state the *)
(* HUD shows, while Ctrl-C may request a shutdown at any moment.  It drives *)
(* the generator of SimGen with emit_progress set, as the code does.       *)
(***************************************************************************)
EXTENDS SimGen

VARIABLES
  tui_pc,         (* next: at the for loop; asleep: in yield_for;          *)
                  (* handle: past the sleep; closing: in the final 700ms   *)
                  (* sleep; ended: the task has returned.                  *)
  shutdown,       (* UIRuntime's stop_requested.                           *)
  last_sim_time,
  active,         (* TuiSimState::active                                   *)
  hud_builds, hud_subs, completed, recent,
  late            (* History: events handled after the shutdown request.   *)

view    == <<active, hud_builds, hud_subs, completed, recent>>
gen     == <<config, pc, idx, work, emission, shown>>
tuivars == <<vars, tui_pc, shutdown, last_sim_time, view, late>>

TuiInit ==
  /\ Init
  /\ emit_progress
  /\ tui_pc = "next"
  /\ shutdown = FALSE
  /\ last_sim_time = 0
  /\ active = <<>>
  /\ hud_builds = 0
  /\ hud_subs = 0
  /\ completed = 0
  /\ recent = <<>>
  /\ late = 0
-----------------------------------------------------------------------------
Produce ==
  /\ tui_pc = "next"
  /\ Generate
  /\ UNCHANGED <<tui_pc, shutdown, last_sim_time, view, late>>

(* The shutdown check comes once per event, before the sleep. *)
Abandon ==
  /\ tui_pc = "next"
  /\ event # NoEvent
  /\ shutdown
  /\ tui_pc' = "ended"
  /\ UNCHANGED <<vars, shutdown, last_sim_time, view, late>>

(* Faulty: the loop does not look at the shutdown flag. *)
Accept_Unchecked ==
  /\ tui_pc = "next"
  /\ event # NoEvent
  /\ tui_pc' \in {"asleep", "handle"}
  /\ last_sim_time' = last_sim_time
  /\ UNCHANGED <<vars, shutdown, view, late>>

(* Behind the wall clock no sleep happens; otherwise the task suspends. *)
Accept ==
  /\ tui_pc = "next"
  /\ event # NoEvent
  /\ ~shutdown
  /\ tui_pc' \in IF current_time > last_sim_time THEN {"asleep", "handle"}
                                                 ELSE {"handle"}
  /\ last_sim_time' = IF tui_pc' = "handle" THEN current_time ELSE last_sim_time
  /\ UNCHANGED <<vars, shutdown, view, late>>

WakeUp ==
  /\ tui_pc = "asleep"
  /\ tui_pc' = "handle"
  /\ last_sim_time' = current_time
  /\ UNCHANGED <<vars, shutdown, view, late>>

FindActive(n) == {i \in 1 .. Len(active) : active[i].id = n}
Without_Next(i) ==  (* Faulty: erases the item behind the one found. *)
  SubSeq(active, 1, i) \o SubSeq(active, i + 2, Len(active))
Without(i)    == SubSeq(active, 1, i - 1) \o SubSeq(active, i + 1, Len(active))

OnStarted(n) ==
  /\ active' = Append(active, [id |-> n, substitution |-> n \in will_substitute,
                               progress |-> 0])
  /\ IF n \in will_substitute
     THEN hud_subs' = hud_subs + 1 /\ UNCHANGED hud_builds
     ELSE hud_builds' = hud_builds + 1 /\ UNCHANGED hud_subs
  /\ UNCHANGED completed

(* Faulty: every finish is taken for a substitution. *)
OnFinished_AllSubs(n) ==
  /\ completed' = completed + 1
  /\ \E i \in FindActive(n) : active' = Without(i)
  /\ hud_subs' = hud_subs - 1
  /\ UNCHANGED hud_builds

OnFinished(n) ==
  /\ completed' = completed + 1
  /\ \/ FindActive(n) = {} /\ UNCHANGED <<active, hud_builds, hud_subs>>
     \/ \E i \in FindActive(n) :
          /\ \A j \in FindActive(n) : i <= j
          /\ active' = Without(i)
          /\ IF active[i].substitution
             THEN hud_subs' = hud_subs - 1 /\ UNCHANGED hud_builds
             ELSE hud_builds' = hud_builds - 1 /\ UNCHANGED hud_subs

OnProgress(n) ==
  /\ active' = [i \in 1 .. Len(active) |->
                  IF i \in FindActive(n) THEN [active[i] EXCEPT !.progress = event.done]
                                         ELSE active[i]]
  /\ UNCHANGED <<hud_builds, hud_subs, completed>>

(* Only started and log events have a label; the last three are kept. *)
Remember(n) ==
  recent' = IF event.kind \in {"started", "log"}
            THEN SubSeq(<<n>> \o recent, 1, IF Len(recent) < 3 THEN Len(recent) + 1 ELSE 3)
            ELSE recent

Handle ==
  /\ tui_pc = "handle"
  /\ CASE event.kind = "started"  -> OnStarted(event.node)
       [] event.kind = "finished" -> OnFinished(event.node)
       [] event.kind = "progress" -> OnProgress(event.node)
       [] event.kind = "log"      -> UNCHANGED <<active, hud_builds, hud_subs, completed>>
  /\ Remember(event.node)
  /\ late' = IF shutdown THEN late + 1 ELSE late
  /\ event' = NoEvent
  /\ tui_pc' = "next"
  /\ UNCHANGED <<gen, shutdown, last_sim_time>>

(* The stream has ended: println, then the 700ms sleep. *)
Complete ==
  /\ tui_pc = "next"
  /\ At("done")
  /\ tui_pc' = "closing"
  /\ UNCHANGED <<vars, shutdown, last_sim_time, view, late>>

(* Faulty: the task returns without ending the runtime. *)
Close_Silent ==
  /\ tui_pc = "closing"
  /\ tui_pc' = "ended"
  /\ UNCHANGED <<vars, shutdown, last_sim_time, view, late>>

Close ==
  /\ tui_pc = "closing"
  /\ shutdown' = TRUE
  /\ tui_pc' = "ended"
  /\ UNCHANGED <<vars, last_sim_time, view, late>>

(* SIGINT or SIGTERM, delivered through the runtime's signal loop. *)
RequestShutdown ==
  /\ ~shutdown
  /\ shutdown' = TRUE
  /\ UNCHANGED <<vars, tui_pc, last_sim_time, view, late>>

Ended ==
  /\ tui_pc = "ended"
  /\ UNCHANGED tuivars

TuiStep == Produce \/ Abandon \/ Accept \/ WakeUp \/ Handle \/ Complete \/ Close
TuiNext == TuiStep \/ RequestShutdown \/ Ended

TuiSpec     == TuiInit /\ [][TuiNext]_tuivars
TuiFairSpec == TuiSpec /\ WF_tuivars(TuiStep)
-----------------------------------------------------------------------------
(* Every variable has its type: the HUD's unsigned counters are never cut below
   zero, and no derivation is counted as completed twice. *)
TuiTypeOK ==
  /\ TypeOK
  /\ tui_pc \in {"next", "asleep", "handle", "closing", "ended"}
  /\ shutdown \in BOOLEAN
  /\ last_sim_time \in Nat
  /\ active \in Seq([id : Node, substitution : BOOLEAN, progress : Nat])
  /\ hud_builds \in Nat /\ hud_subs \in Nat
  /\ completed \in 0 .. NumNodes
  /\ recent \in Seq(Node) /\ Len(recent) <= 3
  /\ late \in Nat

(* Whenever the task is back at its loop the HUD shows exactly the activities
   the stream has started and not finished, each once, and its three counters
   agree with that list and with what has finished. *)
HudAgrees ==
  tui_pc = "next" /\ event = NoEvent =>
    /\ {active[i].id : i \in 1 .. Len(active)} = {n \in Node : shown[n] = "started"}
    /\ \A i, j \in 1 .. Len(active) : active[i].id = active[j].id => i = j
    /\ hud_subs = Cardinality({i \in 1 .. Len(active) : active[i].substitution})
    /\ hud_builds + hud_subs = Len(active)
    /\ completed = Cardinality({n \in Node : shown[n] = "finished"})

(* The shutdown flag is read before the sleep and not after it: one event, and
   never more than one, is still shown after shutdown was requested. *)
OneLateEvent == late <= 1

(* A progress bar never moves back, and disappears only when it is full. *)
BarsFill ==
  [][\A i \in 1 .. Len(active) :
       \/ \E j \in 1 .. Len(active') :
            active'[j].id = active[i].id /\ active'[j].progress >= active[i].progress
       \/ active[i].progress = durations[active[i].id]]_tuivars

(* "Simulation complete: n/m" reports n = m unless a slot kind was disabled. *)
CompleteMeansAll ==
  tui_pc = "closing" /\ max_jobs > 0 /\ max_substitutions > 0 => completed = NumNodes

(* The task always ends, and when it does the whole runtime is shutting down. *)
TuiEnds == <>(tui_pc = "ended" /\ shutdown)
=============================================================================
