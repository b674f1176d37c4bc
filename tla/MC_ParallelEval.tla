-------------------------- MODULE MC_ParallelEval --------------------------
(* Two workers and the main thread; two values in one domain, one alone.   *)
EXTENDS ParallelEval, TLC
CONSTANTS a, b, c, w1, w2, main, none

mcDomain == a :> 1 @@ b :> 1 @@ c :> 2

(* All force b, directly or through a; c throws; c forces itself; the main *)
(* thread does not wait for the items; an interrupt.                       *)
mcShared ==
    [exprs |-> a :> <<b>> @@ b :> <<>> @@ c :> <<b>>, broken |-> {}, items |-> {a, b},
     roots |-> <<a>>, waits |-> TRUE, interrupts |-> FALSE]
mcScenarios ==
    {mcShared,
     [mcShared EXCEPT !.broken = {b}, !.items = {a, c}, !.roots = <<b>>],
     [mcShared EXCEPT !.exprs[c] = <<c>>, !.items = {c}],
     [mcShared EXCEPT !.waits = FALSE, !.items = {a, c}],
     [mcShared EXCEPT !.interrupts = TRUE, !.items = {a}, !.roots = <<b>>],
     [mcShared EXCEPT !.interrupts = TRUE, !.items = {a, c}, !.exprs[a] = <<>>]}
=============================================================================
