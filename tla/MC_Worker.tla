----------------------------- MODULE MC_Worker -----------------------------
(* lib has two outputs and is an input of app and of doc.                  *)
EXTENDS Worker, TLC

mcDrvs == {"lib", "app", "doc"}
mcOuts == "lib" :> {"dev", "out"} @@ "app" :> {"out"} @@ "doc" :> {"out"}
mcFirst == "lib" :> "dev" @@ "app" :> "out" @@ "doc" :> "out"
mcInputs == "lib" :> {} @@ "app" :> {"lib"} @@ "doc" :> {"lib"}

mcBuild ==
    [inputs |-> mcInputs, top |-> {T("app"), T("doc")}, keepGoing |-> TRUE, maxJobs |-> 1,
     maxSubs |-> 1, fallback |-> FALSE, substituters |-> {}, broken |-> {}, offers |-> {},
     stock |-> {}, foreign |-> {}, timeouts |-> FALSE]

(* Builds only: two jobs at a time, stop at the first failure, locks of    *)
(* other processes and timeouts, no jobs at all, one output in the store.  *)
mcBuilds ==
    {mcBuild,
     [mcBuild EXCEPT !.maxJobs = 2, !.keepGoing = FALSE, !.top = @ \cup {T("lib")}],
     [mcBuild EXCEPT !.foreign = {"lib"}, !.timeouts = TRUE],
     [mcBuild EXCEPT !.foreign = {"app"}, !.keepGoing = FALSE, !.timeouts = TRUE],
     [mcBuild EXCEPT !.maxJobs = 0, !.stock = {<<"lib", "dev">>}]}

(* Substitution: one substituter with everything or a part, with and       *)
(* without --fallback and --keep-going; two that differ, no jobs; a path   *)
(* and a derivation that share their references, two substitutions at a    *)
(* time; a chain of three derivations; a last substituter that fails.      *)
mcAll == {1} \X Outputs
mcPart == {<<1, <<"lib", "dev">>>>, <<1, <<"app", "out">>>>}
mcSubst == [mcBuild EXCEPT !.substituters = {1}, !.offers = mcAll, !.top = {T("app")}]
mcSubsts ==
    {[mcSubst EXCEPT !.keepGoing = k, !.fallback = f, !.offers = o] :
        k \in BOOLEAN, f \in BOOLEAN, o \in {mcAll, mcPart}}
    \cup {[mcSubst EXCEPT !.substituters = {1, 2}, !.maxSubs = 0, !.maxJobs = 0,
                          !.offers = mcPart \cup {<<2, <<"lib", "out">>>>, <<2, <<"lib", "dev">>>>}],
          [mcSubst EXCEPT !.maxSubs = 2, !.keepGoing = FALSE, !.top = {S("doc", "out"), T("app")}],
          [mcSubst EXCEPT !.inputs = "lib" :> {} @@ "doc" :> {"lib"} @@ "app" :> {"doc"},
                          !.fallback = TRUE, !.offers = {<<1, <<"doc", "out">>>>}],
          [mcSubst EXCEPT !.substituters = {1, 2}, !.broken = {2}]}

(* An output of lib is built while the other is substituted, and doc,      *)
(* which app needs as well, fails.                                         *)
mcTwoWays ==
    {[mcSubst EXCEPT !.inputs = "lib" :> {} @@ "doc" :> {} @@ "app" :> {"lib", "doc"},
                     !.keepGoing = FALSE, !.maxJobs = 2, !.offers = {<<1, <<"lib", "out">>>>}]}

mcScenarios == mcBuilds \cup mcSubsts \cup mcTwoWays
(* Only one of the two outputs of lib can be substituted.                  *)
mcOneOutput == {[mcSubst EXCEPT !.offers = mcPart]}
=============================================================================
