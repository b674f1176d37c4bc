---------------------------- MODULE MC_StoreGC ----------------------------
(* Two processes, a path and another that refers to it.                    *)
EXTENDS StoreGC, TLC
CONSTANTS lib, app, p1, p2

mcRefs == lib :> {} @@ app :> {lib}

(* One collection with both paths; two collections with one of them; two   *)
(* collections with both and a single process.                             *)
mcOneCollection ==
    [wants |-> p1 :> {lib, app} @@ p2 :> {lib}, links |-> {}, stock |-> {lib, app},
     mortal |-> {p1}, collections |-> 1]
mcTwoCollections ==
    [wants |-> p1 :> {lib} @@ p2 :> {lib}, links |-> {lib}, stock |-> {lib},
     mortal |-> {p1}, collections |-> 2]
mcOneProcess ==
    [wants |-> p1 :> {lib, app} @@ p2 :> {}, links |-> {}, stock |-> {lib, app},
     mortal |-> {}, collections |-> 2]
mcScenarios == {mcOneCollection, mcTwoCollections, mcOneProcess}

(* One collection, nobody exits: the server's answer alone.                *)
mcRecreate == {[mcOneCollection EXCEPT !.mortal = {}]}
=============================================================================
