------------------------------ MODULE MC_TuiSim ------------------------------
(* Three derivations, shapes with and without contention for slots. *)
EXTENDS TuiSim

Needs(edges) == [n \in Node |-> {d \in Node : <<n, d>> \in edges}]

MCGraphs == {Needs({}), Needs({<<0, 1>>, <<0, 2>>}), Needs({<<0, 1>>, <<1, 2>>}),
             Needs({<<0, 2>>, <<1, 2>>})}
=============================================================================
