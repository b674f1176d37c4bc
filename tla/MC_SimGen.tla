------------------------------ MODULE MC_SimGen ------------------------------
(* Small instances of SimGen.  The graphs are the shapes that make the queue
   and the slots interact; an edge n -> d says that n needs d.              *)
EXTENDS SimGen

Needs(edges) == [n \in Node |-> {d \in Node : <<n, d>> \in edges}]

Independent == Needs({})
Chain       == Needs({<<0, 1>>, <<1, 2>>, <<2, 3>>})
Diamond     == Needs({<<0, 1>>, <<0, 2>>, <<1, 3>>, <<2, 3>>})
Join        == Needs({<<0, 1>>, <<0, 2>>, <<0, 3>>})
Fork        == Needs({<<0, 3>>, <<1, 3>>, <<2, 3>>})
TwoPairs    == Needs({<<0, 2>>, <<1, 3>>})
Upward      == Needs({<<3, 0>>, <<2, 0>>, <<3, 1>>})

MCGraphs    == {Independent, Chain, Diamond, Join, Fork, TwoPairs, Upward}

=============================================================================
