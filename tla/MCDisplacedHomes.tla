-------------------------- MODULE MCDisplacedHomes --------------------------
(* Small instances of DisplacedHomes: every output declares one workspace  *)
(* name, and states that differ only in serial numbers are one.            *)
EXTENDS DisplacedHomes

OneName ==
  [dynamic |-> TRUE, names |-> <<"n">>, fixed |-> <<>>, emptyAbove |-> TRUE, minimum |-> 1]

Both == <<1, 2>>

Shape(g) ==
  [i \in 0..(Inventory!Size(g) - 1) |->
     LET w == Inventory!WorkspaceAt(g, i)
     IN <<g.label[w], {v \in Views : g.home[v] = w}, w = g.active>>]

Shapes == <<[desk EXCEPT !.group = [o \in Outputs |-> Shape(desk.group[o])]], placed, events>>

\* The moves of one transfer commute, so windows are interchangeable.
Exchange == Permutations(Views)
=============================================================================
