-------------------------- MODULE MCWorkspaceGroup --------------------------
(* Small instances of WorkspaceGroup: the configurations a reload chooses  *)
(* from, and the view under which two states that differ only in serial    *)
(* numbers are one.                                                        *)
EXTENDS WorkspaceGroup, TLC

CONSTANTS v1, v2, t1

Dyn(names, above, floor) ==
  [dynamic |-> TRUE, names |-> names, fixed |-> <<>>, emptyAbove |-> above, minimum |-> floor]
Fix(labels) ==
  [dynamic |-> FALSE, names |-> <<>>, fixed |-> labels, emptyAbove |-> FALSE, minimum |-> 1]

\* A plain output, one with names, and two fixed inventories.
ReloadConfigs ==
  {Dyn(<<>>, FALSE, 1), Dyn(<<"a", "b">>, FALSE, 1), Fix(<<"b", "c">>), Fix(<<Anonymous, Anonymous, Anonymous>>)}

\* A leading sentinel, and a floor above one with a name that has to find room.
EdgeConfigs == {Dyn(<<>>, TRUE, 1), Dyn(<<"a">>, FALSE, 2)}

\* A floor above one.
FloorConfigs == {Dyn(<<>>, FALSE, 2)}

AboveConfigs == {Dyn(<<>>, TRUE, 1)}

PlainConfigs == {Dyn(<<>>, FALSE, 1)}

\* A plain output, and a fixed inventory, which puts nothing off.
DisturbedConfigs == PlainConfigs \cup {Fix(<<"b">>)}

\* Fresh serials grow for ever, and views differ only by their workspace: a
\* state is its positions and how many views each of them holds.
Canonical ==
  LET at(w) == IF w \in Live(group) THEN group.index[w] ELSE IF w = None THEN -1 ELSE -2
  IN <<config,
       [i \in 0..(Size(group) - 1) |->
          LET w == WorkspaceAt(group, i) IN IF w = None THEN None ELSE group.label[w]],
       [i \in -1..(Size(group) - 1) |-> Cardinality({v \in Views : at(group.home[v]) = i})],
       [l \in Launches |-> at(group.launch[l])],
       at(group.active), at(group.previous),
       at(group.slide.base), at(group.slide.previous), at(group.slide.next),
       group.slide.settling, group.gesture, group.dynamic, group.pending, group.wild,
       group.hold.owner, at(group.hold.target), group.hold.phase,
       {<<at(w), group.hold.order[w]>> : w \in DOMAIN group.hold.order}>>
=============================================================================
