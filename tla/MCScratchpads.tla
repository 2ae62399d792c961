----------------------------- MODULE MCScratchpads -----------------------------
(* Small instances of Scratchpads: a window, its dialog and another window,  *)
(* two pads of which a reload can take one away.                             *)
EXTENDS Scratchpads

CONSTANTS v1, v2, d1, o1, o2

OwnerOf == [v \in Views |-> IF v = d1 THEN v1 ELSE None]

Running == {{v1, d1}}

Exchange == Permutations(Outputs)

TwoPads == {{1, 2}, {2}}
===============================================================================
