---------------------------- MODULE MCSessionLock ----------------------------
(* Small instances of SessionLock: two outputs that may be exchanged, and  *)
(* the view under which commit numbers count from the latest commit.       *)
EXTENDS SessionLock, TLC

Exchange == Permutations(Outputs)

Behind(o, n) == (session.seq[o] - n + SeqBound) % SeqBound

Relative ==
  <<disruptions,
    [session EXCEPT
       !.seq = [o \in Outputs |-> 0],
       !.flight = [o \in Outputs |->
         [i \in DOMAIN session.flight[o] |->
            [session.flight[o][i] EXCEPT !.seq = Behind(o, @)]]],
       !.shown = [o \in DOMAIN session.shown |->
         [session.shown[o] EXCEPT
            !.seq = IF session.shown[o].hasCommit THEN Behind(o, @) ELSE 0]]]>>
=============================================================================
