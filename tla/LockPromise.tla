----------------------------- MODULE LockPromise -----------------------------
(***************************************************************************)
(* What docs/user/security.md promises of a locked session, and nothing of *)
(* how it is done: from the moment the session is covered until an unlock, *)
(* the desktop only ever disappears from the screens; a client is told     *)
(* "locked" once it has disappeared; and only the client that was told so  *)
(* can open the session again.                                             *)
(***************************************************************************)

VARIABLES
  lock,     \* "open", "covering", "locked": told so, "blank": covered with no client
  exposed   \* whether a screen shows the desktop, or a frame of it is on its way

LockInit == lock = "open" /\ exposed \in BOOLEAN

\* Anything moves on the screens; under a cover the desktop does not come back.
Screens ==
  /\ exposed' \in IF lock = "open" THEN BOOLEAN ELSE {FALSE, exposed}
  /\ UNCHANGED lock

\* A client covers the session, the first one or one that follows a lost one.
Cover ==
  /\ lock \in {"open", "blank"} /\ lock' = "covering"
  /\ exposed' \in {FALSE, exposed}

\* The client is told: from the cover, or at once if no screen has to change.
Confirm ==
  /\ lock \in {"open", "blank", "covering"} /\ lock' = "locked"
  /\ exposed' = FALSE

\* The client dies: the cover stays.
LoseClient ==
  /\ lock \in {"covering", "locked"} /\ lock' = "blank"
  /\ exposed' \in {FALSE, exposed}

Open == lock = "locked" /\ lock' = "open" /\ exposed' \in BOOLEAN

LockNext == Screens \/ Cover \/ Confirm \/ LoseClient \/ Open

LockSpec == LockInit /\ [][LockNext]_<<lock, exposed>>
=============================================================================
