----------------------------- MODULE SessionLock -----------------------------
(***************************************************************************)
(* The session lock (src/lock/session_lock.cpp, the lock half of           *)
(* src/server/server_events.cpp and the frame path of                      *)
(* src/output/output.cpp): a lock client maps one surface per output, the  *)
(* server switches every output to the lock scene, and the client is told  *)
(* that the session is locked once every active output has presented a     *)
(* frame of that scene.  Frames are committed, fail, and are presented     *)
(* later; outputs come, go, sleep and change mode at any time.             *)
(*                                                                         *)
(* Where the blank lies on the layout, and what a lock surface paints, is  *)
(* left out: a frame shows the desktop or the lock scene.                  *)
(***************************************************************************)
EXTENDS Integers, FiniteSets, Sequences, SequencesExt

CONSTANTS
  Outputs,        \* the outputs that may be connected
  None,           \* nullptr: nobody has the keyboard
  Desktop,        \* some window or layer surface has the keyboard
  MaxFlight,      \* commits of one output that wait for their presentation
  SeqBound,       \* commit_seq counts modulo this (2^32 in wlroots)
  MaxDisruptions  \* bound: failed commits and presentations, mode changes,
                  \* outputs that sleep or leave

ASSUME LockAssumption ==
  /\ None \notin Outputs /\ Desktop \notin Outputs /\ None # Desktop
  /\ MaxFlight \in Nat \ {0}
  /\ SeqBound \in Nat /\ SeqBound >= MaxFlight
  /\ MaxDisruptions \in Nat

VARIABLES
  session,     \* Server's and SessionLock's state, and the frames of every output
  disruptions  \* how many failures and output changes may still happen

vars == <<session, disruptions>>

-----------------------------------------------------------------------------
(* Reading the session.                                                    *)

\* outputActive: enabled, powered and with a size.
Active(s) == {o \in Outputs : s.power[o] = "on"}

\* Mutation: the lock tree covers the screens only once the client was told.
ContentOnceTold(s) == IF s.phase = "locked" THEN "secure" ELSE "desktop"

\* What a frame committed now shows: the lock tree is enabled with m_sessionLocked.
Content(s) == IF s.locked THEN "secure" ELSE "desktop"

SurfacesReady(s) == Active(s) \subseteq s.mapped

HasFocusRole(s) == s.phase \in {"presenting", "locked"}

-----------------------------------------------------------------------------
(* SessionLock's helpers.                                                  *)

Unshown == [seq |-> 0, hasCommit |-> FALSE, presented |-> FALSE]

SyncOutputPresentations(s) ==
  [s EXCEPT !.shown =
     [o \in Active(s) |-> IF o \in DOMAIN s.shown THEN s.shown[o] ELSE Unshown]]

MaybeSendLocked(s) ==
  LET t == SyncOutputPresentations(s)
  IN IF s.phase # "presenting" THEN s
     ELSE IF \A o \in DOMAIN t.shown : t.shown[o].presented
          THEN [t EXCEPT !.phase = "locked"]
          ELSE t

\* The first surface, in the order of their creation, that may have the
\* keyboard; 0 if there is none.
Eligible(s) == SelectInSeq(s.surfaces, LAMBDA o : o \in s.mapped \cap Active(s))

FocusMappedSurface(s) ==
  [s EXCEPT !.focus = IF Eligible(s) = 0 THEN None ELSE s.surfaces[Eligible(s)]]

ScheduleFullFrame(s, outputs) ==
  [s EXCEPT !.due = [o \in Outputs |-> s.due[o] \/ o \in outputs]]

BeginPresenting(s) ==
  MaybeSendLocked(FocusMappedSurface(ScheduleFullFrame(
    SyncOutputPresentations([s EXCEPT !.phase = "presenting", !.locked = TRUE]),
    Active(s))))

\* Mutation: the commit of the lock scene is not remembered again after a change.
KeepPresented(s, o) ==
  CASE s.phase = "waiting" /\ SurfacesReady(s) -> BeginPresenting(s)
    [] s.phase = "locked" -> FocusMappedSurface(s)
    [] s.phase = "presenting" -> FocusMappedSurface(MaybeSendLocked(s))
    [] OTHER -> s

HandleOutputStateChanged(s, o) ==
  CASE s.phase = "waiting" /\ SurfacesReady(s) -> BeginPresenting(s)
    [] s.phase = "locked" -> FocusMappedSurface(s)
    [] s.phase = "presenting" ->
         LET t == SyncOutputPresentations(s)
             u == IF o \notin DOMAIN t.shown THEN t
                  ELSE ScheduleFullFrame(
                         [t EXCEPT !.shown[o].hasCommit = FALSE,
                                   !.shown[o].presented = FALSE], {o})
         IN FocusMappedSurface(MaybeSendLocked(u))
    [] OTHER -> s

OutputsChanged(s) ==
  CASE s.phase = "waiting" /\ SurfacesReady(s) -> BeginPresenting(s)
    [] s.phase = "locked" -> FocusMappedSurface(s)
    [] s.phase = "presenting" ->
         LET t == SyncOutputPresentations(s)
             idle == {o \in DOMAIN t.shown :
                        ~t.shown[o].presented /\ ~t.shown[o].hasCommit}
         IN FocusMappedSurface(MaybeSendLocked(ScheduleFullFrame(t, idle)))
    [] OTHER -> s

HandleOutputCommit(s, o) ==
  LET t == SyncOutputPresentations(s)
  IN IF s.phase # "presenting" \/ o \notin Active(s) THEN s
     ELSE IF o \notin DOMAIN t.shown \/ t.shown[o].presented THEN t
     ELSE [t EXCEPT !.shown[o] = [seq |-> s.seq[o], hasCommit |-> TRUE, presented |-> FALSE]]

Concerns(s, o, seq) ==
  /\ s.phase = "presenting" /\ o \in DOMAIN s.shown
  /\ ~s.shown[o].presented /\ s.shown[o].hasCommit
  /\ s.shown[o].seq = seq

\* Mutation: any presentation of the output counts.
PresentAnyCommit(s, o, seq, presented) ==
  IF s.phase # "presenting" \/ o \notin DOMAIN s.shown THEN s
  ELSE IF presented THEN MaybeSendLocked([s EXCEPT !.shown[o].presented = TRUE])
  ELSE ScheduleFullFrame([s EXCEPT !.shown[o].hasCommit = FALSE], {o})

\* Mutation: a presentation that failed is not tried again.
PresentWithoutRetry(s, o, seq, presented) ==
  IF ~Concerns(s, o, seq) THEN s
  ELSE IF presented THEN MaybeSendLocked([s EXCEPT !.shown[o].presented = TRUE])
  ELSE [s EXCEPT !.shown[o].hasCommit = FALSE]

HandleOutputPresent(s, o, seq, presented) ==
  IF ~Concerns(s, o, seq) THEN s
  ELSE IF presented THEN MaybeSendLocked([s EXCEPT !.shown[o].presented = TRUE])
  ELSE ScheduleFullFrame([s EXCEPT !.shown[o].hasCommit = FALSE], {o})

Without(surfaces, o) == RemoveFirst(surfaces, o)

\* Mutation: the keyboard is not handed on.
DropSurfaceFocus(s, o) ==
  [s EXCEPT !.surfaces = Without(@, o), !.mapped = @ \ {o}]

\* Mutation: the surface that goes still counts as mapped.
DropSurfaceMapped(s, o) ==
  LET t == [s EXCEPT !.surfaces = Without(@, o)]
  IN IF HasFocusRole(s) THEN FocusMappedSurface(t) ELSE t

\* A lock surface is unmapped and destroyed: removeSurface.
DropSurface(s, o) ==
  LET t == [s EXCEPT !.surfaces = Without(@, o), !.mapped = @ \ {o}]
  IN IF HasFocusRole(s) THEN FocusMappedSurface(t) ELSE t

-----------------------------------------------------------------------------
(* An output commits a frame: wlroots numbers it and reports it presented, *)
(* or not, in order.                                                       *)

Submit(s, o, frame) ==
  LET n == (s.seq[o] + 1) % SeqBound
  IN [s EXCEPT !.seq[o] = n, !.flight[o] = Append(@, [seq |-> n, frame |-> frame])]

Commit(s, o) == [Submit(s, o, Content(s)) EXCEPT !.due[o] = FALSE]

Room(s, o) == Len(s.flight[o]) < MaxFlight

Disrupt == disruptions > 0 /\ disruptions' = disruptions - 1
Calm    == UNCHANGED disruptions

Init ==
  /\ disruptions = MaxDisruptions
  /\ \E on \in SUBSET Outputs :
       session = [power    |-> [o \in Outputs |-> IF o \in on THEN "on" ELSE "gone"],
                  due      |-> [o \in Outputs |-> FALSE],
                  seq      |-> [o \in Outputs |-> 0],
                  flight   |-> [o \in Outputs |-> <<>>],
                  screen   |-> [o \in Outputs |-> IF o \in on THEN "desktop" ELSE "dark"],
                  locked   |-> FALSE, phase |-> "none",
                  surfaces |-> <<>>, mapped |-> {}, shown |-> <<>>,
                  focus    |-> Desktop]

-----------------------------------------------------------------------------
(* The lock client.                                                        *)

\* A lock request while there is a lock is denied and changes nothing.
BeginSessionLock ==
  /\ session.phase = "none"
  /\ LET s == [session EXCEPT !.phase = "waiting"]
     IN session' = IF SurfacesReady(s) THEN BeginPresenting(s) ELSE s
  /\ Calm

NewSurface(o) ==
  /\ session.phase # "none" /\ session.power[o] # "gone"
  /\ \A i \in DOMAIN session.surfaces : session.surfaces[i] # o
  /\ session' = [session EXCEPT !.surfaces = Append(@, o)]
  /\ Calm

MapSurface(o) ==
  /\ o \notin session.mapped
  /\ \E i \in DOMAIN session.surfaces : session.surfaces[i] = o
  /\ LET s == [session EXCEPT !.mapped = @ \cup {o}]
         t == IF s.phase = "waiting" /\ SurfacesReady(s) THEN BeginPresenting(s) ELSE s
     IN session' = IF HasFocusRole(t) THEN [t EXCEPT !.focus = o] ELSE t
  /\ Calm

UnmapSurface(o) ==
  /\ o \in session.mapped
  /\ LET s == [session EXCEPT !.mapped = @ \ {o}]
     IN session' = IF HasFocusRole(s) THEN FocusMappedSurface(s) ELSE s
  /\ Calm

DestroySurface(o) ==
  /\ \E i \in DOMAIN session.surfaces : session.surfaces[i] = o
  /\ session' = DropSurface(session, o)
  /\ Calm

\* kSurfaceDeadlineMs passed: the handoff goes on with the blank.
SurfaceDeadline ==
  /\ session.phase = "waiting"
  /\ session' = BeginPresenting(session)
  /\ Calm

\* The scene changed under every output.
Damaged(s) == ScheduleFullFrame(s, Active(s))

NoLock(s) == [s EXCEPT !.phase = "none", !.surfaces = <<>>, !.mapped = {}, !.shown = <<>>]

\* unlock_and_destroy: wlroots refuses it before the client was told.  Whether
\* the surfaces that die with the lock take the focus along is up to wlroots.
Unlock ==
  /\ session.phase = "locked"
  /\ \E f \in {None, Desktop} :
       session' = Damaged([NoLock(session) EXCEPT !.locked = FALSE, !.focus = f])
  /\ Calm

\* Mutation: the blank goes with the client.
ClientGoneUnlocks ==
  /\ session.phase # "none"
  /\ session' = Damaged([NoLock(session) EXCEPT
                           !.locked = FALSE,
                           !.focus = IF HasFocusRole(session) THEN None ELSE @])
  /\ Calm

\* The client dies or withdraws: a session that is locked stays locked.
ClientGone ==
  /\ session.phase # "none"
  /\ session' = Damaged([NoLock(session) EXCEPT
                           !.focus = IF HasFocusRole(session) THEN None ELSE @])
  /\ Calm

\* FocusManager moves the keyboard between windows, never under a lock.
FocusDesktop ==
  /\ ~session.locked
  /\ \E f \in {None, Desktop} : session' = [session EXCEPT !.focus = f]
  /\ Calm

-----------------------------------------------------------------------------
(* Frames and outputs.                                                     *)

\* Anything on screen moves: an animation, a client commit.
Damage(o) ==
  /\ o \in Active(session)
  /\ session' = ScheduleFullFrame(session, {o})
  /\ Calm

\* handleFrame: the scene is rendered and committed.
Frame(o) ==
  /\ o \in Active(session) /\ session.due[o] /\ Room(session, o)
  /\ session' = HandleOutputCommit(Commit(session, o), o)
  /\ Calm

\* The commit fails; the retry timer keeps the frame due.
FrameFails(o) ==
  /\ o \in Active(session) /\ session.due[o]
  /\ Disrupt
  /\ UNCHANGED session

\* wlroots reports the oldest commit; a frame that was dropped is never presented.
Present(o, presented) ==
  /\ session.flight[o] # <<>>
  /\ LET c == Head(session.flight[o])
         s == [session EXCEPT !.flight[o] = Tail(@),
                              !.screen[o] = IF presented THEN c.frame ELSE @]
     IN /\ presented => c.frame # "dropped"
        /\ session' = HandleOutputPresent(s, o, c.seq, presented)
        /\ IF presented \/ c.frame = "dropped" THEN Calm ELSE Disrupt

Dropped(s, o) ==
  [s EXCEPT !.flight[o] = [i \in DOMAIN @ |-> [@[i] EXCEPT !.frame = "dropped"]]]

\* A mode change is committed without a frame of the scene.
ChangeMode(o) ==
  /\ o \in Active(session) /\ Room(session, o)
  /\ LET s == HandleOutputStateChanged(Submit(session, o, "dark"), o)
     IN session' = ScheduleFullFrame(s, {o})
  /\ Disrupt

PowerOff(o) ==
  /\ session.power[o] = "on"
  /\ LET s == [Dropped(session, o) EXCEPT
                 !.power[o] = "off", !.screen[o] = "dark", !.due[o] = FALSE]
     IN session' = HandleOutputStateChanged(s, o)
  /\ Disrupt

\* setPowered and applyOutputState commit a frame of the scene at once.
PowerOn(o) ==
  /\ session.power[o] = "off" /\ Room(session, o)
  /\ LET s == HandleOutputCommit(Commit([session EXCEPT !.power[o] = "on"], o), o)
     IN session' = HandleOutputStateChanged(ScheduleFullFrame(s, {o}), o)
  /\ Calm

\* The output commits its first frame before the server lists it.
AddOutput(o) ==
  /\ session.power[o] = "gone"
  /\ LET s == Commit([session EXCEPT !.power[o] = "on"], o)
     IN session' = OutputsChanged(ScheduleFullFrame(s, {o}))
  /\ Calm

\* wlroots destroys the output's lock surface, the server forgets the output.
RemoveOutput(o) ==
  /\ session.power[o] # "gone"
  /\ LET s == [session EXCEPT !.power[o] = "gone", !.screen[o] = "dark",
                              !.due[o] = FALSE, !.flight[o] = <<>>]
     IN session' = OutputsChanged(DropSurface(s, o))
  /\ Disrupt

ClientNext ==
  \/ BeginSessionLock
  \/ \E o \in Outputs : NewSurface(o) \/ MapSurface(o) \/ UnmapSurface(o) \/ DestroySurface(o)
  \/ SurfaceDeadline
  \/ Unlock
  \/ ClientGone
  \/ FocusDesktop

OutputNext ==
  \E o \in Outputs :
    \/ Damage(o) \/ Frame(o) \/ FrameFails(o)
    \/ \E presented \in BOOLEAN : Present(o, presented)
    \/ ChangeMode(o) \/ PowerOff(o) \/ PowerOn(o) \/ AddOutput(o) \/ RemoveOutput(o)

Next == ClientNext \/ OutputNext

Spec == Init /\ [][Next]_vars

\* The event loop serves a due frame, wlroots reports every commit, the timer fires.
Fairness ==
  /\ WF_vars(SurfaceDeadline)
  /\ \A o \in Outputs : WF_vars(Frame(o)) /\ WF_vars(\E p \in BOOLEAN : Present(o, p))

FairSpec == Spec /\ Fairness

-----------------------------------------------------------------------------
(* Properties.                                                             *)

LockFields == {"power", "due", "seq", "flight", "screen", "locked", "phase",
               "surfaces", "mapped", "shown", "focus"}

\* The shape of the state: mapped surfaces exist, and presentations are
\* awaited only between the switch to the lock scene and the confirmation.
TypeOK ==
  /\ session = [f \in LockFields |-> session[f]]
  /\ session.power \in [Outputs -> {"gone", "off", "on"}]
  /\ session.due \in [Outputs -> BOOLEAN]
  /\ session.seq \in [Outputs -> 0 .. (SeqBound - 1)]
  /\ \A o \in Outputs :
       /\ Len(session.flight[o]) <= MaxFlight
       /\ session.flight[o] \in
            Seq([seq : 0 .. (SeqBound - 1), frame : {"dark", "desktop", "secure", "dropped"}])
  /\ session.screen \in [Outputs -> {"dark", "desktop", "secure"}]
  /\ session.locked \in BOOLEAN
  /\ session.phase \in {"none", "waiting", "presenting", "locked"}
  /\ session.surfaces \in Seq(Outputs)
  /\ session.mapped \subseteq {session.surfaces[i] : i \in DOMAIN session.surfaces}
  /\ DOMAIN session.shown \subseteq Outputs
  /\ session.focus \in Outputs \cup {None, Desktop}
  /\ disruptions \in 0..MaxDisruptions

\* Locked, with no frame of the desktop on a screen or on its way to one.
Covered(s) ==
  /\ s.locked
  /\ \A o \in Outputs :
       /\ s.screen[o] # "desktop"
       /\ \A i \in DOMAIN s.flight[o] : s.flight[o][i].frame # "desktop"

\* security.md: once the session is reported as locked, no output shows the
\* desktop or is about to, whatever was in flight and whatever output came or
\* woke up since.
LockedMeansSecure == session.phase = "locked" => Covered(session)

\* security.md: the session is reported as locked only after each active
\* output has presented a frame of the lock scene, and not one committed
\* before it.
ConfirmedAfterPresented ==
  [][(session'.phase = "locked" /\ session.phase # "locked") =>
       \A o \in Active(session') : session'.screen[o] = "secure"]_vars

\* Under a lock the keyboard is nobody's or a mapped lock surface's, and
\* nobody's only while no lock surface is mapped on an active output.
KeyboardOnLock ==
  /\ session.locked => session.focus \in session.mapped \cup {None}
  /\ (HasFocusRole(session) /\ session.focus = None) =>
       session.mapped \cap Active(session) = {}

\* security.md: a client that exits after the secure handoff leaves the blank
\* in place.  Once nothing on screen or in flight shows the desktop, only an
\* unlock brings it back, whoever dies, locks again, or is plugged in.
BlankOutlivesClient ==
  [][Covered(session) => Covered(session') \/ Unlock]_vars

\* The abstract lock as it is read off the detailed state: a request that is not
\* covered yet leaves the session open, and a cover without a lock that presents
\* or was told is the blank, whoever waits behind it.
AbstractLock ==
  CASE session.phase = "locked" -> "locked"
    [] session.locked /\ session.phase = "presenting" -> "covering"
    [] session.locked /\ session.phase \in {"none", "waiting"} -> "blank"
    [] OTHER -> "open"

Exposed(s) ==
  \E o \in Outputs :
    \/ s.screen[o] = "desktop"
    \/ \E i \in DOMAIN s.flight[o] : s.flight[o][i].frame = "desktop"

Promise == INSTANCE LockPromise WITH lock <- AbstractLock, exposed <- Exposed(session)

\* security.md as a whole: through every sequence of requests, lost clients,
\* failed frames and outputs that come and go, the lock behaves as the abstract
\* one, whose desktop never comes back before an unlock.
KeepsPromise == Promise!LockSpec

\* A lock request is confirmed, or its client is gone: failed commits, lost
\* presentations, sleeping and vanishing outputs do not strand the handoff.
HandoffEnds == session.phase \in {"waiting", "presenting"} ~> session.phase \in {"none", "locked"}

=============================================================================
