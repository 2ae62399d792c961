--------------------------- MODULE SessionLockProofs ---------------------------
(***************************************************************************)
(* What a locked session shows and who has its keyboard, and that the lock *)
(* implements LockPromise, for any outputs, surfaces, commits in flight    *)
(* and failures.  The heart is Record: what the lock remembers of an       *)
(* output's presentations is true of its screen and of every commit on its *)
(* way to it.  The surfaces and the keyboard, which nothing of this reads, *)
(* have an invariant of their own, Keys.                                   *)
(***************************************************************************)
EXTENDS SessionLock, SequenceLemmas, TLAPS

Frames == [seq : 0 .. (SeqBound - 1), frame : {"dark", "desktop", "secure", "dropped"}]
Records == [seq : 0 .. (SeqBound - 1), hasCommit : BOOLEAN, presented : BOOLEAN]

Shape(s) ==
  /\ s = [f \in LockFields |-> s[f]]
  /\ s.power \in [Outputs -> {"gone", "off", "on"}]
  /\ s.due \in [Outputs -> BOOLEAN]
  /\ s.seq \in [Outputs -> 0 .. (SeqBound - 1)]
  /\ s.flight \in [Outputs -> Seq(Frames)]
  /\ s.screen \in [Outputs -> {"dark", "desktop", "secure"}]
  /\ s.locked \in BOOLEAN
  /\ s.phase \in {"none", "waiting", "presenting", "locked"}

\* Commits are numbered backwards from the latest, so that no two in flight
\* have the same number.
Numbered(s) ==
  \A o \in Outputs :
    /\ Len(s.flight[o]) <= MaxFlight
    /\ \A i \in 1 .. Len(s.flight[o]) :
         LET back == Len(s.flight[o]) - i
         IN s.flight[o][i].seq = IF back <= s.seq[o] THEN s.seq[o] - back ELSE s.seq[o] - back + SeqBound

\* An output that is off shows nothing, and nothing it committed will be shown.
Dark(s) ==
  \A o \in Outputs : s.power[o] # "on" =>
    /\ s.screen[o] = "dark"
    /\ s.power[o] = "gone" => s.flight[o] = <<>>
    /\ \A i \in 1 .. Len(s.flight[o]) : s.flight[o][i].frame = "dropped"

\* From the i-th commit in flight on, every frame that can be presented is of
\* the lock scene.
SecureFrom(s, o, i) ==
  \A j \in 1 .. Len(s.flight[o]) : i <= j => s.flight[o][j].frame \in {"secure", "dropped"}

\* What m_presentations says of an output is true of its screen.
Record(s, o) ==
  /\ s.shown[o] \in Records
  /\ s.shown[o].presented => s.screen[o] = "secure" /\ SecureFrom(s, o, 1)
  /\ (s.shown[o].hasCommit /\ ~s.shown[o].presented) =>
       \A i \in 1 .. Len(s.flight[o]) : s.flight[o][i].seq = s.shown[o].seq => SecureFrom(s, o, i)

\* The records of all outputs but those of X are true.
RecordsBut(s, X) ==
  s.phase = "presenting" =>
    \A o \in DOMAIN s.shown \cap Active(s) : s.shown[o] \in Records /\ (o \notin X => Record(s, o))

\* What a handler keeps between its steps.
Between(s, X) ==
  /\ Shape(s) /\ Numbered(s) /\ Dark(s)
  /\ HasFocusRole(s) => s.locked
  /\ ~HasFocusRole(s) => DOMAIN s.shown = {}
  /\ s.phase = "locked" => Covered(s)
  /\ RecordsBut(s, X)

\* Every active output has a record, and no other.
Synced(s) == s.phase = "presenting" => s.shown = [o \in Active(s) |-> s.shown[o]]

\* The handoff waits for a surface (handleMap, outputsChanged).
Waits(s) == s.phase = "waiting" => ~SurfacesReady(s)

Sound(s) == Between(s, {}) /\ Synced(s) /\ Waits(s)

-----------------------------------------------------------------------------
(* Helpers that change nothing that is shown.                              *)

\* The fields that Sound is about, but for the frames that are due.
Shown == {"power", "seq", "flight", "screen", "locked", "phase", "mapped", "shown"}

Alike(s, t) ==
  /\ t = [f \in LockFields |-> t[f]]
  /\ t.due \in [Outputs -> BOOLEAN]
  /\ \A f \in Shown : t[f] = s[f]

\* ... and that a surface may have been mapped or unmapped.
Near(s, t) ==
  /\ t = [f \in LockFields |-> t[f]]
  /\ t.due \in [Outputs -> BOOLEAN]
  /\ \A f \in Shown \ {"mapped"} : t[f] = s[f]

\* focusMappedSurface moves the keyboard and nothing else.
LEMMA FocusAlike ==
  ASSUME NEW s, Shape(s)
  PROVE  Alike(s, FocusMappedSurface(s))
BY DEF FocusMappedSurface, Alike, Shape, LockFields, Shown

\* ... wherever it goes.
LEMMA KeyboardAlike ==
  ASSUME NEW s, Shape(s), NEW k
  PROVE  Alike(s, [s EXCEPT !.focus = k])
BY DEF Alike, Shape, LockFields, Shown

\* scheduleFullFrame asks for frames and does nothing else.
LEMMA FullFrameAlike ==
  ASSUME NEW s, Shape(s), NEW X
  PROVE  Alike(s, ScheduleFullFrame(s, X))
BY DEF ScheduleFullFrame, Alike, Shape, LockFields, Shown

\* Sessions that are alike, field by field.
LEMMA AlikeFacts ==
  ASSUME NEW s, NEW t, Alike(s, t)
  PROVE  /\ t.power = s.power /\ t.seq = s.seq /\ t.flight = s.flight /\ t.screen = s.screen
         /\ t.locked = s.locked /\ t.phase = s.phase /\ t.mapped = s.mapped /\ t.shown = s.shown
         /\ Active(t) = Active(s)
BY DEF Alike, Shown, Active

\* The records of a session hold whatever surfaces are mapped.
LEMMA NearKeeps ==
  ASSUME NEW s, NEW t, NEW X, Between(s, X), Near(s, t)
  PROVE  Between(t, X) /\ (Synced(s) => Synced(t))
<1>1. /\ t.power = s.power /\ t.seq = s.seq /\ t.flight = s.flight /\ t.screen = s.screen
      /\ t.locked = s.locked /\ t.phase = s.phase /\ t.shown = s.shown
      /\ Active(t) = Active(s) /\ t = [f \in LockFields |-> t[f]] /\ t.due \in [Outputs -> BOOLEAN]
  BY DEF Near, Shown, Active
<1>2. Shape(t)
  BY <1>1 DEF Between, Shape
<1>3. Numbered(t)
  BY <1>1 DEF Between, Numbered
<1>4. Dark(t)
  BY <1>1 DEF Between, Dark
<1>5. ASSUME NEW o
      PROVE  Record(t, o) <=> Record(s, o)
  BY <1>1 DEF Record, SecureFrom
<1>6. RecordsBut(t, X)
  BY <1>1, <1>5 DEF Between, RecordsBut
<1>7. /\ HasFocusRole(t) => t.locked
      /\ ~HasFocusRole(t) => DOMAIN t.shown = {}
      /\ t.phase = "locked" => Covered(t)
  BY <1>1 DEF Between, HasFocusRole, Covered
<1>8. Synced(s) => Synced(t)
  BY <1>1 DEF Synced
<1> QED BY <1>2, <1>3, <1>4, <1>6, <1>7, <1>8 DEF Between

\* What does not touch what is shown keeps whatever is true of it.
LEMMA AlikeKeeps ==
  ASSUME NEW s, NEW t, NEW X, Between(s, X), Alike(s, t)
  PROVE  Between(t, X) /\ (Synced(s) => Synced(t)) /\ (Waits(s) => Waits(t))
<1>1. Near(s, t)
  BY DEF Alike, Near
<1>2. t.phase = s.phase /\ t.mapped = s.mapped /\ Active(t) = Active(s)
  BY AlikeFacts
<1>3. Waits(s) => Waits(t)
  BY <1>2 DEF Waits, SurfacesReady
<1> QED BY <1>1, <1>3, NearKeeps

-----------------------------------------------------------------------------
(* The helpers that keep the presentations and confirm the lock.           *)

\* What a helper may do to a session: nothing on screen, cover it, confirm.
Answer(s, t) ==
  /\ t.power = s.power /\ t.seq = s.seq /\ t.flight = s.flight /\ t.screen = s.screen
  /\ \/ t.phase = s.phase /\ t.locked = s.locked
     \/ s.phase = "waiting" /\ t.phase \in {"presenting", "locked"} /\ t.locked
     \/ s.phase = "presenting" /\ t.phase = "locked" /\ t.locked = s.locked
  /\ (t.phase = "locked" /\ s.phase # "locked") => \A o \in Active(t) : t.screen[o] = "secure"

\* An output whose presentations were not followed has a record that says nothing.
LEMMA UnshownRecord ==
  ASSUME NEW s, NEW o, s.shown[o] = Unshown
  PROVE  s.shown[o] \in Records /\ Record(s, o)
BY LockAssumption DEF Unshown, Record, Records

\* syncOutputPresentations: every active output gets a record, and no other.
LEMMA SyncKeeps ==
  ASSUME NEW s, NEW X, Between(s, X), s.phase = "presenting"
  PROVE  LET t == SyncOutputPresentations(s)
         IN /\ Between(t, X) /\ Synced(t) /\ DOMAIN t.shown = Active(t)
            /\ \A f \in LockFields \ {"shown"} : t[f] = s[f]
            /\ Active(t) = Active(s)
<1> DEFINE t == SyncOutputPresentations(s)
<1>1. /\ t = [f \in LockFields |-> t[f]]
      /\ \A f \in LockFields \ {"shown"} : t[f] = s[f]
      /\ t.shown = [o \in Active(s) |-> IF o \in DOMAIN s.shown THEN s.shown[o] ELSE Unshown]
  BY DEF SyncOutputPresentations, Between, Shape, LockFields
<1> HIDE DEF t
<1>2. /\ t.power = s.power /\ t.seq = s.seq /\ t.flight = s.flight /\ t.screen = s.screen
      /\ t.locked = s.locked /\ t.phase = s.phase /\ t.due = s.due
      /\ Active(t) = Active(s)
  BY <1>1 DEF LockFields, Active
<1>3. Shape(t)
  BY <1>1, <1>2 DEF Between, Shape
<1>4. Numbered(t) /\ Dark(t)
  BY <1>2 DEF Between, Numbered, Dark
<1>5. RecordsBut(t, X)
  <2> SUFFICES ASSUME NEW o \in Active(t)
               PROVE  t.shown[o] \in Records /\ (o \notin X => Record(t, o))
    BY DEF RecordsBut
  <2>1. CASE o \in DOMAIN s.shown
    <3>1. t.shown[o] = s.shown[o] /\ s.shown[o] \in Records /\ (o \notin X => Record(s, o))
      BY <1>1, <1>2, <2>1 DEF Between, RecordsBut
    <3>2. Record(s, o) => Record(t, o)
      BY <1>2, <3>1 DEF Record, SecureFrom
    <3> QED BY <3>1, <3>2
  <2>2. CASE o \notin DOMAIN s.shown
    BY <1>1, <1>2, <2>2, UnshownRecord
  <2> QED BY <2>1, <2>2
<1>6. HasFocusRole(t) /\ t.locked /\ t.phase # "locked"
  BY <1>2 DEF Between, HasFocusRole
<1>7. DOMAIN t.shown = Active(t) /\ Synced(t)
  BY <1>1, <1>2 DEF Synced
<1> QED BY <1>1, <1>2, <1>3, <1>4, <1>5, <1>6, <1>7 DEF Between, t

\* Once every record says presented, no screen and no commit shows the desktop.
LEMMA PresentedCovers ==
  ASSUME NEW s, Between(s, {}), s.phase = "presenting", DOMAIN s.shown = Active(s),
         \A o \in DOMAIN s.shown : s.shown[o].presented
  PROVE  Covered(s) /\ \A o \in Active(s) : s.screen[o] = "secure"
<1>1. ASSUME NEW o \in Active(s)
      PROVE  s.screen[o] = "secure" /\ SecureFrom(s, o, 1)
  BY <1>1 DEF Between, RecordsBut, Record
<1>2. ASSUME NEW o \in Outputs
      PROVE  /\ s.screen[o] # "desktop"
             /\ \A i \in DOMAIN s.flight[o] : s.flight[o][i].frame # "desktop"
  <2>1. s.flight[o] \in Seq(Frames)
    BY DEF Between, Shape
  <2>2. DOMAIN s.flight[o] = 1 .. Len(s.flight[o])
    BY <2>1
  <2>3. CASE o \in Active(s)
    BY <1>1, <2>2, <2>3 DEF SecureFrom
  <2>4. CASE o \notin Active(s)
    <3>1. s.power[o] # "on"
      BY <2>4 DEF Active
    <3> QED BY <2>2, <3>1 DEF Between, Dark
  <2> QED BY <2>3, <2>4
<1>3. s.locked
  BY DEF Between, HasFocusRole
<1> QED BY <1>1, <1>2, <1>3 DEF Covered

\* maybeSendLocked: what it confirms is covered.
LEMMA MaybeKeeps ==
  ASSUME NEW s, Between(s, {}), s.phase = "presenting"
  PROVE  Sound(MaybeSendLocked(s)) /\ Answer(s, MaybeSendLocked(s))
<1> DEFINE t == SyncOutputPresentations(s)
<1>1. /\ Between(t, {}) /\ Synced(t) /\ DOMAIN t.shown = Active(t)
      /\ \A f \in LockFields \ {"shown"} : t[f] = s[f]
      /\ Active(t) = Active(s)
  BY SyncKeeps
<1>2. /\ t.power = s.power /\ t.seq = s.seq /\ t.flight = s.flight /\ t.screen = s.screen
      /\ t.locked = s.locked /\ t.phase = "presenting"
  BY <1>1 DEF LockFields
<1>3. CASE \A o \in DOMAIN t.shown : t.shown[o].presented
  <2> DEFINE u == [t EXCEPT !.phase = "locked"]
  <2>1. MaybeSendLocked(s) = u
    BY <1>3 DEF MaybeSendLocked
  <2> HIDE DEF t
  <2>2. Covered(t) /\ \A o \in Active(t) : t.screen[o] = "secure"
    BY <1>1, <1>2, <1>3, PresentedCovers
  <2>3. /\ u = [f \in LockFields |-> u[f]] /\ u.power = t.power /\ u.seq = t.seq
        /\ u.flight = t.flight /\ u.screen = t.screen /\ u.locked = t.locked
        /\ u.phase = "locked" /\ u.due = t.due /\ u.shown = t.shown
    BY <1>1 DEF Between, Shape, LockFields
  <2> HIDE DEF u
  <2>4. Shape(u)
    BY <1>1, <2>3 DEF Between, Shape
  <2>5. Numbered(u) /\ Dark(u) /\ Covered(u)
    <3>1. Numbered(u)
      BY <1>1, <2>3 DEF Between, Numbered
    <3>2. Dark(u)
      BY <1>1, <2>3 DEF Between, Dark
    <3>3. Covered(u)
      <4>1. u.locked = t.locked /\ u.screen = t.screen /\ u.flight = t.flight
        BY <2>3
      <4> QED BY <2>2, <4>1 DEF Covered
    <3> QED BY <3>1, <3>2, <3>3
  <2>6. Active(u) = Active(t)
    BY <2>3 DEF Active
  <2>7. Between(u, {}) /\ Synced(u) /\ Waits(u)
    BY <2>3, <2>4, <2>5 DEF Between, Synced, Waits, RecordsBut, HasFocusRole, Covered
  <2> QED BY <1>2, <2>1, <2>2, <2>3, <2>6, <2>7 DEF Sound, Answer
<1>4. CASE ~\A o \in DOMAIN t.shown : t.shown[o].presented
  <2>1. MaybeSendLocked(s) = t
    BY <1>4 DEF MaybeSendLocked
  <2> QED BY <1>1, <1>2, <2>1 DEF Sound, Answer, Waits
<1> QED BY <1>3, <1>4

\* A helper that answers, and one that changes nothing that is shown after it.
LEMMA AnswerAlike ==
  ASSUME NEW s, NEW t, NEW u, Sound(t), Answer(s, t), Alike(t, u)
  PROVE  Sound(u) /\ Answer(s, u)
<1>1. Sound(u)
  BY AlikeKeeps DEF Sound
<1>2. /\ u.power = t.power /\ u.seq = t.seq /\ u.flight = t.flight /\ u.screen = t.screen
      /\ u.locked = t.locked /\ u.phase = t.phase /\ Active(u) = Active(t)
  BY AlikeFacts
<1>3. Answer(s, u)
  BY <1>2 DEF Answer
<1> QED BY <1>1, <1>3

\* ... and before it.
LEMMA AlikeAnswer ==
  ASSUME NEW s, NEW t, NEW u, Alike(s, t), Answer(t, u)
  PROVE  Answer(s, u)
<1>1. /\ t.power = s.power /\ t.seq = s.seq /\ t.flight = s.flight /\ t.screen = s.screen
      /\ t.locked = s.locked /\ t.phase = s.phase
  BY AlikeFacts
<1> QED BY <1>1 DEF Answer

\* A helper that answers and then moves the keyboard.
LEMMA FocusAnswers ==
  ASSUME NEW s, NEW t, Sound(t), Answer(s, t)
  PROVE  Sound(FocusMappedSurface(t)) /\ Answer(s, FocusMappedSurface(t))
<1>1. Shape(t)
  BY DEF Sound, Between
<1> QED BY <1>1, FocusAlike, AnswerAlike

\* beginPresenting: the lock tree goes up, and nothing was presented of it yet.
LEMMA BeginKeeps ==
  ASSUME NEW s, NEW X, Between(s, X), s.phase = "waiting"
  PROVE  /\ Sound(BeginPresenting(s)) /\ Answer(s, BeginPresenting(s))
         /\ BeginPresenting(s).phase \in {"presenting", "locked"} /\ BeginPresenting(s).locked
<1> DEFINE a == [s EXCEPT !.phase = "presenting", !.locked = TRUE]
           b == SyncOutputPresentations(a)
           c == ScheduleFullFrame(b, Active(s))
           d == FocusMappedSurface(c)
<1>1. /\ a = [f \in LockFields |-> a[f]] /\ a.phase = "presenting" /\ a.locked = TRUE
      /\ a.power = s.power /\ a.seq = s.seq /\ a.flight = s.flight /\ a.screen = s.screen
      /\ a.shown = s.shown /\ a.due = s.due
  BY DEF Between, Shape, LockFields
<1>2. DOMAIN s.shown = {}
  BY DEF Between, HasFocusRole
<1>3. BeginPresenting(s) = MaybeSendLocked(d)
  BY DEF BeginPresenting
<1> HIDE DEF a
<1>4. Between(a, {})
  <2>1. Shape(a)
    BY <1>1 DEF Between, Shape
  <2>2. Numbered(a)
    BY <1>1 DEF Between, Numbered
  <2>3. Dark(a)
    BY <1>1 DEF Between, Dark
  <2> QED BY <1>1, <1>2, <2>1, <2>2, <2>3 DEF Between, RecordsBut, HasFocusRole
<1>5. /\ Between(b, {}) /\ b.phase = "presenting" /\ b.locked = TRUE
      /\ b.power = s.power /\ b.seq = s.seq /\ b.flight = s.flight /\ b.screen = s.screen
  BY <1>1, <1>4, SyncKeeps DEF LockFields
<1> HIDE DEF b
<1>6. Between(c, {}) /\ Alike(b, c)
  <2>1. Shape(b)
    BY <1>5 DEF Between
  <2> QED BY <1>5, <2>1, FullFrameAlike, AlikeKeeps
<1> HIDE DEF c
<1>7. Between(d, {}) /\ Alike(c, d)
  <2>1. Shape(c)
    BY <1>6 DEF Between
  <2> QED BY <1>6, <2>1, FocusAlike, AlikeKeeps
<1> HIDE DEF d
<1>8. /\ d.phase = "presenting" /\ d.locked = TRUE
      /\ d.power = s.power /\ d.seq = s.seq /\ d.flight = s.flight /\ d.screen = s.screen
  BY <1>5, <1>6, <1>7, AlikeFacts
<1>9. Sound(MaybeSendLocked(d)) /\ Answer(d, MaybeSendLocked(d))
  BY <1>7, <1>8, MaybeKeeps
<1> QED BY <1>3, <1>8, <1>9 DEF Answer

\* Whoever does not wait, or waits on, is sound if the records are true.
LEMMA RestingSound ==
  ASSUME NEW s, NEW X, Between(s, X), s.phase # "presenting",
         s.phase = "waiting" => ~SurfacesReady(s)
  PROVE  Sound(s) /\ Answer(s, s)
BY DEF Between, Sound, Synced, Waits, RecordsBut, Answer

\* handleOutputStateChanged: what the output showed before does not count.
LEMMA StateChangedKeeps ==
  ASSUME NEW s, NEW o \in Outputs, Between(s, {o})
  PROVE  LET t == HandleOutputStateChanged(s, o)
         IN /\ Sound(t) /\ Answer(s, t)
            /\ (s.phase = "waiting" /\ ~SurfacesReady(s)) => t = s
<1> DEFINE t == HandleOutputStateChanged(s, o)
<1>0. Shape(s)
  BY DEF Between
<1>1. CASE s.phase = "waiting" /\ SurfacesReady(s)
  <2>1. t = BeginPresenting(s)
    BY <1>1 DEF HandleOutputStateChanged
  <2> QED BY <1>1, <2>1, BeginKeeps
<1>2. CASE s.phase = "none" \/ (s.phase = "waiting" /\ ~SurfacesReady(s))
  <2>1. t = s
    BY <1>2 DEF HandleOutputStateChanged
  <2>2. Sound(s) /\ Answer(s, s)
    BY <1>2, RestingSound
  <2> QED BY <2>1, <2>2
<1>3. CASE s.phase = "locked"
  <2>1. t = FocusMappedSurface(s)
    BY <1>3 DEF HandleOutputStateChanged
  <2>2. Sound(s) /\ Answer(s, s)
    BY <1>3, RestingSound
  <2> QED BY <1>3, <2>1, <2>2, FocusAnswers
<1>4. CASE s.phase = "presenting"
  <2> DEFINE a == SyncOutputPresentations(s)
             b == [a EXCEPT !.shown[o].hasCommit = FALSE, !.shown[o].presented = FALSE]
             c == ScheduleFullFrame(b, {o})
             d == IF o \notin DOMAIN a.shown THEN a ELSE c
  <2>1. t = FocusMappedSurface(MaybeSendLocked(d))
    BY <1>4 DEF HandleOutputStateChanged
  <2>2. /\ Between(a, {o}) /\ Synced(a) /\ DOMAIN a.shown = Active(a)
        /\ a.phase = "presenting" /\ a.locked = s.locked
        /\ a.power = s.power /\ a.seq = s.seq /\ a.flight = s.flight /\ a.screen = s.screen
    BY <1>4, SyncKeeps DEF LockFields
  <2> HIDE DEF a
  <2>3. ASSUME o \notin DOMAIN a.shown
        PROVE  Between(a, {})
    <3>1. RecordsBut(a, {})
      BY <2>2, <2>3 DEF Between, RecordsBut
    <3> QED BY <2>2, <3>1 DEF Between
  <2>4. ASSUME o \in DOMAIN a.shown
        PROVE  Between(c, {}) /\ Alike(b, c) /\ b.phase = a.phase /\ b.locked = a.locked
               /\ b.power = a.power /\ b.seq = a.seq /\ b.flight = a.flight /\ b.screen = a.screen
    <3>1. /\ b = [f \in LockFields |-> b[f]] /\ b.due = a.due
          /\ b.phase = a.phase /\ b.locked = a.locked
          /\ b.power = a.power /\ b.seq = a.seq /\ b.flight = a.flight /\ b.screen = a.screen
          /\ b.shown = [a.shown EXCEPT ![o] = [[a.shown[o] EXCEPT !.hasCommit = FALSE] EXCEPT !.presented = FALSE]]
      <4> DEFINE a1 == [a EXCEPT !.shown = [a.shown EXCEPT ![o] = [a.shown[o] EXCEPT !.hasCommit = FALSE]]]
      <4>1. a = [f \in LockFields |-> a[f]] /\ a.shown = [x \in Active(a) |-> a.shown[x]]
        BY <2>2 DEF Between, Shape, Synced
      <4>2. /\ a1 = [f \in LockFields |-> a1[f]]
            /\ \A f \in LockFields \ {"shown"} : a1[f] = a[f]
            /\ a1.shown = [a.shown EXCEPT ![o] = [a.shown[o] EXCEPT !.hasCommit = FALSE]]
        BY <4>1 DEF LockFields
      <4>3. b = [a1 EXCEPT !.shown[o].presented = FALSE]
        BY <2>2, <2>4, <4>1, <4>2
      <4> HIDE DEF a1, b
      <4>4. /\ b = [f \in LockFields |-> b[f]]
            /\ \A f \in LockFields \ {"shown"} : b[f] = a1[f]
            /\ b.shown = [a1.shown EXCEPT ![o] = [a1.shown[o] EXCEPT !.presented = FALSE]]
        BY <4>2, <4>3 DEF LockFields
      <4>5. b.shown = [a.shown EXCEPT ![o] = [[a.shown[o] EXCEPT !.hasCommit = FALSE] EXCEPT !.presented = FALSE]]
        BY <2>4, <4>1, <4>2, <4>4
      <4> QED BY <4>2, <4>4, <4>5 DEF LockFields
    <3> HIDE DEF b
    <3>2. Active(b) = Active(a) /\ DOMAIN b.shown = DOMAIN a.shown
      BY <3>1 DEF Active
    <3>3. Shape(b)
      BY <2>2, <3>1 DEF Between, Shape
    <3>4. Numbered(b)
      BY <2>2, <3>1 DEF Between, Numbered
    <3>5. Dark(b)
      BY <2>2, <3>1 DEF Between, Dark
    <3>6. RecordsBut(b, {})
      <4> SUFFICES ASSUME NEW x \in Active(a)
                   PROVE  b.shown[x] \in Records /\ Record(b, x)
        BY <3>2 DEF RecordsBut
      <4>1. a.shown[x] \in Records /\ (x # o => Record(a, x))
        BY <2>2 DEF Between, RecordsBut
      <4>2. CASE x = o
        <5>1. b.shown[x] = [[a.shown[o] EXCEPT !.hasCommit = FALSE] EXCEPT !.presented = FALSE]
          BY <2>4, <3>1, <4>2
        <5>2. b.shown[x] \in Records /\ ~b.shown[x].hasCommit /\ ~b.shown[x].presented
          BY <4>1, <4>2, <5>1 DEF Records
        <5> QED BY <5>2 DEF Record
      <4>3. CASE x # o
        <5>1. b.shown[x] = a.shown[x]
          BY <2>2, <3>1, <4>3
        <5> QED BY <3>1, <4>1, <4>3, <5>1 DEF Record, SecureFrom
      <4> QED BY <4>2, <4>3
    <3>7. Between(b, {})
      BY <2>2, <3>1, <3>2, <3>3, <3>4, <3>5, <3>6 DEF Between, HasFocusRole
    <3> QED BY <3>1, <3>3, <3>7, FullFrameAlike, AlikeKeeps
  <2>5. /\ Between(d, {}) /\ d.phase = "presenting" /\ d.locked = s.locked
        /\ d.power = s.power /\ d.seq = s.seq /\ d.flight = s.flight /\ d.screen = s.screen
    <3>1. CASE o \notin DOMAIN a.shown
      BY <2>2, <2>3, <3>1
    <3>2. CASE o \in DOMAIN a.shown
      <4>1. Between(c, {}) /\ Alike(b, c)
        BY <2>4, <3>2
      <4>2. /\ c.phase = b.phase /\ c.locked = b.locked
            /\ c.power = b.power /\ c.seq = b.seq /\ c.flight = b.flight /\ c.screen = b.screen
        BY <4>1, AlikeFacts
      <4> QED BY <2>2, <2>4, <3>2, <4>1, <4>2
    <3> QED BY <3>1, <3>2
  <2> HIDE DEF d
  <2>6. Sound(MaybeSendLocked(d)) /\ Answer(d, MaybeSendLocked(d))
    BY <2>5, MaybeKeeps
  <2>7. Answer(s, MaybeSendLocked(d))
    BY <1>4, <2>5, <2>6 DEF Answer
  <2> QED BY <1>4, <2>1, <2>6, <2>7, FocusAnswers
<1> QED BY <1>0, <1>1, <1>2, <1>3, <1>4 DEF Shape

\* outputsChanged: an output that came has a record, one that left has none.
LEMMA OutputsChangedKeeps ==
  ASSUME NEW s, Between(s, {})
  PROVE  LET t == OutputsChanged(s)
         IN /\ Sound(t) /\ Answer(s, t)
            /\ (s.phase = "waiting" /\ ~SurfacesReady(s)) => t = s
<1> DEFINE t == OutputsChanged(s)
<1>0. Shape(s)
  BY DEF Between
<1>1. CASE s.phase = "waiting" /\ SurfacesReady(s)
  <2>1. t = BeginPresenting(s)
    BY <1>1 DEF OutputsChanged
  <2> QED BY <1>1, <2>1, BeginKeeps
<1>2. CASE s.phase = "none" \/ (s.phase = "waiting" /\ ~SurfacesReady(s))
  <2>1. t = s
    BY <1>2 DEF OutputsChanged
  <2>2. Sound(s) /\ Answer(s, s)
    BY <1>2, RestingSound
  <2> QED BY <2>1, <2>2
<1>3. CASE s.phase = "locked"
  <2>1. t = FocusMappedSurface(s)
    BY <1>3 DEF OutputsChanged
  <2>2. Sound(s) /\ Answer(s, s)
    BY <1>3, RestingSound
  <2> QED BY <1>3, <2>1, <2>2, FocusAnswers
<1>4. CASE s.phase = "presenting"
  <2> DEFINE a == SyncOutputPresentations(s)
             idle == {o \in DOMAIN a.shown : ~a.shown[o].presented /\ ~a.shown[o].hasCommit}
             b == ScheduleFullFrame(a, idle)
  <2>1. t = FocusMappedSurface(MaybeSendLocked(b))
    BY <1>4 DEF OutputsChanged
  <2>2. /\ Between(a, {}) /\ Shape(a) /\ a.phase = "presenting" /\ a.locked = s.locked
        /\ a.power = s.power /\ a.seq = s.seq /\ a.flight = s.flight /\ a.screen = s.screen
    BY <1>4, SyncKeeps DEF LockFields, Between
  <2> HIDE DEF a, idle
  <2>3. Between(b, {}) /\ Alike(a, b)
    BY <2>2, FullFrameAlike, AlikeKeeps
  <2> HIDE DEF b
  <2>4. /\ b.phase = "presenting" /\ b.locked = s.locked
        /\ b.power = s.power /\ b.seq = s.seq /\ b.flight = s.flight /\ b.screen = s.screen
    BY <2>2, <2>3, AlikeFacts
  <2>5. Sound(MaybeSendLocked(b)) /\ Answer(b, MaybeSendLocked(b))
    BY <2>3, <2>4, MaybeKeeps
  <2>6. Answer(s, MaybeSendLocked(b))
    BY <1>4, <2>4, <2>5 DEF Answer
  <2> QED BY <1>4, <2>1, <2>5, <2>6, FocusAnswers
<1> QED BY <1>0, <1>1, <1>2, <1>3, <1>4 DEF Shape

-----------------------------------------------------------------------------
(* Commits and what is reported of them.                                   *)

\* The commit of the latest number, and those after it, are of the lock scene.
LatestSecure(s, o) ==
  \A i \in 1 .. Len(s.flight[o]) : s.flight[o][i].seq = s.seq[o] => SecureFrom(s, o, i)

\* handleOutputCommit: the latest commit is the one that will count.
LEMMA CommitSeenKeeps ==
  ASSUME NEW s, NEW o \in Active(s), Between(s, {}), Waits(s),
         s.phase = "presenting" => LatestSecure(s, o)
  PROVE  LET t == HandleOutputCommit(s, o)
         IN Sound(t) /\ Answer(s, t) /\ t.phase = s.phase /\ t.locked = s.locked
<1>1. CASE s.phase # "presenting"
  <2>1. HandleOutputCommit(s, o) = s
    BY <1>1 DEF HandleOutputCommit
  <2>2. Sound(s) /\ Answer(s, s)
    BY <1>1, RestingSound DEF Waits
  <2> QED BY <2>1, <2>2
<1>2. CASE s.phase = "presenting"
  <2> DEFINE a == SyncOutputPresentations(s)
             r == [seq |-> a.seq[o], hasCommit |-> TRUE, presented |-> FALSE]
             b == [a EXCEPT !.shown[o] = r]
  <2>1. /\ Between(a, {}) /\ Synced(a) /\ DOMAIN a.shown = Active(a) /\ Active(a) = Active(s)
        /\ a.phase = "presenting" /\ a.locked = s.locked
        /\ a.power = s.power /\ a.seq = s.seq /\ a.flight = s.flight /\ a.screen = s.screen
    BY <1>2, SyncKeeps DEF LockFields
  <2>2. HandleOutputCommit(s, o) = IF a.shown[o].presented THEN a ELSE b
    BY <1>2, <2>1 DEF HandleOutputCommit
  <2> HIDE DEF a
  <2>3. Sound(a) /\ Answer(s, a)
    BY <1>2, <2>1 DEF Sound, Waits, Answer
  <2>4. ASSUME ~a.shown[o].presented
        PROVE  Sound(b) /\ Answer(s, b) /\ b.phase = a.phase /\ b.locked = a.locked
    <3>1. /\ b = [f \in LockFields |-> b[f]] /\ b.due = a.due
          /\ b.phase = a.phase /\ b.locked = a.locked
          /\ b.power = a.power /\ b.seq = a.seq /\ b.flight = a.flight /\ b.screen = a.screen
          /\ b.shown = [a.shown EXCEPT ![o] = r]
      BY <2>1 DEF Between, Shape, LockFields
    <3> HIDE DEF b
    <3>2. Active(b) = Active(a) /\ DOMAIN b.shown = DOMAIN a.shown
      BY <3>1 DEF Active
    <3>3. Shape(b)
      BY <2>1, <3>1 DEF Between, Shape
    <3>4. Numbered(b)
      BY <2>1, <3>1 DEF Between, Numbered
    <3>5. Dark(b)
      BY <2>1, <3>1 DEF Between, Dark
    <3>6. RecordsBut(b, {})
      <4> SUFFICES ASSUME NEW x \in Active(a)
                   PROVE  b.shown[x] \in Records /\ Record(b, x)
        BY <3>2 DEF RecordsBut
      <4>1. CASE x = o
        <5>1. b.shown[x] = r
          BY <2>1, <3>1, <4>1
        <5>2. a.seq[o] \in 0 .. (SeqBound - 1)
          BY <2>1 DEF Between, Shape, Active
        <5>3. r \in Records /\ r.seq = a.seq[o] /\ ~r.presented
          BY <5>2 DEF Records
        <5>4. \A i \in 1 .. Len(s.flight[o]) : s.flight[o][i].seq = s.seq[o] => SecureFrom(s, o, i)
          BY <1>2 DEF LatestSecure
        <5>5. \A i : SecureFrom(s, o, i) <=> SecureFrom(b, o, i)
          BY <2>1, <3>1 DEF SecureFrom
        <5> QED BY <2>1, <3>1, <4>1, <5>1, <5>3, <5>4, <5>5 DEF Record
      <4>2. CASE x # o
        <5>1. b.shown[x] = a.shown[x] /\ a.shown[x] \in Records /\ Record(a, x)
          BY <2>1, <3>1, <4>2 DEF Between, RecordsBut
        <5> QED BY <3>1, <5>1 DEF Record, SecureFrom
      <4> QED BY <4>1, <4>2
    <3>7. Between(b, {})
      BY <2>1, <3>1, <3>2, <3>3, <3>4, <3>5, <3>6 DEF Between, HasFocusRole
    <3>8. Synced(b)
      BY <2>1, <3>1, <3>2 DEF Synced
    <3> QED BY <1>2, <2>1, <3>1, <3>7, <3>8 DEF Sound, Waits, Answer
  <2> HIDE DEF b
  <2> QED BY <1>2, <2>1, <2>2, <2>3, <2>4
<1> QED BY <1>1, <1>2

\* wlroots counts a commit: the successor of the last number.
LEMMA NextNumber ==
  ASSUME NEW n \in 0 .. (SeqBound - 1)
  PROVE  (n + 1) % SeqBound = IF n + 1 = SeqBound THEN 0 ELSE n + 1
BY LockAssumption

\* The frames in flight are a sequence; what a commit appends comes last.
LEMMA AppendFacts ==
  ASSUME NEW q \in Seq(Frames), NEW c \in Frames
  PROVE  /\ Append(q, c) \in Seq(Frames) /\ Len(q) \in Nat
         /\ DOMAIN q = 1 .. Len(q) /\ DOMAIN Append(q, c) = 1 .. (Len(q) + 1)
         /\ Len(Append(q, c)) = Len(q) + 1 /\ Append(q, c)[Len(q) + 1] = c
         /\ \A i \in 1 .. Len(q) : Append(q, c)[i] = q[i]
OBVIOUS

\* Where the i-th of L commits is numbered back from n.
Number(n, L, i) == IF L - i <= n THEN n - (L - i) ELSE n - (L - i) + SeqBound

\* Numbers stay in place when the next one is given out, and only the latest has it.
LEMMA NumberFacts ==
  ASSUME NEW n \in 0 .. (SeqBound - 1), NEW m \in 0 .. (SeqBound - 1), NEW L \in Nat, L < MaxFlight,
         m = IF n + 1 = SeqBound THEN 0 ELSE n + 1
  PROVE  /\ \A i \in 1 .. L : Number(m, L + 1, i) = Number(n, L, i)
         /\ Number(m, L + 1, L + 1) = m
         /\ \A i \in 1 .. L : Number(m, L + 1, i) # m
<1>1. SeqBound \in Nat /\ MaxFlight \in Nat /\ L < SeqBound
  BY LockAssumption
<1>2. ASSUME NEW i \in 1 .. L
      PROVE  Number(m, L + 1, i) = Number(n, L, i) /\ Number(m, L + 1, i) # m
  BY <1>1, SMTT(30) DEF Number
<1>3. Number(m, L + 1, L + 1) = m
  BY <1>1 DEF Number
<1> QED BY <1>2, <1>3

\* A commit is numbered and waits for its presentation.
LEMMA SubmitKeeps ==
  ASSUME NEW s, NEW o \in Active(s), NEW frame \in {"dark", "desktop", "secure"},
         Between(s, {}), Room(s, o), s.locked => frame # "desktop"
  PROVE  LET u == Submit(s, o, frame)
         IN /\ Between(u, {o})
            /\ (s.phase = "presenting" => frame = "secure") => Between(u, {})
            /\ frame = "secure" => LatestSecure(u, o)
            /\ frame # "desktop" => (Exposed(u) => Exposed(s))
            /\ \A f \in LockFields \ {"seq", "flight"} : u[f] = s[f]
<1> DEFINE n == s.seq[o]
           m == (n + 1) % SeqBound
           c == [seq |-> m, frame |-> frame]
           q == s.flight[o]
           p == Append(q, c)
           L == Len(q)
           u == Submit(s, o, frame)
<1>1. /\ o \in Outputs /\ s.power[o] = "on" /\ n \in 0 .. (SeqBound - 1)
      /\ q \in Seq(Frames) /\ L < MaxFlight
  BY DEF Between, Shape, Active, Room
<1>2. /\ m = (IF n + 1 = SeqBound THEN 0 ELSE n + 1)
      /\ m \in 0 .. (SeqBound - 1)
  <2>1. m = IF n + 1 = SeqBound THEN 0 ELSE n + 1
    BY <1>1, NextNumber
  <2> HIDE DEF n, m
  <2> QED BY <1>1, <2>1, LockAssumption
<1>3. /\ u = [f \in LockFields |-> u[f]]
      /\ \A f \in LockFields \ {"seq", "flight"} : u[f] = s[f]
      /\ u.seq = [s.seq EXCEPT ![o] = m]
      /\ u.flight = [s.flight EXCEPT ![o] = p]
  BY DEF Submit, Between, Shape, LockFields
<1>4. \A x \in Outputs :
        /\ u.seq[x] = IF x = o THEN m ELSE s.seq[x]
        /\ u.flight[x] = IF x = o THEN p ELSE s.flight[x]
        /\ x = o => s.flight[x] = q /\ s.seq[x] = n
  BY <1>3 DEF Between, Shape
<1> HIDE DEF u
<1>5. c \in Frames /\ c.frame = frame /\ c.seq = m
  BY <1>2 DEF Frames
<1> HIDE DEF m, c
<1>6. /\ p \in Seq(Frames) /\ L \in Nat /\ DOMAIN q = 1 .. L /\ DOMAIN p = 1 .. (L + 1)
      /\ Len(p) = L + 1 /\ p[L + 1] = c /\ \A i \in 1 .. L : p[i] = q[i]
  BY <1>1, <1>5, AppendFacts
<1>7. \A i \in 1 .. L : q[i].seq = Number(n, L, i)
  BY <1>1 DEF Between, Numbered, Number
<1> HIDE DEF p
<1>8. /\ u.power = s.power /\ u.screen = s.screen /\ u.locked = s.locked /\ u.phase = s.phase
      /\ u.due = s.due /\ u.shown = s.shown /\ Active(u) = Active(s)
  BY <1>3 DEF LockFields, Active
<1>9. Shape(u)
  <2>1. u.flight \in [Outputs -> Seq(Frames)]
    <3>1. s.flight \in [Outputs -> Seq(Frames)]
      BY DEF Between, Shape
    <3>2. u.flight = [s.flight EXCEPT ![o] = p] /\ p \in Seq(Frames)
      BY <1>3, <1>6
    <3> QED BY <3>1, <3>2
  <2>2. u.seq \in [Outputs -> 0 .. (SeqBound - 1)]
    BY ZenonT(60), <1>2, <1>3 DEF Between, Shape
  <2> QED BY <1>3, <1>8, <2>1, <2>2 DEF Between, Shape
<1> HIDE DEF q, n
<1>10. /\ \A i \in 1 .. L : Number(m, L + 1, i) = Number(n, L, i) /\ Number(m, L + 1, i) # m
       /\ Number(m, L + 1, L + 1) = m
  BY <1>1, <1>2, <1>6, NumberFacts
<1> HIDE DEF L
<1>11. /\ \A i \in 1 .. (L + 1) : i # L + 1 => i \in 1 .. L
       /\ \A i \in 1 .. L : i # L + 1 /\ i \in 1 .. (L + 1)
       /\ L + 1 \in 1 .. (L + 1) /\ L + 1 <= MaxFlight
  BY <1>1, <1>6, LockAssumption DEF L
<1>12. \A i \in 1 .. (L + 1) : p[i].seq = Number(m, L + 1, i)
  BY <1>5, <1>6, <1>7, <1>10, <1>11
<1>13. Numbered(u)
  <2> SUFFICES ASSUME NEW x \in Outputs
               PROVE  /\ Len(u.flight[x]) <= MaxFlight
                      /\ \A i \in 1 .. Len(u.flight[x]) :
                           u.flight[x][i].seq = Number(u.seq[x], Len(u.flight[x]), i)
    BY DEF Numbered, Number
  <2>1. CASE x # o
    <3>1. u.flight[x] = s.flight[x] /\ u.seq[x] = s.seq[x]
      BY <1>4, <2>1
    <3> QED BY <3>1 DEF Between, Numbered, Number
  <2>2. CASE x = o
    BY <1>4, <1>6, <1>11, <1>12, <2>2
  <2> QED BY <2>1, <2>2
<1>14. Dark(u)
  BY <1>1, <1>4, <1>8 DEF Between, Dark
<1>15. frame = "secure" => LatestSecure(u, o)
  <2> SUFFICES ASSUME frame = "secure", NEW i \in 1 .. (L + 1), p[i].seq = m
               PROVE  SecureFrom(u, o, i)
    BY <1>1, <1>4, <1>6 DEF LatestSecure
  <2>1. i = L + 1
    BY <1>10, <1>11, <1>12
  <2>2. \A j \in 1 .. (L + 1) : i <= j => j = L + 1
    BY <1>6, <2>1
  <2> QED BY <1>1, <1>4, <1>5, <1>6, <2>1, <2>2 DEF SecureFrom
<1>16. ASSUME NEW i, SecureFrom(s, o, i), frame = "secure"
       PROVE  SecureFrom(u, o, i)
  <2>1. \A j \in 1 .. L : i <= j => q[j].frame \in {"secure", "dropped"}
    BY <1>1, <1>4, <1>16 DEF SecureFrom, L
  <2>2. \A j \in 1 .. (L + 1) : i <= j => p[j].frame \in {"secure", "dropped"}
    BY <1>5, <1>6, <1>11, <1>16, <2>1
  <2> QED BY <1>1, <1>4, <1>6, <2>2 DEF SecureFrom
<1>17. frame = "secure" => SecureFrom(u, o, L + 1)
  <2>1. \A j \in 1 .. (L + 1) : L + 1 <= j => j = L + 1
    BY <1>6
  <2> QED BY <1>1, <1>4, <1>5, <1>6, <2>1 DEF SecureFrom
<1>18. ASSUME NEW x \in Active(s), s.phase = "presenting", x \in DOMAIN s.shown, frame = "secure" \/ x # o
       PROVE  Record(u, x)
  <2>1. Record(s, x) /\ u.shown[x] = s.shown[x] /\ u.screen[x] = s.screen[x] /\ x \in Outputs
    BY <1>8, <1>18 DEF Between, RecordsBut, Active
  <2>2. CASE x # o
    <3>1. u.flight[x] = s.flight[x]
      BY <1>4, <2>1, <2>2
    <3> QED BY <2>1, <3>1 DEF Record, SecureFrom
  <2>3. CASE x = o
    <3>1. frame = "secure" /\ u.flight[o] = p /\ s.flight[o] = q
      BY <1>1, <1>4, <1>18, <2>3
    <3>2. \A i \in 1 .. (L + 1) : p[i].seq = s.shown[o].seq =>
            i = L + 1 \/ (i \in 1 .. Len(s.flight[o]) /\ s.flight[o][i].seq = s.shown[o].seq)
      BY <1>6, <1>11, <3>1 DEF L
    <3> QED BY <1>6, <1>16, <1>17, <2>1, <2>3, <3>1, <3>2 DEF Record
  <2> QED BY <2>2, <2>3
<1>19. ASSUME NEW x \in Active(u) \cap DOMAIN u.shown, s.phase = "presenting"
       PROVE  u.shown[x] \in Records
  BY <1>8, <1>19 DEF Between, RecordsBut
<1>20. RecordsBut(u, {o}) /\ ((s.phase = "presenting" => frame = "secure") => RecordsBut(u, {}))
  BY <1>8, <1>18, <1>19 DEF RecordsBut
<1>21. ASSUME frame # "desktop", NEW x \in Outputs, NEW i \in DOMAIN u.flight[x], u.flight[x][i].frame = "desktop"
       PROVE  i \in DOMAIN s.flight[x] /\ s.flight[x][i].frame = "desktop"
  <2>1. CASE x # o
    BY <1>4, <1>21, <2>1
  <2>2. CASE x = o
    <3>1. u.flight[x] = p /\ s.flight[x] = q
      BY <1>4, <2>2
    <3>2. i # L + 1
      BY <1>5, <1>6, <1>21, <3>1
    <3> QED BY <1>6, <1>11, <1>21, <3>1, <3>2
  <2> QED BY <2>1, <2>2
<1>22. frame # "desktop" => (Exposed(u) => Exposed(s))
  BY <1>8, <1>21 DEF Exposed
<1>23. s.phase = "locked" => Covered(u)
  <2> SUFFICES ASSUME s.phase = "locked" PROVE Covered(u)
    OBVIOUS
  <2>1. Covered(s) /\ s.locked /\ frame # "desktop"
    BY DEF Between, HasFocusRole
  <2> QED BY <1>8, <1>21, <2>1 DEF Covered
<1>24. /\ HasFocusRole(u) => u.locked
       /\ ~HasFocusRole(u) => DOMAIN u.shown = {}
       /\ u.phase = "locked" => Covered(u)
  BY <1>8, <1>23 DEF Between, HasFocusRole
<1>25. Between(u, {o}) /\ ((s.phase = "presenting" => frame = "secure") => Between(u, {}))
  BY <1>9, <1>13, <1>14, <1>20, <1>24 DEF Between
<1> QED BY <1>3, <1>15, <1>22, <1>25 DEF u

\* A frame of the scene is committed: of the lock scene, in a locked session.
LEMMA CommitKeeps ==
  ASSUME NEW s, NEW o \in Active(s), Between(s, {}), Room(s, o)
  PROVE  LET t == Commit(s, o)
         IN /\ Between(t, {})
            /\ s.phase = "presenting" => LatestSecure(t, o)
            /\ s.locked => (Exposed(t) => Exposed(s))
            /\ \A f \in LockFields \ {"seq", "flight", "due"} : t[f] = s[f]
<1> DEFINE u == Submit(s, o, Content(s))
           t == Commit(s, o)
<1>1. /\ Content(s) \in {"dark", "desktop", "secure"}
      /\ s.locked => Content(s) = "secure"
      /\ s.phase = "presenting" => s.locked
  BY DEF Content, Between, HasFocusRole
<1>2. s.locked => Content(s) # "desktop"
  BY <1>1
<1>3. /\ Between(u, {})
      /\ s.phase = "presenting" => LatestSecure(u, o)
      /\ s.locked => (Exposed(u) => Exposed(s))
      /\ \A f \in LockFields \ {"seq", "flight"} : u[f] = s[f]
  BY <1>1, <1>2, SubmitKeeps
<1>4. t = [u EXCEPT !.due[o] = FALSE]
  BY DEF Commit
<1> HIDE DEF u
<1>5. Alike(u, t) /\ \A f \in LockFields \ {"due"} : t[f] = u[f]
  <2>1. Shape(u)
    BY <1>3 DEF Between
  <2>2. u = [f \in LockFields |-> u[f]] /\ u.due \in [Outputs -> BOOLEAN]
    BY <2>1 DEF Shape
  <2> DEFINE d == [u.due EXCEPT ![o] = FALSE]
  <2>3. t = [u EXCEPT !.due = d]
    BY <1>4
  <2>4. d \in [Outputs -> BOOLEAN]
    BY <2>2
  <2> HIDE DEF d, t
  <2>5. t = [f \in LockFields |-> t[f]] /\ t.due = d /\ \A f \in LockFields \ {"due"} : t[f] = u[f]
    BY <2>2, <2>3 DEF LockFields
  <2> QED BY <2>4, <2>5 DEF Alike, LockFields, Shown
<1> HIDE DEF t
<1>6. Between(t, {})
  BY <1>3, <1>5, AlikeKeeps
<1>7. t.flight = u.flight /\ t.seq = u.seq /\ t.screen = u.screen
  BY <1>5, AlikeFacts
<1>8. (LatestSecure(u, o) => LatestSecure(t, o)) /\ (Exposed(t) => Exposed(u))
  BY <1>7 DEF LatestSecure, SecureFrom, Exposed
<1> QED BY <1>3, <1>5, <1>6, <1>8 DEF t, LockFields

\* What is left in flight when the oldest commit is reported.
LEMMA TailFacts ==
  ASSUME NEW q \in Seq(Frames), q # <<>>
  PROVE  /\ Tail(q) \in Seq(Frames) /\ Len(q) \in Nat \ {0} /\ Len(Tail(q)) = Len(q) - 1
         /\ DOMAIN q = 1 .. Len(q) /\ DOMAIN Tail(q) = 1 .. (Len(q) - 1)
         /\ Head(q) = q[1] /\ q[1] \in Frames
         /\ \A i \in 1 .. (Len(q) - 1) : Tail(q)[i] = q[i + 1]
OBVIOUS

\* The session after the report and before SessionLock hears of it.
Reported(s, o, presented) ==
  [s EXCEPT !.flight[o] = Tail(s.flight[o]),
            !.screen[o] = IF presented THEN Head(s.flight[o]).frame ELSE s.screen[o]]

\* wlroots reports a commit: what was true of the frames behind it still is.
LEMMA ReportKeeps ==
  ASSUME NEW s, Sound(s), NEW o \in Outputs, s.flight[o] # <<>>, NEW presented \in BOOLEAN,
         presented => Head(s.flight[o]).frame # "dropped"
  PROVE  LET u == Reported(s, o, presented)
         IN /\ Sound(u)
            /\ Exposed(u) => Exposed(s)
            /\ \A f \in LockFields \ {"flight", "screen"} : u[f] = s[f]
            /\ Concerns(u, o, Head(s.flight[o]).seq) =>
                 /\ presented => u.screen[o] = "secure"
                 /\ SecureFrom(u, o, 1)
<1> DEFINE q == s.flight[o]
           p == Tail(q)
           L == Len(q)
           c == Head(q)
           w == IF presented THEN c.frame ELSE s.screen[o]
           u == Reported(s, o, presented)
<1>1. Shape(s) /\ Numbered(s) /\ Dark(s) /\ q \in Seq(Frames) /\ s.screen[o] \in {"dark", "desktop", "secure"}
  BY DEF Sound, Between, Shape
<1>2. /\ p \in Seq(Frames) /\ L \in Nat \ {0} /\ Len(p) = L - 1
      /\ DOMAIN q = 1 .. L /\ DOMAIN p = 1 .. (L - 1)
      /\ c = q[1] /\ c \in Frames /\ \A i \in 1 .. (L - 1) : p[i] = q[i + 1]
  BY <1>1, TailFacts
<1>3. /\ u = [f \in LockFields |-> u[f]]
      /\ \A f \in LockFields \ {"flight", "screen"} : u[f] = s[f]
      /\ u.flight = [s.flight EXCEPT ![o] = p]
      /\ u.screen = [s.screen EXCEPT ![o] = w]
  BY <1>1 DEF Reported, Shape, LockFields
<1> HIDE DEF u
<1>4. \A x \in Outputs :
        /\ u.flight[x] = IF x = o THEN p ELSE s.flight[x]
        /\ u.screen[x] = IF x = o THEN w ELSE s.screen[x]
        /\ x = o => s.flight[x] = q
  BY <1>1, <1>3 DEF Shape
<1>5. /\ u.power = s.power /\ u.locked = s.locked /\ u.phase = s.phase /\ u.seq = s.seq
      /\ u.due = s.due /\ u.shown = s.shown /\ u.mapped = s.mapped
  BY <1>3 DEF LockFields
<1>6. Active(u) = Active(s)
  BY <1>5 DEF Active
<1>7. w \in {"dark", "desktop", "secure"} /\ (presented => w = c.frame) /\ (~presented => w = s.screen[o])
  BY <1>1, <1>2 DEF Frames
<1>8. /\ L <= MaxFlight /\ \A i \in 1 .. L : q[i].seq = Number(s.seq[o], L, i)
      /\ \A i : SecureFrom(s, o, i) <=> \A j \in 1 .. L : i <= j => q[j].frame \in {"secure", "dropped"}
      /\ s.power[o] # "on" => /\ s.screen[o] = "dark" /\ s.power[o] # "gone"
                             /\ \A i \in 1 .. L : q[i].frame = "dropped"
      /\ presented => c.frame # "dropped"
  BY <1>1 DEF Numbered, Number, SecureFrom, Dark
<1> HIDE DEF p, c, w, q, L
<1>9. /\ \A i \in 1 .. (L - 1) : i + 1 \in 1 .. L
      /\ 1 \in 1 .. L /\ L - 1 <= MaxFlight
      /\ \A i, j \in 1 .. (L - 1) : i <= j => i + 1 <= j + 1
      /\ \A j \in 1 .. (L - 1) : 1 <= j /\ 1 <= j + 1
  BY <1>2, <1>8, LockAssumption
<1>10. \A n, i : i \in 1 .. (L - 1) => Number(n, L, i + 1) = Number(n, L - 1, i)
  <2> SUFFICES ASSUME NEW n, NEW i \in 1 .. (L - 1)
               PROVE  Number(n, L, i + 1) = Number(n, L - 1, i)
    OBVIOUS
  <2>1. L - (i + 1) = (L - 1) - i
    BY <1>2
  <2> QED BY <2>1 DEF Number
<1>11. Shape(u)
  <2>1. u.flight \in [Outputs -> Seq(Frames)]
    <3>1. s.flight \in [Outputs -> Seq(Frames)]
      BY <1>1 DEF Shape
    <3>2. u.flight = [s.flight EXCEPT ![o] = p] /\ p \in Seq(Frames)
      BY <1>2, <1>3
    <3> QED BY <3>1, <3>2
  <2>2. u.screen \in [Outputs -> {"dark", "desktop", "secure"}]
    BY ZenonT(60), <1>1, <1>3, <1>7 DEF Shape
  <2> QED BY <1>1, <1>3, <1>5, <2>1, <2>2 DEF Shape
<1>12. Numbered(u)
  <2> SUFFICES ASSUME NEW x \in Outputs
               PROVE  /\ Len(u.flight[x]) <= MaxFlight
                      /\ \A i \in 1 .. Len(u.flight[x]) :
                           u.flight[x][i].seq = Number(u.seq[x], Len(u.flight[x]), i)
    BY DEF Numbered, Number
  <2>1. CASE x # o
    <3>1. u.flight[x] = s.flight[x] /\ u.seq[x] = s.seq[x]
      BY <1>4, <1>5, <2>1
    <3> QED BY <1>1, <3>1 DEF Numbered, Number
  <2>2. CASE x = o
    <3>1. u.flight[x] = p /\ u.seq[x] = s.seq[o]
      BY <1>4, <1>5, <2>2
    <3> QED BY SMTT(30), <1>2, <1>8, <1>9, <1>10, <3>1
  <2> QED BY <2>1, <2>2
<1>13. Dark(u)
  <2> SUFFICES ASSUME NEW x \in Outputs, s.power[x] # "on"
               PROVE  /\ u.screen[x] = "dark" /\ (s.power[x] = "gone" => u.flight[x] = <<>>)
                      /\ \A i \in 1 .. Len(u.flight[x]) : u.flight[x][i].frame = "dropped"
    BY <1>5 DEF Dark
  <2>1. CASE x # o
    BY <1>1, <1>4, <2>1 DEF Dark
  <2>2. CASE x = o
    <3>1. ~presented
      BY <1>2, <1>8, <1>9, <2>2
    <3>2. u.screen[x] = "dark" /\ u.flight[x] = p
      BY <1>4, <1>7, <1>8, <2>2, <3>1
    <3> QED BY <1>2, <1>8, <1>9, <2>2, <3>2
  <2> QED BY <2>1, <2>2
<1>14. \A i : SecureFrom(u, o, i) <=> \A j \in 1 .. (L - 1) : i <= j => p[j].frame \in {"secure", "dropped"}
  BY <1>2, <1>4 DEF SecureFrom
<1>15. ASSUME NEW i \in 1 .. (L - 1), SecureFrom(s, o, i + 1)
       PROVE  SecureFrom(u, o, i)
  BY <1>2, <1>8, <1>9, <1>14, <1>15
<1>16. ASSUME SecureFrom(s, o, 1)
       PROVE  SecureFrom(u, o, 1) /\ (presented => u.screen[o] = "secure")
  <2>1. SecureFrom(u, o, 1)
    BY <1>2, <1>8, <1>9, <1>14, <1>16
  <2>2. presented => c.frame = "secure"
    BY <1>2, <1>8, <1>9, <1>16
  <2> QED BY <1>4, <1>7, <2>1, <2>2
<1>17. ASSUME NEW x \in Active(s), s.phase = "presenting", x \in DOMAIN s.shown
       PROVE  u.shown[x] \in Records /\ Record(u, x)
  <2>1. s.shown[x] \in Records /\ Record(s, x) /\ u.shown[x] = s.shown[x] /\ x \in Outputs
    BY <1>5, <1>17 DEF Sound, Between, RecordsBut, Active
  <2>2. CASE x # o
    <3>1. u.flight[x] = s.flight[x] /\ u.screen[x] = s.screen[x]
      BY <1>4, <2>1, <2>2
    <3> QED BY <2>1, <3>1 DEF Record, SecureFrom
  <2>3. CASE x = o
    <3>1. s.shown[o].presented => u.screen[o] = "secure" /\ SecureFrom(u, o, 1)
      <4>1. s.shown[o].presented => s.screen[o] = "secure" /\ SecureFrom(s, o, 1)
        BY <2>1, <2>3 DEF Record
      <4> QED BY <1>4, <1>7, <1>16, <4>1
    <3>2. ASSUME s.shown[o].hasCommit, ~s.shown[o].presented,
                 NEW i \in 1 .. (L - 1), p[i].seq = s.shown[o].seq
          PROVE  SecureFrom(u, o, i)
      <4>1. q[i + 1].seq = s.shown[o].seq /\ i + 1 \in 1 .. L /\ L = Len(s.flight[o]) /\ q = s.flight[o]
        BY <1>2, <1>9, <3>2 DEF q, L
      <4> QED BY <1>15, <2>1, <2>3, <3>2, <4>1 DEF Record
    <3>3. u.flight[o] = p /\ Len(p) = L - 1
      BY <1>2, <1>4
    <3> QED BY <2>1, <2>3, <3>1, <3>2, <3>3 DEF Record
  <2> QED BY <2>2, <2>3
<1>18. RecordsBut(u, {})
  BY <1>5, <1>6, <1>17 DEF RecordsBut
<1>19. ASSUME NEW x \in Outputs, NEW i \in DOMAIN u.flight[x], u.flight[x][i].frame = "desktop"
       PROVE  \E j \in DOMAIN s.flight[x] : s.flight[x][j].frame = "desktop"
  <2>1. CASE x # o
    BY <1>4, <1>19, <2>1
  <2>2. CASE x = o
    <3>1. u.flight[x] = p /\ s.flight[x] = q
      BY <1>4, <2>2
    <3> QED BY <1>2, <1>9, <1>19, <3>1
  <2> QED BY <2>1, <2>2
<1>20. ASSUME NEW x \in Outputs, u.screen[x] = "desktop"
       PROVE  s.screen[x] = "desktop" \/ \E j \in DOMAIN s.flight[x] : s.flight[x][j].frame = "desktop"
  <2>1. CASE x # o \/ ~presented
    BY <1>4, <1>7, <1>20, <2>1
  <2>2. CASE x = o /\ presented
    <3>1. q[1].frame = "desktop" /\ 1 \in DOMAIN q /\ s.flight[x] = q
      BY <1>2, <1>4, <1>7, <1>9, <1>20, <2>2
    <3> QED BY <3>1
  <2> QED BY <2>1, <2>2
<1>21. Exposed(u) => Exposed(s)
  BY <1>19, <1>20 DEF Exposed
<1>22. s.phase = "locked" => Covered(u)
  <2>1. s.phase = "locked" => Covered(s)
    BY DEF Sound, Between
  <2>2. Covered(s) => ~Exposed(s) /\ s.locked
    BY DEF Covered, Exposed
  <2>3. ~Exposed(u) /\ u.locked => Covered(u)
    BY DEF Covered, Exposed
  <2> QED BY <1>5, <1>21, <2>1, <2>2, <2>3
<1>23. /\ HasFocusRole(u) => u.locked
       /\ ~HasFocusRole(u) => DOMAIN u.shown = {}
       /\ u.phase = "locked" => Covered(u)
  BY <1>5, <1>22 DEF Sound, Between, HasFocusRole
<1>24. Sound(u)
  <2>1. Synced(u) /\ Waits(u)
    BY <1>5, <1>6 DEF Sound, Synced, Waits, SurfacesReady
  <2> QED BY <1>11, <1>12, <1>13, <1>18, <1>23, <2>1 DEF Sound, Between
<1>25. ASSUME Concerns(u, o, c.seq)
       PROVE  (presented => u.screen[o] = "secure") /\ SecureFrom(u, o, 1)
  <2>1. /\ s.phase = "presenting" /\ o \in DOMAIN s.shown /\ ~s.shown[o].presented
        /\ s.shown[o].hasCommit /\ s.shown[o].seq = q[1].seq
    BY <1>2, <1>5, <1>25 DEF Concerns
  <2>2. o \in Active(s) /\ Record(s, o)
    BY <2>1 DEF Sound, Synced, Between, RecordsBut
  <2>3. 1 \in 1 .. Len(s.flight[o]) /\ s.flight[o][1].seq = s.shown[o].seq
    BY <1>9, <2>1 DEF q, L
  <2> QED BY <1>16, <2>1, <2>2, <2>3 DEF Record
<1> QED BY <1>3, <1>21, <1>24, <1>25 DEF u, c, q

\* handleOutputPresent: a record is set by the commit it remembers, or by none.
LEMMA PresentKeeps ==
  ASSUME NEW s, Sound(s), NEW o \in Outputs, NEW n, NEW presented \in BOOLEAN,
         Concerns(s, o, n) => (presented => s.screen[o] = "secure") /\ SecureFrom(s, o, 1)
  PROVE  LET t == HandleOutputPresent(s, o, n, presented) IN Sound(t) /\ Answer(s, t)
<1>1. CASE ~Concerns(s, o, n)
  BY <1>1 DEF HandleOutputPresent, Answer
<1>2. CASE Concerns(s, o, n)
  <2> DEFINE a == [s EXCEPT !.shown[o].presented = TRUE]
             b == [s EXCEPT !.shown[o].hasCommit = FALSE]
  <2>1. HandleOutputPresent(s, o, n, presented)
          = IF presented THEN MaybeSendLocked(a) ELSE ScheduleFullFrame(b, {o})
    BY <1>2 DEF HandleOutputPresent
  <2>2. /\ Between(s, {}) /\ s.phase = "presenting" /\ o \in DOMAIN s.shown
        /\ s.shown = [x \in Active(s) |-> s.shown[x]]
        /\ o \in Active(s) /\ s.shown[o] \in Records /\ ~s.shown[o].presented
    BY <1>2 DEF Concerns, Sound, Synced, Between, RecordsBut
  <2>3. s = [f \in LockFields |-> s[f]]
    BY <2>2 DEF Between, Shape
  <2>4. ASSUME NEW u, NEW r \in Records,
               u = [f \in LockFields |-> u[f]], u.shown = [s.shown EXCEPT ![o] = r],
               \A f \in LockFields \ {"shown"} : u[f] = s[f],
               r.presented => s.screen[o] = "secure" /\ SecureFrom(s, o, 1),
               ~r.presented => ~r.hasCommit
        PROVE  Between(u, {}) /\ Synced(u) /\ Waits(u) /\ Answer(s, u)
    <3>1. /\ u.power = s.power /\ u.seq = s.seq /\ u.flight = s.flight /\ u.screen = s.screen
          /\ u.locked = s.locked /\ u.phase = s.phase /\ u.due = s.due /\ Active(u) = Active(s)
      BY <2>4 DEF LockFields, Active
    <3>2. Shape(u)
      BY <2>2, <2>4, <3>1 DEF Between, Shape
    <3>3. Numbered(u)
      BY <2>2, <3>1 DEF Between, Numbered
    <3>4. Dark(u)
      BY <2>2, <3>1 DEF Between, Dark
    <3>5. RecordsBut(u, {})
      <4> SUFFICES ASSUME NEW x \in Active(s)
                   PROVE  u.shown[x] \in Records /\ Record(u, x)
        BY <3>1 DEF RecordsBut
      <4>1. CASE x = o
        <5>1. u.shown[x] = r
          BY <2>2, <2>4, <4>1
        <5>2. SecureFrom(s, o, 1) => SecureFrom(u, o, 1)
          BY <3>1 DEF SecureFrom
        <5> QED BY <2>4, <3>1, <4>1, <5>1, <5>2 DEF Record
      <4>2. CASE x # o
        <5>1. u.shown[x] = s.shown[x] /\ s.shown[x] \in Records /\ Record(s, x)
          BY <2>2, <2>4, <4>2 DEF Between, RecordsBut
        <5> QED BY <3>1, <5>1 DEF Record, SecureFrom
      <4> QED BY <4>1, <4>2
    <3>6. Synced(u) /\ Waits(u)
      BY <2>2, <2>4, <3>1 DEF Synced, Waits
    <3>7. Between(u, {})
      BY <2>2, <3>1, <3>2, <3>3, <3>4, <3>5 DEF Between, HasFocusRole
    <3> QED BY <2>2, <3>1, <3>6, <3>7 DEF Answer
  <2>5. CASE presented
    <3> DEFINE r == [s.shown[o] EXCEPT !.presented = TRUE]
               h == [s.shown EXCEPT ![o] = r]
    <3>1. a = [s EXCEPT !.shown = h]
      BY <2>3
    <3>2. r \in Records /\ r.presented
      BY <2>2 DEF Records
    <3> HIDE DEF h, a
    <3>3. a = [f \in LockFields |-> a[f]] /\ a.shown = h /\ \A f \in LockFields \ {"shown"} : a[f] = s[f]
      BY <2>3, <3>1 DEF LockFields
    <3> HIDE DEF r
    <3>4. Between(a, {}) /\ Answer(s, a) /\ a.phase = "presenting" /\ a.locked = s.locked
      BY <1>2, <2>2, <2>4, <2>5, <3>2, <3>3 DEF h, LockFields
    <3>5. Sound(MaybeSendLocked(a)) /\ Answer(a, MaybeSendLocked(a))
      BY <3>4, MaybeKeeps
    <3>6. Answer(s, MaybeSendLocked(a))
      BY <2>2, <3>4, <3>5 DEF Answer
    <3> QED BY <2>1, <2>5, <3>5, <3>6
  <2>6. CASE ~presented
    <3> DEFINE r == [s.shown[o] EXCEPT !.hasCommit = FALSE]
               h == [s.shown EXCEPT ![o] = r]
    <3>1. b = [s EXCEPT !.shown = h]
      BY <2>3
    <3>2. r \in Records /\ ~r.presented /\ ~r.hasCommit
      BY <2>2 DEF Records
    <3> HIDE DEF h, b
    <3>3. b = [f \in LockFields |-> b[f]] /\ b.shown = h /\ \A f \in LockFields \ {"shown"} : b[f] = s[f]
      BY <2>3, <3>1 DEF LockFields
    <3> HIDE DEF r
    <3>4. Sound(b) /\ Answer(s, b)
      BY <2>4, <3>2, <3>3 DEF h, Sound
    <3>5. Alike(b, ScheduleFullFrame(b, {o}))
      BY <3>4, FullFrameAlike DEF Sound, Between
    <3> QED BY <2>1, <2>6, <3>4, <3>5, AnswerAlike
  <2> QED BY <2>5, <2>6
<1> QED BY <1>1, <1>2

-----------------------------------------------------------------------------
(* What one step does to the lock.                                         *)

\* A step that is no unlock: the cover stays, the desktop does not come back under
\* it, a lock that was told is not told again, and none is told too early.
Handled(s, t) ==
  /\ s.locked => t.locked
  /\ t.locked => (Exposed(t) => Exposed(s))
  /\ (t.locked /\ ~s.locked) => HasFocusRole(t)
  /\ s.phase = "locked" => t.phase # "presenting"
  /\ (t.phase = "locked" /\ s.phase # "locked") => \A o \in Active(t) : t.screen[o] = "secure"

\* A step that leaves the lock alone and answers then.
LEMMA AnswerHandles ==
  ASSUME NEW s, NEW u, NEW t, u.locked = s.locked, u.phase = s.phase,
         s.locked \in BOOLEAN, t.locked => (Exposed(u) => Exposed(s)), Answer(u, t)
  PROVE  Handled(s, t)
<1>1. Exposed(t) <=> Exposed(u)
  BY DEF Answer, Exposed
<1>2. t.phase = u.phase \/ t.phase \in {"presenting", "locked"}
  BY DEF Answer
<1> QED BY <1>1 DEF Handled, Answer, HasFocusRole

\* What is shown, and the lock with it, stays as it is.
LEMMA NearHandles ==
  ASSUME NEW s, NEW t, Near(s, t)
  PROVE  Handled(s, t) /\ Answer(s, t)
<1>1. /\ t.power = s.power /\ t.seq = s.seq /\ t.flight = s.flight /\ t.screen = s.screen
      /\ t.locked = s.locked /\ t.phase = s.phase
  BY DEF Near, Shown
<1>2. Exposed(t) <=> Exposed(s)
  BY <1>1 DEF Exposed
<1> QED BY <1>1, <1>2 DEF Handled, Answer

\* u is s after o went dark: off, with the commits q dropped, or gone, with none.
Darkens(s, u, o, p, q) ==
  /\ u = [f \in LockFields |-> u[f]]
  /\ u.power = [s.power EXCEPT ![o] = p] /\ u.flight = [s.flight EXCEPT ![o] = q]
  /\ u.screen = [s.screen EXCEPT ![o] = "dark"] /\ u.due = [s.due EXCEPT ![o] = FALSE]
  /\ \A f \in LockFields \ {"power", "flight", "screen", "due"} : u[f] = s[f]
  /\ p = "gone" => q = <<>>
  /\ p = "off" => /\ Len(q) = Len(s.flight[o])
                  /\ \A i \in 1 .. Len(q) : q[i].seq = s.flight[o][i].seq /\ q[i].frame = "dropped"

\* An output goes dark: what it committed is dropped or forgotten.
LEMMA DarkKeeps ==
  ASSUME NEW s, Sound(s), NEW u, NEW o \in Outputs, NEW p \in {"off", "gone"}, NEW q \in Seq(Frames),
         Darkens(s, u, o, p, q)
  PROVE  Between(u, {}) /\ (Exposed(u) => Exposed(s))
<1>1. Shape(s) /\ Numbered(s) /\ Dark(s)
  BY DEF Sound, Between
<1>2. \A x \in Outputs :
        /\ u.power[x] = IF x = o THEN p ELSE s.power[x]
        /\ u.flight[x] = IF x = o THEN q ELSE s.flight[x]
        /\ u.screen[x] = IF x = o THEN "dark" ELSE s.screen[x]
  BY <1>1 DEF Shape, Darkens
<1>3. u.locked = s.locked /\ u.phase = s.phase /\ u.seq = s.seq /\ u.shown = s.shown
  BY DEF Darkens, LockFields
<1>4. /\ Len(q) \in Nat /\ DOMAIN q = 1 .. Len(q) /\ (p = "gone" => Len(q) = 0)
      /\ p = "off" => /\ Len(q) = Len(s.flight[o])
                      /\ \A i \in 1 .. Len(q) : q[i].seq = s.flight[o][i].seq /\ q[i].frame = "dropped"
  BY DEF Darkens
<1>5. \A i \in 1 .. Len(q) : q[i].frame = "dropped"
  <2>1. CASE p = "off"
    BY <1>4, <2>1
  <2>2. CASE p = "gone"
    <3>1. Len(q) = 0
      BY <1>4, <2>2
    <3> HIDE DEF Frames
    <3>2. 1 .. Len(q) = {}
      BY <3>1
    <3> QED BY <3>2
  <2> QED BY <2>1, <2>2
<1>6. Shape(u)
  <2>1. s.flight \in [Outputs -> Seq(Frames)] /\ u.flight = [s.flight EXCEPT ![o] = q]
    BY <1>1 DEF Shape, Darkens
  <2>2. u.flight \in [Outputs -> Seq(Frames)]
    BY <2>1
  <2>3. u.power \in [Outputs -> {"gone", "off", "on"}]
    <3>1. s.power \in [Outputs -> {"gone", "off", "on"}] /\ u.power = [s.power EXCEPT ![o] = p]
      BY <1>1 DEF Shape, Darkens
    <3> QED BY <3>1
  <2>4. u.screen \in [Outputs -> {"dark", "desktop", "secure"}]
    BY ZenonT(60), <1>1 DEF Shape, Darkens
  <2>5. u.due \in [Outputs -> BOOLEAN]
    <3>1. s.due \in [Outputs -> BOOLEAN] /\ u.due = [s.due EXCEPT ![o] = FALSE]
      BY <1>1 DEF Shape, Darkens
    <3> QED BY <3>1
  <2>6. u = [f \in LockFields |-> u[f]]
    BY DEF Darkens
  <2> QED BY <1>1, <1>3, <2>2, <2>3, <2>4, <2>5, <2>6 DEF Shape
<1>7. Numbered(u)
  <2> SUFFICES ASSUME NEW x \in Outputs
               PROVE  /\ Len(u.flight[x]) <= MaxFlight
                      /\ \A i \in 1 .. Len(u.flight[x]) :
                           u.flight[x][i].seq = Number(u.seq[x], Len(u.flight[x]), i)
    BY DEF Numbered, Number
  <2>1. /\ Len(s.flight[x]) <= MaxFlight
        /\ \A i \in 1 .. Len(s.flight[x]) :
             s.flight[x][i].seq = Number(s.seq[x], Len(s.flight[x]), i)
    BY <1>1 DEF Numbered, Number
  <2>2. CASE x # o
    BY <1>2, <1>3, <2>1, <2>2
  <2>3. CASE x = o /\ p = "off"
    BY <1>2, <1>3, <1>4, <2>1, <2>3
  <2>4. CASE x = o /\ p = "gone"
    <3>1. u.flight[x] = q /\ Len(q) = 0
      BY <1>2, <1>4, <2>4
    <3>2. 1 .. Len(q) = {}
      BY <3>1
    <3>3. Len(q) <= MaxFlight
      BY <3>1, LockAssumption
    <3> QED BY <3>1, <3>2, <3>3
  <2> QED BY <2>2, <2>3, <2>4
<1>8. Dark(u)
  <2> SUFFICES ASSUME NEW x \in Outputs, u.power[x] # "on"
               PROVE  /\ u.screen[x] = "dark" /\ (u.power[x] = "gone" => u.flight[x] = <<>>)
                      /\ \A i \in 1 .. Len(u.flight[x]) : u.flight[x][i].frame = "dropped"
    BY DEF Dark
  <2>1. CASE x # o
    BY <1>1, <1>2, <2>1 DEF Dark
  <2>2. CASE x = o
    <3>1. u.screen[x] = "dark" /\ u.flight[x] = q /\ u.power[x] = p
      BY <1>2, <2>2
    <3>2. p = "gone" => q = <<>>
      BY DEF Darkens
    <3> QED BY <1>5, <3>1, <3>2
  <2> QED BY <2>1, <2>2
<1>9. ASSUME NEW x \in Active(u)
      PROVE  x \in Active(s) /\ x # o /\ (Record(s, x) => Record(u, x)) /\ u.shown[x] = s.shown[x]
  <2>1. x \in Active(s) /\ x # o /\ x \in Outputs
    BY <1>2 DEF Active
  <2>2. u.flight[x] = s.flight[x] /\ u.screen[x] = s.screen[x]
    BY <1>2, <2>1
  <2> QED BY <1>3, <2>1, <2>2 DEF Record, SecureFrom
<1>10. RecordsBut(u, {})
  BY <1>3, <1>9 DEF Sound, Between, RecordsBut
<1>11. Exposed(u) => Exposed(s)
  <2>1. ASSUME NEW x \in Outputs, u.screen[x] = "desktop"
        PROVE  s.screen[x] = "desktop"
    BY <1>2, <2>1
  <2>2. ASSUME NEW x \in Outputs, NEW i \in DOMAIN u.flight[x], u.flight[x][i].frame = "desktop"
        PROVE  i \in DOMAIN s.flight[x] /\ s.flight[x][i].frame = "desktop"
    BY <1>2, <1>4, <1>5, <2>2
  <2> QED BY <2>1, <2>2 DEF Exposed
<1>12. u.phase = "locked" => Covered(u)
  <2>1. s.phase = "locked" => Covered(s)
    BY DEF Sound, Between
  <2>2. Covered(s) => ~Exposed(s) /\ s.locked
    BY DEF Covered, Exposed
  <2>3. ~Exposed(u) /\ u.locked => Covered(u)
    BY DEF Covered, Exposed
  <2> QED BY <1>3, <1>11, <2>1, <2>2, <2>3
<1>13. /\ HasFocusRole(u) => u.locked
       /\ ~HasFocusRole(u) => DOMAIN u.shown = {}
  BY <1>3 DEF Sound, Between, HasFocusRole
<1> QED BY <1>6, <1>7, <1>8, <1>10, <1>11, <1>12, <1>13 DEF Between

-----------------------------------------------------------------------------
(* The lock client's steps.                                                *)

\* A sound session, and a step that only moves the keyboard or asks for frames.
LEMMA AlikeStep ==
  ASSUME NEW s, NEW t, Sound(s), Alike(s, t)
  PROVE  Sound(t) /\ Handled(s, t)
<1>1. Near(s, t)
  BY DEF Alike, Near
<1> QED BY <1>1, AlikeKeeps, NearHandles DEF Sound

\* BeginSessionLock covers the session at once, or waits for surfaces.
LEMMA BeginStep ==
  ASSUME Sound(session), BeginSessionLock
  PROVE  Sound(session') /\ Handled(session, session')
<1> DEFINE s == [session EXCEPT !.phase = "waiting"]
<1>1. session.phase = "none" /\ session' = IF SurfacesReady(s) THEN BeginPresenting(s) ELSE s
  BY DEF BeginSessionLock
<1>2. /\ s = [f \in LockFields |-> s[f]] /\ s.phase = "waiting" /\ s.locked = session.locked
      /\ s.power = session.power /\ s.seq = session.seq /\ s.flight = session.flight
      /\ s.screen = session.screen /\ s.shown = session.shown /\ s.due = session.due
  BY DEF Sound, Between, Shape, LockFields
<1> HIDE DEF s
<1>3. Between(s, {})
  <2>1. Shape(s)
    BY <1>2 DEF Sound, Between, Shape
  <2>2. Numbered(s)
    BY <1>2 DEF Sound, Between, Numbered
  <2>3. Dark(s)
    BY <1>2 DEF Sound, Between, Dark
  <2>4. ~HasFocusRole(s) /\ DOMAIN s.shown = {}
    BY <1>1, <1>2 DEF Sound, Between, HasFocusRole
  <2> QED BY <1>2, <2>1, <2>2, <2>3, <2>4 DEF Between, RecordsBut
<1>4. Exposed(s) <=> Exposed(session)
  BY <1>2 DEF Exposed
<1>5. CASE SurfacesReady(s)
  <2> DEFINE t == BeginPresenting(s)
  <2>1. Sound(t) /\ Answer(s, t) /\ t.phase \in {"presenting", "locked"} /\ t.locked
    BY <1>2, <1>3, BeginKeeps
  <2> HIDE DEF t
  <2>2. Exposed(t) <=> Exposed(s)
    BY <2>1 DEF Answer, Exposed
  <2>3. t.phase = "locked" => \A o \in Active(t) : t.screen[o] = "secure"
    BY <1>2, <2>1 DEF Answer
  <2>4. Handled(session, t)
    BY <1>1, <1>4, <2>1, <2>2, <2>3 DEF Handled, HasFocusRole
  <2> QED BY <1>1, <1>5, <2>1, <2>4 DEF t
<1>6. CASE ~SurfacesReady(s)
  <2>1. Sound(s)
    BY <1>2, <1>3, <1>6, RestingSound
  <2>2. Handled(session, s)
    BY <1>1, <1>2, <1>4 DEF Handled
  <2> QED BY <1>1, <1>6, <2>1, <2>2
<1> QED BY <1>5, <1>6

Surfaced(s, q, m) == [s EXCEPT !.surfaces = q, !.mapped = m]

\* What changes of the surfaces alone.
LEMMA SurfacesNear ==
  ASSUME NEW s, Shape(s), NEW q, NEW m, NEW t,
         t = [s EXCEPT !.mapped = m] \/ t = Surfaced(s, q, m)
  PROVE  Near(s, t) /\ Shape(t) /\ t.mapped = m
<1>1. s = [f \in LockFields |-> s[f]] /\ s.due \in [Outputs -> BOOLEAN]
  BY DEF Shape
<1>2. /\ t = [f \in LockFields |-> t[f]] /\ t.mapped = m /\ t.due = s.due
      /\ \A f \in LockFields \ {"surfaces", "mapped"} : t[f] = s[f]
  BY <1>1 DEF LockFields, Surfaced
<1>3. Near(s, t)
  BY <1>1, <1>2 DEF Near, LockFields, Shown
<1>4. Shape(t)
  BY <1>2 DEF Shape, LockFields
<1> QED BY <1>2, <1>3, <1>4

\* A surface is created before it is mapped.
LEMMA NewSurfaceAlike ==
  ASSUME NEW s, Shape(s), NEW q
  PROVE  Alike(s, [s EXCEPT !.surfaces = q])
BY DEF Alike, Shape, LockFields, Shown

\* A surface is unmapped or gone: whoever waited waits on.
LEMMA FewerKeeps ==
  ASSUME NEW s, NEW t, Sound(s), Near(s, t), t.mapped \subseteq s.mapped
  PROVE  Sound(t)
<1>1. t.phase = s.phase /\ t.power = s.power
  BY DEF Near, Shown
<1>2. Waits(t)
  BY <1>1 DEF Sound, Waits, SurfacesReady, Active
<1> QED BY <1>2, NearKeeps DEF Sound

\* DropSurface changes nothing that is shown.
LEMMA DropNear ==
  ASSUME NEW s, Shape(s), NEW o
  PROVE  LET t == DropSurface(s, o) IN Near(s, t) /\ t.mapped = s.mapped \ {o}
<1> DEFINE q == Without(s.surfaces, o)
           m == s.mapped \ {o}
           u == Surfaced(s, q, m)
<1>1. DropSurface(s, o) = IF HasFocusRole(s) THEN FocusMappedSurface(u) ELSE u
  BY DEF DropSurface, Surfaced
<1> HIDE DEF q, m
<1>2. Near(s, u) /\ Shape(u) /\ u.mapped = m
  BY SurfacesNear
<1> HIDE DEF u
<1>3. Alike(u, FocusMappedSurface(u))
  BY <1>2, FocusAlike
<1>4. Near(s, FocusMappedSurface(u)) /\ FocusMappedSurface(u).mapped = m
  BY <1>2, <1>3 DEF Alike, Near, Shown
<1> QED BY <1>1, <1>2, <1>4 DEF m

\* A surface is mapped: the last one that was missing starts the handoff.
LEMMA MapStep ==
  ASSUME Sound(session), NEW o \in Outputs, MapSurface(o)
  PROVE  Sound(session') /\ Handled(session, session')
<1> DEFINE m == session.mapped \cup {o}
           s == [session EXCEPT !.mapped = m]
           t == IF s.phase = "waiting" /\ SurfacesReady(s) THEN BeginPresenting(s) ELSE s
           u == [t EXCEPT !.focus = o]
<1>1. session' = IF HasFocusRole(t) THEN u ELSE t
  BY DEF MapSurface
<1>2. Near(session, s) /\ Shape(s)
  BY SurfacesNear DEF Sound, Between
<1> HIDE DEF s
<1>3. Between(s, {}) /\ Synced(s) /\ s.phase = session.phase /\ s.locked = session.locked
  BY <1>2, NearKeeps DEF Sound, Near, Shown
<1>4. Sound(t) /\ Answer(s, t)
  <2>1. CASE s.phase = "waiting" /\ SurfacesReady(s)
    BY <1>3, <2>1, BeginKeeps
  <2>2. CASE ~(s.phase = "waiting" /\ SurfacesReady(s))
    BY <1>3, <2>2 DEF Sound, Waits, Answer
  <2> QED BY <2>1, <2>2
<1> HIDE DEF t
<1>5. Alike(t, u)
  BY <1>4, KeyboardAlike DEF Sound, Between
<1> HIDE DEF u
<1>6. Sound(session') /\ Answer(s, session')
  BY <1>1, <1>4, <1>5, AnswerAlike
<1>7. (Exposed(s) <=> Exposed(session)) /\ session.locked \in BOOLEAN
  <2>1. s.screen = session.screen /\ s.flight = session.flight
    BY <1>2 DEF Near, Shown
  <2>2. Exposed(s) <=> Exposed(session)
    BY <2>1 DEF Exposed
  <2>3. session.locked \in BOOLEAN
    BY DEF Sound, Between, Shape
  <2> QED BY <2>2, <2>3
<1>8. Handled(session, session')
  BY <1>3, <1>6, <1>7, AnswerHandles
<1> QED BY <1>6, <1>8

\* The other steps of surfaces.
LEMMA SurfaceStep ==
  ASSUME Sound(session), NEW o \in Outputs, NewSurface(o) \/ UnmapSurface(o) \/ DestroySurface(o)
  PROVE  Sound(session') /\ Handled(session, session')
<1>0. Shape(session)
  BY DEF Sound, Between
<1>1. CASE NewSurface(o)
  <2>1. session' = [session EXCEPT !.surfaces = Append(session.surfaces, o)]
    BY <1>1 DEF NewSurface
  <2>2. Alike(session, session')
    BY <1>0, <2>1, NewSurfaceAlike
  <2> QED BY <2>2, AlikeStep
<1>2. CASE UnmapSurface(o)
  <2> DEFINE s == [session EXCEPT !.mapped = session.mapped \ {o}]
  <2>1. session' = IF HasFocusRole(s) THEN FocusMappedSurface(s) ELSE s
    BY <1>2 DEF UnmapSurface
  <2>2. Near(session, s) /\ Shape(s) /\ s.mapped = session.mapped \ {o}
    BY <1>0, SurfacesNear
  <2> HIDE DEF s
  <2>3. Alike(s, FocusMappedSurface(s))
    BY <2>2, FocusAlike
  <2>4. Near(session, session') /\ session'.mapped = session.mapped \ {o}
    BY <2>1, <2>2, <2>3 DEF Alike, Near, Shown
  <2> QED BY <2>4, FewerKeeps, NearHandles
<1>3. CASE DestroySurface(o)
  <2>1. session' = DropSurface(session, o)
    BY <1>3 DEF DestroySurface
  <2>2. Near(session, session') /\ session'.mapped = session.mapped \ {o}
    BY <1>0, <2>1, DropNear
  <2> QED BY <2>2, FewerKeeps, NearHandles
<1> QED BY <1>1, <1>2, <1>3

\* The handoff goes on without the surfaces.
LEMMA DeadlineStep ==
  ASSUME Sound(session), SurfaceDeadline
  PROVE  Sound(session') /\ Handled(session, session')
<1>1. session.phase = "waiting" /\ session' = BeginPresenting(session)
  BY DEF SurfaceDeadline
<1>2. Sound(session') /\ Answer(session, session')
  BY <1>1, BeginKeeps DEF Sound
<1>3. session.locked \in BOOLEAN
  BY DEF Sound, Between, Shape
<1> QED BY <1>2, <1>3, AnswerHandles

\* The session without a lock, as a lost client or an unlock leaves it.
LEMMA EndKeeps ==
  ASSUME NEW s, Sound(s), NEW t, t = [f \in LockFields |-> t[f]], t.locked \in BOOLEAN,
         t.phase = "none", DOMAIN t.shown = {}, t.due \in [Outputs -> BOOLEAN],
         t.power = s.power, t.seq = s.seq, t.flight = s.flight, t.screen = s.screen
  PROVE  Sound(t) /\ (Exposed(t) <=> Exposed(s))
<1>1. Shape(t)
  BY DEF Sound, Between, Shape
<1>2. Numbered(t)
  BY DEF Sound, Between, Numbered
<1>3. Dark(t)
  BY DEF Sound, Between, Dark
<1>4. Between(t, {})
  BY <1>1, <1>2, <1>3 DEF Between, HasFocusRole, RecordsBut
<1> QED BY <1>4 DEF Sound, Synced, Waits, Exposed

\* The client is gone: who was locked stays locked.
LEMMA ClientGoneStep ==
  ASSUME Sound(session), ClientGone
  PROVE  Sound(session') /\ Handled(session, session')
<1> DEFINE a == NoLock(session)
           b == [a EXCEPT !.focus = IF HasFocusRole(session) THEN None ELSE a.focus]
<1>1. session' = Damaged(b)
  BY DEF ClientGone
<1>2. /\ a = [f \in LockFields |-> a[f]] /\ a.phase = "none" /\ a.shown = <<>>
      /\ \A f \in {"power", "due", "seq", "flight", "screen", "locked"} : a[f] = session[f]
  BY DEF NoLock, Sound, Between, Shape, LockFields
<1> HIDE DEF a
<1>3. /\ b = [f \in LockFields |-> b[f]] /\ b.phase = "none" /\ b.shown = <<>>
      /\ \A f \in {"power", "due", "seq", "flight", "screen", "locked"} : b[f] = session[f]
  BY <1>2 DEF LockFields
<1> HIDE DEF b
<1>4. DOMAIN <<>> = {}
  OBVIOUS
<1>5. Sound(b) /\ (Exposed(b) <=> Exposed(session)) /\ b.locked = session.locked
  <2>1. session.locked \in BOOLEAN /\ session.due \in [Outputs -> BOOLEAN]
    BY DEF Sound, Between, Shape
  <2> QED BY <1>3, <1>4, <2>1, EndKeeps
<1>6. Alike(b, session')
  BY <1>1, <1>5, FullFrameAlike DEF Damaged, Sound, Between
<1>7. Sound(session') /\ Handled(b, session')
  BY <1>5, <1>6, AlikeStep
<1>8. session'.locked = b.locked /\ session'.phase = "none"
  BY <1>3, <1>6, AlikeFacts
<1> QED BY <1>5, <1>7, <1>8 DEF Handled

\* An unlock opens the session, and only of one that was told locked.
LEMMA UnlockStep ==
  ASSUME Sound(session), Unlock
  PROVE  Sound(session') /\ ~session'.locked /\ session'.phase = "none" /\ session.phase = "locked"
<1> DEFINE a == NoLock(session)
<1>1. PICK k \in {None, Desktop} : session' = Damaged([a EXCEPT !.locked = FALSE, !.focus = k])
  BY DEF Unlock
<1> DEFINE b == [a EXCEPT !.locked = FALSE, !.focus = k]
<1>2. /\ a = [f \in LockFields |-> a[f]] /\ a.phase = "none" /\ a.shown = <<>>
      /\ \A f \in {"power", "due", "seq", "flight", "screen"} : a[f] = session[f]
  BY DEF NoLock, Sound, Between, Shape, LockFields
<1> HIDE DEF a
<1>3. /\ b = [f \in LockFields |-> b[f]] /\ b.phase = "none" /\ b.shown = <<>> /\ b.locked = FALSE
      /\ \A f \in {"power", "due", "seq", "flight", "screen"} : b[f] = session[f]
  BY <1>2 DEF LockFields
<1>4. session' = Damaged(b)
  BY <1>1
<1> HIDE DEF b
<1>5. DOMAIN <<>> = {}
  OBVIOUS
<1>6. Sound(b)
  <2>1. session.due \in [Outputs -> BOOLEAN]
    BY DEF Sound, Between, Shape
  <2> QED BY <1>3, <1>5, <2>1, EndKeeps
<1>7. Alike(b, session')
  BY <1>4, <1>6, FullFrameAlike DEF Damaged, Sound, Between
<1>8. Sound(session')
  BY <1>6, <1>7, AlikeStep
<1>9. session'.locked = b.locked /\ session'.phase = "none"
  BY <1>3, <1>7, AlikeFacts
<1>10. session.phase = "locked"
  BY DEF Unlock
<1> QED BY <1>3, <1>8, <1>9, <1>10

\* The keyboard moves between windows.
LEMMA FocusDesktopStep ==
  ASSUME Sound(session), FocusDesktop
  PROVE  Sound(session') /\ Handled(session, session')
<1>1. PICK k \in {None, Desktop} : session' = [session EXCEPT !.focus = k]
  BY DEF FocusDesktop
<1>2. Alike(session, session')
  BY <1>1, KeyboardAlike DEF Sound, Between
<1> QED BY <1>2, AlikeStep

-----------------------------------------------------------------------------
(* The outputs' steps.                                                     *)

\* A frame of the scene is committed and seen by the lock.
LEMMA FrameStep ==
  ASSUME Sound(session), NEW o \in Outputs, Frame(o)
  PROVE  Sound(session') /\ Handled(session, session')
<1> DEFINE t == Commit(session, o)
<1>1. o \in Active(session) /\ Room(session, o) /\ session' = HandleOutputCommit(t, o)
  BY DEF Frame
<1>2. /\ Between(t, {})
      /\ session.phase = "presenting" => LatestSecure(t, o)
      /\ session.locked => (Exposed(t) => Exposed(session))
      /\ \A f \in LockFields \ {"seq", "flight", "due"} : t[f] = session[f]
  BY <1>1, CommitKeeps DEF Sound
<1> HIDE DEF t
<1>3. t.phase = session.phase /\ t.locked = session.locked /\ t.power = session.power /\ t.mapped = session.mapped
  BY <1>2 DEF LockFields
<1>4. Waits(t) /\ o \in Active(t)
  BY <1>1, <1>3 DEF Sound, Waits, SurfacesReady, Active
<1>5. Sound(session') /\ Answer(t, session') /\ session'.locked = t.locked
  BY <1>1, <1>2, <1>3, <1>4, CommitSeenKeeps
<1>6. session.locked \in BOOLEAN
  BY DEF Sound, Between, Shape
<1> QED BY <1>2, <1>3, <1>5, <1>6, AnswerHandles

\* A commit is reported.
LEMMA PresentStep ==
  ASSUME Sound(session), NEW o \in Outputs, NEW presented \in BOOLEAN, Present(o, presented)
  PROVE  Sound(session') /\ Handled(session, session')
<1> DEFINE n == Head(session.flight[o]).seq
           u == Reported(session, o, presented)
<1>1. /\ session.flight[o] # <<>>
      /\ presented => Head(session.flight[o]).frame # "dropped"
      /\ session' = HandleOutputPresent(u, o, n, presented)
  BY DEF Present, Reported
<1>2. /\ Sound(u) /\ (Exposed(u) => Exposed(session))
      /\ \A f \in LockFields \ {"flight", "screen"} : u[f] = session[f]
      /\ Concerns(u, o, n) => (presented => u.screen[o] = "secure") /\ SecureFrom(u, o, 1)
  BY <1>1, ReportKeeps
<1> HIDE DEF u, n
<1>3. Sound(session') /\ Answer(u, session')
  BY <1>1, <1>2, PresentKeeps
<1>4. u.locked = session.locked /\ u.phase = session.phase
  BY <1>2 DEF LockFields
<1>5. session.locked \in BOOLEAN
  BY DEF Sound, Between, Shape
<1> QED BY <1>2, <1>3, <1>4, <1>5, AnswerHandles

\* A mode change commits a frame that is not of the scene.
LEMMA ModeStep ==
  ASSUME Sound(session), NEW o \in Outputs, ChangeMode(o)
  PROVE  Sound(session') /\ Handled(session, session')
<1> DEFINE u == Submit(session, o, "dark")
           t == HandleOutputStateChanged(u, o)
<1>1. o \in Active(session) /\ Room(session, o) /\ session' = ScheduleFullFrame(t, {o})
  BY DEF ChangeMode
<1>2. /\ Between(u, {o}) /\ (Exposed(u) => Exposed(session))
      /\ \A f \in LockFields \ {"seq", "flight"} : u[f] = session[f]
  BY <1>1, SubmitKeeps DEF Sound
<1> HIDE DEF u
<1>3. Sound(t) /\ Answer(u, t)
  BY <1>2, StateChangedKeeps
<1> HIDE DEF t
<1>4. Alike(t, session')
  BY <1>1, <1>3, FullFrameAlike DEF Sound, Between
<1>5. Sound(session') /\ Answer(u, session')
  BY <1>3, <1>4, AnswerAlike
<1>6. u.locked = session.locked /\ u.phase = session.phase
  BY <1>2 DEF LockFields
<1>7. session.locked \in BOOLEAN
  BY DEF Sound, Between, Shape
<1> QED BY <1>2, <1>5, <1>6, <1>7, AnswerHandles

\* The records hold for all outputs, and so for all but some.
LEMMA BetweenWeakens ==
  ASSUME NEW s, NEW X, Between(s, {})
  PROVE  Between(s, X)
BY DEF Between, RecordsBut

\* An output is switched off.
LEMMA PowerOffStep ==
  ASSUME Sound(session), NEW o \in Outputs, PowerOff(o)
  PROVE  Sound(session') /\ Handled(session, session')
<1> DEFINE q == session.flight[o]
           p == [i \in DOMAIN q |-> [q[i] EXCEPT !.frame = "dropped"]]
           d == [session EXCEPT !.flight[o] = p]
           u == [d EXCEPT !.power[o] = "off", !.screen[o] = "dark", !.due[o] = FALSE]
<1>1. Shape(session)
  BY DEF Sound, Between
<1>2. q \in Seq(Frames)
  BY <1>1 DEF Shape
<1>3. session' = HandleOutputStateChanged(u, o)
  BY DEF PowerOff, Dropped
<1>4. /\ p \in Seq(Frames) /\ Len(p) = Len(q)
      /\ \A i \in 1 .. Len(p) : p[i].seq = q[i].seq /\ p[i].frame = "dropped"
  <2>1. DOMAIN q = 1 .. Len(q) /\ Len(q) \in Nat /\ \A i \in 1 .. Len(q) : q[i] \in Frames
    BY <1>2
  <2> HIDE DEF q
  <2>2. \A i \in 1 .. Len(q) : p[i] = [q[i] EXCEPT !.frame = "dropped"]
    BY <2>1
  <2>3. \A f \in Frames : /\ [f EXCEPT !.frame = "dropped"] \in Frames
                          /\ [f EXCEPT !.frame = "dropped"].seq = f.seq
                          /\ [f EXCEPT !.frame = "dropped"].frame = "dropped"
    BY DEF Frames
  <2>4. p \in [1 .. Len(q) -> Frames]
    BY <2>1, <2>3
  <2>5. p \in Seq(Frames) /\ Len(p) = Len(q)
    BY <2>1, <2>4
  <2> HIDE DEF p
  <2>6. ASSUME NEW i \in 1 .. Len(q)
        PROVE  p[i].seq = q[i].seq /\ p[i].frame = "dropped"
    <3> DEFINE e == q[i]
    <3>1. e \in Frames /\ p[i] = [e EXCEPT !.frame = "dropped"]
      BY <2>1, <2>2
    <3> HIDE DEF e
    <3>2. p[i].seq = e.seq /\ p[i].frame = "dropped"
      BY <2>3, <3>1
    <3> QED BY <3>2 DEF e
  <2> QED BY <2>5, <2>6
<1> HIDE DEF p, q
<1>5. Darkens(session, u, o, "off", p)
  <2>1. /\ d = [f \in LockFields |-> d[f]] /\ d.flight = [session.flight EXCEPT ![o] = p]
        /\ \A f \in LockFields \ {"flight"} : d[f] = session[f]
    BY <1>1 DEF Shape, LockFields
  <2> HIDE DEF d
  <2>2. /\ u = [f \in LockFields |-> u[f]]
        /\ u.power = [d.power EXCEPT ![o] = "off"] /\ u.screen = [d.screen EXCEPT ![o] = "dark"]
        /\ u.due = [d.due EXCEPT ![o] = FALSE]
        /\ \A f \in LockFields \ {"power", "screen", "due"} : u[f] = d[f]
    BY <2>1 DEF LockFields
  <2> HIDE DEF u
  <2>3. /\ u.flight = [session.flight EXCEPT ![o] = p] /\ u.power = [session.power EXCEPT ![o] = "off"]
        /\ u.screen = [session.screen EXCEPT ![o] = "dark"] /\ u.due = [session.due EXCEPT ![o] = FALSE]
        /\ \A f \in LockFields \ {"power", "flight", "screen", "due"} : u[f] = session[f]
    BY <2>1, <2>2 DEF LockFields
  <2> QED BY <1>4, <2>2, <2>3 DEF Darkens, q
<1> HIDE DEF u
<1>6. Between(u, {}) /\ (Exposed(u) => Exposed(session)) /\ u.locked = session.locked /\ u.phase = session.phase
  <2>1. u.locked = session.locked /\ u.phase = session.phase
    BY <1>5 DEF Darkens, LockFields
  <2> QED BY <1>4, <1>5, <2>1, DarkKeeps
<1>7. Sound(session') /\ Answer(u, session')
  BY <1>3, <1>6, BetweenWeakens, StateChangedKeeps
<1>8. session.locked \in BOOLEAN
  BY <1>1 DEF Shape
<1> QED BY <1>6, <1>7, <1>8, AnswerHandles

\* An output comes on: it shows nothing yet, and no record speaks of it.
LEMMA LightKeeps ==
  ASSUME NEW s, Sound(s), NEW o \in Outputs, s.power[o] # "on"
  PROVE  LET u == [s EXCEPT !.power[o] = "on"]
         IN /\ Between(u, {}) /\ Waits(u) /\ o \in Active(u)
            /\ \A f \in LockFields \ {"power"} : u[f] = s[f]
<1> DEFINE h == [s.power EXCEPT ![o] = "on"]
           u == [s EXCEPT !.power = h]
<1>1. Shape(s) /\ s = [f \in LockFields |-> s[f]]
  BY DEF Sound, Between, Shape
<1>2. [s EXCEPT !.power[o] = "on"] = u
  BY <1>1
<1> HIDE DEF h
<1>3. /\ u = [f \in LockFields |-> u[f]] /\ u.power = h
      /\ \A f \in LockFields \ {"power"} : u[f] = s[f]
  BY <1>1 DEF LockFields
<1> HIDE DEF u
<1>4. /\ u.seq = s.seq /\ u.flight = s.flight /\ u.screen = s.screen /\ u.due = s.due
      /\ u.locked = s.locked /\ u.phase = s.phase /\ u.shown = s.shown /\ u.mapped = s.mapped
  BY <1>3 DEF LockFields
<1>5. h \in [Outputs -> {"gone", "off", "on"}] /\ \A x \in Outputs : h[x] = IF x = o THEN "on" ELSE s.power[x]
  BY <1>1 DEF Shape, h
<1>6. Active(u) = Active(s) \cup {o}
  BY <1>3, <1>5 DEF Active
<1>7. Shape(u)
  BY <1>1, <1>3, <1>4, <1>5 DEF Shape
<1>8. Numbered(u)
  BY <1>4 DEF Sound, Between, Numbered
<1>9. Dark(u)
  <2> SUFFICES ASSUME NEW x \in Outputs, u.power[x] # "on"
               PROVE  /\ u.screen[x] = "dark" /\ (u.power[x] = "gone" => u.flight[x] = <<>>)
                      /\ \A i \in 1 .. Len(u.flight[x]) : u.flight[x][i].frame = "dropped"
    BY DEF Dark
  <2>1. u.power[x] = s.power[x]
    BY <1>3, <1>5
  <2> QED BY <1>4, <2>1 DEF Sound, Between, Dark
<1>10. ASSUME NEW x
       PROVE  Record(u, x) <=> Record(s, x)
  BY <1>4 DEF Record, SecureFrom
<1>11. RecordsBut(u, {})
  <2> SUFFICES ASSUME s.phase = "presenting", NEW x \in DOMAIN s.shown
               PROVE  s.shown[x] \in Records /\ Record(s, x)
    BY <1>4, <1>10 DEF RecordsBut
  <2>1. x \in Active(s)
    BY DEF Sound, Synced
  <2> QED BY <2>1 DEF Sound, Between, RecordsBut
<1>12. Waits(u)
  BY <1>4, <1>6 DEF Sound, Waits, SurfacesReady
<1>13. /\ HasFocusRole(u) => u.locked
       /\ ~HasFocusRole(u) => DOMAIN u.shown = {}
       /\ u.phase = "locked" => Covered(u)
  BY <1>4 DEF Sound, Between, HasFocusRole, Covered
<1>14. Between(u, {})
  BY <1>7, <1>8, <1>9, <1>11, <1>13 DEF Between
<1> QED BY <1>2, <1>3, <1>6, <1>12, <1>14

\* The first frame of an output that comes on.
LEMMA LightCommits ==
  ASSUME NEW s, Sound(s), NEW o \in Outputs, s.power[o] # "on", Room(s, o)
  PROVE  LET t == Commit([s EXCEPT !.power[o] = "on"], o)
         IN /\ Between(t, {}) /\ Waits(t) /\ o \in Active(t)
            /\ t.phase = "presenting" => LatestSecure(t, o)
            /\ t.locked = s.locked /\ t.phase = s.phase
            /\ s.locked => (Exposed(t) => Exposed(s))
<1> DEFINE u == [s EXCEPT !.power[o] = "on"]
           t == Commit(u, o)
<1>1. /\ Between(u, {}) /\ Waits(u) /\ o \in Active(u)
      /\ \A f \in LockFields \ {"power"} : u[f] = s[f]
  BY LightKeeps
<1> HIDE DEF u
<1>2. u.flight = s.flight /\ u.screen = s.screen /\ u.locked = s.locked /\ u.phase = s.phase
  BY <1>1 DEF LockFields
<1>3. Room(u, o)
  BY <1>2 DEF Room
<1>4. /\ Between(t, {})
      /\ u.phase = "presenting" => LatestSecure(t, o)
      /\ u.locked => (Exposed(t) => Exposed(u))
      /\ \A f \in LockFields \ {"seq", "flight", "due"} : t[f] = u[f]
  BY <1>1, <1>3, CommitKeeps
<1> HIDE DEF t
<1>5. t.power = u.power /\ t.mapped = u.mapped /\ t.phase = u.phase /\ t.locked = u.locked
  BY <1>4 DEF LockFields
<1>6. Waits(t) /\ o \in Active(t)
  BY <1>1, <1>5 DEF Waits, SurfacesReady, Active
<1>7. Exposed(u) <=> Exposed(s)
  BY <1>2 DEF Exposed
<1> QED BY <1>2, <1>4, <1>5, <1>6, <1>7 DEF t, u

\* A sleeping output wakes up with a frame of what the session shows.
LEMMA PowerOnStep ==
  ASSUME Sound(session), NEW o \in Outputs, PowerOn(o)
  PROVE  Sound(session') /\ Handled(session, session')
<1> DEFINE a == Commit([session EXCEPT !.power[o] = "on"], o)
           b == HandleOutputCommit(a, o)
           c == ScheduleFullFrame(b, {o})
<1>1. session.power[o] = "off" /\ Room(session, o) /\ session' = HandleOutputStateChanged(c, o)
  BY DEF PowerOn
<1>2. /\ Between(a, {}) /\ Waits(a) /\ o \in Active(a)
      /\ a.phase = "presenting" => LatestSecure(a, o)
      /\ a.locked = session.locked /\ a.phase = session.phase
      /\ session.locked => (Exposed(a) => Exposed(session))
  BY <1>1, LightCommits
<1> HIDE DEF a
<1>3. Sound(b) /\ Answer(a, b) /\ b.phase = a.phase /\ b.locked = a.locked
  BY <1>2, CommitSeenKeeps
<1> HIDE DEF b
<1>4. Alike(b, c)
  BY <1>3, FullFrameAlike DEF Sound, Between
<1> HIDE DEF c
<1>5. Sound(c) /\ Answer(a, c) /\ c.phase = a.phase /\ c.locked = a.locked
  BY <1>3, <1>4, AnswerAlike, AlikeFacts
<1>6. Sound(session') /\ Answer(c, session') /\ ((c.phase = "waiting" /\ ~SurfacesReady(c)) => session' = c)
  BY <1>1, <1>5, BetweenWeakens, StateChangedKeeps DEF Sound
<1>7. Exposed(c) <=> Exposed(a)
  BY <1>5 DEF Answer, Exposed
<1>8. ~session.locked => ~session'.locked
  <2> SUFFICES ASSUME ~session.locked PROVE ~session'.locked
    OBVIOUS
  <2>1. c.phase \notin {"presenting", "locked"} /\ ~c.locked
    BY <1>2, <1>5 DEF Sound, Between, HasFocusRole
  <2>2. c.phase = "waiting" => session' = c
    BY <1>5, <1>6 DEF Sound, Waits
  <2> QED BY <1>6, <2>1, <2>2 DEF Answer
<1>9. session.locked \in BOOLEAN
  BY DEF Sound, Between, Shape
<1> QED BY <1>2, <1>5, <1>6, <1>7, <1>8, <1>9, AnswerHandles

\* A new output commits a frame of what the session shows, and is listed then.
LEMMA AddOutputStep ==
  ASSUME Sound(session), NEW o \in Outputs, AddOutput(o)
  PROVE  Sound(session') /\ Handled(session, session')
<1> DEFINE a == Commit([session EXCEPT !.power[o] = "on"], o)
           c == ScheduleFullFrame(a, {o})
<1>1. session.power[o] = "gone" /\ session' = OutputsChanged(c)
  BY DEF AddOutput
<1>2. Room(session, o)
  <2>1. session.flight[o] = <<>>
    BY <1>1 DEF Sound, Between, Dark
  <2>2. Len(<<>>) = 0
    OBVIOUS
  <2> QED BY <2>1, <2>2, LockAssumption DEF Room
<1>3. /\ Between(a, {}) /\ Waits(a)
      /\ a.locked = session.locked /\ a.phase = session.phase
      /\ session.locked => (Exposed(a) => Exposed(session))
  BY <1>1, <1>2, LightCommits
<1> HIDE DEF a
<1>4. Alike(a, c)
  BY <1>3, FullFrameAlike DEF Between
<1> HIDE DEF c
<1>5. Between(c, {}) /\ Waits(c)
  BY <1>3, <1>4, AlikeKeeps
<1>6. c.phase = a.phase /\ c.locked = a.locked /\ (Exposed(c) <=> Exposed(a))
  BY <1>4, AlikeFacts DEF Exposed
<1>7. Sound(session') /\ Answer(c, session') /\ ((c.phase = "waiting" /\ ~SurfacesReady(c)) => session' = c)
  BY <1>1, <1>5, OutputsChangedKeeps
<1>8. ~session.locked => ~session'.locked
  <2> SUFFICES ASSUME ~session.locked PROVE ~session'.locked
    OBVIOUS
  <2>1. c.phase \notin {"presenting", "locked"} /\ ~c.locked
    BY <1>3, <1>5, <1>6 DEF Between, HasFocusRole
  <2>2. c.phase = "waiting" => session' = c
    BY <1>5, <1>7 DEF Waits
  <2> QED BY <1>7, <2>1, <2>2 DEF Answer
<1>9. session.locked \in BOOLEAN
  BY DEF Sound, Between, Shape
<1> QED BY <1>3, <1>6, <1>7, <1>8, <1>9, AnswerHandles

\* An output leaves, with its lock surface and what it committed.
LEMMA RemoveOutputStep ==
  ASSUME Sound(session), NEW o \in Outputs, RemoveOutput(o)
  PROVE  Sound(session') /\ Handled(session, session')
<1> DEFINE u == [session EXCEPT !.power[o] = "gone", !.screen[o] = "dark",
                                !.due[o] = FALSE, !.flight[o] = <<>>]
           t == DropSurface(u, o)
<1>1. session' = OutputsChanged(t)
  BY DEF RemoveOutput
<1>2. Shape(session)
  BY DEF Sound, Between
<1>3. Darkens(session, u, o, "gone", <<>>)
  <2>1. session = [f \in LockFields |-> session[f]]
    BY <1>2 DEF Shape
  <2>2. /\ u = [f \in LockFields |-> u[f]]
        /\ u.power = [session.power EXCEPT ![o] = "gone"] /\ u.screen = [session.screen EXCEPT ![o] = "dark"]
        /\ u.due = [session.due EXCEPT ![o] = FALSE] /\ u.flight = [session.flight EXCEPT ![o] = <<>>]
        /\ \A f \in LockFields \ {"power", "flight", "screen", "due"} : u[f] = session[f]
    BY <2>1 DEF LockFields
  <2> HIDE DEF u
  <2> QED BY <2>2 DEF Darkens
<1> HIDE DEF u
<1>4. Between(u, {}) /\ (Exposed(u) => Exposed(session)) /\ u.locked = session.locked /\ u.phase = session.phase
  <2>1. u.locked = session.locked /\ u.phase = session.phase
    BY <1>3 DEF Darkens, LockFields
  <2>2. <<>> \in Seq(Frames)
    OBVIOUS
  <2> QED BY <1>3, <2>1, <2>2, DarkKeeps
<1>5. Near(u, t)
  BY <1>4, DropNear DEF Between
<1> HIDE DEF t
<1>6. Between(t, {}) /\ t.locked = u.locked /\ t.phase = u.phase /\ t.screen = u.screen /\ t.flight = u.flight
  BY <1>4, <1>5, NearKeeps DEF Near, Shown
<1>7. Sound(session') /\ Answer(t, session')
  BY <1>1, <1>6, OutputsChangedKeeps
<1>8. Exposed(t) <=> Exposed(u)
  BY <1>6 DEF Exposed
<1>9. session.locked \in BOOLEAN
  BY <1>2 DEF Shape
<1> QED BY <1>4, <1>6, <1>7, <1>8, <1>9, AnswerHandles

-----------------------------------------------------------------------------
(* The theorems.                                                           *)

\* Before anything happens there is no lock, and an output that is on shows the desktop.
LEMMA InitSound ==
  ASSUME Init
  PROVE  Sound(session) /\ ~session.locked /\ session.phase = "none"
<1>1. PICK on \in SUBSET Outputs :
       session = [power    |-> [o \in Outputs |-> IF o \in on THEN "on" ELSE "gone"],
                  due      |-> [o \in Outputs |-> FALSE],
                  seq      |-> [o \in Outputs |-> 0],
                  flight   |-> [o \in Outputs |-> <<>>],
                  screen   |-> [o \in Outputs |-> IF o \in on THEN "desktop" ELSE "dark"],
                  locked   |-> FALSE, phase |-> "none",
                  surfaces |-> <<>>, mapped |-> {}, shown |-> <<>>,
                  focus    |-> Desktop]
  BY DEF Init
<1> DEFINE e == <<>>
<1>2. e \in Seq(Frames) /\ Len(e) = 0 /\ DOMAIN e = {} /\ 1 .. 0 = {}
  OBVIOUS
<1>3. 0 \in 0 .. (SeqBound - 1) /\ 0 <= MaxFlight
  BY LockAssumption
<1>4. /\ session.power = [o \in Outputs |-> IF o \in on THEN "on" ELSE "gone"]
      /\ session.due = [o \in Outputs |-> FALSE] /\ session.seq = [o \in Outputs |-> 0]
      /\ session.flight = [o \in Outputs |-> e]
      /\ session.screen = [o \in Outputs |-> IF o \in on THEN "desktop" ELSE "dark"]
      /\ session.locked = FALSE /\ session.phase = "none" /\ session.shown = e
  BY <1>1
<1>5. session = [f \in LockFields |-> session[f]]
  BY <1>1 DEF LockFields
<1> HIDE DEF e
<1>6. Shape(session)
  <2>1. session.flight \in [Outputs -> Seq(Frames)]
    BY <1>2, <1>4
  <2>2. session.power \in [Outputs -> {"gone", "off", "on"}]
        /\ session.screen \in [Outputs -> {"dark", "desktop", "secure"}]
    BY <1>4
  <2>3. session.due \in [Outputs -> BOOLEAN] /\ session.seq \in [Outputs -> 0 .. (SeqBound - 1)]
    BY <1>3, <1>4
  <2> QED BY <1>4, <1>5, <2>1, <2>2, <2>3 DEF Shape
<1>7. \A o \in Outputs : session.flight[o] = e
  BY <1>4
<1>8. Numbered(session)
  BY <1>2, <1>3, <1>7 DEF Numbered
<1>9. Dark(session)
  BY <1>2, <1>4, <1>7 DEF Dark, e
<1> QED BY <1>2, <1>4, <1>6, <1>8, <1>9
        DEF Sound, Between, Synced, Waits, RecordsBut, HasFocusRole

\* One step of the program: an unlock, or one that keeps every promise.
LEMMA StepKeeps ==
  ASSUME Sound(session), [Next]_vars
  PROVE  /\ Sound(session')
         /\ \/ Handled(session, session')
            \/ Unlock /\ session.phase = "locked" /\ ~session'.locked /\ session'.phase = "none"
<1>1. CASE BeginSessionLock
  BY <1>1, BeginStep
<1>2. ASSUME NEW o \in Outputs, MapSurface(o)
      PROVE  Sound(session') /\ Handled(session, session')
  BY <1>2, MapStep
<1>3. ASSUME NEW o \in Outputs, NewSurface(o) \/ UnmapSurface(o) \/ DestroySurface(o)
      PROVE  Sound(session') /\ Handled(session, session')
  BY <1>3, SurfaceStep
<1>4. CASE SurfaceDeadline
  BY <1>4, DeadlineStep
<1>5. CASE Unlock
  BY <1>5, UnlockStep
<1>6. CASE ClientGone
  BY <1>6, ClientGoneStep
<1>7. CASE FocusDesktop
  BY <1>7, FocusDesktopStep
<1>8. ASSUME NEW o \in Outputs, Damage(o)
      PROVE  Sound(session') /\ Handled(session, session')
  <2>1. session' = ScheduleFullFrame(session, {o})
    BY <1>8 DEF Damage
  <2>2. Alike(session, session')
    BY <2>1, FullFrameAlike DEF Sound, Between
  <2> QED BY <2>2, AlikeStep
<1>9. ASSUME UNCHANGED session
      PROVE  Sound(session') /\ Handled(session, session')
  BY <1>9 DEF Handled
<1>10. ASSUME NEW o \in Outputs, Frame(o)
       PROVE  Sound(session') /\ Handled(session, session')
  BY <1>10, FrameStep
<1>11. ASSUME NEW o \in Outputs, NEW presented \in BOOLEAN, Present(o, presented)
       PROVE  Sound(session') /\ Handled(session, session')
  BY <1>11, PresentStep
<1>12. ASSUME NEW o \in Outputs, ChangeMode(o)
       PROVE  Sound(session') /\ Handled(session, session')
  BY <1>12, ModeStep
<1>13. ASSUME NEW o \in Outputs, PowerOff(o)
       PROVE  Sound(session') /\ Handled(session, session')
  BY <1>13, PowerOffStep
<1>14. ASSUME NEW o \in Outputs, PowerOn(o)
       PROVE  Sound(session') /\ Handled(session, session')
  BY <1>14, PowerOnStep
<1>15. ASSUME NEW o \in Outputs, AddOutput(o)
       PROVE  Sound(session') /\ Handled(session, session')
  BY <1>15, AddOutputStep
<1>16. ASSUME NEW o \in Outputs, RemoveOutput(o)
       PROVE  Sound(session') /\ Handled(session, session')
  BY <1>16, RemoveOutputStep
<1>17. ASSUME NEW o \in Outputs, FrameFails(o)
       PROVE  UNCHANGED session
  BY <1>17 DEF FrameFails
<1>18. CASE ClientNext
  BY <1>1, <1>2, <1>3, <1>4, <1>5, <1>6, <1>7, <1>18 DEF ClientNext
<1>19. CASE OutputNext
  BY <1>8, <1>9, <1>10, <1>11, <1>12, <1>13, <1>14, <1>15, <1>16, <1>17, <1>19 DEF OutputNext
<1>20. CASE UNCHANGED vars
  BY <1>9, <1>20 DEF vars
<1> QED BY <1>18, <1>19, <1>20 DEF Next

\* The inductive invariant: frames in flight are numbered without repetition, a dark
\* output's commits are never shown, and what the lock remembers of an output's
\* presentations is true of its screen and of what is on its way to it.
THEOREM Invariance == Spec => []Sound(session)
<1>1. Init => Sound(session)
  BY InitSound
<1>2. Sound(session) /\ [Next]_vars => Sound(session)'
  BY StepKeeps
<1> QED BY <1>1, <1>2, PTL DEF Spec

\* Of every number of outputs, of commits in flight and of failures: a session that
\* was reported as locked shows the desktop nowhere, nor is it about to.
THEOREM SecureWhileLocked == Spec => []LockedMeansSecure
<1>1. Sound(session) => LockedMeansSecure
  BY DEF Sound, Between, LockedMeansSecure
<1> QED BY <1>1, Invariance, PTL

\* The confirmation comes after every active output presented the lock scene,
\* however its commits, failed presentations and mode changes were ordered.
THEOREM ConfirmationIsEarned == Spec => ConfirmedAfterPresented
<1>1. Sound(session) /\ [Next]_vars
      => [(session'.phase = "locked" /\ session.phase # "locked") =>
            \A o \in Active(session') : session'.screen[o] = "secure"]_vars
  BY StepKeeps DEF Handled
<1> QED BY <1>1, Invariance, PTL DEF Spec, ConfirmedAfterPresented

\* Once the desktop is covered, only an unlock brings it back.
THEOREM BlankStays == Spec => BlankOutlivesClient
<1>1. Covered(session) <=> session.locked /\ ~Exposed(session)
  BY DEF Covered, Exposed
<1>2. Covered(session') <=> session'.locked /\ ~Exposed(session')
  BY DEF Covered, Exposed
<1>3. Sound(session) /\ [Next]_vars => [Covered(session) => Covered(session') \/ Unlock]_vars
  BY <1>1, <1>2, StepKeeps DEF Handled
<1> QED BY <1>3, Invariance, PTL DEF Spec, BlankOutlivesClient

\* The abstract state of a sound session.
LEMMA AbstractFacts ==
  ASSUME NEW s, Sound(s)
  PROVE  /\ s.locked \in BOOLEAN /\ s.phase \in {"none", "waiting", "presenting", "locked"}
         /\ HasFocusRole(s) => s.locked
         /\ s.phase = "locked" => ~Exposed(s)
BY DEF Sound, Between, Shape, Covered, Exposed

\* The detailed lock implements the promise of docs/user/security.md.
THEOREM PromiseIsKept == Spec => KeepsPromise
<1>1. Init => Promise!LockInit
  BY InitSound DEF Promise!LockInit, AbstractLock, Exposed
<1>2. ASSUME Sound(session), [Next]_vars
      PROVE  [Promise!LockNext]_<<AbstractLock, Exposed(session)>>
  <2>1. /\ session.locked \in BOOLEAN /\ session.phase \in {"none", "waiting", "presenting", "locked"}
        /\ HasFocusRole(session) => session.locked
        /\ session.phase = "locked" => ~Exposed(session)
    BY <1>2, AbstractFacts
  <2>2. /\ session'.locked \in BOOLEAN /\ session'.phase \in {"none", "waiting", "presenting", "locked"}
        /\ HasFocusRole(session') => session'.locked
        /\ session'.phase = "locked" => ~Exposed(session')
    BY <1>2, StepKeeps, AbstractFacts
  <2>3. /\ AbstractLock = "open" <=> ~session.locked
        /\ AbstractLock = "covering" <=> session.phase = "presenting"
        /\ AbstractLock = "locked" <=> session.phase = "locked"
        /\ AbstractLock \in {"open", "covering", "locked", "blank"}
    BY <2>1 DEF AbstractLock, HasFocusRole
  <2>4. /\ AbstractLock' = "open" <=> ~session'.locked
        /\ AbstractLock' = "covering" <=> session'.phase = "presenting"
        /\ AbstractLock' = "locked" <=> session'.phase = "locked"
        /\ AbstractLock' \in {"open", "covering", "locked", "blank"}
    BY <2>2 DEF AbstractLock, HasFocusRole
  <2>5. Exposed(session)' = Exposed(session') /\ Exposed(session) \in BOOLEAN /\ Exposed(session') \in BOOLEAN
    BY DEF Exposed
  <2> HIDE DEF AbstractLock
  <2>6. CASE Handled(session, session')
    <3>1. /\ session.locked => session'.locked
          /\ session'.locked => (Exposed(session') => Exposed(session))
          /\ (session'.locked /\ ~session.locked) => session'.phase \in {"presenting", "locked"}
          /\ session.phase = "locked" => session'.phase # "presenting"
      BY <2>6 DEF Handled, HasFocusRole
    <3>2. CASE AbstractLock' = AbstractLock
      <4>1. Promise!Screens
        BY <2>3, <2>4, <2>5, <3>1, <3>2 DEF Promise!Screens
      <4> QED BY <4>1 DEF Promise!LockNext
    <3>3. CASE AbstractLock' = "covering" /\ AbstractLock # "covering"
      <4>1. Promise!Cover
        BY <2>2, <2>3, <2>4, <2>5, <3>1, <3>3 DEF Promise!Cover, HasFocusRole
      <4> QED BY <4>1 DEF Promise!LockNext
    <3>4. CASE AbstractLock' = "locked" /\ AbstractLock # "locked"
      <4>1. Promise!Confirm
        BY <2>2, <2>3, <2>4, <2>5, <3>1, <3>4 DEF Promise!Confirm
      <4> QED BY <4>1 DEF Promise!LockNext
    <3>5. CASE AbstractLock' = "blank" /\ AbstractLock # "blank"
      <4>1. Promise!LoseClient
        BY <2>3, <2>4, <2>5, <3>1, <3>5 DEF Promise!LoseClient
      <4> QED BY <4>1 DEF Promise!LockNext
    <3>6. CASE AbstractLock' = "open" /\ AbstractLock # "open"
      BY <2>3, <2>4, <3>1, <3>6
    <3> QED BY <2>4, <3>2, <3>3, <3>4, <3>5, <3>6
  <2>7. CASE session.phase = "locked" /\ ~session'.locked
    <3>1. Promise!Open
      BY <2>3, <2>4, <2>5, <2>7 DEF Promise!Open
    <3> QED BY <3>1 DEF Promise!LockNext
  <2> QED BY <1>2, <2>6, <2>7, StepKeeps
<1>3. Sound(session) /\ [Next]_vars => [Promise!LockNext]_<<AbstractLock, Exposed(session)>>
  BY <1>2
<1> QED BY <1>1, <1>3, Invariance, PTL DEF Spec, KeepsPromise, Promise!LockSpec

-----------------------------------------------------------------------------
(* The surfaces and the keyboard.                                          *)

\* What is true of the surfaces between the steps of a handler, wherever the
\* keyboard is while the handoff or the lock has it.
Loose(s) ==
  /\ s = [f \in LockFields |-> s[f]]
  /\ s.surfaces \in Seq(Outputs)
  /\ \A x \in s.mapped : \E i \in DOMAIN s.surfaces : s.surfaces[i] = x
  /\ s.focus \in Outputs \cup {None, Desktop}
  /\ DOMAIN s.shown \subseteq Outputs
  /\ (s.locked /\ ~HasFocusRole(s)) => s.focus = None

\* The keyboard is where focusMappedSurface puts it.
Keys(s) ==
  /\ Loose(s)
  /\ s.locked => s.focus \in s.mapped \cup {None}
  /\ (HasFocusRole(s) /\ s.focus = None) => s.mapped \cap Active(s) = {}

\* Where nobody asks for the keyboard it needs no care.
LEMMA NoRoleKeys ==
  ASSUME NEW s, Loose(s), ~HasFocusRole(s)
  PROVE  Keys(s)
BY DEF Loose, Keys

\* std::find_if stops at a surface that may have the keyboard, or there is none.
LEMMA FirstEligible ==
  ASSUME NEW s, s.surfaces \in Seq(Outputs)
  PROVE  /\ Eligible(s) = 0 =>
              \A i \in DOMAIN s.surfaces : s.surfaces[i] \notin s.mapped \cap Active(s)
         /\ Eligible(s) # 0 =>
              /\ Eligible(s) \in DOMAIN s.surfaces
              /\ s.surfaces[Eligible(s)] \in s.mapped \cap Active(s)
<1> DEFINE I == {i \in 1 .. Len(s.surfaces) : s.surfaces[i] \in s.mapped \cap Active(s)}
<1>1. Eligible(s) = IF I # {} THEN Min(I) ELSE 0
  BY DEF Eligible, SelectInSeq
<1>2. I \in SUBSET Nat /\ DOMAIN s.surfaces = 1 .. Len(s.surfaces) /\ 0 \notin I
  OBVIOUS
<1>3. I # {} => Min(I) \in I
  BY <1>2, LeastOfNat
<1> QED BY <1>1, <1>2, <1>3

\* focusMappedSurface puts the keyboard right, from wherever it was.
LEMMA FocusKeys ==
  ASSUME NEW s, Loose(s), HasFocusRole(s)
  PROVE  Keys(FocusMappedSurface(s))
<1> DEFINE t == FocusMappedSurface(s)
<1>1. /\ t = [f \in LockFields |-> t[f]]
      /\ t.focus = IF Eligible(s) = 0 THEN None ELSE s.surfaces[Eligible(s)]
      /\ t.surfaces = s.surfaces /\ t.mapped = s.mapped /\ t.locked = s.locked
      /\ t.phase = s.phase /\ t.shown = s.shown /\ t.power = s.power
  BY DEF Loose, FocusMappedSurface, LockFields
<1> HIDE DEF t
<1>2. Active(t) = Active(s) /\ HasFocusRole(t)
  BY <1>1 DEF Active, HasFocusRole
<1>3. /\ Eligible(s) = 0 => \A i \in DOMAIN s.surfaces : s.surfaces[i] \notin s.mapped \cap Active(s)
      /\ Eligible(s) # 0 => s.surfaces[Eligible(s)] \in s.mapped \cap Active(s)
  BY FirstEligible DEF Loose
<1>4. None \notin Outputs /\ Active(s) \subseteq Outputs
  BY LockAssumption DEF Active
<1>5. t.focus \in (s.mapped \cap Active(s)) \cup {None}
  BY <1>1, <1>3
<1>6. t.focus = None => s.mapped \cap Active(s) = {}
  <2>1. \A x \in s.mapped : \E i \in DOMAIN s.surfaces : s.surfaces[i] = x
    BY DEF Loose
  <2>2. Eligible(s) = 0 => s.mapped \cap Active(s) = {}
    BY <1>3, <2>1
  <2>3. Eligible(s) # 0 => s.surfaces[Eligible(s)] \in Outputs
    BY <1>3, <1>4
  <2> QED BY <1>1, <1>4, <2>2, <2>3
<1>7. Loose(t)
  <2>1. t.focus \in Outputs \cup {None, Desktop}
    BY <1>4, <1>5
  <2>2. /\ s.surfaces \in Seq(Outputs) /\ DOMAIN s.shown \subseteq Outputs
        /\ \A x \in s.mapped : \E i \in DOMAIN s.surfaces : s.surfaces[i] = x
    BY DEF Loose
  <2>3. t.surfaces \in Seq(Outputs) /\ DOMAIN t.shown \subseteq Outputs
    BY <1>1, <2>2
  <2>4. \A x \in t.mapped : \E i \in DOMAIN t.surfaces : t.surfaces[i] = x
    BY <1>1, <2>2
  <2>5. t = [f \in LockFields |-> t[f]] /\ HasFocusRole(t)
    BY <1>1, <1>2
  <2> QED BY <2>1, <2>3, <2>4, <2>5 DEF Loose
<1> QED BY <1>1, <1>2, <1>5, <1>6, <1>7 DEF Keys, t

\* From s to t the surfaces and the keyboard stayed where they are.
Still(s, t) ==
  /\ t = [f \in LockFields |-> t[f]]
  /\ t.surfaces = s.surfaces /\ t.mapped = s.mapped /\ t.focus = s.focus
  /\ t.locked = s.locked /\ t.power = s.power
  /\ HasFocusRole(t) <=> HasFocusRole(s)
  /\ DOMAIN t.shown \subseteq Outputs

\* ... and so does what is true of them.
LEMMA StillKeys ==
  ASSUME NEW s, NEW t, Still(s, t), Loose(s)
  PROVE  Loose(t) /\ (Keys(s) => Keys(t))
BY DEF Still, Loose, Keys, Active

\* One after the other.
LEMMA StillTwice ==
  ASSUME NEW s, NEW t, NEW u, Still(s, t), Still(t, u)
  PROVE  Still(s, u)
BY DEF Still

\* The helpers of the presentations.
LEMMA SyncStill ==
  ASSUME NEW s, Loose(s)
  PROVE  Still(s, SyncOutputPresentations(s))
         /\ SyncOutputPresentations(s).phase = s.phase
         /\ DOMAIN SyncOutputPresentations(s).shown = Active(s)
BY DEF Loose, SyncOutputPresentations, Still, LockFields, HasFocusRole, Active

LEMMA MaybeStill ==
  ASSUME NEW s, Loose(s)
  PROVE  Still(s, MaybeSendLocked(s))
<1> DEFINE t == SyncOutputPresentations(s)
<1>1. Still(s, t) /\ t.phase = s.phase
  BY SyncStill
<1>2. MaybeSendLocked(s) \in {s, t} \/ (s.phase = "presenting" /\ MaybeSendLocked(s) = [t EXCEPT !.phase = "locked"])
  BY DEF MaybeSendLocked
<1> HIDE DEF t
<1>3. s.phase = "presenting" => Still(s, [t EXCEPT !.phase = "locked"])
  BY <1>1 DEF Still, LockFields, HasFocusRole
<1>4. Still(s, s)
  BY DEF Still, Loose
<1> QED BY <1>1, <1>2, <1>3, <1>4

LEMMA FullFrameStill ==
  ASSUME NEW s, Loose(s), NEW X
  PROVE  Still(s, ScheduleFullFrame(s, X)) /\ ScheduleFullFrame(s, X).phase = s.phase
BY DEF Loose, ScheduleFullFrame, Still, LockFields, HasFocusRole

LEMMA CommitSeenStill ==
  ASSUME NEW s, Loose(s), NEW o
  PROVE  Still(s, HandleOutputCommit(s, o)) /\ HandleOutputCommit(s, o).phase = s.phase
<1> DEFINE t == SyncOutputPresentations(s)
<1>1. Still(s, t) /\ t.phase = s.phase
  BY SyncStill
<1>2. \E r : HandleOutputCommit(s, o) \in {s, t, [t EXCEPT !.shown[o] = r]}
  BY DEF HandleOutputCommit
<1> HIDE DEF t
<1>3. ASSUME NEW r
      PROVE  LET u == [t EXCEPT !.shown[o] = r] IN Still(s, u) /\ u.phase = s.phase
  BY <1>1 DEF Still, LockFields, HasFocusRole
<1>4. Still(s, s)
  BY DEF Still, Loose
<1> QED BY <1>1, <1>2, <1>3, <1>4

\* beginPresenting takes the keyboard for the lock.
LEMMA BeginKeys ==
  ASSUME NEW s, Loose(s)
  PROVE  Keys(BeginPresenting(s)) /\ HasFocusRole(BeginPresenting(s))
<1> DEFINE a == [s EXCEPT !.phase = "presenting", !.locked = TRUE]
           b == SyncOutputPresentations(a)
           c == ScheduleFullFrame(b, Active(s))
           d == FocusMappedSurface(c)
<1>1. BeginPresenting(s) = MaybeSendLocked(d)
  BY DEF BeginPresenting
<1>2. Loose(a) /\ HasFocusRole(a)
  BY DEF Loose, LockFields, HasFocusRole
<1> HIDE DEF a
<1>3. Loose(b) /\ HasFocusRole(b)
  BY <1>2, SyncStill, StillKeys DEF Still
<1> HIDE DEF b
<1>4. Loose(c) /\ HasFocusRole(c)
  BY <1>3, FullFrameStill, StillKeys DEF Still
<1> HIDE DEF c
<1>5. Keys(d) /\ HasFocusRole(d)
  BY <1>4, FocusKeys DEF Loose, FocusMappedSurface, LockFields, HasFocusRole
<1> HIDE DEF d
<1>6. Still(d, MaybeSendLocked(d))
  BY <1>5, MaybeStill DEF Keys
<1> QED BY <1>1, <1>5, <1>6, StillKeys DEF Still, Keys

\* An output slept, woke up or changed its mode: whoever may have the keyboard
\* now has it.
LEMMA StateChangedKeys ==
  ASSUME NEW s, Loose(s), NEW o
  PROVE  Keys(HandleOutputStateChanged(s, o))
<1> DEFINE h == HandleOutputStateChanged(s, o)
<1>1. CASE s.phase = "waiting" /\ SurfacesReady(s)
  BY <1>1, BeginKeys DEF HandleOutputStateChanged
<1>2. CASE s.phase = "locked"
  BY <1>2, FocusKeys DEF HandleOutputStateChanged, HasFocusRole
<1>3. CASE s.phase = "presenting"
  <2> DEFINE t == SyncOutputPresentations(s)
             x == [t EXCEPT !.shown[o].hasCommit = FALSE, !.shown[o].presented = FALSE]
             u == IF o \notin DOMAIN t.shown THEN t ELSE ScheduleFullFrame(x, {o})
  <2>1. h = FocusMappedSurface(MaybeSendLocked(u))
    BY <1>3 DEF HandleOutputStateChanged
  <2>2. Still(s, t) /\ Loose(t) /\ HasFocusRole(t)
    BY <1>3, SyncStill, StillKeys DEF Still, HasFocusRole
  <2> HIDE DEF t
  <2>3. Loose(x) /\ HasFocusRole(x)
    <3> DEFINE y == [t EXCEPT !.shown[o].hasCommit = FALSE]
    <3>1. Still(t, y)
      BY <2>2 DEF Still, Loose, LockFields, HasFocusRole
    <3>2. x = [y EXCEPT !.shown[o].presented = FALSE]
      BY <2>2 DEF Loose, LockFields
    <3> HIDE DEF x, y
    <3>3. Still(y, x)
      BY <3>1, <3>2 DEF Still, LockFields, HasFocusRole
    <3> QED BY <2>2, <3>1, <3>3, StillKeys DEF Still
  <2> HIDE DEF x
  <2>4. Loose(ScheduleFullFrame(x, {o})) /\ HasFocusRole(ScheduleFullFrame(x, {o}))
    BY <2>3, FullFrameStill, StillKeys DEF Still
  <2>5. Loose(u) /\ HasFocusRole(u)
    BY <2>2, <2>4
  <2> HIDE DEF u
  <2>6. Loose(MaybeSendLocked(u)) /\ HasFocusRole(MaybeSendLocked(u))
    BY <2>5, MaybeStill, StillKeys DEF Still
  <2> QED BY <2>1, <2>6, FocusKeys
<1>4. CASE ~HasFocusRole(s) /\ ~(s.phase = "waiting" /\ SurfacesReady(s))
  BY <1>4, NoRoleKeys DEF HandleOutputStateChanged, HasFocusRole
<1> QED BY <1>1, <1>2, <1>3, <1>4 DEF HasFocusRole

\* An output came or went.
LEMMA OutputsChangedKeep ==
  ASSUME NEW s, Loose(s)
  PROVE  Keys(OutputsChanged(s))
<1> DEFINE h == OutputsChanged(s)
<1>1. CASE s.phase = "waiting" /\ SurfacesReady(s)
  BY <1>1, BeginKeys DEF OutputsChanged
<1>2. CASE s.phase = "locked"
  BY <1>2, FocusKeys DEF OutputsChanged, HasFocusRole
<1>3. CASE s.phase = "presenting"
  <2> DEFINE t == SyncOutputPresentations(s)
             u == ScheduleFullFrame(t, {o \in DOMAIN t.shown : ~t.shown[o].presented /\ ~t.shown[o].hasCommit})
  <2>1. h = FocusMappedSurface(MaybeSendLocked(u))
    BY <1>3 DEF OutputsChanged
  <2>2. Loose(t) /\ HasFocusRole(t)
    BY <1>3, SyncStill, StillKeys DEF Still, HasFocusRole
  <2> HIDE DEF t
  <2>3. Loose(u) /\ HasFocusRole(u)
    BY <2>2, FullFrameStill, StillKeys DEF Still
  <2> HIDE DEF u
  <2>4. Loose(MaybeSendLocked(u)) /\ HasFocusRole(MaybeSendLocked(u))
    BY <2>3, MaybeStill, StillKeys DEF Still
  <2> QED BY <2>1, <2>4, FocusKeys
<1>4. CASE ~HasFocusRole(s) /\ ~(s.phase = "waiting" /\ SurfacesReady(s))
  BY <1>4, NoRoleKeys DEF OutputsChanged, HasFocusRole
<1> QED BY <1>1, <1>2, <1>3, <1>4 DEF HasFocusRole

\* A presentation confirms or asks for another frame.
LEMMA PresentStill ==
  ASSUME NEW s, Loose(s), NEW o, NEW seq, NEW presented \in BOOLEAN
  PROVE  Still(s, HandleOutputPresent(s, o, seq, presented))
<1> DEFINE a == [s EXCEPT !.shown[o].presented = TRUE]
           b == [s EXCEPT !.shown[o].hasCommit = FALSE]
<1>1. HandleOutputPresent(s, o, seq, presented) \in {s, MaybeSendLocked(a), ScheduleFullFrame(b, {o})}
  BY DEF HandleOutputPresent
<1>2. Still(s, a) /\ Still(s, b) /\ Still(s, s)
  BY DEF Loose, Still, LockFields, HasFocusRole
<1> HIDE DEF a, b
<1>3. Loose(a) /\ Loose(b)
  BY <1>2, StillKeys
<1>4. Still(a, MaybeSendLocked(a)) /\ Still(b, ScheduleFullFrame(b, {o}))
  BY <1>3, MaybeStill, FullFrameStill
<1> QED BY <1>1, <1>2, <1>4, StillTwice

\* Surfaces are listed, taken off the list, mapped and unmapped.
LEMMA Resurfaced ==
  ASSUME NEW s, Loose(s), NEW q \in Seq(Outputs), NEW m,
         \A x \in m : \E i \in DOMAIN q : q[i] = x,
         NEW t, t = [f \in LockFields |-> t[f]],
         t.surfaces = q, t.mapped = m, t.focus = s.focus, t.locked = s.locked,
         t.phase = s.phase, t.shown = s.shown, t.power = s.power
  PROVE  Loose(t) /\ Active(t) = Active(s)
<1>1. HasFocusRole(t) <=> HasFocusRole(s)
  BY DEF HasFocusRole
<1>2. /\ s.focus \in Outputs \cup {None, Desktop} /\ DOMAIN s.shown \subseteq Outputs
      /\ (s.locked /\ ~HasFocusRole(s)) => s.focus = None
  BY DEF Loose
<1>3. t.focus \in Outputs \cup {None, Desktop} /\ DOMAIN t.shown \subseteq Outputs
  BY <1>2
<1>4. (t.locked /\ ~HasFocusRole(t)) => t.focus = None
  BY <1>1, <1>2
<1>5. t.surfaces \in Seq(Outputs)
  OBVIOUS
<1>6. \A x \in t.mapped : \E i \in DOMAIN t.surfaces : t.surfaces[i] = x
  OBVIOUS
<1> QED BY <1>3, <1>4, <1>5, <1>6 DEF Loose, Active

\* A surface is taken off the list, and its keyboard goes to the next one.
LEMMA DropKeys ==
  ASSUME NEW s, Loose(s), NEW o \in Outputs
  PROVE  Keys(DropSurface(s, o))
<1> DEFINE q == Without(s.surfaces, o)
           m == s.mapped \ {o}
           t == [s EXCEPT !.surfaces = q, !.mapped = m]
<1>1. q \in Seq(Outputs) /\ \A x \in m : \E i \in DOMAIN q : q[i] = x
  <2>1. s.surfaces \in Seq(Outputs) /\ \A x \in s.mapped : \E i \in DOMAIN s.surfaces : s.surfaces[i] = x
    BY DEF Loose
  <2>2. /\ RemoveFirst(s.surfaces, o) \in Seq(Outputs)
        /\ \A i \in DOMAIN s.surfaces : s.surfaces[i] # o =>
             \E j \in DOMAIN RemoveFirst(s.surfaces, o) : RemoveFirst(s.surfaces, o)[j] = s.surfaces[i]
    BY <2>1, RemoveFirstFacts
  <2>3. q = RemoveFirst(s.surfaces, o)
    BY DEF Without
  <2> HIDE DEF q
  <2> QED BY <2>1, <2>2, <2>3
<1>2. DropSurface(s, o) = IF HasFocusRole(s) THEN FocusMappedSurface(t) ELSE t
  BY DEF DropSurface
<1> HIDE DEF q, m
<1>3. /\ t = [f \in LockFields |-> t[f]]
      /\ t.surfaces = q /\ t.mapped = m /\ t.focus = s.focus /\ t.locked = s.locked
      /\ t.phase = s.phase /\ t.shown = s.shown /\ t.power = s.power
  BY DEF Loose, LockFields
<1> HIDE DEF t
<1>4. Loose(t)
  BY <1>1, <1>3, Resurfaced
<1>5. HasFocusRole(t) <=> HasFocusRole(s)
  BY <1>3 DEF HasFocusRole
<1> QED BY <1>2, <1>4, <1>5, FocusKeys, NoRoleKeys

-----------------------------------------------------------------------------
(* ... of a step.                                                          *)

\* The handlers that leave the surfaces and the keyboard alone, and power.
LEMMA SameFieldsStill ==
  ASSUME NEW s, Loose(s), NEW t, t = [f \in LockFields |-> t[f]],
         t.surfaces = s.surfaces, t.mapped = s.mapped, t.focus = s.focus,
         t.locked = s.locked, t.phase = s.phase, t.shown = s.shown
  PROVE  Loose(t) /\ (t.power = s.power => Still(s, t))
<1>1. HasFocusRole(t) <=> HasFocusRole(s)
  BY DEF HasFocusRole
<1>2. DOMAIN s.shown \subseteq Outputs /\ s.surfaces \in Seq(Outputs)
  BY DEF Loose
<1>3. \A x \in t.mapped : \E i \in DOMAIN t.surfaces : t.surfaces[i] = x
  BY DEF Loose
<1>4. /\ t.focus \in Outputs \cup {None, Desktop} /\ (t.locked /\ ~HasFocusRole(t)) => t.focus = None
      /\ DOMAIN t.shown \subseteq Outputs /\ t.surfaces \in Seq(Outputs)
  BY <1>1, <1>2 DEF Loose
<1> QED BY <1>1, <1>3, <1>4 DEF Loose, Still

\* A commit.
LEMMA CommitStill ==
  ASSUME NEW s, Loose(s), NEW o
  PROVE  Still(s, Commit(s, o)) /\ Commit(s, o).phase = s.phase
<1> DEFINE t == Commit(s, o)
<1>1. /\ t = [f \in LockFields |-> t[f]]
      /\ t.surfaces = s.surfaces /\ t.mapped = s.mapped /\ t.focus = s.focus
      /\ t.locked = s.locked /\ t.phase = s.phase /\ t.shown = s.shown /\ t.power = s.power
  BY DEF Loose, Commit, Submit, LockFields
<1> HIDE DEF t
<1>2. Still(s, t) /\ t.phase = s.phase
  BY <1>1, SameFieldsStill
<1> QED BY <1>2 DEF t

\* A surface is created, destroyed, mapped or unmapped.
LEMMA NewSurfaceKeys ==
  ASSUME Sound(session), Keys(session), NEW o \in Outputs, NewSurface(o)
  PROVE  Keys(session')
<1> DEFINE s == session
           t == session'
           q == Append(s.surfaces, o)
<1>1. Loose(s)
  BY DEF Keys
<1>2. /\ t = [f \in LockFields |-> t[f]]
      /\ t.surfaces = q /\ t.mapped = s.mapped /\ t.focus = s.focus
      /\ t.locked = s.locked /\ t.phase = s.phase /\ t.shown = s.shown /\ t.power = s.power
  BY <1>1 DEF NewSurface, Loose, LockFields
<1>3. q \in Seq(Outputs) /\ \A x \in s.mapped : \E i \in DOMAIN q : q[i] = x
  <2>1. s.surfaces \in Seq(Outputs)
    BY <1>1 DEF Loose
  <2>2. /\ q \in Seq(Outputs) /\ DOMAIN s.surfaces \subseteq DOMAIN q
        /\ \A i \in DOMAIN s.surfaces : q[i] = s.surfaces[i]
    BY <2>1
  <2>3. \A x \in s.mapped : \E i \in DOMAIN s.surfaces : s.surfaces[i] = x
    BY <1>1 DEF Loose
  <2> HIDE DEF q
  <2> QED BY <2>2, <2>3
<1> HIDE DEF q, s, t
<1>4. Loose(t) /\ Active(t) = Active(s)
  BY <1>1, <1>2, <1>3, Resurfaced, ZenonT(60)
<1>5. HasFocusRole(t) <=> HasFocusRole(s)
  BY <1>2 DEF HasFocusRole
<1>6. Keys(s)
  BY DEF s
<1>7. Keys(t)
  BY <1>2, <1>4, <1>5, <1>6 DEF Keys
<1> QED BY <1>7 DEF t

LEMMA DestroySurfaceKeys ==
  ASSUME Keys(session), NEW o \in Outputs, DestroySurface(o)
  PROVE  Keys(session')
BY DropKeys DEF DestroySurface, Keys

LEMMA UnmapSurfaceKeys ==
  ASSUME Keys(session), NEW o \in Outputs, UnmapSurface(o)
  PROVE  Keys(session')
<1> DEFINE s == session
           t == [s EXCEPT !.mapped = @ \ {o}]
<1>1. Loose(s) /\ session' = IF HasFocusRole(t) THEN FocusMappedSurface(t) ELSE t
  BY DEF Keys, UnmapSurface
<1>2. /\ t = [f \in LockFields |-> t[f]]
      /\ t.surfaces = s.surfaces /\ t.mapped = s.mapped \ {o} /\ t.focus = s.focus
      /\ t.locked = s.locked /\ t.phase = s.phase /\ t.shown = s.shown /\ t.power = s.power
  BY <1>1 DEF Loose, LockFields
<1>3. s.surfaces \in Seq(Outputs) /\ \A x \in s.mapped \ {o} : \E i \in DOMAIN s.surfaces : s.surfaces[i] = x
  BY <1>1 DEF Loose
<1> HIDE DEF s, t
<1>4. Loose(t)
  BY <1>1, <1>2, <1>3, Resurfaced
<1> QED BY <1>1, <1>4, FocusKeys, NoRoleKeys

\* A surface that maps takes the keyboard, on whatever output it is.
LEMMA MapSurfaceKeys ==
  ASSUME Sound(session), Keys(session), NEW o \in Outputs, MapSurface(o)
  PROVE  Keys(session')
<1> DEFINE s == session
           m == s.mapped \cup {o}
           t == [s EXCEPT !.mapped = m]
           b == IF t.phase = "waiting" /\ SurfacesReady(t) THEN BeginPresenting(t) ELSE t
<1>1. Loose(s)
  BY DEF Keys
<1>2. session' = IF HasFocusRole(b) THEN [b EXCEPT !.focus = o] ELSE b
  BY DEF MapSurface
<1>3. s.surfaces \in Seq(Outputs) /\ \A x \in m : \E i \in DOMAIN s.surfaces : s.surfaces[i] = x
  BY <1>1 DEF Loose, MapSurface
<1>4. /\ t = [f \in LockFields |-> t[f]]
      /\ t.surfaces = s.surfaces /\ t.mapped = m /\ t.focus = s.focus
      /\ t.locked = s.locked /\ t.phase = s.phase /\ t.shown = s.shown /\ t.power = s.power
  BY <1>1 DEF Loose, LockFields
<1> HIDE DEF s, t
<1>5. Loose(t)
  <2> HIDE DEF m
  <2> QED BY <1>1, <1>3, <1>4, Resurfaced
<1>6. o \in t.mapped
  BY <1>4
<1> HIDE DEF m
<1>7. Loose(b) /\ o \in b.mapped
  <2>1. BeginPresenting(t).mapped = t.mapped
    BY DEF BeginPresenting, MaybeSendLocked, FocusMappedSurface, ScheduleFullFrame,
           SyncOutputPresentations
  <2> QED BY <1>5, <1>6, <2>1, BeginKeys DEF Keys
<1> HIDE DEF b
<1> DEFINE u == [b EXCEPT !.focus = o]
<1>8. CASE HasFocusRole(b)
  <2>1. /\ u = [f \in LockFields |-> u[f]]
        /\ u.surfaces = b.surfaces /\ u.mapped = b.mapped /\ u.focus = o
        /\ u.locked = b.locked /\ u.phase = b.phase /\ u.shown = b.shown
    BY <1>7 DEF Loose, LockFields
  <2> HIDE DEF u
  <2>2. HasFocusRole(u) /\ o # None
    BY <1>8, <2>1, LockAssumption DEF HasFocusRole
  <2>3. DOMAIN u.shown \subseteq Outputs /\ u.surfaces \in Seq(Outputs)
    BY <1>7, <2>1 DEF Loose
  <2>4. \A x \in u.mapped : \E i \in DOMAIN u.surfaces : u.surfaces[i] = x
    BY <1>7, <2>1 DEF Loose
  <2>5. u = [f \in LockFields |-> u[f]] /\ u.focus \in Outputs \cup {None, Desktop}
    BY <2>1
  <2>6. Loose(u)
    BY <2>2, <2>3, <2>4, <2>5 DEF Loose
  <2>7. Keys(u)
    BY <1>7, <2>1, <2>2, <2>6 DEF Keys
  <2> QED BY <1>2, <1>8, <2>7 DEF u
<1>9. CASE ~HasFocusRole(b)
  BY <1>2, <1>7, <1>9, NoRoleKeys
<1> QED BY <1>8, <1>9

LEMMA SurfaceDeadlineKeys ==
  ASSUME Keys(session), SurfaceDeadline
  PROVE  Keys(session')
BY BeginKeys DEF SurfaceDeadline, Keys

\* The lock begins.
LEMMA BeginSessionLockKeys ==
  ASSUME Keys(session), BeginSessionLock
  PROVE  Keys(session')
<1> DEFINE s == session
           t == [s EXCEPT !.phase = "waiting"]
<1>1. Loose(s) /\ ~HasFocusRole(s)
  BY DEF Keys, BeginSessionLock, HasFocusRole
<1>2. Loose(t) /\ ~HasFocusRole(t)
  BY <1>1 DEF Loose, LockFields, HasFocusRole
<1>3. session' \in {t, BeginPresenting(t)}
  BY DEF BeginSessionLock
<1> HIDE DEF t
<1> QED BY <1>2, <1>3, BeginKeys, NoRoleKeys

\* Without a lock client there are no surfaces, and a session that is still
\* covered has no keyboard focus.
LEMMA BareLoose ==
  ASSUME NEW t, t = [x \in LockFields |-> t[x]],
         t.surfaces = <<>>, t.mapped = {}, t.shown = <<>>, t.phase = "none",
         t.focus \in Outputs \cup {None, Desktop}, t.locked => t.focus = None
  PROVE  Loose(t) /\ ~HasFocusRole(t)
<1>1. DOMAIN t.shown \subseteq Outputs /\ t.surfaces \in Seq(Outputs)
  <2>1. DOMAIN <<>> \subseteq Outputs /\ <<>> \in Seq(Outputs)
    OBVIOUS
  <2> QED BY <2>1
<1>2. \A x \in t.mapped : \E i \in DOMAIN t.surfaces : t.surfaces[i] = x
  OBVIOUS
<1>3. ~HasFocusRole(t)
  BY DEF HasFocusRole
<1> QED BY <1>1, <1>2, <1>3 DEF Loose

\* The lock ends with its client or without it.  Without the client the
\* keyboard is nobody's from then on.
LEMMA UnlockKeys ==
  ASSUME Keys(session), Unlock
  PROVE  Keys(session')
<1> DEFINE s == session
<1>1. PICK f \in {None, Desktop} :
        session' = Damaged([NoLock(s) EXCEPT !.locked = FALSE, !.focus = f])
  BY DEF Unlock
<1> DEFINE t == [NoLock(s) EXCEPT !.locked = FALSE, !.focus = f]
<1>2. /\ t = [x \in LockFields |-> t[x]]
      /\ t.surfaces = <<>> /\ t.mapped = {} /\ t.shown = <<>> /\ t.phase = "none"
      /\ t.locked = FALSE /\ t.focus = f
  BY DEF Keys, Loose, NoLock, LockFields
<1>3. session' = Damaged(t)
  BY <1>1
<1> HIDE DEF t, s
<1>4. f \in Outputs \cup {None, Desktop} /\ ~t.locked
  BY <1>2
<1>5. Loose(t) /\ ~HasFocusRole(t)
  BY <1>2, <1>4, BareLoose
<1>6. Still(t, Damaged(t))
  BY <1>5, FullFrameStill DEF Damaged
<1> QED BY <1>3, <1>5, <1>6, StillKeys, NoRoleKeys

LEMMA ClientGoneKeys ==
  ASSUME Sound(session), Keys(session), ClientGone
  PROVE  Keys(session')
<1> DEFINE s == session
           f == IF HasFocusRole(s) THEN None ELSE s.focus
           t == [NoLock(s) EXCEPT !.focus = f]
<1>1. Loose(s) /\ session' = Damaged(t)
  <2>1. session' = Damaged([NoLock(session) EXCEPT
                              !.focus = IF HasFocusRole(session) THEN None ELSE @])
    BY DEF ClientGone
  <2>2. NoLock(session).focus = session.focus
    BY DEF Keys, Loose, LockFields, NoLock
  <2>3. [NoLock(session) EXCEPT !.focus = IF HasFocusRole(session) THEN None ELSE @] = t
    BY <2>2 DEF Keys, Loose, LockFields, NoLock
  <2> QED BY <2>1, <2>3 DEF Keys
<1>2. /\ t = [x \in LockFields |-> t[x]]
      /\ t.surfaces = <<>> /\ t.mapped = {} /\ t.shown = <<>> /\ t.phase = "none"
      /\ t.locked = s.locked /\ t.focus = f
  BY <1>1 DEF Loose, NoLock, LockFields
<1>3. f \in Outputs \cup {None, Desktop} /\ (s.locked => f = None)
  BY <1>1 DEF Loose
<1> HIDE DEF t, f
<1>4. Loose(t) /\ ~HasFocusRole(t)
  BY <1>2, <1>3, BareLoose
<1>5. Still(t, Damaged(t))
  BY <1>4, FullFrameStill DEF Damaged
<1> QED BY <1>1, <1>4, <1>5, StillKeys, NoRoleKeys

LEMMA FocusDesktopKeys ==
  ASSUME Sound(session), Keys(session), FocusDesktop
  PROVE  Keys(session')
<1>1. PICK f \in {None, Desktop} : session' = [session EXCEPT !.focus = f]
  BY DEF FocusDesktop
<1>2. ~session.locked /\ ~HasFocusRole(session)
  BY DEF FocusDesktop, Sound, Between
<1>3. Loose(session)
  BY DEF Keys
<1>4. /\ session' = [x \in LockFields |-> session'[x]]
      /\ session'.surfaces = session.surfaces /\ session'.mapped = session.mapped
      /\ session'.focus = f /\ session'.locked = session.locked
      /\ session'.phase = session.phase /\ session'.shown = session.shown
  BY <1>1, <1>3 DEF Loose, LockFields
<1>5. Loose(session') /\ ~HasFocusRole(session')
  BY <1>2, <1>3, <1>4 DEF Loose, HasFocusRole
<1> QED BY <1>5, NoRoleKeys

-----------------------------------------------------------------------------
(* ... of a frame and of an output.                                        *)

LEMMA DamageKeys ==
  ASSUME Keys(session), NEW o \in Outputs, Damage(o)
  PROVE  Keys(session')
BY FullFrameStill, StillKeys DEF Damage, Keys

LEMMA FrameKeys ==
  ASSUME Keys(session), NEW o \in Outputs, Frame(o)
  PROVE  Keys(session')
<1> DEFINE c == Commit(session, o)
<1>1. Loose(session) /\ session' = HandleOutputCommit(c, o)
  BY DEF Keys, Frame
<1>2. Still(session, c)
  BY <1>1, CommitStill
<1> HIDE DEF c
<1>3. Still(c, session')
  BY <1>1, <1>2, StillKeys, CommitSeenStill
<1> QED BY <1>2, <1>3, StillTwice, StillKeys DEF Keys

LEMMA PresentKeys ==
  ASSUME Keys(session), NEW o \in Outputs, NEW presented \in BOOLEAN, Present(o, presented)
  PROVE  Keys(session')
<1> DEFINE c == Head(session.flight[o])
           s == [session EXCEPT !.flight[o] = Tail(@),
                                !.screen[o] = IF presented THEN c.frame ELSE @]
<1>1. Loose(session) /\ session' = HandleOutputPresent(s, o, c.seq, presented)
  BY DEF Keys, Present
<1>2. /\ s = [f \in LockFields |-> s[f]]
      /\ s.surfaces = session.surfaces /\ s.mapped = session.mapped /\ s.focus = session.focus
      /\ s.locked = session.locked /\ s.phase = session.phase /\ s.shown = session.shown
      /\ s.power = session.power
  BY <1>1 DEF Loose, LockFields
<1> HIDE DEF s, c
<1>3. Still(session, s)
  BY <1>1, <1>2, SameFieldsStill
<1>4. Still(s, session')
  BY <1>1, <1>3, StillKeys, PresentStill
<1> QED BY <1>3, <1>4, StillTwice, StillKeys DEF Keys

LEMMA ChangeModeKeys ==
  ASSUME Keys(session), NEW o \in Outputs, ChangeMode(o)
  PROVE  Keys(session')
<1> DEFINE a == Submit(session, o, "dark")
           b == HandleOutputStateChanged(a, o)
<1>1. Loose(session) /\ session' = ScheduleFullFrame(b, {o})
  BY DEF Keys, ChangeMode
<1>2. /\ a = [f \in LockFields |-> a[f]]
      /\ a.surfaces = session.surfaces /\ a.mapped = session.mapped /\ a.focus = session.focus
      /\ a.locked = session.locked /\ a.phase = session.phase /\ a.shown = session.shown
  BY <1>1 DEF Loose, Submit, LockFields
<1> HIDE DEF a
<1>3. Keys(b)
  BY <1>1, <1>2, SameFieldsStill, StateChangedKeys
<1> HIDE DEF b
<1>4. Still(b, session')
  BY <1>1, <1>3, FullFrameStill DEF Keys
<1> QED BY <1>3, <1>4, StillKeys DEF Keys

LEMMA PowerOffKeys ==
  ASSUME Keys(session), NEW o \in Outputs, PowerOff(o)
  PROVE  Keys(session')
<1> DEFINE a == [Dropped(session, o) EXCEPT
                   !.power[o] = "off", !.screen[o] = "dark", !.due[o] = FALSE]
<1>1. Loose(session) /\ session' = HandleOutputStateChanged(a, o)
  BY DEF Keys, PowerOff
<1>2. /\ a = [f \in LockFields |-> a[f]]
      /\ a.surfaces = session.surfaces /\ a.mapped = session.mapped /\ a.focus = session.focus
      /\ a.locked = session.locked /\ a.phase = session.phase /\ a.shown = session.shown
  BY <1>1 DEF Loose, Dropped, LockFields
<1> HIDE DEF a
<1> QED BY <1>1, <1>2, SameFieldsStill, StateChangedKeys

LEMMA PowerOnKeys ==
  ASSUME Keys(session), NEW o \in Outputs, PowerOn(o)
  PROVE  Keys(session')
<1> DEFINE a == [session EXCEPT !.power[o] = "on"]
           b == Commit(a, o)
           c == HandleOutputCommit(b, o)
           d == ScheduleFullFrame(c, {o})
<1>1. Loose(session) /\ session' = HandleOutputStateChanged(d, o)
  BY DEF Keys, PowerOn
<1>2. /\ a = [f \in LockFields |-> a[f]]
      /\ a.surfaces = session.surfaces /\ a.mapped = session.mapped /\ a.focus = session.focus
      /\ a.locked = session.locked /\ a.phase = session.phase /\ a.shown = session.shown
  BY <1>1 DEF Loose, LockFields
<1> HIDE DEF a
<1>3. Loose(a)
  BY <1>1, <1>2, SameFieldsStill
<1>4. Loose(b)
  BY <1>3, CommitStill, StillKeys
<1> HIDE DEF b
<1>5. Loose(c)
  BY <1>4, CommitSeenStill, StillKeys
<1> HIDE DEF c
<1>6. Loose(d)
  BY <1>5, FullFrameStill, StillKeys
<1> QED BY <1>1, <1>6, StateChangedKeys

LEMMA AddOutputKeys ==
  ASSUME Keys(session), NEW o \in Outputs, AddOutput(o)
  PROVE  Keys(session')
<1> DEFINE a == [session EXCEPT !.power[o] = "on"]
           b == Commit(a, o)
           c == ScheduleFullFrame(b, {o})
<1>1. Loose(session) /\ session' = OutputsChanged(c)
  BY DEF Keys, AddOutput
<1>2. /\ a = [f \in LockFields |-> a[f]]
      /\ a.surfaces = session.surfaces /\ a.mapped = session.mapped /\ a.focus = session.focus
      /\ a.locked = session.locked /\ a.phase = session.phase /\ a.shown = session.shown
  BY <1>1 DEF Loose, LockFields
<1> HIDE DEF a
<1>3. Loose(a)
  BY <1>1, <1>2, SameFieldsStill
<1>4. Loose(b)
  BY <1>3, CommitStill, StillKeys
<1> HIDE DEF b
<1>5. Loose(c)
  BY <1>4, FullFrameStill, StillKeys
<1> QED BY <1>1, <1>5, OutputsChangedKeep

LEMMA RemoveOutputKeys ==
  ASSUME Keys(session), NEW o \in Outputs, RemoveOutput(o)
  PROVE  Keys(session')
<1> DEFINE a == [session EXCEPT !.power[o] = "gone", !.screen[o] = "dark",
                                !.due[o] = FALSE, !.flight[o] = <<>>]
<1>1. Loose(session) /\ session' = OutputsChanged(DropSurface(a, o))
  BY DEF Keys, RemoveOutput
<1>2. /\ a = [f \in LockFields |-> a[f]]
      /\ a.surfaces = session.surfaces /\ a.mapped = session.mapped /\ a.focus = session.focus
      /\ a.locked = session.locked /\ a.phase = session.phase /\ a.shown = session.shown
  BY <1>1 DEF Loose, LockFields
<1> HIDE DEF a
<1>3. Loose(a)
  BY <1>1, <1>2, SameFieldsStill
<1>4. Keys(DropSurface(a, o))
  BY <1>3, DropKeys
<1> QED BY <1>1, <1>4, OutputsChangedKeep DEF Keys

-----------------------------------------------------------------------------
(* The invariant.                                                          *)

LEMMA InitKeys == Init => Keys(session)
<1> SUFFICES ASSUME Init PROVE Keys(session)
  OBVIOUS
<1>1. PICK power, due, seq, flight, screen :
       session = [power |-> power, due |-> due, seq |-> seq, flight |-> flight, screen |-> screen,
                  locked |-> FALSE, phase |-> "none",
                  surfaces |-> <<>>, mapped |-> {}, shown |-> <<>>, focus |-> Desktop]
  BY DEF Init
<1>2. /\ session = [f \in LockFields |-> session[f]]
      /\ session.surfaces = <<>> /\ session.mapped = {} /\ session.shown = <<>>
      /\ session.phase = "none" /\ session.locked = FALSE /\ session.focus = Desktop
  BY <1>1 DEF LockFields
<1> QED BY <1>2, BareLoose, NoRoleKeys

LEMMA StepKeys ==
  ASSUME Sound(session), Keys(session), disruptions \in 0 .. MaxDisruptions, [Next]_vars
  PROVE  Keys(session') /\ disruptions' \in 0 .. MaxDisruptions
<1>1. disruptions' \in 0 .. MaxDisruptions
  <2>1. disruptions' = disruptions \/ Disrupt
    BY ZenonT(60) DEF Next, vars, ClientNext, OutputNext, BeginSessionLock, NewSurface, MapSurface,
           UnmapSurface, DestroySurface, SurfaceDeadline, Unlock, ClientGone, FocusDesktop,
           Damage, Frame, FrameFails, Present, ChangeMode, PowerOff, PowerOn, AddOutput,
           RemoveOutput, Calm
  <2> QED BY <2>1, LockAssumption DEF Disrupt
<1>2. CASE UNCHANGED vars
  BY <1>2 DEF vars
<1>3. CASE BeginSessionLock \/ SurfaceDeadline \/ Unlock \/ ClientGone \/ FocusDesktop
  <2>1. (BeginSessionLock \/ SurfaceDeadline) => Keys(session')
    BY BeginSessionLockKeys, SurfaceDeadlineKeys
  <2>2. (Unlock \/ ClientGone \/ FocusDesktop) => Keys(session')
    BY UnlockKeys, ClientGoneKeys, FocusDesktopKeys
  <2> QED BY <1>1, <1>3, <2>1, <2>2
<1>4. ASSUME NEW o \in Outputs,
             NewSurface(o) \/ MapSurface(o) \/ UnmapSurface(o) \/ DestroySurface(o)
      PROVE  Keys(session')
  BY <1>4, NewSurfaceKeys, MapSurfaceKeys, UnmapSurfaceKeys, DestroySurfaceKeys
<1>5. ASSUME NEW o \in Outputs,
             \/ Damage(o) \/ Frame(o) \/ FrameFails(o)
             \/ \E presented \in BOOLEAN : Present(o, presented)
             \/ ChangeMode(o) \/ PowerOff(o) \/ PowerOn(o) \/ AddOutput(o) \/ RemoveOutput(o)
      PROVE  Keys(session')
  <2>1. FrameFails(o) => Keys(session')
    BY DEF FrameFails
  <2> QED BY <1>5, <2>1, DamageKeys, FrameKeys, PresentKeys, ChangeModeKeys, PowerOffKeys,
             PowerOnKeys, AddOutputKeys, RemoveOutputKeys
<1> QED BY <1>1, <1>2, <1>3, <1>4, <1>5 DEF Next, ClientNext, OutputNext

\* The inductive invariant of the whole module.
Safe == Sound(session) /\ Keys(session) /\ disruptions \in 0 .. MaxDisruptions

\* What the handlers keep of the session holds of every reachable state.
THEOREM SafeAlways == Spec => []Safe
<1>1. Init => Safe
  <2>1. Init => disruptions \in 0 .. MaxDisruptions
    BY LockAssumption DEF Init
  <2> QED BY <2>1, InitSound, InitKeys DEF Safe
<1>2. Safe /\ [Next]_vars => Safe'
  BY StepKeeps, StepKeys DEF Safe
<1> QED BY <1>1, <1>2, PTL DEF Spec

\* Every reachable state has the shape TypeOK gives it: no commit number out of
\* its range, no queue over its length, no mapped surface that is not listed.
THEOREM TypeCorrect == Spec => []TypeOK
<1>1. Safe => TypeOK
  <2> SUFFICES ASSUME Safe PROVE TypeOK
    OBVIOUS
  <2>1. Shape(session) /\ Numbered(session) /\ Loose(session)
    BY DEF Safe, Sound, Between, Keys
  <2>2. session.mapped \subseteq {session.surfaces[i] : i \in DOMAIN session.surfaces}
    BY <2>1 DEF Loose
  <2>3. \A o \in Outputs : /\ Len(session.flight[o]) <= MaxFlight
                           /\ session.flight[o] \in Seq(Frames)
    BY <2>1 DEF Shape, Numbered
  <2>4. /\ session = [f \in LockFields |-> session[f]]
        /\ session.power \in [Outputs -> {"gone", "off", "on"}]
        /\ session.due \in [Outputs -> BOOLEAN]
        /\ session.seq \in [Outputs -> 0 .. (SeqBound - 1)]
        /\ session.screen \in [Outputs -> {"dark", "desktop", "secure"}]
        /\ session.locked \in BOOLEAN
        /\ session.phase \in {"none", "waiting", "presenting", "locked"}
    BY <2>1 DEF Shape
  <2>5. /\ session.surfaces \in Seq(Outputs) /\ DOMAIN session.shown \subseteq Outputs
        /\ session.focus \in Outputs \cup {None, Desktop}
    BY <2>1 DEF Loose
  <2> QED BY <2>2, <2>3, <2>4, <2>5 DEF TypeOK, Frames, Safe
<1> QED BY <1>1, SafeAlways, PTL

\* KeyboardOnLock: whatever surfaces come, go, map and unmap, and whatever
\* outputs sleep under them, a locked session's keyboard is a mapped lock
\* surface's, or nobody's while none is mapped on an active output.
THEOREM KeyboardStaysOnLock == Spec => []KeyboardOnLock
<1>1. Safe => KeyboardOnLock
  BY DEF Safe, Keys, KeyboardOnLock
<1> QED BY <1>1, SafeAlways, PTL
=============================================================================
