----------------------------- MODULE Scratchpads -----------------------------
(***************************************************************************)
(* ScratchpadManager (src/workspace/scratchpad.cpp): windows kept outside  *)
(* the workspaces in named pads that are shown and hidden as a whole, or   *)
(* one window at a time, on whatever output they are asked for.            *)
(*                                                                         *)
(* The manager holds bare pointers to windows and outputs, is called by    *)
(* keybinds, window rules, dialogs that open, output hotplug and reloads,  *)
(* and its callers decide who moves the keyboard focus afterwards.         *)
(*                                                                         *)
(* Geometry, opacity, the backdrop and a member's return location are left *)
(* out; a window that is not in a pad is on some active workspace.         *)
(***************************************************************************)
EXTENDS Integers, FiniteSets, Sequences, SequencesExt

CONSTANTS
  Views,      \* the toplevels
  Owner,      \* the window each was opened from; None for a regular window
  Sessions,   \* the sets of windows that may be open at first, none of them in a pad
  Names,      \* the names a pad may have, numbered in the order of the map
  Configs,    \* the sets of names a configuration may declare
  Spawns,     \* the names declared with spawn_when_empty
  Outputs,    \* the outputs that may be connected
  None,       \* nullptr, std::nullopt, an empty name
  Present,    \* the outputs at start, in any order
  MaxEvents   \* bound: acts of users, clients and outputs

Spawn == [output : Outputs, live : BOOLEAN, shown : BOOLEAN]

Pad == [output : Outputs \cup {None}, visible : BOOLEAN, last : Views \cup {None}, solo : Views \cup {None},
        spawn : Spawn \cup {None}, home : Outputs \cup {None}]

ASSUME PadsAssumption ==
  /\ IsFiniteSet(Views) /\ None \notin Views /\ Owner \in [Views -> Views \cup {None}]
  /\ \A v \in Views : Owner[v] # None => Owner[Owner[v]] = None
  /\ \A open \in Sessions : open \subseteq Views /\ \A v \in open : Owner[v] \in open \cup {None}
  /\ IsFiniteSet(Names) /\ Names \subseteq Nat /\ None \notin Names
  /\ Configs \subseteq SUBSET Names /\ {} \notin Configs /\ Spawns \subseteq Names
  /\ IsFiniteSet(Outputs) /\ None \notin Outputs /\ Present \subseteq Outputs
  /\ None \notin Spawn /\ None \notin Pad
  /\ MaxEvents \in Nat

VARIABLES
  pads,    \* m_scratchpads: None, or a pad's record
  wins,    \* m_entries and the other pointers to windows, with what the seat and the scene know
  desk,    \* the outputs and the idle source of the restore
  placed,  \* ghost: the output a pad was last put on by somebody's wish
  events   \* how many events may still happen

vars == <<pads, wins, desk, placed, events>>

(***************************************************************************)
(* The handlers call one another, so their effects are functions of the    *)
(* pads and the windows together.                                          *)
(***************************************************************************)
Now == [pads |-> pads, wins |-> wins]

Become(s) == pads' = s.pads /\ wins' = s.wins

Happens == events > 0 /\ events' = events - 1

-----------------------------------------------------------------------------
(* Reading the manager.                                                    *)

\* The elements of a list that are in S.
Kept(q, S) == FoldLeft(LAMBDA kept, x : IF x \in S THEN Append(kept, x) ELSE kept, <<>>, q)

Defined(s) == {p \in Names : s.pads[p] # None}

Entries(s) == ToSet(s.wins.entries)

Listed == ToSet(desk.listed)

Members(s, p) == {v \in Entries(s) : s.wins.pad[v] = p}

MembersInOrder(s, p) == Kept(s.wins.entries, Members(s, p))

VisibleOn(s, o) == {p \in Defined(s) : s.pads[p].visible /\ s.pads[p].output = o}

\* The pad that is in the way when p wants to show on o: the first one found.
Rival(s, p, o) ==
  LET found == VisibleOn(s, o) \ {p}
  IN IF found = {} THEN None ELSE CHOOSE q \in found : \A r \in found : q <= r

Ride(s, v, p) ==
  LET parent == s.wins.parent[v] IN parent # None /\ parent \in Members(s, p)

MemberFor(s, v, p) == IF Ride(s, v, p) THEN s.wins.parent[v] ELSE v

\* Mutation: a pad that shows one window shows its other windows with it.
PresentsAll(s, p, v) == s.pads[p].visible /\ s.pads[p].output # None

Presents(s, p, v) ==
  LET pad == s.pads[p]
  IN /\ pad.visible /\ pad.output # None
     /\ pad.solo \in {None, v, s.wins.parent[v]}

Focused(s, p) ==
  LET pad  == s.pads[p]
      up   == pad.visible /\ pad.output # None
      last == pad.last \in Members(s, p) /\ Presents(s, p, pad.last)
  IN CASE up /\ last -> pad.last
       [] up /\ ~last /\ pad.solo # None -> pad.solo
       [] up /\ ~last /\ pad.solo = None /\ Members(s, p) # {} -> Head(MembersInOrder(s, p))
       [] OTHER -> None

-----------------------------------------------------------------------------
(* Showing, hiding and moving a pad.                                       *)

Presented(s, p) == {v \in Members(s, p) : Presents(s, p, v)}

\* The members that are presented come up; of the others, some fade.
Reveal(s, p, fade) ==
  LET on == Presented(s, p)
  IN [s EXCEPT !.wins.shown  = (@ \ Members(s, p)) \cup on,
               !.wins.hiding = (@ \ Members(s, p)) \cup (fade \cap (Members(s, p) \ on))]

\* What hides with an animation fades on, unless it has faded out already.  The
\* code has fewer fades, none for a window that has hardly begun to fade in or
\* where animations are off: TickAnimations may end such a fade at once.
SetVisible(s, p, visible, animate) ==
  Reveal([s EXCEPT !.pads[p].visible = visible, !.pads[p].solo = IF visible THEN @ ELSE None], p,
         IF animate /\ s.pads[p].output # None THEN s.wins.shown \cup s.wins.hiding ELSE {})

Hide(s, p) == IF p = None THEN s ELSE SetVisible(s, p, FALSE, TRUE)

Put(s, p, o, clear) ==
  [s EXCEPT !.pads[p].output = o, !.pads[p].home = IF clear THEN None ELSE @]

Redisplay(s, p) == IF s.pads[p].visible THEN Reveal(s, p, {}) ELSE s

\* restorePresentation: windows are on screen if their pad shows them; what
\* fades fades on.
Represent(s, p, W) ==
  IF s.pads[p].output = None THEN s
  ELSE [s EXCEPT !.wins.shown = (@ \ W) \cup {v \in W : Presents(s, p, v)}]

\* Mutation: a pad that moves does not hide the pad that is shown there.
MoveOver(s, p, o, clear) ==
  IF s.pads[p].output = o THEN s ELSE Redisplay(Put(s, p, o, clear), p)

MoveScratchpad(s, p, o, clear) ==
  LET room == IF s.pads[p].visible /\ o # None THEN Hide(s, Rival(s, p, o)) ELSE s
  IN IF s.pads[p].output = o THEN [s EXCEPT !.pads[p].home = IF clear THEN None ELSE @]
     ELSE Redisplay(Put(room, p, o, clear), p)

MoveTo(s, p, o) == IF s.pads[p].output = o THEN s ELSE MoveScratchpad(s, p, o, TRUE)

Shown(s, p) == IF s.pads[p].visible THEN s ELSE SetVisible(s, p, TRUE, TRUE)

Bring(s, p, o, switched) ==
  CASE switched /\ s.pads[p].output = o -> SetVisible(s, p, TRUE, TRUE)
    [] ~switched /\ s.pads[p].visible /\ s.pads[p].output = o -> s
    [] OTHER -> Shown(MoveTo(Hide(s, Rival(s, p, o)), p, o), p)

\* summon: a pad that shows one window shows the member that is asked for.
Summon(s, p, o, member) ==
  LET m        == IF member = None THEN None ELSE MemberFor(s, member, p)
      switches == m # None /\ s.pads[p].solo \notin {None, m}
  IN Bring(IF switches THEN [s EXCEPT !.pads[p].solo = m] ELSE s, p, o, switches)

-----------------------------------------------------------------------------
(* The keyboard.                                                           *)

\* Server::focusView with noteFocus; a hidden window is not focused.
FocusView(s, v) ==
  IF v \notin s.wins.shown THEN s
  ELSE LET p == s.wins.pad[v]
       IN [s EXCEPT !.wins.focus = v,
                    !.wins.noted = IF p = None THEN None ELSE v,
                    !.pads = [q \in Names |-> IF q = p THEN [@[q] EXCEPT !.last = v] ELSE @[q]]]

\* refocusFallback: a window of the active workspace there, or nothing.
Fallback(s) ==
  {FocusView(s, w) : w \in s.wins.mapped \ Entries(s)} \cup {[s EXCEPT !.wins.focus = None]}

OutputOf(s, v) == IF s.wins.pad[v] = None THEN None ELSE s.pads[s.wins.pad[v]].output

\* refocus(Output*): a pad on that output which has the keyboard keeps it.
RefocusOn(s, o) ==
  LET f == s.wins.focus
  IN IF f # None /\ f \in s.wins.shown /\ OutputOf(s, f) = o THEN {s} ELSE Fallback(s)

\* A pad's window is on screen and its output is on; a workspace's window is on
\* some output.
Holds(s, f, lit) ==
  f # None /\ f \in s.wins.shown /\ IF f \in Entries(s) THEN OutputOf(s, f) \in lit ELSE lit # {}

\* The output of a workspace's window may be one that is off.
Loses(s, f, lit) == ~Holds(s, f, lit) \/ (f \notin Entries(s) /\ Listed \ lit # {})

\* refocus(): whoever has the keyboard keeps it while it is on screen, else
\* the pad the focus was last on, if it is shown under the pointer.
Refocus(s, lit) ==
  LET f == s.wins.focus
      n == s.wins.noted
  IN {r \in {s} : Holds(s, f, lit)}
       \cup {r \in {FocusView(s, n)} : Loses(s, f, lit) /\ Holds(s, n, lit)}
       \cup {r \in Fallback(s) : Loses(s, f, lit)}

-----------------------------------------------------------------------------
(* Entering and leaving a pad.                                             *)

\* Mutation: whoever leaves a pad is still remembered by it.
KeepLast(s, p, v) == s

\* forgetLastFocused: a dialog hands over to the member it was opened from.
ForgetLast(s, p, v) ==
  IF s.pads[p].last # v THEN s
  ELSE [s EXCEPT !.pads[p].last = IF Ride(s, v, p) THEN s.wins.parent[v] ELSE None]

\* A window of another pad leaves it; the pad notices below.
Transferred(s, v, p) ==
  LET from == s.wins.pad[v]
      t    == ForgetLast(s, from, v)
  IN [t EXCEPT !.wins.pad[v] = p, !.pads[from].solo = IF @ = v THEN None ELSE @]

Entered(s, v, p) ==
  [s EXCEPT !.wins.entries = Append(@, v), !.wins.pad[v] = p, !.wins.shown = @ \cup {v}]

\* Mutation: a pad that lost the one window it shows stays on screen.
LeaveOn(s, p, lostSolo, animate) == s

\* Without its shown window a pad that shows one hides, and so does an empty one.
Leave(s, p, lostSolo, animate) ==
  IF (lostSolo \/ Members(s, p) = {}) THEN SetVisible(s, p, FALSE, animate) ELSE s

\* A pad that is not on screen gathers where it was asked for.
Gathered(s, p, o) ==
  IF s.pads[p].visible /\ s.pads[p].output # None THEN s ELSE MoveScratchpad(s, p, o, TRUE)

\* A pad that shows one window shows the one the user put in it.
Offered(s, v, p, interactive) ==
  SetVisible(IF interactive /\ s.pads[p].solo # None
             THEN [s EXCEPT !.pads[p].solo = MemberFor(s, v, p)] ELSE s,
             p, s.pads[p].visible, interactive)

\* admit, for a window that is not in pad p yet.
Admitted(s, v, p, o, interactive) ==
  LET from == s.wins.pad[v]
      lost == s.pads[from].solo = v
  IN IF from = None
     THEN Offered(Entered(Gathered(s, p, o), v, p), v, p, interactive)
     ELSE Leave(Offered(Gathered(Transferred(s, v, p), p, o), v, p, interactive), from, lost, interactive)

\* A focused window that ends up off screen gives the focus up.
Resigned(s, v, p) == IF s.wins.focus = v /\ ~Presents(s, p, v) THEN Fallback(s) ELSE {s}

Admit(s, v, p, o, interactive) ==
  CASE s.wins.pad[v] = p -> {IF s.pads[p].visible THEN s ELSE MoveTo(s, p, o)}
    [] s.wins.pad[v] # p /\ interactive -> RefocusOn(Admitted(s, v, p, o, TRUE), o)
    [] OTHER -> Resigned(Admitted(s, v, p, o, FALSE), v, p)

\* assignByWindowRule: the window a toggle of the empty pad launched, if it is in time.
AssignByRule(s, v, p, o) ==
  LET launched(t) ==
        LET spawn == t.pads[p].spawn
            u     == [t EXCEPT !.pads[p].spawn = None]
        IN IF spawn = None THEN t
           ELSE IF spawn.live /\ spawn.shown THEN Summon(u, p, spawn.output, None) ELSE u
  IN {launched(t) : t \in Admit(s, v, p, o, FALSE)}

\* assignFromParent: a dialog joins the pad its window is shown in.
Adopts(s, parent) ==
  parent # None /\ parent \in Entries(s) \cap s.wins.shown
    /\ s.pads[s.wins.pad[parent]].visible /\ s.pads[s.wins.pad[parent]].output # None

Inherit(s, v, inherits) ==
  LET parent == s.wins.parent[v]
      p      == s.wins.pad[parent]
  IN IF inherits /\ v \notin Entries(s) /\ Adopts(s, parent)
     THEN Admit(s, v, p, s.pads[p].output, FALSE) ELSE {s}

\* What restoreView and remove have in common.
Leaves(s, v) ==
  LET p == s.wins.pad[v]
      t == ForgetLast(s, p, v)
      u == [t EXCEPT !.wins.entries = Kept(@, Views \ {v}), !.wins.pad[v] = None,
                     !.wins.noted = IF @ = v THEN None ELSE @, !.wins.hiding = @ \ {v}]
  IN IF u.pads[p].visible THEN Leave(u, p, u.pads[p].solo = v, TRUE) ELSE u

\* restoreView: back on a workspace.
RestoreView(s, v) ==
  LET t == Leaves(s, v) IN [t EXCEPT !.wins.shown = @ \cup {v}]

-----------------------------------------------------------------------------
(* The outputs.                                                            *)

FirstLit(lit, o) ==
  LET found == Kept(desk.listed, lit \ {o})
  IN IF found = <<>> THEN None ELSE Head(found)

\* preferredOutput: an enabled output under the pointer, else the first one.
Preferred == IF desk.lit = {} THEN {None} ELSE desk.lit

InOrder(P) == CHOOSE q \in [1 .. Cardinality(P) -> P] : \A i, j \in DOMAIN q : i < j => q[i] < q[j]

\* Mutation: a pad that is displaced again forgets where it was first.
MoveOutputAgain(s, from, to) ==
  LET move(t, p) == MoveScratchpad([t EXCEPT !.pads[p].home = from], p, to, FALSE)
  IN FoldLeft(move, s, InOrder({p \in Defined(s) : s.pads[p].output = from}))

\* moveOutput: the first output a pad was displaced from is its home.
MoveOutput(s, from, to) ==
  LET move(t, p) == MoveScratchpad([t EXCEPT !.pads[p].home = IF @ = None THEN from ELSE @], p, to, FALSE)
  IN FoldLeft(move, s, InOrder({p \in Defined(s) : s.pads[p].output = from}))

\* Mutation: a launch may outlive the output it was asked for on.
ReleaseNothing(s, o) == s

\* releaseOutput: no pad is left there; a launch that would be shown there is dropped.
ReleaseOutput(s, o) ==
  LET stranded == InOrder({p \in Defined(s) : s.pads[p].output = o})
      t == [s EXCEPT !.pads = [p \in Names |->
             IF @[p] # None /\ @[p].spawn # None /\ @[p].spawn.output = o
             THEN [@[p] EXCEPT !.spawn = None] ELSE @[p]]]
  IN FoldLeft(LAMBDA u, p : MoveScratchpad(u, p, None, FALSE), t, stranded)

\* restoreDisplaced: home if it is there; the fallback only if the pad has no output.
\* Those of a visible pad whose position is restored (some of back) are presented again.
RestorePad(s, p, fallback, back) ==
  LET home   == s.pads[p].home
      target == CASE home \in desk.lit -> home
                  [] home \notin desk.lit /\ s.pads[p].output = None -> fallback
                  [] OTHER -> s.pads[p].output
      moved  == IF target = s.pads[p].output THEN s ELSE MoveScratchpad(s, p, target, FALSE)
      again  == IF home \in desk.lit /\ moved.pads[p].visible
                THEN Represent(moved, p, Members(moved, p) \cap back) ELSE moved
  IN [again EXCEPT !.pads[p].home = IF home \in desk.lit THEN None ELSE @]

RestoreDisplaced(s, fallback, back) ==
  LET waiting == {p \in Defined(s) : s.pads[p].home # None \/ s.pads[p].output = None}
  IN FoldLeft(LAMBDA t, p : RestorePad(t, p, fallback, back), s, InOrder(waiting))

-----------------------------------------------------------------------------
(* The handlers.                                                           *)

Fresh == [output |-> None, visible |-> FALSE, last |-> None, solo |-> None, spawn |-> None, home |-> None]

Init ==
  /\ \E names \in Configs : pads = [p \in Names |-> IF p \in names THEN Fresh ELSE None]
  /\ \E open \in Sessions :
       wins = [mapped |-> open, parent |-> [v \in Views |-> IF v \in open THEN Owner[v] ELSE None],
               entries |-> <<>>, pad |-> [v \in Views |-> None], shown |-> open, hiding |-> {},
               focus |-> None, noted |-> None]
  /\ \E order \in SetToSeqs(Present) :
       desk = [listed |-> order, desktop |-> Present, lit |-> Present, idle |-> FALSE]
  /\ placed = [p \in Names |-> None] /\ events = MaxEvents

\* What a wish moves, or keeps from going home, stays where it is now.
Wished ==
  placed' = [p \in Names |->
    IF pads'[p] = None THEN None
    ELSE IF \/ pads[p] = None \/ pads'[p].output # pads[p].output
            \/ pads[p].home # None /\ pads'[p].home = None
         THEN pads'[p].output ELSE placed[p]]

\* An act that changes nothing is a stutter and costs no event.
Act(results) == Happens /\ \E s \in results \ {Now} : Become(s) /\ Wished /\ UNCHANGED desk

Maps(v, parent) ==
  v \notin wins.mapped /\ parent \in {None, Owner[v]} \cap (wins.mapped \cup {None})

Mapped(v, parent) ==
  [Now EXCEPT !.wins.mapped = @ \cup {v}, !.wins.shown = @ \cup {v}, !.wins.parent[v] = parent]

\* View::handleMap with no pad of its own: its parent's, or a workspace.
MapView(v, parent, focused, inherits) ==
  /\ Maps(v, parent)
  /\ Act({IF focused THEN FocusView(t, v) ELSE t : t \in Inherit(Mapped(v, parent), v, inherits)})

\* View::handleMap with a pad from a window rule.
MapIntoPad(v, parent, p, ask, o) ==
  /\ Maps(v, parent) /\ p \in Defined(Now)
  /\ LET asked(t) == IF ask = "yes" THEN Summon(t, p, o, v) ELSE t
     IN Act({IF ask = "no" THEN t ELSE FocusView(asked(t), v) : t \in AssignByRule(Mapped(v, parent), v, p, o)})

\* reapplyInitialWindowRules: a title or an id that comes late selects a pad.
LateRule(v, p, ask, o) ==
  /\ v \in wins.mapped /\ p \in Defined(Now)
  /\ LET asked(t) == IF ask THEN Summon(t, p, o, v) ELSE t
         again(t) == IF ask /\ wins.focus = v THEN FocusView(t, v) ELSE t
     IN Act({again(asked(t)) : t \in AssignByRule(Now, v, p, o)})

\* handleSetParent
SetParent(v, parent, inherits) ==
  /\ v \in wins.mapped /\ parent \in {None, Owner[v]} \cap (wins.mapped \cup {None})
  /\ parent # wins.parent[v]
  /\ Act(Inherit([Now EXCEPT !.wins.parent[v] = parent], v, inherits))

\* handleUnmap, and removeView: only the loss of the focus itself is made up for.
CloseView(v) ==
  /\ v \in wins.mapped
  /\ LET t == IF v \in Entries(Now) THEN Leaves(Now, v) ELSE Now
         u == [t EXCEPT !.wins.mapped = @ \ {v}, !.wins.shown = @ \ {v},
                        !.wins.parent = [w \in Views |-> IF w = v \/ @[w] = v THEN None ELSE @[w]]]
     IN Act(IF wins.focus = v THEN Fallback(u) ELSE {u})

\* A click, the hover, an activation.
Focus(v) == v \in wins.mapped /\ Act({FocusView(Now, v)})

\* window-focus:<id> summons a hidden member first.
FocusById(v, o) ==
  /\ v \in Entries(Now) \ wins.shown
  /\ Act({FocusView(IF o = None THEN Now ELSE Summon(Now, wins.pad[v], o, v), v)})

\* The workspace's focused window, whoever has the keyboard.
MoveToScratchpad(v, p, o) ==
  /\ v \in wins.mapped \ Entries(Now) /\ p \in Defined(Now) /\ o # None
  /\ Act(Admit(Now, v, p, o, TRUE))

\* An empty pad launches its command, or changes its mind about the launch.
Launch(p, o) ==
  LET spawn == pads[p].spawn
      again == spawn # None /\ spawn.live
  IN [Now EXCEPT !.pads[p].spawn =
        [output |-> o, live |-> TRUE, shown |-> IF again THEN ~spawn.shown ELSE TRUE]]

FocusPad(s, p) == LET v == Focused(s, p) IN IF v = None THEN s ELSE FocusView(s, v)

\* Mutation: hiding a pad leaves the keyboard where it is.
ToggleSilently(p, o) ==
  /\ p \in Defined(Now) /\ o # None
  /\ IF Members(Now, p) = {} THEN p \in Spawns /\ Act({Launch(p, o)})
     ELSE IF pads[p].visible /\ pads[p].output = o THEN Act({SetVisible(Now, p, FALSE, TRUE)})
     ELSE Act({FocusPad(Summon(Now, p, o, None), p)})

Toggle(p, o) ==
  /\ p \in Defined(Now) /\ o # None
  /\ IF Members(Now, p) = {} THEN p \in Spawns /\ Act({Launch(p, o)})
     ELSE IF pads[p].visible /\ pads[p].output = o THEN Act(RefocusOn(SetVisible(Now, p, FALSE, TRUE), o))
     ELSE Act({FocusPad(Summon(Now, p, o, None), p)})

\* The pad expires: m_server's clock passes kSpawnTimeout.
SpawnExpires(p) ==
  /\ p \in Defined(Now) /\ pads[p].spawn # None /\ pads[p].spawn.live
  /\ pads' = [pads EXCEPT ![p].spawn.live = FALSE]
  /\ UNCHANGED <<wins, desk, placed, events>>

\* showStep: dialogs are not steps of their own.
Step(s, p, direction, o) ==
  LET steps == Kept(MembersInOrder(s, p), {v \in Views : ~Ride(s, v, p)})
      here  == s.pads[p].visible /\ s.pads[p].output = o
      at(v) == IF v = None THEN 0 ELSE SelectInSeq(steps, LAMBDA w : w = MemberFor(s, v, p))
      now   == IF at(Focused(s, p)) = 0 THEN 1 ELSE at(Focused(s, p))
      then  == ((now - 1 + direction + Len(steps)) % Len(steps)) + 1
      first == IF at(s.pads[p].last) = 0 THEN 1 ELSE at(s.pads[p].last)
      target == steps[IF here THEN then ELSE first]
      t == [s EXCEPT !.pads[p].solo = target]
  IN FocusView(IF here THEN SetVisible(t, p, TRUE, TRUE) ELSE Summon(t, p, o, None), target)

ShowStep(p, direction, o) ==
  /\ p \in Defined(Now) /\ o # None /\ Members(Now, p) # {}
  /\ Act({Step(Now, p, direction, o)})

RestoreFocused(p) ==
  /\ p \in Defined(Now) /\ Focused(Now, p) # None
  /\ LET v == Focused(Now, p) IN Act({FocusView(RestoreView(Now, v), v)})

FocusNext(p) ==
  /\ p \in Defined(Now)
  /\ LET on  == Kept(MembersInOrder(Now, p), Presented(Now, p))
         now == SelectInSeq(on, LAMBDA v : v = Focused(Now, p))
     IN on # <<>> /\ Act({FocusView(Now, on[(now % Len(on)) + 1])})

\* finishFloatMove: a member dropped on another output takes its pad along.
FinishMove(v, o) ==
  /\ v \in Entries(Now)
  /\ LET p == wins.pad[v]
         t == IF o = None THEN Now ELSE MoveTo(Now, p, o)
     IN Act({FocusView(Represent(t, p, {v}), v)})

\* The overview opens.
HideAll ==
  LET visible == {p \in Defined(Now) : pads[p].visible}
      t == FoldLeft(LAMBDA s, p : SetVisible(s, p, FALSE, FALSE), Now, InOrder(visible))
  IN visible # {} /\ Act({[t EXCEPT !.wins.focus = None]})

\* The overview closes, or a layer surface with the keyboard goes away.
GiveBackFocus == Act(Refocus(Now, desk.lit))

Undefine(s, p) ==
  LET h == IF s.pads[p].visible THEN SetVisible(s, p, FALSE, FALSE) ELSE s
      t == FoldLeft(RestoreView, h, MembersInOrder(h, p))
  IN [t EXCEPT !.pads[p] = None]

\* reconcileConfig
ReconcileConfig(names) ==
  /\ names # Defined(Now)
  /\ LET gone == Defined(Now) \ names
         t == FoldLeft(Undefine, Now, InOrder(gone))
         u == [t EXCEPT !.pads = [p \in Names |-> IF p \in names /\ @[p] = None THEN Fresh ELSE @[p]]]
     IN Act(IF \E p \in gone : Members(Now, p) # {} THEN Refocus(u, desk.lit) ELSE {u})

\* tickAnimations: a fade is over, the node goes.
TickAnimations(v) ==
  /\ v \in wins.hiding /\ wins' = [wins EXCEPT !.hiding = @ \ {v}]
  /\ UNCHANGED <<pads, desk, placed, events>>

-----------------------------------------------------------------------------
(* Output hotplug, as the pads see it.                                     *)

Imposed(results) == \E s \in results : Become(s) /\ UNCHANGED placed

AddOutput(o, enabled) ==
  /\ o \notin Listed /\ Happens
  /\ LET on == IF enabled THEN {o} ELSE {}
     IN desk' = [desk EXCEPT !.listed = Append(@, o), !.desktop = @ \cup on, !.lit = @ \cup on, !.idle = TRUE]
  /\ UNCHANGED <<pads, wins, placed>>

\* removeOutput moves the keyboard nowhere.
RemoveOutput(o) ==
  /\ o \in Listed /\ Happens
  /\ Imposed({ReleaseOutput(MoveOutput(Now, o, FirstLit(desk.lit, o)), o)})
  /\ desk' = [desk EXCEPT !.listed = Kept(@, Outputs \ {o}), !.desktop = @ \ {o}, !.lit = @ \ {o}]

\* DPMS leaves the pads alone.
SetPowered(o, powered) ==
  /\ o \in desk.desktop /\ (o \in desk.lit) # powered /\ Happens
  /\ desk' = [desk EXCEPT !.lit = IF powered THEN @ \cup {o} ELSE @ \ {o}, !.idle = @ \/ powered]
  /\ UNCHANGED <<pads, wins, placed>>

\* Evacuated in the order of m_outputs, with one refocus at the end.
EnableOutputs(on, gone) ==
  LET lit == (desk.lit \cap on) \cup (on \ desk.desktop)
      t   == FoldLeft(LAMBDA s, o : MoveOutput(s, o, FirstLit(lit, o)), Now, Kept(desk.listed, gone))
  IN /\ Happens /\ Imposed(Refocus(t, lit))
     /\ desk' = [desk EXCEPT !.desktop = on, !.lit = lit, !.idle = TRUE]

\* A reload of the output policy evacuates every output it finds disabled.
ReloadOutputs(on) == on \subseteq Listed /\ EnableOutputs(on, Listed \ on)

\* An output-management transaction, those it disables.
ManageOutputs(on) == on \subseteq Listed /\ on # desk.desktop /\ EnableOutputs(on, desk.desktop \ on)

\* restoreDisplacedViews from the idle callback.
RestoreIdle(fallback, back) ==
  LET t == IF fallback = None THEN Now ELSE RestoreDisplaced(Now, fallback, back)
      moved == \E p \in Defined(Now) : t.pads[p].output # pads[p].output /\ Members(Now, p) # {}
  IN /\ desk.idle /\ fallback \in Preferred
     /\ \E s \in (IF moved THEN {} ELSE {t}) \cup (IF fallback = None THEN {} ELSE Refocus(t, desk.lit)) : Become(s)
     /\ desk' = [desk EXCEPT !.idle = FALSE]
     /\ placed' = [p \in Names |-> IF pads'[p] # None /\ placed[p] = None THEN pads'[p].output ELSE placed[p]]
     /\ UNCHANGED events

UserNext ==
  \/ \E v \in Views \ wins.mapped, parent \in Views \cup {None} :
       \/ \E focused \in BOOLEAN, inherits \in BOOLEAN : MapView(v, parent, focused, inherits)
       \/ \E p \in Names, ask \in {"unset", "yes", "no"}, o \in desk.desktop : MapIntoPad(v, parent, p, ask, o)
  \/ \E v \in Views, p \in Names, ask \in BOOLEAN, o \in desk.desktop : LateRule(v, p, ask, o)
  \/ \E v \in Views, parent \in Views \cup {None}, inherits \in BOOLEAN : SetParent(v, parent, inherits)
  \/ \E v \in Views : CloseView(v) \/ Focus(v)
  \/ \E v \in Views, o \in Preferred : FocusById(v, o)
  \/ \E v \in Views, p \in Names, o \in Preferred : MoveToScratchpad(v, p, o)
  \/ \E p \in Names, o \in Preferred : Toggle(p, o) \/ ShowStep(p, 1, o) \/ ShowStep(p, -1, o)
  \/ \E p \in Names : RestoreFocused(p) \/ FocusNext(p)
  \/ \E v \in Views, o \in desk.desktop \cup {None} : FinishMove(v, o)
  \/ HideAll \/ GiveBackFocus
  \/ \E names \in Configs : ReconcileConfig(names)

OutputNext ==
  \/ \E o \in Outputs, b \in BOOLEAN : AddOutput(o, b) \/ SetPowered(o, b)
  \/ \E o \in Outputs : RemoveOutput(o)
  \/ \E on \in SUBSET Outputs : ReloadOutputs(on) \/ ManageOutputs(on)
  \/ \E o \in Outputs \cup {None}, back \in SUBSET Entries(Now) : RestoreIdle(o, back)

ClockNext == \E p \in Names : SpawnExpires(p)

FrameNext == \E v \in Views : TickAnimations(v)

Next == UserNext \/ OutputNext \/ ClockNext \/ FrameNext

Spec == Init /\ [][Next]_vars

-----------------------------------------------------------------------------
(* Properties.                                                             *)

Windows ==
  [mapped : SUBSET Views, parent : [Views -> Views \cup {None}], entries : Seq(Views),
   pad : [Views -> Names \cup {None}], shown : SUBSET Views, hiding : SUBSET Views,
   focus : Views \cup {None}, noted : Views \cup {None}]

Desk == [listed : Seq(Outputs), desktop : SUBSET Outputs, lit : SUBSET Outputs, idle : BOOLEAN]

\* The shape of the state.  A window is listed once, in a pad that is defined;
\* a pad that is hidden shows no single window, one that is visible has members.
TypeOK ==
  /\ pads \in [Names -> Pad \cup {None}] /\ wins \in Windows /\ desk \in Desk
  /\ IsInjective(wins.entries) /\ Entries(Now) \subseteq wins.mapped
  /\ \A v \in Views : wins.pad[v] # None <=> v \in Entries(Now)
  /\ \A v \in Entries(Now) : wins.pad[v] \in Defined(Now)
  /\ wins.shown \subseteq wins.mapped /\ wins.mapped \ Entries(Now) \subseteq wins.shown
  /\ wins.focus \in wins.mapped \cup {None} /\ wins.parent \in [Views -> wins.mapped \cup {None}]
  /\ \A p \in Defined(Now) :
       /\ ~pads[p].visible => pads[p].solo = None
       /\ pads[p].visible => Members(Now, p) # {}
  /\ desk.lit \subseteq desk.desktop /\ desk.desktop \subseteq Listed /\ events \in 0..MaxEvents

\* The manager keeps View pointers in five places and frees none of the
\* windows: each points at a window that is still in that pad, or in a pad,
\* whatever order windows close, move over and are handed over in.  A window
\* that is on screen is not about to be disabled by the end of a fade, unless
\* it is a dialog: finishMove shows one without ending its fade.
PointersAreMembers ==
  /\ \A p \in Defined(Now) : {pads[p].last, pads[p].solo} \subseteq Members(Now, p) \cup {None}
  /\ wins.noted \in Entries(Now) \cup {None}
  /\ wins.hiding \subseteq Entries(Now)
  /\ \A v \in wins.hiding \cap wins.shown : Owner[v] # None

\* The manager keeps Output pointers too: no pad is on, and no launch waits
\* for, an output that was unplugged.
OutputsAreListed ==
  \A p \in Defined(Now) :
    /\ pads[p].output \in Listed \cup {None}
    /\ pads[p].spawn # None => pads[p].spawn.output \in Listed

\* scratchpad.md: "Only one scratchpad can be visible on an output, but
\* different outputs can show different scratchpads."
OnePadPerOutput ==
  \A p, q \in Defined(Now) : (p # q /\ pads[p].visible /\ pads[q].visible /\ pads[p].output = pads[q].output)
                               => pads[p].output = None

\* scratchpad.md: the members of a pad appear together, or one at a time with
\* the dialogs that belong to it; nothing of a hidden pad, or of one that has
\* no output, is on screen.
ShowsWhatItHolds ==
  \A p \in Defined(Now) : \A v \in Members(Now, p) :
    LET pad == pads[p]
        up  == pad.visible /\ pad.output # None
    IN /\ v \in wins.shown => up /\ (pad.solo \in {None, v} \/ Owner[v] # None)
       /\ up /\ pad.solo \in {None, v} => v \in wins.shown

\* scratchpad.md: a pad whose output disconnects "returns when the original
\* output becomes available, unless the user has deliberately moved it
\* elsewhere", whichever outputs it took refuge on; and no window waits in a
\* pad without an output while there is one.
BackOnItsOutput ==
  ~desk.idle => \A p \in Defined(Now) :
    /\ placed[p] \in desk.lit => pads[p].output = placed[p]
    /\ Members(Now, p) # {} /\ desk.lit # {} => pads[p].output # None

ByUser ==
  \/ \E p \in Names, o \in Preferred : Toggle(p, o) \/ ShowStep(p, 1, o) \/ ShowStep(p, -1, o)
  \/ \E v \in Views, p \in Names, o \in Preferred : MoveToScratchpad(v, p, o)
  \/ \E p \in Names : RestoreFocused(p)
  \/ \E names \in Configs : ReconcileConfig(names)

\* scratchpad.md: showing a pad focuses a member, hiding it "returns focus to a
\* workspace window": after these the keyboard is not on a window off screen,
\* though they may hide other pads, on the same output, on their way.
FocusFollows ==
  [][wins'.focus \in wins'.shown \cup {None} \/ ~ByUser]_wins
=============================================================================
