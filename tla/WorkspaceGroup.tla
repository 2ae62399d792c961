--------------------------- MODULE WorkspaceGroup ---------------------------
(***************************************************************************)
(* One output's workspace inventory (src/workspace/workspace.cpp): which   *)
(* workspaces exist and in which order, which one is active, the slide     *)
(* between two of them, the hold a scene presentation takes on the         *)
(* inventory, the launches that reserved a workspace, and the              *)
(* reconciliation that prunes and replenishes a dynamic inventory.         *)
(*                                                                         *)
(* The compositor runs one event loop, so a handler is one step.  Handlers *)
(* call each other before they return (a switch cancels a transition,      *)
(* which releases a hold, which reconciles); each of those calls is an     *)
(* operator from group records to group records, and an action is their    *)
(* composition in the order of the code.                                   *)
(***************************************************************************)
EXTENDS Integers, FiniteSets, Sequences

CONSTANTS
  MaxWorkspaces,  \* kMaxWorkspaces: the most workspaces one output may have
  Views,          \* the toplevels that may be mapped on this output
  Launches,       \* the activation tokens that may reserve a workspace
  Names,          \* the workspace names a configuration may declare
  Anonymous,      \* the label of a workspace whose name is its position
  None,           \* nullptr
  Configs,        \* the configurations, resolved for this output, a reload may install
  Disturbances    \* the external events of which Disturbance lists the kinds

\* A reload that only touches layouts or a lost renderer ends a slide at once;
\* a scene transition fails after it took its hold; an ext-workspace client
\* deactivates the only workspace.
Disturbance == {"slide_abort", "transition_failure", "deactivate_last"}

\* What resolveWorkspacesForOutput and resolveDynamicWorkspaceMinimum return:
\* the declared names of a dynamic output, or the labels of a fixed inventory.
ConfigType ==
  [dynamic : BOOLEAN, names : Seq(Names), fixed : Seq(Names \cup {Anonymous}),
   emptyAbove : BOOLEAN, minimum : Nat]

ASSUME ConstantAssumption ==
  /\ MaxWorkspaces \in Nat /\ MaxWorkspaces >= 2
  /\ None \notin Int /\ None \notin Views
  /\ None \notin {"pair", "set", "interactive", "preparing", "ending", "shown"}
  /\ Anonymous \notin Names /\ None \notin Names \cup {Anonymous}
  /\ Disturbances \subseteq Disturbance
  /\ Configs \subseteq ConfigType
  /\ \A c \in Configs :
       /\ c.minimum \in 1..MaxWorkspaces
       /\ \A i, j \in DOMAIN c.names : c.names[i] = c.names[j] => i = j
       /\ \A i, j \in DOMAIN c.fixed : c.fixed[i] = c.fixed[j] /\ c.fixed[i] # Anonymous => i = j
       /\ ~c.dynamic => Len(c.fixed) \in 1..MaxWorkspaces

VARIABLES
  config,  \* the configuration in force
  group    \* the WorkspaceGroup and what hangs from its workspaces

vars == <<config, group>>

-----------------------------------------------------------------------------
(* Reading the group.  A workspace is its serial number: nextWorkspaceId   *)
(* never hands one out twice.  index is m_index, the place in m_workspaces. *)

NoSlide == [base |-> None, previous |-> None, next |-> None, settling |-> FALSE]
NoHold  == [owner |-> None, order |-> <<>>, target |-> None, phase |-> None]

Live(g) == DOMAIN g.index
Size(g) == Cardinality(Live(g))

WorkspaceAt(g, i) ==
  IF \E w \in Live(g) : g.index[w] = i
  THEN CHOOSE w \in Live(g) : g.index[w] = i
  ELSE None

Occupied(g, w) == \E v \in Views : g.home[v] = w
Empty(g, w)    == g.label[w] = Anonymous /\ ~Occupied(g, w)
Reserved(g, w) == \E l \in Launches : g.launch[l] = w
IsFirst(g, w)  == \A x \in Live(g) : g.index[w] <= g.index[x]
IsLast(g, w)   == \A x \in Live(g) : g.index[x] <= g.index[w]
SlideActive(g) == g.slide.base # None
PairActive(g)  == g.hold.owner = "pair"

Least(a, b) == IF a < b THEN a ELSE b

-----------------------------------------------------------------------------
(* Changing the inventory.                                                 *)

Fresh(g, n) == g.serial .. (g.serial + n - 1)

\* Mutation: the serial is not advanced.
InsertAtReusingIds(g, i, n) ==
  [g EXCEPT
    !.index = [w \in Live(g) \cup Fresh(g, n) |->
                 IF w \in Live(g)
                 THEN IF g.index[w] >= i THEN g.index[w] + n ELSE g.index[w]
                 ELSE i + (w - g.serial)],
    !.label = [w \in Live(g) \cup Fresh(g, n) |->
                 IF w \in Live(g) THEN g.label[w] ELSE Anonymous]]

\* n new anonymous workspaces from position i on.
InsertAt(g, i, n) ==
  [g EXCEPT
    !.index = [w \in Live(g) \cup Fresh(g, n) |->
                 IF w \in Live(g)
                 THEN IF g.index[w] >= i THEN g.index[w] + n ELSE g.index[w]
                 ELSE i + (w - g.serial)],
    !.label = [w \in Live(g) \cup Fresh(g, n) |->
                 IF w \in Live(g) THEN g.label[w] ELSE Anonymous],
    !.serial = g.serial + n]

\* Mutation: the positions after an erased workspace stay.
EraseWithoutRenumbering(g, dropped) ==
  LET kept == Live(g) \ dropped
  IN [g EXCEPT
       !.index = [w \in kept |-> g.index[w]],
       !.label = [w \in kept |-> g.label[w]],
       !.previous = IF g.previous \in dropped THEN None ELSE g.previous,
       !.launch = [l \in Launches |->
                     IF g.launch[l] \in dropped THEN None ELSE g.launch[l]]]

\* Mutation: m_previous keeps pointing at an erased workspace.
EraseLeavingPrevious(g, dropped) ==
  LET kept == Live(g) \ dropped
  IN [g EXCEPT
       !.index = [w \in kept |-> Cardinality({x \in kept : g.index[x] < g.index[w]})],
       !.label = [w \in kept |-> g.label[w]],
       !.launch = [l \in Launches |->
                     IF g.launch[l] \in dropped THEN None ELSE g.launch[l]]]

\* Erasing a workspace runs its destructor, which resets its launch anchor.
Erase(g, dropped) ==
  LET kept == Live(g) \ dropped
  IN [g EXCEPT
       !.index = [w \in kept |-> Cardinality({x \in kept : g.index[x] < g.index[w]})],
       !.label = [w \in kept |-> g.label[w]],
       !.previous = IF g.previous \in dropped THEN None ELSE g.previous,
       !.launch = [l \in Launches |->
                     IF g.launch[l] \in dropped THEN None ELSE g.launch[l]]]

\* Mutation: m_previous may equal m_active.
KeepRevisit(g) == g

ForgetRevisit(g) == [g EXCEPT !.previous = IF @ = g.active THEN None ELSE @]

\* The names resolveWorkspacesForOutput keeps: the sentinels take their room.
Desired(c) ==
  SubSeq(c.names, 1,
         Least(Len(c.names), MaxWorkspaces - (IF c.emptyAbove THEN 2 ELSE 1)))

DropUnwantedNames(g, c) ==
  LET wanted == {Desired(c)[i] : i \in DOMAIN Desired(c)}
      first(w) == \A x \in Live(g) : g.label[x] = g.label[w] => g.index[w] <= g.index[x]
  IN [g EXCEPT !.label = [w \in Live(g) |->
        IF g.label[w] \in wanted /\ first(w) THEN g.label[w] ELSE Anonymous]]

\* Positions in Desired(c) that no workspace carries, and how many of them are
\* declared after i: the code serves them from the last declaration back.
Missing(g, c) == {i \in DOMAIN Desired(c) : \A w \in Live(g) : g.label[w] # Desired(c)[i]}
Turn(g, c, i) == Cardinality({j \in Missing(g, c) : j > i})
Served(g, c)  == {i \in Missing(g, c) : Turn(g, c, i) < MaxWorkspaces - Size(g)}

\* Each name served while there is room becomes a new workspace at the top,
\* below a leading sentinel; the i-th takes the i-th serial that is free.
InsertNames(g, c) ==
  LET leading == c.emptyAbove /\ \E w \in Live(g) : IsFirst(g, w) /\ Empty(g, w)
      top     == IF leading THEN 1 ELSE 0
      many    == Cardinality(Served(g, c))
      new     == {g.serial + i : i \in Served(g, c)}
      above(i) == Cardinality({j \in Served(g, c) : j < i})
  IN [g EXCEPT
        !.serial = @ + Len(Desired(c)) + 1,
        !.index = [w \in Live(g) \cup new |->
                     IF w \in new THEN top + above(w - g.serial)
                     ELSE IF g.index[w] >= top THEN g.index[w] + many ELSE g.index[w]],
        !.label = [w \in Live(g) \cup new |->
                     IF w \in new THEN Desired(c)[w - g.serial] ELSE g.label[w]]]

\* At the limit a name claims the first ordinary empty workspace instead.
ClaimForNames(g, c) ==
  LET spare == {w \in Live(g) : /\ Empty(g, w) /\ ~Reserved(g, w)
                                /\ ~(c.emptyAbove /\ IsFirst(g, w))
                                /\ ~IsLast(g, w)}
      rank(w)   == Cardinality({x \in spare : g.index[x] < g.index[w]})
      claims(w) == {i \in Missing(g, c) : w \in spare /\ Turn(g, c, i) = rank(w)}
  IN [g EXCEPT !.label = [w \in Live(g) |->
        IF claims(w) # {} THEN Desired(c)[CHOOSE i \in claims(w) : TRUE] ELSE g.label[w]]]

ReconcileNames(g, c) ==
  ClaimForNames(InsertNames(DropUnwantedNames(g, c), c), c)

\* The empties that stay: the leading sentinel, the active workspace, and as
\* trailing sentinel the active one if only empties follow it, else the last.
FrontKeeper(g, c) == {w \in Live(g) : c.emptyAbove /\ IsFirst(g, w) /\ Empty(g, w)}
ActiveKeeper(g)   == {w \in Live(g) : w = g.active /\ Empty(g, w)}
BackKeeper(g, c) ==
  LET others == Live(g) \ FrontKeeper(g, c)
      atEnd  == {w \in ActiveKeeper(g) \cap others :
                   \A x \in Live(g) : g.index[x] > g.index[w] => Empty(g, x)}
  IN IF atEnd # {} THEN atEnd ELSE {w \in others : IsLast(g, w) /\ Empty(g, w)}

\* Mutation: launchReserved is not asked.
PrunableThoughReserved(g, c) ==
  {w \in Live(g) : Empty(g, w)}
    \ (FrontKeeper(g, c) \cup ActiveKeeper(g) \cup BackKeeper(g, c))

Prunable(g, c) ==
  {w \in Live(g) : Empty(g, w) /\ ~Reserved(g, w)}
    \ (FrontKeeper(g, c) \cup ActiveKeeper(g) \cup BackKeeper(g, c))

\* From the end, and only while the group is above its floor.
Pruned(g, c) ==
  {w \in Prunable(g, c) :
     Cardinality({x \in Prunable(g, c) : g.index[x] > g.index[w]}) < Size(g) - c.minimum}

FillToMinimum(g, c) ==
  IF Size(g) < c.minimum THEN InsertAt(g, Size(g), c.minimum - Size(g)) ELSE g

\* Mutation: the limit is not asked.
AppendPastTheLimit(g, front) ==
  IF \A w \in Live(g) : IsLast(g, w) => ~Empty(g, w) \/ w \in front
  THEN InsertAt(g, Size(g), 1)
  ELSE g

AppendSentinel(g, front) ==
  IF /\ Size(g) < MaxWorkspaces
     /\ \A w \in Live(g) : IsLast(g, w) => ~Empty(g, w) \/ w \in front
  THEN InsertAt(g, Size(g), 1)
  ELSE g

PrependSentinel(g, c, front) ==
  IF c.emptyAbove /\ front = {} /\ Size(g) < MaxWorkspaces THEN InsertAt(g, 0, 1) ELSE g

Rebuild(g, c) ==
  LET g1    == ReconcileNames([g EXCEPT !.pending = FALSE], c)
      front == FrontKeeper(g1, c)
      g2    == FillToMinimum(Erase(g1, Pruned(g1, c)), c)
  IN ForgetRevisit(PrependSentinel(AppendSentinel(g2, front), c, front))

\* Mutation: the pending flag is not set.
DropDeferred(g) == g

\* reconcileDynamic while m_inventoryActivating is set.
Defer(g) == IF g.dynamic THEN [g EXCEPT !.pending = TRUE] ELSE g

\* Mutation: the hold is not asked.
ReconcileWhileHeld(g, c) ==
  IF ~g.dynamic \/ SlideActive(g) THEN g
  ELSE IF c.dynamic THEN Rebuild(g, c)
  ELSE [g EXCEPT !.pending = FALSE]

Reconcile(g, c) ==
  IF g.dynamic /\ g.hold # NoHold THEN Defer(g)
  ELSE IF ~g.dynamic \/ SlideActive(g) THEN g
  ELSE IF c.dynamic THEN Rebuild(g, c)
  ELSE [g EXCEPT !.pending = FALSE]

-----------------------------------------------------------------------------
(* Selection, slides and holds.                                            *)

Invalidate(g)  == [g EXCEPT !.hold = NoHold]
SlideFinish(g) == [g EXCEPT !.slide = NoSlide]

\* wild: the code went through a pointer to no live workspace.
SwitchTo(g, w) ==
  [g EXCEPT !.previous = IF g.active = None THEN @ ELSE g.active,
            !.active = w,
            !.wild = @ \/ w \notin Live(g)]

SwitchNow(g, c, w) == Reconcile(SwitchTo(SlideFinish(Invalidate(g)), w), c)

\* Mutation: the settle is not started.
StartSlideUnsettled(g, w) ==
  LET before == g.index[w] < g.index[g.active]
  IN [SwitchTo(Invalidate(g), w) EXCEPT
        !.slide = [base |-> g.active,
                   previous |-> IF before THEN w ELSE None,
                   next |-> IF before THEN None ELSE w,
                   settling |-> FALSE]]

StartSlide(g, w) ==
  LET before == g.index[w] < g.index[g.active]
  IN [SwitchTo(Invalidate(g), w) EXCEPT
        !.slide = [base |-> g.active,
                   previous |-> IF before THEN w ELSE None,
                   next |-> IF before THEN None ELSE w,
                   settling |-> TRUE]]

\* Mutation: a release forgets what was deferred.
ReleaseAndForget(g, c) == Invalidate(g)

ReleaseHold(g, c) ==
  LET free == Invalidate(g) IN IF g.pending THEN Reconcile(free, c) ELSE free

ActivateSelection(g, w) ==
  IF w \notin Live(g) \cap DOMAIN g.hold.order THEN g
  ELSE Defer(IF g.active = w THEN g ELSE SwitchTo(SlideFinish(g), w))

\* A transition that is cancelled still makes the switch it was asked for.
FinishRequested(g) ==
  IF g.hold.phase = "preparing" THEN ActivateSelection(g, g.hold.target) ELSE g

CancelPair(g, c) == ReleaseHold(FinishRequested(g), c)

TakeHold(g, owner, target, phase) ==
  [g EXCEPT !.hold = [owner |-> owner, order |-> g.index, target |-> target, phase |-> phase]]

MayHold(g) == g.hold = NoHold /\ g.active # None /\ ~SlideActive(g)

\* Mutation: the cancelled transition reconciles.
InterruptAndReconcile(g, c) == IF PairActive(g) THEN CancelPair(g, c) ELSE g

\* activate cancels a running transition without reconciling: that could prune
\* the empty workspace it is about to switch to.
Interrupt(g, c) == IF PairActive(g) THEN Invalidate(FinishRequested(g)) ELSE g

\* activate(w): the outcomes depend on whether a scene transition is bound
\* and begins, and on whether the switch may slide.
Native(g, c, w, animate) ==
  {SwitchNow(g, c, w)} \cup
  (IF animate /\ g.active # None /\ w \in Live(g) THEN {StartSlide(g, w)} ELSE {})

Activations(g, c, w, animate) ==
  LET g1     == Interrupt(g, c)
      paired == animate /\ MayHold(g1)
  IN IF g1.active = w THEN {Reconcile(g1, c)}
     ELSE Native(g1, c, w, animate)
       \cup (IF paired THEN {TakeHold(g1, "pair", w, "preparing")} ELSE {})
       \cup (IF paired /\ "transition_failure" \in Disturbances
             THEN Native(ReleaseHold(g1, c), c, w, animate) ELSE {})

\* slideSettle towards the neighbour a release chose.
Landing(g, delta) ==
  LET aim == IF delta < 0 THEN g.slide.previous ELSE IF delta > 0 THEN g.slide.next ELSE None
  IN IF aim = None THEN g.slide.base ELSE aim

SlideSettle(g, c, delta) ==
  LET target == Landing(g, delta)
      g1 == IF target = g.active THEN g
            ELSE [SwitchTo(g, target) EXCEPT
                    !.previous = g.active, !.wild = @ \/ g.active = None]
  IN {[g1 EXCEPT !.slide.settling = TRUE], Reconcile(SlideFinish(g1), c)}

\* finishSwitch: the end of a swipe settles whatever slide is on screen.
GestureEnd(g, c, delta) ==
  LET g1 == [g EXCEPT !.gesture = FALSE]
  IN IF g.gesture /\ SlideActive(g) THEN SlideSettle(g1, c, delta) ELSE {g1}

-----------------------------------------------------------------------------
(* A reload that changes the inventory.                                    *)

\* Mutation: names are not matched.
KeepsByPosition(g, c, i) == {w \in Live(g) : g.index[w] = i}

\* The workspace a fixed slot keeps: the one of its name, else the one in its place.
Keeps(g, c, i) ==
  LET called == {w \in Live(g) : c.fixed[i + 1] # Anonymous /\ g.label[w] = c.fixed[i + 1]}
      taken  == {w \in Live(g) : g.label[w] # Anonymous
                                 /\ \E j \in DOMAIN c.fixed : c.fixed[j] = g.label[w]}
  IN IF called # {} THEN called ELSE {w \in Live(g) \ taken : g.index[w] = i}

\* Who stands in slot i: the workspace it keeps, or a new one.
Slots(c) == 0 .. (Len(c.fixed) - 1)
Holder(g, c, i) ==
  IF Keeps(g, c, i) = {} THEN g.serial + i ELSE CHOOSE w \in Keeps(g, c, i) : TRUE

Removed(g, c) == Live(g) \ {Holder(g, c, i) : i \in Slots(c)}

\* Mutation: a removed workspace takes its views along.
DropRemoved(g, c, w) == IF w \in Removed(g, c) THEN None ELSE w

\* What a pointer to w becomes: a workspace that is removed yields to the one
\* in its place, or to the last.
Relocated(g, c, w) ==
  IF w \in Removed(g, c) THEN Holder(g, c, Least(g.index[w], Len(c.fixed) - 1)) ELSE w

FixedInventory(g, c) ==
  LET order == {Holder(g, c, i) : i \in Slots(c)}
      slot(w) == CHOOSE i \in Slots(c) : Holder(g, c, i) = w
  IN ForgetRevisit([g EXCEPT
       !.dynamic = FALSE,
       !.index = [w \in order |-> slot(w)],
       !.label = [w \in order |-> c.fixed[slot(w) + 1]],
       !.serial = @ + Len(c.fixed),
       !.home = [v \in Views |-> Relocated(g, c, g.home[v])],
       !.launch = [l \in Launches |->
                     IF g.launch[l] \in Removed(g, c) THEN None ELSE g.launch[l]],
       !.active = Relocated(g, c, g.active),
       !.previous = IF @ \in Removed(g, c) THEN None ELSE @,
       !.wild = @ \/ g.active = None])

\* Mutation: a reload starts again on the first workspace.
ReconcileInventoryRestarting(g, c) ==
  LET g1 == SlideFinish(Invalidate(g))
      h  == IF c.dynamic THEN Reconcile([g1 EXCEPT !.dynamic = TRUE], c) ELSE FixedInventory(g1, c)
  IN [h EXCEPT !.active = WorkspaceAt(h, 0)]

ReconcileInventory(g, c) ==
  LET g1 == SlideFinish(Invalidate(g))
  IN IF c.dynamic THEN Reconcile([g1 EXCEPT !.dynamic = TRUE], c) ELSE FixedInventory(g1, c)

-----------------------------------------------------------------------------
(* Construction.                                                           *)

InitialLabels(c) ==
  LET lead  == IF c.emptyAbove THEN <<Anonymous>> ELSE <<>>
      named == lead \o Desired(c)
      count == IF c.minimum > Len(named) + 1 THEN c.minimum ELSE Len(named) + 1
  IN IF c.dynamic
     THEN named \o [i \in 1..(count - Len(named)) |-> Anonymous]
     ELSE c.fixed

Constructed(c) ==
  LET ids == 0 .. (Len(InitialLabels(c)) - 1)
  IN [index |-> [w \in ids |-> w],
      label |-> [w \in ids |-> InitialLabels(c)[w + 1]],
      home |-> [v \in Views |-> None],
      launch |-> [l \in Launches |-> None],
      dynamic |-> c.dynamic,
      active |-> None, previous |-> None,
      slide |-> NoSlide, gesture |-> FALSE,
      hold |-> NoHold, pending |-> FALSE,
      serial |-> Len(InitialLabels(c)), wild |-> FALSE]

Init ==
  /\ config \in Configs
  /\ group = SwitchNow(Constructed(config), config, 0)

-----------------------------------------------------------------------------
(* The handlers.                                                           *)

MapView(v, w) ==
  /\ group.home[v] = None
  /\ group' = Reconcile([group EXCEPT !.home[v] = w], config)
  /\ UNCHANGED config

UnmapView(v) ==
  /\ group.home[v] # None
  /\ group' = Reconcile([group EXCEPT !.home[v] = None], config)
  /\ UNCHANGED config

MoveView(v, w) ==
  /\ group.home[v] \notin {None, w}
  /\ group' = Reconcile([group EXCEPT !.home[v] = w], config)
  /\ UNCHANGED config

\* trackActivationToken: a launch is remembered with the active workspace or
\* with the workspace of the window it came from.
RecordLaunch(l, w) ==
  /\ group.launch[l] = None
  /\ w = group.active \/ Occupied(group, w)
  /\ group' = [group EXCEPT !.launch[l] = w]
  /\ UNCHANGED config

\* A window claims the token (its view keeps the reservation), or the overview
\* closes: the group is reconciled and nothing else happens.
ReconcileDynamicWorkspaces ==
  /\ group' = Reconcile(group, config)
  /\ UNCHANGED config

\* The launched window maps where the launch was recorded; a window rule
\* that sends it elsewhere ends the launch and reconciles again.
PlaceLaunch(l, v, w) ==
  /\ group.launch[l] # None /\ group.home[v] = None
  /\ LET g1 == Reconcile([group EXCEPT !.home[v] = w], config)
         g2 == [g1 EXCEPT !.launch[l] = None]
     IN group' = IF w = group.launch[l] THEN g2 ELSE Reconcile(g2, config)
  /\ UNCHANGED config

ExpireLaunch(l) ==
  /\ group.launch[l] # None
  /\ group' = Reconcile([group EXCEPT !.launch[l] = None], config)
  /\ UNCHANGED config

Activate(w, animate) ==
  /\ group' \in Activations(group, config, w, animate)
  /\ UNCHANGED config

\* select with back_and_forth: choosing the active workspace goes back.
SelectPrevious ==
  /\ group.previous \notin {None, group.active} /\ group.active # None
  /\ group' \in Activations(group, config, group.previous, TRUE)
  /\ UNCHANGED config

Deactivate ==
  LET fallback == IF WorkspaceAt(group, 0) = group.active
                  THEN WorkspaceAt(group, 1) ELSE WorkspaceAt(group, 0)
  IN /\ group.active # None
     /\ \/ /\ fallback # None
           /\ group' \in Activations(group, config, fallback, FALSE)
        \/ /\ fallback = None /\ "deactivate_last" \in Disturbances
           /\ group' = [Invalidate(group) EXCEPT !.active = None]
     /\ UNCHANGED config

\* An ext-workspace create request is served by an empty workspace if there is one.
CreateWorkspace ==
  /\ group.dynamic /\ Size(group) < MaxWorkspaces
  /\ \A w \in Live(group) : ~Empty(group, w)
  /\ group' = ForgetRevisit(InsertAt(Invalidate(group), Size(group), 1))
  /\ UNCHANGED config

\* The overview drops a window between two workspaces: insert, then move it there.
DropBetween(v, i) ==
  /\ group.dynamic /\ Size(group) < MaxWorkspaces /\ group.home[v] # None
  /\ group' = LET g1 == ForgetRevisit(InsertAt(Invalidate(group), i, 1))
              IN Reconcile([g1 EXCEPT !.home[v] = group.serial], config)
  /\ UNCHANGED config

Swap(g, a, b) == [g EXCEPT !.index[a] = g.index[b], !.index[b] = g.index[a]]

MoveActiveWorkspace(direction) ==
  LET target == WorkspaceAt(group, group.index[group.active] + direction)
  IN /\ group.active # None
     /\ target # None
     /\ ~(/\ group.dynamic /\ Empty(group, target)
          /\ \/ direction > 0 /\ IsLast(group, target)
             \/ direction < 0 /\ IsFirst(group, target) /\ config.emptyAbove)
     /\ group' = Reconcile(Swap(SlideFinish(Invalidate(group)), group.active, target), config)
     /\ UNCHANGED config

\* A three-finger swipe follows the fingers between the neighbours of the
\* active workspace; a scene transition it could not begin is cancelled first.
GestureSlide ==
  LET beside(g, step) ==
        IF WorkspaceAt(group, group.index[group.active] + step) = None THEN None
        ELSE WorkspaceAt(g, g.index[g.active] + step)
      begun(g) ==
        [Invalidate(g) EXCEPT
           !.gesture = TRUE,
           !.slide = [base |-> g.active, previous |-> beside(g, -1),
                      next |-> beside(g, 1), settling |-> FALSE]]
  IN /\ ~group.gesture /\ group.hold.owner # "set"
     /\ \/ group.active = None /\ group' = [group EXCEPT !.wild = TRUE]
        \/ group.active # None /\ group' = begun(group)
        \/ group.active # None /\ PairActive(group)
           /\ group' = begun(CancelPair(group, config))
     /\ UNCHANGED config

GestureRelease(delta) ==
  /\ group.gesture
  /\ group' \in GestureEnd(group, config, delta)
  /\ UNCHANGED config

\* Mutation: the landing does not reconcile.
SlideLandedUnreconciled ==
  /\ group.slide.settling
  /\ group' = SlideFinish(group)
  /\ UNCHANGED config

\* tickAnimations: the settle arrives.
SlideLanded ==
  /\ group.slide.settling
  /\ group' = Reconcile(SlideFinish(group), config)
  /\ UNCHANGED config

\* slideFinish by a layout reload, an output change, a lost renderer or an
\* opening overview: the slide ends and nobody reconciles.
SlideAbort ==
  /\ "slide_abort" \in Disturbances /\ SlideActive(group)
  /\ \E g \in GestureEnd(group, config, 0) : group' = SlideFinish(g)
  /\ UNCHANGED config

ReloadInventory(c) ==
  /\ c # config
  /\ config' = c
  /\ \E g \in GestureEnd(group, c, 0) : group' = ReconcileInventory(g, c)

\* A scene presentation of all workspaces holds the inventory until it ends,
\* with a selection or without one.
PresentationBegin ==
  /\ MayHold(group)
  /\ group' = TakeHold(group, "set", None, "shown")
  /\ UNCHANGED config

PresentationCommit(w) ==
  /\ group.hold.owner = "set" /\ w \in DOMAIN group.hold.order
  /\ group' = IF w = group.active THEN ReleaseHold(Defer(group), config)
              ELSE SwitchNow(group, config, w)
  /\ UNCHANGED config

PresentationCancel ==
  /\ group.hold.owner = "set"
  /\ group' = ReleaseHold(group, config)
  /\ UNCHANGED config

\* A swipe begins a scene transition, replacing one that still runs.
PairBegin(w) ==
  LET g1 == IF PairActive(group) THEN CancelPair(group, config) ELSE group
  IN /\ w # group.active /\ MayHold(g1)
     /\ w \in Live(g1) /\ w # g1.active
     /\ group' = TakeHold(g1, "pair", w, "interactive")
     /\ UNCHANGED config

\* The release decides; the switch is made now or when the lease is granted.
PairSettle(commit) ==
  /\ group.hold.phase = "interactive"
  /\ \/ /\ commit
        /\ group' = [group EXCEPT !.hold.phase = "preparing"]
     \/ /\ commit
        /\ group' = [ActivateSelection(group, group.hold.target) EXCEPT !.hold.phase = "ending"]
     \/ /\ ~commit
        /\ group' = [group EXCEPT !.hold.phase = "ending"]
  /\ UNCHANGED config

PairLease ==
  /\ group.hold.phase = "preparing"
  /\ group' = [ActivateSelection(group, group.hold.target) EXCEPT !.hold.phase = "ending"]
  /\ UNCHANGED config

\* The last frame was shown, or the transition was cancelled.
PairEnd ==
  /\ PairActive(group)
  /\ group' = CancelPair(group, config)
  /\ UNCHANGED config

Next ==
  \/ \E v \in Views, w \in Live(group) : MapView(v, w) \/ MoveView(v, w)
  \/ \E v \in Views : UnmapView(v)
  \/ \E v \in Views, i \in 0..Size(group) : DropBetween(v, i)
  \/ \E l \in Launches, w \in Live(group) : RecordLaunch(l, w)
  \/ \E l \in Launches, v \in Views, w \in Live(group) : PlaceLaunch(l, v, w)
  \/ \E l \in Launches : ExpireLaunch(l)
  \/ ReconcileDynamicWorkspaces
  \/ \E w \in Live(group), animate \in BOOLEAN : Activate(w, animate)
  \/ SelectPrevious
  \/ Deactivate
  \/ CreateWorkspace
  \/ \E direction \in {-1, 1} : MoveActiveWorkspace(direction)
  \/ GestureSlide
  \/ \E delta \in {-1, 0, 1} : GestureRelease(delta)
  \/ SlideLanded
  \/ SlideAbort
  \/ \E c \in Configs : ReloadInventory(c)
  \/ PresentationBegin
  \/ \E w \in Live(group) : PresentationCommit(w)
  \/ PresentationCancel
  \/ \E w \in Live(group) : PairBegin(w)
  \/ \E commit \in BOOLEAN : PairSettle(commit)
  \/ PairLease
  \/ PairEnd

Spec == Init /\ [][Next]_vars

-----------------------------------------------------------------------------
(* Properties.                                                             *)

OptionalOf(S) == S \cup {None}

Fields == {"index", "label", "home", "launch", "dynamic", "active", "previous",
           "slide", "gesture", "hold", "pending", "serial", "wild"}

WellTyped(g) ==
  /\ g = [f \in Fields |-> g[f]]
  /\ g.serial \in Nat /\ Live(g) \subseteq 0 .. (g.serial - 1)
  /\ g.index \in [Live(g) -> Nat]
  /\ g.label \in [Live(g) -> Names \cup {Anonymous}]
  /\ g.home \in [Views -> OptionalOf(Nat)]
  /\ g.launch \in [Launches -> OptionalOf(Nat)]
  /\ g.active \in OptionalOf(Nat) /\ g.previous \in OptionalOf(Nat)
  /\ g.slide \in [base : OptionalOf(Nat), previous : OptionalOf(Nat),
                  next : OptionalOf(Nat), settling : BOOLEAN]
  /\ SlideActive(g) \/ g.slide = NoSlide
  /\ g.hold = [f \in {"owner", "order", "target", "phase"} |-> g.hold[f]]
  /\ g.hold.owner \in {None, "pair", "set"}
  /\ g.hold.target \in OptionalOf(Nat)
  /\ g.hold.phase \in {None, "interactive", "preparing", "ending", "shown"}
  /\ g.dynamic \in BOOLEAN /\ g.pending \in BOOLEAN
  /\ g.gesture \in BOOLEAN /\ g.wild \in BOOLEAN

\* The shape of the state; ids are serial numbers already handed out, and a
\* slide without a base has no neighbours.
TypeOK == config \in Configs /\ WellTyped(group)

PointsAtLive(g) ==
  /\ g.active \in OptionalOf(Live(g)) /\ g.previous \in OptionalOf(Live(g))
  /\ g.slide.base \in OptionalOf(Live(g))
  /\ g.slide.previous \in OptionalOf(Live(g))
  /\ g.slide.next \in OptionalOf(Live(g))
  /\ \A v \in Views : g.home[v] \in OptionalOf(Live(g))
  /\ \A l \in Launches : g.launch[l] \in OptionalOf(Live(g))

\* Every workspace the group, a view or a launch points at is in the
\* inventory: pruning and reloads leave no stale pointer (m_active,
\* m_previous, m_slide, View::m_workspace, WorkspaceLaunchAnchor::workspace).
NoDangling == PointsAtLive(group)

Current(g) == g.hold # NoHold => g.hold.order = g.index /\ ~SlideActive(g)

\* workspace_inventory.h: while a presentation holds the inventory, its
\* identities and their order are the live ones, and no slide runs under it.
HoldIsCurrent == Current(group)

\* The order is a permutation of the positions: no two workspaces share an
\* index and none is skipped, over every insert, prune, swap and reload.
OrderIsDense == {group.index[w] : w \in Live(group)} = 0 .. (Size(group) - 1)

\* The inventory never exceeds the limit of the outputs.
WithinLimit == Size(group) \in 1..MaxWorkspaces

\* activate, slideSettle and reconcileInventory never go through a pointer to
\* a workspace that is gone.
NoWildPointer == ~group.wild

\* Reconciled: no handler has left a reconciliation for later.
Settled ==
  /\ group.dynamic /\ config.dynamic
  /\ group.hold = NoHold /\ ~SlideActive(group) /\ ~group.pending

SentinelsInPlace ==
  Size(group) < MaxWorkspaces =>
    /\ \E w \in Live(group) : IsLast(group, w) /\ Empty(group, w)
    /\ config.emptyAbove =>
         \E w \in Live(group) : IsFirst(group, w) /\ ~IsLast(group, w) /\ Empty(group, w)

\* Below the limit a dynamic inventory ends in an empty anonymous workspace,
\* and with empty_above it begins with another one, once nothing is put off.
SentinelsPresent == Settled => SentinelsInPlace

\* What workspace-lifecycle.md says: outside a slide an occupied sentinel is
\* replaced, so the sentinels stand whenever no slide and no hold is on.
SentinelsOutsideSlides ==
  (/\ group.dynamic /\ config.dynamic
   /\ group.hold = NoHold /\ ~SlideActive(group)) => SentinelsInPlace

\* An empty anonymous workspace that no rule keeps.
Stray(w) ==
  /\ Empty(group, w) /\ ~Reserved(group, w) /\ w # group.active /\ ~IsLast(group, w)
  /\ ~(config.emptyAbove /\ IsFirst(group, w))

\* Empties that nothing keeps survive only near the floor: the prune stops at
\* min_workspaces and the two sentinels may be added on top of it.
StraysOnlyNearFloor ==
  (Settled /\ Size(group) > config.minimum + 2) => \A w \in Live(group) : ~Stray(w)

\* What workspace-lifecycle.md says: an inventory above its floor keeps no
\* other empty inactive anonymous workspace.
StraysOnlyAtFloor ==
  (Settled /\ Size(group) > config.minimum) => \A w \in Live(group) : ~Stray(w)

\* Going back never means staying: the remembered workspace is another one.
PreviousIsElsewhere == group.previous = None \/ group.previous # group.active

\* A launch recorded on an anonymous workspace keeps that workspace, still
\* anonymous, until its window is placed or its token expires; only a fixed
\* inventory takes it away.
LaunchKeepsWorkspace ==
  [][\A l \in Launches :
       (/\ group.launch[l] # None /\ config'.dynamic
        /\ group.label[group.launch[l]] = Anonymous) =>
         \/ /\ group'.launch[l] = group.launch[l]
            /\ group'.label[group.launch[l]] = Anonymous
         \/ ExpireLaunch(l)
         \/ \E v \in Views, w \in Live(group) : PlaceLaunch(l, v, w)]_vars

\* A workspace whose name is still declared keeps its identity over every
\* step, reloads between dynamic and fixed inventories included.
DeclaredNameKeepsIdentity ==
  [][\A w \in Live(group) :
       (/\ group.label[w] # Anonymous
        /\ config'.dynamic => \E i \in DOMAIN Desired(config') : Desired(config')[i] = group.label[w]
        /\ ~config'.dynamic => \E i \in DOMAIN config'.fixed : config'.fixed[i] = group.label[w]) =>
       /\ w \in Live(group')
       /\ group'.label[w] = group.label[w]]_vars

\* Only a user or a client switches: a reload that keeps the active workspace
\* leaves it active, and one that removes it activates the workspace its
\* windows went to.
ReloadFollowsActive ==
  [][config' # config /\ ~group.gesture /\ group.active # None =>
       \/ group'.active = group.active /\ group.active \in Live(group')
       \/ /\ group.active \notin Live(group')
          /\ \A v \in Views : group.home[v] = group.active => group'.home[v] = group'.active]_vars

\* No view loses its workspace except by unmapping.
ViewsKeepAHome ==
  [][\A v \in Views : group.home[v] # None /\ group'.home[v] = None => UnmapView(v)]_vars


\* A slide on screen has a landing or a swipe that will end it.
SlideHasEnd == SlideActive(group) => group.slide.settling \/ group.gesture

\* A reconciliation was put off, and no hold or slide is left whose end makes it.
\* Nothing is put off for a fixed inventory: reconcileDynamic returns at once.
Abandoned(g) == g.dynamic /\ g.pending /\ g.hold = NoHold /\ ~SlideActive(g)

\* No lost wake-up: what is put off during a hold is made up for when the hold
\* or the slide after it ends.  Only a create request that takes the hold away,
\* an aborted slide and a deactivation of the only workspace leave it to chance.
DeferredIsMadeUp ==
  [][Abandoned(group') =>
       \/ Abandoned(group) \/ CreateWorkspace \/ SlideAbort \/ group'.active = None]_vars

=============================================================================
