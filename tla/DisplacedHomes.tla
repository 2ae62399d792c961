--------------------------- MODULE DisplacedHomes ---------------------------
(***************************************************************************)
(* Outputs that come and go (src/server/server_events.cpp): the windows of *)
(* an output that leaves the desktop take refuge on another one, remember  *)
(* the workspace they came from, and go home from an idle callback once an *)
(* output of that name is enabled again.                                   *)
(*                                                                         *)
(* Every output owns a workspace inventory; the operators that change one  *)
(* are those of WorkspaceGroup, so a restore runs over inventories that    *)
(* prune, renumber and replenish themselves between any two of its moves.  *)
(*                                                                         *)
(* Windows are mapped and tiled, and a switch is made at once: geometry,   *)
(* layout snapshots, slides and scratchpads are left out.                  *)
(***************************************************************************)
EXTENDS Integers, FiniteSets, Sequences, SequencesExt

CONSTANTS
  Outputs,        \* the outputs that may be connected, numbered in the order of their names
  Views,          \* the toplevels
  Names,          \* the workspace names the configuration may declare
  Anonymous,      \* the label of a workspace whose name is its position
  None,           \* nullptr, std::nullopt
  MaxWorkspaces,  \* kMaxWorkspaces
  Config,         \* the workspace configuration of every output
  Present,        \* the outputs a session that has started has, in order
  MaxEvents       \* bound: changes of the outputs and acts of the user


VARIABLES
  desk,    \* Server's outputs, their inventories, the windows' homes and the idle source
  placed,  \* ghost: the output a window was last put on by its user or on opening
  events   \* how many events may still happen

vars == <<desk, placed, events>>

Inventory == INSTANCE WorkspaceGroup WITH
  Launches <- {}, Configs <- {Config}, Disturbances <- {}, config <- Config, group <- desk

-----------------------------------------------------------------------------
(* Reading the desktop.                                                    *)

\* DisplacedWorkspaceSelection and DisplacedHome: a workspace, by its
\* place and its name, on an output.
Place == [index : Nat, label : Names \cup {Anonymous}]
Home  == [output : Outputs, at : Place, protect : BOOLEAN]

\* What resolveWorkspacesForOutput returns for every output: see WorkspaceGroup.
ASSUME HomesAssumption ==
  /\ Outputs \subseteq Nat /\ IsFiniteSet(Views)
  /\ MaxWorkspaces \in Nat /\ MaxWorkspaces >= 2
  /\ None \notin Int /\ None \notin Views
  /\ None \notin {"pair", "set", "interactive", "preparing", "ending", "shown"}
  /\ Anonymous \notin Names /\ None \notin Names \cup {Anonymous} /\ None \notin Place \cup Home
  /\ Config \in Inventory!ConfigType /\ Config.minimum \in 1..MaxWorkspaces
  /\ \A i, j \in DOMAIN Config.names : Config.names[i] = Config.names[j] => i = j
  /\ \A i, j \in DOMAIN Config.fixed :
       Config.fixed[i] = Config.fixed[j] /\ Config.fixed[i] # Anonymous => i = j
  /\ ~Config.dynamic => Len(Config.fixed) \in 1..MaxWorkspaces
  /\ Present \in Seq(Outputs) /\ IsInjective(Present) /\ MaxEvents \in Nat

Listed(s) == {s.listed[i] : i \in DOMAIN s.listed}

\* wlr_output.enabled: on the desktop and not asleep.
Enabled(s) == {o \in Listed(s) : s.desktop[o] /\ ~s.asleep[o]}

On(s, v) ==
  IF \E o \in Outputs : s.group[o].home[v] # None
  THEN CHOOSE o \in Outputs : s.group[o].home[v] # None
  ELSE None

\* The first output of m_outputs that is in S.
FirstOf(s, S) ==
  LET found == {i \in DOMAIN s.listed : s.listed[i] \in S}
  IN IF found = {} THEN None ELSE s.listed[Min(found)]

\* preferredOutput: the enabled output under the pointer, else the first one.
Preferred(s) == IF Enabled(s) = {} THEN {None} ELSE Enabled(s)

FirstGroup == Inventory!SwitchNow(Inventory!Constructed(Config), Config, 0)

-----------------------------------------------------------------------------
(* Moving windows.                                                         *)

Reconciled(g) == Inventory!Reconcile(g, Config)

Detach(s, v) ==
  LET from == On(s, v)
  IN IF from = None THEN s
     ELSE [s EXCEPT !.group[from] = Reconciled([@ EXCEPT !.home[v] = None])]

\* setWorkspace: the inventory that is left is reconciled only if it is another one.
SetWorkspace(s, v, o, w) ==
  IF s.group[o].home[v] = w THEN s
  ELSE LET t == IF On(s, v) = o THEN s ELSE Detach(s, v)
       IN [t EXCEPT !.group[o] = Reconciled([@ EXCEPT !.home[v] = w])]

\* The windows of one transfer go one after the other.
SetAll(s, views, o, w) == FoldLeft(LAMBDA t, v : SetWorkspace(t, v, o, w), s, SetToSeq(views))

DetachAll(s, views) == FoldLeft(Detach, s, SetToSeq(views))

\* View::moveToWorkspace: an explicit move drops the home.
MoveTo(s, v, o, w) ==
  LET t == SetWorkspace([s EXCEPT !.home[v] = None], v, o, w)
  IN [t EXCEPT !.idle = @ \/ s.home[v] # None]

MoveAll(s, views, o, w) == FoldLeft(LAMBDA t, v : MoveTo(t, v, o, w), s, SetToSeq(views))

Activate(s, o, w) ==
  [s EXCEPT !.group[o] = IF @.active = w THEN Reconciled(@) ELSE Inventory!SwitchNow(@, Config, w)]

ViewsAt(s, o, w) == {v \in Views : s.group[o].home[v] = w}

-----------------------------------------------------------------------------
(* Leaving the desktop.                                                    *)

Position(g, w) == [index |-> g.index[w], label |-> g.label[w]]

\* The selection of a name is remembered once, until it is restored.
RememberSelection(s, o) ==
  [s EXCEPT !.chosen[o] = IF @ = None THEN Position(s.group[o], s.group[o].active) ELSE @]

\* Mutation: a window that is away already gets the refuge as its home.
CaptureAgain(s, o, views, protect) ==
  [s EXCEPT !.home = [v \in Views |->
     IF v \in views
     THEN [output |-> o, at |-> Position(s.group[o], s.group[o].home[v]), protect |-> protect]
     ELSE @[v]]]

\* rememberWorkspace: the first home a window is given stays.
Capture(s, o, views, protect) ==
  [s EXCEPT !.home = [v \in Views |->
     IF v \in views /\ @[v] = None
     THEN [output |-> o, at |-> Position(s.group[o], s.group[o].home[v]), protect |-> protect]
     ELSE @[v]]]

\* Mutation: a home recorded to protect a layout stays so recorded.
StillProtected(s, views) == s

\* A view that leaves its own output is away from then on.
Away(s, views) ==
  [s EXCEPT !.home = [v \in Views |-> IF v \in views THEN [@[v] EXCEPT !.protect = FALSE] ELSE @[v]]]

Reassign(s, source, destination) ==
  LET leaving == {v \in Views : On(s, v) = source}
      refuge  == s.group[destination].active
      s1 == Capture(RememberSelection(s, source), source, leaving, FALSE)
      s2 == IF leaving # {} /\ destination # None
            THEN Capture(s1, destination, ViewsAt(s1, destination, refuge), TRUE) ELSE s1
      s3 == Away(s2, leaving)
  IN IF destination # None THEN SetAll(s3, leaving, destination, refuge)
     ELSE DetachAll(s3, leaving)

\* The first other output that is enabled takes the windows in.
Evacuate(s, o) == Reassign(s, o, FirstOf(s, Enabled(s) \ {o}))

ReassignAll(s, gone) ==
  FoldLeft(LAMBDA t, o : IF o \in gone THEN Evacuate(t, o) ELSE t, s, s.listed)

-----------------------------------------------------------------------------
(* Going home.                                                             *)

\* insertDynamicWorkspace(count) until the position exists or the limit is reached.
Materialize(g, index) ==
  LET missing == index + 1 - Inventory!Size(g)
      room    == MaxWorkspaces - Inventory!Size(g)
      n       == IF missing < room THEN missing ELSE room
  IN IF ~g.dynamic \/ n <= 0 THEN g ELSE Inventory!InsertAt(g, Inventory!Size(g), n)

\* Mutation: a workspace that carries a name by now is taken.
AnonymousOrNamed(g0, index) ==
  LET g == Materialize(g0, index)
  IN [group |-> g, workspace |-> Inventory!WorkspaceAt(g, index)]

\* The workspace in the place of an anonymous one: one that carries a name by
\* now is not taken, a new one goes in its place.
AnonymousAt(g0, index) ==
  LET g == Materialize(g0, index)
      w == Inventory!WorkspaceAt(g, index)
      taken == w # None /\ g.dynamic /\ g.label[w] # Anonymous
      full  == Inventory!Size(g) >= MaxWorkspaces
  IN CASE ~taken -> [group |-> g, workspace |-> w]
       [] taken /\ full -> [group |-> g, workspace |-> None]
       [] taken /\ ~full -> [group |-> Inventory!InsertAt(g, index, 1), workspace |-> g.serial]

Named(g, label) ==
  LET found == {w \in Inventory!Live(g) : g.label[w] = label}
  IN IF found = {} THEN None ELSE CHOOSE w \in found : TRUE

Resolved(g, at) ==
  IF at.label # Anonymous THEN [group |-> g, workspace |-> Named(g, at.label)]
  ELSE AnonymousAt(g, at.index)

\* Where the place is no more the active workspace takes them in.
HomeWorkspace(g, at) ==
  LET r == Resolved(g, at)
  IN [group     |-> r.group,
      workspace |-> IF r.workspace = None THEN r.group.active ELSE r.workspace,
      exact     |-> r.workspace # None]

Shelter(s, views, fallback) == SetAll(s, views, fallback, s.group[fallback].active)

\* A home that protects a layout is kept while refugees are in its workspace,
\* if that is the workspace it names.
Forget(s, views, home, r) ==
  LET foreign == \E u \in ViewsAt(s, home.output, r.workspace) :
                   s.home[u] # None /\ s.home[u].output # home.output
  IN [s EXCEPT !.home = [v \in Views |->
        IF v \in views /\ ~(home.protect /\ r.exact /\ foreign) THEN None ELSE @[v]]]

Return(s, views, home, r) ==
  Forget(SetAll([s EXCEPT !.group[home.output] = r.group], views, home.output, r.workspace), views, home, r)

\* Windows of one home go together.  A home that is not there only takes in
\* those that have no workspace at all.
RestoreGroup(s, home, fallback) ==
  LET views == {v \in Views : s.home[v] = home}
  IN IF home.output \in Enabled(s)
     THEN Return(s, views, home, HomeWorkspace(s.group[home.output], home.at))
     ELSE Shelter(s, {v \in views : On(s, v) = None}, fallback)

\* Homes that are there first, those of refugees before those of residents;
\* an anonymous label stands before a name.
Sooner(s, a, b) ==
  LET here(h) == h.output \in Enabled(s)
  IN IF here(a) # here(b) THEN here(a)
     ELSE IF here(a) /\ a.protect # b.protect THEN b.protect
     ELSE IF a.output # b.output THEN a.output < b.output
     ELSE IF a.at.index # b.at.index THEN a.at.index < b.at.index
     ELSE a.at.label = Anonymous /\ b.at.label # Anonymous

HomesOf(s) == {s.home[v] : v \in Views} \ {None}

HomesInOrder(s) ==
  CHOOSE q \in SetToSeqs(HomesOf(s)) : \A i, j \in DOMAIN q : i < j => ~Sooner(s, q[j], q[i])

Orphans(s) == {v \in s.open : On(s, v) = None}

\* The selection of an output that is back: its name or its place; the active
\* workspace where a named one leaves no room, else the last one.
RestoreSelection(s, o) ==
  LET at == s.chosen[o]
      g  == s.group[o]
      r  == IF at.label # Anonymous THEN [group |-> g, workspace |-> Named(g, at.label)]
            ELSE IF g.dynamic THEN AnonymousAt(g, at.index)
            ELSE [group |-> g, workspace |-> None]
      n  == Inventory!Size(r.group) - 1
      w  == IF r.workspace # None THEN r.workspace
            ELSE IF at.label = Anonymous /\ g.dynamic /\ at.index <= n THEN r.group.active
            ELSE Inventory!WorkspaceAt(r.group, IF at.index < n THEN at.index ELSE n)
  IN [Activate([s EXCEPT !.group[o] = r.group], o, w) EXCEPT !.chosen[o] = None]

RestoreHomes(s, fallback) ==
  FoldLeft(LAMBDA t, h : RestoreGroup(t, h, fallback), s, HomesInOrder(s))

RestoreOrphans(s, fallback) == Shelter(s, Orphans(s), fallback)

RestoreSelections(s) ==
  FoldLeft(RestoreSelection, s, SetToSeq({o \in Enabled(s) : s.chosen[o] # None}))

RestoreDisplacedViews(s, fallback) ==
  RestoreSelections(RestoreOrphans(RestoreHomes(s, fallback), fallback))

-----------------------------------------------------------------------------
(* The handlers.                                                           *)

Happens == events > 0 /\ events' = events - 1

\* scheduleDisplacedViewRestore
Schedule(s) == [s EXCEPT !.idle = TRUE]

Init ==
  /\ events = MaxEvents
  /\ placed = [v \in Views |-> None]
  /\ desk = [listed  |-> Present,
             desktop |-> [o \in Outputs |-> \E i \in DOMAIN Present : Present[i] = o],
             asleep  |-> [o \in Outputs |-> FALSE],
             group   |-> [o \in Outputs |-> FirstGroup],
             open    |-> {},
             home    |-> [v \in Views |-> None],
             chosen  |-> [o \in Outputs |-> None],
             idle    |-> FALSE]

\* addOutput: a rule or a remembered override decides whether it joins the desktop.
AddOutput(o, enabled) ==
  /\ o \notin Listed(desk) /\ Happens
  /\ desk' = Schedule([desk EXCEPT !.listed = Append(@, o), !.desktop[o] = enabled,
                                   !.asleep[o] = FALSE, !.group[o] = FirstGroup])
  /\ UNCHANGED placed

RemoveOutput(o) ==
  /\ o \in Listed(desk) /\ Happens
  /\ LET s == Evacuate(desk, o)
     IN desk' = [s EXCEPT !.listed = RemoveFirst(@, o),
                          !.desktop[o] = FALSE, !.asleep[o] = FALSE, !.group[o] = FirstGroup]
  /\ UNCHANGED placed

\* Mutation: waking an output does not look for windows that wait for one.
WakeOnly(o, powered) ==
  /\ o \in Listed(desk) /\ desk.desktop[o] /\ desk.asleep[o] = powered /\ Happens
  /\ desk' = [desk EXCEPT !.asleep[o] = ~powered]
  /\ UNCHANGED placed

\* DPMS: windows stay where they are.
SetPowered(o, powered) ==
  /\ o \in Listed(desk) /\ desk.desktop[o] /\ desk.asleep[o] = powered /\ Happens
  /\ LET s == [desk EXCEPT !.asleep[o] = ~powered] IN desk' = IF powered THEN Schedule(s) ELSE s
  /\ UNCHANGED placed

\* A logical change of enablement forgets DPMS.
Enabling(s, on) ==
  [s EXCEPT !.desktop = [o \in Outputs |-> o \in on],
            !.asleep  = [o \in Outputs |-> @[o] /\ s.desktop[o] /\ o \in on]]

\* A reload of the output policy evacuates every output it finds disabled.
ReloadOutputs(on) ==
  /\ on \subseteq Listed(desk) /\ Happens
  /\ LET s == Enabling(desk, on) IN desk' = Schedule(ReassignAll(s, Listed(s) \ on))
  /\ UNCHANGED placed

\* Mutation: an output that is disabled by a tool keeps its windows.
ManageWithoutEvacuation(on) ==
  /\ on \subseteq Listed(desk) /\ Happens
  /\ desk' = Schedule(Enabling(desk, on))
  /\ UNCHANGED placed

\* An output-management client or the output actions: one transaction.
ManageOutputs(on) ==
  /\ on \subseteq Listed(desk) /\ Happens
  /\ LET s    == Enabling(desk, on)
         gone == {o \in Listed(desk) : desk.desktop[o] /\ o \notin on}
     IN desk' = Schedule(ReassignAll(s, gone))
  /\ UNCHANGED placed

\* A window maps on the preferred output, or nowhere while there is none.
OpenWindow(v, o) ==
  /\ v \notin desk.open /\ o \in Preferred(desk) /\ Happens
  /\ LET s == [desk EXCEPT !.open = @ \cup {v}]
     IN desk' = IF o = None THEN s ELSE SetWorkspace(s, v, o, s.group[o].active)
  /\ placed' = [placed EXCEPT ![v] = o]

CloseWindow(v) ==
  /\ v \in desk.open /\ Happens
  /\ LET s == Detach([desk EXCEPT !.open = @ \ {v}, !.home[v] = None], v)
     IN desk' = [s EXCEPT !.idle = @ \/ desk.home[v] # None]
  /\ placed' = [placed EXCEPT ![v] = None]

\* moveViewToWorkspace, following the window or not.
MoveWindow(v, o, w, follow) ==
  /\ On(desk, v) # None /\ o \in Listed(desk) /\ desk.desktop[o] /\ Happens
  /\ LET s == MoveTo(desk, v, o, w) IN desk' = IF follow THEN Activate(s, o, w) ELSE s
  /\ placed' = [placed EXCEPT ![v] = o]

SelectWorkspace(o, w) ==
  /\ o \in Listed(desk) /\ desk.desktop[o] /\ Happens
  /\ desk' = Activate(desk, o, w)
  /\ UNCHANGED placed

\* transferDestination: the last empty workspace, if the inventory is dynamic an
\* anonymous one or a new one at the end.
TransferDestination(g) ==
  LET spare == {w \in Inventory!Live(g) : ~Inventory!Occupied(g, w) /\ (g.dynamic => g.label[w] = Anonymous)}
  IN IF spare # {}
     THEN [group |-> g, workspace |-> CHOOSE w \in spare : \A x \in spare : g.index[x] <= g.index[w]]
     ELSE IF ~g.dynamic \/ Inventory!Size(g) >= MaxWorkspaces THEN [group |-> g, workspace |-> None]
     ELSE [group |-> Inventory!InsertAt(g, Inventory!Size(g), 1), workspace |-> g.serial]

\* actionWorkspaceMoveToOutput: the active workspace's windows go over together.
MoveWorkspaceToOutput(source, target) ==
  LET moving == ViewsAt(desk, source, desk.group[source].active)
      r      == TransferDestination(desk.group[target])
      s      == MoveAll([desk EXCEPT !.group[target] = r.group], moving, target, r.workspace)
  IN /\ source # target /\ {source, target} \subseteq Listed(desk)
     /\ desk.desktop[source] /\ desk.desktop[target] /\ Happens
     /\ moving # {} /\ r.workspace # None
     /\ desk' = Activate(s, target, r.workspace)
     /\ placed' = [v \in Views |-> IF v \in moving THEN target ELSE placed[v]]

\* swapActiveWorkspaceWindows
SwapWorkspaces(a, b) ==
  LET wa == desk.group[a].active
      wb == desk.group[b].active
  IN /\ a < b /\ {a, b} \subseteq Listed(desk)
     /\ desk.desktop[a] /\ desk.desktop[b] /\ Happens
     /\ desk' = MoveAll(MoveAll(desk, ViewsAt(desk, a, wa), b, wb), ViewsAt(desk, b, wb), a, wa)
     /\ placed' = [v \in Views |-> CASE desk.group[a].home[v] = wa -> b
                                     [] desk.group[b].home[v] = wb -> a
                                     [] OTHER -> placed[v]]

\* onDisplacedRestoreIdle: nothing to do while no output is enabled; whatever
\* enables one schedules again.  A window that never had a place gets one.
RestoreIdle(fallback) ==
  /\ desk.idle /\ fallback \in Preferred(desk)
  /\ LET s == [desk EXCEPT !.idle = FALSE]
     IN desk' = IF fallback = None THEN s ELSE RestoreDisplacedViews(s, fallback)
  /\ placed' = [v \in Views |-> IF placed[v] = None THEN On(desk', v) ELSE placed[v]]
  /\ UNCHANGED events

OutputNext ==
  \/ \E o \in Outputs, b \in BOOLEAN : AddOutput(o, b) \/ SetPowered(o, b)
  \/ \E o \in Outputs : RemoveOutput(o)
  \/ \E on \in SUBSET Listed(desk) : ReloadOutputs(on) \/ ManageOutputs(on)

UserNext ==
  \/ \E v \in Views, o \in Outputs \cup {None} : OpenWindow(v, o)
  \/ \E v \in Views : CloseWindow(v)
  \/ \E v \in Views, o \in Outputs, follow \in BOOLEAN :
       \E w \in Inventory!Live(desk.group[o]) : MoveWindow(v, o, w, follow)
  \/ \E o \in Outputs : \E w \in Inventory!Live(desk.group[o]) : SelectWorkspace(o, w)
  \/ \E a, b \in Outputs : MoveWorkspaceToOutput(a, b) \/ SwapWorkspaces(a, b)

Next == OutputNext \/ UserNext \/ \E o \in Outputs \cup {None} : RestoreIdle(o)

Spec == Init /\ [][Next]_vars

-----------------------------------------------------------------------------
(* Properties.                                                             *)

DeskFields == {"listed", "desktop", "asleep", "group", "open", "home", "chosen", "idle"}

\* The shape of the state.  A window has a place in one inventory at most, on
\* an output that is listed; only open windows have a place or a home; and a
\* home that merely protects a layout is the output the window is on
\* (view.h: "true while this view is still at home").
TypeOK ==
  /\ desk = [f \in DeskFields |-> desk[f]]
  /\ desk.listed \in Seq(Outputs) /\ IsInjective(desk.listed)
  /\ desk.desktop \in [Outputs -> BOOLEAN] /\ desk.asleep \in [Outputs -> BOOLEAN]
  /\ \A o \in Outputs : Inventory!WellTyped(desk.group[o]) /\ Inventory!PointsAtLive(desk.group[o])
  /\ \A v \in Views, o \in Outputs :
       desk.group[o].home[v] # None => v \in desk.open /\ On(desk, v) = o /\ o \in Listed(desk)
  /\ desk.home \in [Views -> Home \cup {None}]
  /\ \A v \in Views : desk.home[v] # None =>
       /\ v \in desk.open
       /\ desk.home[v].protect => On(desk, v) = desk.home[v].output
  /\ desk.chosen \in [Outputs -> Place \cup {None}]
  /\ desk.idle \in BOOLEAN /\ events \in 0..MaxEvents
  /\ placed \in [Views -> Outputs \cup {None}]

\* streaming.md, outputs.md: a window that had to leave its output is back on
\* it whenever that output is enabled and no restore is pending, however many
\* outputs left and returned meanwhile, in whatever order, and through
\* whatever refuge.
BackOnItsOutput ==
  ~desk.idle => \A v \in Views : placed[v] \in Enabled(desk) => On(desk, v) = placed[v]

\* No window is left without a workspace while an output could show it.
NobodyLost ==
  (~desk.idle /\ Enabled(desk) # {}) => Orphans(desk) = {}

\* outputs.md: a disabled output holds no window, not even between the reload
\* or the transaction that disables it and the restore that follows.
DisabledIsEmpty ==
  \A v \in Views : On(desk, v) # None => desk.desktop[On(desk, v)]

AwayFrom(h) == h # None /\ ~h.protect /\ h.output \in Enabled(desk)

\* Windows that shared a workspace when their output left share one when it
\* is back, and those that did not do not, though the inventories on both
\* sides renumber themselves between the moves of the restore.
CompanyKept ==
  [][(\E o \in Outputs : RestoreIdle(o)) =>
       \A u, v \in Views :
         LET a == desk.home[u]
             b == desk.home[v]
         IN (AwayFrom(a) /\ AwayFrom(b) /\ a.output = b.output) =>
              (a.at = b.at <=> desk'.group[a.output].home[u] = desk'.group[b.output].home[v])]_vars
=============================================================================
