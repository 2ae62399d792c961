# A TLA+ model of Umbriel

Umbriel is a Wayland compositor in C++23 over wlroots. This directory holds a
formal model of the parts of it whose correctness depends on the order of
events: TLA+ modules translated from `src/src/`, TLC configurations that check
them on small instances, and proofs checked by TLAPS that hold for every
instance. Paths below are relative to the repository; `PROJECT.json` maps every
definition to the lines it stands for.

To run something: `tlc -config group_reload.cfg MCWorkspaceGroup.tla`,
`tlapm SessionLockProofs.tla`.

## 1. Inventory of the system

The compositor is one process with one `wl_event_loop`. Nothing in the code
modelled here runs in another thread: every handler (a Wayland request, an
input event, an output's frame or present event, a timer, an idle callback)
runs to its return before the next one. (Files are another matter: an editor
writes them while the compositor reads them.) What is hard is what lies between
handlers, in which any other handler may run, and inside them, where one
handler calls others that change the state it is about to use.

| Component | State it keeps | Operations | What is hard | What makes it correct |
|---|---|---|---|---|
| Workspace inventory (`workspace/workspace.cpp`) | per output: the ordered workspaces, active, previous, the slide, the inventory hold, the pending flag | map, unmap, move, activate, deactivate, create, insert, swap, slide begin/settle/land, reconcile, reload | reconciliation prunes workspaces in the middle of other operations, is skipped during slides and put off during holds | no stale pointer, sentinels, floor and limit, nothing put off is lost |
| Presentation and transition (`scene/workspace_presentation.cpp`, `scene/workspace_transition.cpp`) | an opaque lifetime (the hold), a phase, a target | begin, settle, lease, commit, cancel, end | cancellation at any point still makes the requested switch; release runs the put-off reconciliation | the captured order stays current |
| Launch placement (`server/server_events.cpp`, `view/view.cpp`) | activation tokens, a workspace anchor per launch | record, claim, place, expire | the window maps long after the launch, the inventory was edited since | the anchor keeps its workspace |
| Session lock (`lock/session_lock.cpp`) | phase, surfaces, a presentation record per output, `m_sessionLocked` in the server | begin, map, unmap, deadline, unlock, client exit, output changes | presentation reports that arrive late, outputs that come and go, a client that dies | `locked` is sent only when no desktop can be seen; the blank stays |
| Output frame path (`output/output.cpp`) | powered, dirty, the tracked commit, a retry timer | frame, failed frame, present, mode, power, add, remove | commits are asynchronous and may fail or be dropped | a failed secure frame is tried again |
| Output hotplug and displaced homes (`server/server_events.cpp`, `server/server_outputs.cpp`) | a `DisplacedHome` per window, a remembered selection per output, one idle source | add, remove, power, reload of output policies, output management, reassign, schedule, restore | outputs go and come back in another order; the inventories on both sides renumber themselves between two moves of one restore | a window returns to its first home, with its company; nobody is lost |
| Gestures (`input/gestures.cpp`) | the swipe's owner and group | begin, update, finish, cancel | another switch settles the slide under the fingers | a slide has an end |
| Configuration (`config/store.cpp`, `config/config_watcher.cpp`) | what is in effect, the root, diagnostics, watched paths; inotify watches, a debounce timer | load, reload, replace, re-arm, notice | files and directories that come and go while others are read, failing reloads | a failed reload keeps the previous configuration and is still watched; the session runs what the files say |
| Window lifecycle and focus (`view/`, `server/focus.cpp`) | registry, MRU, roles, mapped state | map, unmap, move, focus | windows that unmap during an animation or grab | one focus, on a window that exists |
| Scratchpad (`workspace/scratchpad.cpp`) | entries, per pad: output, visibility, the one window shown, the last focused, a pending launch, the output it was displaced from | toggle, step, summon, admit, restore, remove, move, release, reconcile | windows that close, move over or are handed over; outputs that leave; reloads that undefine a pad; callers decide who has the keyboard | no stale pointer, one pad on an output, what is shown is what the pad holds |
| IPC (`server/ipc.cpp`) | connections, audio producer, frame waits | accept, read, reply, drop | a connection closed while it is answered | one audio owner |
| Xwayland, layouts, overview, scene effects, input devices, layer shell, backends, start-up, CLI | | | | see "What is not modelled" |

How they interact: window lifecycle calls `Workspace::addView` and
`removeView`, which reconcile the group. Transition and presentation take the
group's inventory hold and release it, and the group cancels the transition
when it activates. Gestures begin and settle the group's slide or an
interactive transition. A configuration reload ends gestures and slides and
rebuilds every inventory. The output's frame path tells the session lock of each
commit and presentation; the server tells it of outputs that come, go or change.
Output hotplug moves windows between the inventories of several groups and pads
between outputs, and one idle callback brings both back. The watcher asks for a
reload, and a reload, or the failure of one, re-arms the watcher.
The focus manager asks the server whether the session is locked.

The hazards are listed one by one, each at its line, in `PROJECT.json`.

## 2. Modules

| Module | Models |
|---|---|
| `WorkspaceGroup` | one output's inventory: `WorkspaceGroup`, `Workspace`'s part in it, the holds of `WorkspacePresentation` and `WorkspaceTransition`, launches, the workspace swipe, reloads |
| `MCWorkspaceGroup` | its instances: configurations, and a view that forgets serial numbers |
| `WorkspaceGroupProofs` | its theorems: about pointers; what each phase of a reconciliation, a claim and a rebuild keeps; what every handler keeps of the order, the sentinels and the steps |
| `SessionLock` | `SessionLock`, `LockSurface`, the lock half of `Server`, and the frames of the outputs as the lock sees them |
| `MCSessionLock` | its instances: the exchange of outputs, and a view that counts commits from the latest |
| `LockPromise` | what `docs/user/security.md` promises of a lock; `SessionLock` implements it |
| `SessionLockProofs` | the theorems of `SessionLock`, the refinement among them |
| `SequenceLemmas` | the least of a set of numbers, induction over a loop, the lists of a set, and what taking an element out of a list leaves |
| `DisplacedHomes` | outputs that come, go, sleep and are disabled, over one `WorkspaceGroup` inventory per output (`INSTANCE`), and the idle restore |
| `MCDisplacedHomes` | its instance: two outputs and a view that forgets serial numbers |
| `EvacuationProofs` | its inductive invariant, and lemmas about the inventories, the loops and the handlers of outputs |
| `DisplacedHomesProofs` | the user's acts and the way home, and the theorems |
| `ConfigReload` | `ConfigStore`'s load, reload and replace, `ConfigWatcher`, the files, and who edits them |
| `MCConfigReload` | its instance: three files, one in a directory that may go |
| `ConfigReloadProofs` | its theorems |
| `Scratchpads` | `ScratchpadManager`, its callers, and what of focus and hotplug it decides |
| `MCScratchpads` | its instance: a window, its dialog and another window, two pads, two outputs |
| `FoldLemmas` | what a left fold computes, for any body: a module to be instantiated once for each fold |
| `ScratchpadProofs` | the theorems of `Scratchpads` |

### WorkspaceGroup

The state is a configuration (`config`, what `resolveWorkspacesForOutput` and
`resolveDynamicWorkspaceMinimum` return for this output) and a record `group`:

| Field | In the code |
|---|---|
| `index` | `m_workspaces` and `Workspace::m_index`: its domain is the live workspaces, identified by `nextWorkspaceId` |
| `label` | `m_named` and `m_name`; an anonymous workspace has the label `Anonymous` whatever its position |
| `home` | `View::workspace()` of the windows mapped on this output |
| `launch` | `WorkspaceLaunchAnchor::workspace` of the tokens recorded here |
| `dynamic`, `active`, `previous` | `m_dynamic`, `m_active`, `m_previous` |
| `slide`, `gesture` | `m_slide` and whether `Gestures` owns it (`m_switchGroup`) |
| `hold` | `m_inventoryHold` with its captured order, and who owns it: `"pair"` is a transition, `"set"` a presentation of all workspaces; `phase` is the transition's |
| `pending` | `m_inventoryReconciliationPending` |
| `serial` | `nextWorkspaceId` |
| `wild` | not in the code: set when the code goes through a null or stale workspace pointer |

A handler is one step. The handlers call each other before they return, so the
module is a layer of operators from groups to groups (`Invalidate`, `SwitchTo`,
`Reconcile`, `Rebuild`, `CancelPair`, ...), each the translation of one
function, and the actions compose them in the order of the code. `Rebuild` is
`reconcileDynamic`: its phases (names, keepers, prune, floor, sentinels) are one
operator each. The code's loops appear as sets: a loop that erases from the end
while above the floor is `Pruned`, the set of those with few enough prunable
workspaces behind them; the names served from the last declaration back are
`Served`.

`Disturbances` names three external events (a slide ended by a layout reload
or a lost renderer, a transition that fails after it took its hold, a client
that deactivates the only workspace). Some of the properties do not survive
them; the runs say which, and naming them keeps the other properties checkable.

### SessionLock

| Field | In the code |
|---|---|
| `power` | whether the output exists, is enabled and powered (`SessionLock::outputActive`) |
| `due` | a frame is scheduled (`wlr_output_schedule_frame` or the retry timer) |
| `seq`, `flight` | `wlr_output.commit_seq` and the commits not yet reported presented, each with what it shows |
| `screen` | what the output shows now: `dark`, `desktop` or `secure` |
| `locked` | `Server::m_sessionLocked`, which is also whether the lock tree is enabled |
| `phase` | `SessionLock::m_phase`, and `"none"` when there is no `SessionLock` |
| `surfaces`, `mapped` | `m_surfaces` in their order, and which are mapped |
| `shown` | `m_presentations` |
| `focus` | who has the keyboard: an output stands for its lock surface |

`flight` and `screen` are wlroots and the hardware, modelled from how
`Output::handleFrame` and `Output::handlePresent` use them: commits are numbered,
reported in order, each exactly once, as presented or not; those of a disabled
output are reported as not presented. `commit_seq` counts modulo `SeqBound`.

A frame shows the desktop or the lock scene as a whole. Where the blank lies on
the layout is not modelled, and neither is what a lock surface paints. An
unlock leaves the keyboard to nobody or to the desktop, whichever: whether the
surfaces die before or after it is up to wlroots.

`LockPromise` has two variables: `lock` (open, covering, locked, blank) and
`exposed` (a screen shows the desktop or a frame of it is on its way). The
refinement mapping `AbstractLock` reads the first off `locked` and `phase`. A lock whose client
died and whose successor still waits for surfaces is the same blank.

### DisplacedHomes

| Field | In the code |
|---|---|
| `listed` | `Server::m_outputs`, in order |
| `desktop`, `asleep` | `Output::enabled` (logically on the desktop) and DPMS; an output is `Enabled` when it is the one and not the other |
| `group` | one inventory per output, a record of `WorkspaceGroup` |
| `open`, `home` | mapped windows; `View`'s `DisplacedHome`: output name, position and label of the workspace, and whether it only protects a layout |
| `chosen` | `m_displacedSelections`, by output name |
| `idle` | `m_displacedRestoreIdle` |
| `placed` (ghost) | the output a window's user last put it on |

The module is a composition: `Inventory == INSTANCE WorkspaceGroup`, whose
operators (`Reconcile`, `SwitchNow`, `InsertAt`) are applied to each output's
inventory. So a restore runs over inventories that prune empty workspaces and
renumber between any two of its moves, as the code's does. `RestoreDisplacedViews`
keeps the code's order: homes that are there, refugees before residents whose
home merely protects the refuge's layout; then windows without a workspace; then
the selections.

### ConfigReload

| Variable | In the code |
|---|---|
| `disk`, `directories` | the files, and the directories they lie in, which may be missing |
| `store` | `ConfigStore`: what is in effect, `m_root`, `m_explicit`, `m_fileMissing`, diagnostics, missing includes, `m_watchPaths` |
| `load` | a load under way: what it read, what it found missing, what is left to read, and what `replace` would restore |
| `watcher` | `ConfigWatcher`'s files and directories, the inotify queue, the timer |
| `raced` (ghost) | files changed unnoticed, while a load was under way, since they were read |

A load is one step per file, because a file may change between two. The
configuration in effect is the function from the files that were read to their
texts; a text is what the loader tells apart in it (does it parse, is a value
wrong, what it includes and with which of the two kinds of include, has it a
`[drm]` policy). `Begin` is `beginLoad`, `Outcome` and `Diagnostics` are what
`ConfigLoader` concludes, `FinishReload` with `Rearm` is `handleConfigReload`.

### Scratchpads

| Field | In the code |
|---|---|
| `pads[p]` | `Scratchpad`: `output`, `visible`, `last` (`lastFocused`), `solo`, `spawn` (`pendingSpawn`), `home` (`displacedFrom`) |
| `wins.entries`, `wins.pad` | `m_entries` in order, and the pad of each |
| `wins.parent`, `mapped` | the toplevel parent and the windows that are mapped |
| `wins.shown`, `hiding` | whether the scene node is enabled and not fading; the fades under way |
| `wins.focus`, `noted` | the seat's keyboard focus; `m_focusedView` of the manager |
| `desk` | the outputs: listed, on the desktop, lit, and the restore idle |
| `placed` (ghost) | the output a pad was last put on by a wish |

The manager's functions are operators from states to states, and those that end
in `Server::refocus` from states to sets of states: which window of the
active workspace gets the focus is not modelled. An action is the caller as a
whole: a keybind, a map with its window rules, an unmap, an output that goes.

Where the code depends on what is not modelled, the model does all it may do. A
shown member that is hidden always fades; the code skips the fade of one that is
hardly visible or with animations off, which is a fade that `TickAnimations` ends
at once. The output of a window on a workspace is not known here, so while some
output is off `Refocus` may keep that window's focus or lose it. Which members
are presented again when a pad is restored depends on positions: any may be.

## 3. Properties and runs

### Passing runs

| Run | Instance | Checks |
|---|---|---|
| `group_reload` | 3 workspaces at most, one window, one launch; reloads between a plain dynamic output, one with two names, and two fixed inventories. 64 thousand states | `NoDangling`, `OrderIsDense`, `WithinLimit`, `NoWildPointer`, `PreviousIsElsewhere`; `LaunchKeepsWorkspace`, `DeclaredNameKeepsIdentity`, `ReloadFollowsActive`, `ViewsKeepAHome` |
| `group_edges` | 4 workspaces at most, two windows; `empty_above`, and a floor of two with a name that needs room. 56 thousand states | `TypeOK`, `SentinelsPresent`, `StraysOnlyNearFloor` |
| `group_disturbed` | 3 workspaces at most, one window, one launch, with aborted slides, deactivation of the only workspace and reloads to a fixed inventory. 14 thousand states | `NoDangling`, `HoldIsCurrent`, `SlideHasEnd`, `DeferredIsMadeUp` |
| `lock_safe` | two outputs, two commits in flight each, sequence numbers modulo 4, two disruptions. 581 thousand states | `TypeOK`, `LockedMeansSecure`, `KeyboardOnLock`, `ConfirmedAfterPresented`, `BlankOutlivesClient`, `KeepsPromise` |
| `lock_live` | two outputs, one commit in flight, two disruptions, with fairness. 58 thousand states | `HandoffEnds` |
| `homes` | two outputs with a dynamic inventory each (one declared name, `empty_above`), two windows, five events. 34 thousand states | `TypeOK`, `BackOnItsOutput`, `NobodyLost`, `DisabledIsEmpty`, `CompanyKept` |
| `config` | a user's file, a packaged one and an include in a directory that may be missing; six texts; three edits or commands; with fairness. 221 thousand states | `TypeOK`, `AtRestCurrent`, `PolicyIsWhole`, `PreviousIsKept`, `ComesToRest` |
| `pads` | two windows and a dialog, two pads (one spawns, one may be undefined), two outputs, four acts. 328 thousand states | `TypeOK`, `PointersAreMembers`, `OutputsAreListed`, `OnePadPerOutput`, `ShowsWhatItHolds`, `BackOnItsOutput`, `FocusFollows` |

What they say of the code:

- `NoDangling`: over every prune, insert, claim and reload, the active and the
  remembered workspace, the slide's ends, every window's home and every
  launch's anchor are in the inventory.
- `NoWildPointer`: `activate` may cancel a transition, whose release may
  reconcile, which may prune the empty workspace `activate` was asked for. The
  code guards against it with `m_inventoryActivating`; the property says the guard is enough as
  long as no transition fails after it took its hold (see the findings).
- `DeferredIsMadeUp`, `SentinelsPresent`: a reconciliation that was put off is
  not lost (a fixed inventory has nothing to reconcile, and may leave the code's
  flag set). They are the safety form of "it is eventually made": there is no
  fairness in `WorkspaceGroup`, for a user may hold a swipe for ever.
- `SlideHasEnd`, likewise, is the safety form of "a slide ends": every slide has
  a landing that the animation clock drives, or a swipe whose release gives it one.
- `LaunchKeepsWorkspace`, `DeclaredNameKeepsIdentity`, `ReloadFollowsActive`,
  `ViewsKeepAHome` relate two states across a step: what a user was promised
  about a workspace survives reloads of the configuration.
- `LockedMeansSecure`, `ConfirmedAfterPresented`: the client is told `locked` only
  when every active output has presented a frame committed after the switch to
  the lock scene, and no desktop frame is on its way. The report of a commit made
  before the lock or before a mode change must not count.
- `BlankOutlivesClient`: once nothing on screen or in flight shows the desktop,
  only an unlock uncovers it, whoever dies, locks again, or is plugged in.
- `KeyboardOnLock`: under a lock the keyboard is a mapped lock surface's or
  nobody's, and nobody's only if no surface on an active output could have it.
- `KeepsPromise` is the refinement: every behaviour of the detailed lock is one of
  `LockPromise`.
- `HandoffEnds`: failed commits, lost presentations, sleeping and vanishing
  outputs do not strand a lock request.
- `BackOnItsOutput` (of windows): when nothing is pending, a window whose user put
  it on an output that is enabled is on it, whatever left and returned in
  whatever order and through whatever refuge. `NobodyLost` and `DisabledIsEmpty` are the other
  two ways to lose a window. `CompanyKept` is about the restore as a step:
  windows that shared a workspace share one again, and those that did not do not.
- `AtRestCurrent`: when the watcher is silent, the store holds what the files mean
  when they are read at once, or says why not. It excludes what the code cannot
  notice: an edit made while a load is under way in a directory that no watch
  was on before (`raced`), for watches are placed after the load. `PolicyIsWhole`: no
  torn reading puts a `[drm]` policy without one of its includes in effect.
  `PreviousIsKept`: nothing but a successful load, or the absence of any file,
  replaces what is in effect. `ComesToRest`: a reload does not wake the watcher
  that asked for it.
- `PointersAreMembers`, `OutputsAreListed`: the manager's bare pointers to windows
  and outputs never outlive membership, or the output's place in the list. `OnePadPerOutput`,
  `ShowsWhatItHolds`: what the scene shows agrees with what the pad says
  after every sequence of toggles, steps, admissions and hotplug.
  `BackOnItsOutput` (of pads) is the hotplug promise of `scratchpad.md`. `FocusFollows` is
  about the acts of a user; see the gaps below.

Gaps of the code that no document speaks of, met while modelling; each is left out of a
property by its wording, and no run claims them:

- An edit in a directory that is not watched yet, between the reading of a file
  and the re-arming of the watches, waits for the next event (`raced`). So does a
  candidate that is created there after the root was chosen, even if the load reads it.
- Homes and remembered selections are positions. After a renumbering, a home that
  protects a layout can take a resident to another workspace of its output, and
  a returned output can show an empty sentinel.
- A pending launch survives the disabling (not the unplugging) of its output, and
  then shows its pad on a disabled output if the window comes within ten seconds.
- A parent set on a window that is in the pad already does not present it anew.
- Closing the one window a pad shows while its dialog has the keyboard, removing an
  output, and summons or late rules without focus may leave the keyboard on a
  hidden member.
- An automatic admission into a hidden pad that is displaced forgets the output
  it came from.
- The drop of a dialog that a pad no longer presents may show it again without ending its
  fade (`restorePresentation`, `scratchpad.cpp:995`): a pad shows another window, the dragged
  dialog begins to fade, its parent is set meanwhile to the window the pad shows, and the
  drop enables the dialog; the end of the fade then disables it. The proof found it; it takes six
  acts, two more than the run has.

### Runs that find a disagreement

Each checks one property that a document or a comment of the repository states,
and TLC finds it violated. The quotes are in `PROJECT.json` under "findings".

| Run | What happens |
|---|---|
| `v_transition_failure` | A transition fails after it took its hold. The hold is released with a reconciliation pending, which prunes the empty workspace `activate` is about to switch to; `activate` goes on with the pointer. The comment at `workspace.cpp:3079` names this hazard for the old transition; the new one's failure is not covered. Violates `NoWildPointer` |
| `v_slide_abort` | A layout reload ends a slide without a reconciliation, so an occupied last workspace stays without a sentinel outside any slide, until something else reconciles. Violates `SentinelsOutsideSlides` (`workspace-lifecycle.md:20`) |
| `v_create_held` | An ext-workspace create request takes away the hold of a running transition and nobody makes the put-off reconciliation. Violates the same |
| `v_floor` | The prune stops at `min_workspaces` before the sentinels are counted, so an inventory above its floor may keep a stray empty: in the trace the one at the front, which a switch left behind. Violates `StraysOnlyAtFloor` (`workspace-lifecycle.md:23`); `StraysOnlyNearFloor` is what the code does guarantee |

### Bounds, and why they are enough

- *Workspaces*: 3 or 4 in place of 64. The interesting inventories are those at
  the limit, just below it, and with a sentinel at each edge around one or two
  occupied workspaces: 4 has all of them with `empty_above`, 3 without it.
- *Windows*: nothing in the inventory depends on more than whether a workspace is
  empty. Two windows fill two workspaces at once; `group_edges` needs that,
  the other runs fill one and use names for a second one that may not be pruned.
- *Launches*: one token. Two only reserve two workspaces, and no rule of
  the code relates them.
- *Configurations*: each `Configs` set has one member per rule of the resolver.
- *Serial numbers* grow for ever; the view `Canonical` replaces them with
  positions, which is sound because no property compares serials of different
  states other than through the fields a step leaves alone. The action
  properties are evaluated on concrete steps, before the view is taken.
- *Outputs*: two. The lock's rules are "every active output" and "the first
  surface that fits"; two have a presented one beside one that is not, and an order.
- *Commits in flight*: two in the safety run, so that an old desktop frame and
  the secure one, or two secure ones, are in flight at once. *Sequence
  numbers* modulo 4 wrap around in the run; equal numbers in flight need more
  commits in flight than the modulus, which `LockAssumption` excludes.
- *Disruptions* (failed commits and presentations, mode changes, outputs that
  sleep or leave): two at most; waking up, plugging in, locking, unlocking and
  client exits are not bounded.
- *Displaced homes*: an output to leave and one to take refuge on; the refuge may
  leave in turn, and both may sleep. Two windows have company or have none. Five
  events are enough to open two windows, move one, lose an output and have it
  back; the restore is not counted. The limit of six workspaces is never met.
- *Configuration*: a candidate that takes precedence over another, and an include that
  both may name, in a directory whose parent lasts: so roots change, includes
  go missing, and a directory goes with its watch. Three edits put one before,
  one into and one after a load.
- *Scratchpads*: two members and a dialog are the least with a pad that shows one
  window of two and a dialog beside its parent. Two pads contend for an output; a reload
  may take one away. Four acts reach every handler from every kind of pad; the
  windows may be open at the start, so that acts are not spent on opening them.

### Fairness

`WorkspaceGroup`, `DisplacedHomes` and `Scratchpads` assume none.
`ConfigReload` assumes weak fairness of `LoopNext`, the compositor's own steps taken
together: a load runs to its end, and the event loop returns to an inotify
descriptor or a timer that is ready. Nobody has to edit, or to stop within a
time; that edits are bounded is the "left alone" of `ComesToRest`.
`SessionLock`'s `FairSpec` assumes weak fairness of

- `Frame(o)`: a due frame is served. wlroots emits `frame` once an asked-for
  frame is possible, and a failed one is retried by `m_frameRetryTimer`;
- `Present(o, _)`: wlroots reports every commit, presented or not;
- `SurfaceDeadline`: a `wl_event_loop` timer fires.

Nothing is assumed of the client, the user or the outputs. Disruptions are
bounded: an output whose frames fail for ever never shows the lock scene, and
then nothing may be reported. `lock_live` has one commit in flight, as on a
backend whose frame event follows the flip of the previous frame; with one in
flight its number identifies itself, so the modulus may be 1.
With two in flight `HandoffEnds` fails: every new commit replaces
the remembered one (`session_lock.cpp:237`), so that a lock surface which animates can
keep ahead of its presentations for ever on a backend that takes a commit before
it has reported the previous one. The documents promise no end of the handoff;
it is listed under the hazards.

### Mutants

Every property of a passing run has a mutant in `PROJECT.json`: a definition and
the form a plausible bug would give it (the operators under a `Mutation:` comment in the
modules), for which TLC finds the property violated in that run.

## 4. Proofs

All hold for every value of the constants that the named assumptions allow; TLC
evaluates the assumptions in each run.

| Module | Theorem | States |
|---|---|---|
| `WorkspaceGroupProofs` | `Invariance` | `Spec => []IInv` |
| | `TypeCorrect` | `Spec => []TypeOK` |
| | `NothingDangles` | `Spec => []NoDangling` |
| | `HoldStaysCurrent` | `Spec => []HoldIsCurrent` |
| | `GroupInvariance` | `Spec => []GInv` |
| | `OrderStaysDense` | `Spec => []OrderIsDense` |
| | `LimitHolds` | `Spec => []WithinLimit` |
| | `PreviousStaysElsewhere` | `Spec => []PreviousIsElsewhere` |
| | `SlidesEnd` | `Spec => []SlideHasEnd` |
| | `NothingWild` | `Spec => []NoWildPointer` |
| | `SentinelsStand` | `Spec => []SentinelsPresent` |
| | `StraysStayNearFloor` | `Spec => []StraysOnlyNearFloor` |
| | `ViewsStayAtHome` | `Spec => ViewsKeepAHome` |
| | `LaunchesKeepTheirPlace` | `Spec => LaunchKeepsWorkspace` |
| | `NamesKeepTheirWorkspace` | `Spec => DeclaredNameKeepsIdentity` |
| | `ReloadsFollowTheActive` | `Spec => ReloadFollowsActive` |
| | `DeferredIsMadeUpAlways` | `Spec => DeferredIsMadeUp` |
| `SessionLockProofs` | `Invariance` | `Spec => []Sound(session)` |
| | `SecureWhileLocked` | `Spec => []LockedMeansSecure` |
| | `ConfirmationIsEarned` | `Spec => ConfirmedAfterPresented` |
| | `BlankStays` | `Spec => BlankOutlivesClient` |
| | `SafeAlways` | `Spec => []Safe` |
| | `TypeCorrect` | `Spec => []TypeOK` |
| | `KeyboardStaysOnLock` | `Spec => []KeyboardOnLock` |
| | `PromiseIsKept` | `Spec => KeepsPromise` (`SessionLock` implements `LockPromise`) |
| `ConfigReloadProofs` | `Invariance` | `Spec => []IInv` |
| | `PolicyStaysWhole` | `Spec => []PolicyIsWhole` |
| | `PreviousStays` | `Spec => PreviousIsKept` |
| | `WatchInvariance` | `Spec => []FullInv` |
| | `TypeCorrect` | `Spec => []TypeOK` |
| | `RestIsCurrent` | `Spec => []AtRestCurrent` |
| `ScratchpadProofs` | `Invariance` | `Spec => []Inv` |
| | `TypeCorrect` | `Spec => []TypeOK` |
| | `NoWildPointers` | `Spec => []PointersAreMembers` |
| | `NoUnpluggedOutput` | `Spec => []OutputsAreListed` |
| | `OneAtATime` | `Spec => []OnePadPerOutput` |
| | `MembersOnScreen` | `Spec => []ShowsWhatItHolds` |
| | `DisplacedPadReturns` | `Spec => []BackOnItsOutput` |
| | `WishesMoveTheKeyboard` | `Spec => FocusFollows` |
| `DisplacedHomesProofs` | `HomesInvariance` | `Spec => []HInv` |
| | `HomesTyped` | `Spec => []TypeOK` |
| | `NothingStaysBehind` | `Spec => []DisabledIsEmpty` |
| | `EverybodyIsSomewhere` | `Spec => []NobodyLost` |
| | `EverybodyComesHome` | `Spec => []BackOnItsOutput` |
| | `CompanyStaysTogether` | `Spec => CompanyTogether` |

### WorkspaceGroup

Assumed: `ConstantAssumption` (what the resolver guarantees of a configuration)
and `"transition_failure" \notin Disturbances`. The last assumption is necessary:
without it, the code reaches a switch to a workspace that is gone, as
`v_transition_failure` shows.

The inductive invariant is `IInv == config \in Configs /\ Sound(group)`, where
`Sound` is the conjunction of the shape, "points at live" and "the hold is current".
None of the three is inductive alone. A slide's end or the selection is taken
from the hold's captured order, so "points at live" needs that order to be the
live one; the hold is current only because each operator that edits the
inventory starts from a group without a hold, which is known from the shape and
the guards; and erasing a workspace leaves no stale slide because pruning
happens only without one.

The proof follows the module. Each operator from groups to groups has a lemma
`...Sound`: a sound group goes to a sound group, and what the operator promises its callers
(no hold, no slide, a live active workspace). Three general lemmas carry most
of them: `SameInventory` (only selection, slide or hold change), `Grown` (every
workspace is kept), and `EraseSound` with `PrunedIsUnused` (what is erased is
pointed at by nobody but `previous` and launches, which are reset). The actions
are grouped in `UsersChange`, `SelectionChanges`, `SlidesChange` and
`PresentationsChange`, one case each.

A second invariant, `GInv`, carries the other properties. It adds to `IInv` that
the inventory is as dynamic as its configuration, `Dense` (the order is a
permutation of the positions, the size is within the limit, no name is taken
twice), `Elsewhere` (`previous` is another workspace than `active`) and `Ends`
(a slide has something that ends it). Three of the properties need more:

- `NoWildPointer` needs `Chosen` (some workspace is active, nothing was wild):
  most handlers go through `m_active`, so it is false once the only workspace
  may be deactivated. The theorem assumes `"deactivate_last" \notin Disturbances`;
  the hazard at `gestures.cpp:580` is what happens without.
- `SentinelsPresent` and `StraysOnlyNearFloor` need `Swept` (with no slide and
  nothing put off the inventory is tidy), which a slide ended by a layout
  reload breaks: `v_slide_abort` is the counterexample, and
  `"slide_abort" \notin Disturbances` the assumption.

The second part of the module is about what one group record holds. Counting is done with the
standard facts on cardinalities and one lemma, `Packed`: an order without gaps is a
bijection with `0 .. n-1`. Each phase of `Rebuild` has a lemma that says what it
leaves (the names are served, the prune keeps whoever is used, the floor is met, the
sentinels stand), and together they are `Repaired`: after a reconciliation the
inventory is tidy.
The third part is about pairs of records. `Moves` is a change of selection, slide
and hold, `Carries` an edit of who lives where, `Follows` any sequence of
these with reconciliations between, and `Reloads` the rebuild under a new configuration. Each
composes (`FollowsTwice`, `CarriesTwice`), so a handler is proved in the
order in which the code makes its calls. `Steps` collects what an action of
`Next` promises, with one lemma per action or group of actions, and the
thirteen theorems are projections of it.

The last of them found a fault in the property as it stood: a reload to a fixed
inventory during a slide leaves `m_inventoryReconciliationPending` set. That loses
nothing, since `reconcileDynamic` returns at once for a fixed inventory, so
`Abandoned` now speaks of dynamic ones, and `group_disturbed` reloads to a fixed one.

### SessionLock

Assumed: `LockAssumption`, in which `SeqBound >= MaxFlight` says that no two commits
in flight have the same number. `LockedMeansSecure` is far from inductive: that
the session may be told locked rests on what the presentation records *mean*. The
invariant `Sound` says it (`Record`): an output whose record says presented shows the
lock scene and has nothing but it on its way; and where the record remembers a
commit, the commit in flight of that number, and every later one, is of the lock scene.
The second needs `Numbered` (commits in flight are numbered backwards from
`commit_seq`, modulo `SeqBound`), or the number of an older commit could be that of
the remembered one after the counter wrapped. `Dark` (what a dark output
committed is never shown) covers the outputs that nobody waits for, `Synced` that every
active output is waited for, and `Waits` that an output which wakes up does not
start the handoff.

Helpers break parts of `Sound` on their way, so their lemmas are about `Between(s, X)`,
the invariant with the records of the outputs in `X` still to be corrected: a mode
change submits a dark frame (`SubmitKeeps`: all records but that output's are true),
and `handleOutputStateChanged` resets that record (`StateChangedKeeps`).
`MaybeKeeps` is the heart: all records say presented, so nothing shows the desktop.
Each action has a `...Step` lemma that gives `Sound` and `Handled`, what a
step that is not an unlock may do; the four theorems follow from `Handled`.

The keyboard has an invariant of its own, `Keys`, and `Safe` is the conjunction. `KeyboardOnLock`
is not inductive for two reasons. `focusMappedSurface` looks for a surface in the list, so
every mapped surface must be listed (`FirstEligible`, `RemoveFirstFacts`). And a
client may die under a lock that stays: the session is then locked with no handler
that minds the keyboard, and only `s.locked /\ ~HasFocusRole(s) => s.focus = None` says that the next
client's lock finds it nobody's. Within a handler only `Loose` holds, since an output may have
slept under the focused surface; each handler ends in
`focusMappedSurface`, which makes `Keys` of it (`FocusKeys`).

### ConfigReload

Assumed: `ConfigAssumption`. `IInv` is `DiskOK`, `StoreOK` and `LoadOK`. The part
that makes it inductive is `Closed`: of a load under way, each file that a text already read
names has been read, was found missing, or is still to be read. When
nothing is left to read, a policy that loads is whole, although the files
may say something else by then.

`ConfigAssumption` says of the directories what a file system guarantees: each lies in
one other (two files that share a directory share all above it), and only the last of a
lineage stays for ever.

`AtRestCurrent` speaks of a moment when nothing is pending, so it says nothing during
the steps that could break it. `FullInv` follows the knowledge of a change through them:

- During a load (`ReadOK`), each file that was read, or found missing, agrees with the
  disk or is `Stale`: the change was missed (`raced`), the directory went (`Pending`), or
  an event waits in the queue of a directory that is still watched (`Told`). Nothing is
  read that the root does not lead to (`Reach`), and the root is the one that would
  be chosen now, unless a candidate is stale (`StillChosen`).
- When the load is over (`RearmOK`), a path that the store asks for is stale, or the store
  is `Good`: current, and asking for every file this depends on. `LearnedGood` is the step
  from the first to the second: with nothing stale, the texts read are those of
  `Reached`, the files the root leads to, and so the load came to what the files mean.
- `Rearm` drops the events of directories it stops watching. The lemma `RearmWatch` shows
  that none of a stale path is among them: a directory with an event exists, so the file's
  nearest existing ancestor is that directory, and it stays watched.
- Between two loads (`Resting`) an alarm is due, or all paths are `Attended` and the store
  is good. A directory made between a missing file and its watched ancestor is one
  of the names waited for (`MakeWatch`); one that goes has a watch of its own, or
  nothing that was waited for lies in it (`RemoveWatch`).
- A replacement that fails puts back the paths it found, so what held before it began
  must be kept while it runs (`Restored`, with `load.missed`).

The attempt found the ghost `raced` too generous. A load takes the first candidate
that exists; if a higher one is created afterwards, in a directory without a watch, and the
load then reads it because the lower one includes it, the content is not stale, yet the choice
of the root is. `raced` forgot the file when it was read, and with a packaged file that takes in
the user's (`Defers`) TLC refuted the property. Now it is forgotten only while `StillChosen`.

### Scratchpads

Assumed: `PadsAssumption`. Of the code it takes that a dialog's parent is no dialog, which
is a limit of the model; that pads are reconciled in a fixed order is why names are numbers.

A handler is several calls of the manager, and between two of them a pad may say one thing and
the scene another. `Sound(s, L, X, W)` is the invariant of a state `s` with the outputs `L`, apart from
the pads in `X`, whose windows are still to be shown or hidden, and the windows in `W`, which are in no
pad and not yet on screen. Each function of `ScratchpadManager` has a lemma that says what it
needs of `X` and `W` and what it pays back: `moveScratchpad` leaves its pad in `X` until
`Redisplay`, `admit` takes a window from one pad, which may then owe its hiding, and puts it in
another, which then owes its display. A handler starts and ends with both sets empty (`Acted`,
and `Done` where it also defines pads or removes them).

`PointersAreMembers`, `OnePadPerOutput` and `ShowsWhatItHolds` are conjuncts of `Sound`. The other
two invariants need a memory. `BackOnItsOutput` says nothing while a restore is due, which is when
everything happens; so `Remembered` says in every state that a displaced pad's home, or else its
output, is where it was last put, `Homed` that every call leaves both alone or makes the new output the
home, and `AtHome` that what could go home, or be shown somewhere, has a restore due. `Housed` is the part
of it that admissions owe: who gives a pad its first window gives it an output. `Lands` is
`FocusFollows` for one act; it is proved beside the invariant, action by action, for those that are `ByUser`.

An output transaction evacuates several outputs, some of them onto others that go next, in a
loop over the pads inside a loop over the outputs; a reload undefines pads in a loop over
loops over their members. The induction over such a loop is `FoldLemmas!Folded`: the fold has a value after each
element, the next computed from the last. `Folded` is proved for a constant operator `Op`, since a lemma
cannot take an operator, and the module is instantiated with the body of each loop. What the loop keeps
is then an induction over numbers, by the well-ordering that `SequenceLemmas` has
(`LeastOfNat`).

The attempt corrected the model in three places:

- `PointersAreMembers` said that a window on screen is never about to be disabled by a fade. That is no
  invariant for dialogs, as the gap above describes; the property now makes an exception of them.
- Some `CASE` guards overlapped, here and in `DisplacedHomes`. TLC takes the first that holds, as
  the code does, but by the meaning of `CASE` any of them may be taken. They are now exclusive.
- The records of the windows and of the desk were not in `TypeOK`.

### DisplacedHomes

Assumed: `HomesAssumption`, which is what `WorkspaceGroup` assumes of a configuration, and that
nullptr is no place and no home. The configuration may be dynamic or fixed: the run's is
dynamic, the theorems hold for both.

An inventory is seen from outside. `Resting`, at the end of `WorkspaceGroupProofs`, is what a
group promises on which no slide and no presentation runs, and how each operator that the outputs
call keeps it: `Reconcile`, `SwitchNow`, `InsertAt`, a window that comes or goes.
`EvacuationProofs` takes it as `Calm` from an instance of those proofs, with the one
configuration, no launches and no disturbances, and looks into a group no further.

`BackOnItsOutput`, `NobodyLost` and `DisabledIsEmpty` are far from inductive. The first two say nothing
while a restore is pending, which is when everything happens, and the third is false within a
handler. The invariant `HInv` therefore remembers:

- `Belongs`, in every state: a window that has a home was last put on that home's output, and one
  that has none is where it was put. A user's move, a second evacuation of a
  refugee and a refuge whose layout is protected all keep it, each for its own reason.
- `Lodged(s, X)`: a window with a place is open and on an output of the desktop, or on one of `X`,
  those the current transaction has disabled and still has to evacuate. A handler starts and ends with
  `X` empty.
- `Remembers`: only open windows have homes, and a home that merely protects a layout is where the
  window is.
- `AtRest(s, W)`: with no restore pending who can be home is, and nobody is nowhere, apart from the
  windows `W` that are being moved. Each handler that makes it false asks for a restore.

The loops of the code, over windows, outputs and homes, are left folds, and each has its
instance of `FoldLemmas`; what a loop keeps is `SequenceLemmas!LoopInvariant`. The restore is three
loops over inventories that prune and renumber between the moves. `Returning` is what each step of
it keeps, `AllHome` what the loop over homes leaves, and `AllGathered` that each home's windows are
on one workspace. `HomesInOrder` chooses an order of the homes, and `Soonest` with
`Arranging` shows that there is one: a relation that always has a first arranges
any finite set.

`CompanyStaysTogether` is one half of `CompanyKept`, about the step of the restore: windows that
shared a workspace when they left share one on the same output. The converse, that those that did
not share one do not, is not a property of the code for every configuration: a home whose workspace is
no more, where there is no room for another, gets the active workspace, and so does the
next (`server_events.cpp:2670`). It holds in the run's instance, where there is room for every home.

The attempt changed three things in the model. The loops, which were folds over sets and over
filtered lists, became left folds over a list. `Sooner` put two homes of one place before each other when
both had an anonymous label; now a home comes before another only where they differ, so that an
order exists for every set. And `HomesAssumption` now says that nullptr is not a place or a home.

### What is only model-checked

Liveness (`HandoffEnds`, `ComesToRest`); the half of `CompanyKept` that keeps apart; and the runs
that find a disagreement. Every other property of a passing run is stated by a theorem. Out of the
prover's reach: liveness under fairness and anything with `ENABLED`; induction with the library's
theorems, which take an operator as a parameter, so that each induction here is made of the least
counterexample among the numbers; and `RECURSIVE` operators, of which this project has none.

## 5. What is not modelled, and why

- *Layout inside a workspace* (dwindle, master, scrolling): sequential geometry
  with unit tests of its own.
- *Capture leases, textures, composition, effects, decorations*: rendering; a
  transition's lease is one action.
- *Blank geometry*: the size of the lock blank over a changing layout
  (`output.cpp:659`) is a hazard without a property.
- *The inactive session* (VT switch): frames are dropped, and no fairness holds
  until the switch back.
- *The cross-output pointer drop* of a launch, the token's wall-clock lifetime.
- *Xwayland*: the interesting state is in the X server and wlroots's xwm.
- *Overview* beyond its insertion of a workspace and the reconciliation on close.
- *Input devices, layer shell, backends, allocator and GPU recovery, Wine colour
  manager, start-up, logging, CLI*: glue over wlroots or pure I/O.
- *Of displaced homes*: layout snapshots and floats, window rules that keep a home
  (`view_rules.cpp:332`), slides and holds during a move, a window that unmaps
  and maps again, identity matching of outputs, enable overrides, and
  positions of outputs.
- *Of the configuration*: values and their merge, symbolic links and canonical
  paths, include cycles, effect sources, the generation counter, a queue overflow of
  inotify, and the gap between looking for a directory and watching it.
- *Of scratchpads*: geometry, opacity, the backdrop, return locations, animations
  switched off, pinned windows, a member that unmaps and maps again, dialogs of
  dialogs.
- *IPC*: connections, buffers and frame waits are I/O; the audio producer dropped while
  its connection is answered (`ipc.cpp:458`) is a hazard without a property.

## 6. Plan

Done: `WorkspaceGroup` and its proofs; `SessionLock`, `LockPromise`, the
refinement and its proofs; `DisplacedHomes` and its proofs; `ConfigReload` and
its proofs; `Scratchpads` and its proofs.

Left, in this order:

1. `Ipc`: connections, subscriptions and the audio producer, as far as their state machine
   goes.
2. The session's activity (VT switch) and the blank's geometry in `SessionLock`.
3. Pads and windows in one composition: a scratchpad member that goes back to a
   workspace of an output that is displaced.
