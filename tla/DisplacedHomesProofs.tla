------------------------ MODULE DisplacedHomesProofs ------------------------
(***************************************************************************)
(* Proofs about DisplacedHomes: whatever leaves, returns, is put to sleep  *)
(* or is disabled, and whatever the user does in between, the windows are  *)
(* where they should be.  EvacuationProofs has the invariant HInv and the  *)
(* handlers of outputs; here are the acts of the user, the way home, the   *)
(* proof that every action keeps HInv, and what HInv gives.                *)
(***************************************************************************)
EXTENDS EvacuationProofs

-----------------------------------------------------------------------------
(* What the user does.                                                     *)

\* The output windows were put on, after those of W went to o.
Put(puts, W, o) == [v \in Views |-> IF v \in W THEN o ELSE puts[v]]

\* Windows that are moved to an output of the desktop belong there.
LEMMA MovesHouse ==
  ASSUME NEW s, NEW puts, Housed(s, {}, puts), NEW W \in SUBSET s.open, NEW o \in Listed(s), s.desktop[o],
         NEW w, NEW t, Moves(s, t, W, o, w)
  PROVE  Housed(t, {}, Put(puts, W, o)) /\ (AtRest(s, W) => AtRest(t, {}))
<1>0. Shaped(s) /\ Fine(s) /\ Lodged(s, {}) /\ Belongs(s, puts) /\ Remembers(s)
  BY DEF Housed, Shaped
<1>1. o \in Outputs /\ o # None /\ W \in SUBSET Views
  BY <1>0, ListedFacts DEF Shaped
<1>2. /\ Fine(t) /\ w \in Inventory!Live(t.group[o]) /\ t.idle \in BOOLEAN /\ (s.idle => t.idle)
      /\ t.listed = s.listed /\ t.desktop = s.desktop /\ t.asleep = s.asleep /\ t.open = s.open
      /\ t.chosen = s.chosen /\ t.home = [v \in Views |-> IF v \in W THEN None ELSE s.home[v]]
  BY DEF Moves, DeskFields
<1>3. w # None
  <2>1. Calm(t.group[o])
    BY <1>1, <1>2 DEF Fine
  <2> QED BY <1>2, <2>1, CalmFacts
<1>4. \A v \in Views : On(t, v) = IF v \in W THEN o ELSE On(s, v)
  <2>1. Puts(s, t, W, o, w)
    BY DEF Moves
  <2> QED BY <1>0, <1>1, <1>2, <1>3, <2>1, PutsOn
<1>5. t.home \in [Views -> Home \cup {None}]
  BY <1>0, <1>2 DEF Shaped
<1>6. Shaped(t)
  BY <1>0, <1>2, <1>5 DEF Shaped
<1>7. Listed(t) = Listed(s) /\ Enabled(t) = Enabled(s)
  BY <1>2 DEF Listed, Enabled
<1>8. Lodged(t, {})
  <2> SUFFICES ASSUME NEW v \in Views, On(t, v) # None
               PROVE  v \in t.open /\ On(t, v) \in Listed(t) /\ t.desktop[On(t, v)]
    BY DEF Lodged
  <2> QED BY <1>0, <1>2, <1>4, <1>7 DEF Lodged
<1>9. Remembers(t)
  BY <1>0, <1>2, <1>4 DEF Remembers
<1>10. Belongs(t, Put(puts, W, o))
  BY <1>0, <1>2, <1>4 DEF Belongs, Put
<1>11. ASSUME AtRest(s, W), ~t.idle
       PROVE  /\ \A v \in Views : t.home[v] # None /\ t.home[v].output \in Enabled(t) =>
                                    On(t, v) = t.home[v].output
              /\ Enabled(t) # {} => Orphans(t) = {}
  <2>1. /\ \A v \in Views \ W : s.home[v] # None /\ s.home[v].output \in Enabled(s) => On(s, v) = s.home[v].output
        /\ Enabled(s) # {} => Orphans(s) \subseteq W
    BY <1>2, <1>11 DEF AtRest
  <2>2. \A v \in Views : t.home[v] # None => v \notin W /\ t.home[v] = s.home[v]
    BY <1>2
  <2>3. \A v \in Orphans(t) : v \in Orphans(s) /\ v \notin W
    BY <1>1, <1>2, <1>4, <1>0 DEF Orphans, Shaped
  <2>4. ASSUME NEW v \in Views, t.home[v] # None, t.home[v].output \in Enabled(t)
        PROVE  On(t, v) = t.home[v].output
    BY <1>4, <1>7, <2>1, <2>2, <2>4
  <2> QED BY <1>7, <2>1, <2>3, <2>4
<1> QED BY <1>6, <1>8, <1>9, <1>10, <1>11 DEF Housed, AtRest

\* Where windows are is what the inventories say of them.
LEMMA SameHomes ==
  ASSUME NEW s, NEW t, \A p \in Outputs : t.group[p].home = s.group[p].home
  PROVE  \A v \in Views : On(t, v) = On(s, v)
BY Zenon DEF On

\* activateWorkspace changes one inventory, and moves no window.
LEMMA ActivateSame ==
  ASSUME NEW s, Fine(s), NEW o \in Outputs, NEW w \in Inventory!Live(s.group[o]), NEW t, t = Activate(s, o, w)
  PROVE  /\ SameWindows(s, t) /\ OnlyGroups(s, t)
         /\ \A p \in Outputs : t.group[p].home = s.group[p].home
<1> DEFINE k == s.group[o]
           g == IF k.active = w THEN Reconciled(k) ELSE Inventory!SwitchNow(k, Config, w)
<1>1. t = Regrouped(s, o, g)
  BY DEF Activate, Regrouped
<1>2. Calm(g) /\ g.home = k.home
  <2>1. Calm(k)
    BY DEF Fine
  <2>2. CASE k.active = w
    BY <2>1, <2>2, CalmReconciled
  <2>3. CASE k.active # w
    BY <2>1, <2>3, CalmSwitch
  <2> QED BY <2>2, <2>3
<1> HIDE DEF g
<1>3. TakesNone(s, o, g)
  BY <1>2 DEF TakesNone, Fine
<1>4. Fine(t) /\ OnlyGroups(s, t) /\ t.group[o] = g /\ \A p \in Outputs \ {o} : t.group[p] = s.group[p]
  BY <1>1, <1>2, <1>3, Regroup
<1>5. \A p \in Outputs : t.group[p].home = s.group[p].home
  BY <1>2, <1>4
<1>6. \A v \in Views : On(t, v) = On(s, v)
  BY <1>5, SameHomes
<1>7. t.home = s.home /\ t.open = s.open /\ t.chosen = s.chosen
  BY <1>4 DEF OnlyGroups, DeskFields
<1> QED BY <1>4, <1>5, <1>6, <1>7 DEF SameWindows

\* So it leaves everyone where they belong.
LEMMA SameDesk ==
  ASSUME NEW s, NEW puts, Housed(s, {}, puts), NEW t, SameWindows(s, t), OnlyGroups(s, t)
  PROVE  Housed(t, {}, puts) /\ \A W : AtRest(s, W) => AtRest(t, W)
<1>1. /\ t.listed = s.listed /\ t.desktop = s.desktop /\ t.asleep = s.asleep /\ t.idle = s.idle
      /\ s.open \in SUBSET Views /\ OutputsTyped(t)
  BY DEF OnlyGroups, DeskFields, OutputsTyped, Housed, Shaped
<1>2. Lodged(t, {})
  BY <1>1 DEF Lodged, Housed, SameWindows, Listed
<1>3. Housed(t, {}, puts)
  BY <1>1, <1>2, Rehoused
<1>4. Enabled(t) \subseteq Enabled(s)
  BY <1>1 DEF Enabled, Listed
<1>5. ASSUME NEW W, AtRest(s, W) PROVE AtRest(t, W)
  BY <1>1, <1>4, <1>5, FewerEnabled
<1> QED BY <1>3, <1>5

LEMMA ActivateHouses ==
  ASSUME NEW s, NEW puts, Housed(s, {}, puts), NEW o \in Outputs, NEW w \in Inventory!Live(s.group[o]),
         NEW t, t = Activate(s, o, w)
  PROVE  Housed(t, {}, puts) /\ (AtRest(s, {}) => AtRest(t, {}))
<1>1. SameWindows(s, t) /\ OnlyGroups(s, t)
  BY ActivateSame DEF Housed, Shaped
<1> QED BY <1>1, SameDesk

\* A window that maps where nothing shows it is nowhere, and waits.
Opened(s, v) == [s EXCEPT !.open = @ \cup {v}]

LEMMA OpenedHouses ==
  ASSUME NEW s, NEW puts, Housed(s, {}, puts), AtRest(s, {}), NEW v \in Views, v \notin s.open,
         NEW t, t = Opened(s, v)
  PROVE  /\ Housed(t, {}, puts) /\ AtRest(t, {v}) /\ v \in t.open
         /\ On(t, v) = None /\ t.home[v] = None /\ puts[v] = None
         /\ t.group = s.group /\ Listed(t) = Listed(s) /\ Enabled(t) = Enabled(s) /\ t.desktop = s.desktop
<1>1. /\ t = [f \in DeskFields |-> t[f]] /\ t.idle = s.idle /\ t.group = s.group /\ t.home = s.home
      /\ t.open = s.open \cup {v} /\ t.chosen = s.chosen /\ t.listed = s.listed /\ t.desktop = s.desktop
      /\ t.asleep = s.asleep
  BY DEF Opened, Housed, Shaped, Fine, DeskFields
<1>2. Fine(t) /\ \A u \in Views : On(t, u) = On(s, u)
  <2>1. SameInventories(s, t) /\ Fine(s)
    BY <1>1 DEF SameInventories, Housed, Shaped
  <2> QED BY <2>1, SameGroups
<1>3. Shaped(t)
  BY <1>1, <1>2 DEF Housed, Shaped
<1>4. Listed(t) = Listed(s) /\ Enabled(t) = Enabled(s)
  BY <1>1 DEF Listed, Enabled
<1>5. Lodged(t, {}) /\ Remembers(t) /\ Belongs(t, puts)
  BY <1>1, <1>2, <1>4 DEF Housed, Lodged, Remembers, Belongs
<1>6. On(s, v) = None /\ s.home[v] = None
  BY DEF Housed, Lodged, Remembers
<1>7. puts[v] = None
  BY <1>6 DEF Housed, Belongs
<1>8. AtRest(t, {v})
  <2>1. Orphans(t) \subseteq Orphans(s) \cup {v}
    BY <1>1, <1>2 DEF Orphans, Housed, Shaped
  <2> QED BY <1>1, <1>2, <1>4, <2>1 DEF AtRest
<1> QED BY <1>1, <1>2, <1>3, <1>4, <1>5, <1>6, <1>7, <1>8 DEF Housed

\* A map: on the active workspace of the preferred output.
LEMMA OpenHouses ==
  ASSUME NEW s, NEW puts, Housed(s, {}, puts), AtRest(s, {}), NEW v \in Views, v \notin s.open,
         NEW o \in Preferred(s), NEW r, r = Opened(s, v),
         NEW t, t = IF o = None THEN r ELSE SetWorkspace(r, v, o, r.group[o].active)
  PROVE  Housed(t, {}, Put(puts, {v}, o)) /\ AtRest(t, {})
<1>1. /\ Housed(r, {}, puts) /\ AtRest(r, {v}) /\ v \in r.open
      /\ On(r, v) = None /\ r.home[v] = None /\ puts[v] = None
      /\ r.group = s.group /\ Listed(r) = Listed(s) /\ Enabled(r) = Enabled(s) /\ r.desktop = s.desktop
  BY OpenedHouses
<1>2. Shaped(r) /\ Fine(r) /\ r.open \in SUBSET Views
  BY <1>1 DEF Housed, Shaped
<1>3. CASE o = None
  <2>1. Enabled(s) = {}
    BY <1>3, ListedFacts DEF Preferred, Enabled, Housed, Shaped
  <2>2. Belongs(r, Put(puts, {v}, o))
    BY <1>1, <1>3 DEF Belongs, Put, Housed
  <2>3. AtRest(r, {})
    BY <1>1, <2>1 DEF AtRest
  <2> QED BY <1>1, <1>3, <2>2, <2>3 DEF Housed
<1>4. CASE o # None
  <2>1. o \in Listed(r) /\ o \in Outputs /\ r.desktop[o]
    BY <1>1, <1>2, <1>4, ListedFacts DEF Preferred, Enabled, Shaped
  <2> DEFINE w == r.group[o].active
  <2>2. w \in Inventory!Live(r.group[o])
    BY <1>2, <2>1, CalmFacts DEF Fine
  <2>3. t = SetWorkspace(r, v, o, w)
    BY <1>4
  <2> HIDE DEF w
  <2>4. Fine(t) /\ OnlyGroups(r, t) /\ Puts(r, t, {v}, o, w) /\ w \in Inventory!Live(t.group[o])
    BY <1>2, <2>1, <2>2, <2>3, SetWorkspacePuts
  <2>5. r.home = [u \in Views |-> IF u \in {v} THEN None ELSE r.home[u]]
    BY <1>1, <1>2 DEF Shaped
  <2>6. t.home = r.home /\ t.idle = r.idle /\ r.idle \in BOOLEAN
    BY <1>2, <2>4 DEF OnlyGroups, DeskFields, Shaped
  <2>7. \A f \in DeskFields \ {"group", "home", "idle"} : t[f] = r[f]
    BY <2>4 DEF OnlyGroups
  <2>8. Moves(r, t, {v}, o, w)
    BY <2>4, <2>5, <2>6, <2>7 DEF Moves
  <2>9. PICK W \in SUBSET r.open : W = {v}
    BY <1>1
  <2>10. Housed(t, {}, Put(puts, W, o)) /\ (AtRest(r, W) => AtRest(t, {}))
    BY <1>1, <2>1, <2>8, <2>9, MovesHouse
  <2> QED BY <1>1, <2>9, <2>10
<1> QED BY <1>3, <1>4

\* An unmap: the window is nowhere, remembers nothing and is missed by nobody.
Closed(s, v) == [s EXCEPT !.open = @ \ {v}, !.home[v] = None]

LEMMA CloseHouses ==
  ASSUME NEW s, NEW puts, Housed(s, {}, puts), AtRest(s, {}), NEW v \in Views,
         NEW r, r = Closed(s, v), NEW d, d = Detach(r, v), NEW t, t = [d EXCEPT !.idle = @ \/ s.home[v] # None]
  PROVE  Housed(t, {}, Put(puts, {v}, None)) /\ AtRest(t, {})
<1>0. Shaped(s) /\ Fine(s)
  BY DEF Housed, Shaped
<1>1. /\ r = [f \in DeskFields |-> r[f]] /\ r.idle = s.idle /\ r.group = s.group
      /\ r.home = [s.home EXCEPT ![v] = None] /\ r.open = s.open \ {v} /\ r.chosen = s.chosen
      /\ r.listed = s.listed /\ r.desktop = s.desktop /\ r.asleep = s.asleep
  BY <1>0 DEF Closed, Fine, DeskFields
<1>2. Fine(r) /\ \A u \in Views : On(r, u) = On(s, u)
  <2>1. SameInventories(s, r)
    BY <1>1 DEF SameInventories
  <2> QED BY <1>0, <2>1, SameGroups
<1>3. Fine(d) /\ OnlyGroups(r, d) /\ Puts(r, d, {v}, None, None)
  BY <1>2, DetachPuts
<1>4. \A u \in Views : On(d, u) = IF u = v THEN None ELSE On(s, u)
  <2>1. \A u \in Views : On(d, u) = IF u \in {v} THEN None ELSE On(r, u)
    BY <1>2, <1>3, PutsOn
  <2> QED BY <1>2, <2>1
<1>5. /\ t = [f \in DeskFields |-> t[f]] /\ t.idle = (d.idle \/ s.home[v] # None) /\ t.group = d.group
      /\ t.home = d.home /\ t.open = d.open /\ t.chosen = d.chosen /\ t.listed = d.listed
      /\ t.desktop = d.desktop /\ t.asleep = d.asleep
  BY <1>3 DEF Fine, DeskFields
<1>6. Fine(t) /\ \A u \in Views : On(t, u) = On(d, u)
  <2>1. SameInventories(d, t)
    BY <1>5 DEF SameInventories
  <2> QED BY <1>3, <2>1, SameGroups
<1>7. /\ t.home = [s.home EXCEPT ![v] = None] /\ t.open = s.open \ {v} /\ t.chosen = s.chosen
      /\ t.listed = s.listed /\ t.desktop = s.desktop /\ t.asleep = s.asleep
      /\ t.idle = (s.idle \/ s.home[v] # None)
  <2>1. /\ d.home = r.home /\ d.open = r.open /\ d.chosen = r.chosen /\ d.listed = r.listed
        /\ d.desktop = r.desktop /\ d.asleep = r.asleep /\ d.idle = r.idle
    BY <1>3 DEF OnlyGroups, DeskFields
  <2>2. /\ t.home = r.home /\ t.open = r.open /\ t.chosen = r.chosen /\ t.listed = r.listed
        /\ t.desktop = r.desktop /\ t.asleep = r.asleep /\ t.idle = (r.idle \/ s.home[v] # None)
    BY <1>5, <2>1
  <2> QED BY <1>1, <2>2
<1>8. Shaped(t)
  <2>1. t.home \in [Views -> Home \cup {None}] /\ t.idle \in BOOLEAN
    BY <1>0, <1>7 DEF Shaped
  <2> QED BY <1>0, <1>6, <1>7, <2>1 DEF Shaped
<1>9. Listed(t) = Listed(s) /\ Enabled(t) = Enabled(s)
  BY <1>7 DEF Listed, Enabled
<1>10. \A u \in Views : On(t, u) = (IF u = v THEN None ELSE On(s, u)) /\ t.home[u] = (IF u = v THEN None ELSE s.home[u])
  <2>1. \A u \in Views : t.home[u] = IF u = v THEN None ELSE s.home[u]
    <3>1. PICK h : h = s.home
      OBVIOUS
    <3>2. h = [u \in Views |-> h[u]] /\ t.home = [h EXCEPT ![v] = None]
      BY <1>0, <1>7, <3>1 DEF Shaped
    <3> QED BY <3>1, <3>2
  <2> QED BY <1>4, <1>6, <2>1
<1>11. Lodged(t, {})
  BY <1>7, <1>9, <1>10 DEF Housed, Lodged
<1>12. Remembers(t)
  BY <1>7, <1>10 DEF Housed, Remembers
<1>13. Belongs(t, Put(puts, {v}, None))
  BY <1>10 DEF Housed, Belongs, Put
<1>14. AtRest(t, {})
  <2> SUFFICES ASSUME ~t.idle
               PROVE  /\ \A u \in Views : t.home[u] # None /\ t.home[u].output \in Enabled(t) =>
                                            On(t, u) = t.home[u].output
                      /\ Enabled(t) # {} => Orphans(t) = {}
    BY DEF AtRest
  <2>1. /\ \A u \in Views : s.home[u] # None /\ s.home[u].output \in Enabled(s) => On(s, u) = s.home[u].output
        /\ Enabled(s) # {} => Orphans(s) = {}
    BY <1>7 DEF AtRest
  <2>2. Orphans(t) \subseteq Orphans(s)
    BY <1>0, <1>7, <1>10 DEF Orphans, Shaped
  <2> QED BY <1>9, <1>10, <2>1, <2>2
<1> QED BY <1>8, <1>11, <1>12, <1>13, <1>14 DEF Housed

\* moveViewToWorkspace, and the switch that may follow the window.
LEMMA MoveWindowHouses ==
  ASSUME NEW s, NEW puts, Housed(s, {}, puts), AtRest(s, {}), NEW v \in Views, On(s, v) # None,
         NEW o \in Listed(s), s.desktop[o], NEW w \in Inventory!Live(s.group[o]), NEW follow \in BOOLEAN,
         NEW r, r = MoveTo(s, v, o, w), NEW t, t = IF follow THEN Activate(r, o, w) ELSE r
  PROVE  Housed(t, {}, Put(puts, {v}, o)) /\ AtRest(t, {})
<1>1. Shaped(s) /\ Fine(s) /\ o \in Outputs
  BY ListedFacts DEF Housed, Shaped
<1>2. s.home = [u \in Views |-> s.home[u]] /\ s.idle \in BOOLEAN
  BY <1>1 DEF Shaped
<1>3. Moves(s, r, {v}, o, w)
  BY <1>1, <1>2, MoveToMoves
<1>4. PICK W \in SUBSET s.open : W = {v}
  BY DEF Housed, Lodged
<1>5. AtRest(s, W)
  BY DEF AtRest
<1>6. Housed(r, {}, Put(puts, W, o)) /\ AtRest(r, {})
  BY <1>3, <1>4, <1>5, MovesHouse
<1>7. w \in Inventory!Live(r.group[o])
  BY <1>3 DEF Moves
<1>8. CASE follow
  <2>1. PICK p : p = Put(puts, W, o)
    OBVIOUS
  <2>2. Housed(t, {}, p) /\ AtRest(t, {})
    BY <1>1, <1>6, <1>7, <1>8, <2>1, ActivateHouses
  <2> QED BY <1>4, <2>1, <2>2
<1>9. CASE ~follow
  BY <1>4, <1>6, <1>9
<1> QED BY <1>8, <1>9

\* Who is on the workspaces of an output is on the output, and open.
LEMMA ViewsAtFacts ==
  ASSUME NEW s, NEW puts, Housed(s, {}, puts), NEW o \in Outputs, NEW w \in Inventory!Live(s.group[o])
  PROVE  /\ ViewsAt(s, o, w) \in SUBSET s.open /\ ViewsAt(s, o, w) \in SUBSET Views
         /\ \A v \in ViewsAt(s, o, w) : On(s, v) = o
<1>1. Fine(s) /\ Calm(s.group[o])
  BY DEF Housed, Shaped, Fine
<1>2. w # None
  BY <1>1, CalmFacts
<1>3. ASSUME NEW v \in ViewsAt(s, o, w) PROVE v \in Views /\ On(s, v) = o /\ v \in s.open
  <2>1. v \in Views /\ s.group[o].home[v] # None
    BY <1>2, <1>3 DEF ViewsAt
  <2>2. On(s, v) = o
    BY <1>1, <2>1, OnFacts
  <2> QED BY <2>1, <2>2, NoneFacts DEF Housed, Lodged
<1> QED BY <1>3

\* actionWorkspaceMoveToOutput, once a destination is found.
LEMMA TransferHouses ==
  ASSUME NEW s, NEW puts, Housed(s, {}, puts), AtRest(s, {}), NEW source \in Listed(s), NEW target \in Listed(s),
         s.desktop[target], NEW W, W = ViewsAt(s, source, s.group[source].active),
         NEW r, r = TransferDestination(s.group[target]), r.workspace # None,
         NEW a, a = Regrouped(s, target, r.group), NEW b, b = MoveAll(a, W, target, r.workspace),
         NEW t, t = Activate(b, target, r.workspace)
  PROVE  Housed(t, {}, Put(puts, W, target)) /\ AtRest(t, {})
<1>1. Shaped(s) /\ Fine(s) /\ source \in Outputs /\ target \in Outputs
  BY ListedFacts, Zenon DEF Housed, Shaped
<1>2. Calm(s.group[source]) /\ Calm(s.group[target]) /\ s.group[source].active \in Inventory!Live(s.group[source])
  BY <1>1, CalmFacts DEF Fine
<1>3. W \in SUBSET s.open /\ W \in SUBSET Views
  BY <1>1, <1>2, ViewsAtFacts
<1>4. PICK g, w : g = r.group /\ w = r.workspace
  OBVIOUS
<1>5. Calm(g) /\ g.home = s.group[target].home /\ w \in Inventory!Live(g)
  BY <1>2, <1>4, TransferCalm, Zenon DEF Serves
<1>6. TakesNone(s, target, g)
  BY <1>1, <1>5 DEF TakesNone, Fine
<1>7. /\ Fine(a) /\ OnlyGroups(s, a) /\ a.group[target] = g
      /\ \A p \in Outputs \ {target} : a.group[p] = s.group[p]
  BY <1>1, <1>4, <1>5, <1>6, Regroup
<1>8. \A p \in Outputs : a.group[p].home = s.group[p].home
  BY <1>5, <1>7
<1>9. SameWindows(s, a)
  <2>1. \A v \in Views : On(a, v) = On(s, v)
    BY <1>8, SameHomes
  <2> QED BY <1>7, <2>1 DEF OnlyGroups, DeskFields, SameWindows
<1>10. Housed(a, {}, puts) /\ AtRest(a, {})
  BY <1>7, <1>9, SameDesk, Zenon
<1>11. /\ a.listed = s.listed /\ a.desktop = s.desktop /\ a.open = s.open /\ w \in Inventory!Live(a.group[target])
       /\ a.home = [u \in Views |-> a.home[u]] /\ a.idle \in BOOLEAN
  BY <1>5, <1>7, <1>10, Zenon DEF OnlyGroups, DeskFields, Housed, Shaped
<1>12. Moves(a, b, W, target, w)
  <2>1. b = MoveAll(a, W, target, w)
    BY <1>4
  <2> QED BY <1>1, <1>3, <1>7, <1>11, <2>1, MoveAllMoves
<1>13. Housed(b, {}, Put(puts, W, target)) /\ AtRest(b, {})
  <2>1. W \in SUBSET a.open /\ target \in Listed(a) /\ a.desktop[target]
    BY <1>3, <1>11, SMTT(30) DEF Listed
  <2>2. AtRest(a, W)
    BY <1>10, Zenon DEF AtRest
  <2> QED BY <1>10, <1>12, <2>1, <2>2, MovesHouse
<1>14. w \in Inventory!Live(b.group[target])
  BY <1>12, Zenon DEF Moves
<1>15. PICK p : p = Put(puts, W, target)
  OBVIOUS
<1>16. Housed(t, {}, p) /\ AtRest(t, {})
  <2>1. t = Activate(b, target, w)
    BY <1>4
  <2> QED BY <1>1, <1>13, <1>14, <1>15, <2>1, ActivateHouses
<1> QED BY <1>15, <1>16

\* swapActiveWorkspaceWindows: the two transfers do not disturb each other.
LEMMA SwapHouses ==
  ASSUME NEW s, NEW puts, Housed(s, {}, puts), AtRest(s, {}), NEW a \in Listed(s), NEW b \in Listed(s),
         s.desktop[a], s.desktop[b], NEW V, V = ViewsAt(s, a, s.group[a].active),
         NEW W, W = ViewsAt(s, b, s.group[b].active),
         NEW r, r = MoveAll(s, V, b, s.group[b].active), NEW t, t = MoveAll(r, W, a, s.group[a].active)
  PROVE  Housed(t, {}, Put(Put(puts, V, b), W, a)) /\ AtRest(t, {})
<1>1. Shaped(s) /\ Fine(s) /\ a \in Outputs /\ b \in Outputs
  BY ListedFacts DEF Housed, Shaped
<1>2. PICK x, y : x = s.group[a].active /\ y = s.group[b].active
  OBVIOUS
<1>3. x \in Inventory!Live(s.group[a]) /\ y \in Inventory!Live(s.group[b])
  BY <1>1, <1>2, CalmFacts DEF Fine
<1>4. V = ViewsAt(s, a, x) /\ W = ViewsAt(s, b, y)
  BY <1>2
<1>5. V \in SUBSET s.open /\ V \in SUBSET Views /\ W \in SUBSET s.open /\ W \in SUBSET Views
  BY <1>1, <1>3, <1>4, ViewsAtFacts
<1>6. s.home = [u \in Views |-> s.home[u]] /\ s.idle \in BOOLEAN
  BY <1>1 DEF Shaped
<1>7. Moves(s, r, V, b, y)
  <2>1. r = MoveAll(s, V, b, y)
    BY <1>2
  <2> QED BY <1>1, <1>3, <1>5, <1>6, <2>1, MoveAllMoves
<1>8. PICK p : p = Put(puts, V, b)
  OBVIOUS
<1>9. Housed(r, {}, p) /\ AtRest(r, {})
  <2>1. AtRest(s, V)
    BY Zenon DEF AtRest
  <2> QED BY <1>5, <1>7, <1>8, <2>1, MovesHouse
<1>10. /\ Fine(r) /\ r.open = s.open /\ r.desktop = s.desktop /\ r.listed = s.listed
       /\ r.home = [u \in Views |-> r.home[u]] /\ r.idle \in BOOLEAN
  BY <1>7, <1>9, Zenon DEF Moves, DeskFields, Housed, Shaped
<1>11. x \in Inventory!Live(r.group[a])
  <2>1. r.group[a].active = x
    BY <1>1, <1>2, <1>7, Zenon DEF Moves, Puts
  <2>2. Calm(r.group[a])
    BY <1>1, <1>10, Zenon DEF Fine
  <2> QED BY <2>1, <2>2, CalmFacts, Zenon
<1>12. Moves(r, t, W, a, x)
  <2>1. t = MoveAll(r, W, a, x)
    BY <1>2
  <2> QED BY <1>1, <1>5, <1>10, <1>11, <2>1, MoveAllMoves
<1>13. Housed(t, {}, Put(p, W, a)) /\ AtRest(t, {})
  <2>1. W \in SUBSET r.open /\ a \in Listed(r) /\ r.desktop[a]
    BY <1>5, <1>10, SMTT(30) DEF Listed
  <2>2. AtRest(r, W)
    BY <1>9, Zenon DEF AtRest
  <2> QED BY <1>9, <1>12, <2>1, <2>2, MovesHouse
<1> QED BY <1>8, <1>13

-----------------------------------------------------------------------------
(* The order of the way home.                                              *)

\* Among some homes one can go first: none of the others is sooner.
LEMMA Soonest ==
  ASSUME NEW s, NEW T \in SUBSET Home, T # {}
  PROVE  \E m \in T : \A x \in T : ~Sooner(s, x, m)
<1> DEFINE here(h) == h.output \in Enabled(s)
           Before(U, V) == \A m \in V : \A x \in U \ V : ~Sooner(s, x, m)
<1>0. \A h \in T : h.output \in Nat /\ h.at.index \in Nat /\ h.protect \in BOOLEAN
  BY NoneFacts DEF Home, Place
<1>1. PICK A \in SUBSET T : A # {} /\ Before(T, A) /\ \A m, x \in A : here(m) <=> here(x)
  <2> DEFINE H == {h \in T : here(h)}
  <2>1. CASE H # {}
    <3>1. ASSUME NEW m \in H, NEW x \in T \ H PROVE ~Sooner(s, x, m)
      <4>1. here(m) /\ ~here(x)
        OBVIOUS
      <4> QED BY <4>1 DEF Sooner
    <3>2. \A m, x \in H : here(m) <=> here(x)
      OBVIOUS
    <3> QED BY <2>1, <3>1, <3>2
  <2>2. CASE H = {}
    <3>1. Before(T, T) /\ \A m, x \in T : here(m) <=> here(x)
      BY <2>2
    <3> QED BY <3>1
  <2> QED BY <2>1, <2>2
<1>2. PICK B \in SUBSET A : B # {} /\ Before(A, B) /\ \A m, x \in B : here(m) => (m.protect = x.protect)
  <2> DEFINE H == {h \in A : ~h.protect}
  <2>1. CASE H # {} /\ \A m \in A : here(m)
    <3>1. Before(A, H)
      BY <1>0, <2>1 DEF Sooner
    <3>2. \A m, x \in H : m.protect = x.protect
      BY <1>0
    <3> QED BY <2>1, <3>1, <3>2
  <2>2. CASE ~(H # {} /\ \A m \in A : here(m))
    <3>1. Before(A, A) /\ \A m, x \in A : here(m) => (m.protect = x.protect)
      BY <1>0, <1>1, <2>2
    <3> QED BY <1>1, <3>1
  <2> QED BY <2>1, <2>2
<1>3. PICK C \in SUBSET B : C # {} /\ Before(B, C) /\ \A m, x \in C : m.output = x.output
  <2> DEFINE N == {h.output : h \in B}
  <2>1. N \in SUBSET Nat /\ N # {}
    BY <1>0, <1>2
  <2>2. PICK n \in N : \A y \in N : n <= y
    <3> HIDE DEF N
    <3> QED BY <2>1, LeastOfNat
  <2> DEFINE H == {h \in B : h.output = n}
  <2>3. H # {}
    BY <2>2
  <2>4. Before(B, H)
    <3> SUFFICES ASSUME NEW m \in H, NEW x \in B \ H PROVE ~Sooner(s, x, m)
      OBVIOUS
    <3>1. x.output # m.output /\ n <= x.output /\ m.output = n /\ x.output \in Nat /\ n \in Nat
      BY <1>0, <2>1, <2>2
    <3>2. (here(x) <=> here(m)) /\ (here(x) => (x.protect = m.protect))
      BY <1>1, <1>2
    <3>3. ~(x.output < m.output)
      BY <3>1
    <3> QED BY <3>1, <3>2, <3>3 DEF Sooner
  <2> QED BY <2>3, <2>4
<1>4. PICK D \in SUBSET C : D # {} /\ Before(C, D) /\ \A m, x \in D : m.at.index = x.at.index
  <2> DEFINE N == {h.at.index : h \in C}
  <2>1. N \in SUBSET Nat /\ N # {}
    BY <1>0, <1>3
  <2>2. PICK n \in N : \A y \in N : n <= y
    <3> HIDE DEF N
    <3> QED BY <2>1, LeastOfNat
  <2> DEFINE H == {h \in C : h.at.index = n}
  <2>3. H # {}
    BY <2>2
  <2>4. Before(C, H)
    <3> SUFFICES ASSUME NEW m \in H, NEW x \in C \ H PROVE ~Sooner(s, x, m)
      OBVIOUS
    <3>1. x.at.index # m.at.index /\ n <= x.at.index /\ m.at.index = n /\ x.at.index \in Nat /\ n \in Nat
      BY <1>0, <2>1, <2>2
    <3>2. (here(x) <=> here(m)) /\ (here(x) => (x.protect = m.protect)) /\ x.output = m.output
      BY <1>1, <1>2, <1>3
    <3>3. ~(x.at.index < m.at.index)
      BY <3>1
    <3> QED BY <3>1, <3>2, <3>3 DEF Sooner
  <2> QED BY <2>3, <2>4
<1>5. \A m, x \in D : Sooner(s, x, m) => x.at.label = Anonymous /\ m.at.label # Anonymous
  <2> SUFFICES ASSUME NEW m \in D, NEW x \in D, Sooner(s, x, m) PROVE x.at.label = Anonymous /\ m.at.label # Anonymous
    OBVIOUS
  <2>1. /\ (here(x) <=> here(m)) /\ (here(x) => (x.protect = m.protect)) /\ x.output = m.output
        /\ x.at.index = m.at.index
    BY <1>1, <1>2, <1>3, <1>4
  <2> QED BY <2>1 DEF Sooner
<1>6. PICK m \in D : \A x \in D : ~Sooner(s, x, m)
  <2>1. CASE \E h \in D : h.at.label = Anonymous
    BY <1>5, <2>1
  <2>2. CASE ~ \E h \in D : h.at.label = Anonymous
    BY <1>4, <1>5, <2>2
  <2> QED BY <2>1, <2>2
<1>7. \A x \in T : ~Sooner(s, x, m)
  BY <1>1, <1>2, <1>3, <1>4, <1>6
<1> QED BY <1>7

\* std::map<DisplacedHome, ...> lists every home once.
LEMMA HomesInOrderFacts ==
  ASSUME NEW s, Shaped(s)
  PROVE  /\ HomesInOrder(s) \in Seq(HomesOf(s)) /\ ToSet(HomesInOrder(s)) = HomesOf(s)
         /\ IsInjective(HomesInOrder(s)) /\ HomesOf(s) \in SUBSET Home
<1> DEFINE P == HomesOf(s)
           q == HomesInOrder(s)
           R == {e \in P \X P : Sooner(s, e[1], e[2])}
<1>1. P \in SUBSET Home
  BY DEF Shaped, HomesOf
<1>2. IsFiniteSet(P)
  <2>0. IsFiniteSet(Views)
    BY HomesAssumption
  <2>1. IsFiniteSet({s.home[v] : v \in Views})
    <3>1. PICK h : h = s.home
      OBVIOUS
    <3>2. PICK N : N = {h[v] : v \in Views}
      OBVIOUS
    <3>3. h \in [Views -> N]
      BY <3>1, <3>2 DEF Shaped
    <3>4. h \in Surjection(Views, N)
      BY <3>2, <3>3 DEF Surjection
    <3>5. IsFiniteSet(N)
      BY <2>0, <3>4, FS_Surjection
    <3> QED BY <3>1, <3>2, <3>5
  <2> QED BY <2>1, FS_Subset DEF HomesOf
<1>3. \A a, b \in P : <<a, b>> \in R <=> Sooner(s, a, b)
  OBVIOUS
<1>4. HasFirsts(P, R)
  <2> SUFFICES ASSUME NEW T \in SUBSET P, T # {} PROVE \E m \in T : \A x \in T : <<x, m>> \notin R
    BY DEF HasFirsts
  <2>1. T \in SUBSET Home
    BY <1>1
  <2>2. PICK m \in T : \A x \in T : ~Sooner(s, x, m)
    BY <2>1, Soonest
  <2> QED BY <1>3, <2>2
<1> HIDE DEF R
<1>5. PICK l \in SetToSeqs(P) : Arranged(l, R)
  <2> HIDE DEF P
  <2> QED BY <1>2, <1>4, Arranging
<1>6. \A i, j \in DOMAIN l : i < j => ~Sooner(s, l[j], l[i])
  <2>1. \A i \in DOMAIN l : l[i] \in P
    BY DEF SetToSeqs
  <2> QED BY <1>3, <1>5, <2>1 DEF Arranged
<1>7. q \in SetToSeqs(P)
  BY <1>6, Zenon DEF HomesInOrder
<1> HIDE DEF q
<1>8. q \in Seq(P) /\ ToSet(q) = P /\ IsInjective(q)
  <2> HIDE DEF P
  <2> QED BY <1>2, <1>7, SetToSeqsFacts
<1> QED BY <1>1, <1>8 DEF q

-----------------------------------------------------------------------------
(* Going home.                                                             *)

\* On the way from s: everyone is somewhere it may be, a window that was put on
\* an output remembers a home there or is there, and one that was put nowhere
\* has no home to go to.
Returning(s, t, puts) ==
  /\ Shaped(t) /\ Remembers(t) /\ Lodged(t, {}) /\ SameOutputs(s, t)
  /\ \A v \in Views :
       IF puts[v] = None THEN t.home[v] = None
       ELSE puts[v] = IF t.home[v] # None THEN t.home[v].output ELSE On(t, v)

\* Who has a home that is there is at home.
AllHome(t) == \A v \in Views : t.home[v] # None /\ t.home[v].output \in Enabled(t) => On(t, v) = t.home[v].output

\* The windows of W are taken in by o: it is their home, or they were nowhere.
Takes(t, u, W, o) ==
  /\ Fine(u) /\ \E w : w # None /\ Puts(t, u, W, o, w)
  /\ \A f \in DeskFields \ {"group", "home"} : u[f] = t[f]
  /\ u.home \in [Views -> Home \cup {None}]
  /\ \A v \in Views \ W : u.home[v] = t.home[v]
  /\ \A v \in W : \/ t.home[v] # None /\ t.home[v].output = o /\ u.home[v] \in {t.home[v], None}
                  \/ u.home[v] = t.home[v] /\ On(t, v) = None

\* The window has the workspace it had.
Stays(t, u, v) == \A p \in Outputs : u.group[p].home[v] = t.group[p].home[v]

\* The windows that had home h in s are on one workspace of its output in t.
Gathered(s, t, h) == \E w : w # None /\ \A v \in Views : s.home[v] = h => t.group[h.output].home[v] = w

\* So are those of every home that is there.
AllGathered(s, t) == \A h \in HomesOf(s) : h.output \in Enabled(s) => Gathered(s, t, h)

\* A home is on an output.
LEMMA HomeIsSomewhere == ASSUME NEW s, Shaped(s), NEW v \in Views, s.home[v] # None
                         PROVE  s.home[v] \in Home /\ s.home[v].output \in Outputs /\ s.home[v].output # None
<1>1. s.home[v] \in Home
  BY DEF Shaped
<1> QED BY <1>1, NoneFacts DEF Home

LEMMA ReturningStarts ==
  ASSUME NEW s, NEW puts, Housed(s, {}, puts)
  PROVE  Returning(s, s, puts)
<1>1. \A v \in Views : IF puts[v] = None THEN s.home[v] = None
                       ELSE puts[v] = IF s.home[v] # None THEN s.home[v].output ELSE On(s, v)
  BY HomeIsSomewhere DEF Housed, Belongs
<1> QED BY <1>1 DEF Housed, Returning, SameOutputs

LEMMA TakesFacts ==
  ASSUME NEW s, NEW t, NEW puts, Returning(s, t, puts), NEW W \in SUBSET t.open, NEW o \in Enabled(s),
         NEW u, Takes(t, u, W, o)
  PROVE  Returning(s, u, puts) /\ \A v \in Views : On(u, v) = IF v \in W THEN o ELSE On(t, v)
<1>0. Shaped(t) /\ Fine(t) /\ Fine(u)
  BY DEF Returning, Shaped, Takes
<1>1. /\ u.listed = t.listed /\ u.desktop = t.desktop /\ u.asleep = t.asleep /\ u.open = t.open
      /\ u.idle = t.idle /\ u.chosen = t.chosen
  BY DEF Takes, DeskFields
<1>2. /\ t.listed = s.listed /\ t.desktop = s.desktop /\ t.asleep = s.asleep /\ t.open = s.open
      /\ t.idle = s.idle
  BY DEF Returning, SameOutputs
<1>3. Listed(t) = Listed(s) /\ Listed(u) = Listed(s) /\ Enabled(t) = Enabled(s)
  BY <1>1, <1>2 DEF Listed, Enabled
<1>4. o \in Listed(s) /\ o \in Outputs /\ o # None /\ s.desktop[o]
  BY <1>0, <1>3, ListedFacts DEF Enabled, Shaped
<1>5. \A v \in Views : On(u, v) = IF v \in W THEN o ELSE On(t, v)
  <2>1. PICK w : w # None /\ Puts(t, u, W, o, w)
    BY DEF Takes
  <2> QED BY <1>0, <1>4, <2>1, PutsOn
<1>6. Shaped(u)
  BY <1>0, <1>1 DEF Shaped, Takes
<1>7. W \in SUBSET Views
  BY <1>0 DEF Shaped
<1>8. ASSUME NEW v \in Views, On(u, v) # None
      PROVE  v \in u.open /\ On(u, v) \in Listed(u) /\ u.desktop[On(u, v)]
  BY <1>1, <1>2, <1>3, <1>4, <1>5, <1>8 DEF Returning, Lodged
<1>9. ASSUME NEW v \in Views, u.home[v] # None
      PROVE  v \in u.open /\ (u.home[v].protect => On(u, v) = u.home[v].output)
  <2>1. u.home[v] = t.home[v]
    BY <1>9 DEF Takes
  <2>2. v \in t.open /\ (t.home[v].protect => On(t, v) = t.home[v].output)
    BY <1>9, <2>1 DEF Returning, Remembers
  <2>3. t.home[v].output # None
    BY <1>0, <1>9, <2>1, HomeIsSomewhere
  <2>4. v \in W => t.home[v].output = o \/ On(t, v) = None
    BY DEF Takes
  <2> QED BY <1>1, <1>5, <2>1, <2>2, <2>3, <2>4
<1>10. ASSUME NEW v \in Views
       PROVE  IF puts[v] = None THEN u.home[v] = None
              ELSE puts[v] = IF u.home[v] # None THEN u.home[v].output ELSE On(u, v)
  <2>1. IF puts[v] = None THEN t.home[v] = None
        ELSE puts[v] = IF t.home[v] # None THEN t.home[v].output ELSE On(t, v)
    BY DEF Returning
  <2>2. CASE v \notin W
    <3>1. u.home[v] = t.home[v] /\ On(u, v) = On(t, v)
      BY <1>5, <2>2 DEF Takes
    <3> QED BY <2>1, <3>1
  <2>3. CASE v \in W
    <3>1. On(u, v) = o
      BY <1>5, <2>3
    <3>2. CASE t.home[v] # None /\ t.home[v].output = o /\ u.home[v] \in {t.home[v], None}
      BY <2>1, <3>1, <3>2
    <3>3. CASE u.home[v] = t.home[v] /\ On(t, v) = None
      BY <2>1, <3>3
    <3> QED BY <2>3, <3>2, <3>3 DEF Takes
  <2> QED BY <2>2, <2>3
<1>11. SameOutputs(s, u)
  BY <1>1, <1>2 DEF SameOutputs
<1>12. Lodged(u, {}) /\ Remembers(u)
  BY <1>8, <1>9 DEF Lodged, Remembers
<1> QED BY <1>5, <1>6, <1>10, <1>11, <1>12 DEF Returning

\* SetAll brings windows that are nowhere to the active workspace of an output.
\* The windows of W share a workspace of o; the others keep theirs.
Joins(t, u, W, o) ==
  /\ \A v \in Views \ W : Stays(t, u, v) /\ u.home[v] = t.home[v]
  /\ \E w : w # None /\ \A v \in W : u.group[o].home[v] = w

LEMMA TakesTogether ==
  ASSUME NEW t, NEW u, NEW W, W \in SUBSET Views, NEW o, o \in Outputs, Takes(t, u, W, o)
  PROVE  Joins(t, u, W, o)
<1>1. PICK w : w # None /\ Puts(t, u, W, o, w)
  BY DEF Takes
<1>2. \A p \in Outputs, v \in Views :
        u.group[p].home[v] = IF v \in W THEN IF p = o THEN w ELSE None ELSE t.group[p].home[v]
  <2>1. PICK x, y : x = t.group /\ y = u.group
    OBVIOUS
  <2>2. \A p \in Outputs : y[p].home = [v \in Views |-> IF v \in W THEN IF p = o THEN w ELSE None ELSE x[p].home[v]]
    BY <1>1, <2>1 DEF Puts
  <2> QED BY <2>1, <2>2
<1>3. \A v \in Views \ W : u.home[v] = t.home[v]
  BY DEF Takes
<1> QED BY <1>1, <1>2, <1>3 DEF Stays, Joins

LEMMA ShelterTakes ==
  ASSUME NEW s, NEW t, NEW puts, Returning(s, t, puts), NEW o \in Enabled(s), NEW W \in SUBSET Views,
         \A v \in W : On(t, v) = None, NEW u, u = Shelter(t, W, o)
  PROVE  Takes(t, u, W, o) /\ u.home = t.home
<1>0. Shaped(t) /\ Fine(t)
  BY DEF Returning, Shaped
<1>1. o \in Outputs
  <2>1. o \in Listed(t)
    BY DEF Enabled, Listed, Returning, SameOutputs
  <2> QED BY <1>0, <2>1, ListedFacts DEF Shaped
<1>2. PICK w : w = t.group[o].active
  OBVIOUS
<1>3. w \in Inventory!Live(t.group[o]) /\ w # None
  <2>1. Calm(t.group[o])
    BY <1>0, <1>1 DEF Fine
  <2> QED BY <1>2, <2>1, CalmFacts
<1>4. u = SetAll(t, W, o, w)
  BY <1>2 DEF Shelter
<1>5. Fine(u) /\ OnlyGroups(t, u) /\ Puts(t, u, W, o, w)
  BY <1>0, <1>1, <1>3, <1>4, SetAllPuts
<1>6. u.home = t.home
  BY <1>5 DEF OnlyGroups, DeskFields
<1>7. u.home \in [Views -> Home \cup {None}]
  BY <1>0, <1>6 DEF Shaped
<1>8. \A f \in DeskFields \ {"group", "home"} : u[f] = t[f]
  BY <1>5, Zenon DEF OnlyGroups
<1> QED BY <1>3, <1>5, <1>6, <1>7, <1>8 DEF Takes

\* The windows of one home are in its workspace, and remember it no longer
\* unless it protects a layout that is still disturbed.
LEMMA ReturnTakes ==
  ASSUME NEW s, NEW t, NEW puts, Returning(s, t, puts), NEW h \in Home, h.output \in Enabled(t),
         NEW W, W = {v \in Views : t.home[v] = h},
         NEW r, r = HomeWorkspace(t.group[h.output], h.at), NEW u, u = Return(t, W, h, r)
  PROVE  Takes(t, u, W, h.output)
<1>0. Shaped(t) /\ Fine(t) /\ W \in SUBSET Views
  BY DEF Returning, Shaped
<1>1. PICK o, g, w : o = h.output /\ g = r.group /\ w = r.workspace
  OBVIOUS
<1>2. o \in Outputs /\ h.at \in Place /\ h # None
  BY <1>1, NoneIsNoHome DEF Home
<1>3. Calm(t.group[o])
  BY <1>0, <1>2 DEF Fine
<1>4. /\ Calm(g) /\ g.home = t.group[o].home /\ g.active = t.group[o].active
      /\ w \in Inventory!Live(g) /\ w # None
  <2>1. PICK k, at : k = t.group[o] /\ at = h.at
    OBVIOUS
  <2>2. Calm(k) /\ at \in Place /\ r = HomeWorkspace(k, at)
    BY <1>1, <1>2, <1>3, <2>1
  <2>3. Serves(k, HomeWorkspace(k, at)) /\ HomeWorkspace(k, at).workspace # None
    BY <2>2, HomeWorkspaceCalm
  <2>4. Serves(k, r) /\ r.workspace # None
    BY <2>2, <2>3
  <2> QED BY <1>1, <2>1, <2>4 DEF Serves
<1>5. TakesNone(t, o, g)
  BY <1>0, <1>2, <1>4 DEF TakesNone, Fine
<1>6. PICK a : a = Regrouped(t, o, g)
  OBVIOUS
<1>7. /\ Fine(a) /\ OnlyGroups(t, a) /\ a.group[o] = g
      /\ \A p \in Outputs \ {o} : a.group[p] = t.group[p]
  BY <1>0, <1>2, <1>4, <1>5, <1>6, Regroup
<1>8. PICK b : b = SetAll(a, W, o, w)
  OBVIOUS
<1>9. Fine(b) /\ OnlyGroups(a, b) /\ Puts(a, b, W, o, w)
  BY <1>0, <1>2, <1>4, <1>7, <1>8, SetAllPuts
<1>10. Puts(t, b, W, o, w)
  <2>1. \A p \in Outputs : a.group[p].home = t.group[p].home /\ a.group[p].active = t.group[p].active
    BY <1>4, <1>7
  <2>2. PICK x, y, z : x = t.group /\ y = a.group /\ z = b.group
    OBVIOUS
  <2>3. \A p \in Outputs :
          /\ z[p].active = y[p].active
          /\ z[p].home = [v \in Views |-> IF v \in W THEN IF p = o THEN w ELSE None ELSE y[p].home[v]]
    BY <1>9, <2>2 DEF Puts
  <2>4. \A p \in Outputs :
          /\ z[p].active = x[p].active
          /\ z[p].home = [v \in Views |-> IF v \in W THEN IF p = o THEN w ELSE None ELSE x[p].home[v]]
    BY <2>1, <2>2, <2>3
  <2> QED BY <2>2, <2>4 DEF Puts
<1>11. u = Forget(b, W, h, r)
  BY <1>1, <1>6, <1>8 DEF Return, Regrouped
<1> DEFINE foreign == \E x \in ViewsAt(b, h.output, w) : b.home[x] # None /\ b.home[x].output # h.output
           gone(v) == v \in W /\ ~(h.protect /\ r.exact /\ foreign)
<1>12. u = [b EXCEPT !.home = [v \in Views |-> IF gone(v) THEN None ELSE b.home[v]]]
  BY <1>1, <1>11 DEF Forget
<1> HIDE DEF gone
<1>13. /\ u = [f \in DeskFields |-> u[f]] /\ u.group = b.group
       /\ \A f \in DeskFields \ {"home"} : u[f] = b[f]
       /\ u.home = [v \in Views |-> IF gone(v) THEN None ELSE b.home[v]]
  BY <1>9, <1>12 DEF Fine, DeskFields
<1>14. Fine(u)
  <2>1. SameInventories(b, u)
    BY <1>13 DEF SameInventories
  <2> QED BY <1>9, <2>1, SameGroups
<1>15. b.home = t.home
  BY <1>7, <1>9 DEF OnlyGroups, DeskFields
<1>16. u.home \in [Views -> Home \cup {None}]
  <2>1. \A v \in Views : t.home[v] \in Home \cup {None}
    BY <1>0 DEF Shaped
  <2>2. \A v \in Views : (IF gone(v) THEN None ELSE b.home[v]) \in Home \cup {None}
    BY <1>15, <2>1
  <2> QED BY <1>13, <2>2
<1>17. \A f \in DeskFields \ {"group", "home"} : u[f] = t[f]
  BY <1>7, <1>9, <1>13 DEF OnlyGroups
<1>18. \A v \in Views \ W : u.home[v] = t.home[v]
  BY <1>13, <1>15 DEF gone
<1>19. \A v \in W : t.home[v] # None /\ t.home[v].output = o /\ u.home[v] \in {t.home[v], None}
  BY <1>0, <1>1, <1>2, <1>13, <1>15
<1>20. Puts(t, u, W, o, w)
  <2>1. PICK x, y : x = b.group /\ y = t.group
    OBVIOUS
  <2>2. u.group = x
    BY <1>13, <2>1
  <2> QED BY <1>10, <2>1, <2>2 DEF Puts
<1> QED BY <1>1, <1>4, <1>14, <1>16, <1>17, <1>18, <1>19, <1>20, Zenon DEF Takes

\* restoreDisplacedGroup, whether the home is there or not.
LEMMA RestoreGroupFacts ==
  ASSUME NEW s, NEW t, NEW puts, Returning(s, t, puts), NEW h \in Home, NEW fallback \in Enabled(s),
         NEW u, u = RestoreGroup(t, h, fallback)
  PROVE  /\ Returning(s, u, puts)
         /\ \A v \in Views :
              /\ u.home[v] \in {t.home[v], None}
              /\ t.home[v] # h => On(u, v) = On(t, v)
              /\ t.home[v] = h /\ h.output \in Enabled(s) => On(u, v) = h.output
              /\ t.home[v] # h => Stays(t, u, v) /\ u.home[v] = t.home[v]
         /\ h.output \in Enabled(s) => Gathered(t, u, h)
<1>0. Shaped(t) /\ Enabled(t) = Enabled(s)
  BY DEF Returning, SameOutputs, Enabled, Listed
<1> DEFINE W == {v \in Views : t.home[v] = h}
<1>1. W \in SUBSET t.open /\ W \in SUBSET Views
  BY NoneIsNoHome DEF Returning, Remembers
<1>4. h.output \in Outputs /\ fallback \in Outputs
  <2>1. fallback \in Listed(t)
    BY <1>0 DEF Enabled
  <2> QED BY <1>0, <2>1, ListedFacts DEF Home, Shaped
<1>2. CASE h.output \in Enabled(t)
  <2>1. PICK r : r = HomeWorkspace(t.group[h.output], h.at)
    OBVIOUS
  <2>2. u = Return(t, W, h, r)
    BY <1>2, <2>1 DEF RestoreGroup
  <2>3. Takes(t, u, W, h.output)
    <3>1. PICK V : V = W
      OBVIOUS
    <3>2. Takes(t, u, V, h.output)
      BY <1>2, <2>1, <2>2, <3>1, ReturnTakes
    <3> QED BY <3>1, <3>2
  <2>4. PICK o : o = h.output
    OBVIOUS
  <2>5. o \in Enabled(s) /\ Takes(t, u, W, o)
    BY <1>0, <1>2, <2>3, <2>4
  <2> HIDE DEF W
  <2>6. Returning(s, u, puts) /\ \A v \in Views : On(u, v) = IF v \in W THEN o ELSE On(t, v)
    BY <1>1, <2>5, TakesFacts
  <2>7. \A v \in Views : u.home[v] \in {t.home[v], None}
    BY <2>5 DEF Takes
  <2>8. Joins(t, u, W, o)
    <3>1. o \in Outputs /\ W \in SUBSET Views /\ Takes(t, u, W, o)
      BY <1>1, <1>4, <2>4, <2>5
    <3> QED BY <3>1, TakesTogether
  <2>9. Gathered(t, u, h)
    BY <2>4, <2>8 DEF Gathered, Joins, W
  <2> QED BY <2>4, <2>6, <2>7, <2>8, <2>9 DEF W, Joins
<1>3. CASE h.output \notin Enabled(t)
  <2> DEFINE V == {v \in W : On(t, v) = None}
  <2>1. u = Shelter(t, V, fallback) /\ V \in SUBSET Views /\ V \in SUBSET t.open /\ \A v \in V : On(t, v) = None
    BY <1>1, <1>3 DEF RestoreGroup
  <2>2. V \in SUBSET W
    OBVIOUS
  <2> HIDE DEF V
  <2>3. Takes(t, u, V, fallback) /\ u.home = t.home
    BY <2>1, ShelterTakes
  <2>4. Returning(s, u, puts) /\ \A v \in Views : On(u, v) = IF v \in V THEN fallback ELSE On(t, v)
    BY <2>1, <2>3, TakesFacts
  <2>5. Joins(t, u, V, fallback)
    BY <1>4, <2>1, <2>3, TakesTogether
  <2> QED BY <1>0, <1>3, <2>2, <2>3, <2>4, <2>5 DEF Joins
<1> QED BY <1>2, <1>3

RestoreFold == INSTANCE FoldLemmas WITH Op <- LAMBDA a, b, s, h : RestoreGroup(s, h, a)

\* When every home has had its turn, who still has one that is there is at home.
LEMMA RestoreHomesFacts ==
  ASSUME NEW s, NEW puts, Returning(s, s, puts), NEW fallback \in Enabled(s),
         NEW t, t = RestoreHomes(s, fallback)
  PROVE  Returning(s, t, puts) /\ AllHome(t) /\ AllGathered(s, t)
<1> DEFINE q == HomesInOrder(s)
           P == HomesOf(s)
<1>0. Shaped(s)
  BY DEF Returning
<1>1. q \in Seq(P) /\ ToSet(q) = P /\ IsInjective(q) /\ P \in SUBSET Home
  BY <1>0, HomesInOrderFacts
<1>wellordered. RestoreFold!WellOrdered
  BY NatLeast DEF RestoreFold!WellOrdered
<1>2. PICK after :
        /\ after[0] = s
        /\ \A i \in 1 .. Len(q) : after[i] = RestoreGroup(after[i - 1], q[i], fallback)
        /\ RestoreFold!Result(fallback, None, s, q) = after[Len(q)]
  <2> HIDE DEF q, P
  <2> QED BY <1>1, <1>wellordered, RestoreFold!Folded
<1>3. RestoreHomes(s, fallback) = RestoreFold!Result(fallback, None, s, q)
  BY Zenon DEF RestoreHomes, FoldLeft, MapThenFoldSet, Max, RestoreFold!MapThenFoldSet,
               RestoreFold!Greatest, RestoreFold!Result
<1> HIDE DEF q
<1>4. /\ Len(q) \in Nat /\ DOMAIN q = 1 .. Len(q) /\ \A i \in 1 .. Len(q) : q[i] \in Home
      /\ \A i, j \in 1 .. Len(q) : q[i] = q[j] => i = j
  BY <1>1 DEF IsInjective
<1> DEFINE Past(i) == {q[j] : j \in 1 .. i}
           Sent(u, V) ==
             /\ Returning(s, u, puts)
             /\ \A v \in Views :
                  /\ u.home[v] \in {s.home[v], None}
                  /\ u.home[v] # None /\ u.home[v] \in V /\ u.home[v].output \in Enabled(s) =>
                       On(u, v) = u.home[v].output
                  /\ s.home[v] \notin V => u.home[v] = s.home[v]
             /\ \A h \in V : h.output \in Enabled(s) => Gathered(s, u, h)
           T == {i \in 0 .. Len(q) : Sent(after[i], Past(i))}
<1>5. 0 \in T
  <2>1. Past(0) = {}
    OBVIOUS
  <2>2. Sent(s, {})
    OBVIOUS
  <2> HIDE DEF Past, Sent
  <2>3. Sent(after[0], Past(0))
    BY <1>2, <2>1, <2>2, Zenon
  <2> QED BY <1>4, <2>3
<1>6. ASSUME NEW i \in 1 .. Len(q), i - 1 \in T PROVE i \in T
  <2>1. PICK a, h, b : a = after[i - 1] /\ h = q[i] /\ b = after[i]
    OBVIOUS
  <2>2. Past(i) = Past(i - 1) \cup {h} /\ h \notin Past(i - 1)
    <3>1. 1 .. i = (1 .. (i - 1)) \cup {i} /\ i \notin 1 .. (i - 1) /\ \A j \in 1 .. (i - 1) : j \in 1 .. Len(q)
      BY <1>4
    <3>2. \A j \in 1 .. (i - 1) : q[j] # q[i]
      BY <1>4, <3>1
    <3> QED BY <2>1, <3>1, <3>2
  <2>3. Sent(a, Past(i - 1)) /\ b = RestoreGroup(a, h, fallback) /\ h \in Home
    BY <1>2, <1>4, <1>6, <2>1
  <2> HIDE DEF Past
  <2>4. Returning(s, a, puts)
    BY <2>3
  <2>5. /\ Returning(s, b, puts)
        /\ \A v \in Views :
             /\ b.home[v] \in {a.home[v], None}
             /\ a.home[v] # h => On(b, v) = On(a, v)
             /\ a.home[v] = h /\ h.output \in Enabled(s) => On(b, v) = h.output
             /\ a.home[v] # h => Stays(a, b, v) /\ b.home[v] = a.home[v]
        /\ h.output \in Enabled(s) => Gathered(a, b, h)
    BY <2>3, <2>4, RestoreGroupFacts
  <2>6. ASSUME NEW k \in Past(i), k.output \in Enabled(s) PROVE Gathered(s, b, k)
    <3>1. CASE k = h
      <4>1. \A v \in Views : s.home[v] = h => a.home[v] = h
        BY <2>2, <2>3
      <4> QED BY <2>5, <2>6, <3>1, <4>1 DEF Gathered
    <3>2. CASE k # h
      <4>1. k \in Past(i - 1) /\ Gathered(s, a, k)
        BY <2>2, <2>3, <2>6, <3>2
      <4>2. k.output \in Outputs
        <5>1. s.listed \in Seq(Outputs)
          BY <1>0 DEF Shaped
        <5>2. Listed(s) \subseteq Outputs /\ Enabled(s) \subseteq Listed(s)
          BY <5>1, ListedFacts
        <5> QED BY <2>6, <5>2
      <4>3. h # None
        BY <2>3, NoneIsNoHome
      <4>4. \A v \in Views : s.home[v] = k => a.home[v] \in {k, None}
        BY <2>3
      <4>5. \A v \in Views : s.home[v] = k => Stays(a, b, v)
        BY <2>5, <3>2, <4>3, <4>4
      <4>6. PICK w : w # None /\ \A v \in Views : s.home[v] = k => a.group[k.output].home[v] = w
        BY <4>1 DEF Gathered
      <4>7. ASSUME NEW v \in Views, s.home[v] = k PROVE b.group[k.output].home[v] = w
        <5>1. b.group[k.output].home[v] = a.group[k.output].home[v]
          BY <4>2, <4>5, <4>7 DEF Stays
        <5> QED BY <4>6, <4>7, <5>1
      <4> QED BY <4>6, <4>7 DEF Gathered
    <3> QED BY <3>1, <3>2
  <2>7. Sent(b, Past(i))
    BY <2>2, <2>3, <2>5, <2>6
  <2> HIDE DEF Sent
  <2> QED BY <2>1, <2>7
<1>7. Len(q) \in T
  <2> HIDE DEF T
  <2>1. PICK n \in Nat : n = Len(q)
    BY <1>4
  <2>2. \A i \in 0 .. n : i \in T
    BY <1>5, <1>6, <2>1, LoopInvariant
  <2> QED BY <2>1, <2>2
<1>8. Past(Len(q)) = P
  BY <1>1, <1>4 DEF ToSet
<1>9. Sent(t, P)
  <2>1. t = after[Len(q)]
    BY <1>2, <1>3
  <2> HIDE DEF Past, Sent, P
  <2> QED BY <1>7, <1>8, <2>1
<1>10. Enabled(t) = Enabled(s)
  BY <1>9 DEF Returning, SameOutputs, Enabled, Listed
<1>11. \A v \in Views : t.home[v] # None => t.home[v] \in P
  BY <1>9 DEF HomesOf
<1>12. AllGathered(s, t)
  BY <1>9 DEF AllGathered
<1> QED BY <1>9, <1>10, <1>11, <1>12 DEF AllHome

\* And nobody who is open is nowhere.
LEMMA RestoreOrphansFacts ==
  ASSUME NEW s, NEW t, NEW puts, Returning(s, t, puts), AllHome(t), AllGathered(s, t), Shaped(s),
         NEW fallback \in Enabled(s), NEW u, u = RestoreOrphans(t, fallback)
  PROVE  Returning(s, u, puts) /\ AllHome(u) /\ AllGathered(s, u) /\ Orphans(u) = {}
<1>0. Shaped(t)
  BY DEF Returning
<1> DEFINE W == Orphans(t)
<1>1. W \in SUBSET t.open /\ W \in SUBSET Views /\ \A v \in W : On(t, v) = None
  BY <1>0 DEF Orphans, Shaped
<1>2. u = Shelter(t, W, fallback)
  BY DEF RestoreOrphans
<1> HIDE DEF W
<1>3. Takes(t, u, W, fallback) /\ u.home = t.home
  BY <1>1, <1>2, ShelterTakes
<1>4. Returning(s, u, puts) /\ \A v \in Views : On(u, v) = IF v \in W THEN fallback ELSE On(t, v)
  BY <1>1, <1>3, TakesFacts
<1>5. /\ Enabled(t) = Enabled(s) /\ Enabled(u) = Enabled(s) /\ u.open = t.open /\ t.open \in SUBSET Views
      /\ fallback # None
  <2>1. /\ Enabled(t) = Enabled(s) /\ Enabled(u) = Enabled(s) /\ u.open = t.open
    BY <1>4 DEF Returning, SameOutputs, Enabled, Listed
  <2>2. fallback \in Enabled(t) /\ None \notin Enabled(t)
    BY <1>0, <2>1, ListedFacts DEF Shaped
  <2> QED BY <1>0, <2>1, <2>2 DEF Shaped
<1>6. AllHome(u)
  <2> SUFFICES ASSUME NEW v \in Views, u.home[v] # None, u.home[v].output \in Enabled(u) PROVE On(u, v) = u.home[v].output
    BY DEF AllHome
  <2>1. t.home[v] # None /\ On(t, v) = t.home[v].output /\ t.home[v].output # None
    BY <1>0, <1>3, <1>5, HomeIsSomewhere DEF AllHome
  <2> QED BY <1>1, <1>3, <1>4, <2>1
<1>7. Orphans(u) = {}
  BY <1>4, <1>5 DEF Orphans, W
<1>8. Listed(s) \subseteq Outputs /\ Enabled(s) \subseteq Listed(s) /\ fallback \in Outputs
  <2>1. s.listed \in Seq(Outputs)
    BY DEF Shaped
  <2>2. Listed(s) \subseteq Outputs /\ Enabled(s) \subseteq Listed(s)
    BY <2>1, ListedFacts
  <2> QED BY <2>2
<1>9. Joins(t, u, W, fallback)
  BY <1>1, <1>3, <1>8, TakesTogether
<1>10. ASSUME NEW h \in HomesOf(s), h.output \in Enabled(s) PROVE Gathered(s, u, h)
  <2>1. PICK w : w # None /\ \A v \in Views : s.home[v] = h => t.group[h.output].home[v] = w
    BY <1>10 DEF AllGathered, Gathered
  <2>2. h.output \in Outputs
    BY <1>8, <1>10
  <2>3. ASSUME NEW v \in Views, s.home[v] = h PROVE u.group[h.output].home[v] = w
    <3>1. t.group[h.output].home[v] = w /\ w # None
      BY <2>1, <2>3
    <3>2. On(t, v) # None
      <4>1. Fine(t)
        BY <1>0 DEF Shaped
      <4> QED BY <2>2, <3>1, <4>1, OnFacts
    <3>3. Stays(t, u, v)
      BY <1>1, <1>9, <3>2 DEF Joins
    <3> QED BY <2>2, <3>1, <3>3 DEF Stays
  <2> QED BY <2>1, <2>3 DEF Gathered
<1>11. AllGathered(s, u)
  BY <1>10 DEF AllGathered
<1> QED BY <1>4, <1>6, <1>7, <1>11

-----------------------------------------------------------------------------
(* The selections of outputs that are back.                                *)

\* A selection is restored where one is remembered; no window moves.
Selects(s, t, o) ==
  /\ Fine(t) /\ \A f \in DeskFields \ {"group", "chosen"} : t[f] = s[f]
  /\ \A p \in Outputs : t.group[p].home = s.group[p].home
  /\ t.chosen = [s.chosen EXCEPT ![o] = None]

LEMMA RestoreSelectionFacts ==
  ASSUME NEW s, Fine(s), NEW o \in Outputs, s.chosen[o] \in Place, NEW t, t = RestoreSelection(s, o)
  PROVE  Selects(s, t, o)
<1> DEFINE at == s.chosen[o]
           g == s.group[o]
           r == IF at.label # Anonymous THEN [group |-> g, workspace |-> Named(g, at.label)]
                ELSE IF g.dynamic THEN AnonymousAt(g, at.index)
                ELSE [group |-> g, workspace |-> None]
           n == Inventory!Size(r.group) - 1
           w == IF r.workspace # None THEN r.workspace
                ELSE IF at.label = Anonymous /\ g.dynamic /\ at.index <= n THEN r.group.active
                ELSE Inventory!WorkspaceAt(r.group, IF at.index < n THEN at.index ELSE n)
<1>1. t = [Activate([s EXCEPT !.group[o] = r.group], o, w) EXCEPT !.chosen[o] = None]
  BY Zenon DEF RestoreSelection
<1>2. Calm(g) /\ at.index \in Nat
  BY DEF Fine, Place
<1>3. Serves(g, r)
  <2>1. CASE at.label # Anonymous
    <3>1. r = [group |-> g, workspace |-> Named(g, at.label)]
      BY <2>1
    <3> HIDE DEF r
    <3> QED BY <1>2, <3>1, NamedLive DEF Serves
  <2>2. CASE at.label = Anonymous /\ g.dynamic
    <3>1. r = AnonymousAt(g, at.index)
      BY <2>2
    <3> HIDE DEF r
    <3>2. PICK k, i : k = g /\ i = at.index
      OBVIOUS
    <3>3. Serves(k, AnonymousAt(k, i))
      BY <1>2, <3>2, AnonymousCalm
    <3> QED BY <3>1, <3>2, <3>3
  <2>3. CASE at.label = Anonymous /\ ~g.dynamic
    <3>1. r = [group |-> g, workspace |-> None]
      BY <2>3
    <3> HIDE DEF r
    <3> QED BY <1>2, <3>1 DEF Serves
  <2> QED BY <2>1, <2>2, <2>3
<1> HIDE DEF r
<1>4. PICK k : k = r.group
  OBVIOUS
<1>5. Calm(k) /\ k.home = g.home
  BY <1>3, <1>4 DEF Serves
<1>6. w \in Inventory!Live(k)
  <2>1. Inventory!Size(k) \in 1 .. MaxWorkspaces /\ MaxWorkspaces \in Nat /\ k.active \in Inventory!Live(k)
        /\ \A i \in 0 .. (Inventory!Size(k) - 1) : Inventory!WorkspaceAt(k, i) \in Inventory!Live(k)
    BY <1>5, CalmFacts, HomesAssumption
  <2>2. (IF at.index < n THEN at.index ELSE n) \in 0 .. (Inventory!Size(k) - 1)
    BY <1>2, <1>4, <2>1
  <2>3. r.workspace # None => r.workspace \in Inventory!Live(k)
    BY <1>3, <1>4 DEF Serves
  <2> QED BY <1>4, <2>1, <2>2, <2>3
<1>7. PICK x : x = w
  OBVIOUS
<1> HIDE DEF w
<1>8. TakesNone(s, o, k)
  BY <1>5 DEF TakesNone, Fine
<1>9. PICK a : a = Regrouped(s, o, k)
  OBVIOUS
<1>10. /\ Fine(a) /\ OnlyGroups(s, a) /\ a.group[o] = k
       /\ \A p \in Outputs \ {o} : a.group[p] = s.group[p]
  BY <1>5, <1>8, <1>9, Regroup
<1>11. PICK b : b = Activate(a, o, x)
  OBVIOUS
<1>12. x \in Inventory!Live(a.group[o])
  BY <1>6, <1>7, <1>10
<1>13. /\ SameWindows(a, b) /\ OnlyGroups(a, b) /\ \A p \in Outputs : b.group[p].home = a.group[p].home
  BY <1>10, <1>11, <1>12, ActivateSame
<1>14. t = [b EXCEPT !.chosen[o] = None]
  BY <1>1, <1>4, <1>7, <1>9, <1>11 DEF Regrouped
<1>15. Fine(b)
  BY <1>13 DEF SameWindows
<1>16. /\ t = [f \in DeskFields |-> t[f]] /\ t.group = b.group /\ t.chosen = [b.chosen EXCEPT ![o] = None]
       /\ \A f \in DeskFields \ {"chosen"} : t[f] = b[f]
  BY <1>14, <1>15 DEF Fine, DeskFields
<1>17. Fine(t)
  <2>1. SameInventories(b, t)
    BY <1>16 DEF SameInventories
  <2> QED BY <1>15, <2>1, SameGroups
<1>18. b.chosen = s.chosen
  BY <1>10, <1>13 DEF OnlyGroups, DeskFields
<1>19. \A f \in DeskFields \ {"group", "chosen"} : t[f] = s[f]
  BY <1>10, <1>13, <1>16 DEF OnlyGroups
<1>20. \A p \in Outputs : t.group[p].home = s.group[p].home
  <2>1. \A p \in Outputs : a.group[p].home = s.group[p].home
    BY <1>5, <1>10
  <2>2. PICK y, z : y = b.group /\ z = t.group
    OBVIOUS
  <2> QED BY <1>13, <1>16, <2>1, <2>2
<1> QED BY <1>16, <1>17, <1>18, <1>19, <1>20 DEF Selects

SelectFold == INSTANCE FoldLemmas WITH Op <- LAMBDA a, b, s, o : RestoreSelection(s, o)

\* Every window has the workspace it had.
SamePlaces(t, u) == \A p \in Outputs : u.group[p].home = t.group[p].home

\* restoreWorkspaceSelection for every output that is back: no window moves.
LEMMA RestoreSelectionsFacts ==
  ASSUME NEW s, NEW t, NEW puts, Returning(s, t, puts), AllHome(t), Orphans(t) = {},
         NEW u, u = RestoreSelections(t)
  PROVE  Returning(s, u, puts) /\ AllHome(u) /\ Orphans(u) = {} /\ SamePlaces(t, u)
<1> DEFINE S == {o \in Enabled(t) : t.chosen[o] # None}
           q == SetToSeq(S)
<1>0. Shaped(t) /\ Fine(t)
  BY DEF Returning, Shaped
<1>1. q \in Seq(S) /\ ToSet(q) = S /\ IsInjective(q) /\ S \in SUBSET Outputs
  <2>1. t.listed \in Seq(Outputs) /\ Enabled(t) \subseteq Listed(t) /\ Listed(t) \subseteq Outputs
    BY <1>0, ListedFacts DEF Shaped
  <2>2. IsFiniteSet(Listed(t))
    <3>1. PICK l, n, N : l = t.listed /\ n = Len(l) /\ N = Listed(t)
      OBVIOUS
    <3>2. n \in Nat /\ DOMAIN l = 1 .. n
      BY <2>1, <3>1
    <3>3. IsFiniteSet(1 .. n)
      BY <3>2, FS_Interval
    <3>4. N = {l[i] : i \in 1 .. n}
      BY <3>1, <3>2 DEF Listed
    <3>5. l \in Surjection(1 .. n, N)
      BY <2>1, <3>1, <3>2, <3>4 DEF Surjection
    <3>6. IsFiniteSet(N)
      BY <3>3, <3>5, FS_Surjection
    <3> QED BY <3>1, <3>6
  <2>3. IsFiniteSet(S)
    BY <2>1, <2>2, FS_Subset
  <2> HIDE DEF S
  <2>4. q \in Seq(S) /\ ToSet(q) = S /\ IsInjective(q)
    BY <2>3, SetToSeqFacts
  <2> QED BY <2>1, <2>4 DEF S
<1>wellordered. SelectFold!WellOrdered
  BY NatLeast DEF SelectFold!WellOrdered
<1>2. PICK after :
        /\ after[0] = t
        /\ \A i \in 1 .. Len(q) : after[i] = RestoreSelection(after[i - 1], q[i])
        /\ SelectFold!Result(None, None, t, q) = after[Len(q)]
  <2> HIDE DEF q, S
  <2>1. q \in Seq(S)
    BY <1>1
  <2> QED BY <2>1, <1>wellordered, SelectFold!Folded
<1>3. RestoreSelections(t) = SelectFold!Result(None, None, t, q)
  BY Zenon DEF RestoreSelections, FoldLeft, MapThenFoldSet, Max, SelectFold!MapThenFoldSet,
               SelectFold!Greatest, SelectFold!Result
<1> HIDE DEF q
<1>4. /\ Len(q) \in Nat /\ DOMAIN q = 1 .. Len(q)
      /\ \A i \in 1 .. Len(q) : q[i] \in Outputs /\ t.chosen[q[i]] \in Place
      /\ \A i, j \in 1 .. Len(q) : q[i] = q[j] => i = j
  <2>1. Len(q) \in Nat /\ DOMAIN q = 1 .. Len(q) /\ \A i \in 1 .. Len(q) : q[i] \in S
    BY <1>1
  <2>2. \A o \in S : o \in Outputs /\ t.chosen[o] \in Place
    BY <1>0, <1>1 DEF Shaped
  <2> QED BY <1>1, <2>1, <2>2 DEF IsInjective
<1> DEFINE Past(i) == {q[j] : j \in 1 .. i}
           Chosen(b, V) ==
             /\ Fine(b) /\ \A f \in DeskFields \ {"group", "chosen"} : b[f] = t[f]
             /\ \A p \in Outputs : b.group[p].home = t.group[p].home
             /\ b.chosen = [p \in Outputs |-> IF p \in V THEN None ELSE t.chosen[p]]
           T == {i \in 0 .. Len(q) : Chosen(after[i], Past(i))}
<1>5. 0 \in T
  <2>1. Past(0) = {}
    OBVIOUS
  <2>2. Chosen(t, {})
    BY <1>0 DEF Shaped
  <2> HIDE DEF Past, Chosen
  <2>3. Chosen(after[0], Past(0))
    BY <1>2, <2>1, <2>2, Zenon
  <2> QED BY <1>4, <2>3
<1>6. ASSUME NEW i \in 1 .. Len(q), i - 1 \in T PROVE i \in T
  <2>1. PICK a, o, b : a = after[i - 1] /\ o = q[i] /\ b = after[i]
    OBVIOUS
  <2>2. Past(i) = Past(i - 1) \cup {o} /\ o \notin Past(i - 1)
    <3>1. 1 .. i = (1 .. (i - 1)) \cup {i} /\ i \notin 1 .. (i - 1) /\ \A j \in 1 .. (i - 1) : j \in 1 .. Len(q)
      BY <1>4
    <3>2. \A j \in 1 .. (i - 1) : q[j] # q[i]
      BY <1>4, <3>1
    <3> QED BY <2>1, <3>1, <3>2
  <2>3. Chosen(a, Past(i - 1)) /\ b = RestoreSelection(a, o) /\ o \in Outputs /\ t.chosen[o] \in Place
    BY <1>2, <1>4, <1>6, <2>1
  <2> HIDE DEF Past
  <2>4. Fine(a) /\ a.chosen[o] \in Place
    BY <2>2, <2>3
  <2>5. Selects(a, b, o)
    BY <2>3, <2>4, RestoreSelectionFacts
  <2>6. b.chosen = [p \in Outputs |-> IF p \in Past(i) THEN None ELSE t.chosen[p]]
    <3>1. PICK c, d : c = a.chosen /\ d = b.chosen
      OBVIOUS
    <3>2. d = [c EXCEPT ![o] = None] /\ c = [p \in Outputs |-> IF p \in Past(i - 1) THEN None ELSE t.chosen[p]]
      BY <2>3, <2>5, <3>1 DEF Selects
    <3>3. PICK X, Y : X = Past(i - 1) /\ Y = Past(i)
      OBVIOUS
    <3>4. Y = X \cup {o} /\ o \notin X /\ c = [p \in Outputs |-> IF p \in X THEN None ELSE t.chosen[p]]
      BY <2>2, <3>2, <3>3
    <3>5. d = [p \in Outputs |-> IF p \in Y THEN None ELSE t.chosen[p]]
      BY <2>3, <3>2, <3>4
    <3> QED BY <3>1, <3>3, <3>5
  <2>7. Chosen(b, Past(i))
    BY <2>3, <2>5, <2>6 DEF Selects
  <2> HIDE DEF Chosen
  <2> QED BY <2>1, <2>7
<1>7. Len(q) \in T
  <2> HIDE DEF T
  <2>1. PICK n \in Nat : n = Len(q)
    BY <1>4
  <2>2. \A i \in 0 .. n : i \in T
    BY <1>5, <1>6, <2>1, LoopInvariant
  <2> QED BY <2>1, <2>2
<1>8. PICK V : Chosen(u, V)
  <2>1. u = after[Len(q)]
    BY <1>2, <1>3
  <2> HIDE DEF Past, Chosen
  <2> QED BY <1>7, <2>1
<1>9. \A v \in Views : On(u, v) = On(t, v)
  <2>1. \A p \in Outputs : u.group[p].home = t.group[p].home
    BY <1>8
  <2> QED BY <2>1, SameHomes
<1>10. /\ u.listed = t.listed /\ u.desktop = t.desktop /\ u.asleep = t.asleep /\ u.open = t.open
       /\ u.home = t.home /\ u.idle = t.idle
  BY <1>8 DEF DeskFields
<1>11. Listed(u) = Listed(t) /\ Enabled(u) = Enabled(t)
  BY <1>10 DEF Listed, Enabled
<1>12. u.chosen \in [Outputs -> Place \cup {None}]
  <2>1. \A p \in Outputs : (IF p \in V THEN None ELSE t.chosen[p]) \in Place \cup {None}
    BY <1>0 DEF Shaped
  <2>2. u.chosen = [p \in Outputs |-> IF p \in V THEN None ELSE t.chosen[p]]
    BY <1>8
  <2> QED BY <2>1, <2>2
<1>13. Shaped(u)
  BY <1>0, <1>8, <1>10, <1>12 DEF Shaped
<1>14. Remembers(u) /\ Lodged(u, {}) /\ SameOutputs(s, u)
  BY <1>9, <1>10, <1>11 DEF Returning, Remembers, Lodged, SameOutputs
<1>15. \A v \in Views : IF puts[v] = None THEN u.home[v] = None
                        ELSE puts[v] = IF u.home[v] # None THEN u.home[v].output ELSE On(u, v)
  BY <1>9, <1>10 DEF Returning
<1>16. AllHome(u)
  BY <1>9, <1>10, <1>11 DEF AllHome
<1>17. Orphans(u) = {}
  <2>1. t.open \in SUBSET Views
    BY <1>0 DEF Shaped
  <2> QED BY <1>9, <1>10, <2>1 DEF Orphans
<1>18. SamePlaces(t, u)
  BY <1>8 DEF SamePlaces
<1> QED BY <1>13, <1>14, <1>15, <1>16, <1>17, <1>18 DEF Returning

\* onDisplacedRestoreIdle runs; from here on no restore is pending.
Begun(s) == [s EXCEPT !.idle = FALSE]

\* The windows that had no place and have one now belong there.
Settled(t, puts) == [v \in Views |-> IF puts[v] = None THEN On(t, v) ELSE puts[v]]

\* After a restore everyone who can be at home is, and nobody is nowhere.
LEMMA RestoreIdleHouses ==
  ASSUME NEW d, NEW puts, Housed(d, {}, puts), NEW fallback \in Preferred(d), NEW s, s = Begun(d),
         NEW t, t = IF fallback = None THEN s ELSE RestoreDisplacedViews(s, fallback)
  PROVE  Housed(t, {}, Settled(t, puts)) /\ AtRest(t, {}) /\ AllGathered(d, t)
<1>1. /\ s = [f \in DeskFields |-> s[f]] /\ s.idle = FALSE /\ s.group = d.group /\ s.home = d.home
      /\ s.open = d.open /\ s.chosen = d.chosen /\ s.listed = d.listed /\ s.desktop = d.desktop
      /\ s.asleep = d.asleep
  BY DEF Begun, Housed, Shaped, Fine, DeskFields
<1>2. Fine(s) /\ \A v \in Views : On(s, v) = On(d, v)
  <2>1. SameInventories(d, s) /\ Fine(d)
    BY <1>1 DEF SameInventories, Housed, Shaped
  <2> QED BY <2>1, SameGroups
<1>3. SameWindows(d, s) /\ OutputsTyped(s)
  BY <1>1, <1>2 DEF SameWindows, OutputsTyped, Housed, Shaped
<1>4. Lodged(s, {})
  BY <1>1, <1>2 DEF Housed, Lodged, Listed
<1>5. Housed(s, {}, puts)
  BY <1>3, <1>4, Rehoused
<1>6. Enabled(s) = Enabled(d) /\ None \notin Enabled(d)
  <2>1. None \notin Listed(d)
    BY ListedFacts DEF Housed, Shaped
  <2> QED BY <1>1, <2>1 DEF Enabled, Listed
<1>7. Returning(s, s, puts)
  BY <1>5, ReturningStarts
<1>8. Returning(s, t, puts) /\ AllGathered(s, t) /\ (Enabled(s) # {} => AllHome(t) /\ Orphans(t) = {})
  <2>1. CASE fallback = None
    <3>1. Enabled(s) = {}
      BY <1>6, <2>1 DEF Preferred
    <3> QED BY <1>7, <2>1, <3>1 DEF AllGathered
  <2>2. CASE fallback # None
    <3>1. fallback \in Enabled(s)
      BY <1>6, <2>2 DEF Preferred
    <3>2. PICK a, b : a = RestoreHomes(s, fallback) /\ b = RestoreOrphans(a, fallback)
      OBVIOUS
    <3>3. t = RestoreSelections(b)
      BY <2>2, <3>2 DEF RestoreDisplacedViews
    <3>4. Returning(s, a, puts) /\ AllHome(a) /\ AllGathered(s, a)
      BY <1>7, <3>1, <3>2, RestoreHomesFacts
    <3>5. Returning(s, b, puts) /\ AllHome(b) /\ AllGathered(s, b) /\ Orphans(b) = {}
      <4>1. Shaped(s)
        BY <1>5 DEF Housed
      <4> QED BY <3>1, <3>2, <3>4, <4>1, RestoreOrphansFacts
    <3>6. Returning(s, t, puts) /\ AllHome(t) /\ Orphans(t) = {} /\ SamePlaces(b, t)
      BY <3>3, <3>5, RestoreSelectionsFacts
    <3>7. AllGathered(s, t)
      <4>1. \A h \in HomesOf(s) : h.output \in Enabled(s) => h.output \in Outputs
        <5>1. s.listed \in Seq(Outputs)
          BY <1>5 DEF Housed, Shaped
        <5>2. Listed(s) \subseteq Outputs /\ Enabled(s) \subseteq Listed(s)
          BY <5>1, ListedFacts
        <5> QED BY <5>2
      <4>2. ASSUME NEW h \in HomesOf(s), h.output \in Enabled(s) PROVE Gathered(s, t, h)
        <5>1. t.group[h.output].home = b.group[h.output].home
          BY <3>6, <4>1, <4>2 DEF SamePlaces
        <5>2. Gathered(s, b, h)
          BY <3>5, <4>2 DEF AllGathered
        <5>3. PICK w : w # None /\ \A v \in Views : s.home[v] = h => b.group[h.output].home[v] = w
          BY <5>2 DEF Gathered
        <5>4. \A v \in Views : s.home[v] = h => t.group[h.output].home[v] = w
          BY <5>1, <5>3
        <5> QED BY <5>3, <5>4 DEF Gathered
      <4> QED BY <4>2 DEF AllGathered
    <3> QED BY <3>6, <3>7
  <2> QED BY <2>1, <2>2
<1>9. Enabled(t) = Enabled(s)
  BY <1>8 DEF Returning, SameOutputs, Enabled, Listed
<1>10. AtRest(t, {})
  BY <1>8, <1>9 DEF AtRest, AllHome
<1>11. Belongs(t, Settled(t, puts))
  <2> SUFFICES ASSUME NEW v \in Views
               PROVE  Settled(t, puts)[v] = IF t.home[v] # None THEN t.home[v].output ELSE On(t, v)
    BY DEF Belongs
  <2>1. IF puts[v] = None THEN t.home[v] = None
        ELSE puts[v] = IF t.home[v] # None THEN t.home[v].output ELSE On(t, v)
    BY <1>8 DEF Returning
  <2>2. Settled(t, puts)[v] = IF puts[v] = None THEN On(t, v) ELSE puts[v]
    BY DEF Settled
  <2> QED BY <2>1, <2>2
<1>12. AllGathered(d, t)
  <2>1. HomesOf(d) = HomesOf(s)
    BY <1>1 DEF HomesOf
  <2>2. \A h : Gathered(s, t, h) => Gathered(d, t, h)
    BY <1>1 DEF Gathered
  <2> QED BY <1>6, <1>8, <2>1, <2>2, Zenon DEF AllGathered
<1> QED BY <1>8, <1>10, <1>11, <1>12 DEF Housed, Returning

-----------------------------------------------------------------------------
(* The invariant holds.                                                    *)

\* A session that has started has the outputs it was given, and no window.
LEMMA HomesStart == Init => HInv
<1> SUFFICES ASSUME Init PROVE HInv
  OBVIOUS
<1>1. /\ desk.listed = Present /\ desk.desktop = [o \in Outputs |-> \E i \in DOMAIN Present : Present[i] = o]
      /\ desk.asleep = [o \in Outputs |-> FALSE] /\ desk.group = [o \in Outputs |-> FirstGroup]
      /\ desk.open = {} /\ desk.home = [v \in Views |-> None] /\ desk.chosen = [o \in Outputs |-> None]
      /\ desk.idle = FALSE /\ desk = [f \in DeskFields |-> desk[f]]
  BY DEF Init, DeskFields
<1>2. placed = [v \in Views |-> None] /\ events = MaxEvents
  BY DEF Init
<1>3. Present \in Seq(Outputs) /\ IsInjective(Present) /\ MaxEvents \in Nat
  BY HomesAssumption, Zenon
<1>4. \A o \in Outputs, v \in Views : desk.group[o].home[v] = None
  BY <1>1, CalmStart
<1>5. Fine(desk)
  <2>1. \A o \in Outputs : Calm(desk.group[o])
    BY <1>1, CalmStart
  <2>2. desk.group = [o \in Outputs |-> desk.group[o]]
    BY <1>1
  <2> QED BY <1>1, <1>4, <2>1, <2>2 DEF Fine
<1>6. \A v \in Views : On(desk, v) = None
  BY <1>4 DEF On
<1>7. desk.desktop \in [Outputs -> BOOLEAN] /\ desk.asleep \in [Outputs -> BOOLEAN]
  <2> DEFINE There(o) == \E i \in DOMAIN Present : Present[i] = o
  <2>1. \A o \in Outputs : There(o) \in BOOLEAN
    OBVIOUS
  <2>2. desk.desktop = [o \in Outputs |-> There(o)]
    BY <1>1, Zenon
  <2> HIDE DEF There
  <2>3. desk.desktop \in [Outputs -> BOOLEAN]
    BY <2>1, <2>2, Zenon
  <2>4. desk.asleep \in [Outputs -> BOOLEAN]
    BY <1>1
  <2> QED BY <2>3, <2>4
<1>8. Shaped(desk)
  BY <1>1, <1>3, <1>5, <1>7 DEF Shaped
<1>9. Remembers(desk) /\ Lodged(desk, {}) /\ Belongs(desk, placed)
  BY <1>1, <1>2, <1>6 DEF Remembers, Lodged, Belongs
<1>10. AtRest(desk, {})
  BY <1>1 DEF AtRest, Orphans
<1>11. placed \in [Views -> Outputs \cup {None}] /\ events \in 0 .. MaxEvents
  BY <1>2, <1>3
<1> QED BY <1>8, <1>9, <1>10, <1>11 DEF HInv, Housed

\* What an event leaves of the bound.
LEMMA EventHappens == ASSUME events \in 0 .. MaxEvents, Happens PROVE events' \in 0 .. MaxEvents
<1>1. MaxEvents \in Nat
  BY HomesAssumption, Zenon
<1> QED BY <1>1 DEF Happens

\* The windows that are put somewhere are put on an output, or nowhere.
LEMMA PutTyped ==
  ASSUME NEW puts \in [Views -> Outputs \cup {None}], NEW W, NEW o \in Outputs \cup {None}
  PROVE  Put(puts, W, o) \in [Views -> Outputs \cup {None}]
BY DEF Put

\* A handler that leaves the windows where they were put.
LEMMA KeepsPlaced ==
  ASSUME HInv, Happens, placed' = placed, Housed(desk', {}, placed), AtRest(desk', {})
  PROVE  HInv'
<1>1. events' \in 0 .. MaxEvents
  BY EventHappens DEF HInv
<1> QED BY <1>1 DEF HInv

\* One that puts some of them on an output.
LEMMA ChangesPlaced ==
  ASSUME HInv, Happens, NEW puts, puts \in [Views -> Outputs \cup {None}], placed' = puts,
         Housed(desk', {}, puts), AtRest(desk', {})
  PROVE  HInv'
<1>1. events' \in 0 .. MaxEvents
  BY EventHappens DEF HInv
<1> QED BY <1>1 DEF HInv

\* addOutput
LEMMA AddOutputKeeps == ASSUME HInv, NEW o \in Outputs, NEW enabled \in BOOLEAN, AddOutput(o, enabled) PROVE HInv'
<1>1. PICK d, e : d = desk /\ e = desk'
  OBVIOUS
<1>2. Housed(d, {}, placed) /\ o \notin Listed(d)
  BY <1>1 DEF HInv, AddOutput
<1>3. e = Schedule([d EXCEPT !.listed = Append(@, o), !.desktop[o] = enabled,
                             !.asleep[o] = FALSE, !.group[o] = FirstGroup])
  BY <1>1 DEF AddOutput
<1>4. Housed(e, {}, placed) /\ AtRest(e, {})
  BY <1>2, <1>3, AddOutputHouses
<1> QED BY <1>1, <1>4, KeepsPlaced DEF AddOutput

\* removeOutput
LEMMA RemoveOutputKeeps == ASSUME HInv, NEW o \in Outputs, RemoveOutput(o) PROVE HInv'
<1>1. PICK d, s, e : d = desk /\ s = Evacuate(d, o) /\ e = desk'
  OBVIOUS
<1>2. Housed(d, {}, placed) /\ AtRest(d, {}) /\ o \in Listed(d)
  BY <1>1 DEF HInv, RemoveOutput
<1>3. e = Removal(s, o)
  BY <1>1 DEF RemoveOutput, Removal
<1>4. Housed(e, {}, placed) /\ AtRest(e, {})
  BY <1>1, <1>2, <1>3, RemoveOutputHouses
<1> QED BY <1>1, <1>4, KeepsPlaced DEF RemoveOutput

\* Output::setPowered
LEMMA SetPoweredKeeps == ASSUME HInv, NEW o \in Outputs, NEW powered \in BOOLEAN, SetPowered(o, powered) PROVE HInv'
<1>1. PICK d, s, e : d = desk /\ s = [d EXCEPT !.asleep[o] = ~powered] /\ e = desk'
  OBVIOUS
<1>2. Housed(d, {}, placed) /\ AtRest(d, {})
  BY <1>1 DEF HInv
<1>3. e = IF powered THEN Schedule(s) ELSE s
  BY <1>1 DEF SetPowered
<1>4. Housed(e, {}, placed) /\ AtRest(e, {})
  BY <1>1, <1>2, <1>3, SetPoweredHouses
<1> QED BY <1>1, <1>4, KeepsPlaced DEF SetPowered

\* applyOutputs after a reload: every listed output that is not on is evacuated.
LEMMA ReloadOutputsKeeps == ASSUME HInv, NEW on \in SUBSET Listed(desk), ReloadOutputs(on) PROVE HInv'
<1>1. PICK d, e, gone : d = desk /\ e = desk' /\ gone = Listed(d) \ on
  OBVIOUS
<1>2. Housed(d, {}, placed)
  BY <1>1 DEF HInv
<1>3. e = Schedule(ReassignAll(Enabling(d, on), gone))
  <2>1. Listed(Enabling(d, on)) = Listed(d)
    BY <1>2, EnablingHouses
  <2> QED BY <1>1, <2>1 DEF ReloadOutputs
<1>4. {o \in Listed(d) : d.desktop[o] /\ o \notin on} \subseteq gone /\ gone \subseteq Listed(d)
  BY <1>1
<1>5. Housed(e, {}, placed) /\ AtRest(e, {})
  BY <1>2, <1>3, <1>4, PolicyHouses
<1> QED BY <1>1, <1>5, KeepsPlaced DEF ReloadOutputs

\* One transaction of the output management: the outputs it turns off are evacuated.
LEMMA ManageOutputsKeeps == ASSUME HInv, NEW on \in SUBSET Listed(desk), ManageOutputs(on) PROVE HInv'
<1>1. PICK d, e, gone : d = desk /\ e = desk' /\ gone = {o \in Listed(d) : d.desktop[o] /\ o \notin on}
  OBVIOUS
<1>2. Housed(d, {}, placed)
  BY <1>1 DEF HInv
<1>3. e = Schedule(ReassignAll(Enabling(d, on), gone))
  BY <1>1 DEF ManageOutputs
<1>4. {o \in Listed(d) : d.desktop[o] /\ o \notin on} \subseteq gone /\ gone \subseteq Listed(d)
  BY <1>1
<1>5. Housed(e, {}, placed) /\ AtRest(e, {})
  BY <1>2, <1>3, <1>4, PolicyHouses
<1> QED BY <1>1, <1>5, KeepsPlaced DEF ManageOutputs

\* An act of the user that leaves every window where it was put.
LEMMA PutsAll ==
  ASSUME HInv, Happens, NEW W, NEW o \in Outputs \cup {None}, NEW puts, puts = Put(placed, W, o), placed' = puts,
         Housed(desk', {}, puts), AtRest(desk', {})
  PROVE  HInv'
<1>1. puts \in [Views -> Outputs \cup {None}]
  BY PutTyped DEF HInv
<1> QED BY <1>1, ChangesPlaced

\* A map
LEMMA OpenWindowKeeps == ASSUME HInv, NEW v \in Views, NEW o \in Outputs \cup {None}, OpenWindow(v, o) PROVE HInv'
<1>1. PICK d, s, e, puts : d = desk /\ s = Opened(d, v) /\ e = desk' /\ puts = Put(placed, {v}, o)
  OBVIOUS
<1>2. Housed(d, {}, placed) /\ AtRest(d, {}) /\ v \notin d.open /\ o \in Preferred(d)
  BY <1>1 DEF HInv, OpenWindow
<1>3. e = IF o = None THEN s ELSE SetWorkspace(s, v, o, s.group[o].active)
  BY <1>1 DEF OpenWindow, Opened
<1>4. Housed(e, {}, puts) /\ AtRest(e, {})
  BY <1>1, <1>2, <1>3, OpenHouses
<1>5. placed' = puts
  <2>1. placed' = [placed EXCEPT ![v] = o] /\ placed \in [Views -> Outputs \cup {None}]
    BY DEF HInv, OpenWindow
  <2>2. [placed EXCEPT ![v] = o] = Put(placed, {v}, o)
    BY <2>1 DEF Put
  <2> QED BY <1>1, <2>1, <2>2
<1> QED BY <1>1, <1>4, <1>5, PutsAll DEF OpenWindow

\* An unmap
LEMMA CloseWindowKeeps == ASSUME HInv, NEW v \in Views, CloseWindow(v) PROVE HInv'
<1>1. PICK d, r, s, e, puts : d = desk /\ r = Closed(d, v) /\ s = Detach(r, v) /\ e = desk' /\ puts = Put(placed, {v}, None)
  OBVIOUS
<1>2. Housed(d, {}, placed) /\ AtRest(d, {})
  BY <1>1 DEF HInv
<1>3. e = [s EXCEPT !.idle = @ \/ d.home[v] # None]
  BY <1>1 DEF CloseWindow, Closed
<1>4. Housed(e, {}, puts) /\ AtRest(e, {})
  BY <1>1, <1>2, <1>3, CloseHouses
<1>5. placed' = puts
  <2>1. placed' = [placed EXCEPT ![v] = None] /\ placed \in [Views -> Outputs \cup {None}]
    BY DEF HInv, CloseWindow
  <2>2. [placed EXCEPT ![v] = None] = Put(placed, {v}, None)
    BY <2>1 DEF Put
  <2> QED BY <1>1, <2>1, <2>2
<1> QED BY <1>1, <1>4, <1>5, PutsAll DEF CloseWindow

\* moveViewToWorkspace
LEMMA MoveWindowKeeps ==
  ASSUME HInv, NEW v \in Views, NEW o \in Outputs, NEW follow \in BOOLEAN,
         NEW w \in Inventory!Live(desk.group[o]), MoveWindow(v, o, w, follow)
  PROVE  HInv'
<1>1. PICK d, s, e, puts : d = desk /\ s = MoveTo(d, v, o, w) /\ e = desk' /\ puts = Put(placed, {v}, o)
  OBVIOUS
<1>2. /\ Housed(d, {}, placed) /\ AtRest(d, {}) /\ On(d, v) # None /\ o \in Listed(d) /\ d.desktop[o]
      /\ w \in Inventory!Live(d.group[o])
  BY <1>1 DEF HInv, MoveWindow
<1>3. e = IF follow THEN Activate(s, o, w) ELSE s
  BY <1>1 DEF MoveWindow
<1>4. Housed(e, {}, puts) /\ AtRest(e, {})
  BY <1>1, <1>2, <1>3, MoveWindowHouses
<1>5. placed' = puts
  <2>1. placed' = [placed EXCEPT ![v] = o] /\ placed \in [Views -> Outputs \cup {None}]
    BY DEF HInv, MoveWindow
  <2>2. [placed EXCEPT ![v] = o] = Put(placed, {v}, o)
    BY <2>1 DEF Put
  <2> QED BY <1>1, <2>1, <2>2
<1> QED BY <1>1, <1>4, <1>5, PutsAll DEF MoveWindow

\* activateWorkspace
LEMMA SelectWorkspaceKeeps ==
  ASSUME HInv, NEW o \in Outputs, NEW w \in Inventory!Live(desk.group[o]), SelectWorkspace(o, w) PROVE HInv'
<1>1. PICK d, e : d = desk /\ e = desk'
  OBVIOUS
<1>2. Housed(d, {}, placed) /\ AtRest(d, {}) /\ w \in Inventory!Live(d.group[o])
  BY <1>1 DEF HInv
<1>3. e = Activate(d, o, w)
  BY <1>1 DEF SelectWorkspace
<1>4. Housed(e, {}, placed) /\ AtRest(e, {})
  BY <1>2, <1>3, ActivateHouses
<1> QED BY <1>1, <1>4, KeepsPlaced DEF SelectWorkspace

\* actionWorkspaceMoveToOutput
LEMMA MoveWorkspaceToOutputKeeps ==
  ASSUME HInv, NEW source \in Outputs, NEW target \in Outputs, MoveWorkspaceToOutput(source, target) PROVE HInv'
<1>1. PICK d, W, r, a, b, e, puts :
        /\ d = desk /\ W = ViewsAt(d, source, d.group[source].active)
        /\ r = TransferDestination(d.group[target]) /\ a = Regrouped(d, target, r.group)
        /\ b = MoveAll(a, W, target, r.workspace) /\ e = desk' /\ puts = Put(placed, W, target)
  OBVIOUS
<1>2. /\ Housed(d, {}, placed) /\ AtRest(d, {}) /\ source \in Listed(d) /\ target \in Listed(d)
      /\ d.desktop[target] /\ r.workspace # None
  BY <1>1 DEF HInv, MoveWorkspaceToOutput
<1>3. e = Activate(b, target, r.workspace)
  BY <1>1 DEF MoveWorkspaceToOutput, Regrouped
<1>4. Housed(e, {}, puts) /\ AtRest(e, {})
  BY <1>1, <1>2, <1>3, TransferHouses
<1>5. placed' = puts
  BY <1>1 DEF MoveWorkspaceToOutput, Put
<1>6. Happens
  BY DEF MoveWorkspaceToOutput
<1> QED BY <1>1, <1>4, <1>5, <1>6, PutsAll

\* swapActiveWorkspaceWindows: nobody is on both workspaces.
LEMMA SwapWorkspacesKeeps == ASSUME HInv, NEW a \in Outputs, NEW b \in Outputs, SwapWorkspaces(a, b) PROVE HInv'
<1>1. PICK d, x, y, V, W, r, e, first, puts :
        /\ d = desk /\ x = d.group[a].active /\ y = d.group[b].active /\ V = ViewsAt(d, a, x) /\ W = ViewsAt(d, b, y)
        /\ r = MoveAll(d, V, b, y) /\ e = desk' /\ first = Put(placed, V, b) /\ puts = Put(first, W, a)
  OBVIOUS
<1>2. Housed(d, {}, placed) /\ AtRest(d, {}) /\ a \in Listed(d) /\ b \in Listed(d) /\ d.desktop[a] /\ d.desktop[b]
  BY <1>1 DEF HInv, SwapWorkspaces
<1>3. e = MoveAll(r, W, a, x)
  BY <1>1 DEF SwapWorkspaces
<1>4. Housed(e, {}, puts) /\ AtRest(e, {})
  BY <1>1, <1>2, <1>3, SwapHouses
<1>5. a # b
  BY NoneFacts DEF SwapWorkspaces
<1>6. \A v \in V : v \notin W
  <2>1. Fine(d) /\ x \in Inventory!Live(d.group[a]) /\ y \in Inventory!Live(d.group[b])
    BY <1>1, <1>2, CalmFacts DEF Housed, Shaped, Fine
  <2>2. (\A v \in V : On(d, v) = a) /\ (\A v \in W : On(d, v) = b)
    BY <1>1, <1>2, <2>1, ViewsAtFacts
  <2> QED BY <1>5, <2>2, Zenon
<1>7. placed' = puts
  <2>1. placed' = [v \in Views |-> CASE d.group[a].home[v] = x -> b
                                     [] d.group[b].home[v] = y -> a
                                     [] OTHER -> placed[v]]
    BY <1>1 DEF SwapWorkspaces
  <2>2. \A v \in Views : (v \in V <=> d.group[a].home[v] = x) /\ (v \in W <=> d.group[b].home[v] = y)
    BY <1>1 DEF ViewsAt
  <2>3. puts = [v \in Views |-> IF v \in W THEN a ELSE IF v \in V THEN b ELSE placed[v]]
    BY <1>1 DEF Put
  <2>4. placed' = [v \in Views |-> IF v \in W THEN a ELSE IF v \in V THEN b ELSE placed[v]]
    BY <1>6, <2>1, <2>2
  <2> QED BY <2>3, <2>4
<1>8. first \in [Views -> Outputs \cup {None}]
  BY <1>1, PutTyped DEF HInv
<1>9. puts \in [Views -> Outputs \cup {None}]
  BY <1>1, <1>8, PutTyped
<1>10. Happens
  BY DEF SwapWorkspaces
<1> QED BY <1>1, <1>4, <1>7, <1>9, <1>10, ChangesPlaced

\* onDisplacedRestoreIdle
LEMMA RestoreIdleKeeps == ASSUME HInv, NEW fallback \in Outputs \cup {None}, RestoreIdle(fallback) PROVE HInv'
<1>1. PICK d, s, e, puts : d = desk /\ s = Begun(d) /\ e = desk' /\ puts = Settled(e, placed)
  OBVIOUS
<1>2. Housed(d, {}, placed) /\ fallback \in Preferred(d)
  BY <1>1 DEF HInv, RestoreIdle
<1>3. e = IF fallback = None THEN s ELSE RestoreDisplacedViews(s, fallback)
  BY <1>1 DEF RestoreIdle, Begun
<1>4. Housed(e, {}, puts) /\ AtRest(e, {})
  BY <1>1, <1>2, <1>3, RestoreIdleHouses
<1>5. placed' = puts
  BY <1>1 DEF RestoreIdle, Settled
<1>6. puts \in [Views -> Outputs \cup {None}]
  <2>1. \A v \in Views : On(e, v) \in Outputs \cup {None}
    BY <1>4, OnFacts DEF Housed, Shaped
  <2>2. \A v \in Views : (IF placed[v] = None THEN On(e, v) ELSE placed[v]) \in Outputs \cup {None}
    BY <2>1 DEF HInv
  <2> QED BY <1>1, <2>2 DEF Settled
<1>7. events' = events
  BY DEF RestoreIdle
<1> QED BY <1>1, <1>4, <1>5, <1>6, <1>7 DEF HInv

\* Every handler, and an idle moment, keeps the invariant.
LEMMA HomesStep == HInv /\ [Next]_vars => HInv'
<1> SUFFICES ASSUME HInv, [Next]_vars PROVE HInv'
  OBVIOUS
<1>1. CASE OutputNext
  <2>1. ASSUME NEW o \in Outputs, NEW b \in BOOLEAN, AddOutput(o, b) \/ SetPowered(o, b) PROVE HInv'
    BY <2>1, AddOutputKeeps, SetPoweredKeeps
  <2>2. ASSUME NEW o \in Outputs, RemoveOutput(o) PROVE HInv'
    BY <2>2, RemoveOutputKeeps
  <2>3. ASSUME NEW on \in SUBSET Listed(desk), ReloadOutputs(on) \/ ManageOutputs(on) PROVE HInv'
    BY <2>3, ReloadOutputsKeeps, ManageOutputsKeeps
  <2> QED BY <1>1, <2>1, <2>2, <2>3, Zenon DEF OutputNext
<1>2. CASE UserNext
  <2>1. ASSUME NEW v \in Views, NEW o \in Outputs \cup {None}, OpenWindow(v, o) PROVE HInv'
    BY <2>1, OpenWindowKeeps
  <2>2. ASSUME NEW v \in Views, CloseWindow(v) PROVE HInv'
    BY <2>2, CloseWindowKeeps
  <2>3. ASSUME NEW v \in Views, NEW o \in Outputs, NEW follow \in BOOLEAN,
               NEW w \in Inventory!Live(desk.group[o]), MoveWindow(v, o, w, follow)
        PROVE  HInv'
    BY <2>3, MoveWindowKeeps
  <2>4. ASSUME NEW o \in Outputs, NEW w \in Inventory!Live(desk.group[o]), SelectWorkspace(o, w) PROVE HInv'
    BY <2>4, SelectWorkspaceKeeps
  <2>5. ASSUME NEW a \in Outputs, NEW b \in Outputs, MoveWorkspaceToOutput(a, b) PROVE HInv'
    BY <2>5, MoveWorkspaceToOutputKeeps
  <2>6. ASSUME NEW a \in Outputs, NEW b \in Outputs, SwapWorkspaces(a, b) PROVE HInv'
    BY <2>6, SwapWorkspacesKeeps
  <2> QED BY <1>2, <2>1, <2>2, <2>3, <2>4, <2>5, <2>6, Zenon DEF UserNext
<1>3. CASE \E o \in Outputs \cup {None} : RestoreIdle(o)
  BY <1>3, RestoreIdleKeeps, Zenon
<1>4. CASE UNCHANGED vars
  <2>1. desk' = desk /\ placed' = placed /\ events' = events
    BY <1>4 DEF vars
  <2>2. Housed(desk', {}, placed') /\ AtRest(desk', {})
    BY <2>1, Zenon DEF HInv
  <2> QED BY <2>1, <2>2 DEF HInv
<1> QED BY <1>1, <1>2, <1>3, <1>4, Zenon DEF Next

\* Through every sequence of outputs that leave, come back, fall asleep and
\* are reconfigured, of acts of the user and of restores, the desktop stays
\* well formed, every window stays on an output of the desktop or nowhere, and
\* belongs where it was put last: there, or with that output as its home.
THEOREM HomesInvariance == Spec => []HInv
<1>1. Init => HInv
  BY HomesStart
<1>2. HInv /\ [Next]_vars => HInv'
  BY HomesStep
<1> QED BY <1>1, <1>2, PTL DEF Spec

-----------------------------------------------------------------------------
(* What it gives.                                                          *)

LEMMA InvariantIsTyped == HInv => TypeOK
<1> SUFFICES ASSUME HInv PROVE TypeOK
  OBVIOUS
<1>1. Shaped(desk) /\ Fine(desk) /\ Remembers(desk) /\ Lodged(desk, {})
  BY DEF HInv, Housed, Shaped
<1>2. \A o \in Outputs : Inventory!WellTyped(desk.group[o]) /\ Inventory!PointsAtLive(desk.group[o])
  BY <1>1, CalmFacts DEF Fine
<1>3. ASSUME NEW v \in Views, NEW o \in Outputs, desk.group[o].home[v] # None
      PROVE  v \in desk.open /\ On(desk, v) = o /\ o \in Listed(desk)
  <2>1. On(desk, v) = o
    BY <1>1, <1>3, OnFacts
  <2> QED BY <1>1, <2>1, NoneFacts DEF Lodged
<1>4. desk = [f \in DeskFields |-> desk[f]]
  BY <1>1 DEF Fine
<1>5. \A v \in Views : desk.home[v] # None =>
        v \in desk.open /\ (desk.home[v].protect => On(desk, v) = desk.home[v].output)
  BY <1>1 DEF Remembers
<1>6. events \in 0 .. MaxEvents /\ placed \in [Views -> Outputs \cup {None}]
  BY DEF HInv
<1> HIDE DEF HInv
<1> QED BY <1>1, <1>2, <1>3, <1>4, <1>5, <1>6 DEF TypeOK, Shaped

LEMMA InvariantKeepsDisabledEmpty == HInv => DisabledIsEmpty
BY DEF HInv, Housed, Lodged, DisabledIsEmpty

LEMMA InvariantLosesNobody == HInv => NobodyLost
BY DEF HInv, AtRest, NobodyLost

LEMMA InvariantBringsBack == HInv => BackOnItsOutput
<1> SUFFICES ASSUME HInv, ~desk.idle, NEW v \in Views, placed[v] \in Enabled(desk)
             PROVE  On(desk, v) = placed[v]
  BY DEF BackOnItsOutput
<1>1. placed[v] = IF desk.home[v] # None THEN desk.home[v].output ELSE On(desk, v)
  BY DEF HInv, Housed, Belongs
<1>2. desk.home[v] # None /\ desk.home[v].output \in Enabled(desk) => On(desk, v) = desk.home[v].output
  BY DEF HInv, AtRest
<1> QED BY <1>1, <1>2

\* For every number of outputs and windows, every workspace configuration and
\* every sequence of events the server's outputs, inventories and homes keep
\* their shape: a window has one place at most, on an output that is listed;
\* only open windows have a place or a home; and a home that merely protects a
\* layout is where the window is (view.h).
THEOREM HomesTyped == Spec => []TypeOK
BY HomesInvariance, InvariantIsTyped, PTL

\* No window is on an output that is not on the desktop, not even between the
\* reload or the transaction that disables it and the restore: every way of
\* disabling an output (applyOutputs, the output management, removeOutput)
\* evacuates it before it returns.
THEOREM NothingStaysBehind == Spec => []DisabledIsEmpty
BY HomesInvariance, InvariantKeepsDisabledEmpty, PTL

\* Once no restore is pending every open window has a workspace, as long as
\* some output is enabled: evacuation to no refuge, a map with no output and a
\* restore whose home is missing leave nobody behind for good.
THEOREM EverybodyIsSomewhere == Spec => []NobodyLost
BY HomesInvariance, InvariantLosesNobody, PTL

\* Once no restore is pending every window whose output is enabled is on it,
\* the output its user put it on or it opened on, whatever outputs left and
\* returned meanwhile and through whatever refuges it went.
THEOREM EverybodyComesHome == Spec => []BackOnItsOutput
BY HomesInvariance, InvariantBringsBack, PTL

\* Windows that shared a workspace when their output left share one on that
\* output when it is back: the half of CompanyKept that holds for every
\* configuration.  (The other half does not: homes whose workspaces are no
\* more, or have no room, share the active workspace.)
CompanyTogether ==
  [][(\E o \in Outputs : RestoreIdle(o)) =>
       \A u, v \in Views :
         LET a == desk.home[u]
             b == desk.home[v]
         IN (AwayFrom(a) /\ AwayFrom(b) /\ a.output = b.output /\ a.at = b.at) =>
              /\ desk'.group[a.output].home[u] # None
              /\ desk'.group[a.output].home[u] = desk'.group[b.output].home[v]]_vars

\* A restore brings the windows of one home to one workspace.
LEMMA RestoreGathers == ASSUME HInv, NEW fallback \in Outputs \cup {None}, RestoreIdle(fallback) PROVE AllGathered(desk, desk')
<1>1. PICK d, s, e : d = desk /\ s = Begun(d) /\ e = desk'
  OBVIOUS
<1>2. Housed(d, {}, placed) /\ fallback \in Preferred(d)
  BY <1>1 DEF HInv, RestoreIdle
<1>3. e = IF fallback = None THEN s ELSE RestoreDisplacedViews(s, fallback)
  BY <1>1 DEF RestoreIdle, Begun
<1>4. AllGathered(d, e)
  BY <1>1, <1>2, <1>3, RestoreIdleHouses
<1> QED BY <1>1, <1>4

\* Two windows that are away from the same place have the same home.
LEMMA SameHome ==
  ASSUME NEW a \in Home, NEW b \in Home, ~a.protect, ~b.protect, a.output = b.output, a.at = b.at
  PROVE  a = b
BY DEF Home

\* The windows of one home go home together, though the inventories prune,
\* renumber and replenish themselves between any two of the moves, and though
\* refugees, orphans and selections are restored in between and afterwards.
THEOREM CompanyStaysTogether == Spec => CompanyTogether
<1>1. ASSUME HInv, NEW o \in Outputs, RestoreIdle(o), NEW u \in Views, NEW v \in Views,
             NEW a, a = desk.home[u], NEW b, b = desk.home[v],
             AwayFrom(a), AwayFrom(b), a.output = b.output, a.at = b.at
      PROVE  /\ desk'.group[a.output].home[u] # None
             /\ desk'.group[a.output].home[u] = desk'.group[b.output].home[v]
  <2>1. AllGathered(desk, desk')
    BY <1>1, RestoreGathers
  <2>2. a \in Home /\ b \in Home /\ a # None
    BY <1>1 DEF AwayFrom, HInv, Housed, Shaped
  <2>3. a = b
    BY <1>1, <2>2, SameHome DEF AwayFrom
  <2>4. a \in HomesOf(desk) /\ a.output \in Enabled(desk)
    BY <1>1, <2>2 DEF HomesOf, AwayFrom
  <2>5. PICK w : w # None /\ \A x \in Views : desk.home[x] = a => desk'.group[a.output].home[x] = w
    BY <2>1, <2>4 DEF AllGathered, Gathered
  <2>6. desk'.group[a.output].home[u] = w /\ desk'.group[a.output].home[v] = w
    BY <1>1, <2>3, <2>5
  <2> QED BY <2>3, <2>5, <2>6
<1>2. ASSUME HInv, \E o \in Outputs : RestoreIdle(o), NEW u \in Views, NEW v \in Views
      PROVE  LET a == desk.home[u]
                 b == desk.home[v]
             IN (AwayFrom(a) /\ AwayFrom(b) /\ a.output = b.output /\ a.at = b.at) =>
                  /\ desk'.group[a.output].home[u] # None
                  /\ desk'.group[a.output].home[u] = desk'.group[b.output].home[v]
  <2>1. PICK o \in Outputs : RestoreIdle(o)
    BY <1>2
  <2>2. PICK a, b : a = desk.home[u] /\ b = desk.home[v]
    OBVIOUS
  <2>3. (AwayFrom(a) /\ AwayFrom(b) /\ a.output = b.output /\ a.at = b.at) =>
          /\ desk'.group[a.output].home[u] # None
          /\ desk'.group[a.output].home[u] = desk'.group[b.output].home[v]
    BY <1>1, <1>2, <2>1, <2>2
  <2> QED BY <2>2, <2>3
<1>3. HInv /\ [Next]_vars =>
        [(\E o \in Outputs : RestoreIdle(o)) =>
           \A u, v \in Views :
             LET a == desk.home[u]
                 b == desk.home[v]
             IN (AwayFrom(a) /\ AwayFrom(b) /\ a.output = b.output /\ a.at = b.at) =>
                  /\ desk'.group[a.output].home[u] # None
                  /\ desk'.group[a.output].home[u] = desk'.group[b.output].home[v]]_vars
  BY <1>2, Zenon
<1> QED BY <1>3, HomesInvariance, PTL DEF Spec, CompanyTogether
=============================================================================
